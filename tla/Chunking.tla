------------------------------ MODULE Chunking -----------------------------
(***************************************************************************)
(* chunking.py: how a text becomes the chunks that are embedded and        *)
(* served, and how a reader gets the text back from them.  A file is       *)
(* Markdown, line by line, or what an extractor read of it, page by page;  *)
(* here it is written by its author one piece at a time, and cut anew.     *)
(*                                                                         *)
(* A text is a sequence of characters, of which " " and "/" (the end of a  *)
(* line) are white.  A title is on one line, and white at neither end.     *)
(* The code asks for a Target of at least 50; nothing below depends on how *)
(* large it is, if a piece has room beside the overlap and what joins      *)
(* them.  A file of more than max_chunks is refused whole, as KbIngest has *)
(* it.                                                                     *)
(***************************************************************************)
EXTENDS Integers, Sequences, SequencesExt, FiniteSetsExt

CONSTANTS
  Characters,   (* What texts are written in.                              *)
  Target,       (* target_chars: the size of a chunk.                      *)
  Overlap,      (* overlap_chars: how much of a chunk the next repeats.    *)
  Title,        (* The document's title.                                   *)
  Lines,        (* Bounds the model: the lines an author may write,        *)
  Pages,        (* the texts an extractor may read on a page,              *)
  Bookmarks,    (* the bookmarks it may find,                              *)
  MaxPieces     (* and how many of all of them.                            *)

Texts  == Seq(Characters)
Titled == {t \in Texts : \A i \in DOMAIN t : t[i] # "/" /\ (t[i] = " " => i \notin {1, Len(t)})}

Line ==
  [kind : {"text"}, text : Texts]
    \cup [kind : {"fence"}, text : Texts, fence : {"tick", "tilde"} \X Nat]
    \cup [kind : {"heading"}, text : Texts, level : Nat, title : Titled]

ASSUME ChunkingAssumption ==
  /\ {" ", "/", ">"} \subseteq Characters
  /\ Target \in Nat /\ Overlap \in Nat
  /\ 2 * Overlap < Target /\ Overlap + 2 < Target
  /\ Title \in Titled
  /\ Lines \subseteq Line
  /\ Pages \subseteq Seq({l \in Line : l.kind # "heading"})
  /\ Bookmarks \subseteq [level : Nat, page : Nat \ {0}, title : Titled \ {<<>>}]

VARIABLE
  file          (* What there is so far of the file.                       *)

White(c) == c \in {" ", "/"}
Blank    == <<"/", "/">>

\* path_separator; ">" stands for its mark.
Separator == <<" ", ">", " ">>

From(s, i) == SubSeq(s, i, Len(s))

Visible(s) == {i \in DOMAIN s : ~White(s[i])}

Trimmed(s, kept) == IF kept = {} THEN <<>> ELSE SubSeq(s, Min(kept), Max(kept))

Strip(s)  == Trimmed(s, Visible(s))
RStrip(s) == IF Visible(s) = {} THEN <<>> ELSE SubSeq(s, 1, Max(Visible(s)))
LStrip(s) == IF Visible(s) = {} THEN <<>> ELSE From(s, Min(Visible(s)))

Joined(texts, joiner) ==
  FlattenSeq([i \in DOMAIN texts |-> IF i = 1 THEN texts[i] ELSE joiner \o texts[i]])

Only(s, S) == FlattenSeq([i \in DOMAIN s |-> IF s[i] \in S THEN <<s[i]>> ELSE <<>>])

\* A loop over s, one step for each of its elements.
TakenIn(step, start, s) ==
  LET taken[n \in 0..Len(s)] == IF n = 0 THEN start ELSE step[<<taken[n - 1], s[n]>>]
  IN  taken[Len(s)]

-----------------------------------------------------------------------------
(* Cutting *)

\* Slip: no room is left for what joins the overlap and the piece.
PieceUnjoined == Max({1, Target - Overlap})

Piece == Max({1, Target - Overlap - 2})

\* At the last white of the first Piece + 1 characters, and hard where there is none.
CutNext(acc) ==
  LET marks == {i \in 2..Piece + 1 : White(acc.rest[i])}
      cut   == IF marks = {} THEN Piece ELSE Max(marks) - 1
  IN  IF Len(acc.rest) <= Piece THEN acc
      ELSE [pieces |-> Append(acc.pieces, RStrip(SubSeq(acc.rest, 1, cut))),
            rest   |-> LStrip(From(acc.rest, cut + 1))]

Cutting == [pieces : Seq(Texts), rest : Texts]

\* Each cut takes a character at least.
SplitLong(s) ==
  LET acc == TakenIn([p \in Cutting \X Nat |-> CutNext(p[1])],
                     [pieces |-> <<>>, rest |-> s], [n \in DOMAIN s |-> n])
  IN  IF acc.rest = <<>> THEN acc.pieces ELSE Append(acc.pieces, acc.rest)

\* _tail: the last characters of a body, from the beginning of a word.
TailOf(body) ==
  IF Overlap = 0 THEN <<>>
  ELSE IF Len(body) <= Overlap THEN body
  ELSE LET start == Len(body) - Overlap + 1
           marks == {i \in start..Len(body) : White(body[i])}
       IN  Strip(From(body, IF marks = {} THEN start ELSE Min(marks) + 1))

\* The pieces of a paragraph, each with whether it goes on with the one before.
Units(paragraph) ==
  LET parts == IF Len(paragraph) > Piece THEN SplitLong(Strip(paragraph)) ELSE <<paragraph>>
  IN  [i \in DOMAIN parts |-> [text |-> parts[i], continues |-> i > 1]]

AddUnit(acc, unit) ==
  LET joiner == IF unit.continues THEN <<" ">> ELSE Blank
      full   == /\ acc.hasUnit
                /\ Len(acc.cur) + Len(joiner) + Len(unit.text) > Target
      cur    == IF full THEN TailOf(acc.cur) ELSE acc.cur
  IN  [bodies  |-> IF full THEN Append(acc.bodies, acc.cur) ELSE acc.bodies,
       cur     |-> IF cur = <<>> THEN unit.text ELSE cur \o joiner \o unit.text,
       hasUnit |-> TRUE]

Unit    == [text : Texts, continues : BOOLEAN]
Packing == [bodies : Seq(Texts), cur : Texts, hasUnit : BOOLEAN]

\* _pack: bodies of at most Target, each after the first opening with the tail of the last.
Pack(paragraphs) ==
  LET units == FlattenSeq([i \in DOMAIN paragraphs |-> Units(paragraphs[i])])
      acc   == TakenIn([p \in Packing \X Unit |-> AddUnit(p[1], p[2])],
                       [bodies |-> <<>>, cur |-> <<>>, hasUnit |-> FALSE], units)
  IN  IF acc.hasUnit /\ Strip(acc.cur) # <<>> THEN Append(acc.bodies, acc.cur) ELSE acc.bodies

-----------------------------------------------------------------------------
(* Markdown *)

\* Within a fence, <<its mark, its length>>, until one of its mark that is as long.
FenceAfter(fence, line) ==
  IF line.kind # "fence" THEN fence
  ELSE IF fence = <<>> THEN line.fence
  ELSE IF line.fence[1] = fence[1] /\ line.fence[2] >= fence[2] THEN <<>>
  ELSE fence

Fenced == {<<>>} \cup ({"tick", "tilde"} \X Nat)

\* _paragraphs: apart at empty lines, but not within a fence.
AddLine(acc, line) ==
  LET code == acc.fence # <<>> \/ line.kind = "fence"
      text == IF code THEN line.text ELSE RStrip(line.text)
  IN  IF ~code /\ text = <<>>
      THEN [acc EXCEPT !.paragraphs = Append(@, acc.cur), !.cur = <<>>]
      ELSE [acc EXCEPT !.cur = IF @ = <<>> THEN text ELSE @ \o <<"/">> \o text,
                       !.fence = FenceAfter(@, line)]

Parting == [paragraphs : Seq(Texts), cur : Texts, fence : Fenced]

Paragraphs(section) ==
  LET acc  == TakenIn([p \in Parting \X Line |-> AddLine(p[1], p[2])],
                      [paragraphs |-> <<>>, cur |-> <<>>, fence |-> <<>>], section)
      all  == Append(acc.paragraphs, acc.cur)
      trim == [n \in DOMAIN all |-> Trimmed(all[n], {i \in DOMAIN all[n] : all[n][i] # "/"})]
  IN  Only(trim, {t \in Texts : Visible(t) # {}})

\* The headings in force, outermost first, after one more.
Enter(stack, heading) ==
  Append(Only(stack, {h \in ToSet(stack) : h.level < heading.level}), heading)

Titles(stack) == [i \in DOMAIN stack |-> stack[i].title]

\* _path: the document's title first, and once.
Path(trail) ==
  IF Title # <<>> /\ trail # <<>> /\ trail[1] = Title THEN trail
  ELSE (IF Title = <<>> THEN <<>> ELSE <<Title>>) \o trail

\* _content: the path at the head of the passage.
Content(path, body) ==
  LET head == Joined(path, Separator) IN IF head = <<>> THEN body ELSE head \o Blank \o body

Chunk == [ordinal : Nat, path : Seq(Texts), page : Nat, content : Texts]

Emit(chunks, path, page, paragraphs) ==
  LET bodies == Pack(paragraphs) IN
  chunks \o [i \in DOMAIN bodies |->
    [ordinal |-> Len(chunks) + i - 1, path |-> path, page |-> page,
     content |-> Content(path, bodies[i])]]

Flush(acc) ==
  [acc EXCEPT !.chunks = Emit(@, Path(Titles(acc.stack)), 0, Paragraphs(acc.section)),
              !.section = <<>>]

\* A heading closes the section before it; a bare one is nothing; in a fence it is code.
ReadLine(acc, line) ==
  IF acc.fence = <<>> /\ line.kind = "heading"
  THEN IF line.title = <<>> THEN acc
       ELSE [Flush(acc) EXCEPT !.stack = Enter(@, line)]
  ELSE [acc EXCEPT !.section = Append(@, line), !.fence = FenceAfter(@, line)]

Sectioning == [chunks : Seq(Chunk), stack : Seq({l \in Line : l.kind = "heading"}),
               section : Seq(Line), fence : Fenced]

ChunkMarkdown(lines) ==
  Flush(TakenIn([p \in Sectioning \X Line |-> ReadLine(p[1], p[2])],
    [chunks |-> <<>>, stack |-> <<>>, section |-> <<>>, fence |-> <<>>], lines)).chunks

-----------------------------------------------------------------------------
(* Pages *)

\* _outline_paths: the bookmarks of the pages up to this one, page by page.
OutlinePath(outline, number) ==
  LET ordered == FlattenSeq([p \in 1..number |-> Only(outline, {b \in Bookmarks : b.page = p})])
  IN  Titles(TakenIn([p \in Seq(Bookmarks) \X Bookmarks |-> Enter(p[1], p[2])], <<>>, ordered))

ChunkPages(pages, outline) ==
  TakenIn([p \in Seq(Chunk) \X DOMAIN pages |->
             Emit(p[1], Path(OutlinePath(outline, p[2])), p[2], Paragraphs(pages[p[2]]))],
          <<>>, [n \in DOMAIN pages |-> n])

-----------------------------------------------------------------------------
(* Reading back *)

StartsWith(s, head) == Len(head) <= Len(s) /\ SubSeq(s, 1, Len(head)) = head

\* chunk_text: the head is cut off when it is the titles of the path with one separator.
ChunkText(content, path) ==
  LET ends == {i \in 1..Len(content) - 1 : SubSeq(content, i, i + 1) = Blank}
      head == SubSeq(content, 1, Min(ends) - 1)
      body == From(content, Min(ends) + 2)
      gaps == {i \in Len(path[1]) + 1..Len(head) : StartsWith(From(head, i), path[2])}
      separator == SubSeq(head, Len(path[1]) + 1, Min(gaps) - 1)
  IN  IF path = <<>> \/ ends = {} THEN content
      ELSE IF Len(path) = 1 THEN IF head = path[1] THEN body ELSE content
      ELSE IF ~StartsWith(head, path[1]) \/ gaps = {} THEN content
      ELSE IF separator # <<>> /\ head = Joined(path, separator) THEN body ELSE content

\* _overlap_length: only what Pack could have written.
OverlapLength(prev, next) ==
  LET head == TailOf(prev)
      rest == From(next, Len(head) + 1)
  IN  IF /\ Overlap > 0 /\ Len(prev) > Overlap
         /\ head # <<>> /\ StartsWith(next, head)
         /\ StartsWith(rest, Blank) \/ StartsWith(rest, <<" ">>)
         /\ Len(prev) + Len(rest) > Target
      THEN Len(head) ELSE 0

Passage(chunk) ==
  [ordinal |-> chunk.ordinal, path |-> chunk.path, page |-> chunk.page,
   text |-> ChunkText(chunk.content, chunk.path)]

Shown(chunks) == [i \in DOMAIN chunks |-> Passage(chunks[i])]

\* join_passages after the chunk `last` (<<>> if there is none): one passage to a run.
JoinNext(acc, chunk) ==
  LET last    == acc.last
      sameRun == /\ last # <<>>
                 /\ chunk.ordinal = last[1].ordinal + 1
                 /\ chunk.path = last[1].path /\ chunk.page = last[1].page
      cut     == IF sameRun THEN OverlapLength(last[1].text, chunk.text) ELSE 0
      rest    == From(chunk.text, cut + 1)
      n       == Len(acc.out)
  IN  [last |-> <<chunk>>,
       out  |-> IF sameRun /\ n > 0
                THEN [acc.out EXCEPT ![n].text = @ \o (IF cut > 0 THEN rest ELSE Blank \o rest)]
                ELSE Append(acc.out, [chunk EXCEPT !.text = IF cut > 0 THEN LStrip(rest) ELSE @])]

Passages == [ordinal : Nat, path : Seq(Texts), page : Nat, text : Texts]
Joining  == [last : Seq(Passages), out : Seq(Passages)]

JoinPassages(passages, previous) ==
  TakenIn([p \in Joining \X Passages |-> JoinNext(p[1], p[2])],
          [last |-> previous, out |-> <<>>], passages).out

-----------------------------------------------------------------------------
(* The file *)

Chunks == IF file.pages = <<>> THEN ChunkMarkdown(file.lines)
                               ELSE ChunkPages(file.pages, file.outline)

ChunkingInit == file = [lines |-> <<>>, pages |-> <<>>, outline |-> <<>>]

RoomForMore == Len(file.lines) + Len(file.pages) + Len(file.outline) < MaxPieces

WriteLine ==
  /\ RoomForMore /\ file.pages = <<>>
  /\ \E line \in Lines : file' = [file EXCEPT !.lines = Append(@, line)]

AddPage ==
  /\ RoomForMore /\ file.lines = <<>>
  /\ \E page \in Pages : file' = [file EXCEPT !.pages = Append(@, page)]

AddBookmark ==
  /\ RoomForMore /\ file.pages # <<>>
  /\ \E b \in Bookmarks : file' = [file EXCEPT !.outline = Append(@, b)]

ChunkingNext == WriteLine \/ AddPage \/ AddBookmark

ChunkingSpec == ChunkingInit /\ [][ChunkingNext]_file
-----------------------------------------------------------------------------
\* What a file says: each character that is not white, under the path in force, where a
\* heading is in force until one of its level or above.
Said(path, text) ==
  FlattenSeq([i \in DOMAIN text |-> IF White(text[i]) THEN <<>> ELSE << <<path, text[i]>> >>])

\* Whether a fence is open before line n.
InFence(n) ==
  TakenIn([p \in Fenced \X Line |-> FenceAfter(p[1], p[2])], <<>>,
          SubSeq(file.lines, 1, n - 1)) # <<>>

IsHeading(n) ==
  /\ file.lines[n].kind = "heading" /\ file.lines[n].title # <<>>
  /\ ~InFence(n)

InForce(i, n) ==
  /\ IsHeading(i)
  /\ \A k \in i + 1..n : IsHeading(k) => file.lines[k].level > file.lines[i].level

TrailAt(n) ==
  Titles(FlattenSeq([i \in 1..n |-> IF InForce(i, n) THEN <<file.lines[i]>> ELSE <<>>]))

IsText(n) == file.lines[n].kind # "heading" \/ InFence(n)

LinesSay ==
  FlattenSeq([n \in DOMAIN file.lines |->
    IF IsText(n) THEN Said(Path(TrailAt(n)), file.lines[n].text) ELSE <<>>])

PagesSay ==
  FlattenSeq([n \in DOMAIN file.pages |->
    Said(Path(OutlinePath(file.outline, n)),
         FlattenSeq([i \in DOMAIN file.pages[n] |-> file.pages[n][i].text]))])

PassagesSay(passages) ==
  FlattenSeq([i \in DOMAIN passages |-> Said(passages[i].path, passages[i].text)])

\* Two sections in a row stand under one path: there a reader takes for overlap what the
\* second one repeats of the first (chunking.py:219 says so).
SectionsRepeat ==
  \E m, n \in DOMAIN file.lines :
    /\ m < n /\ IsText(m) /\ IsText(n) /\ Path(TrailAt(m)) = Path(TrailAt(n))
    /\ \E k \in m + 1..n - 1 : IsHeading(k)
    /\ \A k \in m + 1..n - 1 : IsText(k) => Visible(file.lines[k].text) = {}

\* The passages are within their size, and say what was said, read whole or in two windows.
ReadsBack(passages, said) ==
  /\ \A i \in DOMAIN passages : Len(passages[i].text) <= Target
  /\ ~SectionsRepeat =>
       \A i \in 0..Len(passages) :
         PassagesSay(JoinPassages(SubSeq(passages, 1, i), <<>>))
           \o PassagesSay(JoinPassages(From(passages, i + 1),
                                       IF i = 0 THEN <<>> ELSE <<passages[i]>>))
           = said

\* Read back from its chunks, whole or in two windows, a file says what its author wrote:
\* every character once and in order, under the headings or bookmarks it stands under,
\* whatever was split, packed, overlapped, and joined again; and no passage is over its size.
ReadBackIsTheText ==
  ReadsBack(Shown(Chunks), IF file.pages = <<>> THEN LinesSay ELSE PagesSay)
=============================================================================
