------------------------------- MODULE Lexical -----------------------------
(***************************************************************************)
(* lexical.py: what a question is answered with.  Walks bring edges and a  *)
(* recall brings memories, in an order that a query plan decides, or fail; *)
(* the candidates are scored by the words of the question that they carry, *)
(* ranked, and decided about.                                              *)
(*                                                                         *)
(* A text is the set of its words, the end of an edge the sequence of its  *)
(* words.  A score is a share of Scale, which the sizes of the questions   *)
(* divide, twice over for the half that a hop inherits.                    *)
(***************************************************************************)
EXTENDS Integers, Sequences, FiniteSets, SequencesExt, FiniteSetsExt

CONSTANTS
  Edges,        (* What the graph holds: records id, key, words, head, tail. *)
  Recall,       (* What the memory recalls, in order: records id, words.   *)
  Questions,    (* asked: its variants, each a set of words; anchors: the  *)
                (* labels of whom it is about, sequences of words.         *)
  Stopwords,    (* Words without a meaning of their own.                   *)
  Scale,        (* See above.                                              *)
  Floor,        (* RELEVANCE_FLOOR, of Scale.                              *)
  TopK,         (* How many results an answer has.                         *)
  MaxCandidates (* How many edges are built into candidates at most.       *)

ASSUME LexicalAssumption ==
  /\ Scale \in Nat /\ Floor \in 0..Scale
  /\ \A q \in Questions : /\ IsFiniteSet(q.asked)
                          /\ \A v \in q.asked : IsFiniteSet(v)
  /\ \A q \in Questions : \A v \in q.asked :
       v \subseteq Stopwords \/ Scale % (2 * Cardinality(v \ Stopwords)) = 0
  /\ \A e, f \in Edges : e.id = f.id => e = f
  /\ IsFiniteSet(Edges)
  /\ DOMAIN Recall = 1..Len(Recall) /\ Len(Recall) \in Nat
  /\ TopK \in Nat \ {0} /\ MaxCandidates \in Nat

VARIABLES
  question,     (* What is asked.                                          *)
  built,        (* The candidates that the graph's walks have become.      *)
  walks,        (* What the walks have yet to bring: an edge, how often.   *)
  sources,      (* Per source: is it being asked, has it answered or broken. *)
  answer        (* What is decided, and what the answer carries.           *)

lexicalVars == <<question, built, walks, sources, answer>>

Sources  == <<"graph", "memory">>
NoAnswer == [decision |-> "none", picked |-> <<>>]

\* Two start nodes may walk the same edge.
LexicalInit ==
  /\ question \in Questions
  /\ built = <<>>
  /\ walks \in [Edges -> 1..2]
  /\ sources = [s \in ToSet(Sources) |-> "asked"]
  /\ answer = NoAnswer

-----------------------------------------------------------------------------
(* Candidates *)

\* Slip: the position breaks the ties between edges.
CandidateByPosition(e, n) ==
  [id |-> e.id, source |-> "graph", words |-> e.words \ Stopwords, prior |-> n,
   head |-> e.head, tail |-> e.tail]

\* n is how many there are before; the store's own id is used instead.
Candidate(e, n) ==
  [id |-> e.id, source |-> "graph", words |-> e.words \ Stopwords, prior |-> e.id,
   head |-> e.head, tail |-> e.tail]

\* graph_candidates: one to a source, relation and target, whichever is first.
Build(out, e) ==
  IF Len(out) >= MaxCandidates \/ \E i \in DOMAIN out : out[i].key = e.key THEN out
  ELSE Append(out, [key |-> e.key, candidate |-> Candidate(e, Len(out))])

\* memory_candidates: their place in the recall is the last tie-break.
MemoryCandidate(i) ==
  [id |-> Recall[i].id, source |-> "memory", words |-> Recall[i].words \ Stopwords,
   prior |-> i - 1, head |-> <<>>, tail |-> <<>>]

Recalled == {MemoryCandidate(i) : i \in DOMAIN Recall}

-----------------------------------------------------------------------------
(* Ranking *)

Terms(q) == q \ Stopwords

\* relevance: of the variants the best.
Relevance(asked, words) ==
  Max({0} \cup {(Scale * Cardinality(Terms(v) \cap words)) \div Cardinality(Terms(v)) :
                  v \in {u \in asked : Terms(u) # {}}})

\* An edge inherits half of what the best edge into its source has of its own.
Score(asked, c, candidates) ==
  LET into == {b \in candidates : /\ b.source = "graph" /\ b.tail # <<>>
                                  /\ b.tail = c.head /\ Relevance(asked, b.words) > 0}
  IN  Max({Relevance(asked, c.words)} \cup
          IF c.source = "graph" THEN {Relevance(asked, b.words) \div 2 : b \in into} ELSE {})

Place(source) == CHOOSE i \in DOMAIN Sources : Sources[i] = source

\* Some of the candidates in the order that they all are ranked in: as many are before one as
\* are better.
Rank(asked, some, candidates) ==
  LET score == [c \in candidates |-> Score(asked, c, candidates)]
      Better(a, b) ==
        \/ score[a] > score[b]
        \/ score[a] = score[b] /\ Place(a.source) < Place(b.source)
        \/ score[a] = score[b] /\ a.source = b.source /\ a.prior < b.prior
        \/ score[a] = score[b] /\ a.source = b.source /\ a.prior = b.prior /\ a.id < b.id
  IN  [i \in 1..Cardinality(some) |->
         CHOOSE c \in some : Cardinality({b \in some : Better(b, c)}) = i - 1]

Top(s) == SubSeq(s, 1, Min({TopK, Len(s)}))

Passing(asked, candidates) ==
  {c \in candidates : LET s == Score(asked, c, candidates) IN s >= Floor /\ s > 0}

Chosen(asked, candidates) == Top(Rank(asked, Passing(asked, candidates), candidates))

-----------------------------------------------------------------------------
(* Anchors and the decision *)

\* anchor: without the function words at its ends.
Anchor(label) ==
  LET kept == {i \in DOMAIN label : label[i] \notin Stopwords} IN
  IF kept = {} THEN <<>> ELSE SubSeq(label, Min(kept), Max(kept))

Named(anchors) == {Anchor(a) : a \in anchors} \ {<<>>}

Carries(end, words) ==
  \E i \in 1..Len(end) - Len(words) + 1 : SubSeq(end, i, i + Len(words) - 1) = words

About(c, anchors) ==
  /\ c.source = "graph"
  /\ \E w \in Named(anchors) : Carries(c.head, w) \/ Carries(c.tail, w)

\* partial: the edges about an anchor, then those one hop on from them.
Partial(q, candidates) ==
  LET direct == {c \in candidates : About(c, q.anchors)}
      tails  == {c.tail : c \in direct} \ {<<>>}
      hop    == {c \in candidates \ direct : c.source = "graph" /\ c.head \in tails}
  IN  Top(Rank(q.asked, direct, candidates) \o Rank(q.asked, hop, candidates))

Decision(decision, picked) ==
  [decision |-> decision, picked |-> [i \in DOMAIN picked |-> <<picked[i].source, picked[i].id>>]]

\* decide.
Decide(q, candidates, failed) ==
  LET chosen == Chosen(q.asked, candidates)
      tier   == Partial(q, candidates) IN
  IF chosen # <<>> THEN Decision("relevant", chosen)
  ELSE IF failed # {} THEN Decision("error", <<>>)
  ELSE IF tier # <<>> THEN Decision("partial", tier)
  ELSE Decision("nothing_relevant", <<>>)

-----------------------------------------------------------------------------
(* A question *)

WalkEdge ==
  /\ sources["graph"] = "asked"
  /\ \E e \in Edges :
       /\ walks[e] > 0
       /\ walks' = [walks EXCEPT ![e] = @ - 1]
       /\ built' = Build(built, e)
  /\ UNCHANGED <<question, sources, answer>>

SourceAnswers(s) ==
  /\ sources[s] = "asked"
  /\ s = "graph" => \A e \in Edges : walks[e] = 0
  /\ sources' = [sources EXCEPT ![s] = "answered"]
  /\ UNCHANGED <<question, built, walks, answer>>

\* What a broken source has brought is not used.
SourceBreaks(s) ==
  /\ sources[s] = "asked"
  /\ sources' = [sources EXCEPT ![s] = "broken"]
  /\ UNCHANGED <<question, built, walks, answer>>

Candidates ==
  (IF sources["graph"] = "answered" THEN {built[i].candidate : i \in DOMAIN built} ELSE {})
    \cup (IF sources["memory"] = "answered" THEN Recalled ELSE {})

Broken == {s \in DOMAIN sources : sources[s] = "broken"}

AnswerQuestion ==
  /\ answer = NoAnswer
  /\ \A s \in DOMAIN sources : sources[s] # "asked"
  /\ answer' = Decide(question, Candidates, Broken)
  /\ UNCHANGED <<question, built, walks, sources>>

LexicalNext ==
  \/ WalkEdge
  \/ \E s \in ToSet(Sources) : SourceAnswers(s) \/ SourceBreaks(s)
  \/ AnswerQuestion

LexicalSpec == LexicalInit /\ [][LexicalNext]_lexicalVars
-----------------------------------------------------------------------------
\* What the sources that answered hold, whatever order it came in.
Held ==
  (IF sources["graph"] = "answered" THEN {Candidate(e, 0) : e \in Edges} ELSE {})
    \cup (IF sources["memory"] = "answered" THEN Recalled ELSE {})

KeysTell == \A e, f \in Edges : e.key = f.key => e = f

\* The same question over the same stores has the same answer, whatever order a plan returns
\* the rows in and however often a walk meets an edge (lexical.py:285: never the position);
\* and what is not found is said to be nothing only when everybody was asked, nothing held
\* reaches the floor, and nothing is known of who is named.
AnswersAreTheStores ==
  answer.decision # "none" =>
    /\ KeysTell => answer = Decide(question, Held, Broken)
    /\ answer.decision \in {"nothing_relevant", "partial"} =>
         /\ Broken = {}
         /\ \A c \in Held : LET r == Relevance(question.asked, c.words) IN r < Floor \/ r = 0
    /\ answer.decision = "nothing_relevant" => \A c \in Held : ~About(c, question.anchors)

\* Violated where two edges of one source, relation and target differ in the types of their
\* nodes: one of them is the candidate, and which one is the plan's choice.
OldestIsTold ==
  answer.decision = "relevant" =>
    \A i \in DOMAIN answer.picked : \A e, f \in Edges :
      (answer.picked[i] = <<"graph", e.id>> /\ e.key = f.key) => e.id <= f.id
=============================================================================
