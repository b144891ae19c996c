------------------------------ MODULE KbReads ------------------------------
(***************************************************************************)
(* The readers of the document store, against everything that writes it.   *)
(* One call of `read_served` or of `version_text` is one snapshot in both  *)
(* adapters; a whole text takes several, each one told where the last      *)
(* ended, and the store changes between them.                              *)
(*                                                                         *)
(* What a passage says is known by its version's content and its ordinal.  *)
(***************************************************************************)
EXTENDS KbStore

CONSTANTS
  Profiles,     (* The reader profiles a document may be published to.     *)
  Readers,      (* Callers that read: one whole text each.                 *)
  PageSize      (* `limit`: the passages of one answer.                    *)

ASSUME ReadsAssumption ==
  /\ PageSize \in Nat \ {0}
  /\ Ordinals \subseteq Nat

VARIABLES
  profiles,     (* Per document: the profiles it is published to.          *)
  readers       (* Per reader: what it has been answered so far.           *)

readsVars == <<docs, versions, drafts, chunks, originals, tombstones, clock,
               profiles, readers>>

Passages == Contents \X Ordinals

\* What an answer names: a document's version, served or read as a draft.
Source == [doc : Docs, version : Numbers, draft : BOOLEAN]

\* `text` is kept for the properties alone: what a served source held at the first answer.
Idle   == [doing |-> "idle"]
Walk   == [doing : {"paging", "whole"}, source : Source, after : Ordinals \cup {-1},
           got : SUBSET Passages, text : SUBSET Passages]

ReadsTypeOK ==
  /\ TypeOK
  /\ profiles \in [Docs -> SUBSET Profiles]
  /\ readers \in [Readers -> {Idle} \cup Walk]

ReadsInit ==
  /\ Init
  /\ profiles = [d \in Docs |-> {}]
  /\ readers = [r \in Readers |-> Idle]

-----------------------------------------------------------------------------
\* The one filter of the reader path.
ServedTo(d, p) == Served(d) /\ p \in profiles[d]

\* What read_served answers a profile from, when it answers.
ServedSource(d, p) ==
  IF ServedTo(d, p) THEN {[doc |-> d, version |-> docs[d].active, draft |-> FALSE]} ELSE {}

\* What version_text answers an administrator from: the version that is served, or one
\* that awaits confirmation; any other has nothing whole to show.
VersionSource(d, n) ==
  {s \in [doc : {d}, version : {n}, draft : BOOLEAN] :
     /\ Live(d)
     /\ IF s.draft THEN Awaiting(d, n) /\ drafts[d][n] # {}
                   ELSE versions[d][n].state = "ready" /\ docs[d].active = n}

OrdinalsOf(s) == IF s.draft THEN drafts[s.doc][s.version] ELSE chunks[s.doc][s.version]

ContentOf(s) == versions[s.doc][s.version].content

TextOf(s) == {ContentOf(s)} \X OrdinalsOf(s)

\* Slip: exactly as many passages as are kept are fetched.
PageOfExactly(s, after) ==
  LET rest == {o \in OrdinalsOf(s) : o > after}
      kept == {o \in rest : Cardinality({q \in rest : q < o}) < PageSize}
  IN  [kept |-> kept, more |-> Cardinality(kept) > PageSize]

\* The first PageSize ordinals past `after`, and whether any remain.
PageOf(s, after) ==
  LET rest == {o \in OrdinalsOf(s) : o > after}
      kept == {o \in rest : Cardinality({q \in rest : q < o}) < PageSize}
  IN  [kept |-> kept, more |-> kept # rest]

Last(S) == CHOOSE o \in S : \A q \in S : q <= o

\* A walk after one more answer: it goes on from the last passage, or has the whole.
\* (The whole of a draft is not kept: no property is about it.)
Walked(walk) ==
  LET page == PageOf(walk.source, walk.after)
      got  == walk.got \cup {ContentOf(walk.source)} \X page.kept
  IN  IF page.more THEN [walk EXCEPT !.after = Last(page.kept), !.got = got]
      ELSE IF walk.source.draft THEN Idle
      ELSE [walk EXCEPT !.doing = "whole", !.got = got]

BeginWalk(r, sources) ==
  /\ readers[r] = Idle
  /\ \E s \in sources :
       readers' = [readers EXCEPT ![r] =
          Walked([doing |-> "paging", source |-> s, after |-> -1, got |-> {},
                  text |-> IF s.draft THEN {} ELSE TextOf(s)])]

\* Each later answer names its source: a caller answered from another one, or not
\* answered at all, has no whole text and begins again.
ContinueWalk(r, sources) ==
  /\ readers[r].doing = "paging"
  /\ readers' = [readers EXCEPT ![r] =
        IF @.source \in sources THEN Walked(@) ELSE Idle]

ReadServed(r, p) ==
  \/ \E d \in Docs : BeginWalk(r, ServedSource(d, p))
  \/ ContinueWalk(r, ServedSource(readers[r].source.doc, p))

VersionText(r) ==
  \/ \E d \in Docs, n \in Numbers : BeginWalk(r, VersionSource(d, n))
  \/ ContinueWalk(r, VersionSource(readers[r].source.doc, readers[r].source.version))

-----------------------------------------------------------------------------
\* The sanitised profiles replace what there was; none at all is a document nobody reads.
SetProfiles(d) ==
  /\ Live(d)
  /\ \E ps \in SUBSET Profiles :
       /\ ps # profiles[d]
       /\ profiles' = [profiles EXCEPT ![d] = ps]
  /\ UNCHANGED <<storeVars, readers>>

Reads ==
  /\ \E r \in Readers :
       \/ \E p \in Profiles : ReadServed(r, p)
       \/ VersionText(r)
  /\ UNCHANGED <<storeVars, profiles>>

ReadsNext ==
  \/ Next /\ UNCHANGED <<profiles, readers>>
  \/ \E d \in Docs : SetProfiles(d)
  \/ Reads

ReadsSpec == ReadsInit /\ [][ReadsNext]_readsVars
-----------------------------------------------------------------------------
\* A caller that reads a served text page by page, and keeps to the version its first
\* answer named, ends with that version's whole text as it was then and nothing else,
\* whatever was uploaded, swapped, removed or withdrawn between the pages.  (A draft may
\* be replaced under its number; its reader is promised no such thing.)
WalksReadOneText ==
  \A r \in Readers :
    readers[r].doing = "whole" => readers[r].got = readers[r].text
=============================================================================
