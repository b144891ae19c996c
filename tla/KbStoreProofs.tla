--------------------------- MODULE KbStoreProofs ---------------------------
(***************************************************************************)
(* Theorems about KbStore, for every set of documents, owners, contents    *)
(* and ordinals and every bound: whoever calls the store's operations, in  *)
(* whatever order, the rows, drafts, chunks and originals agree.           *)
(***************************************************************************)
EXTENDS KbStore, TLAPS

-----------------------------------------------------------------------------
(* Rows.                                                                     *)

\* The states and the reasons the operations write.
LEMMA Names ==
  /\ {"none", "processing", "awaiting_confirmation", "ready", "error"} \subseteq VersionStates
  /\ {"", "expired", "discarded", "interrupted"} \subseteq Reasons
  /\ FailReasons \subseteq Reasons
  /\ {"expired", "interrupted"} \subseteq Reasons \cap Kinds
  /\ {"deleted", "purged", "discarded", "superseded", "failed"} \subseteq Kinds
BY DEF VersionStates, Reasons, Kinds

\* A row is still a row when its fields are written.
LEMMA RowFields ==
  ASSUME NEW r \in VersionRow, NEW s \in VersionStates, NEW q \in Reasons, NEW t \in Nat
  PROVE  /\ [r EXCEPT !.state = s, !.reason = q] \in VersionRow
         /\ [r EXCEPT !.state = s, !.claimed = t] \in VersionRow
         /\ [r EXCEPT !.state = s, !.reason = q, !.claimed = t] \in VersionRow
         /\ [r EXCEPT !.state = s, !.reason = q, !.expires = t] \in VersionRow
BY DEF VersionRow

\* A row written in place leaves a table of rows.
LEMMA RowWritten ==
  ASSUME TypeOK, NEW d \in Docs, NEW n \in Numbers, NEW row \in VersionRow,
         versions' = [versions EXCEPT ![d][n] = row]
  PROVE  versions' \in [Docs -> [Numbers -> VersionRow]]
BY DEF TypeOK

LEMMA NoVersionIsRow == NoVersion \in VersionRow /\ NoVersion.state = "none"
BY Names DEF NoVersion, VersionRow

-----------------------------------------------------------------------------
(* Type correctness, one lemma per operation.                                *)

LEMMA CreateDocumentType ==
  ASSUME TypeOK, NEW d \in Docs, CreateDocument(d)
  PROVE  TypeOK'
BY DEF TypeOK, CreateDocument, DocRow, DocStates

LEMMA RemoveType ==
  ASSUME TypeOK, NEW S \in SUBSET Docs, NEW kind \in Kinds, Remove(S, kind)
  PROVE  TypeOK'
<1>1. docs' \in [Docs -> DocRow]
  BY BoundsAssumption DEF TypeOK, Remove, DocRow, DocStates
<1>2. versions' \in [Docs -> [Numbers -> VersionRow]]
  BY NoVersionIsRow DEF TypeOK, Remove
<1>3. /\ drafts' \in [Docs -> [Numbers -> SUBSET Ordinals]]
      /\ chunks' \in [Docs -> [Numbers -> SUBSET Ordinals]]
      /\ originals' \in [Docs -> SUBSET Numbers]
      /\ clock' \in Nat
  BY DEF TypeOK, Remove
<1>4. tombstones' \in SUBSET Tombstone
  BY DEF TypeOK, Remove, Record, Tombstone, NumbersOf
<1> QED
  BY <1>1, <1>2, <1>3, <1>4 DEF TypeOK

LEMMA BeginVersionType ==
  ASSUME TypeOK, NEW d \in Docs, NEW c \in Contents, NEW keep \in BOOLEAN,
         NEW moment \in Nat, NEW n \in Numbers, BeginVersion(d, c, keep, moment, n)
  PROVE  TypeOK'
<1>1. versions' \in [Docs -> [Numbers -> VersionRow]]
  <2>1. CASE ReopenVersion(d, c, moment, n)
    <3>1. versions[d][n] \in VersionRow /\ "processing" \in VersionStates /\ "" \in Reasons
      BY Names DEF TypeOK
    <3>2. [versions[d][n] EXCEPT !.state = "processing", !.reason = "", !.claimed = moment]
            \in VersionRow
      BY <3>1, RowFields
    <3>3. CASE versions[d][n].state = "ready"
      BY <2>1, <3>3 DEF TypeOK, ReopenVersion
    <3>4. CASE versions[d][n].state # "ready"
      BY <2>1, <3>2, <3>4, RowWritten DEF ReopenVersion
    <3> QED
      BY <3>3, <3>4
  <2>2. CASE NewVersion(d, c, moment, n)
    <3>1. [state |-> "processing", reason |-> "", claimed |-> moment, expires |-> 0,
           content |-> c] \in VersionRow
      BY Names DEF VersionRow
    <3> QED
      BY <2>2, <3>1, RowWritten DEF NewVersion
  <2> QED
    BY <2>1, <2>2 DEF BeginVersion
<1>2. drafts' \in [Docs -> [Numbers -> SUBSET Ordinals]]
  <2>1. drafts' = drafts \/ drafts' = [drafts EXCEPT ![d][n] = {}]
    BY DEF BeginVersion, ReopenVersion, NewVersion
  <2>2. CASE drafts' = drafts
    BY <2>2 DEF TypeOK
  <2>3. CASE drafts' = [drafts EXCEPT ![d][n] = {}]
    BY <2>3 DEF TypeOK
  <2> QED
    BY <2>1, <2>2, <2>3
<1>3. originals' \in [Docs -> SUBSET Numbers]
  BY DEF TypeOK, BeginVersion
<1> QED
  BY <1>1, <1>2, <1>3 DEF TypeOK, BeginVersion

LEMMA SaveDraftType ==
  ASSUME TypeOK, NEW d \in Docs, NEW n \in Numbers, NEW plan \in Plans,
         NEW expires \in Nat, SaveDraft(d, n, plan, expires)
  PROVE  TypeOK'
<1>1. /\ versions[d][n] \in VersionRow
      /\ "awaiting_confirmation" \in VersionStates /\ "" \in Reasons
  BY Names DEF TypeOK
<1>2. [versions[d][n] EXCEPT !.state = "awaiting_confirmation", !.reason = "",
                             !.expires = expires] \in VersionRow
  BY <1>1, RowFields
<1>3. versions' \in [Docs -> [Numbers -> VersionRow]]
  BY <1>2, RowWritten DEF SaveDraft
<1>4. drafts' \in [Docs -> [Numbers -> SUBSET Ordinals]]
  BY DEF TypeOK, SaveDraft, Plans
<1> QED
  BY <1>3, <1>4 DEF TypeOK, SaveDraft

LEMMA ClaimDraftType ==
  ASSUME TypeOK, NEW d \in Docs, NEW n \in Numbers, NEW moment \in Nat,
         ClaimDraft(d, n, moment)
  PROVE  TypeOK'
<1>1. versions[d][n] \in VersionRow /\ "processing" \in VersionStates /\ "" \in Reasons
  BY Names DEF TypeOK
<1>2. [versions[d][n] EXCEPT !.state = "processing", !.claimed = moment] \in VersionRow
  BY <1>1, RowFields
<1>3. versions' \in [Docs -> [Numbers -> VersionRow]]
  BY <1>2, RowWritten DEF ClaimDraft
<1>4. drafts' \in [Docs -> [Numbers -> SUBSET Ordinals]]
  BY DEF TypeOK, ClaimDraft
<1> QED
  BY <1>3, <1>4 DEF TypeOK, ClaimDraft

LEMMA AddChunksType ==
  ASSUME TypeOK, NEW d \in Docs, NEW n \in Numbers, NEW batch \in SUBSET Ordinals,
         AddChunks(d, n, batch)
  PROVE  TypeOK'
<1>1. chunks' \in [Docs -> [Numbers -> SUBSET Ordinals]]
  BY DEF TypeOK, AddChunks
<1> QED
  BY <1>1 DEF TypeOK, AddChunks

LEMMA DropVersionsType ==
  ASSUME TypeOK, NEW d \in Docs, NEW ns \in SUBSET Numbers, DropVersions(d, ns)
  PROVE  /\ drafts' \in [Docs -> [Numbers -> SUBSET Ordinals]]
         /\ chunks' \in [Docs -> [Numbers -> SUBSET Ordinals]]
         /\ originals' \in [Docs -> SUBSET Numbers]
         /\ tombstones' \in SUBSET Tombstone
<1>1. Record(d, ns, "superseded") \in Tombstone
  BY Names DEF Record, Tombstone, TypeOK
<1> QED
  BY <1>1 DEF TypeOK, DropVersions

LEMMA CommitVersionType ==
  ASSUME TypeOK, NEW d \in Docs, NEW n \in Numbers, CommitVersion(d, n)
  PROVE  TypeOK'
<1>1. CASE CommitSuperseded(d, n)
  <2>1. versions' \in [Docs -> [Numbers -> VersionRow]]
    BY <1>1, NoVersionIsRow, RowWritten DEF CommitSuperseded
  <2> QED
    BY <1>1, <2>1, DropVersionsType DEF TypeOK, CommitSuperseded
<1>2. CASE CommitReady(d, n)
  <2>0. versions[d][n] \in VersionRow /\ "ready" \in VersionStates /\ "" \in Reasons
    BY Names DEF TypeOK
  <2>1. [versions[d][n] EXCEPT !.state = "ready", !.reason = ""] \in VersionRow
    BY <2>0, RowFields
  <2>2. versions' \in [Docs -> [Numbers -> VersionRow]]
    BY <1>2, <2>1, NoVersionIsRow DEF TypeOK, CommitReady
  <2>3. docs[d] \in DocRow /\ n \in 0..MaxVersion
    BY BoundsAssumption DEF TypeOK, Numbers
  <2>4. docs' \in [Docs -> DocRow]
    BY <1>2, <2>3 DEF TypeOK, CommitReady, DocRow
  <2>5. {m \in NumbersOf(d) : m < n} \in SUBSET Numbers
    BY DEF NumbersOf
  <2> QED
    BY <1>2, <2>2, <2>4, <2>5, DropVersionsType DEF TypeOK, CommitReady
<1> QED
  BY <1>1, <1>2 DEF CommitVersion

LEMMA EndVersionsType ==
  ASSUME TypeOK, NEW S \in SUBSET (Docs \X Numbers), NEW reason \in Reasons,
         EndVersions(S, reason)
  PROVE  /\ versions' \in [Docs -> [Numbers -> VersionRow]]
         /\ drafts' \in [Docs -> [Numbers -> SUBSET Ordinals]]
         /\ chunks' \in [Docs -> [Numbers -> SUBSET Ordinals]]
         /\ originals' \in [Docs -> SUBSET Numbers]
         /\ docs' = docs /\ clock' = clock
<1>1. \A d \in Docs, n \in Numbers :
        [versions[d][n] EXCEPT !.state = "error", !.reason = reason] \in VersionRow
  <2>1. \A d \in Docs, n \in Numbers : versions[d][n] \in VersionRow
    BY DEF TypeOK
  <2>2. "error" \in VersionStates
    BY Names
  <2> QED
    BY <2>1, <2>2, RowFields
<1> QED
  BY <1>1 DEF TypeOK, EndVersions

LEMMA RecordType ==
  ASSUME TypeOK, NEW d \in Docs, NEW n \in Numbers, NEW kind \in Kinds
  PROVE  Record(d, {n}, kind) \in Tombstone
BY DEF TypeOK, Record, Tombstone

LEMMA FailVersionType ==
  ASSUME TypeOK, NEW d \in Docs, NEW n \in Numbers, NEW reason \in FailReasons,
         FailVersion(d, n, reason)
  PROVE  TypeOK'
<1>1. {<<d, n>>} \in SUBSET (Docs \X Numbers)
  OBVIOUS
<1>2. Record(d, {n}, "failed") \in Tombstone
  BY Names, RecordType
<1>3. tombstones' \in SUBSET Tombstone
  BY <1>2 DEF FailVersion, TypeOK
<1> QED
  BY <1>1, <1>3, Names, EndVersionsType DEF FailVersion, TypeOK

LEMMA DiscardDraftType ==
  ASSUME TypeOK, NEW d \in Docs, NEW n \in Numbers, DiscardDraft(d, n)
  PROVE  TypeOK'
<1>1. {<<d, n>>} \in SUBSET (Docs \X Numbers)
  OBVIOUS
<1>2. tombstones' \in SUBSET Tombstone
  BY Names, RecordType DEF DiscardDraft, TypeOK
<1> QED
  BY <1>1, <1>2, Names, EndVersionsType DEF DiscardDraft, TypeOK

LEMMA SweepType ==
  ASSUME TypeOK, NEW due \in SUBSET (Docs \X Numbers), NEW reason \in Reasons \cap Kinds,
         Sweep(due, reason)
  PROVE  TypeOK'
<1>1. PICK S \in SUBSET due :
        /\ EndVersions(S, reason)
        /\ tombstones' = tombstones \cup {Record(v[1], {v[2]}, reason) : v \in S}
  BY DEF Sweep
<1>2. \A v \in S : v[1] \in Docs /\ v[2] \in Numbers
  OBVIOUS
<1>3. \A v \in S : Record(v[1], {v[2]}, reason) \in Tombstone
  BY <1>2, RecordType
<1>4. tombstones' \in SUBSET Tombstone
  BY <1>1, <1>3 DEF TypeOK
<1> QED
  BY <1>1, <1>4, EndVersionsType DEF TypeOK

LEMMA HostType ==
  ASSUME TypeOK, HostNext
  PROVE  TypeOK'
<1>1. ASSUME NEW d \in Docs, CreateDocument(d) PROVE TypeOK'
  BY <1>1, CreateDocumentType
<1>2. ASSUME NEW d \in Docs, DeleteDocument(d) PROVE TypeOK'
  BY <1>2, Names, RemoveType DEF DeleteDocument
<1>3. ASSUME NEW p \in Owners, PurgeOwnerSubtree(p) PROVE TypeOK'
  BY <1>3, Names, RemoveType DEF PurgeOwnerSubtree
<1>4. ASSUME NEW d \in Docs, NEW n \in Numbers, DiscardDraft(d, n) PROVE TypeOK'
  BY <1>4, DiscardDraftType
<1>5. CASE ExpireDrafts
  BY <1>5, Names, SweepType DEF ExpireDrafts, Due
<1>6. CASE InterruptStale
  BY <1>6, Names, SweepType DEF InterruptStale, Abandoned
<1>7. ASSUME NEW before \in 1..clock, PruneTombstones(before) PROVE TypeOK'
  BY <1>7 DEF TypeOK, PruneTombstones
<1>8. CASE Tick
  BY <1>8 DEF TypeOK, Tick
<1> QED
  BY <1>1, <1>2, <1>3, <1>4, <1>5, <1>6, <1>7, <1>8 DEF HostNext

LEMMA IngestCallType ==
  ASSUME TypeOK, IngestCall
  PROVE  TypeOK'
<1>1. PICK d \in Docs, n \in Numbers :
        \/ \E c \in Contents, keep \in BOOLEAN, moment \in 0..clock :
             BeginVersion(d, c, keep, moment, n)
        \/ \E plan \in Plans, moment \in 0..clock : SaveDraft(d, n, plan, moment + DraftTtl)
        \/ \E moment \in 0..clock : ClaimDraft(d, n, moment)
        \/ \E batch \in Plans : AddChunks(d, n, batch)
        \/ CommitVersion(d, n)
        \/ \E reason \in FailReasons : FailVersion(d, n, reason)
  BY DEF IngestCall
<1>2. 0..clock \subseteq Nat
  BY DEF TypeOK
<1>3. \A moment \in 0..clock : moment + DraftTtl \in Nat
  BY <1>2, BoundsAssumption
<1>4. CASE \E c \in Contents, keep \in BOOLEAN, moment \in 0..clock :
             BeginVersion(d, c, keep, moment, n)
  BY <1>2, <1>4, BeginVersionType
<1>5. CASE \E plan \in Plans, moment \in 0..clock : SaveDraft(d, n, plan, moment + DraftTtl)
  BY <1>3, <1>5, SaveDraftType
<1>6. CASE \E moment \in 0..clock : ClaimDraft(d, n, moment)
  BY <1>2, <1>6, ClaimDraftType
<1>7. CASE \E batch \in Plans : AddChunks(d, n, batch)
  BY <1>7, AddChunksType DEF Plans
<1>8. CASE CommitVersion(d, n)
  BY <1>8, CommitVersionType
<1>9. CASE \E reason \in FailReasons : FailVersion(d, n, reason)
  BY <1>9, FailVersionType
<1> QED
  BY <1>1, <1>4, <1>5, <1>6, <1>7, <1>8, <1>9

LEMMA TypeCorrectStart == Init => TypeOK
<1>1. [state |-> "unborn", active |-> 0] \in DocRow
  BY BoundsAssumption DEF DocRow, DocStates
<1> QED
  BY <1>1, NoVersionIsRow DEF Init, TypeOK

\* The type invariant: the tables of the store keep the shape documents.py gives
\* them, whatever is called.
THEOREM TypeCorrect == Spec => []TypeOK
<1>1. TypeOK /\ [Next]_storeVars => TypeOK'
  <2>1. ASSUME TypeOK, UNCHANGED storeVars PROVE TypeOK'
    BY <2>1 DEF TypeOK, storeVars
  <2> QED
    BY <2>1, HostType, IngestCallType DEF Next
<1> QED
  BY <1>1, TypeCorrectStart, PTL DEF Spec

-----------------------------------------------------------------------------
(* The four tables agree.  The invariant is about one version at a time, and *)
(* so are its proofs: each lemma takes a version e, m and asks whether the   *)
(* operation wrote to it.                                                    *)

Agree(d, n) ==
  /\ drafts[d][n] # {} <=> versions[d][n].state = "awaiting_confirmation"
  /\ versions[d][n].state = "error" => chunks[d][n] = {} /\ n \notin originals[d]
  /\ versions[d][n].state # "none" => Live(d)
  /\ versions[d][n].state = "none" =>
       drafts[d][n] = {} /\ chunks[d][n] = {} /\ n \notin originals[d]
  /\ versions[d][n].state = "ready" => docs[d].active = n

AllAgree == \A d \in Docs, n \in Numbers : Agree(d, n)

LEMMA StoreInvIsAllAgree == StoreInv <=> AllAgree
BY DEF StoreInv, AllAgree, Agree, DraftIffAwaiting, ErrorHoldsNothing, NoOrphans,
       ReadyIsActive

\* A version nothing was written to still agrees.
Same(d, n) ==
  /\ docs'[d] = docs[d]
  /\ versions'[d][n] = versions[d][n]
  /\ drafts'[d][n] = drafts[d][n]
  /\ chunks'[d][n] = chunks[d][n]
  /\ n \in originals'[d] <=> n \in originals[d]

LEMMA SameAgrees ==
  ASSUME NEW d \in Docs, NEW n \in Numbers, Agree(d, n), Same(d, n)
  PROVE  Agree(d, n)'
BY DEF Agree, Same, Live

\* So does a version that holds nothing, of a row that is gone or in error.
Empty(d, n) ==
  /\ drafts'[d][n] = {} /\ chunks'[d][n] = {} /\ n \notin originals'[d]

LEMMA RemovedAgrees ==
  ASSUME NEW d \in Docs, NEW n \in Numbers, Empty(d, n),
         \/ versions'[d][n].state = "none"
         \/ versions'[d][n].state = "error" /\ Live(d)'
  PROVE  Agree(d, n)'
BY DEF Agree, Empty

LEMMA CreateDocumentAgrees ==
  ASSUME TypeOK, AllAgree, NEW d \in Docs, CreateDocument(d)
  PROVE  AllAgree'
<1> SUFFICES ASSUME NEW e \in Docs, NEW m \in Numbers PROVE Agree(e, m)'
  BY DEF AllAgree
<1>1. Agree(e, m)
  BY DEF AllAgree
<1>2. CASE e = d
  BY <1>1, <1>2 DEF TypeOK, CreateDocument, Agree, Live, DocRow
<1>3. CASE e # d
  BY <1>1, <1>3, SameAgrees DEF TypeOK, CreateDocument, Same
<1> QED
  BY <1>2, <1>3

LEMMA RemoveAgrees ==
  ASSUME TypeOK, AllAgree, NEW S \in SUBSET Docs, NEW kind, Remove(S, kind)
  PROVE  AllAgree'
<1> SUFFICES ASSUME NEW e \in Docs, NEW m \in Numbers PROVE Agree(e, m)'
  BY DEF AllAgree
<1>1. Agree(e, m)
  BY DEF AllAgree
<1>2. CASE e \in S
  BY <1>2, RemovedAgrees DEF Remove, Empty, NoVersion
<1>3. CASE e \notin S
  BY <1>1, <1>3, SameAgrees DEF Remove, Same
<1> QED
  BY <1>2, <1>3

LEMMA BeginVersionAgrees ==
  ASSUME TypeOK, AllAgree, NEW d \in Docs, NEW c \in Contents, NEW keep \in BOOLEAN,
         NEW moment \in Nat, NEW n \in Numbers, BeginVersion(d, c, keep, moment, n)
  PROVE  AllAgree'
<1> SUFFICES ASSUME NEW e \in Docs, NEW m \in Numbers PROVE Agree(e, m)'
  BY DEF AllAgree
<1>1. Agree(e, m) /\ Agree(d, n)
  BY DEF AllAgree
<1>2. CASE e = d /\ m = n
  <2>1. CASE ReopenVersion(d, c, moment, n)
    <3>1. CASE versions[d][n].state = "ready"
      <4>1. /\ docs' = docs /\ versions' = versions
            /\ drafts' = drafts /\ chunks' = chunks
        BY <2>1, <3>1 DEF BeginVersion, ReopenVersion
      <4> QED
        BY <1>1, <1>2, <3>1, <4>1 DEF Agree, Live
    <3>2. CASE versions[d][n].state # "ready"
      <4>1. versions[d][n] \in VersionRow /\ Live(d)
        BY DEF TypeOK, BeginVersion
      <4>2. /\ docs' = docs
            /\ versions' = [versions EXCEPT ![d][n] = [versions[d][n] EXCEPT
                  !.state = "processing", !.reason = "", !.claimed = moment]]
            /\ drafts' = [drafts EXCEPT ![d][n] = {}]
        BY <2>1, <3>2 DEF BeginVersion, ReopenVersion
      <4>3. versions'[d][n].state = "processing" /\ drafts'[d][n] = {}
        BY <4>1, <4>2 DEF TypeOK, VersionRow
      <4> QED
        BY <1>2, <4>1, <4>2, <4>3 DEF Agree, Live
    <3> QED
      BY <3>1, <3>2
  <2>2. CASE NewVersion(d, c, moment, n)
    <3>1. versions[d][n].state = "none"
      <4>1. ~(n < n)
        BY DEF Numbers
      <4>2. n \notin NumbersOf(d)
        BY <2>2, <4>1 DEF NewVersion, IsNextNumber
      <4> QED
        BY <4>2 DEF NumbersOf
    <3>2. versions'[d][n].state = "processing" /\ drafts' = drafts /\ docs' = docs
      BY <2>2 DEF TypeOK, BeginVersion, NewVersion
    <3> QED
      BY <1>1, <1>2, <3>1, <3>2 DEF BeginVersion, Agree, Live
  <2> QED
    BY <2>1, <2>2 DEF BeginVersion
<1>3. CASE ~(e = d /\ m = n)
  <2>1. versions'[e][m] = versions[e][m] /\ drafts'[e][m] = drafts[e][m]
    <3>1. CASE ReopenVersion(d, c, moment, n)
      BY <1>3, <3>1 DEF TypeOK, ReopenVersion
    <3>2. CASE NewVersion(d, c, moment, n)
      BY <1>3, <3>2 DEF TypeOK, NewVersion
    <3> QED
      BY <3>1, <3>2 DEF BeginVersion
  <2> QED
    BY <1>1, <1>3, <2>1, SameAgrees DEF TypeOK, BeginVersion, Same
<1> QED
  BY <1>2, <1>3

LEMMA SaveDraftAgrees ==
  ASSUME TypeOK, AllAgree, NEW d \in Docs, NEW n \in Numbers, NEW plan \in Plans,
         NEW expires \in Nat, SaveDraft(d, n, plan, expires)
  PROVE  AllAgree'
<1> SUFFICES ASSUME NEW e \in Docs, NEW m \in Numbers PROVE Agree(e, m)'
  BY DEF AllAgree
<1>1. Agree(e, m)
  BY DEF AllAgree
<1>2. CASE e = d /\ m = n
  <2>1. versions[d][n] \in VersionRow /\ Live(d)
    BY DEF TypeOK, SaveDraft, Processing
  <2>0. plan # {}
    BY DEF Plans
  <2>2. versions'[d][n].state = "awaiting_confirmation" /\ drafts'[d][n] = plan
    BY <2>1 DEF TypeOK, SaveDraft, VersionRow
  <2> QED
    BY <1>2, <2>0, <2>1, <2>2 DEF Agree, Live, SaveDraft
<1>3. CASE ~(e = d /\ m = n)
  BY <1>1, <1>3, SameAgrees DEF TypeOK, SaveDraft, Same
<1> QED
  BY <1>2, <1>3

\* The draft that is claimed proves its version was awaiting, and so not ready.
LEMMA ClaimDraftAgrees ==
  ASSUME TypeOK, AllAgree, NEW d \in Docs, NEW n \in Numbers, NEW moment \in Nat,
         ClaimDraft(d, n, moment)
  PROVE  AllAgree'
<1> SUFFICES ASSUME NEW e \in Docs, NEW m \in Numbers PROVE Agree(e, m)'
  BY DEF AllAgree
<1>1. Agree(e, m)
  BY DEF AllAgree
<1>2. CASE e = d /\ m = n
  <2>1. versions[d][n] \in VersionRow /\ Live(d)
    BY DEF TypeOK, ClaimDraft
  <2>2. versions'[d][n].state = "processing" /\ drafts'[d][n] = {}
    BY <2>1 DEF TypeOK, ClaimDraft, VersionRow
  <2> QED
    BY <1>2, <2>1, <2>2 DEF Agree, Live, ClaimDraft
<1>3. CASE ~(e = d /\ m = n)
  BY <1>1, <1>3, SameAgrees DEF TypeOK, ClaimDraft, Same
<1> QED
  BY <1>2, <1>3

LEMMA AddChunksAgrees ==
  ASSUME TypeOK, AllAgree, NEW d \in Docs, NEW n \in Numbers, NEW batch \in SUBSET Ordinals,
         AddChunks(d, n, batch)
  PROVE  AllAgree'
<1> SUFFICES ASSUME NEW e \in Docs, NEW m \in Numbers PROVE Agree(e, m)'
  BY DEF AllAgree
<1>1. Agree(e, m)
  BY DEF AllAgree
<1>2. CASE e = d /\ m = n
  BY <1>1, <1>2 DEF AddChunks, Processing, Agree, Live
<1>3. CASE ~(e = d /\ m = n)
  BY <1>1, <1>3, SameAgrees DEF TypeOK, AddChunks, Same
<1> QED
  BY <1>2, <1>3

LEMMA CommitSupersededAgrees ==
  ASSUME TypeOK, AllAgree, NEW d \in Docs, NEW n \in Numbers, CommitSuperseded(d, n)
  PROVE  AllAgree'
<1> SUFFICES ASSUME NEW e \in Docs, NEW m \in Numbers PROVE Agree(e, m)'
  BY DEF AllAgree
<1>1. Agree(e, m)
  BY DEF AllAgree
<1>2. CASE e = d /\ m = n
  <2>1. versions'[d][n].state = "none" /\ Empty(d, n)
    BY DEF TypeOK, CommitSuperseded, DropVersions, NoVersion, Empty
  <2> QED
    BY <1>2, <2>1, RemovedAgrees
<1>3. CASE ~(e = d /\ m = n)
  BY <1>1, <1>3, SameAgrees DEF TypeOK, CommitSuperseded, DropVersions, Same
<1> QED
  BY <1>2, <1>3

\* No version above the newest has a row, and every one below it goes: the one
\* committed is the only one that can be ready.
LEMMA CommitReadyAgrees ==
  ASSUME TypeOK, AllAgree, NEW d \in Docs, NEW n \in Numbers, CommitReady(d, n)
  PROVE  AllAgree'
<1> SUFFICES ASSUME NEW e \in Docs, NEW m \in Numbers PROVE Agree(e, m)'
  BY DEF AllAgree
<1>1. Agree(e, m)
  BY DEF AllAgree
<1>2. CASE e # d
  BY <1>1, <1>2, SameAgrees DEF TypeOK, CommitReady, DropVersions, Same
<1>3. CASE e = d
  <2>1. /\ Live(d)' /\ docs'[d].active = n
        /\ versions'[d] = [k \in Numbers |->
             IF k = n THEN [versions[d][n] EXCEPT !.state = "ready", !.reason = ""]
             ELSE IF k < n THEN NoVersion ELSE versions[d][k]]
    BY DEF TypeOK, CommitReady, Processing, Live, DocRow
  <2>2. m \in Int /\ n \in Int
    BY DEF Numbers
  <2>3. CASE m = n
    <3>1. versions[d][n] \in VersionRow /\ versions[d][n].state = "processing"
      BY DEF TypeOK, CommitReady, Processing
    <3>2. versions'[d][n].state = "ready"
      BY <2>1, <3>1 DEF VersionRow
    <3>3. drafts'[d][n] = drafts[d][n]
      BY <2>2 DEF TypeOK, CommitReady, DropVersions
    <3> QED
      BY <1>1, <1>3, <2>1, <2>3, <3>1, <3>2, <3>3 DEF Agree
  <2>4. CASE m < n
    <3>0. versions'[d][m] = NoVersion
      BY <2>1, <2>2, <2>4
    <3>1. versions'[d][m].state = "none"
      BY <3>0, NoVersionIsRow
    <3>2. CASE m \in NumbersOf(d)
      <4>1. Empty(d, m)
        BY <2>4, <3>2 DEF TypeOK, CommitReady, DropVersions, Empty
      <4> QED
        BY <1>3, <3>1, <4>1, RemovedAgrees
    <3>3. CASE m \notin NumbersOf(d)
      <4>1. drafts[d][m] = {} /\ chunks[d][m] = {} /\ m \notin originals[d]
        BY <1>1, <1>3, <3>3 DEF Agree, NumbersOf
      <4>2. Empty(d, m)
        BY <3>3, <4>1 DEF TypeOK, CommitReady, DropVersions, Empty
      <4> QED
        BY <1>3, <3>1, <4>2, RemovedAgrees
    <3> QED
      BY <3>2, <3>3
  <2>5. CASE n < m
    <3>1. versions[d][m].state = "none"
      BY <2>2, <2>5 DEF CommitReady, IsNewest, NumbersOf
    <3>2. drafts[d][m] = {} /\ chunks[d][m] = {} /\ m \notin originals[d]
      BY <1>1, <1>3, <3>1 DEF Agree
    <3>3. versions'[d][m].state = "none"
      BY <2>1, <2>2, <2>5, <3>1
    <3>4. Empty(d, m)
      BY <3>2 DEF TypeOK, CommitReady, DropVersions, Empty
    <3> QED
      BY <1>3, <3>3, <3>4, RemovedAgrees
  <2> QED
    BY <2>2, <2>3, <2>4, <2>5
<1> QED
  BY <1>2, <1>3

\* The versions that end hold nothing, and stay rows of a live document.
LEMMA EndVersionsAgrees ==
  ASSUME TypeOK, AllAgree, NEW S \in SUBSET (Docs \X Numbers), NEW reason,
         \A v \in S : Live(v[1]),
         EndVersions(S, reason)
  PROVE  AllAgree'
<1> SUFFICES ASSUME NEW e \in Docs, NEW m \in Numbers PROVE Agree(e, m)'
  BY DEF AllAgree
<1>1. Agree(e, m) /\ versions[e][m] \in VersionRow
  BY DEF AllAgree, TypeOK
<1>2. CASE <<e, m>> \in S
  <2>1. Live(e)'
    BY <1>2 DEF EndVersions, Live
  <2>2. versions'[e][m] = [versions[e][m] EXCEPT !.state = "error", !.reason = reason]
    BY <1>2 DEF EndVersions
  <2>3. versions'[e][m].state = "error"
    BY <1>1, <2>2 DEF VersionRow
  <2>4. Empty(e, m)
    BY <1>2 DEF EndVersions, Empty
  <2> QED
    BY <2>1, <2>3, <2>4, RemovedAgrees
<1>3. CASE <<e, m>> \notin S
  BY <1>1, <1>3, SameAgrees DEF EndVersions, Same
<1> QED
  BY <1>2, <1>3

LEMMA SweepAgrees ==
  ASSUME TypeOK, AllAgree, NEW due \in SUBSET (Docs \X Numbers), NEW reason,
         \A v \in due : Live(v[1]),
         Sweep(due, reason)
  PROVE  AllAgree'
<1>1. PICK S \in SUBSET due : EndVersions(S, reason)
  BY DEF Sweep
<1> QED
  BY <1>1, EndVersionsAgrees

LEMMA HostAgrees ==
  ASSUME TypeOK, AllAgree, HostNext
  PROVE  AllAgree'
<1>1. ASSUME NEW d \in Docs, CreateDocument(d) PROVE AllAgree'
  BY <1>1, CreateDocumentAgrees
<1>2. ASSUME NEW d \in Docs, DeleteDocument(d) PROVE AllAgree'
  BY <1>2, RemoveAgrees DEF DeleteDocument
<1>3. ASSUME NEW p \in Owners, PurgeOwnerSubtree(p) PROVE AllAgree'
  BY <1>3, RemoveAgrees DEF PurgeOwnerSubtree
<1>4. ASSUME NEW d \in Docs, NEW n \in Numbers, DiscardDraft(d, n) PROVE AllAgree'
  <2>1. /\ {<<d, n>>} \in SUBSET (Docs \X Numbers)
        /\ \A v \in {<<d, n>>} : Live(v[1])
    BY <1>4 DEF DiscardDraft, Awaiting
  <2> QED
    BY <1>4, <2>1, EndVersionsAgrees DEF DiscardDraft
<1>5. CASE ExpireDrafts
  BY <1>5, SweepAgrees DEF ExpireDrafts, Due, Awaiting
<1>6. CASE InterruptStale
  BY <1>6, SweepAgrees DEF InterruptStale, Abandoned, Processing
<1>7. ASSUME UNCHANGED <<docs, versions, drafts, chunks, originals>> PROVE AllAgree'
  BY <1>7 DEF AllAgree, Agree, Live
<1>8. ASSUME NEW before \in 1..clock, PruneTombstones(before) PROVE AllAgree'
  BY <1>7, <1>8 DEF PruneTombstones
<1>9. CASE Tick
  BY <1>7, <1>9 DEF Tick
<1> QED
  BY <1>1, <1>2, <1>3, <1>4, <1>5, <1>6, <1>8, <1>9 DEF HostNext

LEMMA IngestCallAgrees ==
  ASSUME TypeOK, AllAgree, IngestCall
  PROVE  AllAgree'
<1>1. PICK d \in Docs, n \in Numbers :
        \/ \E c \in Contents, keep \in BOOLEAN, moment \in 0..clock :
             BeginVersion(d, c, keep, moment, n)
        \/ \E plan \in Plans, moment \in 0..clock : SaveDraft(d, n, plan, moment + DraftTtl)
        \/ \E moment \in 0..clock : ClaimDraft(d, n, moment)
        \/ \E batch \in Plans : AddChunks(d, n, batch)
        \/ CommitVersion(d, n)
        \/ \E reason \in FailReasons : FailVersion(d, n, reason)
  BY DEF IngestCall
<1>2. 0..clock \subseteq Nat
  BY DEF TypeOK
<1>3. \A moment \in 0..clock : moment + DraftTtl \in Nat
  BY <1>2, BoundsAssumption
<1>4. CASE \E c \in Contents, keep \in BOOLEAN, moment \in 0..clock :
             BeginVersion(d, c, keep, moment, n)
  BY <1>2, <1>4, BeginVersionAgrees
<1>5. CASE \E plan \in Plans, moment \in 0..clock : SaveDraft(d, n, plan, moment + DraftTtl)
  BY <1>3, <1>5, SaveDraftAgrees
<1>6. CASE \E moment \in 0..clock : ClaimDraft(d, n, moment)
  BY <1>2, <1>6, ClaimDraftAgrees
<1>7. CASE \E batch \in Plans : AddChunks(d, n, batch)
  BY <1>7, AddChunksAgrees DEF Plans
<1>8. CASE CommitVersion(d, n)
  BY <1>8, CommitSupersededAgrees, CommitReadyAgrees DEF CommitVersion
<1>9. CASE \E reason \in FailReasons : FailVersion(d, n, reason)
  <2>1. /\ {<<d, n>>} \in SUBSET (Docs \X Numbers)
        /\ \A v \in {<<d, n>>} : Live(v[1])
    BY <1>9 DEF FailVersion
  <2> QED
    BY <1>9, <2>1, EndVersionsAgrees DEF FailVersion
<1> QED
  BY <1>1, <1>4, <1>5, <1>6, <1>7, <1>8, <1>9

\* What the store holds of a version is what its state says: a draft while it
\* awaits, nothing once it ended or is gone, and one served version per document.
THEOREM StoreInvariant == Spec => []StoreInv
<1>1. Init => AllAgree
  <2> SUFFICES ASSUME Init, NEW d \in Docs, NEW n \in Numbers PROVE Agree(d, n)
    BY DEF AllAgree
  <2> QED
    BY DEF Init, Agree, NoVersion
<1>2. TypeOK /\ AllAgree /\ [Next]_storeVars => AllAgree'
  <2>1. ASSUME AllAgree, UNCHANGED storeVars PROVE AllAgree'
    BY <2>1 DEF AllAgree, Agree, Live, storeVars
  <2> QED
    BY <2>1, HostAgrees, IngestCallAgrees DEF Next
<1>3. AllAgree => StoreInv
  BY StoreInvIsAllAgree
<1> QED
  BY <1>1, <1>2, <1>3, TypeCorrect, PTL DEF Spec

-----------------------------------------------------------------------------
(* What a step may never do.                                                 *)

\* A row where there was none is above every row of its document.
Born(d, n) ==
  /\ Live(d)
  /\ \A m \in NumbersOf(d) : m < n
  /\ versions'[d][n].content \in Contents

\* What every operation but a commit and a removal leaves alone: the version each
\* document answers with, the rows there are with what they are of, and every ready
\* version.
Keeps ==
  /\ docs' = docs
  /\ \A d \in Docs : NumbersOf(d) \subseteq NumbersOf(d)'
  /\ \A d \in Docs : \A n \in NumbersOf(d)' :
       IF versions[d][n].state = "none" THEN Born(d, n)
       ELSE versions'[d][n].content = versions[d][n].content
  /\ \A d \in Docs, n \in Numbers : versions[d][n].state = "ready" =>
       versions'[d][n] = versions[d][n] /\ chunks'[d][n] = chunks[d][n]

\* An operation that writes one row, and not a ready one, is of that kind.
LEMMA OneRowKeeps ==
  ASSUME NEW d \in Docs, NEW n \in Numbers, docs' = docs,
         \A e \in Docs, m \in Numbers : ~(e = d /\ m = n) =>
           versions'[e][m] = versions[e][m] /\ chunks'[e][m] = chunks[e][m],
         versions[d][n].state # "ready", versions'[d][n].state # "none",
         IF versions[d][n].state = "none" THEN Born(d, n)
         ELSE versions'[d][n].content = versions[d][n].content
  PROVE  Keeps
<1>1. /\ \A e \in Docs : NumbersOf(e) \subseteq NumbersOf(e)'
      /\ \A e \in Docs, m \in Numbers : versions[e][m].state = "ready" =>
           versions'[e][m] = versions[e][m] /\ chunks'[e][m] = chunks[e][m]
  BY DEF NumbersOf
<1>2. ASSUME NEW e \in Docs, NEW m \in NumbersOf(e)'
      PROVE  IF versions[e][m].state = "none" THEN Born(e, m)
             ELSE versions'[e][m].content = versions[e][m].content
  <2>1. CASE e = d /\ m = n
    BY <2>1
  <2>2. CASE ~(e = d /\ m = n)
    <3>1. m \in Numbers /\ versions'[e][m].state # "none"
      BY DEF NumbersOf
    <3>2. versions'[e][m] = versions[e][m]
      BY <2>2, <3>1
    <3> QED BY <3>1, <3>2
  <2> QED BY <2>1, <2>2
<1> QED BY <1>1, <1>2 DEF Keeps

LEMMA BeginVersionKeeps ==
  ASSUME TypeOK, NEW d \in Docs, NEW c \in Contents, NEW keep \in BOOLEAN,
         NEW moment \in Nat, NEW n \in Numbers, BeginVersion(d, c, keep, moment, n)
  PROVE  Keeps
<1>1. docs' = docs /\ chunks' = chunks
  BY DEF BeginVersion
<1>2. CASE ReopenVersion(d, c, moment, n)
  <2>1. CASE versions[d][n].state = "ready"
    BY <1>1, <1>2, <2>1 DEF ReopenVersion, Keeps, NumbersOf
  <2>2. CASE versions[d][n].state # "ready"
    <3>1. versions' = [versions EXCEPT ![d][n] = [versions[d][n] EXCEPT
                  !.state = "processing", !.reason = "", !.claimed = moment]]
      BY <1>2, <2>2 DEF ReopenVersion
    <3>2. versions[d][n] \in VersionRow
      BY DEF TypeOK
    <3>3. /\ versions'[d][n].state = "processing"
          /\ versions'[d][n].content = versions[d][n].content
          /\ versions[d][n].state # "none"
      BY <1>2, <3>1, <3>2 DEF TypeOK, VersionRow, ReopenVersion, NumbersOf
    <3>4. \A e \in Docs, m \in Numbers :
            ~(e = d /\ m = n) => versions'[e][m] = versions[e][m]
      BY <3>1 DEF TypeOK
    <3> QED
      BY <1>1, <2>2, <3>3, <3>4, OneRowKeeps
  <2> QED
    BY <2>1, <2>2
<1>3. CASE NewVersion(d, c, moment, n)
  <2>1. ~(n < n)
    BY DEF Numbers
  <2>2. n \notin NumbersOf(d)
    BY <1>3, <2>1 DEF NewVersion, IsNextNumber
  <2>3. versions[d][n].state = "none"
    BY <2>2 DEF NumbersOf
  <2>4. versions'[d][n].state = "processing" /\ versions'[d][n].content = c
    BY <1>3 DEF TypeOK, NewVersion
  <2>5. \A e \in Docs, m \in Numbers :
          ~(e = d /\ m = n) => versions'[e][m] = versions[e][m]
    BY <1>3 DEF TypeOK, NewVersion
  <2>6. Born(d, n)
    BY <1>3, <2>4 DEF Born, BeginVersion, NewVersion, IsNextNumber
  <2> QED
    BY <1>1, <2>3, <2>4, <2>5, <2>6, OneRowKeeps
<1> QED
  BY <1>2, <1>3 DEF BeginVersion

LEMMA SaveDraftKeeps ==
  ASSUME TypeOK, NEW d \in Docs, NEW n \in Numbers, NEW plan \in Plans,
         NEW expires \in Nat, SaveDraft(d, n, plan, expires)
  PROVE  Keeps
<1>1. versions[d][n] \in VersionRow /\ versions[d][n].state = "processing"
  BY DEF TypeOK, SaveDraft, Processing
<1>2. /\ versions'[d][n].state = "awaiting_confirmation"
      /\ versions'[d][n].content = versions[d][n].content
  BY <1>1 DEF TypeOK, SaveDraft, VersionRow
<1>3. \A e \in Docs, m \in Numbers :
        ~(e = d /\ m = n) => versions'[e][m] = versions[e][m]
  BY DEF TypeOK, SaveDraft
<1> QED
  BY <1>1, <1>2, <1>3, OneRowKeeps DEF SaveDraft

\* The claim does not look at the state: that a draft belongs to a version that
\* is awaiting is what keeps it off a ready one.
LEMMA ClaimDraftKeeps ==
  ASSUME TypeOK, AllAgree, NEW d \in Docs, NEW n \in Numbers, NEW moment \in Nat,
         ClaimDraft(d, n, moment)
  PROVE  Keeps
<1>1. versions[d][n] \in VersionRow /\ versions[d][n].state = "awaiting_confirmation"
  BY DEF TypeOK, ClaimDraft, AllAgree, Agree
<1>2. /\ versions'[d][n].state = "processing"
      /\ versions'[d][n].content = versions[d][n].content
  BY <1>1 DEF TypeOK, ClaimDraft, VersionRow
<1>3. \A e \in Docs, m \in Numbers :
        ~(e = d /\ m = n) => versions'[e][m] = versions[e][m]
  BY DEF TypeOK, ClaimDraft
<1> QED
  BY <1>1, <1>2, <1>3, OneRowKeeps DEF ClaimDraft

LEMMA AddChunksKeeps ==
  ASSUME TypeOK, NEW d \in Docs, NEW n \in Numbers, NEW batch \in SUBSET Ordinals,
         AddChunks(d, n, batch)
  PROVE  Keeps
<1>1. versions[d][n].state = "processing" /\ versions' = versions
  BY DEF AddChunks, Processing
<1>2. \A e \in Docs, m \in Numbers :
        ~(e = d /\ m = n) => chunks'[e][m] = chunks[e][m]
  BY DEF TypeOK, AddChunks
<1> QED
  BY <1>1, <1>2, OneRowKeeps DEF AddChunks

LEMMA EndVersionsKeeps ==
  ASSUME TypeOK, NEW S \in SUBSET (Docs \X Numbers), NEW reason,
         \A v \in S : versions[v[1]][v[2]].state \notin {"none", "ready"},
         EndVersions(S, reason)
  PROVE  Keeps
<1>1. \A d \in Docs, n \in Numbers : <<d, n>> \notin S =>
        versions'[d][n] = versions[d][n] /\ chunks'[d][n] = chunks[d][n]
  BY DEF EndVersions
<1>2. ASSUME NEW d \in Docs, NEW n \in Numbers, <<d, n>> \in S
      PROVE  /\ versions[d][n].state \notin {"none", "ready"}
             /\ versions'[d][n].state = "error"
             /\ versions'[d][n].content = versions[d][n].content
  <2>1. versions[d][n] \in VersionRow
    BY DEF TypeOK
  <2>2. versions'[d][n] = [versions[d][n] EXCEPT !.state = "error", !.reason = reason]
    BY <1>2 DEF EndVersions
  <2> QED
    BY <1>2, <2>1, <2>2 DEF VersionRow
<1> QED
  BY <1>1, <1>2 DEF EndVersions, Keeps, NumbersOf

LEMMA SweepKeeps ==
  ASSUME TypeOK, NEW due \in SUBSET (Docs \X Numbers), NEW reason,
         \A v \in due : versions[v[1]][v[2]].state \notin {"none", "ready"},
         Sweep(due, reason)
  PROVE  Keeps
<1>1. PICK S \in SUBSET due : EndVersions(S, reason)
  BY DEF Sweep
<1> QED
  BY <1>1, EndVersionsKeeps

\* The newest row is at or above the active version: a late commit is older than
\* what is served, or is not the newest.
ActiveIsNotAhead ==
  \A d \in Docs : docs[d].active # 0 => \E m \in NumbersOf(d) : docs[d].active <= m

LEMMA CreateDocumentMoves ==
  ASSUME TypeOK, ActiveIsNotAhead, NEW d \in Docs, CreateDocument(d)
  PROVE  /\ ActiveIsNotAhead'
         /\ \A e \in Docs : docs'[e].active = docs[e].active
<1>1. \A e \in Docs : docs[e] \in DocRow
  BY DEF TypeOK
<1>2. \A e \in Docs : docs'[e].active = docs[e].active
  BY <1>1 DEF TypeOK, CreateDocument, DocRow
<1>3. versions' = versions
  BY DEF CreateDocument
<1> QED
  BY <1>2, <1>3 DEF ActiveIsNotAhead, NumbersOf

LEMMA RemoveMoves ==
  ASSUME TypeOK, ActiveIsNotAhead, NEW S \in SUBSET Docs, NEW kind, Remove(S, kind)
  PROVE  /\ ActiveIsNotAhead'
         /\ \A e \in Docs : docs'[e].state = "live" => docs'[e] = docs[e]
<1>1. \A e \in S : docs'[e] = [state |-> "gone", active |-> 0]
  BY DEF Remove
<1>2. \A e \in Docs \ S : docs'[e] = docs[e] /\ versions'[e] = versions[e]
  BY DEF Remove
<1>3. \A e \in S : docs'[e].state = "gone" /\ docs'[e].active = 0
  BY <1>1
<1> QED
  BY <1>2, <1>3 DEF ActiveIsNotAhead, NumbersOf

LEMMA KeepsMoves ==
  ASSUME ActiveIsNotAhead, Keeps
  PROVE  ActiveIsNotAhead'
BY DEF ActiveIsNotAhead, Keeps

LEMMA CommitSupersededMoves ==
  ASSUME TypeOK, ActiveIsNotAhead, NEW d \in Docs, NEW n \in Numbers, CommitSuperseded(d, n)
  PROVE  ActiveIsNotAhead' /\ docs' = docs
<1>1. PICK k \in NumbersOf(d) : n < k
  BY DEF CommitSuperseded, IsNewest, NumbersOf, Numbers
<1>2. \A e \in Docs, m \in Numbers :
        ~(e = d /\ m = n) => versions'[e][m] = versions[e][m]
  BY DEF TypeOK, CommitSuperseded
<1>3. docs' = docs
  BY DEF CommitSuperseded
<1> SUFFICES ASSUME NEW e \in Docs, docs[e].active # 0
             PROVE  \E m \in NumbersOf(e)' : docs[e].active <= m
  BY <1>3 DEF ActiveIsNotAhead
<1>4. PICK m \in NumbersOf(e) : docs[e].active <= m
  BY DEF ActiveIsNotAhead
<1>5. CASE ~(e = d /\ m = n)
  BY <1>2, <1>4, <1>5 DEF NumbersOf
<1>6. CASE e = d /\ m = n
  <2>1. k \in NumbersOf(e)'
    BY <1>1, <1>2, <1>6 DEF NumbersOf, Numbers
  <2>2. docs[e].active \in Int /\ n \in Int /\ k \in Int
    BY <1>1 DEF TypeOK, DocRow, Numbers, NumbersOf
  <2>3. docs[e].active <= k
    BY <1>1, <1>4, <1>6, <2>2
  <2> QED
    BY <2>1, <2>3
<1> QED
  BY <1>5, <1>6

LEMMA CommitReadyMoves ==
  ASSUME TypeOK, ActiveIsNotAhead, NEW d \in Docs, NEW n \in Numbers, CommitReady(d, n)
  PROVE  /\ ActiveIsNotAhead'
         /\ \A e \in Docs : docs[e].active <= docs'[e].active
<1>1. \A e \in Docs : docs[e] \in DocRow /\ docs[e].active \in Int
  BY DEF TypeOK, DocRow
<1>2. docs'[d].active = n /\ \A e \in Docs \ {d} : docs'[e] = docs[e]
  BY <1>1 DEF TypeOK, CommitReady, DocRow
<1>3. n \in Int /\ n \in NumbersOf(d) /\ 0 <= n /\ \A m \in NumbersOf(d) : m \in Int
  BY DEF CommitReady, IsNewest, Numbers, NumbersOf
<1>4. docs[d].active <= n
  <2>1. CASE docs[d].active = 0
    BY <1>3, <2>1
  <2>2. CASE docs[d].active # 0
    <3>1. PICK m \in NumbersOf(d) : docs[d].active <= m
      BY <2>2 DEF ActiveIsNotAhead
    <3>2. m <= n
      BY DEF CommitReady, IsNewest
    <3> QED
      BY <1>1, <1>3, <3>1, <3>2
  <2> QED
    BY <2>1, <2>2
<1>5. n \in NumbersOf(d)'
  <2>1. versions'[d][n] = [versions[d][n] EXCEPT !.state = "ready", !.reason = ""]
    BY DEF TypeOK, CommitReady
  <2>2. versions[d][n] \in VersionRow
    BY DEF TypeOK
  <2>3. versions'[d][n].state = "ready"
    BY <2>1, <2>2 DEF VersionRow
  <2> QED
    BY <2>3 DEF NumbersOf
<1>6. \A e \in Docs \ {d} : NumbersOf(e)' = NumbersOf(e)
  BY DEF TypeOK, CommitReady, NumbersOf
<1>7. ASSUME NEW e \in Docs, docs'[e].active # 0
      PROVE  \E m \in NumbersOf(e)' : docs'[e].active <= m
  <2>1. CASE e = d
    BY <1>2, <1>3, <1>5, <2>1
  <2>2. CASE e # d
    BY <1>2, <1>6, <1>7, <2>2 DEF ActiveIsNotAhead
  <2> QED
    BY <2>1, <2>2
<1>8. \A e \in Docs : docs[e].active <= docs'[e].active
  BY <1>1, <1>2, <1>4
<1> QED
  BY <1>7, <1>8 DEF ActiveIsNotAhead

\* What a panel or the tick does is a creation, a removal, or keeps what is served.
LEMMA HostKinds ==
  ASSUME TypeOK, HostNext
  PROVE  \/ \E d \in Docs : CreateDocument(d)
         \/ \E S \in SUBSET Docs, kind \in Kinds : Remove(S, kind)
         \/ Keeps
<1>1. ASSUME NEW d \in Docs, DeleteDocument(d)
      PROVE  \E S \in SUBSET Docs, kind \in Kinds : Remove(S, kind)
  <2>1. {d} \in SUBSET Docs /\ "deleted" \in Kinds
    BY Names
  <2> QED
    BY <1>1, <2>1 DEF DeleteDocument
<1>2. ASSUME NEW p \in Owners, PurgeOwnerSubtree(p)
      PROVE  \E S \in SUBSET Docs, kind \in Kinds : Remove(S, kind)
  <2>1. {d \in Docs : Live(d) /\ OwnerOf[d] \in Under[p]} \in SUBSET Docs
        /\ "purged" \in Kinds
    BY Names
  <2> QED
    BY <1>2, <2>1 DEF PurgeOwnerSubtree
<1>3. ASSUME NEW d \in Docs, NEW n \in Numbers, DiscardDraft(d, n) PROVE Keeps
  <2>1. /\ {<<d, n>>} \in SUBSET (Docs \X Numbers)
        /\ \A v \in {<<d, n>>} : versions[v[1]][v[2]].state \notin {"none", "ready"}
    BY <1>3 DEF DiscardDraft, Awaiting
  <2> QED
    BY <1>3, <2>1, EndVersionsKeeps DEF DiscardDraft
<1>4. CASE ExpireDrafts
  BY <1>4, SweepKeeps DEF ExpireDrafts, Due, Awaiting
<1>5. CASE InterruptStale
  BY <1>5, SweepKeeps DEF InterruptStale, Abandoned, Processing
<1>6. ASSUME UNCHANGED <<docs, versions, chunks>> PROVE Keeps
  BY <1>6 DEF Keeps, NumbersOf
<1>7. ASSUME NEW before \in 1..clock, PruneTombstones(before) PROVE Keeps
  BY <1>6, <1>7 DEF PruneTombstones
<1>8. CASE Tick
  BY <1>6, <1>8 DEF Tick
<1> QED
  BY <1>1, <1>2, <1>3, <1>4, <1>5, <1>7, <1>8 DEF HostNext

\* What an ingestion calls is a commit, or keeps what is served.
LEMMA CallKinds ==
  ASSUME TypeOK, AllAgree, IngestCall
  PROVE  \/ \E d \in Docs, n \in Numbers : CommitSuperseded(d, n)
         \/ \E d \in Docs, n \in Numbers : CommitReady(d, n)
         \/ Keeps
<1>1. PICK d \in Docs, n \in Numbers :
        \/ \E c \in Contents, keep \in BOOLEAN, moment \in 0..clock :
             BeginVersion(d, c, keep, moment, n)
        \/ \E plan \in Plans, moment \in 0..clock :
             SaveDraft(d, n, plan, moment + DraftTtl)
        \/ \E moment \in 0..clock : ClaimDraft(d, n, moment)
        \/ \E batch \in Plans : AddChunks(d, n, batch)
        \/ CommitVersion(d, n)
        \/ \E reason \in FailReasons : FailVersion(d, n, reason)
  BY DEF IngestCall
<1>2. 0..clock \subseteq Nat
  BY DEF TypeOK
<1>3. \A moment \in 0..clock : moment + DraftTtl \in Nat
  BY <1>2, BoundsAssumption
<1>4. CASE \E c \in Contents, keep \in BOOLEAN, moment \in 0..clock :
             BeginVersion(d, c, keep, moment, n)
  BY <1>2, <1>4, BeginVersionKeeps
<1>5. CASE \E plan \in Plans, moment \in 0..clock :
             SaveDraft(d, n, plan, moment + DraftTtl)
  BY <1>3, <1>5, SaveDraftKeeps
<1>6. CASE \E moment \in 0..clock : ClaimDraft(d, n, moment)
  BY <1>2, <1>6, ClaimDraftKeeps
<1>7. CASE \E batch \in Plans : AddChunks(d, n, batch)
  BY <1>7, AddChunksKeeps DEF Plans
<1>8. CASE CommitVersion(d, n)
  BY <1>8 DEF CommitVersion
<1>9. CASE \E reason \in FailReasons : FailVersion(d, n, reason)
  <2>1. /\ {<<d, n>>} \in SUBSET (Docs \X Numbers)
        /\ \A v \in {<<d, n>>} : versions[v[1]][v[2]].state \notin {"none", "ready"}
    BY <1>9 DEF FailVersion
  <2> QED
    BY <1>9, <2>1, EndVersionsKeeps DEF FailVersion
<1> QED
  BY <1>1, <1>4, <1>5, <1>6, <1>7, <1>8, <1>9

\* Every step is a creation, a removal, a commit, or keeps what is served.
LEMMA StepKinds ==
  ASSUME TypeOK, AllAgree, Next
  PROVE  \/ \E d \in Docs : CreateDocument(d)
         \/ \E S \in SUBSET Docs, kind \in Kinds : Remove(S, kind)
         \/ \E d \in Docs, n \in Numbers : CommitSuperseded(d, n)
         \/ \E d \in Docs, n \in Numbers : CommitReady(d, n)
         \/ Keeps
BY HostKinds, CallKinds DEF Next

LEMMA StepMoves ==
  ASSUME TypeOK, AllAgree, ActiveIsNotAhead, Next
  PROVE  /\ ActiveIsNotAhead'
         /\ \A d \in Docs : docs'[d].state = "live" => docs'[d].active >= docs[d].active
<1>1. \A d \in Docs : docs[d].active \in Int
  BY DEF TypeOK, DocRow
<1>2. CASE \E d \in Docs : CreateDocument(d)
  BY <1>1, <1>2, CreateDocumentMoves
<1>3. CASE \E S \in SUBSET Docs, kind \in Kinds : Remove(S, kind)
  BY <1>1, <1>3, RemoveMoves
<1>4. CASE \E d \in Docs, n \in Numbers : CommitSuperseded(d, n)
  BY <1>1, <1>4, CommitSupersededMoves
<1>5. CASE \E d \in Docs, n \in Numbers : CommitReady(d, n)
  <2>1. /\ ActiveIsNotAhead'
        /\ \A e \in Docs : docs[e].active <= docs'[e].active
    BY <1>5, CommitReadyMoves
  <2>2. \A e \in Docs : docs'[e].active \in Int
    BY <1>5, CommitVersionType DEF CommitVersion, TypeOK, DocRow
  <2> QED
    BY <1>1, <2>1, <2>2
<1>6. CASE Keeps
  BY <1>1, <1>6, KeepsMoves DEF Keeps
<1> QED
  BY <1>2, <1>3, <1>4, <1>5, <1>6, StepKinds

\* What a document answers with only moves forward: a commit that is overtaken,
\* at whatever point, never brings an older version back.
THEOREM AnswersForward == Spec => AnswersMoveForward
<1>1. Init => ActiveIsNotAhead
  BY DEF Init, ActiveIsNotAhead
<1>2. TypeOK /\ AllAgree /\ ActiveIsNotAhead /\ [Next]_storeVars =>
        /\ ActiveIsNotAhead'
        /\ [\A d \in Docs :
              docs'[d].state = "live" => docs'[d].active >= docs[d].active]_storeVars
  <2>1. ASSUME ActiveIsNotAhead, UNCHANGED storeVars PROVE ActiveIsNotAhead'
    BY <2>1 DEF ActiveIsNotAhead, NumbersOf, storeVars
  <2> QED
    BY <2>1, StepMoves
<1>3. StoreInv => AllAgree
  BY StoreInvIsAllAgree
<1> QED
  BY <1>1, <1>2, <1>3, TypeCorrect, StoreInvariant, PTL DEF Spec, AnswersMoveForward

LEMMA CommitReadyTakes ==
  ASSUME TypeOK, NEW d \in Docs, NEW n \in Numbers, CommitReady(d, n),
         NEW e \in Docs, NEW m \in Numbers,
         versions[e][m].state = "ready", versions'[e][m].state # "none"
  PROVE  versions'[e][m] = versions[e][m] /\ chunks'[e][m] = chunks[e][m]
<1>1. n \in Int /\ m \in Int
  BY DEF Numbers
<1>2. versions[d][n].state = "processing"
  BY DEF CommitReady, Processing
<1>3. CASE e # d
  BY <1>3 DEF TypeOK, CommitReady, DropVersions
<1>4. CASE e = d
  <2>1. versions'[d][m] = IF m = n
                          THEN [versions[d][n] EXCEPT !.state = "ready", !.reason = ""]
                          ELSE IF m < n THEN NoVersion ELSE versions[d][m]
    BY DEF TypeOK, CommitReady
  <2>2. m # n
    BY <1>2, <1>4
  <2>3. ~(m < n)
    BY <1>4, <2>1, <2>2, NoVersionIsRow
  <2>4. versions'[d][m] = versions[d][m]
    BY <2>1, <2>2, <2>3
  <2>5. chunks'[d][m] = chunks[d][m]
    BY <2>3 DEF TypeOK, CommitReady, DropVersions
  <2> QED
    BY <1>4, <2>4, <2>5
<1> QED
  BY <1>3, <1>4

\* A ready row is never written to, and goes only as a whole.
LEMMA ReadyStands ==
  ASSUME TypeOK, AllAgree, Next, NEW e \in Docs, NEW m \in Numbers,
         versions[e][m].state = "ready", versions'[e][m].state # "none"
  PROVE  versions'[e][m] = versions[e][m] /\ chunks'[e][m] = chunks[e][m]
<1>1. CASE \E d \in Docs : CreateDocument(d)
  BY <1>1 DEF CreateDocument
<1>2. ASSUME NEW S \in SUBSET Docs, NEW kind \in Kinds, Remove(S, kind)
      PROVE  versions'[e][m] = versions[e][m] /\ chunks'[e][m] = chunks[e][m]
  <2>1. e \in S => versions'[e][m] = NoVersion
    BY <1>2 DEF Remove
  <2>2. e \notin S
    BY <2>1, NoVersionIsRow
  <2> QED
    BY <1>2, <2>2 DEF Remove
<1>3. ASSUME NEW d \in Docs, NEW n \in Numbers, CommitSuperseded(d, n)
      PROVE  versions'[e][m] = versions[e][m] /\ chunks'[e][m] = chunks[e][m]
  <2>1. versions'[d][n].state = "none"
    BY <1>3, NoVersionIsRow DEF TypeOK, CommitSuperseded
  <2>2. \A c \in Docs, k \in Numbers : ~(c = d /\ k = n) =>
          versions'[c][k] = versions[c][k] /\ chunks'[c][k] = chunks[c][k]
    BY <1>3 DEF TypeOK, CommitSuperseded, DropVersions
  <2> QED
    BY <2>1, <2>2
<1>4. CASE \E d \in Docs, n \in Numbers : CommitReady(d, n)
  BY <1>4, CommitReadyTakes
<1>5. CASE Keeps
  BY <1>5 DEF Keeps
<1> QED
  BY <1>1, <1>2, <1>3, <1>4, <1>5, StepKinds

\* What is served is never written to, and goes only as a whole.
THEOREM ServedImmutable == Spec => ServedIsImmutable
<1> DEFINE Untouched ==
      \A d \in Docs, n \in Numbers :
        (versions[d][n].state = "ready" /\ versions'[d][n].state # "none") =>
          /\ versions'[d][n] = versions[d][n]
          /\ chunks'[d][n] = chunks[d][n]
<1>1. TypeOK /\ AllAgree /\ Next => Untouched
  BY ReadyStands
<1>2. StoreInv => AllAgree
  BY StoreInvIsAllAgree
<1>3. TypeOK /\ StoreInv /\ [Next]_storeVars => [Untouched]_storeVars
  BY <1>1, <1>2
<1> QED
  BY <1>3, TypeCorrect, StoreInvariant, PTL DEF Spec, ServedIsImmutable

\* The newest row stays while its document does.
LEMMA NewestStays ==
  ASSUME TypeOK, AllAgree, Next, NEW d \in Docs, NEW n \in Numbers,
         IsNewest(d, n), docs'[d].state = "live"
  PROVE  versions'[d][n].state # "none"
<1>1. n \in NumbersOf(d) /\ n \in Int /\ versions[d][n].state # "none"
  BY DEF IsNewest, NumbersOf, Numbers
<1>2. CASE \E e \in Docs : CreateDocument(e)
  BY <1>1, <1>2 DEF CreateDocument
<1>3. ASSUME NEW S \in SUBSET Docs, NEW kind \in Kinds, Remove(S, kind)
      PROVE  versions'[d][n].state # "none"
  <2>1. d \notin S
    BY <1>3 DEF Remove
  <2> QED
    BY <1>1, <1>3, <2>1 DEF Remove
<1>4. ASSUME NEW e \in Docs, NEW k \in Numbers, CommitSuperseded(e, k)
      PROVE  versions'[d][n].state # "none"
  <2>1. ~(d = e /\ n = k)
    BY <1>4 DEF CommitSuperseded
  <2>2. versions'[d][n] = versions[d][n]
    BY <1>4, <2>1 DEF TypeOK, CommitSuperseded
  <2> QED
    BY <1>1, <2>2
<1>5. ASSUME NEW e \in Docs, NEW k \in Numbers, CommitReady(e, k)
      PROVE  versions'[d][n].state # "none"
  <2>1. CASE d # e
    BY <1>1, <1>5, <2>1 DEF TypeOK, CommitReady
  <2>2. CASE d = e
    <3>1. n <= k /\ k <= n /\ k \in Int
      BY <1>1, <1>5, <2>2 DEF CommitReady, IsNewest, NumbersOf, Numbers
    <3>2. n = k
      BY <1>1, <3>1
    <3>3. versions'[d][n] = [versions[d][n] EXCEPT !.state = "ready", !.reason = ""]
      BY <1>5, <2>2, <3>2 DEF TypeOK, CommitReady
    <3>4. versions[d][n] \in VersionRow
      BY DEF TypeOK
    <3> QED
      BY <3>3, <3>4 DEF VersionRow
  <2> QED
    BY <2>1, <2>2
<1>6. CASE Keeps
  BY <1>1, <1>6 DEF Keeps, NumbersOf
<1> QED
  BY <1>2, <1>3, <1>4, <1>5, <1>6, StepKinds

\* A live document stays or is gone, and one that is gone stays gone.
LEMMA DocumentsEnd ==
  ASSUME TypeOK, AllAgree, Next, NEW d \in Docs
  PROVE  /\ Live(d) => docs'[d].state \in {"live", "gone"}
         /\ docs[d].state = "gone" => docs'[d].state = "gone"
<1>1. docs[d] \in DocRow
  BY DEF TypeOK
<1>2. CASE \E e \in Docs : CreateDocument(e)
  BY <1>1, <1>2 DEF TypeOK, CreateDocument, DocRow, Live
<1>3. ASSUME NEW S \in SUBSET Docs, NEW kind \in Kinds, Remove(S, kind)
      PROVE  docs'[d] = docs[d] \/ docs'[d].state = "gone"
  BY <1>3 DEF Remove
<1>4. CASE \E e \in Docs, n \in Numbers : CommitSuperseded(e, n)
  BY <1>4 DEF CommitSuperseded, Live
<1>5. CASE \E e \in Docs, n \in Numbers : CommitReady(e, n)
  BY <1>1, <1>5 DEF TypeOK, CommitReady, DocRow, Live
<1>6. CASE Keeps
  BY <1>6 DEF Keeps, Live
<1> QED
  BY <1>2, <1>3, <1>4, <1>5, <1>6, StepKinds DEF Live

\* Where there is a row now and was none, it is above every row of its document.
LEMMA RowsAreBornAbove ==
  ASSUME TypeOK, AllAgree, Next, NEW d \in Docs, NEW n \in Numbers,
         versions[d][n].state = "none", versions'[d][n].state # "none"
  PROVE  Born(d, n)
<1>1. CASE \E e \in Docs : CreateDocument(e)
  BY <1>1 DEF CreateDocument
<1>2. ASSUME NEW S \in SUBSET Docs, NEW kind \in Kinds, Remove(S, kind)
      PROVE  Born(d, n)
  <2>1. versions'[d][n] = versions[d][n] \/ versions'[d][n] = NoVersion
    BY <1>2 DEF Remove
  <2> QED
    BY <2>1, NoVersionIsRow
<1>3. ASSUME NEW e \in Docs, NEW k \in Numbers, CommitSuperseded(e, k)
      PROVE  Born(d, n)
  <2>1. versions'[d][n] = versions[d][n] \/ versions'[d][n] = NoVersion
    BY <1>3 DEF TypeOK, CommitSuperseded
  <2> QED
    BY <2>1, NoVersionIsRow
<1>4. ASSUME NEW e \in Docs, NEW k \in Numbers, CommitReady(e, k)
      PROVE  Born(d, n)
  <2>1. ~(d = e /\ n = k)
    BY <1>4 DEF CommitReady, Processing
  <2>2. versions'[d][n] = versions[d][n] \/ versions'[d][n] = NoVersion
    BY <1>4, <2>1 DEF TypeOK, CommitReady
  <2> QED
    BY <2>2, NoVersionIsRow
<1>5. CASE Keeps
  BY <1>5 DEF Keeps, NumbersOf
<1> QED
  BY <1>1, <1>2, <1>3, <1>4, <1>5, StepKinds

\* A row that stays is of the same content.
LEMMA ContentStays ==
  ASSUME TypeOK, AllAgree, Next, NEW d \in Docs, NEW n \in Numbers,
         versions[d][n].state # "none", versions'[d][n].state # "none"
  PROVE  versions'[d][n].content = versions[d][n].content
<1>1. CASE \E e \in Docs : CreateDocument(e)
  BY <1>1 DEF CreateDocument
<1>2. ASSUME NEW S \in SUBSET Docs, NEW kind \in Kinds, Remove(S, kind)
      PROVE  versions'[d][n].content = versions[d][n].content
  <2>1. versions'[d][n] = versions[d][n] \/ versions'[d][n] = NoVersion
    BY <1>2 DEF Remove
  <2> QED
    BY <2>1, NoVersionIsRow
<1>3. ASSUME NEW e \in Docs, NEW k \in Numbers, CommitSuperseded(e, k)
      PROVE  versions'[d][n].content = versions[d][n].content
  <2>1. versions'[d][n] = versions[d][n] \/ versions'[d][n] = NoVersion
    BY <1>3 DEF TypeOK, CommitSuperseded
  <2> QED
    BY <2>1, NoVersionIsRow
<1>4. ASSUME NEW e \in Docs, NEW k \in Numbers, CommitReady(e, k)
      PROVE  versions'[d][n].content = versions[d][n].content
  <2>1. CASE d = e /\ n = k
    <3>1. versions'[d][n] = [versions[d][n] EXCEPT !.state = "ready", !.reason = ""]
      BY <1>4, <2>1 DEF TypeOK, CommitReady
    <3>2. versions[d][n] \in VersionRow
      BY DEF TypeOK
    <3> QED
      BY <3>1, <3>2 DEF VersionRow
  <2>2. CASE ~(d = e /\ n = k)
    <3>1. versions'[d][n] = versions[d][n] \/ versions'[d][n] = NoVersion
      BY <1>4, <2>2 DEF TypeOK, CommitReady
    <3> QED
      BY <3>1, NoVersionIsRow
  <2> QED
    BY <2>1, <2>2
<1>5. CASE Keeps
  BY <1>5 DEF Keeps, NumbersOf
<1> QED
  BY <1>1, <1>2, <1>3, <1>4, <1>5, StepKinds

\* No number is given twice while a document lives: the newest row is what the next number
\* is told from (begin_version), and no operation takes it.
THEOREM NumbersNotReused == Spec => NumbersAreNotReused
<1> DEFINE Kept ==
      \A d \in Docs, n \in Numbers :
        (IsNewest(d, n) /\ docs'[d].state = "live") => versions'[d][n].state # "none"
<1>1. TypeOK /\ AllAgree /\ Next => Kept
  BY NewestStays
<1>2. ASSUME TypeOK, UNCHANGED storeVars PROVE [Kept]_storeVars
  BY <1>2
<1>3. StoreInv => AllAgree
  BY StoreInvIsAllAgree
<1>4. TypeOK /\ StoreInv /\ [Next]_storeVars => [Kept]_storeVars
  <2> HIDE DEF Kept
  <2> QED BY <1>1, <1>3
<1> QED
  BY <1>4, TypeCorrect, StoreInvariant, PTL DEF Spec, NumbersAreNotReused

-----------------------------------------------------------------------------
(* What is removed is recorded, operation by operation.                      *)

\* Version n of d loses its upload, or ends.
Loses(d, n) ==
  \/ n \in originals[d] /\ n \notin originals'[d]
  \/ /\ versions[d][n].state \notin {"none", "error"}
     /\ versions'[d][n].state \in {"none", "error"}

\* That is on record.
OnRecord(d, n) == \E t \in tombstones' : t.doc = d /\ n \in t.versions /\ t.at = clock

LossesAreRecorded == \A d \in Docs, n \in Numbers : Loses(d, n) => OnRecord(d, n)

\* An operation that takes no upload and ends no row has nothing to record.
LEMMA NothingLost ==
  ASSUME NEW d \in Docs, NEW n \in Numbers,
         \A e \in Docs : originals[e] \subseteq originals'[e],
         \A e \in Docs, m \in Numbers :
           ~(e = d /\ m = n) => versions'[e][m] = versions[e][m],
         versions'[d][n].state \notin {"none", "error"}
  PROVE  LossesAreRecorded
BY DEF LossesAreRecorded, Loses

LEMMA SameRowsLoseNothing ==
  ASSUME versions' = versions, originals' = originals
  PROVE  LossesAreRecorded
BY DEF LossesAreRecorded, Loses

LEMMA BeginVersionRecords ==
  ASSUME TypeOK, NEW d \in Docs, NEW c \in Contents, NEW keep \in BOOLEAN,
         NEW moment \in Nat, NEW n \in Numbers, BeginVersion(d, c, keep, moment, n)
  PROVE  LossesAreRecorded
<1>1. \A e \in Docs : originals[e] \subseteq originals'[e]
  BY DEF TypeOK, BeginVersion
<1>2. CASE versions' = versions
  BY <1>1, <1>2 DEF LossesAreRecorded, Loses
<1>3. CASE versions' = [versions EXCEPT ![d][n] = [versions[d][n] EXCEPT
                !.state = "processing", !.reason = "", !.claimed = moment]]
  <2>1. versions[d][n] \in VersionRow
    BY DEF TypeOK
  <2>2. versions'[d][n].state = "processing"
    BY <1>3, <2>1 DEF TypeOK, VersionRow
  <2>3. \A e \in Docs, m \in Numbers :
          ~(e = d /\ m = n) => versions'[e][m] = versions[e][m]
    BY <1>3 DEF TypeOK
  <2> QED
    BY <1>1, <2>2, <2>3, NothingLost
<1>4. CASE NewVersion(d, c, moment, n)
  <2>1. versions'[d][n].state = "processing"
    BY <1>4 DEF TypeOK, NewVersion
  <2>2. \A e \in Docs, m \in Numbers :
          ~(e = d /\ m = n) => versions'[e][m] = versions[e][m]
    BY <1>4 DEF TypeOK, NewVersion
  <2> QED
    BY <1>1, <2>1, <2>2, NothingLost
<1> QED
  BY <1>2, <1>3, <1>4 DEF BeginVersion, ReopenVersion

\* A draft is saved or claimed, chunks are staged: the row goes on.
LEMMA WritingRecords ==
  ASSUME TypeOK, NEW d \in Docs, NEW n \in Numbers,
         \/ \E plan, expires : SaveDraft(d, n, plan, expires)
         \/ \E moment : ClaimDraft(d, n, moment)
         \/ \E batch : AddChunks(d, n, batch)
  PROVE  LossesAreRecorded
<1>1. originals' = originals /\ versions[d][n] \in VersionRow
  BY DEF TypeOK, SaveDraft, ClaimDraft, AddChunks
<1>2. CASE \E batch : AddChunks(d, n, batch)
  BY <1>2, SameRowsLoseNothing DEF AddChunks
<1>3. ASSUME NEW plan, NEW expires, SaveDraft(d, n, plan, expires)
      PROVE  LossesAreRecorded
  <2>1. versions'[d][n].state = "awaiting_confirmation"
    BY <1>1, <1>3 DEF TypeOK, SaveDraft, VersionRow
  <2>2. \A e \in Docs, m \in Numbers :
          ~(e = d /\ m = n) => versions'[e][m] = versions[e][m]
    BY <1>3 DEF TypeOK, SaveDraft
  <2> QED
    BY <1>1, <2>1, <2>2, NothingLost
<1>4. ASSUME NEW moment, ClaimDraft(d, n, moment)
      PROVE  LossesAreRecorded
  <2>1. versions'[d][n].state = "processing"
    BY <1>1, <1>4 DEF TypeOK, ClaimDraft, VersionRow
  <2>2. \A e \in Docs, m \in Numbers :
          ~(e = d /\ m = n) => versions'[e][m] = versions[e][m]
    BY <1>4 DEF TypeOK, ClaimDraft
  <2> QED
    BY <1>1, <2>1, <2>2, NothingLost
<1> QED
  BY <1>2, <1>3, <1>4

\* An upload goes with its row (NoOrphans): the record names every row there is.
LEMMA RemoveRecords ==
  ASSUME TypeOK, AllAgree, NEW S \in SUBSET Docs, NEW kind, Remove(S, kind)
  PROVE  LossesAreRecorded
<1> SUFFICES ASSUME NEW d \in Docs, NEW n \in Numbers, Loses(d, n)
             PROVE  OnRecord(d, n)
  BY DEF LossesAreRecorded
<1>1. d \in S
  BY DEF Remove, Loses
<1>2. versions[d][n].state # "none"
  BY DEF Loses, AllAgree, Agree
<1>3. n \in NumbersOf(d)
  BY <1>2 DEF NumbersOf
<1>4. Record(d, NumbersOf(d), kind) \in tombstones'
  BY <1>1 DEF Remove
<1> QED
  BY <1>3, <1>4 DEF OnRecord, Record

LEMMA CommitRecords ==
  ASSUME TypeOK, AllAgree, NEW e \in Docs, NEW k \in Numbers, CommitVersion(e, k)
  PROVE  LossesAreRecorded
<1> SUFFICES ASSUME NEW d \in Docs, NEW n \in Numbers, Loses(d, n)
             PROVE  OnRecord(d, n)
  BY DEF LossesAreRecorded
<1>1. n \in Int /\ k \in Int
  BY DEF Numbers
<1>2. n \in NumbersOf(d)
  BY DEF Loses, AllAgree, Agree, NumbersOf
<1>3. CASE CommitSuperseded(e, k)
  <2>1. d = e /\ n = k
    BY <1>3 DEF TypeOK, CommitSuperseded, DropVersions, Loses
  <2>2. Record(d, {k}, "superseded") \in tombstones'
    BY <1>3, <2>1 DEF CommitSuperseded, DropVersions
  <2> QED
    BY <2>1, <2>2 DEF OnRecord, Record
<1>4. CASE CommitReady(e, k)
  <2> DEFINE ns == {m \in NumbersOf(e) : m < k}
  <2>1. versions[e][k] \in VersionRow
    BY DEF TypeOK
  <2>2. versions'[e][k].state = "ready"
    BY <1>4, <2>1 DEF TypeOK, CommitReady, VersionRow
  <2>3. d = e
    BY <1>4 DEF TypeOK, CommitReady, DropVersions, Loses
  <2>4. originals'[e] = originals[e] \ ns
    BY <1>4 DEF TypeOK, CommitReady, DropVersions
  <2>5. ~(n < k) => versions'[e][n] = versions[e][n] \/ n = k
    BY <1>4 DEF TypeOK, CommitReady
  <2>6. n \in ns
    BY <1>2, <2>2, <2>3, <2>4, <2>5 DEF Loses
  <2>7. Record(e, ns, "superseded") \in tombstones'
    BY <1>4, <2>6 DEF CommitReady, DropVersions
  <2> HIDE DEF ns
  <2> QED
    BY <2>3, <2>6, <2>7 DEF OnRecord, Record
<1> QED
  BY <1>3, <1>4 DEF CommitVersion

\* What ends is among the rows an ending names; of a row in error there is nothing left to
\* lose (ErrorHoldsNothing).
LEMMA EndVersionsRecords ==
  ASSUME TypeOK, AllAgree, NEW S \in SUBSET (Docs \X Numbers), NEW reason, NEW kind,
         EndVersions(S, reason),
         \A v \in S : \/ versions[v[1]][v[2]].state = "error"
                      \/ Record(v[1], {v[2]}, kind) \in tombstones'
  PROVE  LossesAreRecorded
<1> SUFFICES ASSUME NEW d \in Docs, NEW n \in Numbers, Loses(d, n)
             PROVE  OnRecord(d, n)
  BY DEF LossesAreRecorded
<1>1. <<d, n>> \in S
  BY DEF EndVersions, Loses
<1>2. versions[d][n].state # "error"
  BY DEF Loses, AllAgree, Agree
<1>3. Record(d, {n}, kind) \in tombstones'
  BY <1>1, <1>2
<1> QED
  BY <1>3 DEF OnRecord, Record

LEMMA SweepRecords ==
  ASSUME TypeOK, AllAgree, NEW due \in SUBSET (Docs \X Numbers), NEW reason,
         Sweep(due, reason)
  PROVE  LossesAreRecorded
<1>1. PICK S \in SUBSET due :
        /\ EndVersions(S, reason)
        /\ tombstones' = tombstones \cup {Record(v[1], {v[2]}, reason) : v \in S}
  BY DEF Sweep
<1>2. S \in SUBSET (Docs \X Numbers) /\ \A v \in S : Record(v[1], {v[2]}, reason) \in tombstones'
  BY <1>1
<1> QED
  BY <1>1, <1>2, EndVersionsRecords

LEMMA StepRecords ==
  ASSUME TypeOK, AllAgree, Next
  PROVE  LossesAreRecorded
<1>1. ASSUME NEW d \in Docs, CreateDocument(d) PROVE LossesAreRecorded
  BY <1>1, SameRowsLoseNothing DEF CreateDocument
<1>2. ASSUME NEW d \in Docs, DeleteDocument(d) PROVE LossesAreRecorded
  <2>1. {d} \in SUBSET Docs
    OBVIOUS
  <2> QED
    BY <1>2, <2>1, RemoveRecords DEF DeleteDocument
<1>3. ASSUME NEW p \in Owners, PurgeOwnerSubtree(p) PROVE LossesAreRecorded
  <2>1. {d \in Docs : Live(d) /\ OwnerOf[d] \in Under[p]} \in SUBSET Docs
    OBVIOUS
  <2> QED
    BY <1>3, <2>1, RemoveRecords DEF PurgeOwnerSubtree
<1>4. ASSUME NEW d \in Docs, NEW n \in Numbers, DiscardDraft(d, n)
      PROVE  LossesAreRecorded
  <2>1. /\ {<<d, n>>} \in SUBSET (Docs \X Numbers)
        /\ \A v \in {<<d, n>>} : Record(v[1], {v[2]}, "discarded") \in tombstones'
    BY <1>4 DEF DiscardDraft
  <2> QED
    BY <1>4, <2>1, EndVersionsRecords DEF DiscardDraft
<1>5. CASE ExpireDrafts
  BY <1>5, SweepRecords DEF ExpireDrafts, Due
<1>6. CASE InterruptStale
  BY <1>6, SweepRecords DEF InterruptStale, Abandoned
<1>7. ASSUME NEW before \in 1..clock, PruneTombstones(before) PROVE LossesAreRecorded
  BY <1>7, SameRowsLoseNothing DEF PruneTombstones
<1>8. CASE Tick
  BY <1>8, SameRowsLoseNothing DEF Tick
<1>9. CASE IngestCall
  <2>1. PICK d \in Docs, n \in Numbers :
          \/ \E c \in Contents, keep \in BOOLEAN, moment \in 0..clock :
               BeginVersion(d, c, keep, moment, n)
          \/ \E plan \in Plans, moment \in 0..clock :
               SaveDraft(d, n, plan, moment + DraftTtl)
          \/ \E moment \in 0..clock : ClaimDraft(d, n, moment)
          \/ \E batch \in Plans : AddChunks(d, n, batch)
          \/ CommitVersion(d, n)
          \/ \E reason \in FailReasons : FailVersion(d, n, reason)
    BY <1>9 DEF IngestCall
  <2>2. 0..clock \subseteq Nat
    BY DEF TypeOK
  <2>3. CASE \E c \in Contents, keep \in BOOLEAN, moment \in 0..clock :
               BeginVersion(d, c, keep, moment, n)
    BY <2>2, <2>3, BeginVersionRecords
  <2>4. CASE \/ \E plan \in Plans, moment \in 0..clock :
                   SaveDraft(d, n, plan, moment + DraftTtl)
             \/ \E moment \in 0..clock : ClaimDraft(d, n, moment)
             \/ \E batch \in Plans : AddChunks(d, n, batch)
    BY <2>4, WritingRecords
  <2>5. CASE CommitVersion(d, n)
    BY <2>5, CommitRecords
  <2>6. ASSUME NEW reason \in FailReasons, FailVersion(d, n, reason)
        PROVE  LossesAreRecorded
    <3>1. /\ {<<d, n>>} \in SUBSET (Docs \X Numbers)
          /\ \A v \in {<<d, n>>} : \/ versions[v[1]][v[2]].state = "error"
                                   \/ Record(v[1], {v[2]}, "failed") \in tombstones'
      BY <2>6 DEF FailVersion
    <3> QED
      BY <2>6, <3>1, EndVersionsRecords DEF FailVersion
  <2> QED
    BY <2>1, <2>3, <2>4, <2>5, <2>6
<1> QED
  BY <1>1, <1>2, <1>3, <1>4, <1>5, <1>6, <1>7, <1>8, <1>9 DEF Next, HostNext

\* Every removal of an upload and every end of a version leaves a tombstone of the moment
\* it happened (documents.py, Tombstone), whichever operation it is by.
THEOREM RemovalsRecorded == Spec => RemovalsAreRecorded
<1>1. StoreInv => AllAgree
  BY StoreInvIsAllAgree
<1>2. TypeOK /\ StoreInv /\ [Next]_storeVars => [LossesAreRecorded]_storeVars
  BY <1>1, StepRecords
<1>3. [LossesAreRecorded]_storeVars =>
        [\A d \in Docs, n \in Numbers :
           \/ n \in originals[d] /\ n \notin originals'[d]
           \/ /\ versions[d][n].state \notin {"none", "error"}
              /\ versions'[d][n].state \in {"none", "error"}
           => \E t \in tombstones' : t.doc = d /\ n \in t.versions /\ t.at = clock]_storeVars
  BY DEF LossesAreRecorded, Loses, OnRecord
<1> QED
  BY <1>2, <1>3, TypeCorrect, StoreInvariant, PTL DEF Spec, RemovalsAreRecorded
=============================================================================
