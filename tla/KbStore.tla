------------------------------ MODULE KbStore ------------------------------
(***************************************************************************)
(* The document store of cogno-engram (documents.py, the port; the        *)
(* in-memory and the Postgres adapter, its two implementations): every     *)
(* operation that writes, each one atomic, called by callers nobody has    *)
(* coordinated.  In memory an operation is atomic because it never awaits; *)
(* in Postgres because it is one transaction that locks the document row.  *)
(*                                                                         *)
(* A version is numbered within its document.  Its bytes and embedding     *)
(* model are one value of Contents (the key `begin_version` looks up); the *)
(* chunks of a version are known by their ordinals alone.  A draft is a    *)
(* nonempty set of ordinals, and the empty set is the absence of a draft.  *)
(*                                                                         *)
(* An operator named after an operation and a fault (ReopenServedToo) is   *)
(* the operation with a slip the properties must notice; nothing uses it.  *)
(***************************************************************************)
EXTENDS Integers, FiniteSets

CONSTANTS
  Docs,         (* Document ids: each is created once, and never reused.   *)
  Owners,       (* Owner keys.                                             *)
  OwnerOf,      (* The owner of each document.                             *)
  Under,        (* Under[p]: the owners in the subtree of the prefix p.    *)
  Contents,     (* (sha256, embed_model) pairs an upload may carry.        *)
  Ordinals,     (* Chunk positions.                                        *)
  DraftTtl,     (* How long a draft waits for its confirmation.            *)
  Stale,        (* How long a version may stay `processing`.               *)
  SweepLimit,   (* How many versions one sweep ends at most.               *)
  MaxDocuments, (* An owner's quota of documents.                          *)
  MaxVersion,   (* Bounds the model: the last version number.              *)
  MaxClock,     (* Bounds the model: the last instant.                     *)
  Nil           (* The content of a version that does not exist.           *)

ASSUME OwnersAssumption ==
  /\ OwnerOf \in [Docs -> Owners]
  /\ Under \in [Owners -> SUBSET Owners]
  /\ \A p \in Owners : p \in Under[p]

ASSUME BoundsAssumption ==
  /\ DraftTtl \in Nat \ {0}
  /\ Stale \in Nat
  /\ SweepLimit \in Nat
  /\ MaxDocuments \in Nat
  /\ MaxVersion \in Nat
  /\ MaxClock \in Nat

VARIABLES
  docs,         (* Per document: does it exist, and its active_version.    *)
  versions,     (* Per document and number: the version row.               *)
  drafts,       (* Per document and number: the chunks of its draft.       *)
  chunks,       (* Per document and number: the chunks staged or served.   *)
  originals,    (* Per document: the numbers whose upload is stored.       *)
  tombstones,   (* What was removed, and when.                             *)
  clock         (* The host's clock.                                       *)

storeVars == <<docs, versions, drafts, chunks, originals, tombstones, clock>>

Numbers == 1..MaxVersion
Plans   == (SUBSET Ordinals) \ {{}}    \* the chunks a draft may hold

DocStates     == {"unborn", "live", "gone"}
VersionStates == {"none", "processing", "awaiting_confirmation", "ready", "error"}
FailReasons   == {"invalid", "gate_refused", "embed_failed", "internal"}
Reasons       == FailReasons \cup {"", "expired", "discarded", "interrupted"}
Kinds         == {"deleted", "purged", "expired", "discarded", "interrupted",
                  "superseded", "failed"}

DocRow     == [state : DocStates, active : 0..MaxVersion]
VersionRow == [state : VersionStates, reason : Reasons, claimed : Nat,
               expires : Nat, content : Contents \cup {Nil}]
Tombstone  == [doc : Docs, versions : SUBSET Numbers, kind : Kinds, at : Nat]

NoVersion == [state |-> "none", reason |-> "", claimed |-> 0, expires |-> 0,
              content |-> Nil]

TypeOK ==
  /\ docs \in [Docs -> DocRow]
  /\ versions \in [Docs -> [Numbers -> VersionRow]]
  /\ drafts \in [Docs -> [Numbers -> SUBSET Ordinals]]
  /\ chunks \in [Docs -> [Numbers -> SUBSET Ordinals]]
  /\ originals \in [Docs -> SUBSET Numbers]
  /\ tombstones \in SUBSET Tombstone
  /\ clock \in Nat

Init ==
  /\ docs = [d \in Docs |-> [state |-> "unborn", active |-> 0]]
  /\ versions = [d \in Docs |-> [n \in Numbers |-> NoVersion]]
  /\ drafts = [d \in Docs |-> [n \in Numbers |-> {}]]
  /\ chunks = [d \in Docs |-> [n \in Numbers |-> {}]]
  /\ originals = [d \in Docs |-> {}]
  /\ tombstones = {}
  /\ clock = 0

-----------------------------------------------------------------------------
Live(d)          == docs[d].state = "live"
NumbersOf(d)     == {n \in Numbers : versions[d][n].state # "none"}
Processing(d, n) == Live(d) /\ versions[d][n].state = "processing"
Awaiting(d, n)   == Live(d) /\ versions[d][n].state = "awaiting_confirmation"

IsNewest(d, n) == n \in NumbersOf(d) /\ \A m \in NumbersOf(d) : m <= n

\* The number `begin_version` gives a new row: one past the newest.
IsNextNumber(d, n) ==
  /\ n \in Numbers
  /\ \A m \in NumbersOf(d) : m < n
  /\ n = 1 \/ n - 1 \in NumbersOf(d)

\* What a reader finds behind a document: its active version, when ready.
Served(d) ==
  /\ Live(d)
  /\ docs[d].active # 0
  /\ versions[d][docs[d].active].state = "ready"

Record(d, ns, kind) == [doc |-> d, versions |-> ns, kind |-> kind, at |-> clock]

-----------------------------------------------------------------------------
(* Documents *)

\* `max_documents` counts the owner's documents and refuses one more.
CreateDocument(d) ==
  /\ docs[d].state = "unborn"
  /\ Cardinality({e \in Docs : Live(e) /\ OwnerOf[e] = OwnerOf[d]}) < MaxDocuments
  /\ docs' = [docs EXCEPT ![d].state = "live"]
  /\ UNCHANGED <<versions, drafts, chunks, originals, tombstones, clock>>

\* A removed document goes with every version, draft, chunk and original.
Remove(S, kind) ==
  /\ docs' = [d \in Docs |-> IF d \in S THEN [state |-> "gone", active |-> 0]
                                       ELSE docs[d]]
  /\ versions' = [d \in Docs |-> IF d \in S THEN [n \in Numbers |-> NoVersion]
                                           ELSE versions[d]]
  /\ drafts' = [d \in Docs |-> IF d \in S THEN [n \in Numbers |-> {}] ELSE drafts[d]]
  /\ chunks' = [d \in Docs |-> IF d \in S THEN [n \in Numbers |-> {}] ELSE chunks[d]]
  /\ originals' = [d \in Docs |-> IF d \in S THEN {} ELSE originals[d]]
  /\ tombstones' = tombstones \cup {Record(d, NumbersOf(d), kind) : d \in S}
  /\ UNCHANGED clock

DeleteDocument(d) == Live(d) /\ Remove({d}, "deleted")

PurgeOwnerSubtree(p) ==
  LET S == {d \in Docs : Live(d) /\ OwnerOf[d] \in Under[p]}
  IN  S # {} /\ Remove(S, "purged")

-----------------------------------------------------------------------------
(* Versions *)

\* Slip: a ready row is taken again as any other.
ReopenServedToo(d, c, moment, n) ==
  /\ n \in NumbersOf(d) /\ versions[d][n].content = c
  /\ versions' = [versions EXCEPT ![d][n] =
        [@ EXCEPT !.state = "processing", !.reason = "", !.claimed = moment]]
  /\ drafts' = [drafts EXCEPT ![d][n] = {}]

\* The row of the same bytes and model is taken again, unless it is ready: its
\* draft is dropped, its staged chunks are not.
ReopenVersion(d, c, moment, n) ==
  /\ n \in NumbersOf(d) /\ versions[d][n].content = c
  /\ IF versions[d][n].state = "ready"
     THEN UNCHANGED <<versions, drafts>>
     ELSE /\ versions' = [versions EXCEPT ![d][n] =
                [@ EXCEPT !.state = "processing", !.reason = "", !.claimed = moment]]
          /\ drafts' = [drafts EXCEPT ![d][n] = {}]

NewVersion(d, c, moment, n) ==
  /\ \A m \in NumbersOf(d) : versions[d][m].content # c
  /\ IsNextNumber(d, n)
  /\ versions' = [versions EXCEPT ![d][n] =
        [state |-> "processing", reason |-> "", claimed |-> moment, expires |-> 0,
         content |-> c]]
  /\ UNCHANGED drafts

\* n is the number the caller is given; keep, whether the upload is stored.
BeginVersion(d, c, keep, moment, n) ==
  /\ Live(d)
  /\ ReopenVersion(d, c, moment, n) \/ NewVersion(d, c, moment, n)
  /\ originals' = IF keep THEN [originals EXCEPT ![d] = @ \cup {n}] ELSE originals
  /\ UNCHANGED <<docs, chunks, tombstones, clock>>

SaveDraft(d, n, plan, expires) ==
  /\ Processing(d, n)
  /\ drafts' = [drafts EXCEPT ![d][n] = plan]
  /\ versions' = [versions EXCEPT ![d][n] =
        [@ EXCEPT !.state = "awaiting_confirmation", !.reason = "", !.expires = expires]]
  /\ UNCHANGED <<docs, chunks, originals, tombstones, clock>>

\* The claim asks only whether there is a draft, and whether it is due on the
\* caller's own moment.  The caller takes drafts[d][n] with it.
ClaimDraft(d, n, moment) ==
  /\ Live(d)
  /\ drafts[d][n] # {}
  /\ moment < versions[d][n].expires
  /\ drafts' = [drafts EXCEPT ![d][n] = {}]
  /\ versions' = [versions EXCEPT ![d][n] =
        [@ EXCEPT !.state = "processing", !.claimed = moment]]
  /\ UNCHANGED <<docs, chunks, originals, tombstones, clock>>

AddChunks(d, n, batch) ==
  /\ Processing(d, n)
  /\ chunks' = [chunks EXCEPT ![d][n] = @ \cup batch]
  /\ UNCHANGED <<docs, versions, drafts, originals, tombstones, clock>>

\* Slip: what a newer version took the place of leaves no record.
DropVersionsSilently(d, ns) ==
  /\ drafts' = [drafts EXCEPT ![d] = [n \in Numbers |-> IF n \in ns THEN {} ELSE @[n]]]
  /\ chunks' = [chunks EXCEPT ![d] = [n \in Numbers |-> IF n \in ns THEN {} ELSE @[n]]]
  /\ originals' = [originals EXCEPT ![d] = @ \ ns]
  /\ UNCHANGED tombstones

\* Rows ns of document d, and all they hold, are gone.
DropVersions(d, ns) ==
  /\ drafts' = [drafts EXCEPT ![d] = [n \in Numbers |-> IF n \in ns THEN {} ELSE @[n]]]
  /\ chunks' = [chunks EXCEPT ![d] = [n \in Numbers |-> IF n \in ns THEN {} ELSE @[n]]]
  /\ originals' = [originals EXCEPT ![d] = @ \ ns]
  /\ tombstones' = IF ns = {} THEN tombstones
                              ELSE tombstones \cup {Record(d, ns, "superseded")}

\* Slip: the newest number is compared with itself too.
CommitSupersededByItself(d, n) ==
  /\ Live(d)
  /\ n \in NumbersOf(d) /\ \E m \in NumbersOf(d) : m >= n
  /\ versions' = [versions EXCEPT ![d][n] = NoVersion]
  /\ DropVersions(d, {n})
  /\ UNCHANGED <<docs, clock>>

\* Slip: a document whose active version is discarded starts over.
CommitSupersededResets(d, n) ==
  /\ Live(d)
  /\ n \in NumbersOf(d) /\ ~IsNewest(d, n)
  /\ docs' = [docs EXCEPT ![d].active = IF @ = n THEN 0 ELSE @]
  /\ versions' = [versions EXCEPT ![d][n] = NoVersion]
  /\ DropVersions(d, {n})
  /\ UNCHANGED clock

\* A version that is not the newest is discarded, whatever its state.
CommitSuperseded(d, n) ==
  /\ Live(d)
  /\ n \in NumbersOf(d) /\ ~IsNewest(d, n)
  /\ versions' = [versions EXCEPT ![d][n] = NoVersion]
  /\ DropVersions(d, {n})
  /\ UNCHANGED <<docs, clock>>

\* Slip: the swap leaves the older versions.
CommitReadyLeavingOlder(d, n) ==
  /\ Processing(d, n)
  /\ IsNewest(d, n)
  /\ docs' = [docs EXCEPT ![d].active = n]
  /\ versions' = [versions EXCEPT ![d][n] = [@ EXCEPT !.state = "ready", !.reason = ""]]
  /\ UNCHANGED <<drafts, chunks, originals, tombstones, clock>>

\* The swap: n is served, and every older version goes in the same step.
CommitReady(d, n) ==
  /\ Processing(d, n)
  /\ IsNewest(d, n)
  /\ docs' = [docs EXCEPT ![d].active = n]
  /\ versions' = [versions EXCEPT ![d] =
        [m \in Numbers |-> IF m = n THEN [@[n] EXCEPT !.state = "ready", !.reason = ""]
                           ELSE IF m < n THEN NoVersion ELSE @[m]]]
  /\ DropVersions(d, {m \in NumbersOf(d) : m < n})
  /\ UNCHANGED clock

CommitVersion(d, n) == CommitSuperseded(d, n) \/ CommitReady(d, n)

-----------------------------------------------------------------------------
(* Endings *)

\* The rows of the pairs in S end in error with what they hold removed.
EndVersions(S, reason) ==
  /\ versions' = [d \in Docs |-> [n \in Numbers |->
        IF <<d, n>> \in S THEN [versions[d][n] EXCEPT !.state = "error", !.reason = reason]
                          ELSE versions[d][n]]]
  /\ drafts' = [d \in Docs |-> [n \in Numbers |->
        IF <<d, n>> \in S THEN {} ELSE drafts[d][n]]]
  /\ chunks' = [d \in Docs |-> [n \in Numbers |->
        IF <<d, n>> \in S THEN {} ELSE chunks[d][n]]]
  /\ originals' = [d \in Docs |-> {n \in originals[d] : <<d, n>> \notin S}]
  /\ UNCHANGED <<docs, clock>>

\* A version already in error takes the new reason, and leaves no second record.
FailVersion(d, n, reason) ==
  /\ Live(d)
  /\ versions[d][n].state \notin {"none", "ready"}
  /\ EndVersions({<<d, n>>}, reason)
  /\ tombstones' = IF versions[d][n].state = "error" THEN tombstones
                   ELSE tombstones \cup {Record(d, {n}, "failed")}

\* Slip: a version that awaits nothing can be discarded.
DiscardAnything(d, n) ==
  /\ Live(d) /\ n \in NumbersOf(d)
  /\ EndVersions({<<d, n>>}, "discarded")
  /\ tombstones' = tombstones \cup {Record(d, {n}, "discarded")}

DiscardDraft(d, n) ==
  /\ Awaiting(d, n)
  /\ EndVersions({<<d, n>>}, "discarded")
  /\ tombstones' = tombstones \cup {Record(d, {n}, "discarded")}

\* A sweep takes some of what is due: at most SweepLimit, and in Postgres only
\* the rows no other transaction holds.
Sweep(due, reason) ==
  \E S \in SUBSET due :
    /\ S # {} /\ Cardinality(S) <= SweepLimit
    /\ EndVersions(S, reason)
    /\ tombstones' = tombstones \cup {Record(v[1], {v[2]}, reason) : v \in S}

Due == {v \in Docs \X Numbers :
          Awaiting(v[1], v[2]) /\ versions[v[1]][v[2]].expires <= clock}

ExpireDrafts == Sweep(Due, "expired")

\* Slip: a version that has staged something counts as alive.
AbandonedUnstaged == {v \in Docs \X Numbers :
  /\ Processing(v[1], v[2]) /\ chunks[v[1]][v[2]] = {}
  /\ versions[v[1]][v[2]].claimed < clock - Stale}

Abandoned == {v \in Docs \X Numbers :
                Processing(v[1], v[2]) /\ versions[v[1]][v[2]].claimed < clock - Stale}

InterruptStale == Sweep(Abandoned, "interrupted")

PruneTombstones(before) ==
  /\ \E t \in tombstones : t.at < before
  /\ tombstones' = {t \in tombstones : t.at >= before}
  /\ UNCHANGED <<docs, versions, drafts, chunks, originals, clock>>

Tick ==
  /\ clock < MaxClock
  /\ clock' = clock + 1
  /\ UNCHANGED <<docs, versions, drafts, chunks, originals, tombstones>>

-----------------------------------------------------------------------------
(* What a panel, the host's periodic tick and time itself do.               *)
HostNext ==
  \/ \E d \in Docs : CreateDocument(d) \/ DeleteDocument(d)
  \/ \E p \in Owners : PurgeOwnerSubtree(p)
  \/ \E d \in Docs, n \in Numbers : DiscardDraft(d, n)
  \/ ExpireDrafts
  \/ InterruptStale
  \/ \E before \in 1..clock : PruneTombstones(before)
  \/ Tick

(* What an ingestion does, here in any order and with any argument; a        *)
(* caller's moment is a time it read before the call.                        *)
IngestCall ==
  \E d \in Docs, n \in Numbers :
    \/ \E c \in Contents, keep \in BOOLEAN, moment \in 0..clock :
         BeginVersion(d, c, keep, moment, n)
    \/ \E plan \in Plans, moment \in 0..clock :
         SaveDraft(d, n, plan, moment + DraftTtl)
    \/ \E moment \in 0..clock : ClaimDraft(d, n, moment)
    \/ \E batch \in Plans : AddChunks(d, n, batch)
    \/ CommitVersion(d, n)
    \/ \E reason \in FailReasons : FailVersion(d, n, reason)

Next == HostNext \/ IngestCall

Spec == Init /\ [][Next]_storeVars
-----------------------------------------------------------------------------
(* Safety: what the four separate tables agree on, whoever calls.            *)

\* A draft exists exactly while its version awaits confirmation: what the claim
\* asks (is there a draft?) and what `commit`, the discard and the expiry ask
\* (is the version awaiting?) are one question with one answer.
DraftIffAwaiting ==
  \A d \in Docs, n \in Numbers :
    drafts[d][n] # {} <=> versions[d][n].state = "awaiting_confirmation"

\* A version that ended in error holds nothing of the file: no chunk, no stored
\* original (its draft is covered above), whatever a late worker does to it.
ErrorHoldsNothing ==
  \A d \in Docs, n \in Numbers :
    versions[d][n].state = "error" => chunks[d][n] = {} /\ n \notin originals[d]

\* Every chunk, draft and original belongs to a version row of a live document:
\* nothing is written for a document that was deleted or purged under a running
\* job, nor for a version another commit dropped.
NoOrphans ==
  \A d \in Docs, n \in Numbers :
    /\ versions[d][n].state # "none" => Live(d)
    /\ versions[d][n].state = "none" =>
         drafts[d][n] = {} /\ chunks[d][n] = {} /\ n \notin originals[d]

\* A ready version is the one its document serves: two are never ready at once,
\* and no ready version is left that no reader can reach.
ReadyIsActive ==
  \A d \in Docs, n \in Numbers :
    versions[d][n].state = "ready" => docs[d].active = n

StoreInv ==
  /\ DraftIffAwaiting
  /\ ErrorHoldsNothing
  /\ NoOrphans
  /\ ReadyIsActive

\* The text of a served version never changes: once ready, a row keeps its
\* content and its chunks until it is removed whole, and never leaves ready.
ServedIsImmutable ==
  [][\A d \in Docs, n \in Numbers :
       (versions[d][n].state = "ready" /\ versions'[d][n].state # "none") =>
         /\ versions'[d][n] = versions[d][n]
         /\ chunks'[d][n] = chunks[d][n]]_storeVars

\* Version numbers grow and are not reused while the document lives: the newest
\* row is never the one a removal takes (HOST_INTEGRATION.md, version_text).
NumbersAreNotReused ==
  [][\A d \in Docs, n \in Numbers :
       (IsNewest(d, n) /\ docs'[d].state = "live") =>
         versions'[d][n].state # "none"]_storeVars

\* What a document answers with only moves forward: while it lives its active
\* version is never an older one than before, late commits included.
AnswersMoveForward ==
  [][\A d \in Docs :
       docs'[d].state = "live" => docs'[d].active >= docs[d].active]_storeVars

\* Every removal of a stored original, and every end of a version, leaves a
\* tombstone that names the version at the time it happened.
RemovalsAreRecorded ==
  [][\A d \in Docs, n \in Numbers :
       \/ n \in originals[d] /\ n \notin originals'[d]
       \/ /\ versions[d][n].state \notin {"none", "error"}
          /\ versions'[d][n].state \in {"none", "error"}
       => \E t \in tombstones' : t.doc = d /\ n \in t.versions /\ t.at = clock]_storeVars
=============================================================================
