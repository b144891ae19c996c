------------------------------ MODULE KbIngest -----------------------------
(***************************************************************************)
(* Ingestion (ingest.py): workers that run `prepare` and `commit` against  *)
(* the document store of KbStore, while a panel deletes and discards, the  *)
(* host's tick sweeps, time passes and workers die.                        *)
(*                                                                         *)
(* A step of a worker is one call to the store together with everything    *)
(* the worker computes, locally, before that call: extraction and chunking *)
(* before `save_draft`, the gate and the embeddings before the first       *)
(* `add_chunks`.  `ingest` is a `prepare` followed by a `commit` of the    *)
(* same worker; `reindex` is a `prepare` of the served version's original. *)
(* After its last write a job reads the document once more to name its     *)
(* outcome; that read changes nothing and is left out.                     *)
(*                                                                         *)
(* As in KbStore, an operator marked "Slip" is used by nothing.            *)
(***************************************************************************)
EXTENDS KbStore

CONSTANTS
  Workers,      (* Ingestion jobs that may run at the same time.           *)
  PlansOf,      (* PlansOf[c]: what extraction and chunking may make of c. *)
  StageBatch,   (* Chunks per `add_chunks` call.                           *)
  SameBytes,    (* SameBytes[c]: the same file under every model.          *)
  LastUpload    (* Bounds the model: no job starts after this instant.     *)

ASSUME IngestAssumption ==
  /\ PlansOf \in [Contents -> SUBSET Plans]
  /\ SameBytes \in [Contents -> SUBSET Contents]
  /\ StageBatch \in Nat \ {0}
  /\ LastUpload \in Nat

ASSUME NilIsNoDocument == Nil \notin Docs

VARIABLE worker

vars == <<docs, versions, drafts, chunks, originals, tombstones, clock, worker>>

(* Where a job is: the call to the store it makes next.                      *)
Phases == {"idle", "begin", "extract", "claim", "embed", "stage", "swap"}

Job == [phase : Phases, doc : Docs \cup {Nil}, number : 0..MaxVersion,
        content : Contents \cup {Nil}, keep : BOOLEAN, moment : Nat,
        plan : SUBSET Ordinals, left : SUBSET Ordinals]

Idle == [phase |-> "idle", doc |-> Nil, number |-> 0, content |-> Nil, keep |-> FALSE,
         moment |-> 0, plan |-> {}, left |-> {}]

IngestTypeOK == TypeOK /\ worker \in [Workers -> Job]

IngestInit == Init /\ worker = [w \in Workers |-> Idle]

At(w, phase) == worker[w].phase = phase

\* The job of w is over: it returned, or it raised.
Finish(w) == worker' = [worker EXCEPT ![w] = Idle]

-----------------------------------------------------------------------------
(* prepare *)

\* The document is there, and the time is read before the first write.
StartJob(w, d, c, keep) ==
  /\ At(w, "idle")
  /\ clock <= LastUpload
  /\ Live(d)
  /\ worker' = [worker EXCEPT ![w] = [Idle EXCEPT !.phase = "begin", !.doc = d,
                   !.content = c, !.keep = keep, !.moment = clock]]
  /\ UNCHANGED storeVars

Prepare(w, d) == \E c \in Contents, keep \in BOOLEAN : StartJob(w, d, c, keep)

\* The stored original of the active version is uploaded again, with the
\* embedder of the day.
Reindex(w, d) ==
  /\ Live(d)
  /\ docs[d].active \in originals[d]
  /\ \E c \in Contents :
       /\ c \in SameBytes[versions[d][docs[d].active].content]
       /\ StartJob(w, d, c, TRUE)

\* Nothing is left to do for bytes that are served already.
Begin(w) ==
  LET j == worker[w] IN
  /\ At(w, "begin")
  /\ \E n \in Numbers :
       /\ BeginVersion(j.doc, j.content, j.keep, j.moment, n)
       /\ IF versions[j.doc][n].state = "ready"
          THEN Finish(w)
          ELSE worker' = [worker EXCEPT ![w].phase = "extract", ![w].number = n]

BeginDeleted(w) ==
  /\ At(w, "begin") /\ ~Live(worker[w].doc)
  /\ Finish(w)
  /\ UNCHANGED storeVars

\* The draft expires DraftTtl after the time the job read at its start.
Park(w) ==
  LET j == worker[w] IN
  /\ At(w, "extract")
  /\ \E plan \in PlansOf[j.content] : SaveDraft(j.doc, j.number, plan, j.moment + DraftTtl)
  /\ Finish(w)

\* The version is no longer processing: another job, or a sweep, was there.
ParkRefused(w) ==
  /\ At(w, "extract") /\ ~Processing(worker[w].doc, worker[w].number)
  /\ Finish(w)
  /\ UNCHANGED storeVars

-----------------------------------------------------------------------------
(* commit *)

\* The version awaits its confirmation when the job looks it up.
Confirm(w, d, n) ==
  /\ At(w, "idle")
  /\ clock <= LastUpload
  /\ Awaiting(d, n)
  /\ worker' = [worker EXCEPT ![w] = [Idle EXCEPT !.phase = "claim", !.doc = d,
                   !.number = n, !.moment = clock]]
  /\ UNCHANGED storeVars

Claim(w) ==
  LET j == worker[w]
      plan == drafts[j.doc][j.number] IN
  /\ At(w, "claim")
  /\ ClaimDraft(j.doc, j.number, j.moment)
  /\ worker' = [worker EXCEPT ![w].phase = "embed", ![w].plan = plan, ![w].left = plan]

\* No draft any more, or one that is past its expiry.
ClaimRefused(w) ==
  LET j == worker[w] IN
  /\ At(w, "claim")
  /\ \/ ~Live(j.doc)
     \/ drafts[j.doc][j.number] = {}
     \/ versions[j.doc][j.number].expires <= j.moment
  /\ Finish(w)
  /\ UNCHANGED storeVars

\* The next StageBatch chunks, in the order of their ordinals.
NextBatch(left) == {o \in left : Cardinality({p \in left : p < o}) < StageBatch}

\* Slip: the loop over the batches stops one chunk short.
StageShort(w) ==
  LET j == worker[w]
      rest == j.left \ NextBatch(j.left) IN
  /\ At(w, "embed") \/ At(w, "stage")
  /\ AddChunks(j.doc, j.number, NextBatch(j.left))
  /\ worker' = [worker EXCEPT ![w].left = rest,
                   ![w].phase = IF Cardinality(rest) <= 1 THEN "swap" ELSE "stage"]

\* The first batch is staged once every chunk has its vector.
Stage(w) ==
  LET j == worker[w]
      rest == j.left \ NextBatch(j.left) IN
  /\ At(w, "embed") \/ At(w, "stage")
  /\ AddChunks(j.doc, j.number, NextBatch(j.left))
  /\ worker' = [worker EXCEPT ![w].left = rest,
                   ![w].phase = IF rest = {} THEN "swap" ELSE "stage"]

StageRefused(w) ==
  /\ At(w, "embed") \/ At(w, "stage")
  /\ ~Processing(worker[w].doc, worker[w].number)
  /\ Finish(w)
  /\ UNCHANGED storeVars

Swap(w) ==
  /\ At(w, "swap")
  /\ CommitVersion(worker[w].doc, worker[w].number)
  /\ Finish(w)

\* The document or the version is gone, or the newest version is not processing.
SwapRefused(w) ==
  LET j == worker[w] IN
  /\ At(w, "swap")
  /\ ~Processing(j.doc, j.number)
  /\ Live(j.doc) =>
       IsNewest(j.doc, j.number) \/ versions[j.doc][j.number].state = "none"
  /\ Finish(w)
  /\ UNCHANGED storeVars

-----------------------------------------------------------------------------
(* Failures *)

\* Extraction, the gate and the embedder can fail, and so can the code itself;
\* the version ends with the reason of the step, unless it is gone or ready.
FailReasonsOf(phase) ==
  CASE phase = "extract" -> {"invalid", "internal"}
    [] phase = "embed"   -> {"gate_refused", "embed_failed", "internal"}
    [] OTHER             -> {}

\* Slip: the job ends its version itself, served or not.
FailAnyway(w) ==
  LET j == worker[w] IN
  /\ FailReasonsOf(j.phase) # {}
  /\ Live(j.doc) /\ versions[j.doc][j.number].state # "none"
  /\ \E reason \in FailReasonsOf(j.phase) : EndVersions({<<j.doc, j.number>>}, reason)
  /\ tombstones' = tombstones \cup {Record(j.doc, {j.number}, "failed")}
  /\ Finish(w)

Fail(w) ==
  LET j == worker[w] IN
  /\ \E reason \in FailReasonsOf(j.phase) : FailVersion(j.doc, j.number, reason)
  /\ Finish(w)

FailRefused(w) ==
  LET j == worker[w] IN
  /\ FailReasonsOf(j.phase) # {}
  /\ Live(j.doc) => versions[j.doc][j.number].state \in {"none", "ready"}
  /\ Finish(w)
  /\ UNCHANGED storeVars

\* The process dies, the job is cancelled, or a call to the store raises where
\* nothing catches it: the rows stay as they are.
Crash(w) ==
  /\ ~At(w, "idle")
  /\ Finish(w)
  /\ UNCHANGED storeVars

-----------------------------------------------------------------------------
Start(w) ==
  \E d \in Docs :
    \/ Prepare(w, d)
    \/ Reindex(w, d)
    \/ \E n \in Numbers : Confirm(w, d, n)

Work(w) ==
  \/ Begin(w)  \/ BeginDeleted(w)
  \/ Park(w)   \/ ParkRefused(w)
  \/ Claim(w)  \/ ClaimRefused(w)
  \/ Stage(w)  \/ StageRefused(w)
  \/ Swap(w)   \/ SwapRefused(w)
  \/ Fail(w)   \/ FailRefused(w)

IngestNext ==
  \/ \E w \in Workers : Start(w) \/ Work(w) \/ Crash(w)
  \/ HostNext /\ UNCHANGED worker

IngestSpec == IngestInit /\ [][IngestNext]_vars

(* The host calls both sweeps on its tick, for as long as it runs.  Nothing  *)
(* is assumed of the workers: any of them may hang or die at any step.       *)
TickFairness ==
  WF_vars(Tick /\ UNCHANGED worker)
  /\ WF_vars(ExpireDrafts /\ UNCHANGED worker)
  /\ WF_vars(InterruptStale /\ UNCHANGED worker)

LiveSpec == IngestSpec /\ TickFairness
-----------------------------------------------------------------------------
(* What ingestion promises.                                                  *)

\* A document that answers keeps answering, whatever becomes of the uploads that
\* follow, until it is removed (documents.py, "Nothing is served until it is
\* whole"; README.md, "Versions swap atomically").
ServedKeepsAnswering ==
  [][\A d \in Docs : (Served(d) /\ docs'[d].state = "live") => Served(d)']_vars

\* A ready version holds every chunk of a text its file was cut into: no part of
\* a text is ever served.
ServedIsWhole ==
  \A d \in Docs, n \in Numbers :
    versions[d][n].state = "ready" => chunks[d][n] \in PlansOf[versions[d][n].content]

\* The chunks a commit serves are those of the draft it claimed, which are those
\* the uploader was shown an estimate of (documents.py, KbDraft).
ServesWhatWasConfirmed ==
  [][\A w \in Workers :
       LET j == worker[w] IN
       (At(w, "swap") /\ versions[j.doc][j.number].state = "processing"
          /\ versions'[j.doc][j.number].state = "ready") =>
         chunks'[j.doc][j.number] = j.plan]_vars

\* Two jobs never embed one version at the same time: an upload is confirmed
\* once and paid for once (ports.py, claim_draft).
EmbeddedOnce ==
  \A v, w \in Workers :
    (/\ worker[v].phase \in {"embed", "stage"} /\ worker[w].phase \in {"embed", "stage"}
     /\ worker[v].doc = worker[w].doc /\ worker[v].number = worker[w].number)
      => v = w

\* A commit gives way to a newer upload only while one can still be served: when
\* every newer version has ended in error, the retry of an older one is the only
\* upload left to land (ingest.py, "a newer upload that lands first").
SupersededByALiveUpload ==
  [][\A d \in Docs, n \in Numbers :
       (/\ versions[d][n].state # "none" /\ versions'[d][n].state = "none"
        /\ docs'[d].state = "live") =>
         \E m \in Numbers :
           /\ m > n
           /\ versions'[d][m].state \in {"processing", "awaiting_confirmation", "ready"}]_vars

\* No version stays processing beyond its process, and no draft waits for ever:
\* the sweeps end what its worker, or its uploader, has left (README.md).
EveryVersionSettles ==
  \A d \in Docs, n \in Numbers :
    versions[d][n].state \in {"processing", "awaiting_confirmation"} ~>
      versions[d][n].state \in {"none", "ready", "error"}

\* The readers' view of the store: the abstract document store of KbServing.
AnsweredWith(d) ==
  IF Served(d) THEN [version |-> docs[d].active, text |-> chunks[d][docs[d].active]]
               ELSE [version |-> 0, text |-> {}]

Serving == INSTANCE KbServing WITH
  Texts   <- UNION {PlansOf[c] : c \in Contents},
  NoText  <- {},
  present <- {d \in Docs : docs[d].state = "live"},
  served  <- [d \in Docs |-> AnsweredWith(d)]

\* One job at a time, readers see exactly what KbServing promises.
ReadersSeeServing == Serving!ServingSpec
=============================================================================
