--------------------------- MODULE KbIngestProofs --------------------------
(***************************************************************************)
(* Theorems about KbIngest.  For every number of jobs and every constant:  *)
(* jobs that interleave with each other, with a panel and with the sweeps, *)
(* and that die anywhere, call the store as KbStore says they may; so that *)
(* what is proved of the store in KbStoreProofs holds under ingestion.     *)
(* With one job at a time, a document that answers keeps answering; with   *)
(* one way to cut a file besides, every text served is whole and is what   *)
(* was confirmed, and readers see KbServing.  MCKbIngestLost,              *)
(* MCKbIngestTwoJobs and MCKbIngestLeftover show what goes wrong without.  *)
(***************************************************************************)
EXTENDS KbIngest, KbStoreProofs

-----------------------------------------------------------------------------
(* What a job holds by the time it makes the call of its phase.              *)

Holds(j, now) ==
  /\ j.phase # "idle" => j.doc \in Docs /\ j.moment \in 0..now
  /\ j.phase \in {"begin", "extract"} => j.content \in Contents
  /\ j.phase \in {"extract", "claim", "embed", "stage", "swap"} => j.number \in Numbers

JobsHold == \A w \in Workers : Holds(worker[w], clock)

JobsInv == IngestTypeOK /\ JobsHold

LEMMA IdleHolds == Idle \in Job /\ \A now : Holds(Idle, now)
BY BoundsAssumption DEF Idle, Job, Phases, Holds

\* Time passing takes nothing from a job.
LEMMA HoldsOn ==
  ASSUME NEW j, NEW now \in Nat, NEW later \in Nat, now <= later, Holds(j, now)
  PROVE  Holds(j, later)
BY DEF Holds

\* One job moves, the others stay.
LEMMA JobMoves ==
  ASSUME JobsInv, TypeOK', clock <= clock', NEW w \in Workers, NEW job \in Job,
         Holds(job, clock'), worker' = [worker EXCEPT ![w] = job]
  PROVE  JobsInv'
<1>1. worker' \in [Workers -> Job]
  BY DEF JobsInv, IngestTypeOK
<1>2. clock \in Nat /\ clock' \in Nat
  BY DEF JobsInv, IngestTypeOK, TypeOK
<1>3. ASSUME NEW v \in Workers PROVE Holds(worker'[v], clock')
  <2>1. CASE v = w
    BY <2>1 DEF JobsInv, IngestTypeOK
  <2>2. CASE v # w
    <3>1. worker'[v] = worker[v] /\ Holds(worker[v], clock)
      BY <2>2 DEF JobsInv, JobsHold, IngestTypeOK
    <3> QED
      BY <1>2, <3>1, HoldsOn
  <2> QED
    BY <2>1, <2>2
<1> QED
  BY <1>1, <1>3 DEF JobsInv, IngestTypeOK, JobsHold

LEMMA FinishHolds ==
  ASSUME JobsInv, TypeOK', clock <= clock', NEW w \in Workers, Finish(w)
  PROVE  JobsInv'
BY IdleHolds, JobMoves DEF Finish

\* Nothing was written, or the store's own step: then the types of the store and
\* the clock are what a job's move needs.
LEMMA StoreStep ==
  ASSUME TypeOK, [Next]_storeVars
  PROVE  TypeOK'
<1>1. ASSUME UNCHANGED storeVars PROVE TypeOK'
  BY <1>1 DEF TypeOK, storeVars
<1> QED
  BY <1>1, HostType, IngestCallType DEF Next

LEMMA SameClock ==
  ASSUME TypeOK, clock' = clock
  PROVE  clock <= clock'
BY DEF TypeOK

-----------------------------------------------------------------------------
(* Starting and dying.                                                       *)

LEMMA StartJobHolds ==
  ASSUME JobsInv, NEW w \in Workers, NEW d \in Docs, NEW c \in Contents,
         NEW keep \in BOOLEAN, StartJob(w, d, c, keep)
  PROVE  JobsInv' /\ UNCHANGED storeVars
<1> DEFINE job == [Idle EXCEPT !.phase = "begin", !.doc = d, !.content = c,
                               !.keep = keep, !.moment = clock]
<1>1. UNCHANGED storeVars /\ clock' = clock /\ TypeOK /\ TypeOK'
  BY StoreStep DEF StartJob, storeVars, JobsInv, IngestTypeOK
<1>2. job \in Job
  BY <1>1, IdleHolds DEF TypeOK, Job, Phases
<1>3. Holds(job, clock')
  BY <1>1 DEF TypeOK, Idle, Holds
<1>4. worker' = [worker EXCEPT ![w] = job]
  BY DEF StartJob
<1> QED
  BY <1>1, <1>2, <1>3, <1>4, SameClock, JobMoves

LEMMA ConfirmHolds ==
  ASSUME JobsInv, NEW w \in Workers, NEW d \in Docs, NEW n \in Numbers, Confirm(w, d, n)
  PROVE  JobsInv' /\ UNCHANGED storeVars
<1> DEFINE job == [Idle EXCEPT !.phase = "claim", !.doc = d, !.number = n,
                               !.moment = clock]
<1>1. UNCHANGED storeVars /\ clock' = clock /\ TypeOK /\ TypeOK'
  BY StoreStep DEF Confirm, storeVars, JobsInv, IngestTypeOK
<1>2. n \in 0..MaxVersion
  BY BoundsAssumption DEF Numbers
<1>3. job \in Job
  BY <1>1, <1>2 DEF TypeOK, Idle, Job, Phases
<1>4. Holds(job, clock')
  BY <1>1 DEF TypeOK, Idle, Holds
<1>5. worker' = [worker EXCEPT ![w] = job]
  BY DEF Confirm
<1> QED
  BY <1>1, <1>3, <1>4, <1>5, SameClock, JobMoves

LEMMA StartHolds ==
  ASSUME JobsInv, NEW w \in Workers, Start(w)
  PROVE  JobsInv' /\ UNCHANGED storeVars
BY StartJobHolds, ConfirmHolds DEF Start, Prepare, Reindex

\* A job that is turned away, or dies, writes nothing.
LEMMA LeaveHolds ==
  ASSUME JobsInv, NEW w \in Workers, Finish(w), UNCHANGED storeVars
  PROVE  JobsInv' /\ [Next]_storeVars
<1>1. clock' = clock /\ TypeOK /\ TypeOK'
  BY StoreStep DEF storeVars, JobsInv, IngestTypeOK
<1> QED
  BY <1>1, SameClock, FinishHolds

-----------------------------------------------------------------------------
(* Calling the store.                                                        *)

LEMMA BeginHolds ==
  ASSUME JobsInv, NEW w \in Workers, Begin(w)
  PROVE  JobsInv' /\ [Next]_storeVars
<1> DEFINE j == worker[w]
<1>1. /\ j \in Job /\ j.phase = "begin" /\ j.doc \in Docs /\ j.moment \in 0..clock
      /\ j.content \in Contents /\ j.keep \in BOOLEAN
  BY DEF Begin, At, JobsInv, IngestTypeOK, JobsHold, Holds, Job
<1>2. PICK n \in Numbers :
        /\ BeginVersion(j.doc, j.content, j.keep, j.moment, n)
        /\ IF versions[j.doc][n].state = "ready"
           THEN Finish(w)
           ELSE worker' = [worker EXCEPT ![w].phase = "extract", ![w].number = n]
  BY DEF Begin
<1>3. Next
  BY <1>1, <1>2 DEF Next, IngestCall
<1>4. TypeOK /\ TypeOK' /\ clock' = clock
  BY <1>2, <1>3, StoreStep DEF JobsInv, IngestTypeOK, BeginVersion
<1>5. CASE Finish(w)
  BY <1>3, <1>4, <1>5, SameClock, FinishHolds
<1>6. CASE worker' = [worker EXCEPT ![w].phase = "extract", ![w].number = n]
  <2> DEFINE job == [j EXCEPT !.phase = "extract", !.number = n]
  <2>1. worker' = [worker EXCEPT ![w] = job]
    BY <1>6
  <2>2. job \in Job
    <3>1. n \in 0..MaxVersion
      BY BoundsAssumption DEF Numbers
    <3> QED
      BY <1>1, <3>1 DEF Job, Phases
  <2>3. Holds(job, clock')
    BY <1>1, <1>4 DEF Holds, Job
  <2> QED
    BY <1>3, <1>4, <2>1, <2>2, <2>3, SameClock, JobMoves
<1> QED
  BY <1>2, <1>5, <1>6

LEMMA ParkHolds ==
  ASSUME JobsInv, NEW w \in Workers, Park(w)
  PROVE  JobsInv' /\ [Next]_storeVars
<1> DEFINE j == worker[w]
<1>1. /\ j.doc \in Docs /\ j.moment \in 0..clock
      /\ j.content \in Contents /\ j.number \in Numbers
  BY DEF Park, At, JobsInv, JobsHold, Holds
<1>2. PICK plan \in PlansOf[j.content] :
        SaveDraft(j.doc, j.number, plan, j.moment + DraftTtl)
  BY DEF Park
<1>3. plan \in Plans
  BY <1>1, IngestAssumption
<1>4. Next
  BY <1>1, <1>2, <1>3 DEF Next, IngestCall
<1>5. TypeOK /\ TypeOK' /\ clock' = clock
  BY <1>2, <1>4, StoreStep DEF JobsInv, IngestTypeOK, SaveDraft
<1> QED
  BY <1>4, <1>5, SameClock, FinishHolds DEF Park

LEMMA ClaimHolds ==
  ASSUME JobsInv, NEW w \in Workers, Claim(w)
  PROVE  JobsInv' /\ [Next]_storeVars
<1> DEFINE j == worker[w]
<1> DEFINE plan == drafts[j.doc][j.number]
<1>1. /\ j \in Job /\ j.doc \in Docs /\ j.moment \in 0..clock /\ j.number \in Numbers
  BY DEF Claim, At, JobsInv, IngestTypeOK, JobsHold, Holds
<1>2. ClaimDraft(j.doc, j.number, j.moment)
  BY DEF Claim
<1>3. Next
  BY <1>1, <1>2 DEF Next, IngestCall
<1>4. TypeOK /\ TypeOK' /\ clock' = clock
  BY <1>2, <1>3, StoreStep DEF JobsInv, IngestTypeOK, ClaimDraft
<1>5. plan \in SUBSET Ordinals
  BY <1>1, <1>4 DEF TypeOK
<1> DEFINE job == [j EXCEPT !.phase = "embed", !.plan = plan, !.left = plan]
<1>6. worker' = [worker EXCEPT ![w] = job]
  BY DEF Claim
<1>7. job \in Job
  BY <1>1, <1>5 DEF Job, Phases
<1>8. Holds(job, clock')
  BY <1>1, <1>4 DEF Holds, Job
<1> QED
  BY <1>3, <1>4, <1>6, <1>7, <1>8, SameClock, JobMoves

\* An empty batch would change nothing: the store's step, or none.
LEMMA StageHolds ==
  ASSUME JobsInv, NEW w \in Workers, Stage(w)
  PROVE  JobsInv' /\ [Next]_storeVars
<1> DEFINE j == worker[w]
<1> DEFINE batch == NextBatch(j.left)
<1> DEFINE rest == j.left \ batch
<1>1. /\ j \in Job /\ j.doc \in Docs /\ j.moment \in 0..clock /\ j.number \in Numbers
  BY DEF Stage, At, JobsInv, IngestTypeOK, JobsHold, Holds
<1>2. AddChunks(j.doc, j.number, batch)
  BY DEF Stage
<1>3. batch \in SUBSET Ordinals /\ rest \in SUBSET Ordinals
  BY <1>1 DEF Job, NextBatch
<1>4. [Next]_storeVars
  <2>1. CASE batch # {}
    BY <1>1, <1>2, <1>3, <2>1 DEF Plans, Next, IngestCall
  <2>2. CASE batch = {}
    <3>1. chunks' = [chunks EXCEPT ![j.doc][j.number] = chunks[j.doc][j.number] \cup {}]
      BY <1>2, <2>2 DEF AddChunks
    <3>2. chunks' = chunks
      BY <1>1, <3>1 DEF JobsInv, IngestTypeOK, TypeOK
    <3> QED
      BY <1>2, <3>2 DEF AddChunks, storeVars
  <2> QED
    BY <2>1, <2>2
<1>5. TypeOK /\ TypeOK' /\ clock' = clock
  BY <1>2, <1>4, StoreStep DEF JobsInv, IngestTypeOK, AddChunks
<1> DEFINE job == [j EXCEPT !.left = rest, !.phase = IF rest = {} THEN "swap" ELSE "stage"]
<1>6. worker' = [worker EXCEPT ![w] = job]
  BY DEF Stage
<1>7. job \in Job
  BY <1>1, <1>3 DEF Job, Phases
<1>8. Holds(job, clock')
  BY <1>1, <1>5 DEF Holds, Job
<1> QED
  BY <1>4, <1>5, <1>6, <1>7, <1>8, SameClock, JobMoves

LEMMA SwapHolds ==
  ASSUME JobsInv, NEW w \in Workers, Swap(w)
  PROVE  JobsInv' /\ [Next]_storeVars
<1> DEFINE j == worker[w]
<1>1. j.doc \in Docs /\ j.number \in Numbers /\ CommitVersion(j.doc, j.number)
  BY DEF Swap, At, JobsInv, JobsHold, Holds
<1>2. Next
  BY <1>1 DEF Next, IngestCall
<1>3. TypeOK /\ TypeOK' /\ clock' = clock
  BY <1>1, <1>2, StoreStep
     DEF JobsInv, IngestTypeOK, CommitVersion, CommitSuperseded, CommitReady
<1> QED
  BY <1>2, <1>3, SameClock, FinishHolds DEF Swap

LEMMA FailHolds ==
  ASSUME JobsInv, NEW w \in Workers, Fail(w)
  PROVE  JobsInv' /\ [Next]_storeVars
<1> DEFINE j == worker[w]
<1>1. PICK reason \in FailReasonsOf(j.phase) : FailVersion(j.doc, j.number, reason)
  BY DEF Fail
<1>2. j.phase \in {"extract", "embed"} /\ reason \in FailReasons
  BY <1>1 DEF FailReasonsOf, FailReasons
<1>3. j.doc \in Docs /\ j.number \in Numbers
  BY <1>2 DEF JobsInv, JobsHold, Holds
<1>4. Next
  BY <1>1, <1>2, <1>3 DEF Next, IngestCall
<1>5. TypeOK /\ TypeOK' /\ clock' = clock
  BY <1>1, <1>4, StoreStep DEF JobsInv, IngestTypeOK, FailVersion, EndVersions
<1> QED
  BY <1>4, <1>5, SameClock, FinishHolds DEF Fail

LEMMA WorkHolds ==
  ASSUME JobsInv, NEW w \in Workers, Work(w) \/ Crash(w)
  PROVE  JobsInv' /\ [Next]_storeVars
<1>1. CASE Finish(w) /\ UNCHANGED storeVars
  BY <1>1, LeaveHolds
<1> QED
  BY <1>1, BeginHolds, ParkHolds, ClaimHolds, StageHolds, SwapHolds, FailHolds
     DEF Work, Crash, BeginDeleted, ParkRefused, ClaimRefused, StageRefused, SwapRefused,
         FailRefused

-----------------------------------------------------------------------------
LEMMA HostClock ==
  ASSUME TypeOK, HostNext
  PROVE  clock <= clock'
<1>1. CASE Tick
  BY <1>1 DEF TypeOK, Tick
<1>2. CASE clock' = clock
  BY <1>2, SameClock
<1> QED
  BY <1>1, <1>2
     DEF HostNext, CreateDocument, DeleteDocument, PurgeOwnerSubtree, Remove, DiscardDraft,
         EndVersions, ExpireDrafts, InterruptStale, Sweep, PruneTombstones

LEMMA IngestStep ==
  ASSUME JobsInv, [IngestNext]_vars
  PROVE  JobsInv' /\ [Next]_storeVars
<1>1. ASSUME NEW w \in Workers, Start(w) PROVE JobsInv' /\ [Next]_storeVars
  BY <1>1, StartHolds
<1>2. ASSUME NEW w \in Workers, Work(w) \/ Crash(w) PROVE JobsInv' /\ [Next]_storeVars
  BY <1>2, WorkHolds
<1>3. ASSUME HostNext, UNCHANGED worker PROVE JobsInv' /\ [Next]_storeVars
  <2>1. TypeOK /\ TypeOK' /\ clock <= clock' /\ Next
    BY <1>3, HostType, HostClock DEF JobsInv, IngestTypeOK, Next
  <2>2. clock \in Nat /\ clock' \in Nat
    BY <2>1 DEF TypeOK
  <2>3. \A w \in Workers : Holds(worker[w], clock')
    BY <2>1, <2>2, HoldsOn DEF JobsInv, JobsHold
  <2> QED
    BY <1>3, <2>1, <2>3 DEF JobsInv, IngestTypeOK, JobsHold
<1>4. ASSUME UNCHANGED vars PROVE JobsInv' /\ [Next]_storeVars
  BY <1>4 DEF vars, storeVars, JobsInv, IngestTypeOK, TypeOK, JobsHold
<1> QED
  BY <1>1, <1>2, <1>3, <1>4 DEF IngestNext

LEMMA IngestStart ==
  ASSUME IngestInit
  PROVE  JobsInv
<1>1. TypeOK
  BY TypeCorrectStart DEF IngestInit
<1>2. worker = [w \in Workers |-> Idle]
  BY DEF IngestInit
<1>3. \A w \in Workers : worker[w] = Idle
  BY <1>2
<1> QED
  BY <1>1, <1>2, <1>3, IdleHolds DEF JobsInv, IngestTypeOK, JobsHold

\* Jobs keep their records in shape, and the store its tables, at any number of
\* jobs.
THEOREM IngestTypeCorrect == IngestSpec => []IngestTypeOK
<1>1. JobsInv => IngestTypeOK
  BY DEF JobsInv
<1> QED
  BY <1>1, IngestStart, IngestStep, PTL DEF IngestSpec

\* Ingestion is one of the callers KbStore allows: no interleaving of jobs, no
\* failure and no crash makes a call the store is not specified for.
THEOREM IngestImplementsStore == IngestSpec => Spec
<1>1. IngestInit => Init
  BY DEF IngestInit
<1> QED
  BY <1>1, IngestStart, IngestStep, PTL DEF IngestSpec, Spec

\* So the store's guarantees hold under ingestion.
THEOREM IngestKeepsStore ==
  IngestSpec => []StoreInv /\ ServedIsImmutable /\ AnswersMoveForward
BY IngestImplementsStore, StoreInvariant, ServedImmutable, AnswersForward, PTL

-----------------------------------------------------------------------------
(* One job at a time, and one way to cut a file.                             *)

OneJob  == \A v, w \in Workers : v = w
OnePlan == \A c \in Contents : \A p, q \in PlansOf[c] : p = q

\* What a row holds is of the text its file is cut into, and when it is ready it is
\* all of it.
RowIsOfItsText(d, n) ==
  LET v == versions[d][n] IN
  /\ v.state # "none" => /\ v.content \in Contents
                         /\ \A p \in PlansOf[v.content] : chunks[d][n] \subseteq p
  /\ drafts[d][n] # {} => drafts[d][n] \in PlansOf[v.content]
  /\ v.state = "ready" => chunks[d][n] \in PlansOf[v.content]

\* What a job cut its file into, as it knows, is what the file is cut into; and what
\* it has not left to do is staged.
JobKnowsItsText(j) ==
  LET v == versions[j.doc][j.number] IN
  /\ (j.phase = "extract" /\ v.state = "processing") => v.content = j.content
  /\ (j.phase \in {"embed", "stage", "swap"} /\ v.state = "processing") =>
       /\ j.plan \in PlansOf[v.content]
       /\ j.left \subseteq j.plan
       /\ j.plan \ j.left \subseteq chunks[j.doc][j.number]
  /\ j.phase = "swap" => j.left = {}

TextInv ==
  /\ \A d \in Docs, n \in Numbers : RowIsOfItsText(d, n)
  /\ \A w \in Workers : JobKnowsItsText(worker[w])

\* The version a job works on is not served, and what a document points to is.
JobLeavesServed(j) ==
  j.phase \in {"extract", "claim", "embed", "stage", "swap"} =>
    versions[j.doc][j.number].state # "ready"

ActiveIsReady(d) ==
  docs[d].active # 0 => versions[d][docs[d].active].state = "ready"

PointerInv ==
  /\ \A d \in Docs : ActiveIsReady(d)
  /\ \A w \in Workers : JobLeavesServed(worker[w])

-----------------------------------------------------------------------------
(* Rows, as a step leaves them.                                              *)

RowSame(d, n) ==
  /\ versions'[d][n] = versions[d][n]
  /\ chunks'[d][n] = chunks[d][n]
  /\ drafts'[d][n] = drafts[d][n]

RowEnds(d, n) ==
  /\ versions'[d][n].state \in {"none", "error"}
  /\ versions'[d][n].state = "error" => versions[d][n].state # "none"
                                        /\ versions'[d][n].content = versions[d][n].content
  /\ chunks'[d][n] = {}
  /\ drafts'[d][n] = {}

LEMMA EndVersionsRows ==
  ASSUME TypeOK, NEW S \in SUBSET (Docs \X Numbers), NEW reason,
         \A v \in S : versions[v[1]][v[2]].state # "none",
         EndVersions(S, reason)
  PROVE  \A d \in Docs, n \in Numbers : RowSame(d, n) \/ RowEnds(d, n)
<1>1. \A d \in Docs, n \in Numbers : <<d, n>> \notin S => RowSame(d, n)
  BY DEF EndVersions, RowSame
<1>2. ASSUME NEW d \in Docs, NEW n \in Numbers, <<d, n>> \in S
      PROVE  RowEnds(d, n)
  <2>1. versions[d][n] \in VersionRow
    BY DEF TypeOK
  <2>2. versions'[d][n] = [versions[d][n] EXCEPT !.state = "error", !.reason = reason]
    BY <1>2 DEF EndVersions
  <2>3. versions'[d][n].state = "error" /\ versions'[d][n].content = versions[d][n].content
    BY <2>1, <2>2 DEF VersionRow
  <2>4. chunks'[d][n] = {} /\ drafts'[d][n] = {}
    BY <1>2 DEF EndVersions
  <2>5. versions[d][n].state # "none"
    BY <1>2
  <2> QED
    BY <2>3, <2>4, <2>5 DEF RowEnds
<1> QED
  BY <1>1, <1>2

LEMMA HostRows ==
  ASSUME TypeOK, HostNext
  PROVE  \A d \in Docs, n \in Numbers : RowSame(d, n) \/ RowEnds(d, n)
<1> DEFINE Goal == \A d \in Docs, n \in Numbers : RowSame(d, n) \/ RowEnds(d, n)
<1>1. ASSUME UNCHANGED <<versions, chunks, drafts>> PROVE Goal
  BY <1>1 DEF RowSame
<1>2. ASSUME NEW S, NEW kind, Remove(S, kind) PROVE Goal
  <2>1. \A d \in Docs, n \in Numbers : d \notin S => RowSame(d, n)
    BY <1>2 DEF Remove, RowSame
  <2>2. \A d \in Docs, n \in Numbers : d \in S =>
          versions'[d][n] = NoVersion /\ chunks'[d][n] = {} /\ drafts'[d][n] = {}
    BY <1>2 DEF Remove
  <2> QED
    BY <2>1, <2>2, NoVersionIsRow DEF RowEnds
<1>3. ASSUME NEW d \in Docs, CreateDocument(d) \/ DeleteDocument(d) PROVE Goal
  BY <1>1, <1>2, <1>3 DEF CreateDocument, DeleteDocument
<1>4. ASSUME NEW p \in Owners, PurgeOwnerSubtree(p) PROVE Goal
  BY <1>2, <1>4 DEF PurgeOwnerSubtree
<1>5. ASSUME NEW d \in Docs, NEW n \in Numbers, DiscardDraft(d, n) PROVE Goal
  <2>1. /\ {<<d, n>>} \in SUBSET (Docs \X Numbers)
        /\ \A v \in {<<d, n>>} : versions[v[1]][v[2]].state # "none"
    BY <1>5 DEF DiscardDraft, Awaiting
  <2> QED
    BY <1>5, <2>1, EndVersionsRows DEF DiscardDraft
<1>6. ASSUME NEW due \in SUBSET (Docs \X Numbers), NEW reason,
             \A v \in due : versions[v[1]][v[2]].state # "none", Sweep(due, reason)
      PROVE  Goal
  <2>1. PICK S \in SUBSET due : EndVersions(S, reason)
    BY <1>6 DEF Sweep
  <2> QED
    BY <1>6, <2>1, EndVersionsRows
<1>7. ASSUME ExpireDrafts PROVE Goal
  BY <1>6, <1>7 DEF ExpireDrafts, Due, Awaiting
<1>8. ASSUME InterruptStale PROVE Goal
  BY <1>6, <1>8 DEF InterruptStale, Abandoned, Processing
<1>9. ASSUME Tick PROVE Goal
  BY <1>1, <1>9 DEF Tick
<1>10. ASSUME NEW before, PruneTombstones(before) PROVE Goal
  BY <1>1, <1>10 DEF PruneTombstones
<1> HIDE DEF Goal
<1>11. Goal
  BY <1>3, <1>4, <1>5, <1>7, <1>8, <1>9, <1>10 DEF HostNext
<1> QED
  BY <1>11 DEF Goal

LEMMA SameRowIsOfItsText ==
  ASSUME NEW d, NEW n, RowIsOfItsText(d, n), RowSame(d, n) \/ RowEnds(d, n)
  PROVE  RowIsOfItsText(d, n)'
<1>1. CASE RowSame(d, n)
  BY <1>1 DEF RowSame, RowIsOfItsText
<1>2. CASE RowEnds(d, n)
  BY <1>2 DEF RowEnds, RowIsOfItsText
<1> QED
  BY <1>1, <1>2

\* A job that does not move, or that is over, knows what it knew.
LEMMA SameJobKnows ==
  ASSUME NEW j, JobKnowsItsText(j),
         j.phase \in {"idle", "begin"} \/ RowSame(j.doc, j.number) \/ RowEnds(j.doc, j.number)
  PROVE  \A k : k = j => JobKnowsItsText(k)'
BY DEF JobKnowsItsText, RowSame, RowEnds

-----------------------------------------------------------------------------
(* What is served stays, with one job.                                       *)

\* A document is served exactly when it points to a version, and what it points to
\* is there.
Answering == \A d \in Docs : docs'[d].state = "live" /\ docs[d].active # 0 =>
                               docs'[d].active # 0

Pointed == (\A d \in Docs : ActiveIsReady(d)') /\ Answering

LEMMA KeepsPoints ==
  ASSUME TypeOK, \A d \in Docs : ActiveIsReady(d), AllAgree, Keeps
  PROVE  Pointed
<1>1. docs' = docs
  BY DEF Keeps
<1>2. ASSUME NEW d \in Docs, docs[d].active # 0
      PROVE  versions'[d][docs[d].active].state = "ready"
  <2>1. docs[d].active \in Numbers
    BY <1>2, BoundsAssumption DEF TypeOK, DocRow, Numbers
  <2>2. versions[d][docs[d].active].state = "ready"
    BY <1>2 DEF ActiveIsReady
  <2> QED
    BY <2>1, <2>2 DEF Keeps
<1> QED
  BY <1>1, <1>2 DEF Pointed, Answering, ActiveIsReady

LEMMA CreateDocumentPoints ==
  ASSUME TypeOK, \A d \in Docs : ActiveIsReady(d), NEW e \in Docs, CreateDocument(e)
  PROVE  Pointed
<1>1. \A d \in Docs : docs'[d].active = docs[d].active
  BY DEF TypeOK, DocRow, CreateDocument
<1>2. versions' = versions
  BY DEF CreateDocument
<1> QED
  BY <1>1, <1>2 DEF Pointed, Answering, ActiveIsReady

LEMMA RemovePoints ==
  ASSUME TypeOK, \A d \in Docs : ActiveIsReady(d), NEW S \in SUBSET Docs, NEW kind,
         Remove(S, kind)
  PROVE  Pointed
<1>1. \A d \in Docs : d \in S => docs'[d].active = 0 /\ docs'[d].state = "gone"
  BY DEF Remove
<1>2. \A d \in Docs : d \notin S => docs'[d] = docs[d] /\ versions'[d] = versions[d]
  BY DEF Remove
<1> QED
  BY <1>1, <1>2 DEF Pointed, Answering, ActiveIsReady

\* Nothing a document points to is discarded, when it is not what the job works on.
LEMMA SupersededPoints ==
  ASSUME TypeOK, \A d \in Docs : ActiveIsReady(d), NEW e \in Docs, NEW n \in Numbers,
         versions[e][n].state # "ready", CommitSuperseded(e, n)
  PROVE  Pointed
<1>1. docs' = docs
  BY DEF CommitSuperseded
<1>2. \A d \in Docs : docs[d].active # 0 => docs[d].active \in Numbers
  BY BoundsAssumption DEF TypeOK, DocRow, Numbers
<1>3. \A d \in Docs, m \in Numbers : ~(d = e /\ m = n) => versions'[d][m] = versions[d][m]
  BY DEF TypeOK, CommitSuperseded
<1> QED
  BY <1>1, <1>2, <1>3 DEF Pointed, Answering, ActiveIsReady

LEMMA ReadyPoints ==
  ASSUME TypeOK, \A d \in Docs : ActiveIsReady(d), NEW e \in Docs, NEW n \in Numbers,
         CommitReady(e, n)
  PROVE  Pointed
<1>1. \A d \in Docs : d # e => docs'[d] = docs[d] /\ versions'[d] = versions[d]
  BY DEF TypeOK, CommitReady
<1>2. docs'[e].active = n
  BY DEF TypeOK, DocRow, CommitReady
<1>3. versions'[e][n].state = "ready"
  <2>1. versions[e][n] \in VersionRow
    BY DEF TypeOK
  <2>2. versions'[e][n] = [versions[e][n] EXCEPT !.state = "ready", !.reason = ""]
    BY DEF TypeOK, CommitReady
  <2> QED
    BY <2>1, <2>2 DEF VersionRow
<1>4. n # 0
  BY DEF Numbers
<1> QED
  BY <1>1, <1>2, <1>3, <1>4 DEF Pointed, Answering, ActiveIsReady

-----------------------------------------------------------------------------
(* What a step of ingestion is, to what is served.                           *)

LEMMA WorkKinds ==
  ASSUME JobsInv, AllAgree, NEW w \in Workers, Start(w) \/ Work(w) \/ Crash(w)
  PROVE  \/ At(w, "swap") /\ worker[w].doc \in Docs /\ worker[w].number \in Numbers
            /\ CommitVersion(worker[w].doc, worker[w].number)
         \/ Keeps
<1> DEFINE j == worker[w]
<1>1. ASSUME UNCHANGED storeVars PROVE Keeps
  BY <1>1 DEF Keeps, NumbersOf, storeVars
<1>2. CASE Start(w) \/ Crash(w)
  BY <1>1, <1>2, StartHolds DEF Crash
<1>3. TypeOK /\ j \in Job /\ Holds(j, clock) /\ 0..clock \subseteq Nat
  BY DEF JobsInv, JobsHold, IngestTypeOK, TypeOK
<1>4. ASSUME Begin(w) PROVE Keeps
  <2>1. j.phase = "begin" /\ j.keep \in BOOLEAN /\ j.moment \in Nat
    BY <1>3, <1>4 DEF Begin, At, Job
  <2>2. PICK n \in Numbers : BeginVersion(j.doc, j.content, j.keep, j.moment, n)
    BY <1>4 DEF Begin
  <2> QED
    BY <1>3, <2>1, <2>2, BeginVersionKeeps DEF Holds
<1>5. ASSUME Park(w) PROVE Keeps
  <2>1. /\ j.phase = "extract" /\ j.doc \in Docs /\ j.number \in Numbers
        /\ j.moment + DraftTtl \in Nat /\ PlansOf[j.content] \subseteq Plans
    BY <1>3, <1>5, BoundsAssumption, IngestAssumption DEF Park, At, Holds, Job
  <2>2. PICK plan \in PlansOf[j.content] :
          SaveDraft(j.doc, j.number, plan, j.moment + DraftTtl)
    BY <1>5 DEF Park
  <2> QED
    BY <1>3, <2>1, <2>2, SaveDraftKeeps
<1>6. ASSUME Claim(w) PROVE Keeps
  BY <1>3, <1>6, ClaimDraftKeeps DEF Claim, At, Holds, Job
<1>7. ASSUME Stage(w) PROVE Keeps
  <2>1. NextBatch(j.left) \in SUBSET Ordinals
    BY <1>3 DEF NextBatch, Job
  <2> QED
    BY <1>3, <1>7, <2>1, AddChunksKeeps DEF Stage, At, Holds
<1>8. ASSUME Swap(w)
      PROVE  /\ At(w, "swap") /\ worker[w].doc \in Docs /\ worker[w].number \in Numbers
             /\ CommitVersion(worker[w].doc, worker[w].number)
  BY <1>3, <1>8 DEF Swap, At, Holds
<1>9. ASSUME Fail(w) PROVE Keeps
  <2>1. PICK reason \in FailReasonsOf(j.phase) : FailVersion(j.doc, j.number, reason)
    BY <1>9 DEF Fail
  <2>2. j.doc \in Docs /\ j.number \in Numbers
    BY <1>3, <2>1 DEF FailReasonsOf, Holds
  <2>3. /\ {<<j.doc, j.number>>} \in SUBSET (Docs \X Numbers)
        /\ \A v \in {<<j.doc, j.number>>} :
             versions[v[1]][v[2]].state \notin {"none", "ready"}
    BY <2>1, <2>2 DEF FailVersion
  <2> QED
    BY <1>3, <2>1, <2>3, EndVersionsKeeps DEF FailVersion
<1> HIDE DEF j
<1> QED
  BY <1>1, <1>2, <1>4, <1>5, <1>6, <1>7, <1>8, <1>9
     DEF Work, BeginDeleted, ParkRefused, ClaimRefused, StageRefused, SwapRefused, FailRefused

-----------------------------------------------------------------------------
(* A job's own step, as the job knows it.                                    *)

LEMMA FinishIsIdle ==
  ASSUME JobsInv, NEW w \in Workers, Finish(w)
  PROVE  worker'[w] = Idle /\ Idle.phase = "idle"
BY DEF JobsInv, IngestTypeOK, Finish, Idle

\* The version a job takes up is not served, whoever else writes.
LEMMA WorkLeavesServed ==
  ASSUME JobsInv, AllAgree, NEW w \in Workers, JobLeavesServed(worker[w]),
         Start(w) \/ Work(w) \/ Crash(w)
  PROVE  JobLeavesServed(worker[w])'
<1> DEFINE j == worker[w]
<1> DEFINE v == versions'[worker'[w].doc][worker'[w].number]
<1> DEFINE Goal == worker'[w].phase \in {"extract", "claim", "embed", "stage", "swap"} =>
                     v.state # "ready"
<1>1. ASSUME Finish(w) PROVE Goal
  BY <1>1, FinishIsIdle
<1>2. TypeOK /\ worker \in [Workers -> Job] /\ j \in Job /\ Holds(j, clock)
  BY DEF JobsInv, JobsHold, IngestTypeOK
<1>3. ASSUME Start(w) PROVE Goal
  <2>1. ASSUME NEW d \in Docs, NEW c, NEW keep, StartJob(w, d, c, keep) PROVE Goal
    BY <1>2, <2>1 DEF StartJob, Idle
  <2>2. ASSUME NEW d \in Docs, NEW n \in Numbers, Confirm(w, d, n) PROVE Goal
    <3>1. worker'[w].doc = d /\ worker'[w].number = n
      BY <1>2, <2>2 DEF Confirm, Idle
    <3> QED
      BY <2>2, <3>1 DEF Confirm, Awaiting, storeVars
  <2> QED
    BY <1>3, <2>1, <2>2 DEF Start, Prepare, Reindex
<1>4. ASSUME Begin(w) PROVE Goal
  <2>1. PICK n \in Numbers :
          /\ BeginVersion(j.doc, j.content, j.keep, j.moment, n)
          /\ IF versions[j.doc][n].state = "ready"
             THEN Finish(w)
             ELSE worker' = [worker EXCEPT ![w].phase = "extract", ![w].number = n]
    BY <1>4 DEF Begin
  <2>2. j.doc \in Docs
    BY <1>2, <1>4 DEF Begin, At, Holds
  <2>3. ASSUME versions[j.doc][n].state # "ready" PROVE Goal
    <3>1. worker'[w].doc = j.doc /\ worker'[w].number = n
      BY <1>2, <2>1, <2>3 DEF Job
    <3>2. versions[j.doc][n] \in VersionRow
      BY <1>2, <2>2 DEF TypeOK
    <3>3. versions'[j.doc][n].state = "processing"
      <4>1. CASE NewVersion(j.doc, j.content, j.moment, n)
        BY <1>2, <2>2, <4>1 DEF TypeOK, NewVersion
      <4>2. CASE ReopenVersion(j.doc, j.content, j.moment, n)
        <5>1. versions' = [versions EXCEPT ![j.doc][n] = [versions[j.doc][n] EXCEPT
                  !.state = "processing", !.reason = "", !.claimed = j.moment]]
          BY <2>3, <4>2 DEF ReopenVersion
        <5> QED
          BY <1>2, <2>2, <3>2, <5>1 DEF TypeOK, VersionRow
      <4> QED
        BY <2>1, <4>1, <4>2 DEF BeginVersion
    <3> QED
      BY <3>1, <3>3
  <2> QED
    BY <1>1, <2>1, <2>3
<1>5. ASSUME Claim(w) PROVE Goal
  <2>1. j.doc \in Docs /\ j.number \in Numbers
    BY <1>2, <1>5 DEF Claim, At, Holds
  <2>2. worker'[w].doc = j.doc /\ worker'[w].number = j.number
    BY <1>2, <1>5 DEF Claim, Job
  <2>3. versions[j.doc][j.number] \in VersionRow
    BY <1>2, <2>1 DEF TypeOK
  <2>4. versions'[j.doc][j.number].state = "processing"
    BY <1>2, <1>5, <2>1, <2>3 DEF Claim, ClaimDraft, TypeOK, VersionRow
  <2> QED
    BY <2>2, <2>4
<1>6. ASSUME Stage(w) PROVE Goal
  <2>1. worker'[w].doc = j.doc /\ worker'[w].number = j.number
    BY <1>2, <1>6 DEF Stage, Job
  <2>2. versions' = versions /\ versions[j.doc][j.number].state = "processing"
    BY <1>6 DEF Stage, AddChunks, Processing
  <2> QED
    BY <2>1, <2>2
<1> HIDE DEF Goal
<1>7. Goal
  BY <1>1, <1>3, <1>4, <1>5, <1>6
     DEF Work, Park, Swap, Fail, Crash, BeginDeleted, ParkRefused, ClaimRefused,
         StageRefused, SwapRefused, FailRefused
<1> QED
  BY <1>7 DEF Goal, JobLeavesServed

\* What is served stays so with one job: no job discards what a document points to.
LEMMA PointerStep ==
  ASSUME OneJob, JobsInv, AllAgree, PointerInv, [IngestNext]_vars
  PROVE  PointerInv' /\ Answering
<1> DEFINE Leaves == \A w \in Workers : JobLeavesServed(worker[w])'
<1>1. TypeOK /\ \A d \in Docs : ActiveIsReady(d)
  BY DEF JobsInv, IngestTypeOK, PointerInv
<1>2. ASSUME NEW w \in Workers, Start(w) \/ Work(w) \/ Crash(w) PROVE Pointed /\ Leaves
  <2>1. JobLeavesServed(worker[w])
    BY DEF PointerInv
  <2>2. Leaves
    BY <1>2, <2>1, WorkLeavesServed DEF OneJob
  <2>3. ASSUME At(w, "swap"), worker[w].doc \in Docs, worker[w].number \in Numbers,
               CommitVersion(worker[w].doc, worker[w].number)
        PROVE  Pointed
    <3>1. versions[worker[w].doc][worker[w].number].state # "ready"
      BY <2>1, <2>3 DEF At, JobLeavesServed
    <3> QED
      BY <1>1, <2>3, <3>1, SupersededPoints, ReadyPoints DEF CommitVersion
  <2> QED
    BY <1>1, <1>2, <2>2, <2>3, WorkKinds, KeepsPoints
<1>3. ASSUME HostNext, UNCHANGED worker PROVE Pointed /\ Leaves
  <2>1. Pointed
    BY <1>1, <1>3, HostKinds, CreateDocumentPoints, RemovePoints, KeepsPoints
  <2>2. \A d \in Docs, n \in Numbers : RowSame(d, n) \/ RowEnds(d, n)
    BY <1>1, <1>3, HostRows
  <2>3. ASSUME NEW w \in Workers PROVE JobLeavesServed(worker[w])'
    <3>1. JobLeavesServed(worker[w]) /\ Holds(worker[w], clock)
      BY DEF PointerInv, JobsInv, JobsHold
    <3> QED
      BY <1>3, <2>2, <3>1 DEF JobLeavesServed, Holds, RowSame, RowEnds
  <2> QED
    BY <2>1, <2>3
<1>4. ASSUME UNCHANGED vars PROVE Pointed /\ Leaves
  BY <1>4 DEF vars, Pointed, Answering, PointerInv, ActiveIsReady, JobLeavesServed
<1> HIDE DEF Leaves
<1>5. Pointed /\ Leaves
  BY <1>2, <1>3, <1>4 DEF IngestNext
<1> QED
  BY <1>5 DEF Pointed, PointerInv, Leaves

LEMMA PointerStart ==
  ASSUME IngestInit
  PROVE  PointerInv
<1>1. \A w \in Workers : worker[w].phase = "idle"
  BY DEF IngestInit, Idle
<1>2. \A d \in Docs : docs[d].active = 0
  BY DEF IngestInit, Init
<1> QED
  BY <1>1, <1>2 DEF PointerInv, ActiveIsReady, JobLeavesServed

LEMMA StoreAgrees == IngestSpec => []AllAgree
<1>1. StoreInv => AllAgree
  BY StoreInvIsAllAgree
<1> QED
  BY <1>1, IngestKeepsStore, PTL

LEMMA JobsInvariant == IngestSpec => []JobsInv
BY IngestStart, IngestStep, PTL DEF IngestSpec

\* A document that answers keeps answering until it is removed, whatever one job does
\* at a time, fails or leaves undone.  With two jobs a late commit of an old version
\* can discard the served one, as MCKbIngestLost shows.
THEOREM AnswersStand ==
  ASSUME OneJob
  PROVE  IngestSpec => ServedKeepsAnswering
<1> DEFINE Answers == \A d \in Docs : (Served(d) /\ docs'[d].state = "live") => Served(d)'
<1>1. JobsInv /\ AllAgree /\ PointerInv /\ [IngestNext]_vars => PointerInv' /\ [Answers]_vars
  <2> SUFFICES ASSUME JobsInv, AllAgree, PointerInv, [IngestNext]_vars
               PROVE  PointerInv' /\ Answers
    OBVIOUS
  <2>1. PointerInv' /\ Answering
    BY PointerStep
  <2> QED
    BY <2>1 DEF PointerInv, Answering, ActiveIsReady, Served, Live
<1> QED
  BY <1>1, PointerStart, JobsInvariant, StoreAgrees, PTL DEF IngestSpec, ServedKeepsAnswering

-----------------------------------------------------------------------------
(* The text of a version, with one job and one way to cut a file.            *)

\* Rows a step leaves alone, ends, or writes at one place.
LEMMA RowsBut ==
  ASSUME \A e \in Docs, m \in Numbers : RowIsOfItsText(e, m),
         NEW d \in Docs, NEW n \in Numbers,
         \A e \in Docs, m \in Numbers : ~(e = d /\ m = n) => RowSame(e, m) \/ RowEnds(e, m),
         RowIsOfItsText(d, n)'
  PROVE  \A e \in Docs, m \in Numbers : RowIsOfItsText(e, m)'
<1> TAKE e \in Docs, m \in Numbers
<1>1. CASE e = d /\ m = n
  BY <1>1
<1>2. CASE ~(e = d /\ m = n)
  BY <1>2, SameRowIsOfItsText
<1> QED
  BY <1>1, <1>2

RowsOfTheirText == \A d \in Docs, n \in Numbers : RowIsOfItsText(d, n)

LEMMA EndingRows ==
  ASSUME RowsOfTheirText, \A d \in Docs, n \in Numbers : RowSame(d, n) \/ RowEnds(d, n)
  PROVE  RowsOfTheirText'
BY SameRowIsOfItsText DEF RowsOfTheirText

\* A job that finished knows nothing.
LEMMA IdleKnows ==
  ASSUME JobsInv, NEW w \in Workers, Finish(w)
  PROVE  JobKnowsItsText(worker[w])'
BY FinishIsIdle DEF JobKnowsItsText

\* A number above every row is that of no row.
LEMMA NextIsFresh ==
  ASSUME NEW d \in Docs, NEW n \in Numbers, \A m \in NumbersOf(d) : m < n
  PROVE  versions[d][n].state = "none"
<1>1. n \in Int
  BY DEF Numbers
<1>2. n \notin NumbersOf(d)
  BY <1>1
<1> QED
  BY <1>2 DEF NumbersOf

\* What `begin_version` gives a job: a row of the file it brought.
LEMMA BeginText ==
  ASSUME JobsInv, AllAgree, RowsOfTheirText, NEW w \in Workers, Begin(w)
  PROVE  RowsOfTheirText' /\ JobKnowsItsText(worker[w])'
<1> DEFINE j == worker[w]
<1>1. /\ TypeOK /\ worker \in [Workers -> Job]
      /\ j \in Job /\ j.doc \in Docs /\ j.content \in Contents
  BY DEF Begin, At, JobsInv, JobsHold, Holds, IngestTypeOK
<1>2. PICK d \in Docs, c \in Contents, n \in Numbers :
        /\ d = j.doc /\ c = j.content
        /\ BeginVersion(d, c, j.keep, j.moment, n)
        /\ IF versions[d][n].state = "ready"
           THEN Finish(w)
           ELSE worker' = [worker EXCEPT ![w].phase = "extract", ![w].number = n]
  BY <1>1 DEF Begin
<1>3. chunks' = chunks /\ versions[d][n] \in VersionRow
  BY <1>1, <1>2 DEF BeginVersion, TypeOK
<1>4. ASSUME versions[d][n].state = "ready", ReopenVersion(d, c, j.moment, n)
      PROVE  RowsOfTheirText' /\ JobKnowsItsText(worker[w])'
  <2>1. \A e \in Docs, m \in Numbers : RowSame(e, m)
    BY <1>3, <1>4 DEF ReopenVersion, RowSame
  <2>2. Finish(w)
    BY <1>2, <1>4
  <2> QED
    BY <2>1, <2>2, EndingRows, IdleKnows
<1>5. ASSUME /\ versions'[d][n].state = "processing" /\ versions'[d][n].content = c
             /\ drafts'[d][n] = {} /\ \A p \in PlansOf[c] : chunks[d][n] \subseteq p
             /\ \A e \in Docs, m \in Numbers : ~(e = d /\ m = n) => RowSame(e, m),
             versions[d][n].state # "ready"
      PROVE  RowsOfTheirText' /\ JobKnowsItsText(worker[w])'
  <2>1. RowIsOfItsText(d, n)'
    BY <1>3, <1>5 DEF RowIsOfItsText
  <2>2. RowsOfTheirText'
    BY <1>5, <2>1, RowsBut DEF RowsOfTheirText
  <2>3. /\ worker'[w].phase = "extract" /\ worker'[w].doc = d
        /\ worker'[w].number = n /\ worker'[w].content = c
    BY <1>1, <1>2, <1>5 DEF Job
  <2>4. JobKnowsItsText(worker[w])'
    BY <1>5, <2>3 DEF JobKnowsItsText
  <2> QED
    BY <2>2, <2>4
<1>6. ASSUME versions[d][n].state # "ready", ReopenVersion(d, c, j.moment, n)
      PROVE  RowsOfTheirText' /\ JobKnowsItsText(worker[w])'
  <2>1. /\ versions' = [versions EXCEPT ![d][n] = [versions[d][n] EXCEPT
              !.state = "processing", !.reason = "", !.claimed = j.moment]]
        /\ drafts' = [drafts EXCEPT ![d][n] = {}]
        /\ versions[d][n].content = c
        /\ versions[d][n].state # "none"
    BY <1>6 DEF ReopenVersion, NumbersOf
  <2>2. versions'[d][n].state = "processing" /\ versions'[d][n].content = c
    BY <1>1, <1>3, <2>1 DEF TypeOK, VersionRow
  <2>3. /\ drafts'[d][n] = {}
        /\ \A e \in Docs, m \in Numbers : ~(e = d /\ m = n) => RowSame(e, m)
    BY <1>1, <1>3, <2>1 DEF TypeOK, RowSame
  <2>4. \A p \in PlansOf[c] : chunks[d][n] \subseteq p
    BY <2>1 DEF RowsOfTheirText, RowIsOfItsText
  <2> QED
    BY <1>5, <1>6, <2>2, <2>3, <2>4
<1>7. ASSUME NewVersion(d, c, j.moment, n)
      PROVE  RowsOfTheirText' /\ JobKnowsItsText(worker[w])'
  <2>1. versions[d][n].state = "none"
    BY <1>7, NextIsFresh DEF NewVersion, IsNextNumber
  <2>2. chunks[d][n] = {} /\ drafts[d][n] = {}
    BY <2>1 DEF AllAgree, Agree
  <2>3. /\ versions'[d][n].state = "processing" /\ versions'[d][n].content = c
        /\ \A e \in Docs, m \in Numbers :
             ~(e = d /\ m = n) => versions'[e][m] = versions[e][m]
    BY <1>1, <1>7 DEF TypeOK, NewVersion
  <2>4. drafts' = drafts
    BY <1>7 DEF NewVersion
  <2>5. \A e \in Docs, m \in Numbers : ~(e = d /\ m = n) => RowSame(e, m)
    BY <1>3, <2>3, <2>4 DEF RowSame
  <2> QED
    BY <1>5, <2>1, <2>2, <2>3, <2>4, <2>5
<1> QED
  BY <1>2, <1>4, <1>6, <1>7 DEF BeginVersion

LEMMA ParkText ==
  ASSUME JobsInv, RowsOfTheirText, NEW w \in Workers, JobKnowsItsText(worker[w]), Park(w)
  PROVE  RowsOfTheirText' /\ JobKnowsItsText(worker[w])'
<1> DEFINE j == worker[w]
<1>1. TypeOK /\ j.doc \in Docs /\ j.number \in Numbers /\ j.phase = "extract"
  BY DEF Park, At, JobsInv, JobsHold, Holds, IngestTypeOK
<1>2. PICK d \in Docs, n \in Numbers, plan \in PlansOf[j.content] :
        d = j.doc /\ n = j.number /\ SaveDraft(d, n, plan, j.moment + DraftTtl)
  BY <1>1 DEF Park
<1>3. /\ versions[d][n] \in VersionRow /\ versions[d][n].state = "processing"
      /\ chunks' = chunks
  BY <1>1, <1>2 DEF TypeOK, SaveDraft, Processing
<1>4. versions[d][n].content = j.content
  BY <1>1, <1>2, <1>3 DEF JobKnowsItsText
<1>5. /\ versions'[d][n].state = "awaiting_confirmation"
      /\ versions'[d][n].content = versions[d][n].content
      /\ drafts'[d][n] = plan
      /\ \A e \in Docs, m \in Numbers : ~(e = d /\ m = n) => RowSame(e, m)
  BY <1>1, <1>2, <1>3 DEF TypeOK, SaveDraft, VersionRow, RowSame
<1>6. RowIsOfItsText(d, n)
  BY DEF RowsOfTheirText
<1>7. RowIsOfItsText(d, n)'
  BY <1>2, <1>3, <1>4, <1>5, <1>6 DEF RowIsOfItsText
<1> QED
  BY <1>5, <1>7, RowsBut, IdleKnows DEF RowsOfTheirText, Park

LEMMA ClaimText ==
  ASSUME JobsInv, AllAgree, OnePlan, RowsOfTheirText, NEW w \in Workers, Claim(w)
  PROVE  RowsOfTheirText' /\ JobKnowsItsText(worker[w])'
<1> DEFINE j == worker[w]
<1>1. /\ TypeOK /\ worker \in [Workers -> Job] /\ j \in Job
      /\ j.doc \in Docs /\ j.number \in Numbers
  BY DEF Claim, At, JobsInv, JobsHold, Holds, IngestTypeOK
<1>2. PICK d \in Docs, n \in Numbers, plan \in SUBSET Ordinals :
        /\ d = j.doc /\ n = j.number /\ plan = drafts[d][n]
        /\ ClaimDraft(d, n, j.moment)
        /\ worker' = [worker EXCEPT ![w].phase = "embed", ![w].plan = plan, ![w].left = plan]
  <2>1. drafts[j.doc][j.number] \in SUBSET Ordinals
    BY <1>1 DEF TypeOK
  <2> QED
    BY <1>1, <2>1 DEF Claim
<1>3. /\ versions[d][n] \in VersionRow /\ versions[d][n].state = "awaiting_confirmation"
      /\ chunks' = chunks /\ plan # {}
  BY <1>1, <1>2 DEF TypeOK, ClaimDraft, AllAgree, Agree
<1>4. /\ versions'[d][n].state = "processing"
      /\ versions'[d][n].content = versions[d][n].content
      /\ drafts'[d][n] = {}
      /\ \A e \in Docs, m \in Numbers : ~(e = d /\ m = n) => RowSame(e, m)
  BY <1>1, <1>2, <1>3 DEF TypeOK, ClaimDraft, VersionRow, RowSame
<1>5. RowIsOfItsText(d, n)
  BY DEF RowsOfTheirText
<1>6. RowIsOfItsText(d, n)'
  BY <1>3, <1>4, <1>5 DEF RowIsOfItsText
<1>7. plan \in PlansOf[versions[d][n].content]
  BY <1>2, <1>3, <1>5 DEF RowIsOfItsText
<1>8. /\ worker'[w].phase = "embed" /\ worker'[w].doc = d /\ worker'[w].number = n
      /\ worker'[w].plan = plan /\ worker'[w].left = plan
  BY <1>1, <1>2 DEF Job
<1>9. JobKnowsItsText(worker[w])'
  BY <1>4, <1>7, <1>8 DEF JobKnowsItsText
<1> QED
  BY <1>4, <1>6, <1>9, RowsBut DEF RowsOfTheirText

\* A batch is of the plan, and with one way to cut a file so is the row.
LEMMA StageText ==
  ASSUME JobsInv, OnePlan, RowsOfTheirText, NEW w \in Workers,
         JobKnowsItsText(worker[w]), Stage(w)
  PROVE  RowsOfTheirText' /\ JobKnowsItsText(worker[w])'
<1> DEFINE j == worker[w]
<1>1. /\ TypeOK /\ worker \in [Workers -> Job] /\ j \in Job
      /\ j.doc \in Docs /\ j.number \in Numbers /\ j.phase \in {"embed", "stage"}
  BY DEF Stage, At, JobsInv, JobsHold, Holds, IngestTypeOK
<1> DEFINE plan == j.plan
<1> DEFINE left == j.left
<1> DEFINE batch == NextBatch(left)
<1>2. PICK d \in Docs, n \in Numbers :
        /\ d = j.doc /\ n = j.number
        /\ AddChunks(d, n, batch)
        /\ worker' = [worker EXCEPT ![w].left = left \ batch,
                 ![w].phase = IF left \ batch = {} THEN "swap" ELSE "stage"]
  BY <1>1 DEF Stage
<1>10. batch \subseteq left
  BY DEF NextBatch
<1> HIDE DEF batch
<1>3. /\ versions' = versions /\ drafts' = drafts
      /\ versions[d][n].state = "processing"
      /\ chunks'[d][n] = chunks[d][n] \cup batch
      /\ \A e \in Docs, m \in Numbers : ~(e = d /\ m = n) => chunks'[e][m] = chunks[e][m]
  BY <1>1, <1>2 DEF TypeOK, AddChunks, Processing
<1>4. /\ plan \in PlansOf[versions[d][n].content] /\ left \subseteq plan
      /\ plan \ left \subseteq chunks[d][n]
  BY <1>1, <1>2, <1>3 DEF JobKnowsItsText
<1>5. RowIsOfItsText(d, n)
  BY DEF RowsOfTheirText
<1>6. RowIsOfItsText(d, n)'
  <2>1. \A p \in PlansOf[versions[d][n].content] : batch \subseteq p
    <3>1. versions[d][n].content \in Contents
      BY <1>3, <1>5 DEF RowIsOfItsText
    <3>2. \A p \in PlansOf[versions[d][n].content] : p = plan
      BY <1>4, <3>1 DEF OnePlan
    <3> QED
      BY <1>4, <1>10, <3>2
  <2> QED
    BY <1>3, <1>5, <2>1 DEF RowIsOfItsText
<1>7. \A e \in Docs, m \in Numbers : ~(e = d /\ m = n) => RowSame(e, m)
  BY <1>3 DEF RowSame
<1>8. /\ worker'[w].doc = d /\ worker'[w].number = n
      /\ worker'[w].plan = plan /\ worker'[w].left = left \ batch
      /\ worker'[w].phase = IF left \ batch = {} THEN "swap" ELSE "stage"
  BY <1>1, <1>2 DEF Job
<1>9. JobKnowsItsText(worker[w])'
  <2>1. left \ batch \subseteq plan /\ plan \ (left \ batch) \subseteq chunks'[d][n]
    BY <1>3, <1>4
  <2> QED
    BY <1>3, <1>4, <1>8, <2>1 DEF JobKnowsItsText
<1> QED
  BY <1>6, <1>7, <1>9, RowsBut DEF RowsOfTheirText

\* What a commit serves is what its job claimed, whole.
LEMMA SwapText ==
  ASSUME JobsInv, AllAgree, OnePlan, RowsOfTheirText, NEW w \in Workers,
         JobKnowsItsText(worker[w]), Swap(w)
  PROVE  /\ RowsOfTheirText' /\ JobKnowsItsText(worker[w])'
         /\ versions'[worker[w].doc][worker[w].number].state = "ready" =>
              chunks'[worker[w].doc][worker[w].number] = worker[w].plan
<1> DEFINE j == worker[w]
<1>1. TypeOK /\ j.doc \in Docs /\ j.number \in Numbers /\ j.phase = "swap"
  BY DEF Swap, At, JobsInv, JobsHold, Holds, IngestTypeOK
<1>2. PICK d \in Docs, n \in Numbers : d = j.doc /\ n = j.number /\ CommitVersion(d, n)
  BY <1>1 DEF Swap
<1>3. JobKnowsItsText(worker[w])'
  BY IdleKnows DEF Swap
<1> DEFINE Gone(e, m) == /\ versions'[e][m] = NoVersion
                         /\ chunks'[e][m] = {} /\ drafts'[e][m] = {}
<1>4. \A e, m : Gone(e, m) => RowEnds(e, m)
  BY NoVersionIsRow DEF RowEnds
<1>5. CASE CommitSuperseded(d, n)
  <2>1. \A e \in Docs, m \in Numbers : ~(e = d /\ m = n) => RowSame(e, m)
    BY <1>1, <1>5 DEF TypeOK, CommitSuperseded, DropVersions, RowSame
  <2>2. Gone(d, n)
    BY <1>1, <1>5 DEF TypeOK, CommitSuperseded, DropVersions
  <2>3. RowsOfTheirText'
    BY <1>4, <2>1, <2>2, EndingRows
  <2> QED
    BY <1>2, <1>3, <2>2, <2>3, NoVersionIsRow
<1>6. CASE CommitReady(d, n)
  <2>1. n \in Int /\ \A m \in Numbers : m \in Int
    BY DEF Numbers
  <2>2. \A e \in Docs, m \in Numbers : e # d => RowSame(e, m)
    BY <1>1, <1>6 DEF TypeOK, CommitReady, DropVersions, RowSame
  <2>3. /\ versions'[d] = [m \in Numbers |->
             IF m = n THEN [versions[d][n] EXCEPT !.state = "ready", !.reason = ""]
             ELSE IF m < n THEN NoVersion ELSE versions[d][m]]
        /\ chunks'[d] = [m \in Numbers |->
             IF m \in {k \in NumbersOf(d) : k < n} THEN {} ELSE chunks[d][m]]
        /\ drafts'[d] = [m \in Numbers |->
             IF m \in {k \in NumbersOf(d) : k < n} THEN {} ELSE drafts[d][m]]
    BY <1>1, <1>6 DEF TypeOK, CommitReady, DropVersions
  <2>4. ASSUME NEW m \in Numbers, m # n PROVE RowSame(d, m) \/ RowEnds(d, m)
    <3>1. CASE m < n
      <4>1. m \notin NumbersOf(d) => chunks[d][m] = {} /\ drafts[d][m] = {}
        BY DEF NumbersOf, AllAgree, Agree
      <4>2. Gone(d, m)
        BY <2>3, <2>4, <3>1, <4>1
      <4> QED
        BY <1>4, <4>2
    <3>2. CASE ~(m < n)
      BY <2>3, <2>4, <3>2 DEF RowSame
    <3> QED
      BY <3>1, <3>2
  <2>5. /\ versions[d][n] \in VersionRow /\ versions[d][n].state = "processing"
    BY <1>1, <1>6 DEF TypeOK, CommitReady, Processing
  <2>6. /\ versions'[d][n].state = "ready" /\ versions'[d][n].content = versions[d][n].content
        /\ chunks'[d][n] = chunks[d][n] /\ drafts'[d][n] = drafts[d][n]
    <3>1. n \notin {k \in NumbersOf(d) : k < n}
      BY <2>1
    <3>2. versions'[d][n] = [versions[d][n] EXCEPT !.state = "ready", !.reason = ""]
      BY <2>3
    <3>3. chunks'[d][n] = chunks[d][n] /\ drafts'[d][n] = drafts[d][n]
      BY <2>3, <3>1
    <3> QED
      BY <2>5, <3>2, <3>3 DEF VersionRow
  <2>7. RowIsOfItsText(d, n)
    BY DEF RowsOfTheirText
  <2>8. chunks[d][n] = j.plan /\ j.plan \in PlansOf[versions[d][n].content]
    <3>1. /\ j.plan \in PlansOf[versions[d][n].content]
          /\ j.left = {} /\ j.plan \ j.left \subseteq chunks[d][n]
      BY <1>1, <1>2, <2>5 DEF JobKnowsItsText
    <3>2. chunks[d][n] \subseteq j.plan
      BY <2>5, <2>7, <3>1 DEF RowIsOfItsText
    <3> QED
      BY <3>1, <3>2
  <2>9. RowIsOfItsText(d, n)'
    BY <2>5, <2>6, <2>7, <2>8 DEF RowIsOfItsText
  <2>10. RowsOfTheirText'
    BY <2>2, <2>4, <2>9, RowsBut DEF RowsOfTheirText
  <2> QED
    BY <1>2, <1>3, <2>6, <2>8, <2>10
<1> QED
  BY <1>2, <1>5, <1>6 DEF CommitVersion

-----------------------------------------------------------------------------
(* One job: the texts of the versions, from start to end.                    *)

LEMMA StartText ==
  ASSUME JobsInv, NEW w \in Workers, Start(w)
  PROVE  JobKnowsItsText(worker[w])'
<1>1. worker \in [Workers -> Job]
  BY DEF JobsInv, IngestTypeOK
<1>2. worker'[w].phase \in {"begin", "claim"}
  BY <1>1 DEF Start, Prepare, Reindex, StartJob, Confirm, Idle
<1> QED
  BY <1>2 DEF JobKnowsItsText

LEMMA WorkText ==
  ASSUME OnePlan, JobsInv, AllAgree, RowsOfTheirText, NEW w \in Workers,
         JobKnowsItsText(worker[w]), Start(w) \/ Work(w) \/ Crash(w)
  PROVE  RowsOfTheirText' /\ JobKnowsItsText(worker[w])'
<1>1. ASSUME UNCHANGED storeVars PROVE RowsOfTheirText'
  BY <1>1, EndingRows DEF RowSame, storeVars
<1>2. ASSUME Finish(w), UNCHANGED storeVars
      PROVE  RowsOfTheirText' /\ JobKnowsItsText(worker[w])'
  BY <1>1, <1>2, IdleKnows
<1>3. ASSUME Start(w) PROVE RowsOfTheirText' /\ JobKnowsItsText(worker[w])'
  BY <1>1, <1>3, StartHolds, StartText
<1>4. ASSUME Fail(w) PROVE RowsOfTheirText' /\ JobKnowsItsText(worker[w])'
  <2>1. TypeOK /\ worker[w].doc \in Docs /\ worker[w].number \in Numbers
    BY <1>4 DEF Fail, FailReasonsOf, JobsInv, JobsHold, Holds, IngestTypeOK
  <2>2. PICK d \in Docs, n \in Numbers, reason \in FailReasonsOf(worker[w].phase) :
          FailVersion(d, n, reason)
    BY <1>4, <2>1 DEF Fail
  <2>3. /\ {<<d, n>>} \in SUBSET (Docs \X Numbers)
        /\ \A v \in {<<d, n>>} : versions[v[1]][v[2]].state # "none"
    BY <2>2 DEF FailVersion
  <2>4. EndVersions({<<d, n>>}, reason)
    BY <2>2 DEF FailVersion
  <2>5. RowsOfTheirText'
    BY <2>1, <2>3, <2>4, EndVersionsRows, EndingRows
  <2> QED
    BY <1>4, <2>5, IdleKnows DEF Fail
<1> QED
  BY <1>2, <1>3, <1>4, BeginText, ParkText, ClaimText, StageText, SwapText
     DEF Work, Crash, BeginDeleted, ParkRefused, ClaimRefused, StageRefused, SwapRefused,
         FailRefused

LEMMA HostText ==
  ASSUME JobsInv, TextInv, HostNext, UNCHANGED worker
  PROVE  TextInv'
<1>1. TypeOK
  BY DEF JobsInv, IngestTypeOK
<1>2. \A d \in Docs, n \in Numbers : RowSame(d, n) \/ RowEnds(d, n)
  BY <1>1, HostRows
<1>3. RowsOfTheirText'
  BY <1>2, EndingRows DEF TextInv, RowsOfTheirText
<1>4. ASSUME NEW w \in Workers PROVE JobKnowsItsText(worker[w])'
  <2>1. /\ JobKnowsItsText(worker[w]) /\ Holds(worker[w], clock)
        /\ worker[w].phase \in Phases /\ worker'[w] = worker[w]
    BY DEF TextInv, JobsInv, JobsHold, IngestTypeOK, Job
  <2>2. PICK k : k = worker[w]
    OBVIOUS
  <2>3. k.phase \in {"idle", "begin"} \/ RowSame(k.doc, k.number) \/ RowEnds(k.doc, k.number)
    BY <1>2, <2>1, <2>2 DEF Holds, Phases
  <2>4. JobKnowsItsText(k)
    BY <2>1, <2>2
  <2>5. JobKnowsItsText(k)'
    BY <2>3, <2>4, SameJobKnows
  <2> QED
    BY <2>1, <2>2, <2>5 DEF JobKnowsItsText
<1> QED
  BY <1>3, <1>4 DEF TextInv, RowsOfTheirText

LEMMA TextStep ==
  ASSUME OneJob, OnePlan, JobsInv, AllAgree, TextInv, [IngestNext]_vars
  PROVE  TextInv'
<1>1. ASSUME NEW w \in Workers, Start(w) \/ Work(w) \/ Crash(w) PROVE TextInv'
  <2>1. RowsOfTheirText /\ JobKnowsItsText(worker[w])
    BY DEF TextInv, RowsOfTheirText
  <2>2. RowsOfTheirText' /\ JobKnowsItsText(worker[w])'
    BY <1>1, <2>1, WorkText
  <2> QED
    BY <2>2 DEF OneJob, TextInv, RowsOfTheirText
<1>2. ASSUME UNCHANGED vars PROVE TextInv'
  BY <1>2 DEF vars, TextInv, RowIsOfItsText, JobKnowsItsText
<1> QED
  BY <1>1, <1>2, HostText DEF IngestNext

LEMMA TextStart ==
  ASSUME IngestInit
  PROVE  TextInv
<1>1. \A w \in Workers : worker[w].phase = "idle"
  BY DEF IngestInit, Idle
<1>2. \A d \in Docs, n \in Numbers :
        versions[d][n] = NoVersion /\ drafts[d][n] = {}
  BY DEF IngestInit, Init
<1> QED
  BY <1>1, <1>2, NoVersionIsRow DEF TextInv, RowIsOfItsText, JobKnowsItsText

LEMMA TextInvariant ==
  ASSUME OneJob, OnePlan
  PROVE  IngestSpec => []TextInv
BY TextStart, TextStep, JobsInvariant, StoreAgrees, PTL DEF IngestSpec

\* With one job at a time and one way to cut a file, what is served is whole.  Two
\* jobs on one version leave it in parts (MCKbIngestTwoJobs), and a second way to cut
\* the file leaves chunks of the one text in the other (MCKbIngestLeftover).
THEOREM TextsAreWhole ==
  ASSUME OneJob, OnePlan
  PROVE  IngestSpec => []ServedIsWhole
<1>1. TextInv => ServedIsWhole
  BY DEF TextInv, RowIsOfItsText, ServedIsWhole
<1> QED
  BY <1>1, TextInvariant, PTL

-----------------------------------------------------------------------------
(* One job at a time implements KbServing.                                   *)

Texts      == UNION {PlansOf[c] : c \in Contents}
PresentNow == {d \in Docs : docs[d].state = "live"}
Answers    == [d \in Docs |-> AnsweredWith(d)]

\* With one job a document answers exactly when it points to a version.
AnswersAsPointed ==
  \A d \in Docs :
    /\ docs[d].active # 0 => docs[d].active \in Numbers /\ Live(d)
                            /\ versions[d][docs[d].active].state = "ready"
    /\ AnsweredWith(d) = IF docs[d].active # 0
                         THEN [version |-> docs[d].active, text |-> chunks[d][docs[d].active]]
                         ELSE [version |-> 0, text |-> {}]

LEMMA AnswerOf == TypeOK /\ AllAgree /\ PointerInv => AnswersAsPointed
<1> SUFFICES ASSUME TypeOK, AllAgree, PointerInv, NEW d \in Docs
             PROVE  /\ docs[d].active # 0 => docs[d].active \in Numbers /\ Live(d)
                                     /\ versions[d][docs[d].active].state = "ready"
                    /\ AnsweredWith(d) =
                         IF docs[d].active # 0
                         THEN [version |-> docs[d].active, text |-> chunks[d][docs[d].active]]
                         ELSE [version |-> 0, text |-> {}]
  BY DEF AnswersAsPointed
<1>1. docs[d].active # 0 => docs[d].active \in Numbers
  BY BoundsAssumption DEF TypeOK, DocRow, Numbers
<1>2. ASSUME docs[d].active # 0 PROVE Live(d) /\ versions[d][docs[d].active].state = "ready"
  BY <1>1, <1>2 DEF PointerInv, ActiveIsReady, AllAgree, Agree
<1> QED
  BY <1>1, <1>2 DEF AnsweredWith, Served

\* A step that leaves a document's pointer and the text it points to leaves its answer.
LEMMA SameAnswer ==
  ASSUME AnswersAsPointed, AnswersAsPointed', NEW d \in Docs,
         docs'[d].active = docs[d].active,
         docs[d].active # 0 => chunks'[d][docs[d].active] = chunks[d][docs[d].active]
  PROVE  AnsweredWith(d)' = AnsweredWith(d)
BY DEF AnswersAsPointed

LEMMA CreateIsCreate ==
  ASSUME TypeOK, AnswersAsPointed, AnswersAsPointed', NEW d \in Docs, CreateDocument(d)
  PROVE  Serving!ServingNext
<1>1. PresentNow' = PresentNow \cup {d} /\ d \notin PresentNow
  BY DEF TypeOK, DocRow, CreateDocument, PresentNow
<1>2. \A e \in Docs : docs'[e].active = docs[e].active /\ chunks'[e] = chunks[e]
  BY DEF TypeOK, DocRow, CreateDocument
<1>3. Answers' = Answers
  BY <1>2, SameAnswer DEF Answers
<1> QED
  BY <1>1, <1>3 DEF PresentNow, Answers, Serving!ServingNext, Serving!Create

LEMMA RemoveIsWithdraw ==
  ASSUME TypeOK, AnswersAsPointed, AnswersAsPointed', NEW S \in SUBSET Docs, NEW kind,
         Remove(S, kind)
  PROVE  Serving!ServingNext
<1> PICK W \in SUBSET PresentNow : W = S \cap PresentNow
  OBVIOUS
<1>1. \A d \in Docs : d \in S => docs'[d].state = "gone" /\ docs'[d].active = 0
  BY DEF Remove
<1>2. \A d \in Docs : d \notin S => docs'[d] = docs[d] /\ chunks'[d] = chunks[d]
  BY DEF Remove
<1>3. PresentNow' = PresentNow \ W
  BY <1>1, <1>2 DEF PresentNow
<1>4. ASSUME NEW d \in Docs
      PROVE  AnsweredWith(d)' = IF d \in W THEN [version |-> 0, text |-> {}] ELSE AnsweredWith(d)
  <2>1. CASE d \notin S
    BY <1>2, <2>1, SameAnswer
  <2>2. CASE d \in S
    <3>1. AnsweredWith(d)' = [version |-> 0, text |-> {}]
      BY <1>1, <2>2 DEF AnswersAsPointed
    <3>2. d \notin PresentNow => AnsweredWith(d) = [version |-> 0, text |-> {}]
      BY DEF PresentNow, AnsweredWith, Served, Live
    <3> QED
      BY <2>2, <3>1, <3>2
  <2> QED
    BY <2>1, <2>2
<1>5. Answers' = [d \in Docs |-> IF d \in W THEN [version |-> 0, text |-> {}] ELSE Answers[d]]
  BY <1>4 DEF Answers
<1>6. Serving!Withdraw(W)
  BY <1>3, <1>5 DEF PresentNow, Answers, Serving!Withdraw, Serving!Nothing
<1> QED
  BY <1>6 DEF PresentNow, Serving!ServingNext

LEMMA KeepsIsNoStep ==
  ASSUME AnswersAsPointed, AnswersAsPointed', Keeps
  PROVE  PresentNow' = PresentNow /\ Answers' = Answers
<1>1. docs' = docs
  BY DEF Keeps
<1>2. ASSUME NEW d \in Docs PROVE AnsweredWith(d)' = AnsweredWith(d)
  BY <1>1, SameAnswer DEF AnswersAsPointed, Keeps
<1> QED
  BY <1>1, <1>2 DEF PresentNow, Answers

LEMMA SupersededIsNoStep ==
  ASSUME TypeOK, AnswersAsPointed, AnswersAsPointed', NEW d \in Docs, NEW n \in Numbers,
         versions[d][n].state # "ready", CommitSuperseded(d, n)
  PROVE  PresentNow' = PresentNow /\ Answers' = Answers
<1>1. docs' = docs
  BY DEF CommitSuperseded
<1>2. \A e \in Docs, m \in Numbers : ~(e = d /\ m = n) => chunks'[e][m] = chunks[e][m]
  BY DEF TypeOK, CommitSuperseded, DropVersions
<1>3. ASSUME NEW e \in Docs PROVE AnsweredWith(e)' = AnsweredWith(e)
  <2>1. docs[e].active # 0 => docs[e].active \in Numbers /\ ~(e = d /\ docs[e].active = n)
    BY DEF AnswersAsPointed
  <2> QED
    BY <1>1, <1>2, <2>1, SameAnswer
<1> QED
  BY <1>1, <1>3 DEF PresentNow, Answers

LEMMA ReadyIsPublish ==
  ASSUME TypeOK, AnswersAsPointed, AnswersAsPointed', NEW d \in Docs, NEW n \in Numbers,
         RowIsOfItsText(d, n)', CommitReady(d, n)
  PROVE  Serving!ServingNext
<1>1. /\ d \in PresentNow /\ IsNewest(d, n) /\ versions[d][n].state = "processing"
  BY DEF CommitReady, Processing, Live, PresentNow
<1>2. /\ docs'[d].active = n /\ docs'[d].state = docs[d].state
      /\ \A e \in Docs : e # d => docs'[e] = docs[e] /\ chunks'[e] = chunks[e]
  BY DEF TypeOK, DocRow, CommitReady, DropVersions
<1>3. PresentNow' = PresentNow
  BY <1>2 DEF PresentNow
<1>4. n # 0 /\ n \in Int
  BY DEF Numbers
<1>5. AnsweredWith(d)' = [version |-> n, text |-> chunks'[d][n]]
  BY <1>2, <1>4 DEF AnswersAsPointed
<1>6. \A e \in Docs : e # d => AnsweredWith(e)' = AnsweredWith(e)
  BY <1>2, SameAnswer
<1>7. chunks'[d][n] \in Texts
  <2>1. versions'[d][n].state = "ready"
    BY <1>2, <1>4 DEF AnswersAsPointed
  <2> QED
    BY <2>1 DEF RowIsOfItsText, Texts
<1>8. n > AnsweredWith(d).version
  <2>1. CASE docs[d].active = 0
    <3>1. AnsweredWith(d).version = 0
      BY <2>1 DEF AnswersAsPointed
    <3> QED
      BY <3>1 DEF Numbers
  <2>2. CASE docs[d].active # 0
    <3>1. /\ docs[d].active \in Numbers /\ versions[d][docs[d].active].state = "ready"
          /\ AnsweredWith(d).version = docs[d].active
      BY <2>2 DEF AnswersAsPointed
    <3>2. docs[d].active <= n /\ docs[d].active # n
      BY <1>1, <3>1 DEF IsNewest, NumbersOf
    <3> QED
      BY <1>4, <3>1, <3>2 DEF Numbers
  <2> QED
    BY <2>1, <2>2
<1>9. Answers' = [Answers EXCEPT ![d] = [version |-> n, text |-> chunks'[d][n]]]
  BY <1>5, <1>6 DEF Answers
<1>10. n > Answers[d].version
  BY <1>8 DEF Answers
<1>11. Serving!Publish(d)
  BY <1>1, <1>3, <1>7, <1>9, <1>10
     DEF PresentNow, Answers, Texts, Numbers, Serving!Publish
<1> QED
  BY <1>11 DEF Serving!ServingNext

LEMMA ServingStep ==
  ASSUME OneJob, JobsInv, AllAgree, PointerInv, TextInv',
         AnswersAsPointed, AnswersAsPointed', [IngestNext]_vars
  PROVE  Serving!ServingNext \/ (PresentNow' = PresentNow /\ Answers' = Answers)
<1> DEFINE Goal == Serving!ServingNext \/ (PresentNow' = PresentNow /\ Answers' = Answers)
<1>1. TypeOK
  BY DEF JobsInv, IngestTypeOK
<1>2. ASSUME NEW w \in Workers, Start(w) \/ Work(w) \/ Crash(w) PROVE Goal
  <2>1. ASSUME At(w, "swap"), NEW d \in Docs, NEW n \in Numbers,
               d = worker[w].doc, n = worker[w].number, CommitVersion(d, n)
        PROVE  Goal
    <3>1. versions[d][n].state # "ready"
      BY <2>1 DEF At, PointerInv, JobLeavesServed
    <3>2. RowIsOfItsText(d, n)'
      BY DEF TextInv
    <3> QED
      BY <1>1, <2>1, <3>1, <3>2, SupersededIsNoStep, ReadyIsPublish DEF CommitVersion
  <2> HIDE DEF Goal
  <2>2. Keeps => Goal
    BY KeepsIsNoStep DEF Goal
  <2> QED
    BY <1>2, <2>1, <2>2, WorkKinds
<1>3. ASSUME HostNext PROVE Goal
  BY <1>1, <1>3, HostKinds, CreateIsCreate, RemoveIsWithdraw, KeepsIsNoStep
<1>4. ASSUME UNCHANGED vars PROVE Goal
  BY <1>4 DEF vars, PresentNow, Answers, AnsweredWith, Served, Live
<1> QED
  BY <1>2, <1>3, <1>4 DEF IngestNext

\* One job at a time, and one way to cut a file: readers see the abstract document
\* store of KbServing, through failures, crashes, sweeps, discards and removals.
THEOREM IngestImplementsServing ==
  ASSUME OneJob, OnePlan
  PROVE  IngestSpec => ReadersSeeServing
<1>1. IngestInit => Serving!ServingInit
  BY DEF IngestInit, Init, AnsweredWith, Served, Live, Serving!ServingInit, Serving!Nothing
<1>2. JobsInv /\ AllAgree /\ PointerInv => AnswersAsPointed
  BY AnswerOf DEF JobsInv, IngestTypeOK
<1>3. OneJob /\ JobsInv /\ AllAgree /\ PointerInv /\ TextInv' /\ AnswersAsPointed
        /\ AnswersAsPointed' /\ [IngestNext]_vars =>
          [Serving!ServingNext]_(Serving!servingVars)
  BY ServingStep DEF PresentNow, Answers, Serving!servingVars
<1>4. JobsInv /\ AllAgree /\ PointerInv /\ [IngestNext]_vars => PointerInv'
  BY PointerStep
<1> QED
  BY <1>1, <1>2, <1>3, <1>4, PointerStart, JobsInvariant, StoreAgrees, TextInvariant, PTL
     DEF IngestSpec, ReadersSeeServing, Serving!ServingSpec
=============================================================================
