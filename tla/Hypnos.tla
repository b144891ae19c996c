------------------------------- MODULE Hypnos -------------------------------
(***************************************************************************)
(* Sleep-time consolidation (hypnos.py) over the tables of Conversations:  *)
(* the host's janitor scans `idle_sessions` and runs `consolidate_session` *)
(* on what it finds, its turns call `periodic_consolidate`, and meanwhile  *)
(* turns are saved, feedback arrives, scopes are cleaned up and purged.    *)
(*                                                                         *)
(* A consolidation has three calls with time between them: it loads the    *)
(* turns, waits for the model and saves what it extracted, and closes the  *)
(* session.  The embedding calls belong to the wait, as does the pruning   *)
(* of graph edges, which touches nothing here.                             *)
(***************************************************************************)
EXTENDS Conversations, FiniteSetsExt

CONSTANTS
  Janitors,     (* Workers of the host's loop over idle sessions.          *)
  Callers,      (* Turns that consolidate every so often.                  *)
  Limit,        (* How many sessions one scan returns.                     *)
  Locking,      (* The host holds session_lock around both its turns and   *)
                (* its consolidations; the library leaves it the choice.   *)
  MaxFaults     (* Bounds the model: how often a consolidation fails.      *)

ASSUME HypnosAssumption ==
  /\ Limit \in Nat \ {0}
  /\ Locking \in BOOLEAN
  /\ MaxFaults \in Nat

VARIABLES
  jobs,         (* Per janitor and caller: the consolidation it runs.      *)
  known,        (* Per scope: the turns of consolidations that completed    *)
                (* and whose close was taken; history.                     *)
  faults        (* How many consolidations have failed.                    *)

hypnosVars == <<turns, sessions, memories, saves, lost, purge, erased, clock,
                jobs, known, faults>>

Groups == Scopes \X Ids

\* idle: between scans; pick: sessions of the scan are left; think: the turns
\* are loaded; close: what was extracted is saved.
Job == [phase : {"idle", "pick", "think", "close"}, todo : SUBSET Groups,
        on : Groups \cup {<<>>}, close : BOOLEAN, read : SUBSET Nat, liked : SUBSET Nat]

NoJob == [phase |-> "idle", todo |-> {}, on |-> <<>>, close |-> FALSE, read |-> {},
          liked |-> {}]

HypnosTypeOK ==
  /\ ConvTypeOK
  /\ jobs \in [Janitors \cup Callers -> Job]
  /\ known \in [Scopes -> SUBSET Nat]
  /\ faults \in Nat

HypnosInit ==
  /\ ConvInit
  /\ jobs = [j \in Janitors \cup Callers |-> NoJob]
  /\ known = [s \in Scopes |-> {}]
  /\ faults = 0

-----------------------------------------------------------------------------
(* session_lock *)

SavingTo(g)      == \E w \in Writers : Saving(w) /\ <<saves[w].scope, saves[w].id>> = g
Consolidating(g) == \E j \in Janitors \cup Callers : jobs[j].on = g

\* Slip: a turn does not hold the lock.
MayEnterASavedOne(g) == Locking => ~Consolidating(g)

\* Slip: a consolidation does not hold the lock.
MayEnterAReadOne(g) == Locking => ~SavingTo(g)

\* Nobody else is between the two ends of a turn, or of a consolidation.
MayEnter(g) == Locking => ~SavingTo(g) /\ ~Consolidating(g)

-----------------------------------------------------------------------------
(* idle_sessions *)

\* Slip: the sessions row is the only mark.
UnreadByRow(s, k) == {n \in TurnsOf(s, k) :
  \/ sessions[k].ended = 0
  \/ turns[s][k][n].at > sessions[k].ended}

\* Slip: a session that was closed is not looked at again.
UnreadNeverClosed(s, k) == {n \in TurnsOf(s, k) :
  sessions[k].ended = 0 /\ ~turns[s][k][n].stamped}

\* The turns no consolidation was said to have read.  The join with the sessions
\* rows is on the id alone.
Unread(s, k) == {n \in TurnsOf(s, k) :
  /\ sessions[k].ended = 0 \/ turns[s][k][n].at > sessions[k].ended
  /\ ~turns[s][k][n].stamped}

LastActivity(g) == Max({turns[g[1]][g[2]][n].at : n \in Unread(g[1], g[2])})

Idle(cutoff) == {g \in Groups : Unread(g[1], g[2]) # {} /\ LastActivity(g) < cutoff}

\* The Limit groups of the earliest last activity, or all when there are fewer.
AreIdleSessions(S, cutoff) ==
  /\ Cardinality(S) = Min({Limit, Cardinality(Idle(cutoff))})
  /\ \A g \in S, h \in Idle(cutoff) \ S : LastActivity(g) <= LastActivity(h)

-----------------------------------------------------------------------------
(* The janitor *)

\* Idle for any number of seconds: any instant may be the cutoff.
Scan(j) ==
  /\ jobs[j] = NoJob
  /\ \E cutoff \in 1..Now : \E S \in SUBSET Idle(cutoff) \ {{}} :
       /\ AreIdleSessions(S, cutoff)
       /\ jobs' = [jobs EXCEPT ![j].phase = "pick", ![j].todo = S]
  /\ UNCHANGED <<convVars, known, faults>>

LoadOf(s, k)  == {turns[s][k][n].at : n \in TurnsOf(s, k)}
LikedOf(s, k) == {turns[s][k][n].at : n \in {m \in TurnsOf(s, k) : ~turns[s][k][m].disliked}}

\* load_turns: all the turns of the session, and the disliked ones are set aside.
Load(j, g, close) ==
  /\ MayEnter(g)
  /\ jobs' = [jobs EXCEPT ![j] =
       [phase |-> IF LikedOf(g[1], g[2]) = {} /\ close THEN "close" ELSE "think",
        todo |-> @.todo \ {g}, on |-> g, close |-> close,
        read |-> LoadOf(g[1], g[2]), liked |-> LikedOf(g[1], g[2])]]
  /\ UNCHANGED <<convVars, known, faults>>

\* Tier 3, on a session of the scan.
Consolidate(j) ==
  /\ jobs[j].phase = "pick"
  /\ \E g \in jobs[j].todo : Load(j, g, TRUE)

\* Tier 2, on a session whose turn it is; with nothing liked it returns.
Periodic(j) ==
  /\ jobs[j] = NoJob
  /\ \E g \in Groups : LikedOf(g[1], g[2]) # {} /\ Load(j, g, FALSE)

\* The job on one session is over: on to the next of the scan.
NextOf(job) ==
  [NoJob EXCEPT !.phase = IF job.todo = {} THEN "idle" ELSE "pick", !.todo = job.todo]

\* Slip: the extraction marks the turns it has drawn from.
ExtractStamping(j) ==
  LET job == jobs[j] IN
  /\ job.phase = "think"
  /\ memories' = [memories EXCEPT ![job.on[1]] = @ \cup job.liked]
  /\ Stamp(job.on[1], job.on[2], clock)
  /\ jobs' = [jobs EXCEPT ![j] =
        IF job.close THEN [@ EXCEPT !.phase = "close"] ELSE NextOf(job)]
  /\ UNCHANGED <<sessions, saves, lost, purge, erased, clock, known, faults>>

\* The model has answered, with insights or with something that does not parse.
Extract(j) ==
  LET job == jobs[j] IN
  /\ job.phase = "think"
  /\ \E from \in {{}, job.liked} : SaveMemories(job.on[1], from)
  /\ jobs' = [jobs EXCEPT ![j] =
        IF job.close THEN [@ EXCEPT !.phase = "close"] ELSE NextOf(job)]
  /\ UNCHANGED <<known, faults>>

Close(j) ==
  LET job == jobs[j] IN
  /\ job.phase = "close"
  /\ CloseSession(job.on[1], job.on[2])
  /\ known' = IF sessions[job.on[2]].scope \in {job.on[1], Nil}
              THEN [known EXCEPT ![job.on[1]] = @ \cup job.read]
              ELSE known
  /\ jobs' = [jobs EXCEPT ![j] = NextOf(job)]
  /\ UNCHANGED faults

\* The backend, the embedder or a call to the store raises; the host goes on.
FailJob(j) ==
  /\ jobs[j].phase \in {"think", "close"}
  /\ faults < MaxFaults
  /\ faults' = faults + 1
  /\ jobs' = [jobs EXCEPT ![j] = NextOf(jobs[j])]
  /\ UNCHANGED <<convVars, known>>

\* The process dies, and with it what was left of the scan.
CrashJob(j) ==
  /\ jobs[j] # NoJob
  /\ faults < MaxFaults
  /\ faults' = faults + 1
  /\ jobs' = [jobs EXCEPT ![j] = NoJob]
  /\ UNCHANGED <<convVars, known>>

JobStep(j) == Consolidate(j) \/ Extract(j) \/ Close(j)

-----------------------------------------------------------------------------
HostStep ==
  \/ \E w \in Writers :
       \/ \E s \in Scopes, k \in Ids, n \in TurnNumbers, pinned \in BOOLEAN :
            MayEnter(<<s, k>>) /\ BeginSave(w, s, k, n, pinned)
       \/ SaveStep(w)
  \/ \E s \in Scopes, k \in Ids, n \in TurnNumbers, disliked \in BOOLEAN :
       SetFeedback(s, k, n, disliked)
  \/ \E s \in Scopes, k \in Ids : CreateSession(s, k)
  \/ \E s \in Scopes : DropSessionRows(s)
  \/ \E s \in Scopes : \E from \in SUBSET memories[s] : DeleteMemories(s, from)
  \/ PurgeStep

HypnosNext ==
  \/ \E j \in Janitors : Scan(j)
  \/ \E j \in Callers : Periodic(j)
  \/ \E j \in Janitors \cup Callers : JobStep(j) \/ FailJob(j) \/ CrashJob(j)
  \/ HostStep /\ UNCHANGED <<jobs, known, faults>>

HypnosSpec == HypnosInit /\ [][HypnosNext]_hypnosVars

(* The host's loop goes on scanning and consolidating, and an insert that    *)
(* began ends: as a row, a loss or a rollback.                               *)
LoopFairness ==
  /\ \A j \in Janitors : WF_hypnosVars(Scan(j)) /\ WF_hypnosVars(JobStep(j))
  /\ \A w \in Writers : WF_hypnosVars(SaveStep(w) /\ UNCHANGED <<jobs, known, faults>>)

HypnosLiveSpec == HypnosSpec /\ LoopFairness
-----------------------------------------------------------------------------
\* A stamped turn was in the transcript of a consolidation that completed: no turn
\* is declared consolidated that nothing has read (postgres.py, idle_sessions:
\* "written by `close_session` on the very rows the consolidation read").
StampMeansRead ==
  \A s \in Scopes, k \in Ids : \A n \in TurnsOf(s, k) :
    turns[s][k][n].stamped => turns[s][k][n].at \in known[s]

\* While a session's row exists the two marks agree turn for turn (postgres.py,
\* close_session).
MarkersAgree ==
  \A k \in Ids :
    LET s == sessions[k].scope IN
    (s # Nil /\ sessions[k].ended # 0) =>
      \A n \in TurnsOf(s, k) : turns[s][k][n].stamped <=> turns[s][k][n].at <= sessions[k].ended

\* A scan brings back a session for new turns only, "once per new burst of turns,
\* not once per tick" (postgres.py, idle_sessions), whatever became of its row and whoever
\* shares its id: what a close that was taken has read never brings it back.
PicksHaveNews ==
  [][\A j \in Janitors :
       (jobs[j].phase = "idle" /\ jobs'[j].phase = "pick") =>
         \A g \in jobs'[j].todo : LoadOf(g[1], g[2]) \ known[g[1]] # {}]_hypnosVars

\* A consolidation that closes its session leaves the turns it has read stamped, and
\* none of them brings the session back (postgres.py, idle_sessions).  The row of a
\* neighbour that shares the id has the close leave everything alone.
ClosesMark ==
  [][\A j \in Janitors \cup Callers :
       LET job == jobs[j] IN
       (job.phase = "close" /\ clock' # clock /\ jobs'[j] = NextOf(job)) =>
         \A n \in TurnNumbers :
           LET t == turns'[job.on[1]][job.on[2]][n] IN
           t.at # 0 /\ t.at \in job.read => t.stamped]_hypnosVars

\* What a purge has erased stays erased: no memory is drawn from a turn begun
\* before its scope's last purge (ports.py: "a deleted contact must not leave
\* stale recall behind").
ForgottenStaysForgotten ==
  purge = NoPurge => \A s \in Scopes : \A t \in memories[s] : t > erased[s]

\* Every turn is consolidated in the end, or removed.
EveryTurnIsRead ==
  \A s \in Scopes, k \in Ids, n \in TurnNumbers :
    IsTurn(s, k, n) ~> (~IsTurn(s, k, n) \/ turns[s][k][n].at \in known[s])
=============================================================================
