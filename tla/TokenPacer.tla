----------------------------- MODULE TokenPacer ----------------------------
(***************************************************************************)
(* TokensPerMinute of ingest.py: the bucket that jobs take tokens from     *)
(* before each embedding.  One bucket may be shared; a job that finds too  *)
(* little sleeps, and others take from the bucket meanwhile.               *)
(*                                                                         *)
(* The unit of time is what it takes to refill one token, limit of them    *)
(* are a minute.  The bucket is a continuous quantity in the code: here    *)
(* things happen at whole units.                                           *)
(***************************************************************************)
EXTENDS Integers

CONSTANTS
  Jobs,         (* The jobs that share the bucket.                         *)
  Limit,        (* Tokens per minute.                                      *)
  MaxTokens,    (* Bounds the model: what one call asks for.               *)
  LastTick      (* Bounds the model: where the clock stops.                *)

ASSUME PacerAssumption ==
  /\ Limit \in Nat \ {0}
  /\ MaxTokens \in Nat
  /\ LastTick \in Nat

VARIABLES
  now,          (* The clock.                                              *)
  available,    (* What was in the bucket,                                 *)
  at,           (* and when that was.                                      *)
  call,         (* Per job: what its call is doing.                        *)
  since,        (* For the properties: somebody begins to count here,      *)
  granted       (* and counts what each job is let through with.           *)

pacerVars == <<now, available, at, call, since, granted>>

\* asleep: the call has gone to sleep, to need tokens and until the instant given.
Call   == [asleep : BOOLEAN, need : 0..Limit, until : Nat]
NoCall == [asleep |-> FALSE, need |-> 0, until |-> 0]

PacerTypeOK ==
  /\ now \in Nat /\ at \in Nat /\ at <= now
  /\ available \in 0..Limit
  /\ call \in [Jobs -> Call]
  /\ since \in Nat /\ since <= now
  /\ granted \in [Jobs -> Nat]

PacerInit ==
  /\ now = 0 /\ at = 0
  /\ available = Limit
  /\ call = [j \in Jobs |-> NoCall]
  /\ since = 0
  /\ granted = [j \in Jobs |-> 0]

-----------------------------------------------------------------------------
Lesser(a, b)  == IF a <= b THEN a ELSE b
Greater(a, b) == IF a <= b THEN b ELSE a

\* Slip: a bucket that was idle for long fills beyond its size.
RefilledBeyond(t) == available + (t - at)

\* What is in the bucket at t.
Refilled(t) == Lesser(Limit, available + (t - at))

\* A request for more than the whole bucket waits for a full one.
Need(tokens) == Lesser(tokens, Limit)

\* The call goes through with need.  What is not there is forgiven.
Grant(j, need) ==
  /\ available' = Greater(0, Refilled(now) - need)
  /\ at' = now
  /\ call' = [call EXCEPT ![j] = NoCall]
  /\ granted' = [granted EXCEPT ![j] = @ + need]
  /\ UNCHANGED <<now, since>>

\* The call finds enough, or sleeps exactly until there should be.
Pace(j, tokens) ==
  LET need == Need(tokens) IN
  /\ ~call[j].asleep
  /\ \/ Refilled(now) >= need /\ Grant(j, need)
     \/ /\ Refilled(now) < need
        /\ available' = Refilled(now)
        /\ at' = now
        /\ call' = [call EXCEPT ![j] =
             [asleep |-> TRUE, need |-> need, until |-> now + (need - Refilled(now))]]
        /\ UNCHANGED <<now, since, granted>>

\* At or after the instant, whoever else has taken from the bucket meanwhile.
Wake(j) ==
  /\ call[j].asleep /\ now >= call[j].until
  /\ Grant(j, call[j].need)

\* The job is cancelled in its sleep.
CancelCall(j) ==
  /\ call[j].asleep
  /\ call' = [call EXCEPT ![j] = NoCall]
  /\ UNCHANGED <<now, available, at, since, granted>>

PacerTick ==
  /\ now < LastTick
  /\ now' = now + 1
  /\ UNCHANGED <<available, at, call, since, granted>>

\* Somebody begins to count what goes through.
Observe ==
  /\ since # now \/ \E j \in Jobs : granted[j] # 0
  /\ since' = now
  /\ granted' = [j \in Jobs |-> 0]
  /\ UNCHANGED <<now, available, at, call>>

PacerNext ==
  \/ \E j \in Jobs :
       \/ \E tokens \in 0..MaxTokens : Pace(j, tokens)
       \/ Wake(j)
       \/ CancelCall(j)
  \/ PacerTick
  \/ Observe

PacerSpec == PacerInit /\ [][PacerNext]_pacerVars
-----------------------------------------------------------------------------
\* Each job keeps to the bucket it sees, whoever shares it: from any instant on, it goes
\* through with no more than a full bucket and what has been refilled since.  So n jobs that
\* share a bucket are held to n times the rate, whatever their sleeps overlap.
EachJobIsPaced == \A j \in Jobs : granted[j] <= Limit + (now - since)

\* Violated with two jobs: the bucket holds them to its rate together.  Both see too little,
\* sleep, and go through with the same refill.
TogetherPaced ==
  \A j, k \in Jobs : j # k => granted[j] + granted[k] <= Limit + (now - since)

\* Violated by one job alone (ingest.py:133: at most ``limit`` tokens per rolling minute): a
\* full bucket and its refill go through within a minute.
LimitPerMinute ==
  now - since < Limit => \A j \in Jobs : granted[j] <= Limit
=============================================================================
