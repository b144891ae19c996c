------------------------- MODULE ConversationBuffer ------------------------
(***************************************************************************)
(* The window of a conversation (the port ConversationBuffer of ports.py)  *)
(* in its two adapters: a Redis list that is bounded and expires           *)
(* (redis_buffer.py), and a list in memory that is neither (in_memory.py). *)
(* The same pushes and clears go to both.                                  *)
(*                                                                         *)
(* A turn is its number and the instant it was pushed at.  The commands of *)
(* a push are one MULTI, so that it is one step.                           *)
(***************************************************************************)
EXTENDS Integers, Sequences

CONSTANTS
  Talks,        (* The conversations: a scope and a session.               *)
  MaxSize,      (* max_size.                                               *)
  Ttl,          (* ttl_seconds, in units of the clock.                     *)
  MaxPushes,    (* Bounds the model: pushes of a conversation.             *)
  LastInstant   (* Bounds the model: where the clock stops.                *)

\* EXPIRE with nothing left to live deletes the key.  MaxSize may be 0, which bounds nothing.
ASSUME BufferAssumption ==
  /\ MaxSize \in Nat
  /\ Ttl \in Nat \ {0}
  /\ MaxPushes \in Nat /\ LastInstant \in Nat

VARIABLES
  instant,      (* The clock of Redis.                                     *)
  keys,         (* Per conversation: its list in Redis, and when it ends.  *)
  lists         (* Per conversation: its list in memory.                   *)

bufferVars == <<instant, keys, lists>>

Turn == [n : Nat, at : Nat]

BufferTypeOK ==
  /\ instant \in Nat
  /\ keys \in [Talks -> [turns : Seq(Turn), ends : Nat]]
  /\ lists \in [Talks -> Seq(Turn)]

BufferInit ==
  /\ instant = 0
  /\ keys = [t \in Talks |-> [turns |-> <<>>, ends |-> 0]]
  /\ lists = [t \in Talks |-> <<>>]

-----------------------------------------------------------------------------
\* The last n of a sequence; the index -0 is the beginning, and all of it is the last none.
LastOf(q, n) == IF n = 0 \/ n >= Len(q) THEN q ELSE SubSeq(q, Len(q) - n + 1, Len(q))

\* A key whose time is over is not there.
Standing(t) == IF keys[t].ends > instant THEN keys[t].turns ELSE <<>>

Pushed(t) == [n |-> Len(lists[t]) + 1, at |-> instant]

\* Slip: only the push that makes the key sets how long it lives.
PushKeepingEnd(t) ==
  /\ Len(lists[t]) < MaxPushes
  /\ keys' = [keys EXCEPT ![t] =
       [turns |-> LastOf(Append(Standing(t), Pushed(t)), MaxSize),
        ends  |-> IF Standing(t) = <<>> THEN instant + Ttl ELSE @.ends]]
  /\ lists' = [lists EXCEPT ![t] = Append(@, Pushed(t))]
  /\ UNCHANGED instant

\* RPUSH, LTRIM and EXPIRE; in memory, append.
Push(t) ==
  /\ Len(lists[t]) < MaxPushes
  /\ keys' = [keys EXCEPT ![t] =
       [turns |-> LastOf(Append(Standing(t), Pushed(t)), MaxSize), ends |-> instant + Ttl]]
  /\ lists' = [lists EXCEPT ![t] = Append(@, Pushed(t))]
  /\ UNCHANGED instant

Clear(t) ==
  /\ lists[t] # <<>>
  /\ keys' = [keys EXCEPT ![t] = [turns |-> <<>>, ends |-> 0]]
  /\ lists' = [lists EXCEPT ![t] = <<>>]
  /\ UNCHANGED instant

\* The two windows.
Window(t, size)       == LastOf(Standing(t), size)
MemoryWindow(t, size) == LastOf(lists[t], size)

BufferTick ==
  /\ instant < LastInstant
  /\ instant' = instant + 1
  /\ UNCHANGED <<keys, lists>>

BufferNext == (\E t \in Talks : Push(t) \/ Clear(t)) \/ BufferTick

BufferSpec == BufferInit /\ [][BufferNext]_bufferVars
-----------------------------------------------------------------------------
\* After which nothing was silent for as long as a key lives, until now.
SinceSilence(t, i) ==
  \A j \in i..Len(lists[t]) :
     (IF j = Len(lists[t]) THEN instant ELSE lists[t][j + 1].at) - lists[t][j].at < Ttl

\* What Redis serves is the end of the talk as memory has it, from its last silence on: a
\* turn is not forgotten while the talk goes on, and none comes back after a silence or a
\* clear.
WindowsHoldTheTalk ==
  \A t \in Talks, size \in 1..MaxSize :
    LET memory == MemoryWindow(t, size) IN
    \E k \in 1..Len(memory) + 1 :
      /\ Window(t, size) = SubSeq(memory, k, Len(memory))
      /\ \A i \in 1..Len(memory) : i >= k <=> SinceSilence(t, memory[i].n)

\* Violated for a size of 0: a window is no longer than what was asked for.
WindowsAreNoLonger ==
  \A t \in Talks, size \in 0..MaxSize : Len(Window(t, size)) <= size
=============================================================================
