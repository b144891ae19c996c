----------------------------- MODULE TurnTraces ----------------------------
(***************************************************************************)
(* The traces of turns: save_turn_trace of the stores, the window in which *)
(* a stored trace may be revised (trace_policy.py), and the erasure of a   *)
(* scope.  A trace is dated by its caller (a backfill, an import), or by   *)
(* the beginning of the transaction that writes it, and may land later     *)
(* than it was dated and after others.                                     *)
(*                                                                         *)
(* What a trace says is opaque: it is known by the date it was told with.  *)
(***************************************************************************)
EXTENDS Integers, FiniteSets

CONSTANTS
  Turns,        (* The coordinates: a scope, a session and a turn's number.*)
  Writers,      (* Who may be writing a trace.                             *)
  RevisionWindow, (* TRACE_REVISION_WINDOW_S, in units of the clock; 0 is  *)
                (* strict refusal.                                         *)
  NoTrace,
  LastDay,      (* Bounds the model: where the clock stops,                *)
  MaxLosses     (* and what is refused at a coordinate before no more is   *)
                (* sent to it.                                             *)

ASSUME TracesAssumption ==
  /\ RevisionWindow \in Nat
  /\ LastDay \in Nat /\ MaxLosses \in Nat
  /\ NoTrace \notin [told : Nat, created : Nat]

VARIABLES
  day,          (* The clock.                                              *)
  traces,       (* Per coordinate: the date its content was told with, and *)
                (* created_at.                                             *)
  writing,      (* Per writer: the trace it has sent, and its date.        *)
  losses,       (* TRACE_OVERWRITE_REFUSED as counted, of each coordinate. *)
  first,        (* For the properties: the date of the first trace that    *)
  late          (* landed since the last erasure, and the traces that came *)
                (* more than a window later.                               *)

tracesVars == <<day, traces, writing, losses, first, late>>

Trace   == [told : Nat, created : Nat]
Nothing == [turn |-> NoTrace, date |-> 0]

TracesTypeOK ==
  /\ day \in Nat
  /\ traces \in [Turns -> Trace \cup {NoTrace}]
  /\ writing \in [Writers -> [turn : Turns \cup {NoTrace}, date : Nat]]
  /\ losses \in [Turns -> Nat] /\ late \in [Turns -> Nat]
  /\ first \in [Turns -> Nat]

TracesInit ==
  /\ day = 0
  /\ traces = [c \in Turns |-> NoTrace]
  /\ writing = [w \in Writers |-> Nothing]
  /\ losses = [c \in Turns |-> 0] /\ late = [c \in Turns |-> 0]
  /\ first = [c \in Turns |-> 0]

-----------------------------------------------------------------------------
\* A trace is sent with its caller's date, or with the instant its transaction begins.
SendTrace(w) ==
  /\ writing[w] = Nothing
  /\ \E c \in Turns, date \in 0..day :
       /\ losses[c] < MaxLosses
       /\ writing' = [writing EXCEPT ![w] = [turn |-> c, date |-> date]]
  /\ UNCHANGED <<day, traces, losses, first, late>>

\* Still the same turn, by the date of the stored trace.
Revisable(c, date) == date <= traces[c].created + RevisionWindow

\* Slip: a revision restates when the turn happened.
StoredRestated(c, date) == [told |-> date, created |-> date]

\* The row after a trace of that date: created_at never moves.
Stored(c, date) ==
  [told |-> date, created |-> IF traces[c] = NoTrace THEN date ELSE traces[c].created]

\* The insert, the revision, or the refusal and its count.
LandTrace(w) ==
  LET c == writing[w].turn
      date == writing[w].date IN
  /\ c # NoTrace
  /\ \/ /\ traces[c] # NoTrace => Revisable(c, date)
        /\ traces' = [traces EXCEPT ![c] = Stored(c, date)]
        /\ UNCHANGED losses
     \/ /\ traces[c] # NoTrace /\ ~Revisable(c, date)
        /\ losses' = [losses EXCEPT ![c] = @ + 1]
        /\ UNCHANGED traces
  /\ first' = IF traces[c] = NoTrace THEN [first EXCEPT ![c] = date] ELSE first
  /\ late' = IF traces[c] # NoTrace /\ date > first[c] + RevisionWindow
             THEN [late EXCEPT ![c] = @ + 1] ELSE late
  /\ writing' = [writing EXCEPT ![w] = Nothing]
  /\ UNCHANGED day

\* The writer dies, or its transaction is rolled back.
LoseTrace(w) ==
  /\ writing[w] # Nothing
  /\ writing' = [writing EXCEPT ![w] = Nothing]
  /\ UNCHANGED <<day, traces, losses, first, late>>

\* purge_scope, whose coordinates are these.
EraseTraces ==
  /\ \E c \in Turns : traces[c] # NoTrace
  /\ traces' = [c \in Turns |-> NoTrace]
  /\ UNCHANGED <<day, writing, losses, first, late>>

NextDay ==
  /\ day < LastDay
  /\ day' = day + 1
  /\ UNCHANGED <<traces, writing, losses, first, late>>

TracesNext ==
  \/ \E w \in Writers : SendTrace(w) \/ LandTrace(w) \/ LoseTrace(w)
  \/ EraseTraces
  \/ NextDay

TracesSpec == TracesInit /\ [][TracesNext]_tracesVars
-----------------------------------------------------------------------------
\* A coordinate goes on saying what was told within a window of its first trace, and on the
\* date of that trace: revisions each within a window of the last do not walk on, whatever
\* order they land in.  What is refused is counted, and nothing else is.
TracesKeepTheirTurn ==
  \A c \in Turns :
    /\ traces[c] # NoTrace =>
         traces[c].created = first[c] /\ traces[c].told <= first[c] + RevisionWindow
    /\ losses[c] = late[c]

\* Violated: a trace is altered only while its turn may still be writing.  The window is
\* measured by the date that the caller or its transaction says.
AlteredInTime ==
  [][\A c \in Turns :
       traces[c] # NoTrace /\ traces'[c] \notin {NoTrace, traces[c]} =>
         day <= traces[c].created + RevisionWindow]_tracesVars
=============================================================================
