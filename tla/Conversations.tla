--------------------------- MODULE Conversations ---------------------------
(***************************************************************************)
(* The conversation tables of the memory store (ports.py, MemoryStore; its *)
(* Postgres adapter): the turns of a session, the sessions rows, and the   *)
(* memories of a scope.                                                    *)
(*                                                                         *)
(* Statements are atomic and handlers are not.  `save_turn` begins its     *)
(* transaction, which fixes now(); its insert, when it allocates, takes    *)
(* the next number from a snapshot of its own, later; and it lands or      *)
(* meets a conflict.  (In autocommit the statement is the transaction, and *)
(* now() still precedes the snapshot.)  `close_session` is one             *)
(* transaction; two that overlap are ordered here by their ends.           *)
(*                                                                         *)
(* The clock advances whenever now() is read, so every turn and every      *)
(* close has an instant of its own, and a turn is known by the instant its *)
(* transaction began, its created_at.  When its row landed is history.  A  *)
(* memory is known by the turn it was drawn from; a masked, worded or      *)
(* scored turn is the same turn.                                           *)
(*                                                                         *)
(* An operator marked "Slip" is an operation with a fault the properties   *)
(* must notice; nothing uses it.                                           *)
(***************************************************************************)
EXTENDS Integers, FiniteSets

CONSTANTS
  Scopes,       (* Isolation keys: a tenant's contact.                     *)
  Ids,          (* Session ids, which two scopes may share.                *)
  Minted,       (* Those create_session may mint; the host derives others. *)
  Writers,      (* Processes that save turns.                              *)
  Attempts,     (* How often an allocation is tried.                       *)
  Pins,         (* Turn numbers a backfill or a replay may pin.            *)
  Connections,  (* How the host's processes connect: a dsn, or a pool.     *)
  MaxTurn,      (* Bounds the model: the last turn number.                 *)
  LastSave,     (* Bounds the model: no save begins after this instant.    *)
  MaxClock,     (* Bounds the model: the last instant.                     *)
  Nil           (* The scope of a sessions row that does not exist.        *)

ASSUME ConversationAssumption ==
  /\ Minted \subseteq Ids
  /\ Attempts \in Nat \ {0}
  /\ MaxTurn \in Nat
  /\ Pins \subseteq 0..MaxTurn
  /\ Connections \subseteq {"dsn", "pool"}
  /\ LastSave \in Nat
  /\ MaxClock \in Nat
  /\ Nil \notin Scopes

VARIABLES
  turns,        (* Per scope, session id and number: the turn row.         *)
  sessions,     (* Per session id: the sessions row.                       *)
  memories,     (* Per scope: the turns its memories were drawn from.      *)
  saves,        (* Per writer: the insert it has begun.                    *)
  lost,         (* How many write losses were counted.                     *)
  purge,        (* The scope being purged, and the tables still to empty.  *)
  erased,       (* Per scope: the instant its turns were last purged.      *)
  clock         (* The database's clock.                                   *)

convVars == <<turns, sessions, memories, saves, lost, purge, erased, clock>>

TurnNumbers == 0..MaxTurn
Tables      == {"turns", "sessions", "memories"}

NoTurn    == [at |-> 0, landed |-> 0, pinned |-> FALSE, stamped |-> FALSE,
              disliked |-> FALSE]
NoSession == [scope |-> Nil, ended |-> 0]
NoSave    == [phase |-> "idle", scope |-> Nil, id |-> Nil, number |-> 0, at |-> 0,
              pinned |-> FALSE, tries |-> 0]
NoPurge   == [scope |-> Nil, left |-> {}]

TurnRow    == [at : Nat, landed : Nat, pinned : BOOLEAN, stamped : BOOLEAN,
               disliked : BOOLEAN]
SessionRow == [scope : Scopes, ended : Nat] \cup {NoSession}
Save       == [phase : {"idle", "begun", "inserting", "dead"}, scope : Scopes \cup {Nil},
               id : Ids \cup {Nil}, number : Nat, at : Nat, pinned : BOOLEAN, tries : Nat]
Purge      == [scope : Scopes, left : SUBSET Tables] \cup {NoPurge}

ConvTypeOK ==
  /\ turns \in [Scopes -> [Ids -> [TurnNumbers -> TurnRow]]]
  /\ sessions \in [Ids -> SessionRow]
  /\ memories \in [Scopes -> SUBSET Nat]
  /\ saves \in [Writers -> Save]
  /\ lost \in Nat
  /\ purge \in Purge
  /\ erased \in [Scopes -> Nat]
  /\ clock \in Nat

ConvInit ==
  /\ turns = [s \in Scopes |-> [k \in Ids |-> [n \in TurnNumbers |-> NoTurn]]]
  /\ sessions = [k \in Ids |-> NoSession]
  /\ memories = [s \in Scopes |-> {}]
  /\ saves = [w \in Writers |-> NoSave]
  /\ lost = 0
  /\ purge = NoPurge
  /\ erased = [s \in Scopes |-> 0]
  /\ clock = 0

-----------------------------------------------------------------------------
IsTurn(s, k, n) == turns[s][k][n].at # 0
TurnsOf(s, k)   == {n \in TurnNumbers : IsTurn(s, k, n)}
Inserting(w)    == saves[w].phase = "inserting"
Saving(w)       == saves[w].phase \in {"begun", "inserting"}

\* max(turn_n) + 1 over the rows of the session, and 1 over none.
IsNextTurn(s, k, n) ==
  /\ n \in TurnNumbers \ {0}
  /\ \A m \in TurnsOf(s, k) : m < n
  /\ n = 1 \/ IsTurn(s, k, n - 1)

\* now(), fixed as a transaction begins.
Now == clock + 1

ReadNow == clock < MaxClock /\ clock' = Now

-----------------------------------------------------------------------------
(* save_turn *)

\* Bounds the model: there is a next number.
HasRoom(s, k) == ~IsTurn(s, k, MaxTurn)

\* The transaction begins.  A pinned number goes into the insert as it is; one that is to
\* be allocated is not known yet.
BeginSave(w, s, k, n, pinned) ==
  /\ saves[w].phase = "idle"
  /\ clock < LastSave
  /\ IF pinned THEN n \in Pins ELSE n = 0 /\ HasRoom(s, k)
  /\ ReadNow
  /\ saves' = [saves EXCEPT ![w] =
        [phase |-> IF pinned THEN "inserting" ELSE "begun", scope |-> s, id |-> k,
         number |-> n, at |-> Now, pinned |-> pinned, tries |-> 1]]
  /\ UNCHANGED <<turns, sessions, memories, lost, purge, erased>>

\* Slip: the next number is one more than there are rows.
TakeNumberByCount(w) ==
  LET n == Cardinality(TurnsOf(saves[w].scope, saves[w].id)) + 1 IN
  /\ saves[w].phase = "begun" /\ n \in TurnNumbers
  /\ saves' = [saves EXCEPT ![w].number = n, ![w].phase = "inserting"]
  /\ UNCHANGED <<turns, sessions, memories, lost, purge, erased, clock>>

\* The snapshot of the insert: the next number, of the rows that have been committed.
TakeNumber(w) ==
  /\ saves[w].phase = "begun"
  /\ \E n \in TurnNumbers :
       /\ IsNextTurn(saves[w].scope, saves[w].id, n)
       /\ saves' = [saves EXCEPT ![w].number = n, ![w].phase = "inserting"]
  /\ UNCHANGED <<turns, sessions, memories, lost, purge, erased, clock>>

EndSave(w) == saves' = [saves EXCEPT ![w] = NoSave]

\* The row a save leaves.
RowOf(v) == [at |-> v.at, landed |-> clock, pinned |-> v.pinned, stamped |-> FALSE,
             disliked |-> FALSE]

\* Slip: the row that is there is overwritten.
LandSaveOver(w) ==
  LET v == saves[w] IN
  /\ Inserting(w)
  /\ turns' = [turns EXCEPT ![v.scope][v.id][v.number] = RowOf(v)]
  /\ EndSave(w)
  /\ UNCHANGED <<sessions, memories, lost, purge, erased, clock>>

LandSave(w) ==
  LET v == saves[w] IN
  /\ Inserting(w)
  /\ ~IsTurn(v.scope, v.id, v.number)
  /\ turns' = [turns EXCEPT ![v.scope][v.id][v.number] = RowOf(v)]
  /\ EndSave(w)
  /\ UNCHANGED <<sessions, memories, lost, purge, erased, clock>>

Conflict(w) ==
  /\ Inserting(w)
  /\ IsTurn(saves[w].scope, saves[w].id, saves[w].number)

\* An allocation that lost its number begins again, in a transaction with a new now().
RetrySave(w) ==
  LET v == saves[w] IN
  /\ Conflict(w) /\ ~v.pinned /\ v.tries < Attempts
  /\ HasRoom(v.scope, v.id)
  /\ ReadNow
  /\ saves' = [saves EXCEPT ![w] =
        [v EXCEPT !.phase = "begun", !.number = 0, !.at = Now, !.tries = @ + 1]]
  /\ UNCHANGED <<turns, sessions, memories, lost, purge, erased>>

\* Slip: an allocation that ran out of tries says nothing.
LoseSaveQuietly(w) ==
  LET v == saves[w] IN
  /\ Conflict(w)
  /\ v.pinned \/ v.tries = Attempts
  /\ lost' = IF v.pinned THEN lost + 1 ELSE lost
  /\ EndSave(w)
  /\ UNCHANGED <<turns, sessions, memories, purge, erased, clock>>

\* A pinned number that is taken, or an allocation out of tries: write_loss.
LoseSave(w) ==
  LET v == saves[w] IN
  /\ Conflict(w)
  /\ v.pinned \/ v.tries = Attempts
  /\ lost' = lost + 1
  /\ EndSave(w)
  /\ UNCHANGED <<turns, sessions, memories, purge, erased, clock>>

\* The process dies before its transaction has ended, which is rolled back.
CrashSave(w) ==
  /\ Saving(w)
  /\ saves' = [saves EXCEPT ![w] = [NoSave EXCEPT !.phase = "dead"]]
  /\ UNCHANGED <<turns, sessions, memories, lost, purge, erased, clock>>

\* Feedback is +1, 0 or -1; only -1 is told apart.
SetFeedback(s, k, n, disliked) ==
  /\ IsTurn(s, k, n) /\ turns[s][k][n].disliked # disliked
  /\ turns' = [turns EXCEPT ![s][k][n].disliked = disliked]
  /\ UNCHANGED <<sessions, memories, saves, lost, purge, erased, clock>>

-----------------------------------------------------------------------------
(* Sessions *)

\* The id is a fresh uuid.
CreateSession(s, k) ==
  /\ k \in Minted
  /\ sessions[k] = NoSession
  /\ \A r \in Scopes : TurnsOf(r, k) = {}
  /\ \A w \in Writers : saves[w].id # k
  /\ sessions' = [sessions EXCEPT ![k].scope = s]
  /\ UNCHANGED <<turns, memories, saves, lost, purge, erased, clock>>

\* The turns of the closed row's scope, those up to its ended_at.
Stamp(s, k, ended) ==
  turns' = [turns EXCEPT ![s][k] = [n \in TurnNumbers |->
     IF @[n].at # 0 /\ @[n].at <= ended THEN [@[n] EXCEPT !.stamped = TRUE] ELSE @[n]]]

\* Slip: the conflict update is not guarded by the scope.
CloseAnyScope(s, k) ==
  /\ ReadNow
  /\ sessions' = [sessions EXCEPT ![k] = [scope |-> s, ended |-> Now]]
  /\ Stamp(s, k, Now)
  /\ UNCHANGED <<memories, saves, lost, purge, erased>>

\* With a scope: a row is made when there is none, and the row of another scope
\* is left alone, with every turn.
CloseSession(s, k) ==
  /\ ReadNow
  /\ IF sessions[k].scope \in {s, Nil}
     THEN /\ sessions' = [sessions EXCEPT ![k] = [scope |-> s, ended |-> Now]]
          /\ Stamp(s, k, Now)
     ELSE UNCHANGED <<sessions, turns>>
  /\ UNCHANGED <<memories, saves, lost, purge, erased>>

\* Without a scope only an existing row is closed, for the scope it has.
CloseUnscoped(k) ==
  /\ sessions[k] # NoSession
  /\ CloseSession(sessions[k].scope, k)

\* A scope cleanup of the host that spares the turns, which are the measurement.
DropSessionRows(s) ==
  /\ sessions' = [k \in Ids |-> IF sessions[k].scope = s THEN NoSession ELSE sessions[k]]
  /\ memories' = [memories EXCEPT ![s] = {}]
  /\ <<sessions, memories>>' # <<sessions, memories>>
  /\ UNCHANGED <<turns, saves, lost, purge, erased, clock>>

-----------------------------------------------------------------------------
(* Memories and purge_scope *)

\* The upsert; a memory drawn from several turns is drawn from each.
SaveMemories(s, from) ==
  /\ memories' = [memories EXCEPT ![s] = @ \cup from]
  /\ UNCHANGED <<turns, sessions, saves, lost, purge, erased, clock>>

\* Retention: by age, category or confidence.
DeleteMemories(s, from) ==
  /\ from # {} /\ from \subseteq memories[s]
  /\ memories' = [memories EXCEPT ![s] = @ \ from]
  /\ UNCHANGED <<turns, sessions, saves, lost, purge, erased, clock>>

\* The rows of a scope in some of the tables go.
Emptied(s, tables) ==
  /\ turns' = IF "turns" \in tables
              THEN [turns EXCEPT ![s] = [k \in Ids |-> [n \in TurnNumbers |-> NoTurn]]]
              ELSE turns
  /\ erased' = IF "turns" \in tables THEN [erased EXCEPT ![s] = clock] ELSE erased
  /\ sessions' = IF "sessions" \in tables
                 THEN [k \in Ids |-> IF sessions[k].scope = s THEN NoSession ELSE sessions[k]]
                 ELSE sessions
  /\ memories' = IF "memories" \in tables THEN [memories EXCEPT ![s] = {}] ELSE memories

HasRows(s) == \/ \E k \in Ids : TurnsOf(s, k) # {} \/ sessions[k].scope = s
              \/ memories[s] # {}

\* In a pool the loop over the tables is one transaction.
PurgeScope(s) ==
  /\ "pool" \in Connections
  /\ HasRows(s)
  /\ Emptied(s, Tables)
  /\ UNCHANGED <<saves, lost, purge, clock>>

\* With a dsn each of its deletes is a transaction: turns, sessions, memories.
BeginPurge(s) ==
  /\ "dsn" \in Connections
  /\ purge = NoPurge
  /\ HasRows(s)
  /\ Emptied(s, {"turns"})
  /\ purge' = [scope |-> s, left |-> Tables \ {"turns"}]
  /\ UNCHANGED <<saves, lost, clock>>

NextTable == IF "sessions" \in purge.left THEN "sessions" ELSE "memories"

PurgeTable ==
  /\ purge # NoPurge
  /\ Emptied(purge.scope, {NextTable})
  /\ purge' = IF purge.left = {NextTable} THEN NoPurge
                                          ELSE [purge EXCEPT !.left = @ \ {NextTable}]
  /\ UNCHANGED <<saves, lost, clock>>

CrashPurge ==
  /\ purge # NoPurge
  /\ purge' = NoPurge
  /\ UNCHANGED <<turns, sessions, memories, saves, lost, erased, clock>>

-----------------------------------------------------------------------------
SaveStep(w) ==
  TakeNumber(w) \/ LandSave(w) \/ RetrySave(w) \/ LoseSave(w) \/ CrashSave(w)

MemoryStep ==
  \E s \in Scopes :
    \/ \E from \in SUBSET (1..clock) : SaveMemories(s, from)
    \/ \E from \in SUBSET memories[s] : DeleteMemories(s, from)

PurgeStep ==
  \/ \E s \in Scopes : PurgeScope(s) \/ BeginPurge(s)
  \/ PurgeTable
  \/ CrashPurge

ConvNext ==
  \/ \E w \in Writers :
       \/ \E s \in Scopes, k \in Ids, n \in TurnNumbers, pinned \in BOOLEAN :
            BeginSave(w, s, k, n, pinned)
       \/ SaveStep(w)
  \/ \E s \in Scopes, k \in Ids, n \in TurnNumbers, disliked \in BOOLEAN :
       SetFeedback(s, k, n, disliked)
  \/ \E s \in Scopes, k \in Ids : CreateSession(s, k) \/ CloseSession(s, k)
  \/ \E k \in Ids : CloseUnscoped(k)
  \/ \E s \in Scopes : DropSessionRows(s)
  \/ MemoryStep
  \/ PurgeStep

ConvSpec == ConvInit /\ [][ConvNext]_convVars
-----------------------------------------------------------------------------
\* A turn that begins after another of its session was saved comes after it in the transcript,
\* whoever races and retries, and whatever was pinned or purged meanwhile: who allocates is past
\* every row there was when it began.  (Of two turns that overlap either may be the first:
\* TurnsInTime.)
TurnsInOrder ==
  \A s \in Scopes, k \in Ids : \A m, n \in TurnsOf(s, k) :
    (m < n /\ ~turns[s][k][m].pinned) => turns[s][k][m].at <= turns[s][k][n].landed

\* The transcript in the order of its numbers is in the order of created_at.  A transaction that
\* has begun may see another begin and end before its insert takes a number, so that it
\* needs session_lock around the turns, and a number that nobody pinned (postgres.py, save_turn).
TurnsInTime ==
  \A s \in Scopes, k \in Ids : \A m, n \in TurnsOf(s, k) :
    (m < n /\ ~turns[s][k][m].pinned) => turns[s][k][m].at < turns[s][k][n].at

\* A row is never taken by another turn: who comes second is refused, and what a
\* consolidation was said to have read stays said.
TurnsAreNeverReplaced ==
  [][\A s \in Scopes, k \in Ids, n \in TurnNumbers :
       (IsTurn(s, k, n) /\ IsTurn(s, k, n)') =>
         /\ turns'[s][k][n].at = turns[s][k][n].at
         /\ turns[s][k][n].stamped => turns'[s][k][n].stamped]_convVars

\* A save that ends while its process lives has left its row or a counted loss
\* (write_loss.py; the tests, "it is not allowed to lose QUIETLY").
NoSilentLoss ==
  [][\A w \in Writers :
       LET v == saves[w] IN
       (Saving(w) /\ saves'[w].phase = "idle") =>
         turns'[v.scope][v.id][v.number].at = v.at \/ lost' = lost + 1]_convVars

\* What save_turn answers tells a caller whether its turn was kept: the number that
\* was written, and 0 when none was (ports.py and postgres.py, save_turn).
AnswersTellLosses ==
  [][\A w \in Writers :
       LET v      == saves[w]
           landed == turns'[v.scope][v.id][v.number].at = v.at
           answer == IF landed THEN v.number ELSE 0 IN
       (Saving(w) /\ saves'[w].phase = "idle") => (landed <=> answer # 0)]_convVars

\* A close speaks for one scope: it never stamps the turns of a neighbour that
\* shares the session id, nor takes the neighbour's sessions row.
CloseKeepsToItsScope ==
  [][\A k \in Ids, s \in Scopes :
       LET stamped == \E n \in TurnsOf(s, k) :
                        ~turns[s][k][n].stamped /\ turns'[s][k][n].stamped IN
       /\ stamped => sessions'[k].scope = s
       /\ (sessions[k].scope = s /\ sessions'[k].scope # s) => sessions'[k] = NoSession]_convVars

\* "All four tables or none" (postgres.py, purge_scope), which a pool keeps and a dsn
\* does not.
ErasedAtOnce ==
  [][\A s \in Scopes :
       ((\E k \in Ids : TurnsOf(s, k) # {}) /\ (\A k \in Ids : TurnsOf(s, k)' = {})) =>
         memories'[s] = {} /\ \A k \in Ids : sessions'[k].scope # s]_convVars
=============================================================================
