---------------------------- MODULE HypnosProofs ----------------------------
(***************************************************************************)
(* The conversation tables first: their types and the order of their       *)
(* transcripts, for any number of scopes, sessions and processes.  Then    *)
(* consolidation, which implements them: whatever janitors, periodic       *)
(* callers and the host do, with the lock or without it, the tables change *)
(* by the operations of the store alone, and what is proved of them holds. *)
(* Last the marks consolidation leaves: with the lock they say what was    *)
(* read, and without it too a scan picks news only; and the order of       *)
(* created_at, which needs the lock.                                       *)
(***************************************************************************)
EXTENDS Hypnos, TLAPS

USE ConversationAssumption

-----------------------------------------------------------------------------
(* The inductive invariant *)

\* Nothing is begun in the future.
NothingAhead ==
  /\ \A s \in Scopes, k \in Ids, n \in TurnNumbers : turns[s][k][n].at <= clock
  /\ \A w \in Writers : saves[w].at <= clock

\* An insert is into a session, at a number, at an instant of its own.
SavesAreApart ==
  /\ \A w \in Writers : Saving(w) =>
       /\ saves[w].scope \in Scopes
       /\ saves[w].id \in Ids
       /\ saves[w].number \in TurnNumbers
       /\ saves[w].at > 0
  /\ \A v, w \in Writers : (Saving(v) /\ Saving(w) /\ v # w) => saves[v].at # saves[w].at

\* The rows above an allocated number have landed since its insert began: when it
\* took the number there was none.
PassedSince ==
  \A w \in Writers, n \in TurnNumbers :
    (/\ Inserting(w) /\ ~saves[w].pinned /\ n > saves[w].number
     /\ IsTurn(saves[w].scope, saves[w].id, n)) =>
      saves[w].at <= turns[saves[w].scope][saves[w].id][n].landed

\* TurnsInOrder.
RowsInOrder ==
  \A s \in Scopes, k \in Ids : \A m, n \in TurnNumbers :
    (IsTurn(s, k, m) /\ IsTurn(s, k, n) /\ m < n /\ ~turns[s][k][m].pinned) =>
      turns[s][k][m].at <= turns[s][k][n].landed

OrderInv ==
  /\ ConvTypeOK
  /\ NothingAhead
  /\ SavesAreApart
  /\ PassedSince
  /\ RowsInOrder

-----------------------------------------------------------------------------
(* What the steps do, as far as the invariant can tell *)

RowsStay ==
  \A s \in Scopes, k \in Ids, n \in TurnNumbers :
    /\ turns'[s][k][n].at = turns[s][k][n].at
    /\ turns'[s][k][n].landed = turns[s][k][n].landed
    /\ turns'[s][k][n].pinned = turns[s][k][n].pinned

OthersStay(w) == \A x \in Writers \ {w} : saves'[x] = saves[x]

\* Rows stay or go, inserts go on or are over.
Quiet ==
  /\ RowsStay
  /\ \A x \in Writers : saves'[x] = saves[x] \/ (~Saving(x)' /\ saves'[x].at = 0)
  /\ clock' >= clock

\* An insert begins, or begins again; a number that it knows is pinned.
Begun(w) ==
  /\ RowsStay
  /\ OthersStay(w)
  /\ saves'[w].phase = "begun" \/ (saves'[w].phase = "inserting" /\ saves'[w].pinned)
  /\ saves'[w].at = clock + 1
  /\ saves'[w].scope \in Scopes
  /\ saves'[w].id \in Ids
  /\ saves'[w].number \in TurnNumbers
  /\ clock' = clock + 1

\* An insert takes the next number.
Numbered(w) ==
  /\ UNCHANGED <<turns, sessions, clock>>
  /\ OthersStay(w)
  /\ saves[w].phase = "begun" /\ saves'[w].phase = "inserting"
  /\ saves'[w].at = saves[w].at /\ saves'[w].scope = saves[w].scope
  /\ saves'[w].id = saves[w].id /\ saves'[w].pinned = saves[w].pinned
  /\ IsNextTurn(saves[w].scope, saves[w].id, saves'[w].number)

\* An insert lands on a number without a row.
Landed(w) ==
  LET v == saves[w] IN
  /\ Inserting(w)
  /\ ~IsTurn(v.scope, v.id, v.number)
  /\ turns'[v.scope][v.id][v.number].at = v.at
  /\ turns'[v.scope][v.id][v.number].landed = clock
  /\ turns'[v.scope][v.id][v.number].pinned = v.pinned
  /\ \A s \in Scopes, k \in Ids, n \in TurnNumbers :
       s # v.scope \/ k # v.id \/ n # v.number => turns'[s][k][n] = turns[s][k][n]
  /\ OthersStay(w)
  /\ ~Saving(w)' /\ saves'[w].at = 0
  /\ clock' = clock

\* The rows of a scope go.
Forgotten(s) ==
  /\ \A k \in Ids, n \in TurnNumbers : turns'[s][k][n].at = 0
  /\ \A r \in Scopes \ {s} : turns'[r] = turns[r]
  /\ saves' = saves
  /\ clock' = clock

-----------------------------------------------------------------------------
(* What the types say of one row, one insert and the clock. *)
Typed ==
  /\ \A s \in Scopes, k \in Ids, n \in TurnNumbers :
       turns[s][k][n] \in TurnRow /\ turns[s][k][n].at \in Nat
  /\ \A w \in Writers :
       saves[w] \in Save /\ saves[w].at \in Nat /\ saves[w].number \in Nat
  /\ clock \in Nat

LEMMA TypesGiveTyped ==
  ASSUME ConvTypeOK
  PROVE  Typed
<1>1. \A s \in Scopes, k \in Ids, n \in TurnNumbers : turns[s][k][n] \in TurnRow
  BY DEF ConvTypeOK
<1>2. \A w \in Writers : saves[w] \in Save
  BY DEF ConvTypeOK
<1>3. clock \in Nat
  BY DEF ConvTypeOK
<1> QED
  BY <1>1, <1>2, <1>3 DEF Typed, TurnRow, Save

\* Who inserts is saving.
LEMMA InsertingSaves ==
  ASSUME NEW w \in Writers
  PROVE  /\ Inserting(w) => Saving(w)
         /\ Inserting(w)' => Saving(w)'
BY DEF Inserting, Saving

-----------------------------------------------------------------------------
(* Each kind of step preserves the invariant *)

\* Inserts that end, and writes beside the instants of the turns, disturb nothing.
LEMMA QuietKeepsOrder ==
  ASSUME OrderInv, ConvTypeOK', Quiet
  PROVE  OrderInv'
<1>0. Typed /\ clock' \in Nat
  BY TypesGiveTyped DEF OrderInv, ConvTypeOK
<1>1. NothingAhead'
  <2>1. \A s \in Scopes, k \in Ids, n \in TurnNumbers : turns'[s][k][n].at <= clock'
    BY <1>0 DEF OrderInv, NothingAhead, Quiet, RowsStay, Typed
  <2>2. \A w \in Writers : saves'[w].at <= clock'
    BY <1>0 DEF OrderInv, NothingAhead, Quiet, Typed
  <2> QED
    BY <2>1, <2>2 DEF NothingAhead
<1>2. \A w \in Writers : Saving(w)' => Saving(w) /\ saves'[w] = saves[w]
  BY DEF Quiet, Saving
<1>3. \A w \in Writers : Inserting(w)' => Inserting(w) /\ saves'[w] = saves[w]
  BY <1>2, InsertingSaves DEF Inserting
<1>4. \A s \in Scopes, k \in Ids, n \in TurnNumbers :
        /\ turns'[s][k][n].at = turns[s][k][n].at
        /\ turns'[s][k][n].landed = turns[s][k][n].landed
        /\ turns'[s][k][n].pinned = turns[s][k][n].pinned
  BY DEF Quiet, RowsStay
<1>5. \A w \in Writers : Inserting(w) => saves[w].scope \in Scopes /\ saves[w].id \in Ids
  BY InsertingSaves DEF OrderInv, SavesAreApart
<1>6. SavesAreApart'
  BY <1>2 DEF OrderInv, SavesAreApart
<1>7. PassedSince'
  <2> SUFFICES ASSUME NEW x \in Writers, NEW n \in TurnNumbers, Inserting(x)',
                      ~saves'[x].pinned, n > saves'[x].number,
                      turns'[saves'[x].scope][saves'[x].id][n].at # 0
               PROVE  saves'[x].at <= turns'[saves'[x].scope][saves'[x].id][n].landed
    BY DEF PassedSince, IsTurn
  <2>1. /\ saves'[x] = saves[x] /\ Inserting(x)
        /\ saves[x].scope \in Scopes /\ saves[x].id \in Ids
    BY <1>3, <1>5
  <2>2. /\ turns[saves[x].scope][saves[x].id][n].at # 0
        /\ turns'[saves[x].scope][saves[x].id][n].landed
             = turns[saves[x].scope][saves[x].id][n].landed
    BY <1>4, <2>1
  <2> QED
    BY <2>1, <2>2 DEF OrderInv, PassedSince, IsTurn
<1>8. RowsInOrder'
  BY <1>4 DEF OrderInv, RowsInOrder, IsTurn
<1> QED
  BY <1>1, <1>6, <1>7, <1>8 DEF OrderInv

\* An insert that begins is the latest, and has no allocated number yet.
LEMMA BeginKeepsOrder ==
  ASSUME OrderInv, ConvTypeOK', NEW w \in Writers, Begun(w)
  PROVE  OrderInv'
<1>0. Typed
  BY TypesGiveTyped DEF OrderInv
<1>1. /\ clock \in Nat /\ clock' = clock + 1 /\ saves'[w].at = clock + 1
      /\ saves'[w].scope \in Scopes /\ saves'[w].id \in Ids
      /\ saves'[w].number \in TurnNumbers
      /\ ~(Inserting(w)' /\ ~saves'[w].pinned)
  BY <1>0 DEF Begun, Typed, Inserting
<1>2. \A s \in Scopes, k \in Ids, n \in TurnNumbers :
        /\ turns'[s][k][n].at = turns[s][k][n].at
        /\ turns'[s][k][n].landed = turns[s][k][n].landed
        /\ turns'[s][k][n].pinned = turns[s][k][n].pinned
        /\ turns[s][k][n].at <= clock /\ turns[s][k][n].at \in Nat
  BY <1>0, <1>1 DEF OrderInv, NothingAhead, Begun, RowsStay, Typed
<1>3. \A x \in Writers : x # w =>
        /\ saves'[x] = saves[x]
        /\ saves[x].at <= clock /\ saves[x].at \in Nat
        /\ Saving(x)' <=> Saving(x)
        /\ Inserting(x)' <=> Inserting(x)
  BY <1>0, <1>1 DEF OrderInv, NothingAhead, Begun, OthersStay, Typed, Saving, Inserting
<1>4. \A x \in Writers : Inserting(x) => saves[x].scope \in Scopes /\ saves[x].id \in Ids
  BY InsertingSaves DEF OrderInv, SavesAreApart
<1>5. NothingAhead'
  <2>1. \A s \in Scopes, k \in Ids, n \in TurnNumbers : turns'[s][k][n].at <= clock'
    BY <1>1, <1>2
  <2>2. \A x \in Writers : saves'[x].at <= clock'
    BY <1>1, <1>3
  <2> QED
    BY <2>1, <2>2 DEF NothingAhead
<1>6. SavesAreApart'
  <2>1. \A x \in Writers : Saving(x)' =>
          /\ saves'[x].scope \in Scopes
          /\ saves'[x].id \in Ids
          /\ saves'[x].number \in TurnNumbers
          /\ saves'[x].at > 0
    BY <1>1, <1>3 DEF OrderInv, SavesAreApart
  <2>2. \A x, y \in Writers : (Saving(x)' /\ Saving(y)' /\ x # y) => saves'[x].at # saves'[y].at
    BY <1>1, <1>3 DEF OrderInv, SavesAreApart
  <2> QED
    BY <2>1, <2>2 DEF SavesAreApart
<1>7. PassedSince'
  <2> SUFFICES ASSUME NEW x \in Writers, NEW n \in TurnNumbers, Inserting(x)',
                      ~saves'[x].pinned, n > saves'[x].number,
                      turns'[saves'[x].scope][saves'[x].id][n].at # 0
               PROVE  saves'[x].at <= turns'[saves'[x].scope][saves'[x].id][n].landed
    BY DEF PassedSince, IsTurn
  <2>1. /\ saves'[x] = saves[x] /\ Inserting(x)
        /\ saves[x].scope \in Scopes /\ saves[x].id \in Ids
    BY <1>1, <1>3, <1>4
  <2>2. /\ turns[saves[x].scope][saves[x].id][n].at # 0
        /\ turns'[saves[x].scope][saves[x].id][n].landed
             = turns[saves[x].scope][saves[x].id][n].landed
    BY <1>2, <2>1
  <2> QED
    BY <2>1, <2>2 DEF OrderInv, PassedSince, IsTurn
<1>8. RowsInOrder'
  BY <1>2 DEF OrderInv, RowsInOrder, IsTurn
<1> QED
  BY <1>5, <1>6, <1>7, <1>8 DEF OrderInv

\* The next number has no row above it.
LEMMA NumberKeepsOrder ==
  ASSUME OrderInv, ConvTypeOK', NEW w \in Writers, Numbered(w)
  PROVE  OrderInv'
<1>0. Typed
  BY TypesGiveTyped DEF OrderInv
<1>1. /\ UNCHANGED <<turns, clock>>
      /\ \A x \in Writers :
           /\ saves'[x].at = saves[x].at /\ saves'[x].scope = saves[x].scope
           /\ saves'[x].id = saves[x].id /\ saves'[x].pinned = saves[x].pinned
           /\ Saving(x)' <=> Saving(x)
           /\ x # w => saves'[x] = saves[x] /\ (Inserting(x)' <=> Inserting(x))
      /\ saves'[w].number \in TurnNumbers
      /\ \A n \in TurnsOf(saves[w].scope, saves[w].id) : n < saves'[w].number
  BY DEF Numbered, OthersStay, Saving, Inserting, IsNextTurn
<1>2. NothingAhead' /\ RowsInOrder'
  BY <1>1 DEF OrderInv, NothingAhead, RowsInOrder, IsTurn
<1>3. SavesAreApart'
  BY <1>1 DEF OrderInv, SavesAreApart
<1>4. PassedSince'
  <2> SUFFICES ASSUME NEW x \in Writers, NEW n \in TurnNumbers, Inserting(x)',
                      ~saves'[x].pinned, n > saves'[x].number,
                      IsTurn(saves[x].scope, saves[x].id, n)
               PROVE  saves[x].at <= turns[saves[x].scope][saves[x].id][n].landed
    BY <1>1 DEF PassedSince, IsTurn
  <2>1. x # w
    <3> SUFFICES ASSUME x = w PROVE FALSE
      OBVIOUS
    <3>1. n < saves'[w].number
      BY <1>1 DEF TurnsOf
    <3> QED
      BY <1>1, <3>1 DEF TurnNumbers
  <2> QED
    BY <1>1, <2>1 DEF OrderInv, PassedSince
<1> QED
  BY <1>2, <1>3, <1>4 DEF OrderInv

\* A row that lands is landed now, later than what is above or below it has begun; the
\* rows above it have landed since its insert began.
LEMMA LandKeepsOrder ==
  ASSUME OrderInv, ConvTypeOK', NEW w \in Writers, Landed(w)
  PROVE  OrderInv'
<1> DEFINE a == saves[w].scope
           b == saves[w].id
           c == saves[w].number
           t == saves[w].at
<1>0. Typed
  BY TypesGiveTyped DEF OrderInv
<1>1. /\ Inserting(w) /\ a \in Scopes /\ b \in Ids /\ c \in TurnNumbers
      /\ t \in Nat /\ t > 0 /\ t <= clock
  BY <1>0, InsertingSaves DEF OrderInv, SavesAreApart, NothingAhead, Typed, Landed
<1>2. /\ clock \in Nat /\ clock' = clock
      /\ ~Saving(w)' /\ saves'[w].at = 0
      /\ turns'[a][b][c].at = t /\ turns'[a][b][c].landed = clock
      /\ turns'[a][b][c].pinned = saves[w].pinned
  BY <1>0 DEF Landed, Typed
<1>3. \A s \in Scopes, k \in Ids, n \in TurnNumbers :
        \/ s = a /\ k = b /\ n = c
        \/ turns'[s][k][n] = turns[s][k][n]
  BY DEF Landed
<1>4. \A x \in Writers : x # w =>
        /\ saves'[x] = saves[x] /\ (Saving(x)' <=> Saving(x))
        /\ Inserting(x)' <=> Inserting(x)
  BY DEF Landed, OthersStay, Saving, Inserting
<1>5. \A s \in Scopes, k \in Ids, n \in TurnNumbers :
        turns[s][k][n].at <= clock /\ turns[s][k][n].at \in Nat
  BY <1>0 DEF OrderInv, NothingAhead, Typed
<1>6. NothingAhead'
  <2>1. \A s \in Scopes, k \in Ids, n \in TurnNumbers : turns'[s][k][n].at <= clock'
    BY <1>1, <1>2, <1>3, <1>5
  <2>2. \A x \in Writers : saves'[x].at <= clock'
    BY <1>2, <1>4 DEF OrderInv, NothingAhead
  <2> QED
    BY <2>1, <2>2 DEF NothingAhead
<1>7. SavesAreApart'
  BY <1>2, <1>4 DEF OrderInv, SavesAreApart
<1>8. PassedSince'
  <2> SUFFICES ASSUME NEW x \in Writers, NEW n \in TurnNumbers, Inserting(x)',
                      ~saves'[x].pinned, n > saves'[x].number,
                      turns'[saves'[x].scope][saves'[x].id][n].at # 0
               PROVE  saves'[x].at <= turns'[saves'[x].scope][saves'[x].id][n].landed
    BY DEF PassedSince, IsTurn
  <2>1. /\ x # w /\ saves'[x] = saves[x] /\ Inserting(x) /\ saves[x].at <= clock
        /\ saves[x].scope \in Scopes /\ saves[x].id \in Ids
    BY <1>2, <1>4, InsertingSaves DEF OrderInv, SavesAreApart, NothingAhead
  <2>2. CASE saves[x].scope = a /\ saves[x].id = b /\ n = c
    BY <1>2, <2>1, <2>2
  <2>3. CASE turns'[saves[x].scope][saves[x].id][n] = turns[saves[x].scope][saves[x].id][n]
    BY <2>1, <2>3 DEF OrderInv, PassedSince, IsTurn
  <2> QED
    BY <1>3, <2>1, <2>2, <2>3
<1> HIDE DEF a, b, c, t
<1>9. RowsInOrder'
  <2> SUFFICES ASSUME NEW s \in Scopes, NEW k \in Ids, NEW m \in TurnNumbers,
                      NEW n \in TurnNumbers, turns'[s][k][m].at # 0, turns'[s][k][n].at # 0,
                      m < n, ~turns'[s][k][m].pinned
               PROVE  turns'[s][k][m].at <= turns'[s][k][n].landed
    BY DEF RowsInOrder, IsTurn
  <2>1. m # n
    BY DEF TurnNumbers
  <2>2. CASE turns'[s][k][m] = turns[s][k][m] /\ turns'[s][k][n] = turns[s][k][n]
    BY <2>2 DEF OrderInv, RowsInOrder, IsTurn
  <2>3. CASE turns'[s][k][m] = turns[s][k][m] /\ s = a /\ k = b /\ n = c
    BY <2>3, <1>2, <1>5
  <2>4. CASE s = a /\ k = b /\ m = c /\ turns'[s][k][n] = turns[s][k][n]
    <3>1. n > saves[w].number /\ ~saves[w].pinned
      BY <1>2, <2>4 DEF c, TurnNumbers
    <3>2. t <= turns[s][k][n].landed
      BY <1>1, <2>4, <3>1 DEF OrderInv, PassedSince, IsTurn, a, b, t
    <3> QED
      BY <1>2, <2>4, <3>2
  <2> QED
    BY <1>3, <2>1, <2>2, <2>3, <2>4
<1> QED
  BY <1>6, <1>7, <1>8, <1>9 DEF OrderInv

\* A purge leaves nothing of a scope that could be out of order.
LEMMA ForgetKeepsOrder ==
  ASSUME OrderInv, ConvTypeOK', NEW s \in Scopes, Forgotten(s)
  PROVE  OrderInv'
<1>1. /\ saves' = saves /\ clock' = clock /\ clock \in Nat
      /\ \A r \in Scopes, k \in Ids, n \in TurnNumbers :
           turns'[r][k][n].at = 0 \/ turns'[r][k][n] = turns[r][k][n]
  BY DEF Forgotten, OrderInv, ConvTypeOK
<1>2. \A w \in Writers : Inserting(w) => saves[w].scope \in Scopes /\ saves[w].id \in Ids
  BY InsertingSaves DEF OrderInv, SavesAreApart
<1>3. NothingAhead'
  BY <1>1 DEF OrderInv, NothingAhead
<1>4. SavesAreApart'
  BY <1>1 DEF OrderInv, SavesAreApart, Saving
<1>5. PassedSince'
  BY <1>1, <1>2 DEF OrderInv, PassedSince, IsTurn, Inserting
<1>6. RowsInOrder'
  BY <1>1 DEF OrderInv, RowsInOrder, IsTurn
<1> QED
  BY <1>3, <1>4, <1>5, <1>6 DEF OrderInv

-----------------------------------------------------------------------------
(* The steps *)

LEMMA BeginStep ==
  ASSUME OrderInv, NEW w \in Writers, NEW s \in Scopes, NEW k \in Ids, NEW n \in TurnNumbers,
         NEW pinned \in BOOLEAN, BeginSave(w, s, k, n, pinned)
  PROVE  /\ ConvTypeOK' /\ Begun(w)
         /\ saves'[w].scope = s /\ saves'[w].id = k
<1>1. saves \in [Writers -> Save] /\ clock \in Nat /\ n \in Nat
  BY DEF OrderInv, ConvTypeOK, TurnNumbers
<1> DEFINE v == [phase |-> IF pinned THEN "inserting" ELSE "begun", scope |-> s, id |-> k,
                 number |-> n, at |-> Now, pinned |-> pinned, tries |-> 1]
<1>2. saves' = [saves EXCEPT ![w] = v] /\ clock' = clock + 1 /\ Now = clock + 1
  BY DEF BeginSave, ReadNow, Now
<1>3. /\ v \in Save /\ v.at = clock + 1 /\ v.scope = s /\ v.id = k /\ v.number = n
      /\ v.phase = "begun" \/ (v.phase = "inserting" /\ v.pinned)
  BY <1>1, <1>2 DEF Save
<1> HIDE DEF v
<1>4. saves'[w] = v /\ \A x \in Writers : x # w => saves'[x] = saves[x]
  BY <1>1, <1>2
<1>5. ConvTypeOK'
  <2>1. saves' \in [Writers -> Save]
    BY <1>1, <1>2, <1>3
  <2> QED
    BY <2>1, <1>1, <1>2 DEF OrderInv, ConvTypeOK, BeginSave
<1>6. Begun(w)
  <2>1. RowsStay /\ OthersStay(w)
    BY <1>4 DEF BeginSave, RowsStay, OthersStay
  <2> QED
    BY <1>2, <1>3, <1>4, <2>1 DEF Begun
<1> QED
  BY <1>3, <1>4, <1>5, <1>6

LEMMA NumberStep ==
  ASSUME OrderInv, NEW w \in Writers, TakeNumber(w)
  PROVE  ConvTypeOK' /\ Numbered(w)
<1>1. saves \in [Writers -> Save] /\ saves[w] \in Save
  BY DEF OrderInv, ConvTypeOK
<1>2. PICK n \in TurnNumbers :
        /\ IsNextTurn(saves[w].scope, saves[w].id, n)
        /\ saves' = [saves EXCEPT ![w].number = n, ![w].phase = "inserting"]
  BY DEF TakeNumber
<1> DEFINE v1 == [saves[w] EXCEPT !.number = n]
           v2 == [v1 EXCEPT !.phase = "inserting"]
<1>3. v1 \in Save /\ v1.number = n /\ v1.at = saves[w].at /\ v1.scope = saves[w].scope
      /\ v1.id = saves[w].id /\ v1.pinned = saves[w].pinned
  BY <1>1 DEF Save, TurnNumbers
<1>4. saves' = [saves EXCEPT ![w] = v2]
  BY <1>1, <1>2
<1> HIDE DEF v1
<1>5. v2 \in Save /\ v2.phase = "inserting" /\ v2.number = n /\ v2.at = saves[w].at
      /\ v2.scope = saves[w].scope /\ v2.id = saves[w].id /\ v2.pinned = saves[w].pinned
  BY <1>3 DEF Save
<1> HIDE DEF v2
<1>6. saves'[w] = v2 /\ (\A x \in Writers : x # w => saves'[x] = saves[x])
      /\ saves' \in [Writers -> Save]
  BY <1>1, <1>4, <1>5
<1>7. saves[w].phase = "begun" /\ UNCHANGED <<turns, sessions, memories, lost, purge, erased, clock>>
  BY DEF TakeNumber
<1>8. ConvTypeOK'
  BY <1>6, <1>7 DEF OrderInv, ConvTypeOK
<1> QED
  BY <1>2, <1>5, <1>6, <1>7, <1>8 DEF Numbered, OthersStay

LEMMA RetryStep ==
  ASSUME OrderInv, NEW w \in Writers, RetrySave(w)
  PROVE  /\ ConvTypeOK' /\ Begun(w) /\ Saving(w)
         /\ saves'[w].scope = saves[w].scope /\ saves'[w].id = saves[w].id
<1>1. /\ saves \in [Writers -> Save] /\ clock \in Nat /\ saves[w] \in Save
      /\ Saving(w) /\ saves[w].scope \in Scopes /\ saves[w].id \in Ids
      /\ saves[w].tries \in Nat
  BY InsertingSaves DEF OrderInv, ConvTypeOK, SavesAreApart, RetrySave, Conflict, Save
<1>2. clock' = clock + 1 /\ Now = clock + 1
  BY DEF RetrySave, ReadNow, Now
<1> DEFINE v1 == [saves[w] EXCEPT !.phase = "begun"]
           v2 == [v1 EXCEPT !.number = 0]
           v3 == [v2 EXCEPT !.at = Now]
           v4 == [v3 EXCEPT !.tries = @ + 1]
<1>3. v1 \in Save /\ v1.phase = "begun" /\ v1.scope = saves[w].scope
      /\ v1.id = saves[w].id /\ v1.tries = saves[w].tries
  BY <1>1 DEF Save
<1>4. saves' = [saves EXCEPT ![w] = v4]
  BY <1>1 DEF RetrySave
<1> HIDE DEF v1
<1>5. v2 \in Save /\ v2.phase = "begun" /\ v2.scope = saves[w].scope
      /\ v2.id = saves[w].id /\ v2.tries = saves[w].tries /\ v2.number = 0
  BY <1>3 DEF Save
<1> HIDE DEF v2
<1>6. v3 \in Save /\ v3.phase = "begun" /\ v3.scope = saves[w].scope
      /\ v3.id = saves[w].id /\ v3.tries = saves[w].tries /\ v3.number = 0
      /\ v3.at = clock + 1
  BY <1>1, <1>2, <1>5 DEF Save
<1> HIDE DEF v3
<1>7. v4 \in Save /\ v4.phase = "begun" /\ v4.scope = saves[w].scope
      /\ v4.id = saves[w].id /\ v4.number = 0 /\ v4.at = clock + 1
  BY <1>1, <1>6 DEF Save
<1> HIDE DEF v4
<1>8. saves'[w] = v4 /\ (\A x \in Writers : x # w => saves'[x] = saves[x])
      /\ saves' \in [Writers -> Save]
  BY <1>1, <1>4, <1>7
<1>9. ConvTypeOK'
  BY <1>1, <1>2, <1>8 DEF OrderInv, ConvTypeOK, RetrySave
<1>10. RowsStay /\ OthersStay(w)
  BY <1>8 DEF RowsStay, OthersStay, RetrySave
<1>11. 0 \in TurnNumbers
  BY DEF TurnNumbers
<1> QED
  BY <1>1, <1>2, <1>7, <1>8, <1>9, <1>10, <1>11 DEF Begun

LEMMA LandStep ==
  ASSUME OrderInv, NEW w \in Writers, LandSave(w)
  PROVE  /\ ConvTypeOK' /\ Landed(w)
         /\ ~turns'[saves[w].scope][saves[w].id][saves[w].number].stamped
<1> DEFINE a == saves[w].scope
           b == saves[w].id
           c == saves[w].number
           row == RowOf(saves[w])
<1>1. /\ turns \in [Scopes -> [Ids -> [TurnNumbers -> TurnRow]]]
      /\ saves \in [Writers -> Save] /\ saves[w] \in Save /\ clock \in Nat
      /\ Inserting(w) /\ a \in Scopes /\ b \in Ids /\ c \in TurnNumbers
  BY InsertingSaves DEF OrderInv, ConvTypeOK, SavesAreApart, LandSave
<1>2. /\ turns' = [turns EXCEPT ![a][b][c] = row]
      /\ saves' = [saves EXCEPT ![w] = NoSave]
      /\ ~IsTurn(a, b, c)
      /\ UNCHANGED <<sessions, memories, lost, purge, erased, clock>>
  BY DEF LandSave, EndSave
<1>3. /\ row \in TurnRow /\ row.at = saves[w].at /\ row.landed = clock
      /\ row.pinned = saves[w].pinned /\ ~row.stamped
  BY <1>1 DEF TurnRow, Save, RowOf
<1> HIDE DEF a, b, c, row
<1>4. turns' \in [Scopes -> [Ids -> [TurnNumbers -> TurnRow]]]
  BY <1>1, <1>2, <1>3
<1>5. NoSave \in Save /\ NoSave.at = 0 /\ NoSave.phase = "idle"
  BY DEF NoSave, Save
<1>6. saves' \in [Writers -> Save] /\ saves'[w] = NoSave
      /\ \A x \in Writers : x # w => saves'[x] = saves[x]
  BY <1>1, <1>2, <1>5
<1>7. ConvTypeOK'
  BY <1>2, <1>4, <1>6 DEF OrderInv, ConvTypeOK
<1>8. /\ turns'[a][b][c] = row
      /\ \A s \in Scopes, k \in Ids, n \in TurnNumbers :
           s # a \/ k # b \/ n # c => turns'[s][k][n] = turns[s][k][n]
  BY <1>1, <1>2
<1>9. ~Saving(w)' /\ saves'[w].at = 0 /\ OthersStay(w) /\ clock' = clock
  BY <1>2, <1>5, <1>6 DEF Saving, OthersStay
<1> QED
  BY <1>1, <1>2, <1>3, <1>7, <1>8, <1>9 DEF Landed, a, b, c

LEMMA EndStep ==
  ASSUME OrderInv, NEW w \in Writers, LoseSave(w) \/ CrashSave(w)
  PROVE  ConvTypeOK' /\ Quiet
<1>1. saves \in [Writers -> Save] /\ lost \in Nat /\ clock \in Nat
  BY DEF OrderInv, ConvTypeOK
<1>2. PICK v \in {NoSave, [NoSave EXCEPT !.phase = "dead"]} : saves' = [saves EXCEPT ![w] = v]
  BY DEF LoseSave, CrashSave, EndSave
<1>3. v \in Save /\ v.phase \in {"idle", "dead"} /\ v.at = 0
  <2>1. NoSave \in Save /\ NoSave.phase = "idle" /\ NoSave.at = 0
    BY DEF NoSave, Save
  <2> DEFINE dead == [NoSave EXCEPT !.phase = "dead"]
  <2>2. dead \in Save /\ dead.phase = "dead" /\ dead.at = 0
    BY <2>1 DEF Save
  <2> QED
    BY <2>1, <2>2, <1>2
<1>4. /\ saves' \in [Writers -> Save]
      /\ saves'[w] = v /\ \A x \in Writers : x # w => saves'[x] = saves[x]
  BY <1>1, <1>2, <1>3
<1>5. lost' \in Nat /\ UNCHANGED <<turns, sessions, memories, purge, erased, clock>>
  BY <1>1 DEF LoseSave, CrashSave
<1>6. ConvTypeOK'
  BY <1>4, <1>5 DEF OrderInv, ConvTypeOK
<1>7. ~Saving(w)' /\ saves'[w].at = 0
  BY <1>3, <1>4 DEF Saving
<1>8. Quiet
  BY <1>1, <1>4, <1>5, <1>7 DEF Quiet, RowsStay
<1> QED
  BY <1>6, <1>8

LEMMA FeedbackStep ==
  ASSUME OrderInv, NEW s \in Scopes, NEW k \in Ids, NEW n \in TurnNumbers,
         NEW disliked \in BOOLEAN, SetFeedback(s, k, n, disliked)
  PROVE  ConvTypeOK' /\ Quiet
<1>1. turns \in [Scopes -> [Ids -> [TurnNumbers -> TurnRow]]] /\ clock \in Nat
  BY DEF OrderInv, ConvTypeOK
<1> DEFINE row == [turns[s][k][n] EXCEPT !.disliked = disliked]
<1>2. turns' = [turns EXCEPT ![s][k][n] = row]
  BY <1>1 DEF SetFeedback
<1>3. /\ row \in TurnRow /\ row.at = turns[s][k][n].at /\ row.landed = turns[s][k][n].landed
      /\ row.pinned = turns[s][k][n].pinned
  <2>1. turns[s][k][n] \in TurnRow
    BY <1>1
  <2> QED
    BY <2>1 DEF TurnRow
<1> HIDE DEF row
<1>4. turns' \in [Scopes -> [Ids -> [TurnNumbers -> TurnRow]]]
  BY <1>1, <1>2, <1>3
<1>5. RowsStay
  BY <1>1, <1>2, <1>3 DEF RowsStay
<1> QED
  BY <1>1, <1>4, <1>5 DEF OrderInv, ConvTypeOK, Quiet, SetFeedback

LEMMA StampStep ==
  ASSUME ConvTypeOK, NEW s \in Scopes, NEW k \in Ids, NEW ended \in Nat, Stamp(s, k, ended)
  PROVE  /\ turns' \in [Scopes -> [Ids -> [TurnNumbers -> TurnRow]]]
         /\ RowsStay
         /\ \A r \in Scopes, i \in Ids, n \in TurnNumbers :
              turns[r][i][n].stamped => turns'[r][i][n].stamped
<1>1. turns \in [Scopes -> [Ids -> [TurnNumbers -> TurnRow]]]
  BY DEF ConvTypeOK
<1> DEFINE rows == [n \in TurnNumbers |->
             IF turns[s][k][n].at # 0 /\ turns[s][k][n].at <= ended
             THEN [turns[s][k][n] EXCEPT !.stamped = TRUE] ELSE turns[s][k][n]]
<1>2. turns' = [turns EXCEPT ![s][k] = rows]
  BY DEF Stamp
<1>3. \A n \in TurnNumbers :
        /\ rows[n] \in TurnRow
        /\ rows[n].at = turns[s][k][n].at /\ rows[n].landed = turns[s][k][n].landed
        /\ rows[n].pinned = turns[s][k][n].pinned
        /\ turns[s][k][n].stamped => rows[n].stamped
  <2> SUFFICES ASSUME NEW n \in TurnNumbers
               PROVE  /\ rows[n] \in TurnRow
                      /\ rows[n].at = turns[s][k][n].at
                      /\ rows[n].landed = turns[s][k][n].landed
                      /\ rows[n].pinned = turns[s][k][n].pinned
                      /\ turns[s][k][n].stamped => rows[n].stamped
    OBVIOUS
  <2>1. turns[s][k][n] \in TurnRow
    BY <1>1
  <2>2. \/ rows[n] = [turns[s][k][n] EXCEPT !.stamped = TRUE]
        \/ rows[n] = turns[s][k][n]
    OBVIOUS
  <2> HIDE DEF rows
  <2> QED
    BY <2>1, <2>2 DEF TurnRow
<1>4. rows \in [TurnNumbers -> TurnRow]
  BY <1>3
<1> HIDE DEF rows
<1>5. turns' \in [Scopes -> [Ids -> [TurnNumbers -> TurnRow]]]
  BY <1>1, <1>2, <1>4
<1>6. \A r \in Scopes, i \in Ids, n \in TurnNumbers :
        \/ r = s /\ i = k /\ turns'[r][i][n] = rows[n]
        \/ turns'[r][i][n] = turns[r][i][n]
  BY <1>1, <1>2
<1>7. RowsStay
  <2>1. \A r \in Scopes, i \in Ids, n \in TurnNumbers :
          /\ turns'[r][i][n].at = turns[r][i][n].at
          /\ turns'[r][i][n].landed = turns[r][i][n].landed
          /\ turns'[r][i][n].pinned = turns[r][i][n].pinned
    BY <1>3, <1>6
  <2> QED
    BY <2>1 DEF RowsStay
<1>8. \A r \in Scopes, i \in Ids, n \in TurnNumbers :
        turns[r][i][n].stamped => turns'[r][i][n].stamped
  BY <1>3, <1>6
<1> QED
  BY <1>5, <1>7, <1>8

LEMMA CloseStep ==
  ASSUME OrderInv, NEW s \in Scopes, NEW k \in Ids, CloseSession(s, k)
  PROVE  ConvTypeOK' /\ Quiet
<1>1. /\ turns \in [Scopes -> [Ids -> [TurnNumbers -> TurnRow]]]
      /\ sessions \in [Ids -> SessionRow] /\ clock \in Nat
      /\ clock' = clock + 1 /\ Now = clock + 1
  BY DEF OrderInv, ConvTypeOK, CloseSession, ReadNow, Now
<1>2. /\ sessions' \in [Ids -> SessionRow]
      /\ turns' \in [Scopes -> [Ids -> [TurnNumbers -> TurnRow]]]
      /\ RowsStay
  <2>1. CASE sessions[k].scope \in {s, Nil}
    <3>1. /\ sessions' = [sessions EXCEPT ![k] = [scope |-> s, ended |-> Now]]
          /\ Stamp(s, k, Now)
      BY <2>1 DEF CloseSession
    <3>2. [scope |-> s, ended |-> Now] \in SessionRow
      BY <1>1 DEF SessionRow
    <3> QED
      BY <1>1, <3>1, <3>2, StampStep DEF OrderInv
  <2>2. CASE sessions[k].scope \notin {s, Nil}
    BY <2>2, <1>1 DEF CloseSession, RowsStay
  <2> QED
    BY <2>1, <2>2
<1> QED
  BY <1>1, <1>2 DEF OrderInv, ConvTypeOK, Quiet, CloseSession

\* A row that exists has the scope that made it.
LEMMA CloseUnscopedStep ==
  ASSUME OrderInv, NEW k \in Ids, CloseUnscoped(k)
  PROVE  ConvTypeOK' /\ Quiet
<1>1. sessions[k].scope \in Scopes /\ CloseSession(sessions[k].scope, k)
  BY DEF OrderInv, ConvTypeOK, SessionRow, CloseUnscoped
<1> QED
  BY <1>1, CloseStep

LEMMA SessionRowsStep ==
  ASSUME OrderInv, NEW s \in Scopes,
         (\E k \in Ids : CreateSession(s, k)) \/ DropSessionRows(s)
  PROVE  ConvTypeOK' /\ Quiet
<1>1. /\ sessions \in [Ids -> SessionRow] /\ memories \in [Scopes -> SUBSET Nat]
      /\ clock \in Nat /\ NoSession \in SessionRow
  BY DEF OrderInv, ConvTypeOK, NoSession, SessionRow
<1>2. sessions' \in [Ids -> SessionRow] /\ memories' \in [Scopes -> SUBSET Nat]
  <2>1. CASE \E k \in Ids : CreateSession(s, k)
    <3>1. PICK k \in Ids : CreateSession(s, k)
      BY <2>1
    <3>2. [sessions[k] EXCEPT !.scope = s] \in SessionRow
      BY <3>1 DEF CreateSession, NoSession, SessionRow
    <3> QED
      BY <1>1, <3>1, <3>2 DEF CreateSession
  <2>2. CASE DropSessionRows(s)
    BY <1>1, <2>2 DEF DropSessionRows
  <2> QED
    BY <2>1, <2>2
<1> QED
  BY <1>1, <1>2 DEF OrderInv, ConvTypeOK, Quiet, RowsStay, CreateSession, DropSessionRows

LEMMA MemorySteps ==
  ASSUME OrderInv, MemoryStep
  PROVE  ConvTypeOK' /\ Quiet
<1>1. memories \in [Scopes -> SUBSET Nat] /\ clock \in Nat
  BY DEF OrderInv, ConvTypeOK
<1>2. memories' \in [Scopes -> SUBSET Nat]
        /\ UNCHANGED <<turns, sessions, saves, lost, purge, erased, clock>>
  <2>1. ASSUME NEW s \in Scopes, NEW from \in SUBSET (1..clock), SaveMemories(s, from)
        PROVE  memories' \in [Scopes -> SUBSET Nat]
    <3>1. 1..clock \subseteq Nat /\ memories[s] \subseteq Nat
      BY <1>1
    <3>2. memories[s] \cup from \in SUBSET Nat
      BY <3>1
    <3> QED
      BY <1>1, <2>1, <3>2 DEF SaveMemories
  <2>2. ASSUME NEW s \in Scopes, NEW from, DeleteMemories(s, from)
        PROVE  memories' \in [Scopes -> SUBSET Nat]
    BY <1>1, <2>2 DEF DeleteMemories
  <2> QED
    BY <2>1, <2>2 DEF MemoryStep, SaveMemories, DeleteMemories
<1> QED
  BY <1>1, <1>2 DEF OrderInv, ConvTypeOK, Quiet, RowsStay

LEMMA EmptiedStep ==
  ASSUME OrderInv, NEW s \in Scopes, NEW tables \in SUBSET Tables, Emptied(s, tables),
         purge' \in Purge, UNCHANGED <<saves, lost, clock>>
  PROVE  ConvTypeOK' /\ (Quiet \/ Forgotten(s))
<1>1. /\ turns \in [Scopes -> [Ids -> [TurnNumbers -> TurnRow]]]
      /\ sessions \in [Ids -> SessionRow] /\ memories \in [Scopes -> SUBSET Nat]
      /\ erased \in [Scopes -> Nat] /\ clock \in Nat
      /\ NoTurn \in TurnRow /\ NoTurn.at = 0 /\ NoSession \in SessionRow
  BY DEF OrderInv, ConvTypeOK, NoTurn, TurnRow, NoSession, SessionRow
<1>2. /\ turns' \in [Scopes -> [Ids -> [TurnNumbers -> TurnRow]]]
      /\ erased' \in [Scopes -> Nat]
  <2>1. [k \in Ids |-> [n \in TurnNumbers |-> NoTurn]] \in [Ids -> [TurnNumbers -> TurnRow]]
    BY <1>1
  <2> QED
    BY <1>1, <2>1 DEF Emptied
<1>3. sessions' \in [Ids -> SessionRow] /\ memories' \in [Scopes -> SUBSET Nat]
  BY <1>1 DEF Emptied
<1>4. ConvTypeOK'
  BY <1>2, <1>3 DEF OrderInv, ConvTypeOK
<1>5. CASE "turns" \in tables
  <2>1. /\ turns' = [turns EXCEPT ![s] = [k \in Ids |-> [n \in TurnNumbers |-> NoTurn]]]
        /\ erased' = [erased EXCEPT ![s] = clock]
    BY <1>5 DEF Emptied
  <2>2. /\ \A k \in Ids, n \in TurnNumbers : turns'[s][k][n].at = 0
        /\ \A r \in Scopes \ {s} : turns'[r] = turns[r]
    BY <1>1, <2>1
  <2> QED
    BY <1>4, <2>2 DEF Forgotten
<1>6. CASE "turns" \notin tables
  BY <1>1, <1>4, <1>6 DEF Emptied, Quiet, RowsStay
<1> QED
  BY <1>5, <1>6

\* Of the steps of a purge only the one that takes the turns is no quiet one.
LEMMA PurgeSteps ==
  ASSUME OrderInv, PurgeStep
  PROVE  ConvTypeOK' /\ (Quiet \/ \E s \in Scopes : Forgotten(s))
<1>1. purge \in Purge /\ NoPurge \in Purge /\ clock \in Nat
  BY DEF OrderInv, ConvTypeOK, NoPurge, Purge
<1>2. ASSUME NEW s \in Scopes, PurgeScope(s)
      PROVE  ConvTypeOK' /\ (Quiet \/ Forgotten(s))
  <2>1. Emptied(s, Tables) /\ UNCHANGED <<saves, lost, purge, clock>>
    BY <1>2 DEF PurgeScope
  <2> QED
    BY <1>1, <2>1, EmptiedStep
<1>3. ASSUME NEW s \in Scopes, BeginPurge(s)
      PROVE  ConvTypeOK' /\ (Quiet \/ Forgotten(s))
  <2>1. purge' \in Purge /\ {"turns"} \in SUBSET Tables
    BY <1>3 DEF BeginPurge, Purge, Tables
  <2> QED
    BY <1>3, <2>1, EmptiedStep DEF BeginPurge
<1>4. CASE PurgeTable
  <2>1. /\ purge # NoPurge /\ Emptied(purge.scope, {NextTable})
        /\ UNCHANGED <<saves, lost, clock>>
    BY <1>4 DEF PurgeTable
  <2>2. {NextTable} \in SUBSET Tables
    BY DEF NextTable, Tables
  <2>3. purge.scope \in Scopes /\ [purge EXCEPT !.left = @ \ {NextTable}] \in Purge
    BY <1>1, <2>1 DEF Purge
  <2>4. purge' \in Purge
    BY <1>1, <1>4, <2>3 DEF PurgeTable
  <2> QED
    BY <2>1, <2>2, <2>3, <2>4, EmptiedStep
<1>5. CASE CrashPurge
  BY <1>1, <1>5 DEF CrashPurge, OrderInv, ConvTypeOK, Quiet, RowsStay
<1> QED
  BY <1>2, <1>3, <1>4, <1>5 DEF PurgeStep
-----------------------------------------------------------------------------
(* The theorems *)

LEMMA OrderInit ==
  ASSUME ConvInit
  PROVE  OrderInv
<1>1. NoTurn \in TurnRow /\ NoSession \in SessionRow /\ NoSave \in Save /\ NoPurge \in Purge
  BY DEF NoTurn, TurnRow, NoSession, SessionRow, NoSave, Save, NoPurge, Purge
<1>2. ConvTypeOK
  BY <1>1 DEF ConvInit, ConvTypeOK
<1>3. /\ \A s \in Scopes, k \in Ids, n \in TurnNumbers : turns[s][k][n].at = 0
      /\ \A w \in Writers : ~Saving(w) /\ saves[w].at = 0
      /\ clock = 0
  BY DEF ConvInit, NoTurn, NoSave, Saving
<1>4. NothingAhead
  BY <1>3 DEF NothingAhead
<1>5. SavesAreApart /\ PassedSince
  BY <1>3 DEF SavesAreApart, PassedSince, IsTurn, Inserting, Saving
<1>6. RowsInOrder
  BY <1>3 DEF RowsInOrder, IsTurn
<1> QED
  BY <1>2, <1>4, <1>5, <1>6 DEF OrderInv

LEMMA OrderStep ==
  ASSUME OrderInv, [ConvNext]_convVars
  PROVE  OrderInv'
<1>1. ASSUME NEW w \in Writers, NEW s \in Scopes, NEW k \in Ids, NEW n \in TurnNumbers,
             NEW pinned \in BOOLEAN, BeginSave(w, s, k, n, pinned)
      PROVE  OrderInv'
  BY <1>1, BeginStep, BeginKeepsOrder
<1>2. ASSUME NEW w \in Writers, SaveStep(w)
      PROVE  OrderInv'
  <2>1. CASE LandSave(w)
    BY <2>1, LandStep, LandKeepsOrder
  <2>2. CASE RetrySave(w)
    BY <2>2, RetryStep, BeginKeepsOrder
  <2>3. CASE LoseSave(w) \/ CrashSave(w)
    BY <2>3, EndStep, QuietKeepsOrder
  <2>4. CASE TakeNumber(w)
    BY <2>4, NumberStep, NumberKeepsOrder
  <2> QED
    BY <1>2, <2>1, <2>2, <2>3, <2>4 DEF SaveStep
<1>3. ASSUME NEW s \in Scopes, NEW k \in Ids, NEW n \in TurnNumbers,
             NEW disliked \in BOOLEAN, SetFeedback(s, k, n, disliked)
      PROVE  OrderInv'
  BY <1>3, FeedbackStep, QuietKeepsOrder
<1>4. ASSUME NEW s \in Scopes, NEW k \in Ids, CreateSession(s, k) \/ CloseSession(s, k)
      PROVE  OrderInv'
  BY <1>4, SessionRowsStep, CloseStep, QuietKeepsOrder
<1>5. ASSUME NEW k \in Ids, CloseUnscoped(k)
      PROVE  OrderInv'
  BY <1>5, CloseUnscopedStep, QuietKeepsOrder
<1>6. ASSUME NEW s \in Scopes, DropSessionRows(s)
      PROVE  OrderInv'
  BY <1>6, SessionRowsStep, QuietKeepsOrder
<1>7. CASE PurgeStep
  BY <1>7, PurgeSteps, QuietKeepsOrder, ForgetKeepsOrder
<1>8. CASE MemoryStep
  BY <1>8, MemorySteps, QuietKeepsOrder
<1>9. CASE UNCHANGED convVars
  <2>1. ConvTypeOK' /\ Quiet
    <3>1. ConvTypeOK'
      BY <1>9 DEF OrderInv, ConvTypeOK, convVars
    <3>2. clock \in Nat
      BY DEF OrderInv, ConvTypeOK
    <3> QED
      BY <1>9, <3>1, <3>2 DEF Quiet, RowsStay, convVars
  <2> QED
    BY <2>1, QuietKeepsOrder
<1> QED
  BY <1>1, <1>2, <1>3, <1>4, <1>5, <1>6, <1>7, <1>8, <1>9 DEF ConvNext

\* OrderInv holds in every reachable state.
THEOREM OrderInvariant == ConvSpec => []OrderInv
<1>1. ConvInit => OrderInv
  BY OrderInit
<1>2. OrderInv /\ [ConvNext]_convVars => OrderInv'
  BY OrderStep
<1> QED
  BY <1>1, <1>2, PTL DEF ConvSpec

\* Every reachable state has its types.
THEOREM ConvTypeCorrect == ConvSpec => []ConvTypeOK
<1>1. OrderInv => ConvTypeOK
  BY DEF OrderInv
<1> QED
  BY <1>1, OrderInvariant, PTL

\* A turn that begins after another of its session was saved comes after it in the transcript,
\* however many processes allocate numbers, race, retry, die, pin numbers of their own, or
\* purge (postgres.py, save_turn).
THEOREM TranscriptsInOrder == ConvSpec => []TurnsInOrder
<1>1. OrderInv => TurnsInOrder
  BY DEF OrderInv, RowsInOrder, TurnsInOrder, TurnsOf
<1> QED
  BY <1>1, OrderInvariant, PTL

-----------------------------------------------------------------------------
(* What a step may never do *)

\* What one step does to one row: it stays, its marks change, it goes, or it comes.
RowStep(s, k, n) ==
  LET old == turns[s][k][n]
      new == turns'[s][k][n] IN
  \/ /\ new.at = old.at
     /\ old.stamped => new.stamped
     /\ (~old.stamped /\ new.stamped) => sessions'[k].scope = s
  \/ new.at = 0 /\ ~new.stamped
  \/ old.at = 0

\* What one step does to the sessions row of an id.
SessionStep(k) ==
  \/ sessions'[k] = sessions[k]
  \/ sessions'[k] = NoSession
  \/ sessions[k] = NoSession
  \/ sessions'[k].scope = sessions[k].scope

LEMMA CloseRows ==
  ASSUME ConvTypeOK, NEW s \in Scopes, NEW k \in Ids, CloseSession(s, k)
  PROVE  /\ \A r \in Scopes, i \in Ids, n \in TurnNumbers : RowStep(r, i, n)
         /\ \A i \in Ids : SessionStep(i)
<1>1. /\ turns \in [Scopes -> [Ids -> [TurnNumbers -> TurnRow]]]
      /\ sessions \in [Ids -> SessionRow] /\ Now \in Nat
  BY DEF ConvTypeOK, Now
<1>2. CASE sessions[k].scope \in {s, Nil}
  <2>1. /\ sessions' = [sessions EXCEPT ![k] = [scope |-> s, ended |-> Now]]
        /\ Stamp(s, k, Now)
    BY <1>2 DEF CloseSession
  <2>2. RowsStay /\ \A r \in Scopes, i \in Ids, n \in TurnNumbers :
          turns[r][i][n].stamped => turns'[r][i][n].stamped
    BY <1>1, <2>1, StampStep
  <2>3. \A r \in Scopes, i \in Ids : r # s \/ i # k => turns'[r][i] = turns[r][i]
    BY <1>1, <2>1 DEF Stamp
  <2>4. sessions'[k].scope = s /\ \A i \in Ids : i # k => sessions'[i] = sessions[i]
    BY <1>1, <2>1
  <2>5. \A r \in Scopes, i \in Ids, n \in TurnNumbers : RowStep(r, i, n)
    BY <2>2, <2>3, <2>4 DEF RowStep, RowsStay
  <2>6. sessions[k].scope = Nil => sessions[k] = NoSession
    BY <1>1, ConversationAssumption DEF SessionRow
  <2>7. \A i \in Ids : SessionStep(i)
    BY <1>2, <2>4, <2>6 DEF SessionStep
  <2> QED
    BY <2>5, <2>7
<1>3. CASE sessions[k].scope \notin {s, Nil}
  BY <1>3 DEF CloseSession, RowStep, SessionStep
<1> QED
  BY <1>2, <1>3

LEMMA EmptiedRows ==
  ASSUME ConvTypeOK, NEW s \in Scopes, NEW tables, Emptied(s, tables)
  PROVE  /\ \A r \in Scopes, i \in Ids, n \in TurnNumbers : RowStep(r, i, n)
         /\ \A i \in Ids : SessionStep(i)
<1>1. /\ turns \in [Scopes -> [Ids -> [TurnNumbers -> TurnRow]]]
      /\ sessions \in [Ids -> SessionRow]
  BY DEF ConvTypeOK
<1>2. \A r \in Scopes, i \in Ids, n \in TurnNumbers :
        turns'[r][i][n] = turns[r][i][n] \/ turns'[r][i][n] = NoTurn
  BY <1>1 DEF Emptied
<1>3. \A r \in Scopes, i \in Ids, n \in TurnNumbers : RowStep(r, i, n)
  BY <1>2 DEF RowStep, NoTurn
<1>4. \A i \in Ids : SessionStep(i)
  BY <1>1 DEF Emptied, SessionStep
<1> QED
  BY <1>3, <1>4

LEMMA RowsAndSessions ==
  ASSUME OrderInv, [ConvNext]_convVars
  PROVE  /\ \A r \in Scopes, i \in Ids, m \in TurnNumbers : RowStep(r, i, m)
         /\ \A i \in Ids : SessionStep(i)
<1> DEFINE Both == /\ \A r \in Scopes, i \in Ids, m \in TurnNumbers : RowStep(r, i, m)
                   /\ \A i \in Ids : SessionStep(i)
<1>0. ConvTypeOK /\ turns \in [Scopes -> [Ids -> [TurnNumbers -> TurnRow]]]
      /\ sessions \in [Ids -> SessionRow]
  BY DEF OrderInv, ConvTypeOK
<1>1. ASSUME UNCHANGED <<turns, sessions>> PROVE Both
  BY <1>1 DEF RowStep, SessionStep
<1>2. ASSUME NEW w \in Writers, LandSave(w) PROVE Both
  <2>1. Landed(w) /\ UNCHANGED sessions
    BY <1>2, LandStep DEF LandSave
  <2>2. \A r \in Scopes, i \in Ids, m \in TurnNumbers :
          turns'[r][i][m] = turns[r][i][m] \/ turns[r][i][m].at = 0
    BY <2>1 DEF Landed, IsTurn
  <2> QED
    BY <2>1, <2>2 DEF RowStep, SessionStep
<1>3. ASSUME NEW s \in Scopes, NEW k \in Ids, NEW n \in TurnNumbers,
             NEW disliked \in BOOLEAN, SetFeedback(s, k, n, disliked)
      PROVE  Both
  <2>1. turns' = [turns EXCEPT ![s][k][n].disliked = disliked] /\ UNCHANGED sessions
    BY <1>3 DEF SetFeedback
  <2>2. turns[s][k][n] \in TurnRow
    BY <1>0
  <2>3. \A r \in Scopes, i \in Ids, m \in TurnNumbers :
          /\ turns'[r][i][m].at = turns[r][i][m].at
          /\ turns'[r][i][m].stamped = turns[r][i][m].stamped
    BY <1>0, <2>1, <2>2 DEF TurnRow
  <2>4. \A r \in Scopes, i \in Ids, m \in TurnNumbers : RowStep(r, i, m)
    BY <2>3, Zenon DEF RowStep
  <2>5. \A i \in Ids : SessionStep(i)
    BY <2>1 DEF SessionStep
  <2> QED
    BY <2>4, <2>5
<1>4. ASSUME NEW s \in Scopes, NEW k \in Ids, CreateSession(s, k) PROVE Both
  BY <1>0, <1>4 DEF CreateSession, RowStep, SessionStep
<1>5. ASSUME NEW s \in Scopes, NEW k \in Ids, CloseSession(s, k) PROVE Both
  BY <1>0, <1>5, CloseRows
<1>6. ASSUME NEW k \in Ids, CloseUnscoped(k) PROVE Both
  <2>1. sessions[k].scope \in Scopes
    BY <1>0, <1>6 DEF CloseUnscoped, SessionRow
  <2> QED
    BY <1>0, <1>6, <2>1, CloseRows DEF CloseUnscoped
<1>7. ASSUME NEW s \in Scopes, DropSessionRows(s) PROVE Both
  BY <1>0, <1>7 DEF DropSessionRows, RowStep, SessionStep
<1>8. ASSUME NEW s \in Scopes, PurgeScope(s) \/ BeginPurge(s) PROVE Both
  BY <1>0, <1>8, EmptiedRows DEF PurgeScope, BeginPurge
<1>9. ASSUME PurgeTable PROVE Both
  <2>1. purge.scope \in Scopes /\ Emptied(purge.scope, {NextTable})
    BY <1>9 DEF PurgeTable, OrderInv, ConvTypeOK, Purge
  <2> QED
    BY <1>0, <2>1, EmptiedRows
<1>10. ASSUME NEW w \in Writers,
              TakeNumber(w) \/ RetrySave(w) \/ LoseSave(w) \/ CrashSave(w)
       PROVE  UNCHANGED <<turns, sessions>>
  BY <1>10 DEF TakeNumber, RetrySave, LoseSave, CrashSave
<1>11. ASSUME NEW w \in Writers, NEW s \in Scopes, NEW k \in Ids, NEW n \in TurnNumbers,
              NEW pinned \in BOOLEAN, BeginSave(w, s, k, n, pinned)
       PROVE  UNCHANGED <<turns, sessions>>
  BY <1>11 DEF BeginSave
<1>12. ASSUME CrashPurge \/ MemoryStep \/ UNCHANGED convVars
       PROVE  UNCHANGED <<turns, sessions>>
  BY <1>12 DEF CrashPurge, MemoryStep, SaveMemories, DeleteMemories, convVars
<1> HIDE DEF Both
<1>13. Both
  BY <1>1, <1>2, <1>3, <1>4, <1>5, <1>6, <1>7, <1>8, <1>9, <1>10, <1>11, <1>12
     DEF ConvNext, SaveStep, PurgeStep
<1> QED
  BY <1>13 DEF Both

\* A row is never another turn's, and no mark is taken back (postgres.py, save_turn
\* and close_session).
THEOREM NeverReplaced == ConvSpec => TurnsAreNeverReplaced
<1>1. ASSUME OrderInv, [ConvNext]_convVars
      PROVE  [\A s \in Scopes, k \in Ids, n \in TurnNumbers :
                (IsTurn(s, k, n) /\ IsTurn(s, k, n)') =>
                  /\ turns'[s][k][n].at = turns[s][k][n].at
                  /\ turns[s][k][n].stamped => turns'[s][k][n].stamped]_convVars
  BY <1>1, RowsAndSessions DEF RowStep, IsTurn
<1> QED
  BY <1>1, OrderInvariant, PTL DEF ConvSpec, TurnsAreNeverReplaced

\* A close never stamps the turns of another scope that has the session id, nor
\* takes its sessions row (postgres.py, close_session).
THEOREM CloseKeeps == ConvSpec => CloseKeepsToItsScope
<1>1. ASSUME OrderInv, [ConvNext]_convVars
      PROVE  [\A k \in Ids, s \in Scopes :
                LET stamped == \E n \in TurnsOf(s, k) :
                                 ~turns[s][k][n].stamped /\ turns'[s][k][n].stamped IN
                /\ stamped => sessions'[k].scope = s
                /\ (sessions[k].scope = s /\ sessions'[k].scope # s) =>
                     sessions'[k] = NoSession]_convVars
  <2>1. \A k \in Ids, s \in Scopes : \A n \in TurnsOf(s, k) :
          ~turns[s][k][n].stamped /\ turns'[s][k][n].stamped => sessions'[k].scope = s
    BY <1>1, RowsAndSessions DEF RowStep, TurnsOf, IsTurn
  <2>2. \A k \in Ids, s \in Scopes :
          (sessions[k].scope = s /\ sessions'[k].scope # s) => sessions'[k] = NoSession
    BY <1>1, RowsAndSessions, ConversationAssumption DEF SessionStep, NoSession
  <2> QED
    BY <2>1, <2>2
<1> QED
  BY <1>1, OrderInvariant, PTL DEF ConvSpec, CloseKeepsToItsScope

\* A save that ends while its process lives has left its row, or a counted loss
\* (write_loss.py).
THEOREM NothingLostQuietly == ConvSpec => NoSilentLoss
<1> DEFINE Told(w) ==
      LET v == saves[w] IN
      (Saving(w) /\ saves'[w].phase = "idle") =>
        turns'[v.scope][v.id][v.number].at = v.at \/ lost' = lost + 1
<1>1. ASSUME OrderInv, [ConvNext]_convVars
      PROVE  [\A w \in Writers : Told(w)]_convVars
  <2>1. saves \in [Writers -> Save]
    BY <1>1 DEF OrderInv, ConvTypeOK
  <2> SUFFICES ASSUME NEW w \in Writers, Saving(w), saves'[w].phase = "idle"
               PROVE  \/ turns'[saves[w].scope][saves[w].id][saves[w].number].at = saves[w].at
                      \/ lost' = lost + 1
    OBVIOUS
  <2>2. saves'[w] # saves[w]
    BY DEF Saving
  <2>3. ASSUME NEW x \in Writers, NEW s \in Scopes, NEW k \in Ids, NEW n \in TurnNumbers,
               NEW pinned \in BOOLEAN, BeginSave(x, s, k, n, pinned)
        PROVE  FALSE
    BY <2>1, <2>2, <2>3 DEF BeginSave, Saving
  <2>4. ASSUME NEW x \in Writers, SaveStep(x)
        PROVE  \/ turns'[saves[w].scope][saves[w].id][saves[w].number].at = saves[w].at
               \/ lost' = lost + 1
    <3>1. CASE LandSave(x)
      <4>1. Landed(x)
        BY <1>1, <3>1, LandStep
      <4> QED
        BY <2>2, <4>1 DEF Landed, OthersStay
    <3>2. CASE RetrySave(x)
      <4>1. Begun(x)
        BY <1>1, <3>2, RetryStep
      <4> QED
        BY <2>2, <4>1 DEF Begun, OthersStay
    <3>3. CASE LoseSave(x)
      BY <3>3 DEF LoseSave
    <3>4. CASE CrashSave(x)
      BY <2>1, <2>2, <3>4 DEF CrashSave
    <3>5. CASE TakeNumber(x)
      <4>1. Numbered(x)
        BY <1>1, <3>5, NumberStep
      <4> QED
        BY <2>2, <4>1 DEF Numbered, OthersStay
    <3> QED
      BY <2>4, <3>1, <3>2, <3>3, <3>4, <3>5 DEF SaveStep
  <2>5. ASSUME UNCHANGED saves PROVE FALSE
    BY <2>2, <2>5
  <2> QED
    BY <1>1, <2>3, <2>4, <2>5
       DEF ConvNext, SetFeedback, CreateSession, CloseSession, CloseUnscoped, DropSessionRows,
           MemoryStep, SaveMemories, DeleteMemories,
           PurgeStep, PurgeScope, BeginPurge, PurgeTable, CrashPurge, convVars
<1> QED
  BY <1>1, OrderInvariant, PTL DEF ConvSpec, NoSilentLoss

-----------------------------------------------------------------------------
(* Consolidation *)

HIDE ConversationAssumption
USE HypnosAssumption

\* What a job holds was begun before now, and a job under way has a session.
Held ==
  \A j \in Janitors \cup Callers :
    /\ jobs[j].liked \subseteq 1..clock
    /\ jobs[j].phase \in {"think", "close"} => jobs[j].on \in Groups

HypnosInv == OrderInv /\ HypnosTypeOK /\ Held

-----------------------------------------------------------------------------
(* The clock and the turns *)

LEMMA ClockGrows ==
  ASSUME OrderInv, [ConvNext]_convVars
  PROVE  clock' \in Nat /\ clock' >= clock
<1>1. OrderInv'
  BY OrderStep
<1>2. clock \in Nat /\ clock' \in Nat
  BY <1>1 DEF OrderInv, ConvTypeOK
<1>3. clock' = clock \/ clock' = clock + 1
  BY DEF ConvNext, BeginSave, SaveStep, TakeNumber, LandSave, RetrySave, LoseSave, CrashSave, SetFeedback,
         CreateSession, CloseSession, CloseUnscoped, DropSessionRows, MemoryStep, SaveMemories,
         DeleteMemories, PurgeStep, PurgeScope, BeginPurge, PurgeTable, CrashPurge, ReadNow,
         Now, convVars
<1> QED
  BY <1>2, <1>3

\* A transcript holds turns that were begun.
LEMMA LoadedTurns ==
  ASSUME OrderInv, NEW s \in Scopes, NEW k \in Ids
  PROVE  LoadOf(s, k) \subseteq 1..clock /\ LikedOf(s, k) \subseteq 1..clock
<1>1. Typed
  BY TypesGiveTyped DEF OrderInv
<1>2. \A n \in TurnsOf(s, k) : turns[s][k][n].at \in 1..clock
  BY <1>1 DEF OrderInv, NothingAhead, TurnsOf, IsTurn, Typed
<1> QED
  BY <1>2 DEF LoadOf, LikedOf

-----------------------------------------------------------------------------
(* The jobs *)

LEMMA NextOfTyped ==
  ASSUME NEW job \in Job
  PROVE  NextOf(job) \in Job /\ NextOf(job).liked = {} /\ NextOf(job).phase \in {"idle", "pick"}
BY DEF NextOf, NoJob, Job

\* What one job becomes keeps the invariant of the jobs, when the clock has not gone
\* back.
LEMMA JobKeepsHeld ==
  ASSUME HypnosInv, NEW j \in Janitors \cup Callers, NEW job \in Job,
         jobs' = [jobs EXCEPT ![j] = job],
         clock' \in Nat, clock' >= clock,
         job.liked \subseteq 1..clock,
         job.phase \in {"think", "close"} => job.on \in Groups
  PROVE  jobs' \in [Janitors \cup Callers -> Job] /\ Held'
<1>1. jobs \in [Janitors \cup Callers -> Job] /\ clock \in Nat
  BY DEF HypnosInv, HypnosTypeOK, ConvTypeOK
<1>2. 1..clock \subseteq 1..clock'
  BY <1>1
<1> QED
  BY <1>1, <1>2 DEF HypnosInv, Held

LEMMA LoadStep ==
  ASSUME HypnosInv, NEW j \in Janitors \cup Callers, NEW g \in Groups, NEW close \in BOOLEAN,
         Load(j, g, close)
  PROVE  HypnosInv' /\ UNCHANGED convVars
<1>1. jobs[j] \in Job /\ jobs \in [Janitors \cup Callers -> Job] /\ clock \in Nat
  BY DEF HypnosInv, HypnosTypeOK, ConvTypeOK
<1>2. g[1] \in Scopes /\ g[2] \in Ids
  BY DEF Groups
<1> DEFINE job == [phase |-> IF LikedOf(g[1], g[2]) = {} /\ close THEN "close" ELSE "think",
                   todo |-> jobs[j].todo \ {g}, on |-> g, close |-> close,
                   read |-> LoadOf(g[1], g[2]), liked |-> LikedOf(g[1], g[2])]
<1>3. LoadOf(g[1], g[2]) \subseteq 1..clock /\ LikedOf(g[1], g[2]) \subseteq 1..clock
  BY <1>2, LoadedTurns DEF HypnosInv
<1>4. job \in Job
  <2>1. jobs[j].todo \ {g} \in SUBSET Groups
    BY <1>1 DEF Job
  <2>2. LoadOf(g[1], g[2]) \in SUBSET Nat /\ LikedOf(g[1], g[2]) \in SUBSET Nat
    BY <1>1, <1>3
  <2>3. (IF LikedOf(g[1], g[2]) = {} /\ close THEN "close" ELSE "think")
          \in {"idle", "pick", "think", "close"}
    OBVIOUS
  <2> QED
    BY <2>1, <2>2, <2>3 DEF Job
<1>5. jobs' = [jobs EXCEPT ![j] = job] /\ UNCHANGED <<convVars, known, faults>>
  BY DEF Load
<1>6. job.liked \subseteq 1..clock /\ job.on \in Groups
  BY <1>3
<1> HIDE DEF job
<1>7. jobs' \in [Janitors \cup Callers -> Job] /\ Held'
  <2>1. clock' = clock
    BY <1>5 DEF convVars
  <2>2. clock' \in Nat /\ clock' >= clock
    BY <2>1, <1>1
  <2> QED
    BY <1>4, <1>5, <1>6, <2>2, JobKeepsHeld
<1>8. OrderInv'
  BY <1>5, OrderStep DEF HypnosInv
<1> QED
  BY <1>5, <1>7, <1>8 DEF HypnosInv, HypnosTypeOK, OrderInv

LEMMA ScanStep ==
  ASSUME HypnosInv, NEW j \in Janitors, Scan(j)
  PROVE  HypnosInv' /\ UNCHANGED convVars
<1>1. jobs \in [Janitors \cup Callers -> Job] /\ clock \in Nat
  BY DEF HypnosInv, HypnosTypeOK, ConvTypeOK
<1>2. PICK S \in SUBSET Groups :
        jobs' = [jobs EXCEPT ![j].phase = "pick", ![j].todo = S]
  BY DEF Scan, Idle
<1>3. jobs[j] = NoJob /\ UNCHANGED <<convVars, known, faults>>
  BY DEF Scan
<1> DEFINE job == [NoJob EXCEPT !.phase = "pick", !.todo = S]
<1>4. job \in Job /\ job.liked = {} /\ job.phase = "pick"
  <2> DEFINE picking == [NoJob EXCEPT !.phase = "pick"]
  <2>1. NoJob \in Job /\ NoJob.liked = {}
    BY DEF NoJob, Job
  <2>2. picking \in Job /\ picking.liked = {} /\ picking.phase = "pick"
    BY <2>1 DEF Job
  <2>3. job = [picking EXCEPT !.todo = S]
    OBVIOUS
  <2> HIDE DEF picking, job
  <2> QED
    BY <1>2, <2>2, <2>3 DEF Job
<1>5. jobs' = [jobs EXCEPT ![j] = job]
  BY <1>1, <1>2, <1>3
<1> HIDE DEF job
<1>6. jobs' \in [Janitors \cup Callers -> Job] /\ Held'
  <2>1. clock' = clock
    BY <1>3 DEF convVars
  <2>2. clock' \in Nat /\ clock' >= clock
    BY <2>1, <1>1
  <2>3. job.liked \subseteq 1..clock
    BY <1>4
  <2>4. job.phase \in {"think", "close"} => job.on \in Groups
    BY <1>4
  <2> QED
    BY <1>4, <1>5, <2>2, <2>3, <2>4, JobKeepsHeld
<1>7. OrderInv'
  BY <1>3, OrderStep DEF HypnosInv
<1> QED
  BY <1>3, <1>6, <1>7 DEF HypnosInv, HypnosTypeOK, OrderInv

\* A step of the store that ends or goes on with a job.
LEMMA StoreStepOfJob ==
  ASSUME HypnosInv, NEW j \in Janitors \cup Callers, NEW job \in Job,
         jobs' = [jobs EXCEPT ![j] = job],
         job.liked \subseteq 1..clock,
         job.phase \in {"think", "close"} => job.on \in Groups,
         [ConvNext]_convVars,
         known' \in [Scopes -> SUBSET Nat], faults' \in Nat
  PROVE  HypnosInv'
<1>1. OrderInv' /\ clock' \in Nat /\ clock' >= clock
  BY OrderStep, ClockGrows DEF HypnosInv
<1>2. jobs' \in [Janitors \cup Callers -> Job] /\ Held'
  BY <1>1, JobKeepsHeld
<1> QED
  BY <1>1, <1>2 DEF HypnosInv, HypnosTypeOK, OrderInv

LEMMA ExtractStep ==
  ASSUME HypnosInv, NEW j \in Janitors \cup Callers, Extract(j)
  PROVE  HypnosInv' /\ [ConvNext]_convVars
<1>1. /\ jobs \in [Janitors \cup Callers -> Job] /\ jobs[j] \in Job
      /\ known \in [Scopes -> SUBSET Nat] /\ faults \in Nat /\ clock \in Nat
  BY DEF HypnosInv, HypnosTypeOK, ConvTypeOK
<1>2. jobs[j].on \in Groups /\ jobs[j].liked \subseteq 1..clock
  BY DEF HypnosInv, Held, Extract
<1>3. PICK from \in {{}, jobs[j].liked} : SaveMemories(jobs[j].on[1], from)
  BY DEF Extract
<1>4. from \in SUBSET (1..clock) /\ jobs[j].on[1] \in Scopes
  BY <1>2, <1>3 DEF Groups
<1>5. ConvNext
  BY <1>3, <1>4 DEF ConvNext, MemoryStep
<1> DEFINE job == IF jobs[j].close THEN [jobs[j] EXCEPT !.phase = "close"] ELSE NextOf(jobs[j])
<1>6. jobs' = [jobs EXCEPT ![j] = job] /\ UNCHANGED <<known, faults>>
  BY DEF Extract
<1>7. /\ job \in Job /\ job.liked \subseteq 1..clock
      /\ job.phase \in {"think", "close"} => job.on \in Groups
  BY <1>1, <1>2, NextOfTyped DEF Job
<1> HIDE DEF job
<1>8. HypnosInv'
  BY <1>1, <1>5, <1>6, <1>7, StoreStepOfJob
<1> QED
  BY <1>5, <1>8

LEMMA CloseJobStep ==
  ASSUME HypnosInv, NEW j \in Janitors \cup Callers, Close(j)
  PROVE  HypnosInv' /\ [ConvNext]_convVars
<1>1. /\ jobs \in [Janitors \cup Callers -> Job] /\ jobs[j] \in Job
      /\ known \in [Scopes -> SUBSET Nat] /\ faults \in Nat
  BY DEF HypnosInv, HypnosTypeOK
<1>2. jobs[j].on \in Groups /\ CloseSession(jobs[j].on[1], jobs[j].on[2])
  BY DEF HypnosInv, Held, Close
<1>3. ConvNext
  BY <1>2 DEF ConvNext, Groups
<1>4. known' \in [Scopes -> SUBSET Nat]
  <2>1. \A s \in Scopes : known[s] \cup jobs[j].read \in SUBSET Nat
    BY <1>1 DEF Job
  <2> QED
    BY <1>1, <2>1 DEF Close
<1>5. jobs' = [jobs EXCEPT ![j] = NextOf(jobs[j])] /\ faults' = faults
  BY DEF Close
<1>6. NextOf(jobs[j]) \in Job /\ NextOf(jobs[j]).liked = {}
      /\ NextOf(jobs[j]).phase \in {"idle", "pick"}
  BY <1>1, NextOfTyped
<1>7. HypnosInv'
  BY <1>1, <1>3, <1>4, <1>5, <1>6, StoreStepOfJob
<1> QED
  BY <1>3, <1>7

LEMMA StopStep ==
  ASSUME HypnosInv, NEW j \in Janitors \cup Callers, FailJob(j) \/ CrashJob(j)
  PROVE  HypnosInv' /\ UNCHANGED convVars
<1>1. /\ jobs \in [Janitors \cup Callers -> Job] /\ jobs[j] \in Job
      /\ known \in [Scopes -> SUBSET Nat] /\ faults \in Nat /\ faults + 1 \in Nat
  BY DEF HypnosInv, HypnosTypeOK
<1>2. /\ UNCHANGED convVars /\ known' = known /\ faults' = faults + 1
      /\ jobs' = [jobs EXCEPT ![j] = NextOf(jobs[j])] \/ jobs' = [jobs EXCEPT ![j] = NoJob]
  BY DEF FailJob, CrashJob
<1>3. NoJob \in Job /\ NoJob.liked = {} /\ NoJob.phase = "idle"
  BY DEF NoJob, Job
<1>4. PICK job \in {NoJob, NextOf(jobs[j])} : jobs' = [jobs EXCEPT ![j] = job]
  BY <1>2
<1>5. job \in Job /\ job.liked = {} /\ job.phase \in {"idle", "pick"}
  BY <1>1, <1>3, <1>4, NextOfTyped
<1>6. HypnosInv'
  BY <1>1, <1>2, <1>4, <1>5, StoreStepOfJob
<1> QED
  BY <1>2, <1>6

-----------------------------------------------------------------------------
(* The theorems *)

\* What the host does to the store beside its jobs is what Conversations allows.
LEMMA HostStepIsStoreStep ==
  ASSUME HypnosInv, HostStep
  PROVE  ConvNext
<1>1. ASSUME NEW s \in Scopes, NEW from \in SUBSET memories[s], DeleteMemories(s, from)
      PROVE  ConvNext
  BY <1>1 DEF ConvNext, MemoryStep
<1> QED
  BY <1>1 DEF HostStep, ConvNext

LEMMA HypnosStep ==
  ASSUME HypnosInv, [HypnosNext]_hypnosVars
  PROVE  HypnosInv' /\ [ConvNext]_convVars
<1>1. ASSUME NEW j \in Janitors, Scan(j)
      PROVE  HypnosInv' /\ [ConvNext]_convVars
  BY <1>1, ScanStep
<1>2. ASSUME NEW j \in Callers, Periodic(j)
      PROVE  HypnosInv' /\ [ConvNext]_convVars
  <2>1. PICK g \in Groups : Load(j, g, FALSE)
    BY <1>2 DEF Periodic
  <2> QED
    BY <2>1, LoadStep
<1>3. ASSUME NEW j \in Janitors \cup Callers, JobStep(j)
      PROVE  HypnosInv' /\ [ConvNext]_convVars
  <2>1. CASE Consolidate(j)
    <3>1. jobs[j].todo \subseteq Groups
      BY DEF HypnosInv, HypnosTypeOK, Job
    <3>2. PICK g \in Groups : Load(j, g, TRUE)
      BY <2>1, <3>1 DEF Consolidate
    <3> QED
      BY <3>2, LoadStep
  <2>2. CASE Extract(j) \/ Close(j)
    BY <2>2, ExtractStep, CloseJobStep
  <2> QED
    BY <1>3, <2>1, <2>2 DEF JobStep
<1>4. ASSUME NEW j \in Janitors \cup Callers, FailJob(j) \/ CrashJob(j)
      PROVE  HypnosInv' /\ [ConvNext]_convVars
  BY <1>4, StopStep
<1>5. ASSUME [ConvNext]_convVars, UNCHANGED <<jobs, known, faults>>
      PROVE  HypnosInv'
  <2>1. OrderInv' /\ clock' \in Nat /\ clock' >= clock /\ clock \in Nat
    BY <1>5, OrderStep, ClockGrows DEF HypnosInv, HypnosTypeOK, ConvTypeOK
  <2>2. 1..clock \subseteq 1..clock'
    BY <2>1
  <2>3. Held'
    BY <1>5, <2>2 DEF HypnosInv, Held
  <2> QED
    BY <1>5, <2>1, <2>3 DEF HypnosInv, HypnosTypeOK, OrderInv
<1>6. CASE HostStep /\ UNCHANGED <<jobs, known, faults>>
  BY <1>5, <1>6, HostStepIsStoreStep
<1>7. CASE UNCHANGED hypnosVars
  <2>1. UNCHANGED convVars /\ UNCHANGED <<jobs, known, faults>>
    BY <1>7 DEF hypnosVars, convVars
  <2> QED
    BY <1>5, <2>1
<1> QED
  BY <1>1, <1>2, <1>3, <1>4, <1>6, <1>7 DEF HypnosNext

LEMMA HypnosBegins ==
  ASSUME HypnosInit
  PROVE  HypnosInv
<1>1. OrderInv
  BY OrderInit DEF HypnosInit
<1>2. NoJob \in Job /\ NoJob.liked = {} /\ NoJob.phase = "idle"
  BY DEF NoJob, Job
<1>3. HypnosTypeOK
  BY <1>1, <1>2 DEF HypnosInit, HypnosTypeOK, OrderInv
<1>4. Held
  BY <1>2 DEF HypnosInit, Held
<1> QED
  BY <1>1, <1>3, <1>4 DEF HypnosInv

\* The tables and the jobs keep their types, and jobs hold turns that were begun.
THEOREM HypnosInvariant == HypnosSpec => []HypnosInv
<1>1. HypnosInit => HypnosInv
  BY HypnosBegins
<1>2. HypnosInv /\ [HypnosNext]_hypnosVars => HypnosInv'
  BY HypnosStep
<1> QED
  BY <1>1, <1>2, PTL DEF HypnosSpec

\* Every reachable state of the consolidation has its types.
THEOREM HypnosTypeCorrect == HypnosSpec => []HypnosTypeOK
<1>1. HypnosInv => HypnosTypeOK
  BY DEF HypnosInv
<1> QED
  BY <1>1, HypnosInvariant, PTL

\* Each step of a consolidation, its failures included, is one operation of the
\* store or leaves the store alone (hypnos.py, consolidate_session and
\* periodic_consolidate).
THEOREM HypnosImplementsConversations == HypnosSpec => ConvSpec
<1>1. HypnosInit => ConvInit
  BY DEF HypnosInit
<1>2. HypnosInv /\ [HypnosNext]_hypnosVars => [ConvNext]_convVars
  BY HypnosStep
<1> QED
  BY <1>1, <1>2, HypnosInvariant, PTL DEF HypnosSpec, ConvSpec

\* The transcripts consolidation reads are in order, no row of theirs becomes
\* another, a close keeps to its scope and no turn is lost uncounted, with the lock or
\* without it.
THEOREM HypnosKeepsConversations ==
  HypnosSpec =>
    []TurnsInOrder /\ TurnsAreNeverReplaced /\ CloseKeepsToItsScope /\ NoSilentLoss
BY HypnosImplementsConversations, TranscriptsInOrder, NeverReplaced, CloseKeeps,
   NothingLostQuietly


-----------------------------------------------------------------------------
(* The marks of what was read *)

\* Nobody saves into a session somebody consolidates, which is what the lock is for.
Excluded ==
  \A w \in Writers, j \in Janitors \cup Callers :
    Saving(w) => jobs[j].on # <<saves[w].scope, saves[w].id>>

\* So what a consolidation loaded is all there is when it closes.
AllLoaded ==
  \A j \in Janitors \cup Callers, s \in Scopes, k \in Ids :
    jobs[j].on = <<s, k>> => LoadOf(s, k) \subseteq jobs[j].read

\* And an insert under way began after the last close of its session.
LaterThanClose ==
  \A w \in Writers :
    (Saving(w) /\ sessions[saves[w].id].scope = saves[w].scope) =>
      saves[w].at > sessions[saves[w].id].ended

ClosedBefore == \A k \in Ids : sessions[k].ended <= clock

MarksInv ==
  /\ Excluded
  /\ AllLoaded
  /\ LaterThanClose
  /\ ClosedBefore
  /\ StampMeansRead
  /\ MarkersAgree

-----------------------------------------------------------------------------
(* What the steps do to the marks *)

\* An insert goes on: as it is, or with the next number.
GoesOn(w) ==
  /\ Saving(w)
  /\ saves'[w].scope = saves[w].scope /\ saves'[w].id = saves[w].id
  /\ saves'[w].at = saves[w].at
  /\ saves'[w] = saves[w] \/ IsNextTurn(saves[w].scope, saves[w].id, saves'[w].number)

\* A row goes, or keeps its instant, its mark and what became of its number.
RowKeeps(s, k, n) ==
  \/ turns'[s][k][n].at = 0
  \/ /\ turns'[s][k][n].at = turns[s][k][n].at
     /\ turns'[s][k][n].stamped = turns[s][k][n].stamped
     /\ turns'[s][k][n].pinned = turns[s][k][n].pinned

\* Rows and inserts stay or go, sessions rows stay or lose their mark, jobs go on or
\* are over, and nothing is closed.
NoMarkMoves ==
  /\ \A s \in Scopes, k \in Ids, n \in TurnNumbers : RowKeeps(s, k, n)
  /\ \A w \in Writers : Saving(w)' => GoesOn(w)
  /\ \A k \in Ids : sessions'[k] = sessions[k] \/ sessions'[k].ended = 0
  /\ \A j \in Janitors \cup Callers :
       \/ jobs'[j].on = <<>> /\ jobs'[j].read = {}
       \/ jobs'[j].on = jobs[j].on /\ jobs'[j].read = jobs[j].read
  /\ UNCHANGED <<known, clock>>

\* An insert begins, or begins again, in a session it has or may enter.
Entered(w) ==
  /\ Begun(w)
  /\ UNCHANGED <<turns, sessions, jobs, known>>
  /\ \/ Saving(w) /\ saves'[w].scope = saves[w].scope /\ saves'[w].id = saves[w].id
     \/ MayEnter(<<saves'[w].scope, saves'[w].id>>)

\* A row comes without a mark.
Arrived(w) ==
  /\ Landed(w)
  /\ ~turns'[saves[w].scope][saves[w].id][saves[w].number].stamped
  /\ UNCHANGED <<sessions, jobs, known>>

LEMMA Somewhere ==
  ASSUME NEW s, NEW k
  PROVE  <<s, k>> # <<>>
OBVIOUS

LEMMA SaveMarks ==
  ASSUME HypnosInv, NEW w \in Writers, UNCHANGED <<jobs, known, faults>>,
         \/ SaveStep(w)
         \/ \E s \in Scopes, k \in Ids, n \in TurnNumbers, pinned \in BOOLEAN :
              MayEnter(<<s, k>>) /\ BeginSave(w, s, k, n, pinned)
  PROVE  NoMarkMoves \/ Entered(w) \/ Arrived(w)
<1>1. /\ OrderInv /\ turns \in [Scopes -> [Ids -> [TurnNumbers -> TurnRow]]]
      /\ saves \in [Writers -> Save]
  BY DEF HypnosInv, OrderInv, ConvTypeOK
<1>2. ASSUME NEW s \in Scopes, NEW k \in Ids, NEW n \in TurnNumbers, NEW pinned \in BOOLEAN,
             MayEnter(<<s, k>>), BeginSave(w, s, k, n, pinned)
      PROVE  Entered(w)
  <2>1. Begun(w) /\ saves'[w].scope = s /\ saves'[w].id = k /\ UNCHANGED <<turns, sessions>>
    BY <1>1, <1>2, BeginStep DEF BeginSave
  <2> QED
    BY <1>2, <2>1 DEF Entered
<1>3. CASE LandSave(w)
  BY <1>1, <1>3, LandStep DEF Arrived, LandSave
<1>4. CASE RetrySave(w)
  BY <1>1, <1>4, RetryStep DEF Entered, RetrySave
<1>5. CASE LoseSave(w) \/ CrashSave(w)
  <2>1. Quiet
    BY <1>1, <1>5, EndStep
  <2>2. UNCHANGED <<turns, sessions, clock>>
    BY <1>5 DEF LoseSave, CrashSave
  <2>3. \A x \in Writers : Saving(x)' => GoesOn(x)
    BY <2>1 DEF Quiet, Saving, GoesOn
  <2> QED
    BY <2>2, <2>3 DEF NoMarkMoves, RowKeeps
<1>6. CASE TakeNumber(w)
  <2>1. Numbered(w)
    BY <1>1, <1>6, NumberStep
  <2>2. \A x \in Writers : Saving(x)' => GoesOn(x)
    BY <2>1 DEF Numbered, OthersStay, Saving, GoesOn
  <2> QED
    BY <2>1, <2>2 DEF Numbered, NoMarkMoves, RowKeeps
<1> QED
  BY <1>2, <1>3, <1>4, <1>5, <1>6 DEF SaveStep

LEMMA HostMarks ==
  ASSUME HypnosInv, HostStep, UNCHANGED <<jobs, known, faults>>
  PROVE  NoMarkMoves \/ \E w \in Writers : Entered(w) \/ Arrived(w)
<1>1. /\ turns \in [Scopes -> [Ids -> [TurnNumbers -> TurnRow]]]
      /\ sessions \in [Ids -> SessionRow] /\ purge \in Purge
  BY DEF HypnosInv, OrderInv, ConvTypeOK
<1>2. ASSUME UNCHANGED <<saves, clock>>,
             \A s \in Scopes, k \in Ids, n \in TurnNumbers : RowKeeps(s, k, n),
             \A k \in Ids : sessions'[k] = sessions[k] \/ sessions'[k].ended = 0
      PROVE  NoMarkMoves
  BY <1>2 DEF NoMarkMoves, Saving, GoesOn
<1>3. ASSUME NEW s \in Scopes, NEW k \in Ids, NEW n \in TurnNumbers,
             NEW disliked \in BOOLEAN, SetFeedback(s, k, n, disliked)
      PROVE  NoMarkMoves
  <2>1. turns' = [turns EXCEPT ![s][k][n].disliked = disliked]
        /\ UNCHANGED <<sessions, saves, clock>>
    BY <1>3 DEF SetFeedback
  <2>2. turns[s][k][n] \in TurnRow
    BY <1>1
  <2>3. \A r \in Scopes, i \in Ids, m \in TurnNumbers : RowKeeps(r, i, m)
    BY <1>1, <2>1, <2>2 DEF TurnRow, RowKeeps
  <2> QED
    BY <1>2, <2>1, <2>3
<1>4. ASSUME NEW s \in Scopes, NEW k \in Ids, CreateSession(s, k)
      PROVE  NoMarkMoves
  <2>1. sessions' = [sessions EXCEPT ![k].scope = s] /\ sessions[k] = NoSession
        /\ UNCHANGED <<turns, saves, clock>>
    BY <1>4 DEF CreateSession
  <2>2. sessions'[k].ended = 0
    BY <1>1, <2>1 DEF NoSession
  <2>3. \A i \in Ids : sessions'[i] = sessions[i] \/ sessions'[i].ended = 0
    BY <1>1, <2>1, <2>2
  <2> QED
    BY <1>2, <2>1, <2>3 DEF RowKeeps
<1>5. ASSUME NEW s \in Scopes, DropSessionRows(s)
      PROVE  NoMarkMoves
  <2>1. \A i \in Ids : sessions'[i] = sessions[i] \/ sessions'[i].ended = 0
    BY <1>1, <1>5 DEF DropSessionRows, NoSession
  <2> QED
    BY <1>2, <1>5, <2>1 DEF DropSessionRows, RowKeeps
<1>6. ASSUME NEW s \in Scopes, NEW from, DeleteMemories(s, from)
      PROVE  NoMarkMoves
  BY <1>2, <1>6 DEF DeleteMemories, RowKeeps
<1>7. ASSUME NEW s \in Scopes, NEW tables, Emptied(s, tables), UNCHANGED <<saves, clock>>
      PROVE  NoMarkMoves
  <2>1. \A r \in Scopes, i \in Ids, n \in TurnNumbers :
          turns'[r][i][n] = turns[r][i][n] \/ turns'[r][i][n] = NoTurn
    BY <1>1, <1>7 DEF Emptied
  <2>2. \A i \in Ids : sessions'[i] = sessions[i] \/ sessions'[i] = NoSession
    BY <1>1, <1>7 DEF Emptied
  <2> QED
    BY <1>2, <1>7, <2>1, <2>2 DEF RowKeeps, NoTurn, NoSession
<1>8. CASE PurgeStep
  <2>1. ASSUME NEW s \in Scopes, PurgeScope(s) \/ BeginPurge(s)
        PROVE  NoMarkMoves
    BY <1>7, <2>1 DEF PurgeScope, BeginPurge
  <2>2. CASE PurgeTable
    <3>1. purge.scope \in Scopes
      BY <1>1, <2>2 DEF PurgeTable, Purge
    <3> QED
      BY <1>7, <2>2, <3>1 DEF PurgeTable
  <2>3. CASE CrashPurge
    BY <1>2, <2>3 DEF CrashPurge, RowKeeps
  <2> QED
    BY <1>8, <2>1, <2>2, <2>3 DEF PurgeStep
<1>9. ASSUME NEW w \in Writers,
             \/ SaveStep(w)
             \/ \E s \in Scopes, k \in Ids, n \in TurnNumbers, pinned \in BOOLEAN :
                  MayEnter(<<s, k>>) /\ BeginSave(w, s, k, n, pinned)
      PROVE  NoMarkMoves \/ Entered(w) \/ Arrived(w)
  BY <1>9, SaveMarks
<1> QED
  BY <1>3, <1>4, <1>5, <1>6, <1>8, <1>9 DEF HostStep

\* What a step does to jobs that load nothing and close nothing.
LEMMA JobMarks ==
  ASSUME HypnosInv, NEW j \in Janitors \cup Callers,
         (j \in Janitors /\ Scan(j)) \/ Extract(j) \/ FailJob(j) \/ CrashJob(j)
  PROVE  NoMarkMoves
<1>1. jobs \in [Janitors \cup Callers -> Job] /\ jobs[j] \in Job
  BY DEF HypnosInv, HypnosTypeOK
<1>2. NextOf(jobs[j]).on = <<>> /\ NextOf(jobs[j]).read = {} /\ NoJob.on = <<>> /\ NoJob.read = {}
  BY DEF NextOf, NoJob
<1>3. /\ \A i \in Janitors \cup Callers : i # j => jobs'[i] = jobs[i]
      /\ \/ jobs'[j].on = <<>> /\ jobs'[j].read = {}
         \/ jobs'[j].on = jobs[j].on /\ jobs'[j].read = jobs[j].read
  <2>1. CASE j \in Janitors /\ Scan(j)
    <3>1. PICK S : jobs' = [jobs EXCEPT ![j].phase = "pick", ![j].todo = S]
      BY <2>1 DEF Scan
    <3> QED
      BY <1>1, <3>1 DEF Job
  <2>2. CASE Extract(j)
    BY <1>1, <1>2, <2>2 DEF Extract, Job
  <2>3. CASE FailJob(j) \/ CrashJob(j)
    BY <1>1, <1>2, <2>3 DEF FailJob, CrashJob
  <2> QED
    BY <2>1, <2>2, <2>3
<1>4. UNCHANGED <<turns, sessions, saves, clock, known>>
  BY DEF Scan, Extract, SaveMemories, FailJob, CrashJob, convVars
<1> QED
  BY <1>3, <1>4 DEF NoMarkMoves, RowKeeps, GoesOn, Saving

LEMMA MarkSteps ==
  ASSUME HypnosInv, [HypnosNext]_hypnosVars
  PROVE  \/ NoMarkMoves
         \/ \E w \in Writers : Entered(w) \/ Arrived(w)
         \/ \E j \in Janitors \cup Callers :
              Close(j) \/ \E g \in Groups, close \in BOOLEAN : Load(j, g, close)
<1>1. ASSUME NEW j \in Callers, Periodic(j)
      PROVE  \E g \in Groups : Load(j, g, FALSE)
  BY <1>1 DEF Periodic
<1>2. ASSUME NEW j \in Janitors \cup Callers, Consolidate(j)
      PROVE  \E g \in Groups : Load(j, g, TRUE)
  <2>1. jobs[j].todo \subseteq Groups
    BY DEF HypnosInv, HypnosTypeOK, Job
  <2> QED
    BY <1>2, <2>1 DEF Consolidate
<1>3. CASE UNCHANGED hypnosVars
  BY <1>3 DEF hypnosVars, NoMarkMoves, RowKeeps, GoesOn, Saving
<1>4. CASE HostStep /\ UNCHANGED <<jobs, known, faults>>
  BY <1>4, HostMarks
<1>5. ASSUME NEW j \in Janitors, Scan(j)
      PROVE  NoMarkMoves
  BY <1>5, JobMarks
<1>6. ASSUME NEW j \in Janitors \cup Callers, Extract(j) \/ FailJob(j) \/ CrashJob(j)
      PROVE  NoMarkMoves
  BY <1>6, JobMarks
<1> QED
  BY <1>1, <1>2, <1>3, <1>4, <1>5, <1>6 DEF HypnosNext, JobStep
-----------------------------------------------------------------------------
(* The marks are kept *)

LEMMA MarksTyped ==
  ASSUME HypnosInv
  PROVE  /\ Typed
         /\ \A k \in Ids : sessions[k] \in SessionRow /\ sessions[k].ended \in Nat
         /\ turns \in [Scopes -> [Ids -> [TurnNumbers -> TurnRow]]]
         /\ sessions \in [Ids -> SessionRow]
         /\ jobs \in [Janitors \cup Callers -> Job] /\ clock \in Nat
         /\ \A w \in Writers : Saving(w) =>
              /\ saves[w].scope \in Scopes /\ saves[w].id \in Ids
              /\ saves[w].number \in TurnNumbers /\ saves[w].at > 0
         /\ \A s \in Scopes, k \in Ids, n \in TurnNumbers : turns[s][k][n].at <= clock
<1>1. Typed
  BY TypesGiveTyped DEF HypnosInv, OrderInv
<1>2. sessions \in [Ids -> SessionRow]
  BY DEF HypnosInv, OrderInv, ConvTypeOK
<1>3. \A k \in Ids : sessions[k] \in SessionRow /\ sessions[k].ended \in Nat
  BY <1>2 DEF SessionRow, NoSession
<1> QED
  BY <1>1, <1>2, <1>3
     DEF HypnosInv, HypnosTypeOK, OrderInv, ConvTypeOK, SavesAreApart, NothingAhead

LEMMA SessionScopes ==
  ASSUME HypnosInv'
  PROVE  \A k \in Ids : sessions'[k].scope \in Scopes \cup {Nil}
<1>1. sessions' \in [Ids -> SessionRow]
  BY DEF HypnosInv, OrderInv, ConvTypeOK
<1> QED
  BY <1>1 DEF SessionRow, NoSession

LEMMA MarksStayPut ==
  ASSUME HypnosInv, HypnosInv', MarksInv, NoMarkMoves
  PROVE  MarksInv'
<1>1. /\ \A w \in Writers : Saving(w)' =>
           /\ Saving(w) /\ saves'[w].at = saves[w].at
           /\ saves'[w].scope = saves[w].scope /\ saves'[w].id = saves[w].id
      /\ \A w \in Writers : Saving(w) => saves[w].id \in Ids /\ saves[w].at > 0
      /\ \A k \in Ids : sessions[k].ended \in Nat
      /\ clock \in Nat /\ clock' = clock
  BY MarksTyped DEF NoMarkMoves, GoesOn
<1>2. \A s \in Scopes, k \in Ids : \A n \in TurnsOf(s, k)' :
        /\ n \in TurnsOf(s, k)
        /\ turns'[s][k][n].at = turns[s][k][n].at
        /\ turns'[s][k][n].stamped = turns[s][k][n].stamped
  BY DEF NoMarkMoves, RowKeeps, TurnsOf, IsTurn
<1>3. Excluded'
  <2> SUFFICES ASSUME NEW w \in Writers, NEW j \in Janitors \cup Callers, Saving(w)',
                      jobs'[j].on = <<saves'[w].scope, saves'[w].id>>
               PROVE  FALSE
    BY DEF Excluded
  <2>1. jobs'[j].on # <<>>
    BY Somewhere
  <2>2. jobs[j].on = <<saves[w].scope, saves[w].id>> /\ Saving(w)
    BY <1>1, <2>1 DEF NoMarkMoves
  <2> QED
    BY <2>2 DEF MarksInv, Excluded
<1>4. AllLoaded'
  <2> SUFFICES ASSUME NEW j \in Janitors \cup Callers, NEW s \in Scopes, NEW k \in Ids,
                      jobs'[j].on = <<s, k>>, NEW n \in TurnsOf(s, k)'
               PROVE  turns'[s][k][n].at \in jobs'[j].read
    BY DEF AllLoaded, LoadOf
  <2>1. jobs[j].on = <<s, k>> /\ jobs'[j].read = jobs[j].read
    BY Somewhere DEF NoMarkMoves
  <2>2. turns[s][k][n].at \in jobs[j].read
    BY <1>2, <2>1 DEF MarksInv, AllLoaded, LoadOf
  <2> QED
    BY <1>2, <2>1, <2>2
<1>5. LaterThanClose'
  BY <1>1 DEF MarksInv, LaterThanClose, NoMarkMoves
<1>6. ClosedBefore'
  BY <1>1 DEF MarksInv, ClosedBefore, NoMarkMoves
<1>7. StampMeansRead'
  BY <1>2 DEF MarksInv, StampMeansRead, NoMarkMoves
<1>8. MarkersAgree'
  <2> SUFFICES ASSUME NEW k \in Ids, sessions'[k].scope \in Scopes, sessions'[k].ended # 0,
                      NEW n \in TurnsOf(sessions[k].scope, k)'
               PROVE  turns'[sessions'[k].scope][k][n].stamped
                        <=> turns'[sessions'[k].scope][k][n].at <= sessions'[k].ended
    BY SessionScopes DEF MarkersAgree
  <2>1. sessions'[k] = sessions[k]
    BY DEF NoMarkMoves
  <2>2. n \in TurnsOf(sessions[k].scope, k)
        /\ turns'[sessions[k].scope][k][n].at = turns[sessions[k].scope][k][n].at
        /\ turns'[sessions[k].scope][k][n].stamped = turns[sessions[k].scope][k][n].stamped
    BY <1>2, <2>1
  <2>3. sessions[k].scope # Nil
    BY <2>1, ConversationAssumption
  <2> QED
    BY <2>1, <2>2, <2>3 DEF MarksInv, MarkersAgree
<1> QED
  BY <1>3, <1>4, <1>5, <1>6, <1>7, <1>8 DEF MarksInv

\* An insert begins where nobody consolidates, later than every close.
LEMMA EnteringKeepsMarks ==
  ASSUME HypnosInv, HypnosInv', MarksInv, Locking, NEW w \in Writers, Entered(w)
  PROVE  MarksInv'
<1>1. /\ clock \in Nat /\ clock' = clock + 1
      /\ saves'[w].at = clock + 1
      /\ saves'[w].scope \in Scopes /\ saves'[w].id \in Ids
      /\ \A x \in Writers : x # w => saves'[x] = saves[x]
      /\ UNCHANGED <<turns, sessions, jobs, known>>
      /\ \A k \in Ids : sessions[k].ended \in Nat
  BY MarksTyped DEF Entered, Begun, OthersStay
<1>2. \A j \in Janitors \cup Callers : jobs[j].on # <<saves'[w].scope, saves'[w].id>>
  <2>1. CASE Saving(w) /\ saves'[w].scope = saves[w].scope /\ saves'[w].id = saves[w].id
    BY <2>1 DEF MarksInv, Excluded
  <2>2. CASE MayEnter(<<saves'[w].scope, saves'[w].id>>)
    BY <2>2 DEF MayEnter, Consolidating
  <2> QED
    BY <2>1, <2>2 DEF Entered
<1>3. Excluded'
  BY <1>1, <1>2 DEF MarksInv, Excluded, Saving
<1>4. AllLoaded'
  BY <1>1 DEF MarksInv, AllLoaded, LoadOf, TurnsOf, IsTurn
<1>5. LaterThanClose'
  <2> SUFFICES ASSUME NEW x \in Writers, Saving(x)',
                      sessions[saves'[x].id].scope = saves'[x].scope
               PROVE  saves'[x].at > sessions[saves'[x].id].ended
    BY <1>1 DEF LaterThanClose
  <2>1. CASE x = w
    <3>1. sessions[saves'[w].id].ended <= clock /\ sessions[saves'[w].id].ended \in Nat
      BY <1>1 DEF MarksInv, ClosedBefore
    <3> QED
      BY <1>1, <2>1, <3>1
  <2>2. CASE x # w
    BY <1>1, <2>2 DEF MarksInv, LaterThanClose, Saving
  <2> QED
    BY <2>1, <2>2
<1>6. ClosedBefore'
  BY <1>1 DEF MarksInv, ClosedBefore
<1>7. StampMeansRead' /\ MarkersAgree'
  BY <1>1 DEF MarksInv, StampMeansRead, MarkersAgree, TurnsOf, IsTurn
<1> QED
  BY <1>3, <1>4, <1>5, <1>6, <1>7 DEF MarksInv

\* A row that arrives has no mark, and is later than its session's.
LEMMA ArrivingKeepsMarks ==
  ASSUME HypnosInv, HypnosInv', MarksInv, NEW w \in Writers, Arrived(w)
  PROVE  MarksInv'
<1> DEFINE s == saves[w].scope
           k == saves[w].id
           n == saves[w].number
<1>1. /\ s \in Scopes /\ k \in Ids /\ n \in TurnNumbers
      /\ saves[w].at \in Nat /\ saves[w].at > 0
      /\ Saving(w) /\ clock' = clock
      /\ UNCHANGED <<sessions, jobs, known>>
      /\ \A i \in Ids : sessions[i].ended \in Nat
  BY MarksTyped, InsertingSaves DEF Arrived, Landed, Typed
<1>2. /\ turns'[s][k][n].at = saves[w].at /\ ~turns'[s][k][n].stamped
      /\ \A r \in Scopes, i \in Ids, m \in TurnNumbers :
           r # s \/ i # k \/ m # n => turns'[r][i][m] = turns[r][i][m]
  BY DEF Arrived, Landed
<1>3. \A x \in Writers : Saving(x)' => Saving(x) /\ saves'[x] = saves[x]
  BY DEF Arrived, Landed, OthersStay, Saving
<1>4. \A r \in Scopes, i \in Ids : \A m \in TurnsOf(r, i)' :
        \/ m \in TurnsOf(r, i) /\ turns'[r][i][m] = turns[r][i][m]
        \/ r = s /\ i = k /\ m = n
  BY <1>2 DEF TurnsOf, IsTurn
<1> HIDE DEF s, k, n
<1>5. Excluded' /\ LaterThanClose' /\ ClosedBefore'
  BY <1>1, <1>3 DEF MarksInv, Excluded, LaterThanClose, ClosedBefore
<1>6. \A j \in Janitors \cup Callers : jobs[j].on # <<s, k>>
  BY <1>1 DEF MarksInv, Excluded, s, k
<1>7. AllLoaded'
  <2> SUFFICES ASSUME NEW j \in Janitors \cup Callers, NEW r \in Scopes, NEW i \in Ids,
                      jobs[j].on = <<r, i>>, NEW m \in TurnsOf(r, i)'
               PROVE  turns'[r][i][m].at \in jobs[j].read
    BY <1>1 DEF AllLoaded, LoadOf
  <2>1. m \in TurnsOf(r, i) /\ turns'[r][i][m] = turns[r][i][m]
    BY <1>4, <1>6
  <2> QED
    BY <2>1 DEF MarksInv, AllLoaded, LoadOf
<1>8. StampMeansRead'
  BY <1>1, <1>2, <1>4 DEF MarksInv, StampMeansRead
<1>9. MarkersAgree'
  <2> SUFFICES ASSUME NEW i \in Ids, sessions[i].scope \in Scopes, sessions[i].ended # 0,
                      NEW m \in TurnsOf(sessions[i].scope, i)'
               PROVE  turns'[sessions[i].scope][i][m].stamped
                        <=> turns'[sessions[i].scope][i][m].at <= sessions[i].ended
    BY <1>1, SessionScopes DEF MarkersAgree
  <2>1. CASE m \in TurnsOf(sessions[i].scope, i)
             /\ turns'[sessions[i].scope][i][m] = turns[sessions[i].scope][i][m]
    BY <2>1, ConversationAssumption DEF MarksInv, MarkersAgree
  <2>2. CASE sessions[i].scope = s /\ i = k /\ m = n
    <3>1. saves[w].at > sessions[k].ended
      BY <1>1, <2>2 DEF MarksInv, LaterThanClose, s, k
    <3> QED
      BY <1>1, <1>2, <2>2, <3>1
  <2> QED
    BY <1>1, <1>4, <2>1, <2>2 DEF TurnsOf, IsTurn
<1> QED
  BY <1>5, <1>7, <1>8, <1>9 DEF MarksInv

\* Who loads a session is alone with it.
LEMMA LoadingKeepsMarks ==
  ASSUME HypnosInv, MarksInv, Locking, NEW j \in Janitors \cup Callers, NEW g \in Groups,
         NEW close \in BOOLEAN, Load(j, g, close)
  PROVE  MarksInv'
<1>1. /\ UNCHANGED <<turns, sessions, saves, clock, known>>
      /\ jobs'[j].on = g /\ jobs'[j].read = LoadOf(g[1], g[2])
      /\ \A i \in Janitors \cup Callers : i # j => jobs'[i] = jobs[i]
  BY MarksTyped DEF Load, convVars
<1>2. g = <<g[1], g[2]>>
  BY DEF Groups
<1>3. \A w \in Writers : Saving(w) => g # <<saves[w].scope, saves[w].id>>
  BY DEF Load, MayEnter, SavingTo
<1>4. Excluded'
  BY <1>1, <1>3 DEF MarksInv, Excluded, Saving
<1>5. AllLoaded'
  <2>1. \A s \in Scopes, k \in Ids : LoadOf(s, k)' = LoadOf(s, k)
    BY <1>1 DEF LoadOf, TurnsOf, IsTurn
  <2> SUFFICES ASSUME NEW i \in Janitors \cup Callers, NEW s \in Scopes, NEW k \in Ids,
                      jobs'[i].on = <<s, k>>
               PROVE  LoadOf(s, k) \subseteq jobs'[i].read
    BY <2>1 DEF AllLoaded
  <2>2. CASE i = j
    <3>1. g[1] = s /\ g[2] = k
      BY <1>1, <2>2
    <3> QED
      BY <1>1, <2>2, <3>1
  <2>3. CASE i # j
    BY <1>1, <2>3 DEF MarksInv, AllLoaded
  <2> QED
    BY <2>2, <2>3
<1>6. LaterThanClose' /\ ClosedBefore'
  BY <1>1 DEF MarksInv, LaterThanClose, ClosedBefore, Saving
<1>7. StampMeansRead' /\ MarkersAgree'
  BY <1>1 DEF MarksInv, StampMeansRead, MarkersAgree, TurnsOf, IsTurn
<1> QED
  BY <1>4, <1>5, <1>6, <1>7 DEF MarksInv

\* A close marks what was loaded, which is every row there is.
LEMMA ClosingKeepsMarks ==
  ASSUME HypnosInv, HypnosInv', MarksInv, NEW j \in Janitors \cup Callers, Close(j)
  PROVE  MarksInv'
<1>1. /\ jobs[j].on \in Groups
      /\ CloseSession(jobs[j].on[1], jobs[j].on[2])
      /\ jobs' = [jobs EXCEPT ![j] = NextOf(jobs[j])]
  BY DEF HypnosInv, Held, Close
<1> DEFINE s == jobs[j].on[1]
           k == jobs[j].on[2]
<1>2. /\ s \in Scopes /\ k \in Ids /\ jobs[j].on = <<s, k>>
      /\ CloseSession(s, k)
      /\ known' = IF sessions[k].scope \in {s, Nil}
                  THEN [known EXCEPT ![s] = @ \cup jobs[j].read] ELSE known
  BY <1>1 DEF Groups, Close
<1> HIDE DEF s, k
<1>3. /\ clock \in Nat /\ clock' = clock + 1 /\ saves' = saves
      /\ \A i \in Janitors \cup Callers :
           jobs'[i].on = <<>> \/ (jobs'[i].on = jobs[i].on /\ jobs'[i].read = jobs[i].read)
      /\ \A i \in Ids : sessions[i].ended \in Nat
  <2>1. NextOf(jobs[j]).on = <<>>
    BY DEF NextOf, NoJob
  <2>2. clock \in Nat /\ \A i \in Ids : sessions[i].ended \in Nat
    BY MarksTyped
  <2>3. clock' = clock + 1 /\ saves' = saves
    BY <1>2 DEF CloseSession, ReadNow, Now
  <2>4. jobs'[j] = NextOf(jobs[j])
        /\ \A i \in Janitors \cup Callers : i # j => jobs'[i] = jobs[i]
    BY <1>1, MarksTyped
  <2>5. \A i \in Janitors \cup Callers :
          jobs'[i].on = <<>> \/ (jobs'[i].on = jobs[i].on /\ jobs'[i].read = jobs[i].read)
    BY <2>1, <2>4, Zenon
  <2> QED
    BY <2>2, <2>3, <2>5
<1>4. known' \in [Scopes -> SUBSET Nat] /\ known \in [Scopes -> SUBSET Nat]
  BY DEF HypnosInv, HypnosTypeOK
<1>5. /\ \A r \in Scopes : known[r] \subseteq known'[r]
      /\ jobs[j].read \subseteq known'[s] \/ UNCHANGED turns
  BY <1>2, <1>4 DEF CloseSession
<1>6. \A r \in Scopes, i \in Ids, n \in TurnNumbers :
        /\ turns'[r][i][n].at = turns[r][i][n].at
        /\ r # s \/ i # k => turns'[r][i][n] = turns[r][i][n]
        /\ turns[r][i][n].at <= clock /\ turns[r][i][n].at \in Nat
  <2>1. ConvTypeOK /\ Now \in Nat
    BY <1>3 DEF HypnosInv, OrderInv, Now
  <2>2. UNCHANGED turns \/ Stamp(s, k, Now)
    BY <1>2 DEF CloseSession
  <2>3. UNCHANGED turns \/ RowsStay
    BY <1>2, <2>1, <2>2, StampStep
  <2>4. \A r \in Scopes, i \in Ids, n \in TurnNumbers :
          r # s \/ i # k => turns'[r][i][n] = turns[r][i][n]
    <3>1. turns \in [Scopes -> [Ids -> [TurnNumbers -> TurnRow]]]
      BY MarksTyped
    <3>2. UNCHANGED turns \/ \E rows : turns' = [turns EXCEPT ![s][k] = rows]
      BY <2>2 DEF Stamp
    <3> QED
      BY <1>2, <3>1, <3>2
  <2> QED
    BY <2>3, <2>4, MarksTyped DEF RowsStay, Typed
<1>7. \/ UNCHANGED <<turns, sessions>>
      \/ /\ sessions' = [sessions EXCEPT ![k] = [scope |-> s, ended |-> clock + 1]]
         /\ \A n \in TurnNumbers : turns[s][k][n].at # 0 => turns'[s][k][n].stamped
  <2> SUFFICES ASSUME sessions' = [sessions EXCEPT ![k] = [scope |-> s, ended |-> Now]],
                      Stamp(s, k, Now)
               PROVE  /\ sessions' = [sessions EXCEPT ![k] = [scope |-> s, ended |-> clock + 1]]
                      /\ \A n \in TurnNumbers :
                           turns[s][k][n].at # 0 => turns'[s][k][n].stamped
    BY <1>2 DEF CloseSession
  <2> SUFFICES ASSUME NEW n \in TurnNumbers, turns[s][k][n].at # 0
               PROVE  turns'[s][k][n].stamped
    BY DEF Now
  <2>1. turns[s][k][n].at <= Now
    BY <1>2, <1>3, <1>6 DEF Now
  <2>2. turns[s][k][n] \in TurnRow
    BY <1>2, MarksTyped
  <2>3. turns'[s][k][n] = [turns[s][k][n] EXCEPT !.stamped = TRUE]
    BY <1>2, <2>1, MarksTyped DEF Stamp
  <2> QED
    BY <2>2, <2>3 DEF TurnRow
<1>8. \A i \in Ids : i # k => sessions'[i] = sessions[i]
  <2>1. sessions \in [Ids -> SessionRow]
    BY MarksTyped
  <2> QED
    BY <1>7, <2>1
<1>9. \A w \in Writers : Saving(w)' => Saving(w) /\ <<saves[w].scope, saves[w].id>> # <<s, k>>
  BY <1>2, <1>3 DEF MarksInv, Excluded, Saving
<1>10. Excluded'
  BY <1>3, <1>9, Somewhere DEF MarksInv, Excluded, Saving
<1>11. AllLoaded'
  <2>1. \A r \in Scopes, i \in Ids : LoadOf(r, i)' = LoadOf(r, i)
    BY <1>6 DEF LoadOf, TurnsOf, IsTurn
  <2> QED
    BY <1>3, <2>1, Somewhere DEF MarksInv, AllLoaded
<1>12. LaterThanClose'
  <2> SUFFICES ASSUME NEW w \in Writers, Saving(w)',
                      sessions'[saves[w].id].scope = saves[w].scope
               PROVE  saves[w].at > sessions'[saves[w].id].ended
    BY <1>3 DEF LaterThanClose
  <2>1. Saving(w) /\ saves[w].id \in Ids /\ <<saves[w].scope, saves[w].id>> # <<s, k>>
    BY <1>9, MarksTyped
  <2>2. sessions'[saves[w].id] = sessions[saves[w].id]
    <3>1. CASE saves[w].id # k
      BY <1>8, <2>1, <3>1
    <3>2. CASE saves[w].id = k /\ saves[w].scope # s
      <4>1. sessions \in [Ids -> SessionRow]
        BY MarksTyped
      <4>2. sessions' = sessions \/ sessions'[k].scope = s
        BY <1>2, <1>7, <4>1
      <4> QED
        BY <3>2, <4>2
    <3> QED
      BY <2>1, <3>1, <3>2
  <2> QED
    BY <2>1, <2>2 DEF MarksInv, LaterThanClose
<1>13. ClosedBefore'
  <2> SUFFICES ASSUME NEW i \in Ids
               PROVE  sessions'[i].ended <= clock + 1
    BY <1>3 DEF ClosedBefore
  <2>1. sessions[i].ended <= clock
    BY DEF MarksInv, ClosedBefore
  <2>2. sessions'[i].ended = sessions[i].ended \/ sessions'[i].ended = clock + 1
    <3>1. sessions \in [Ids -> SessionRow]
      BY MarksTyped
    <3>2. CASE sessions' = sessions
      BY <3>2
    <3>3. CASE sessions' = [sessions EXCEPT ![k] = [scope |-> s, ended |-> clock + 1]]
      BY <1>2, <3>1, <3>3
    <3> QED
      BY <1>7, <3>2, <3>3
  <2> QED
    BY <1>3, <2>1, <2>2
<1>14. StampMeansRead'
  <2> SUFFICES ASSUME NEW r \in Scopes, NEW i \in Ids, NEW n \in TurnsOf(r, i)',
                      turns'[r][i][n].stamped
               PROVE  turns'[r][i][n].at \in known'[r]
    BY DEF StampMeansRead
  <2>1. n \in TurnsOf(r, i)
    BY <1>6 DEF TurnsOf, IsTurn
  <2>2. CASE r = s /\ i = k
    <3>1. turns[s][k][n].at \in jobs[j].read
      BY <1>2, <2>1, <2>2 DEF MarksInv, AllLoaded, LoadOf
    <3>2. CASE UNCHANGED turns
      BY <1>5, <2>1, <3>2 DEF MarksInv, StampMeansRead
    <3> QED
      BY <1>5, <1>6, <2>1, <2>2, <3>1, <3>2 DEF TurnsOf
  <2>3. CASE r # s \/ i # k
    <3>1. turns'[r][i][n] = turns[r][i][n]
      BY <1>6, <2>1, <2>3 DEF TurnsOf
    <3> QED
      BY <1>5, <2>1, <3>1 DEF MarksInv, StampMeansRead
  <2> QED
    BY <2>2, <2>3
<1>15. MarkersAgree'
  <2> SUFFICES ASSUME NEW i \in Ids, sessions'[i].scope \in Scopes, sessions'[i].ended # 0,
                      NEW n \in TurnsOf(sessions[i].scope, i)'
               PROVE  turns'[sessions'[i].scope][i][n].stamped
                        <=> turns'[sessions'[i].scope][i][n].at <= sessions'[i].ended
    BY SessionScopes DEF MarkersAgree
  <2>1. n \in TurnsOf(sessions'[i].scope, i) /\ n \in TurnNumbers
    BY <1>6 DEF TurnsOf, IsTurn
  <2>2. CASE UNCHANGED <<turns, sessions>>
    BY <2>1, <2>2, ConversationAssumption DEF MarksInv, MarkersAgree
  <2>3. CASE i = k /\ sessions' # sessions
    <3>1. sessions'[k].scope = s /\ sessions'[k].ended = clock + 1
      BY <1>2, <1>7, <2>3, MarksTyped
    <3>2. turns'[s][k][n].stamped
      BY <1>7, <2>1, <2>3, <3>1 DEF TurnsOf, IsTurn
    <3>3. turns'[s][k][n].at <= clock + 1
      BY <1>2, <1>3, <1>6, <2>1
    <3> QED
      BY <2>3, <3>1, <3>2, <3>3
  <2>4. CASE i # k
    <3>1. sessions'[i] = sessions[i]
      BY <1>2, <1>8, <2>4
    <3>2. turns'[sessions[i].scope][i][n] = turns[sessions[i].scope][i][n]
      BY <1>6, <2>1, <2>4, <3>1
    <3> QED
      BY <2>1, <3>1, <3>2, ConversationAssumption DEF MarksInv, MarkersAgree
  <2>5. CASE i = k /\ sessions' = sessions /\ turns' # turns
    <3>1. sessions'[k].ended = clock + 1
      BY <1>2, <1>7, <2>5, MarksTyped
    <3>2. sessions[k].ended <= clock
      BY <1>2 DEF MarksInv, ClosedBefore
    <3> QED
      BY <1>2, <1>3, <2>5, <3>1, <3>2
  <2> QED
    BY <2>2, <2>3, <2>4, <2>5
<1> QED
  BY <1>10, <1>11, <1>12, <1>13, <1>14, <1>15 DEF MarksInv

LEMMA MarksBegin ==
  ASSUME HypnosInit
  PROVE  MarksInv
<1>1. /\ \A s \in Scopes, k \in Ids : TurnsOf(s, k) = {}
      /\ \A w \in Writers : ~Saving(w)
      /\ \A k \in Ids : sessions[k].ended = 0
      /\ clock = 0
  BY DEF HypnosInit, ConvInit, TurnsOf, IsTurn, NoTurn, NoSave, NoSession, Saving
<1> QED
  BY <1>1 DEF MarksInv, Excluded, AllLoaded, LoadOf, LaterThanClose, ClosedBefore,
              StampMeansRead, MarkersAgree

LEMMA MarksStep ==
  ASSUME HypnosInv, HypnosInv', MarksInv, Locking, [HypnosNext]_hypnosVars
  PROVE  MarksInv'
BY MarkSteps, MarksStayPut, EnteringKeepsMarks, ArrivingKeepsMarks, LoadingKeepsMarks,
   ClosingKeepsMarks

\* With the lock, a turn that is stamped was read, and the two marks of a closed
\* session agree on each of its turns, whatever is saved, retried, erased, closed,
\* failed or left by a process that died (postgres.py, idle_sessions and
\* close_session).
THEOREM MarksInvariant ==
  ASSUME Locking
  PROVE  HypnosSpec => []MarksInv
<1>1. HypnosInit => MarksInv
  BY MarksBegin
<1>2. HypnosInv /\ HypnosInv' /\ MarksInv /\ [HypnosNext]_hypnosVars => MarksInv'
  BY MarksStep
<1> QED
  BY <1>1, <1>2, HypnosInvariant, PTL DEF HypnosSpec

\* With the lock, no turn is stamped that no completed consolidation has read.
THEOREM StampsMeanRead ==
  ASSUME Locking
  PROVE  HypnosSpec => []StampMeansRead
<1>1. MarksInv => StampMeansRead
  BY DEF MarksInv
<1> QED
  BY <1>1, MarksInvariant, PTL

\* With the lock, a session's row and the stamps of its turns say the same.
THEOREM MarksAgree ==
  ASSUME Locking
  PROVE  HypnosSpec => []MarkersAgree
<1>1. MarksInv => MarkersAgree
  BY DEF MarksInv
<1> QED
  BY <1>1, MarksInvariant, PTL
-----------------------------------------------------------------------------
(* The order of created_at *)

\* One turn at a time is saved to a session, which is what the lock is for.
Alone ==
  \A v, w \in Writers :
    (/\ Saving(v) /\ Saving(w)
     /\ saves[v].scope = saves[w].scope /\ saves[v].id = saves[w].id) => v = w

\* So an insert under way has begun after every row of its session,
LatestBegun ==
  \A w \in Writers, n \in TurnNumbers :
    LET t == turns[saves[w].scope][saves[w].id][n] IN
    Saving(w) /\ t.at # 0 => t.at < saves[w].at

\* and no row of its session has its number or one above.
NumberFree ==
  \A w \in Writers, n \in TurnNumbers :
    (/\ Inserting(w) /\ ~saves[w].pinned
     /\ turns[saves[w].scope][saves[w].id][n].at # 0) => n < saves[w].number

TimeInv == Alone /\ LatestBegun /\ NumberFree /\ TurnsInTime

\* Rows that stay or go, inserts that go on or are over.
LEMMA TimeStays ==
  ASSUME HypnosInv, TimeInv,
         \A s \in Scopes, k \in Ids, n \in TurnNumbers :
           turns'[s][k][n].at # 0 =>
             /\ turns'[s][k][n].at = turns[s][k][n].at
             /\ turns'[s][k][n].pinned = turns[s][k][n].pinned,
         \A w \in Writers : Saving(w)' => GoesOn(w)
  PROVE  TimeInv'
<1>1. \A w \in Writers : Saving(w)' =>
        /\ Saving(w) /\ saves[w].scope \in Scopes /\ saves[w].id \in Ids
        /\ saves'[w].scope = saves[w].scope /\ saves'[w].id = saves[w].id
        /\ saves'[w].at = saves[w].at
        /\ saves'[w] = saves[w] \/ IsNextTurn(saves[w].scope, saves[w].id, saves'[w].number)
  BY MarksTyped DEF GoesOn
<1>2. Alone'
  BY <1>1 DEF TimeInv, Alone
<1>3. LatestBegun'
  BY <1>1 DEF TimeInv, LatestBegun
<1>4. NumberFree'
  <2> SUFFICES ASSUME NEW w \in Writers, NEW n \in TurnNumbers, Inserting(w)',
                      ~saves'[w].pinned,
                      turns'[saves'[w].scope][saves'[w].id][n].at # 0
               PROVE  n < saves'[w].number
    BY DEF NumberFree
  <2>1. Saving(w)'
    BY InsertingSaves
  <2>2. turns[saves[w].scope][saves[w].id][n].at # 0
    BY <1>1, <2>1
  <2>3. CASE saves'[w] = saves[w]
    BY <2>2, <2>3 DEF TimeInv, NumberFree, Inserting
  <2>4. CASE IsNextTurn(saves[w].scope, saves[w].id, saves'[w].number)
    BY <2>2, <2>4 DEF IsNextTurn, TurnsOf, IsTurn
  <2> QED
    BY <1>1, <2>1, <2>3, <2>4
<1>5. TurnsInTime'
  BY DEF TimeInv, TurnsInTime, TurnsOf, IsTurn
<1> QED
  BY <1>2, <1>3, <1>4, <1>5 DEF TimeInv

\* An insert begins where nobody saves, later than every row.
LEMMA EnteringKeepsTime ==
  ASSUME HypnosInv, TimeInv, Locking, NEW w \in Writers, Entered(w)
  PROVE  TimeInv'
<1>1. /\ clock \in Nat /\ saves'[w].at = clock + 1
      /\ saves'[w].scope \in Scopes /\ saves'[w].id \in Ids
      /\ saves'[w].phase = "inserting" => saves'[w].pinned
      /\ UNCHANGED turns
      /\ \A s \in Scopes, k \in Ids, n \in TurnNumbers :
           turns[s][k][n].at <= clock /\ turns[s][k][n].at \in Nat
  BY MarksTyped DEF Entered, Begun, Typed
<1>2. \A x \in Writers : x # w => saves'[x] = saves[x]
  BY DEF Entered, Begun, OthersStay
<1>3. \A x \in Writers : x # w =>
        ~(/\ Saving(x) /\ saves[x].scope = saves'[w].scope /\ saves[x].id = saves'[w].id)
  <2>1. CASE Saving(w) /\ saves'[w].scope = saves[w].scope /\ saves'[w].id = saves[w].id
    BY <2>1 DEF TimeInv, Alone
  <2>2. CASE MayEnter(<<saves'[w].scope, saves'[w].id>>)
    BY <2>2 DEF MayEnter, SavingTo
  <2> QED
    BY <2>1, <2>2 DEF Entered
<1>4. Alone'
  BY <1>2, <1>3 DEF TimeInv, Alone, Saving
<1>5. LatestBegun'
  <2> SUFFICES ASSUME NEW x \in Writers, NEW n \in TurnNumbers, Saving(x)',
                      turns[saves'[x].scope][saves'[x].id][n].at # 0
               PROVE  turns[saves'[x].scope][saves'[x].id][n].at < saves'[x].at
    BY <1>1 DEF LatestBegun
  <2>1. CASE x = w
    BY <1>1, <2>1
  <2>2. CASE x # w
    BY <1>2, <2>2 DEF TimeInv, LatestBegun, Saving
  <2> QED
    BY <2>1, <2>2
<1>6. NumberFree'
  BY <1>1, <1>2 DEF TimeInv, NumberFree, Inserting
<1>7. TurnsInTime'
  BY <1>1 DEF TimeInv, TurnsInTime, TurnsOf, IsTurn
<1> QED
  BY <1>4, <1>5, <1>6, <1>7 DEF TimeInv

\* A row that arrives is the latest of its session and, unless its number was pinned, the
\* last.
LEMMA ArrivingKeepsTime ==
  ASSUME HypnosInv, TimeInv, NEW w \in Writers, Arrived(w)
  PROVE  TimeInv'
<1> DEFINE s == saves[w].scope
           k == saves[w].id
           c == saves[w].number
           t == saves[w].at
<1>1. /\ s \in Scopes /\ k \in Ids /\ c \in TurnNumbers /\ Saving(w) /\ Inserting(w)
      /\ t \in Nat /\ t > 0
  BY MarksTyped, InsertingSaves DEF Arrived, Landed, Typed
<1>2. /\ turns'[s][k][c].at = t /\ turns'[s][k][c].pinned = saves[w].pinned
      /\ \A r \in Scopes, i \in Ids, n \in TurnNumbers :
           \/ r = s /\ i = k /\ n = c
           \/ turns'[r][i][n] = turns[r][i][n]
  BY DEF Arrived, Landed
<1>3. \A x \in Writers : Saving(x)' =>
        /\ x # w /\ saves'[x] = saves[x] /\ Saving(x)
        /\ saves[x].scope \in Scopes /\ saves[x].id \in Ids
        /\ ~(saves[x].scope = s /\ saves[x].id = k)
  <2>1. \A x \in Writers : Saving(x)' => x # w /\ saves'[x] = saves[x] /\ Saving(x)
    BY DEF Arrived, Landed, OthersStay, Saving
  <2> QED
    BY <1>1, <2>1, MarksTyped DEF TimeInv, Alone
<1>4. \A n \in TurnNumbers : turns[s][k][n].at # 0 =>
        turns[s][k][n].at < t /\ (~saves[w].pinned => n < c)
  BY <1>1 DEF TimeInv, LatestBegun, NumberFree
<1>5. Alone'
  BY <1>3 DEF TimeInv, Alone
<1>6. \A x \in Writers, n \in TurnNumbers : Saving(x)' =>
        turns'[saves[x].scope][saves[x].id][n] = turns[saves[x].scope][saves[x].id][n]
  BY <1>2, <1>3
<1>7. LatestBegun'
  BY <1>3, <1>6 DEF TimeInv, LatestBegun
<1>8. NumberFree'
  <2> SUFFICES ASSUME NEW x \in Writers, NEW n \in TurnNumbers, Inserting(x)',
                      ~saves'[x].pinned,
                      turns'[saves'[x].scope][saves'[x].id][n].at # 0
               PROVE  n < saves'[x].number
    BY DEF NumberFree
  <2>1. Saving(x)'
    BY InsertingSaves
  <2>2. saves'[x] = saves[x] /\ Inserting(x)
    BY <1>3, <2>1 DEF Inserting
  <2>3. turns[saves[x].scope][saves[x].id][n].at # 0
    BY <1>6, <2>1, <2>2
  <2> QED
    BY <2>2, <2>3 DEF TimeInv, NumberFree
<1> HIDE DEF s, k, c, t
<1>9. TurnsInTime'
  <2> SUFFICES ASSUME NEW r \in Scopes, NEW i \in Ids, NEW m \in TurnNumbers,
                      NEW n \in TurnNumbers, turns'[r][i][m].at # 0, turns'[r][i][n].at # 0,
                      m < n, ~turns'[r][i][m].pinned
               PROVE  turns'[r][i][m].at < turns'[r][i][n].at
    BY DEF TurnsInTime, TurnsOf, IsTurn
  <2>1. m \in Nat /\ n \in Nat
    BY DEF TurnNumbers
  <2>2. CASE r = s /\ i = k /\ m = c
    <3>1. turns'[r][i][n] = turns[r][i][n] /\ ~saves[w].pinned
      BY <1>2, <2>1, <2>2
    <3> QED
      BY <1>4, <2>1, <2>2, <3>1
  <2>3. CASE r = s /\ i = k /\ n = c /\ m # c
    <3>1. turns'[r][i][m] = turns[r][i][m] /\ turns'[r][i][n].at = t
      BY <1>2, <2>3
    <3> QED
      BY <1>4, <2>3, <3>1
  <2>4. CASE turns'[r][i][m] = turns[r][i][m] /\ turns'[r][i][n] = turns[r][i][n]
    BY <2>4 DEF TimeInv, TurnsInTime, TurnsOf, IsTurn
  <2> QED
    BY <1>2, <2>2, <2>3, <2>4
<1> QED
  BY <1>5, <1>7, <1>8, <1>9 DEF TimeInv

LEMMA TimeStep ==
  ASSUME HypnosInv, TimeInv, Locking, [HypnosNext]_hypnosVars
  PROVE  TimeInv'
<1>1. CASE NoMarkMoves
  BY <1>1, TimeStays DEF NoMarkMoves, RowKeeps
<1>2. ASSUME NEW w \in Writers, Entered(w) \/ Arrived(w)
      PROVE  TimeInv'
  BY <1>2, EnteringKeepsTime, ArrivingKeepsTime
<1>3. ASSUME NEW j \in Janitors \cup Callers, NEW g \in Groups, NEW close \in BOOLEAN,
             Load(j, g, close)
      PROVE  TimeInv'
  BY <1>3, TimeStays DEF Load, convVars, GoesOn, Saving
<1>4. ASSUME NEW j \in Janitors \cup Callers, Close(j)
      PROVE  TimeInv'
  <2>1. jobs[j].on[1] \in Scopes /\ jobs[j].on[2] \in Ids
    BY <1>4 DEF HypnosInv, Held, Close, Groups
  <2>2. CloseSession(jobs[j].on[1], jobs[j].on[2])
    BY <1>4 DEF Close
  <2>3. turns' = turns \/ Stamp(jobs[j].on[1], jobs[j].on[2], Now)
    BY <2>2 DEF CloseSession
  <2>4. RowsStay
    <3>1. ConvTypeOK /\ Now \in Nat
      BY MarksTyped DEF HypnosInv, OrderInv, Now
    <3> QED
      BY <2>1, <2>3, <3>1, StampStep DEF RowsStay
  <2>5. \A w \in Writers : Saving(w)' => GoesOn(w)
    BY <2>2 DEF CloseSession, GoesOn, Saving
  <2> QED
    BY <2>4, <2>5, TimeStays DEF RowsStay
<1> QED
  BY <1>1, <1>2, <1>3, <1>4, MarkSteps

\* With the lock a transcript is in the order of created_at too, however its numbers were
\* allocated, tried again or purged, wherever nobody pinned one (postgres.py, save_turn and
\* session_lock).
THEOREM TranscriptsInTime ==
  ASSUME Locking
  PROVE  HypnosSpec => []TurnsInTime
<1>1. HypnosInit => TimeInv
  <2>1. ASSUME HypnosInit
        PROVE  /\ \A s \in Scopes, k \in Ids, n \in TurnNumbers : turns[s][k][n].at = 0
               /\ \A w \in Writers : ~Saving(w) /\ ~Inserting(w)
    BY <2>1 DEF HypnosInit, ConvInit, NoTurn, NoSave, Saving, Inserting
  <2> QED
    BY <2>1 DEF TimeInv, Alone, LatestBegun, NumberFree, TurnsInTime, TurnsOf, IsTurn
<1>2. HypnosInv /\ TimeInv /\ [HypnosNext]_hypnosVars => TimeInv'
  BY TimeStep
<1>3. TimeInv => TurnsInTime
  BY DEF TimeInv
<1> QED
  BY <1>1, <1>2, <1>3, HypnosInvariant, PTL DEF HypnosSpec
-----------------------------------------------------------------------------
(* News *)

Elsewhere(t) == \A w \in Writers : Saving(w) => saves[w].at # t

\* A row has an instant of its own, which no insert under way has.
RowsApart ==
  /\ \A s, r \in Scopes, k, i \in Ids, n, m \in TurnNumbers :
       (turns[s][k][n].at # 0 /\ turns[s][k][n].at = turns[r][i][m].at) => s = r /\ k = i /\ n = m
  /\ \A s \in Scopes, k \in Ids, n \in TurnNumbers :
       turns[s][k][n].at # 0 => Elsewhere(turns[s][k][n].at)

\* What a consolidation has loaded are rows of its session, or rows that are gone.
ReadsAreRows ==
  \A j \in Janitors \cup Callers : \A t \in jobs[j].read :
    /\ t # 0 /\ t <= clock /\ Elsewhere(t)
    /\ \A s \in Scopes, k \in Ids, n \in TurnNumbers :
         turns[s][k][n].at = t => jobs[j].on = <<s, k>>

\* What the closes that were taken have read is stamped, or gone.
KnownIsStamped ==
  \A s \in Scopes : \A t \in known[s] :
    /\ t # 0 /\ t <= clock /\ Elsewhere(t)
    /\ \A k \in Ids, n \in TurnNumbers : turns[s][k][n].at = t => turns[s][k][n].stamped

NewsInv == RowsApart /\ ReadsAreRows /\ KnownIsStamped

\* With no row that comes and no insert that begins, what was apart stays apart.
LEMMA ElsewhereStays ==
  ASSUME \A w \in Writers : Saving(w)' => Saving(w) /\ saves'[w].at = saves[w].at
  PROVE  \A t : Elsewhere(t) => Elsewhere(t)'
BY DEF Elsewhere

LEMMA NewsStay ==
  ASSUME HypnosInv, HypnosInv', NewsInv, NoMarkMoves
  PROVE  NewsInv'
<1>1. \A t : Elsewhere(t) => Elsewhere(t)'
  BY ElsewhereStays DEF NoMarkMoves, GoesOn
<1>2. \A s \in Scopes, k \in Ids, n \in TurnNumbers :
        turns'[s][k][n].at # 0 =>
          /\ turns'[s][k][n].at = turns[s][k][n].at
          /\ turns'[s][k][n].stamped = turns[s][k][n].stamped
  BY DEF NoMarkMoves, RowKeeps
<1>3. RowsApart'
  BY <1>1, <1>2 DEF NewsInv, RowsApart
<1>4. ReadsAreRows'
  <2> SUFFICES ASSUME NEW j \in Janitors \cup Callers, NEW t \in jobs'[j].read
               PROVE  /\ t # 0 /\ t <= clock /\ Elsewhere(t)'
                      /\ \A s \in Scopes, k \in Ids, n \in TurnNumbers :
                           turns'[s][k][n].at = t => jobs'[j].on = <<s, k>>
    BY DEF ReadsAreRows, NoMarkMoves
  <2>1. jobs'[j].on = jobs[j].on /\ jobs'[j].read = jobs[j].read
    BY DEF NoMarkMoves
  <2> QED
    BY <1>1, <1>2, <2>1 DEF NewsInv, ReadsAreRows
<1>5. KnownIsStamped'
  BY <1>1, <1>2 DEF NewsInv, KnownIsStamped, NoMarkMoves
<1> QED
  BY <1>3, <1>4, <1>5 DEF NewsInv

LEMMA EnteringKeepsNews ==
  ASSUME HypnosInv, NewsInv, NEW w \in Writers, Entered(w)
  PROVE  NewsInv'
<1>1. /\ clock \in Nat /\ clock' = clock + 1 /\ saves'[w].at = clock + 1
      /\ \A x \in Writers : x # w => saves'[x] = saves[x]
      /\ UNCHANGED <<turns, sessions, jobs, known>>
      /\ \A s \in Scopes, k \in Ids, n \in TurnNumbers :
           turns[s][k][n].at <= clock /\ turns[s][k][n].at \in Nat
  BY MarksTyped DEF Entered, Begun, OthersStay, Typed
<1>2. \A t \in Nat : t <= clock /\ Elsewhere(t) => Elsewhere(t)' /\ t <= clock'
  BY <1>1 DEF Elsewhere, Saving
<1>3. RowsApart'
  BY <1>1, <1>2 DEF NewsInv, RowsApart
<1>4. \A j \in Janitors \cup Callers : jobs[j].read \subseteq Nat
  BY MarksTyped DEF Job
<1>5. \A s \in Scopes : known[s] \subseteq Nat
  BY DEF HypnosInv, HypnosTypeOK
<1>6. ReadsAreRows'
  BY <1>1, <1>2, <1>4 DEF NewsInv, ReadsAreRows
<1>7. KnownIsStamped'
  BY <1>1, <1>2, <1>5 DEF NewsInv, KnownIsStamped
<1> QED
  BY <1>3, <1>6, <1>7 DEF NewsInv

LEMMA ArrivingKeepsNews ==
  ASSUME HypnosInv, NewsInv, NEW w \in Writers, Arrived(w)
  PROVE  NewsInv'
<1> DEFINE s == saves[w].scope
           k == saves[w].id
           n == saves[w].number
           at == saves[w].at
<1>1. /\ s \in Scopes /\ k \in Ids /\ n \in TurnNumbers
      /\ at \in Nat /\ at > 0 /\ Saving(w) /\ clock' = clock
      /\ UNCHANGED <<sessions, jobs, known>>
  BY MarksTyped, InsertingSaves DEF Arrived, Landed, Typed
<1>2. /\ turns'[s][k][n].at = at
      /\ \A r \in Scopes, i \in Ids, m \in TurnNumbers :
           r # s \/ i # k \/ m # n => turns'[r][i][m] = turns[r][i][m]
  BY DEF Arrived, Landed
<1>3. \A x \in Writers : Saving(x)' => Saving(x) /\ saves'[x] = saves[x]
  BY DEF Arrived, Landed, OthersStay, Saving
<1>4. \A t : Elsewhere(t) => Elsewhere(t)' /\ t # at
  BY <1>1, <1>3, ElsewhereStays DEF Elsewhere
<1>5. \A x \in Writers : Saving(x)' => saves'[x].at # at
  BY <1>1, <1>3 DEF Elsewhere, HypnosInv, OrderInv, SavesAreApart, Arrived, Landed, Saving
<1> HIDE DEF s, k, n, at
<1>6. RowsApart'
  <2> DEFINE Apart(t) ==
           \A x \in Writers : saves'[x].phase \in {"begun", "inserting"} => saves'[x].at # t
  <2>1. \A t : Elsewhere(t) => Apart(t) /\ t # at
    BY <1>4 DEF Elsewhere, Saving
  <2>2. Apart(at)
    BY <1>5 DEF Saving
  <2> HIDE DEF Apart
  <2>3. \A r \in Scopes, i \in Ids, m \in TurnNumbers :
          /\ turns'[r][i][m].at # 0 => Apart(turns'[r][i][m].at)
          /\ \/ r = s /\ i = k /\ m = n /\ turns'[r][i][m].at = at
             \/ turns'[r][i][m].at = 0
             \/ turns'[r][i][m] = turns[r][i][m] /\ turns[r][i][m].at # at
    BY <1>2, <2>1, <2>2 DEF NewsInv, RowsApart
  <2>4. at # 0
    BY <1>1
  <2>5. \A r, q \in Scopes, i, h \in Ids, m, l \in TurnNumbers :
          (turns'[r][i][m].at # 0 /\ turns'[r][i][m].at = turns'[q][h][l].at) =>
            r = q /\ i = h /\ m = l
    <3> SUFFICES ASSUME NEW r \in Scopes, NEW i \in Ids, NEW m \in TurnNumbers,
                        NEW q \in Scopes, NEW h \in Ids, NEW l \in TurnNumbers,
                        turns'[r][i][m].at # 0, turns'[r][i][m].at = turns'[q][h][l].at
                 PROVE  r = q /\ i = h /\ m = l
      OBVIOUS
    <3>1. CASE r = s /\ i = k /\ m = n
      BY <2>3, <2>4, <1>2, <3>1
    <3>2. CASE ~(r = s /\ i = k /\ m = n)
      <4>1. turns'[r][i][m] = turns[r][i][m] /\ turns[r][i][m].at # at
        BY <2>3, <3>2
      <4>2. turns'[q][h][l] = turns[q][h][l]
        BY <1>2, <2>3, <4>1
      <4> QED
        BY <4>1, <4>2 DEF NewsInv, RowsApart
    <3> QED
      BY <3>1, <3>2
  <2>6. \A r \in Scopes, i \in Ids, m \in TurnNumbers :
          turns'[r][i][m].at # 0 => Apart(turns'[r][i][m].at)
    BY <2>3
  <2> QED
    BY <2>5, <2>6 DEF RowsApart, Elsewhere, Saving, Apart
<1>7. ReadsAreRows'
  BY <1>1, <1>2, <1>4 DEF NewsInv, ReadsAreRows
<1>8. KnownIsStamped'
  BY <1>1, <1>2, <1>4 DEF NewsInv, KnownIsStamped
<1> QED
  BY <1>6, <1>7, <1>8 DEF NewsInv

LEMMA LoadingKeepsNews ==
  ASSUME HypnosInv, NewsInv, NEW j \in Janitors \cup Callers, NEW g \in Groups,
         NEW close \in BOOLEAN, Load(j, g, close)
  PROVE  NewsInv'
<1>1. /\ UNCHANGED <<turns, sessions, saves, clock, known>>
      /\ jobs'[j].on = g /\ jobs'[j].read = LoadOf(g[1], g[2])
      /\ \A i \in Janitors \cup Callers : i # j => jobs'[i] = jobs[i]
  BY MarksTyped DEF Load, convVars
<1>2. g = <<g[1], g[2]>> /\ g[1] \in Scopes /\ g[2] \in Ids
  BY DEF Groups
<1>3. \A t : Elsewhere(t)' <=> Elsewhere(t)
  BY <1>1 DEF Elsewhere, Saving
<1>4. RowsApart' /\ KnownIsStamped'
  BY <1>1, <1>3 DEF NewsInv, RowsApart, KnownIsStamped
<1>5. \A t \in LoadOf(g[1], g[2]) :
        /\ t # 0 /\ t <= clock /\ Elsewhere(t)
        /\ \A s \in Scopes, k \in Ids, n \in TurnNumbers :
             turns[s][k][n].at = t => g = <<s, k>>
  <2> SUFFICES ASSUME NEW m \in TurnsOf(g[1], g[2])
               PROVE  LET t == turns[g[1]][g[2]][m].at IN
                      /\ t # 0 /\ t <= clock /\ Elsewhere(t)
                      /\ \A s \in Scopes, k \in Ids, n \in TurnNumbers :
                           turns[s][k][n].at = t => g = <<s, k>>
    BY DEF LoadOf
  <2>1. m \in TurnNumbers /\ turns[g[1]][g[2]][m].at # 0
    BY DEF TurnsOf, IsTurn
  <2>2. turns[g[1]][g[2]][m].at <= clock /\ Elsewhere(turns[g[1]][g[2]][m].at)
    BY <1>2, <2>1, MarksTyped DEF NewsInv, RowsApart
  <2>3. \A s \in Scopes, k \in Ids, n \in TurnNumbers :
          turns[s][k][n].at = turns[g[1]][g[2]][m].at => s = g[1] /\ k = g[2]
    BY <1>2, <2>1 DEF NewsInv, RowsApart
  <2> QED
    BY <1>2, <2>1, <2>2, <2>3
<1>6. ReadsAreRows'
  BY <1>1, <1>3, <1>5 DEF NewsInv, ReadsAreRows
<1> QED
  BY <1>4, <1>6 DEF NewsInv

\* A close that is taken stamps what was loaded, and one that is not says nothing.
LEMMA ClosingKeepsNews ==
  ASSUME HypnosInv, NewsInv, NEW j \in Janitors \cup Callers, Close(j)
  PROVE  NewsInv'
<1> DEFINE s == jobs[j].on[1]
           k == jobs[j].on[2]
<1>1. /\ s \in Scopes /\ k \in Ids /\ jobs[j].on = <<s, k>>
      /\ CloseSession(s, k)
      /\ known' = IF sessions[k].scope \in {s, Nil}
                  THEN [known EXCEPT ![s] = @ \cup jobs[j].read] ELSE known
      /\ jobs' = [jobs EXCEPT ![j] = NextOf(jobs[j])]
  BY DEF HypnosInv, Held, Close, Groups
<1> HIDE DEF s, k
<1>2. sessions[k].scope \in {s, Nil} => Stamp(s, k, clock + 1)
  BY <1>1 DEF CloseSession, Now
<1>3. /\ clock' = clock + 1 /\ saves' = saves /\ clock \in Nat
      /\ sessions[k].scope \notin {s, Nil} => UNCHANGED <<turns, known>>
  BY <1>1, MarksTyped DEF CloseSession, ReadNow, Now
<1>4. \A r \in Scopes, i \in Ids, n \in TurnNumbers :
        /\ turns'[r][i][n].at = turns[r][i][n].at
        /\ turns[r][i][n].stamped => turns'[r][i][n].stamped
  BY <1>1, <1>2, <1>3, StampStep DEF RowsStay, HypnosInv, OrderInv
<1>5. ASSUME sessions[k].scope \in {s, Nil}
      PROVE  \A n \in TurnNumbers : turns[s][k][n].at # 0 => turns'[s][k][n].stamped
  <2> SUFFICES ASSUME NEW n \in TurnNumbers, turns[s][k][n].at # 0
               PROVE  turns'[s][k][n].stamped
    OBVIOUS
  <2>1. turns[s][k][n].at <= clock + 1
    BY <1>1, <1>3, MarksTyped DEF Typed
  <2>2. turns[s][k][n] \in TurnRow
    BY <1>1, MarksTyped
  <2>3. Stamp(s, k, clock + 1) /\ turns \in [Scopes -> [Ids -> [TurnNumbers -> TurnRow]]]
    BY <1>2, <1>5 DEF HypnosInv, OrderInv, ConvTypeOK
  <2>4. turns'[s][k][n] = [turns[s][k][n] EXCEPT !.stamped = TRUE]
    BY <1>1, <2>1, <2>3 DEF Stamp
  <2> QED
    BY <2>2, <2>4 DEF TurnRow
<1>6. \A t : Elsewhere(t)' <=> Elsewhere(t)
  BY <1>3 DEF Elsewhere, Saving
<1>7. \A t \in Nat : t <= clock => t <= clock'
  BY <1>3
<1>8. RowsApart'
  BY <1>4, <1>6 DEF NewsInv, RowsApart
<1>9. ReadsAreRows'
  <2> SUFFICES ASSUME NEW i \in Janitors \cup Callers, NEW t \in jobs'[i].read
               PROVE  /\ t # 0 /\ t <= clock' /\ Elsewhere(t)
                      /\ \A r \in Scopes, h \in Ids, n \in TurnNumbers :
                           turns[r][h][n].at = t => jobs'[i].on = <<r, h>>
    BY <1>4, <1>6 DEF ReadsAreRows
  <2>1. NextOf(jobs[j]).read = {}
    BY DEF NextOf, NoJob
  <2>2. i # j /\ jobs'[i] = jobs[i]
    BY <1>1, <2>1, MarksTyped
  <2>3. t \in jobs[i].read /\ t \in Nat
    BY <2>2, MarksTyped DEF Job
  <2> QED
    BY <1>7, <2>2, <2>3 DEF NewsInv, ReadsAreRows
<1>10. KnownIsStamped'
  <2>1. known \in [Scopes -> SUBSET Nat] /\ jobs[j].read \subseteq Nat
    BY MarksTyped DEF HypnosInv, HypnosTypeOK, Job
  <2>2. \A r \in Scopes : r # s => known'[r] = known[r]
    BY <1>1, <2>1
  <2>3. \A t \in known'[s] :
          t \in known[s] \/ (t \in jobs[j].read /\ sessions[k].scope \in {s, Nil})
    BY <1>1, <2>1
  <2> SUFFICES ASSUME NEW r \in Scopes, NEW t \in known'[r]
               PROVE  /\ t # 0 /\ t <= clock' /\ Elsewhere(t)
                      /\ \A i \in Ids, n \in TurnNumbers :
                           turns[r][i][n].at = t => turns'[r][i][n].stamped
    BY <1>4, <1>6 DEF KnownIsStamped
  <2>4. CASE t \in known[r]
    BY <1>4, <1>7, <2>1, <2>4 DEF NewsInv, KnownIsStamped
  <2>5. CASE r = s /\ t \in jobs[j].read /\ sessions[k].scope \in {s, Nil}
    <3>1. /\ t # 0 /\ t <= clock /\ Elsewhere(t) /\ t \in Nat
          /\ \A i \in Ids, n \in TurnNumbers : turns[s][i][n].at = t => i = k
      BY <1>1, <2>1, <2>5 DEF NewsInv, ReadsAreRows
    <3>2. \A n \in TurnNumbers : turns[s][k][n].at # 0 => turns'[s][k][n].stamped
      BY <1>5, <2>5
    <3> QED
      BY <1>7, <2>5, <3>1, <3>2
  <2> QED
    BY <2>2, <2>3, <2>4, <2>5
<1> QED
  BY <1>8, <1>9, <1>10 DEF NewsInv

LEMMA NewsBegin ==
  ASSUME HypnosInit
  PROVE  NewsInv
<1>1. /\ \A s \in Scopes, k \in Ids, n \in TurnNumbers : turns[s][k][n].at = 0
      /\ \A j \in Janitors \cup Callers : jobs[j].read = {}
      /\ \A s \in Scopes : known[s] = {}
  BY DEF HypnosInit, ConvInit, NoTurn, NoJob
<1> QED
  BY <1>1 DEF NewsInv, RowsApart, ReadsAreRows, KnownIsStamped

LEMMA NewsStep ==
  ASSUME HypnosInv, HypnosInv', NewsInv, [HypnosNext]_hypnosVars
  PROVE  NewsInv'
BY MarkSteps, NewsStay, EnteringKeepsNews, ArrivingKeepsNews, LoadingKeepsNews,
   ClosingKeepsNews

\* A scan picks a session for a turn that nothing has read.
LEMMA PickedForNews ==
  ASSUME HypnosInv, NewsInv, NEW s \in Scopes, NEW k \in Ids, Unread(s, k) # {}
  PROVE  LoadOf(s, k) \ known[s] # {}
<1>1. PICK n \in TurnsOf(s, k) : ~turns[s][k][n].stamped
  BY DEF Unread
<1>2. n \in TurnNumbers /\ turns[s][k][n].at \in LoadOf(s, k)
  BY DEF TurnsOf, LoadOf
<1>3. turns[s][k][n].at \notin known[s]
  BY <1>1, <1>2 DEF NewsInv, KnownIsStamped
<1> QED
  BY <1>2, <1>3

\* With the lock or without it, in any number of scopes, a session comes back in a scan only
\* when it has a turn that no close which was taken has read: once per burst of turns, not
\* once per tick, whatever became of its row and whoever has its id (postgres.py,
\* idle_sessions).
THEOREM PicksAreNews == HypnosSpec => PicksHaveNews
<1> DEFINE HasNews == \A j \in Janitors :
             (jobs[j].phase = "idle" /\ jobs'[j].phase = "pick") =>
               \A g \in jobs'[j].todo : LoadOf(g[1], g[2]) \ known[g[1]] # {}
<1>1. HypnosInit => NewsInv
  BY NewsBegin
<1>2. HypnosInv /\ HypnosInv' /\ NewsInv /\ [HypnosNext]_hypnosVars => NewsInv'
  BY NewsStep
<1>3. HypnosInv /\ NewsInv /\ [HypnosNext]_hypnosVars => [HasNews]_hypnosVars
  <2> SUFFICES ASSUME HypnosInv, NewsInv, [HypnosNext]_hypnosVars, NEW j \in Janitors,
                      jobs[j].phase = "idle", jobs'[j].phase = "pick", NEW g \in jobs'[j].todo
               PROVE  LoadOf(g[1], g[2]) \ known[g[1]] # {}
    BY DEF HasNews
  <2>1. jobs \in [Janitors \cup Callers -> Job]
    BY MarksTyped
  <2>2. ASSUME NEW i \in Janitors, Scan(i)
        PROVE  LoadOf(g[1], g[2]) \ known[g[1]] # {}
    <3>1. PICK cutoff \in 1..Now : \E S \in SUBSET Idle(cutoff) :
            jobs' = [jobs EXCEPT ![i].phase = "pick", ![i].todo = S]
      BY <2>2 DEF Scan
    <3>2. PICK S \in SUBSET Idle(cutoff) :
            jobs' = [jobs EXCEPT ![i].phase = "pick", ![i].todo = S]
      BY <3>1
    <3>3. i = j
      BY <2>1, <3>2
    <3>4. g \in Idle(cutoff)
      BY <2>1, <3>2, <3>3 DEF Job
    <3>5. g[1] \in Scopes /\ g[2] \in Ids /\ Unread(g[1], g[2]) # {}
      BY <3>4 DEF Idle, Groups
    <3> QED
      BY <3>5, PickedForNews
  <2>3. ASSUME NEW i \in Janitors \cup Callers, NEW h, NEW close, Load(i, h, close)
        PROVE  FALSE
    <3>1. jobs'[i].phase \in {"think", "close"} /\ (i # j => jobs'[j] = jobs[j])
      BY <2>1, <2>3 DEF Load
    <3> QED
      BY <3>1
  <2>4. ASSUME NEW i \in Janitors \cup Callers, Extract(i) \/ Close(i) \/ FailJob(i)
        PROVE  FALSE
    <3>1. jobs[i].phase \in {"think", "close"} /\ (i # j => jobs'[j] = jobs[j])
      BY <2>1, <2>4 DEF Extract, Close, FailJob
    <3> QED
      BY <3>1
  <2>5. ASSUME NEW i \in Janitors \cup Callers, CrashJob(i)
        PROVE  FALSE
    BY <2>1, <2>5 DEF CrashJob, NoJob
  <2>6. ASSUME UNCHANGED jobs PROVE FALSE
    BY <2>6
  <2> QED
    BY <2>2, <2>3, <2>4, <2>5, <2>6 DEF HypnosNext, JobStep, Periodic, Consolidate, hypnosVars
<1> QED
  BY <1>1, <1>2, <1>3, HypnosInvariant, PTL DEF HypnosSpec, PicksHaveNews
=============================================================================
