----------------------------- MODULE PartsProofs ----------------------------
(***************************************************************************)
(* What is proved of the parts that share no state (MCParts runs them side *)
(* by side): TokenPacer, FoldMigration, TurnTraces, ConversationBuffer,    *)
(* MemoryUpkeep and Lexical, each for any values of its constants.         *)
(***************************************************************************)
EXTENDS TokenPacer, FoldMigration, TurnTraces, ConversationBuffer, MemoryUpkeep, Lexical,
        NaturalSets, SequenceTheorems

-----------------------------------------------------------------------------
(***************************************************************************)
(* TokenPacer                                                              *)
(* EachJobIsPaced is not inductive: a grant leaves nothing of what was in  *)
(* the bucket.  Paced counts what is still there with what a job has gone  *)
(* through with; and what a sleeping job will go through with is covered   *)
(* by the instant it sleeps to.                                            *)
(***************************************************************************)
\* What the bucket holds is at most its size, and goes on from what it was.
LEMMA RefilledBounds ==
  ASSUME PacerTypeOK
  PROVE  /\ Refilled(now) \in 0..Limit
         /\ Refilled(now + 1) \in 0..Refilled(now) + 1
BY PacerAssumption DEF PacerTypeOK, Refilled, Lesser

\* What a grant leaves.
LEMMA GrantLeaves ==
  ASSUME PacerTypeOK, NEW j \in Jobs, NEW need \in 0..Limit, Grant(j, need)
  PROVE  /\ PacerTypeOK'
         /\ Refilled(now)' = Greater(0, Refilled(now) - need)
         /\ granted' = [granted EXCEPT ![j] = @ + need]
         /\ UNCHANGED <<now, since>>
<1>1. Refilled(now) \in 0..Limit
  BY RefilledBounds
<1>2. available' = Greater(0, Refilled(now) - need) /\ at' = now /\ now' = now
  BY DEF Grant
<1>3. available' \in 0..Limit
  BY <1>1, <1>2, PacerAssumption DEF Greater
<1>4. PacerTypeOK'
  BY <1>2, <1>3, PacerAssumption DEF Grant, PacerTypeOK, NoCall, Call
<1>5. Refilled(now)' = available'
  BY <1>2, <1>3, PacerAssumption DEF Refilled, Lesser, PacerTypeOK
<1> QED BY <1>2, <1>4, <1>5 DEF Grant

\* The bucket's numbers and the jobs' calls keep their types: it is never below nothing nor
\* above its size (TokensPerMinute), whoever takes from it.
THEOREM PacerTypeCorrect == PacerSpec => []PacerTypeOK
<1>1. PacerInit => PacerTypeOK
  BY PacerAssumption DEF PacerInit, PacerTypeOK, NoCall, Call
<1>2. PacerTypeOK /\ [PacerNext]_pacerVars => PacerTypeOK'
  <2> SUFFICES ASSUME PacerTypeOK, [PacerNext]_pacerVars
               PROVE  PacerTypeOK'
    OBVIOUS
  <2> USE PacerAssumption DEF PacerTypeOK
  <2>1. ASSUME NEW j \in Jobs, NEW tokens \in 0..MaxTokens, Pace(j, tokens)
        PROVE  PacerTypeOK'
    <3> DEFINE need == Need(tokens)
               left == Refilled(now)
    <3>1. need \in 0..Limit
      BY DEF Need, Lesser
    <3>2. left \in 0..Limit
      BY RefilledBounds
    <3>3. CASE Grant(j, need)
      BY <3>1, <3>3, GrantLeaves
    <3>4. CASE ~Grant(j, need)
      <4>1. /\ left < need /\ available' = left /\ at' = now
            /\ call' = [call EXCEPT ![j] =
                 [asleep |-> TRUE, need |-> need, until |-> now + (need - left)]]
            /\ UNCHANGED <<now, since, granted>>
        BY <2>1, <3>4 DEF Pace
      <4> HIDE DEF need, left
      <4>2. now + (need - left) \in Nat
        BY <3>1, <3>2, <4>1
      <4> QED BY <3>1, <3>2, <4>1, <4>2 DEF Call
    <3> QED BY <3>3, <3>4
  <2>2. ASSUME NEW j \in Jobs, Wake(j)
        PROVE  PacerTypeOK'
    <3>1. call[j].need \in 0..Limit
      BY DEF Call
    <3> QED BY <2>2, <3>1, GrantLeaves DEF Wake
  <2>3. ASSUME NEW j \in Jobs, CancelCall(j)
        PROVE  PacerTypeOK'
    BY <2>3 DEF CancelCall, NoCall, Call
  <2>4. CASE PacerTick
    BY <2>4 DEF PacerTick
  <2>5. CASE Observe
    BY <2>5 DEF Observe
  <2>6. CASE UNCHANGED pacerVars
    BY <2>6 DEF pacerVars
  <2> QED BY <2>1, <2>2, <2>3, <2>4, <2>5, <2>6 DEF PacerNext
<1> QED BY <1>1, <1>2, PTL DEF PacerSpec

-----------------------------------------------------------------------------
\* What a job has gone through with and what it would find now are no more than the rate.
WithWhatIsLeft == \A j \in Jobs : granted[j] + Refilled(now) <= Limit + (now - since)

\* And so are, at the instant it sleeps to, what it has gone through with and its need.
WithWhatItWaitsFor ==
  \A j \in Jobs : call[j].asleep =>
    granted[j] + call[j].need <= Limit + (Greater(call[j].until, now) - since)

Paced == PacerTypeOK /\ WithWhatIsLeft /\ WithWhatItWaitsFor

\* A grant takes from the bucket what it gives, or no more than was waited for.
LEMMA GrantIsPaced ==
  ASSUME Paced, PacerTypeOK', NEW j \in Jobs, NEW need \in 0..Limit, Grant(j, need),
         \/ Refilled(now) >= need
         \/ granted[j] + need <= Limit + (now - since)
  PROVE  Paced'
<1> USE DEF Paced
<1>1. Refilled(now) \in 0..Limit
  BY RefilledBounds
<1>2. /\ Refilled(now)' = Greater(0, Refilled(now) - need)
      /\ granted' = [granted EXCEPT ![j] = @ + need]
      /\ now' = now /\ since' = since
  BY GrantLeaves
<1>3. WithWhatIsLeft'
  <2> SUFFICES ASSUME NEW k \in Jobs
               PROVE  granted'[k] + Refilled(now)' <= Limit + (now - since)
    BY <1>2 DEF WithWhatIsLeft
  <2>1. granted[k] \in Nat /\ granted[k] + Refilled(now) <= Limit + (now - since)
    BY DEF WithWhatIsLeft, PacerTypeOK
  <2>2. granted'[k] = IF k = j THEN granted[k] + need ELSE granted[k]
    BY <1>2 DEF PacerTypeOK
  <2> QED BY <1>1, <1>2, <2>1, <2>2, PacerAssumption DEF Greater, PacerTypeOK
<1>4. WithWhatItWaitsFor'
  <2> SUFFICES ASSUME NEW k \in Jobs, call'[k].asleep
               PROVE  granted'[k] + call'[k].need
                        <= Limit + (Greater(call'[k].until, now) - since)
    BY <1>2 DEF WithWhatItWaitsFor
  <2>1. k # j /\ call'[k] = call[k]
    BY DEF Grant, PacerTypeOK, NoCall
  <2>2. granted'[k] = granted[k]
    BY <1>2, <2>1 DEF PacerTypeOK
  <2> QED BY <2>1, <2>2 DEF WithWhatItWaitsFor
<1> QED BY <1>3, <1>4

\* Whatever the sleeps of the jobs overlap, and whoever is cancelled, each job goes through
\* with no more than a full bucket and its refill, from any instant on.
THEOREM JobsArePaced == PacerSpec => []EachJobIsPaced
<1>1. PacerInit => Paced
  BY PacerAssumption
  DEF PacerInit, Paced, PacerTypeOK, NoCall, Call, WithWhatIsLeft, WithWhatItWaitsFor,
      Refilled,
      Lesser
<1>2. Paced /\ PacerTypeOK' /\ [PacerNext]_pacerVars => Paced'
  <2> SUFFICES ASSUME Paced, PacerTypeOK', [PacerNext]_pacerVars
               PROVE  Paced'
    OBVIOUS
  <2> USE PacerAssumption DEF Paced
  <2>0. /\ Refilled(now) \in 0..Limit
        /\ Refilled(now + 1) \in 0..Refilled(now) + 1
    BY RefilledBounds
  <2>1. ASSUME NEW j \in Jobs, NEW tokens \in 0..MaxTokens, Pace(j, tokens)
        PROVE  Paced'
    <3> DEFINE need == Need(tokens)
               left == Refilled(now)
    <3>1. need \in 0..Limit
      BY DEF Need, Lesser
    <3>2. CASE left >= need
      BY <2>1, <3>1, <3>2, <2>0, GrantIsPaced DEF Pace
    <3>3. CASE ~(left >= need)
      <4>1. /\ left < need /\ available' = left /\ at' = now
            /\ call' = [call EXCEPT ![j] =
                 [asleep |-> TRUE, need |-> need, until |-> now + (need - left)]]
            /\ now' = now /\ since' = since /\ granted' = granted
        BY <2>1, <3>3 DEF Pace
      <4>2. Refilled(now)' = left
        BY <2>0, <4>1 DEF Refilled, Lesser, PacerTypeOK
      <4>3. WithWhatIsLeft'
        BY <4>1, <4>2 DEF WithWhatIsLeft
      <4>4. WithWhatItWaitsFor'
        <5> SUFFICES ASSUME NEW k \in Jobs, call'[k].asleep
                     PROVE  granted[k] + call'[k].need
                              <= Limit + (Greater(call'[k].until, now) - since)
          BY <4>1 DEF WithWhatItWaitsFor
        <5>1. CASE k = j
          <6>1. call'[k].need = need /\ call'[k].until = now + (need - left)
            BY <4>1, <5>1 DEF PacerTypeOK
          <6>2. granted[k] \in Nat /\ granted[k] + left <= Limit + (now - since)
            BY DEF WithWhatIsLeft, PacerTypeOK
          <6> HIDE DEF need, left
          <6> QED BY <2>0, <3>1, <4>1, <6>1, <6>2 DEF Greater, PacerTypeOK
        <5>2. CASE k # j
          BY <4>1, <5>2 DEF WithWhatItWaitsFor, PacerTypeOK
        <5> QED BY <5>1, <5>2
      <4> QED BY <4>3, <4>4
    <3> QED BY <3>2, <3>3
  <2>2. ASSUME NEW j \in Jobs, Wake(j)
        PROVE  Paced'
    <3>1. /\ call[j].need \in 0..Limit /\ call[j].until \in Nat
          /\ granted[j] + call[j].need <= Limit + (Greater(call[j].until, now) - since)
          /\ now >= call[j].until
          /\ Grant(j, call[j].need)
      BY <2>2 DEF Wake, WithWhatItWaitsFor, PacerTypeOK, Call
    <3>2. Greater(call[j].until, now) = now
      BY <3>1 DEF Greater, PacerTypeOK
    <3> QED BY <3>1, <3>2, GrantIsPaced
  <2>3. ASSUME NEW j \in Jobs, CancelCall(j)
        PROVE  Paced'
    <3>1. WithWhatIsLeft'
      BY <2>3 DEF CancelCall, WithWhatIsLeft, Refilled
    <3>2. WithWhatItWaitsFor'
      BY <2>3 DEF CancelCall, WithWhatItWaitsFor, NoCall, PacerTypeOK
    <3> QED BY <3>1, <3>2
  <2>4. CASE PacerTick
    <3>1. /\ now' = now + 1 /\ since' = since /\ granted' = granted /\ call' = call
          /\ available' = available /\ at' = at
      BY <2>4 DEF PacerTick
    <3>2. Refilled(now)' = Refilled(now + 1)
      BY <3>1 DEF Refilled
    <3>3. WithWhatIsLeft'
      BY <2>0, <3>1, <3>2 DEF WithWhatIsLeft, PacerTypeOK
    <3>4. WithWhatItWaitsFor'
      <4> SUFFICES ASSUME NEW k \in Jobs, call[k].asleep
                   PROVE  granted[k] + call[k].need
                            <= Limit + (Greater(call[k].until, now + 1) - since)
        BY <3>1 DEF WithWhatItWaitsFor
      <4>1. granted[k] + call[k].need <= Limit + (Greater(call[k].until, now) - since)
        BY DEF WithWhatItWaitsFor
      <4>2. /\ granted[k] \in Nat /\ call[k].need \in 0..Limit /\ call[k].until \in Nat
            /\ now \in Nat /\ since \in Nat
        BY DEF PacerTypeOK, Call
      <4> QED BY <4>1, <4>2 DEF Greater
    <3> QED BY <3>3, <3>4
  <2>5. CASE Observe
    <3>1. /\ since' = now /\ now' = now /\ call' = call /\ available' = available /\ at' = at
          /\ granted' = [j \in Jobs |-> 0]
      BY <2>5 DEF Observe
    <3>2. Refilled(now)' = Refilled(now)
      BY <3>1 DEF Refilled
    <3>3. WithWhatIsLeft'
      BY <2>0, <3>1, <3>2 DEF WithWhatIsLeft, PacerTypeOK
    <3>4. WithWhatItWaitsFor'
      <4> SUFFICES ASSUME NEW k \in Jobs, call[k].asleep
                   PROVE  0 + call[k].need <= Limit + (Greater(call[k].until, now) - now)
        BY <3>1 DEF WithWhatItWaitsFor
      <4>1. call[k].need \in 0..Limit /\ call[k].until \in Nat /\ now \in Nat
        BY DEF PacerTypeOK, Call
      <4> QED BY <4>1 DEF Greater
    <3> QED BY <3>3, <3>4
  <2>6. CASE UNCHANGED pacerVars
    BY <2>6 DEF pacerVars, WithWhatIsLeft, WithWhatItWaitsFor, Refilled
  <2> QED BY <2>1, <2>2, <2>3, <2>4, <2>5, <2>6 DEF PacerNext
<1>3. Paced => EachJobIsPaced
  <2> SUFFICES ASSUME Paced, NEW j \in Jobs
               PROVE  granted[j] <= Limit + (now - since)
    BY DEF EachJobIsPaced
  <2>1. Refilled(now) \in 0..Limit
    BY RefilledBounds DEF Paced
  <2> QED BY <2>1, PacerAssumption DEF Paced, WithWhatIsLeft, PacerTypeOK
<1> QED BY <1>1, <1>2, <1>3, PacerTypeCorrect, PTL DEF PacerSpec

-----------------------------------------------------------------------------
(***************************************************************************)
(* FoldMigration                                                           *)
(* No edge is lost by a merge, wherever it is cut off.  The cascade of the *)
(* last statement takes no edge because the statements before it have left *)
(* none, and that is what Merging says of each step: after the first there *)
(* are no duplicates to run into UNIQUE, after the second nothing that     *)
(* would be a loop, after the third no edge at all.                        *)
(***************************************************************************)
Busy == {"duplicates", "loops", "repoint", "alias", "delete"}

Shape ==
  /\ nodes \subseteq Nodes
  /\ edges \subseteq Triples
  /\ stays \in [Nodes -> Nodes]
  /\ merging \in [node : Nodes \cup {NoNode}, step : Steps]
  /\ before \subseteq Triples
  /\ \A e \in edges : e[1] \in nodes /\ e[3] \in nodes

\* From the report on, each node has one survivor, of its key and itself surviving.
Surviving ==
  merging.step # "report" => \A n \in nodes :
    stays[n] \in nodes /\ Key[stays[n]] = Key[n] /\ stays[stays[n]] = stays[n]

Merging ==
  /\ merging.step # "failed"
  /\ merging.step \in Busy => merging.node \in nodes /\ stays[merging.node] # merging.node
  /\ merging.step \in {"loops", "repoint"} => Duplicates(merging.node, Survivor) = {}
  /\ merging.step = "repoint" => Between(merging.node, Survivor) = {}
  /\ merging.step \in {"alias", "delete"} => EdgesOf(merging.node) = {}

Kept == \A e \in before : IsKept(e) \/ (e[1] # e[3] /\ Key[e[1]] = Key[e[3]])

FoldInv == Shape /\ Surviving /\ Merging /\ Kept

-----------------------------------------------------------------------------
\* An edge that is repointed says the same between nodes of the same keys, and is no longer
\* the loser's.
LEMMA RepointedEdge ==
  ASSUME Shape, NEW n \in nodes, NEW s \in nodes, n # s, Key[n] = Key[s], NEW e \in edges
  PROVE  LET o == Repointed(e, n, s) IN
         /\ o \in Triples /\ o[1] \in nodes /\ o[3] \in nodes
         /\ o[2] = e[2] /\ Key[o[1]] = Key[e[1]] /\ Key[o[3]] = Key[e[3]]
         /\ e[1] = e[3] => o[1] = o[3]
         /\ ~Touches(o, n)
BY DEF Shape, Triples, Repointed, Instead, Touches

\* A step that keeps every edge, or has its repointed form in its place, keeps what Kept says.
LEMMA KeptBySubstitutes ==
  ASSUME Kept, before' = before, edges \subseteq Triples,
         \A e \in edges : \E o \in edges' :
           /\ o[2] = e[2] /\ Key[o[1]] = Key[e[1]] /\ Key[o[3]] = Key[e[3]]
           /\ e[1] = e[3] => o[1] = o[3]
  PROVE  Kept'
<1> SUFFICES ASSUME NEW b \in before, ~(b[1] # b[3] /\ Key[b[1]] = Key[b[3]])
             PROVE  IsKept(b)'
  BY DEF Kept
<1>1. PICK e \in edges : /\ e[2] = b[2] /\ Key[e[1]] = Key[b[1]] /\ Key[e[3]] = Key[b[3]]
                         /\ b[1] = b[3] => e[1] = e[3]
  BY DEF Kept, IsKept
<1>2. PICK o \in edges' : /\ o[2] = e[2] /\ Key[o[1]] = Key[e[1]] /\ Key[o[3]] = Key[e[3]]
                          /\ e[1] = e[3] => o[1] = o[3]
  OBVIOUS
<1> QED BY <1>1, <1>2 DEF IsKept

\* What the second statement deletes would be loops.
LEMMA KeptWithoutLoops ==
  ASSUME Kept, before' = before, NEW n \in Nodes, NEW s \in Nodes, n # s, Key[n] = Key[s],
         edges' = edges \ Between(n, s)
  PROVE  Kept'
<1> SUFFICES ASSUME NEW b \in before, ~(b[1] # b[3] /\ Key[b[1]] = Key[b[3]])
             PROVE  IsKept(b)'
  BY DEF Kept
<1>1. PICK e \in edges : /\ e[2] = b[2] /\ Key[e[1]] = Key[b[1]] /\ Key[e[3]] = Key[b[3]]
                         /\ b[1] = b[3] => e[1] = e[3]
  BY DEF Kept, IsKept
<1>2. e \notin Between(n, s)
  BY <1>1 DEF Between
<1> QED BY <1>1, <1>2 DEF IsKept

\* Where there are neither duplicates nor edges between the two, no two edges become one.
LEMMA NoneFallTogether ==
  ASSUME Shape, NEW n \in nodes, NEW s \in nodes, n # s,
         Duplicates(n, s) = {}, Between(n, s) = {}
  PROVE  LET S == EdgesOf(n) IN
         /\ {Repointed(e, n, s) : e \in S} \cap (edges \ S) = {}
         /\ \A e, f \in S : Repointed(e, n, s) = Repointed(f, n, s) => e = f
<1> DEFINE S == EdgesOf(n)
<1>1. ASSUME NEW e \in S, Repointed(e, n, s) \in edges \ S
      PROVE  FALSE
  BY <1>1 DEF Duplicates
<1>2. ASSUME NEW e \in S, NEW f \in S, Repointed(e, n, s) = Repointed(f, n, s)
      PROVE  e = f
  <2>1. e \in edges /\ f \in edges /\ Touches(e, n) /\ Touches(f, n)
    BY DEF EdgesOf
  <2>2. e \in Triples /\ f \in Triples
    BY <2>1 DEF Shape
  <2>3. ~(e[1] = n /\ e[3] = s) /\ ~(e[1] = s /\ e[3] = n)
    BY <2>1 DEF Between
  <2>4. ~(f[1] = n /\ f[3] = s) /\ ~(f[1] = s /\ f[3] = n)
    BY <2>1 DEF Between
  <2>5. /\ Instead(e[1], n, s) = Instead(f[1], n, s) /\ e[2] = f[2]
        /\ Instead(e[3], n, s) = Instead(f[3], n, s)
    BY <1>2 DEF Repointed
  <2>6. e[1] = f[1] /\ e[3] = f[3]
    BY <2>1, <2>3, <2>4, <2>5 DEF Touches, Instead
  <2> QED BY <2>2, <2>5, <2>6 DEF Triples
<1> QED BY <1>1, <1>2

-----------------------------------------------------------------------------
\* What a merge is about while it goes on.
LEMMA LoserAndSurvivor ==
  ASSUME FoldInv, merging.step \in Busy
  PROVE  /\ merging.node \in nodes /\ Survivor \in nodes /\ Survivor # merging.node
         /\ Key[merging.node] = Key[Survivor]
         /\ merging.node \in Nodes /\ Survivor \in Nodes
BY DEF FoldInv, Shape, Surviving, Merging, Busy, Survivor

\* The steps of the migration, one by one.
LEMMA ReportStep == ASSUME FoldInv, Report PROVE FoldInv'
<1>1. PICK keep \in [Keys -> Nodes \cup {NoNode}] :
        /\ \A k \in Keys :
             IF \E n \in nodes : Key[n] = k
             THEN keep[k] \in Nodes /\ Key[keep[k]] = k /\ IsSurvivor(keep[k])
             ELSE keep[k] = NoNode
        /\ stays' = [n \in Nodes |-> IF n \in nodes THEN keep[Key[n]] ELSE n]
  BY DEF Report
<1>2. \A n \in nodes : /\ n \in Nodes /\ Key[n] \in Keys
                       /\ keep[Key[n]] \in nodes /\ keep[Key[n]] \in Nodes
                       /\ Key[keep[Key[n]]] = Key[n]
  BY <1>1, MigrationAssumption DEF FoldInv, Shape, IsSurvivor
<1>3. /\ merging' = [merging EXCEPT !.step = "next"]
      /\ nodes' = nodes /\ edges' = edges /\ before' = before
  BY DEF Report
<1>4. Shape'
  BY <1>1, <1>2, <1>3 DEF FoldInv, Shape, Steps
<1>5. Surviving'
  BY <1>1, <1>2, <1>3 DEF Surviving
<1>6. Merging'
  BY <1>3 DEF Merging, Busy, FoldInv, Shape
<1>7. Kept'
  BY <1>3 DEF FoldInv, Kept, IsKept
<1> QED BY <1>4, <1>5, <1>6, <1>7 DEF FoldInv

LEMMA NextLoserStep == ASSUME FoldInv, NextLoser PROVE FoldInv'
<1>1. /\ nodes' = nodes /\ edges' = edges /\ before' = before /\ stays' = stays
      /\ merging.step = "next"
      /\ \/ merging' = [merging EXCEPT !.step = "done"]
         \/ \E n \in Losers : merging' = [node |-> n, step |-> "duplicates"]
  BY DEF NextLoser
<1>2. Shape'
  BY <1>1 DEF FoldInv, Shape, Steps, Losers
<1>3. Surviving'
  BY <1>1 DEF FoldInv, Surviving
<1>4. Merging'
  BY <1>1 DEF Merging, Busy, FoldInv, Shape, Losers
<1>5. Kept'
  BY <1>1 DEF FoldInv, Kept, IsKept
<1> QED BY <1>2, <1>3, <1>4, <1>5 DEF FoldInv

LEMMA DeleteDuplicatesStep == ASSUME FoldInv, DeleteDuplicates PROVE FoldInv'
<1> DEFINE n == merging.node
           S == Duplicates(n, Survivor)
<1>1. /\ nodes' = nodes /\ edges' = edges \ S /\ before' = before /\ stays' = stays
      /\ merging.step = "duplicates" /\ merging' = [merging EXCEPT !.step = "loops"]
  BY DEF DeleteDuplicates
<1>2. /\ n \in nodes /\ Survivor \in nodes /\ Survivor # n /\ Key[n] = Key[Survivor]
  BY <1>1, LoserAndSurvivor DEF Busy
<1>3. merging'.node = n /\ merging'.step = "loops" /\ Survivor' = Survivor
  BY <1>1 DEF FoldInv, Shape, Survivor
<1>4. Shape'
  BY <1>1 DEF FoldInv, Shape, Steps
<1>5. Surviving'
  BY <1>1 DEF FoldInv, Surviving
<1>6. Merging'
  <2>1. Duplicates(n, Survivor)' = {}
    BY <1>1, <1>3 DEF Duplicates, EdgesOf
  <2> QED BY <1>1, <1>2, <1>3, <2>1 DEF Merging, Busy, Survivor
<1>7. Kept'
  <2>1. ASSUME NEW e \in edges
        PROVE  \E o \in edges' :
                 /\ o[2] = e[2] /\ Key[o[1]] = Key[e[1]] /\ Key[o[3]] = Key[e[3]]
                 /\ e[1] = e[3] => o[1] = o[3]
    <3>1. CASE e \notin S
      BY <1>1, <3>1
    <3>2. CASE e \in S
      <4> DEFINE o == Repointed(e, n, Survivor)
      <4>1. o \in edges /\ ~Touches(o, n)
        BY <1>2, <3>2, RepointedEdge DEF Duplicates, FoldInv
      <4>2. o \in edges'
        BY <1>1, <4>1 DEF Duplicates, EdgesOf
      <4>3. /\ o[2] = e[2] /\ Key[o[1]] = Key[e[1]] /\ Key[o[3]] = Key[e[3]]
            /\ e[1] = e[3] => o[1] = o[3]
        BY <1>2, RepointedEdge DEF FoldInv
      <4> QED BY <4>2, <4>3
    <3> QED BY <3>1, <3>2
  <2> QED BY <1>1, <2>1, KeptBySubstitutes DEF FoldInv, Shape
<1> QED BY <1>4, <1>5, <1>6, <1>7 DEF FoldInv

LEMMA DeleteLoopsStep == ASSUME FoldInv, DeleteLoops PROVE FoldInv'
<1> DEFINE n == merging.node
           S == Between(n, Survivor)
<1>1. /\ nodes' = nodes /\ edges' = edges \ S /\ before' = before /\ stays' = stays
      /\ merging.step = "loops" /\ merging' = [merging EXCEPT !.step = "repoint"]
  BY DEF DeleteLoops
<1>2. /\ n \in nodes /\ Survivor \in nodes /\ Survivor # n /\ Key[n] = Key[Survivor]
      /\ n \in Nodes /\ Survivor \in Nodes
  BY <1>1, LoserAndSurvivor DEF Busy
<1>3. merging'.node = n /\ merging'.step = "repoint" /\ Survivor' = Survivor
  BY <1>1 DEF FoldInv, Shape, Survivor
<1>4. Shape'
  BY <1>1 DEF FoldInv, Shape, Steps
<1>5. Surviving'
  BY <1>1 DEF FoldInv, Surviving
<1>6. Merging'
  <2>1. Between(n, Survivor)' = {}
    BY <1>1, <1>3 DEF Between
  <2>2. Duplicates(n, Survivor)' = {}
    BY <1>1, <1>3 DEF Duplicates, EdgesOf, FoldInv, Merging
  <2> QED BY <1>1, <1>2, <1>3, <2>1, <2>2 DEF Merging, Busy, Survivor
<1>7. Kept'
  BY <1>1, <1>2, KeptWithoutLoops DEF FoldInv
<1> QED BY <1>4, <1>5, <1>6, <1>7 DEF FoldInv

LEMMA RepointStep == ASSUME FoldInv, Repoint PROVE FoldInv'
<1> DEFINE n == merging.node
           S == EdgesOf(n)
           images == {Repointed(e, n, Survivor) : e \in S}
<1>1. merging.step = "repoint"
  BY DEF Repoint
<1>2. /\ n \in nodes /\ Survivor \in nodes /\ Survivor # n /\ Key[n] = Key[Survivor]
  BY <1>1, LoserAndSurvivor DEF Busy
<1>3. /\ images \cap (edges \ S) = {}
      /\ \A e, f \in S : Repointed(e, n, Survivor) = Repointed(f, n, Survivor) => e = f
  BY <1>1, <1>2, NoneFallTogether DEF FoldInv, Merging
<1>4. /\ nodes' = nodes /\ before' = before /\ stays' = stays
      /\ edges' = (edges \ S) \cup images
      /\ merging' = [merging EXCEPT !.step = "alias"]
  BY <1>3 DEF Repoint
<1>5. merging'.node = n /\ merging'.step = "alias" /\ Survivor' = Survivor
  BY <1>4 DEF FoldInv, Shape, Survivor
<1>6. \A o \in images : o \in Triples /\ o[1] \in nodes /\ o[3] \in nodes /\ ~Touches(o, n)
  BY <1>2, RepointedEdge DEF FoldInv, EdgesOf
<1>7. Shape'
  BY <1>4, <1>6 DEF FoldInv, Shape, Steps
<1>8. Surviving'
  BY <1>1, <1>4 DEF FoldInv, Surviving
<1>9. Merging'
  <2>1. EdgesOf(n)' = {}
    BY <1>4, <1>5, <1>6 DEF EdgesOf
  <2> QED BY <1>2, <1>4, <1>5, <2>1 DEF Merging, Busy, Survivor
<1>10. Kept'
  <2>1. ASSUME NEW e \in edges
        PROVE  \E o \in edges' :
                 /\ o[2] = e[2] /\ Key[o[1]] = Key[e[1]] /\ Key[o[3]] = Key[e[3]]
                 /\ e[1] = e[3] => o[1] = o[3]
    <3>1. CASE e \notin S
      BY <1>4, <3>1
    <3>2. CASE e \in S
      <4> DEFINE o == Repointed(e, n, Survivor)
      <4>1. o \in edges'
        BY <1>4, <3>2
      <4>2. /\ o[2] = e[2] /\ Key[o[1]] = Key[e[1]] /\ Key[o[3]] = Key[e[3]]
            /\ e[1] = e[3] => o[1] = o[3]
        BY <1>2, RepointedEdge DEF FoldInv
      <4> QED BY <4>1, <4>2
    <3> QED BY <3>1, <3>2
  <2> QED BY <1>4, <2>1, KeptBySubstitutes DEF FoldInv, Shape
<1> QED BY <1>7, <1>8, <1>9, <1>10 DEF FoldInv

LEMMA StoreAliasStep == ASSUME FoldInv, StoreAlias PROVE FoldInv'
<1>1. /\ nodes' = nodes /\ edges' = edges /\ before' = before /\ stays' = stays
      /\ merging.step = "alias" /\ merging' = [merging EXCEPT !.step = "delete"]
  BY DEF StoreAlias
<1>2. merging'.node = merging.node /\ merging'.step = "delete"
  BY <1>1 DEF FoldInv, Shape
<1>3. Shape'
  BY <1>1 DEF FoldInv, Shape, Steps
<1>4. Surviving'
  BY <1>1 DEF FoldInv, Surviving
<1>5. Merging'
  BY <1>1, <1>2 DEF Merging, Busy, FoldInv, EdgesOf
<1>6. Kept'
  BY <1>1 DEF FoldInv, Kept, IsKept
<1> QED BY <1>3, <1>4, <1>5, <1>6 DEF FoldInv

LEMMA DeleteLoserStep == ASSUME FoldInv, DeleteLoser PROVE FoldInv'
<1> DEFINE n == merging.node
<1>1. /\ nodes' = nodes \ {n} /\ before' = before /\ stays' = stays
      /\ edges' = edges \ EdgesOf(n)
      /\ merging.step = "delete" /\ merging' = [node |-> NoNode, step |-> "next"]
  BY DEF DeleteLoser
<1>2. n \in nodes /\ stays[n] # n /\ EdgesOf(n) = {}
  BY <1>1 DEF FoldInv, Merging, Busy
<1>3. edges' = edges
  BY <1>1, <1>2
<1>4. Shape'
  BY <1>1, <1>2, <1>3 DEF FoldInv, Shape, Steps, EdgesOf, Touches
<1>5. Surviving'
  BY <1>1, <1>2 DEF FoldInv, Surviving
<1>6. Merging'
  BY <1>1 DEF Merging, Busy
<1>7. Kept'
  BY <1>1, <1>3 DEF FoldInv, Kept, IsKept
<1> QED BY <1>4, <1>5, <1>6, <1>7 DEF FoldInv

LEMMA StopMergeStep == ASSUME FoldInv, StopMerge PROVE FoldInv'
<1>1. /\ nodes' = nodes /\ edges' = edges /\ before' = before /\ stays' = stays
      /\ merging' = [node |-> NoNode, step |-> "report"]
  BY DEF StopMerge
<1>2. Shape' /\ Surviving'
  BY <1>1 DEF FoldInv, Shape, Surviving, Steps
<1>3. Merging'
  BY <1>1 DEF Merging, Busy
<1>4. Kept'
  BY <1>1 DEF FoldInv, Kept, IsKept
<1> QED BY <1>2, <1>3, <1>4 DEF FoldInv

-----------------------------------------------------------------------------
\* A graph before the migration, of which nothing is merged yet.
LEMMA FoldInvInit == MigrationInit => FoldInv
BY MigrationAssumption
DEF MigrationInit, FoldInv, Shape, Surviving, Merging, Kept, IsKept, Triples, Steps, Busy

\* Each statement leaves what the next one needs.
LEMMA FoldInvStep == FoldInv /\ [MigrationNext]_migrationVars => FoldInv'
<1> SUFFICES ASSUME FoldInv, [MigrationNext]_migrationVars
             PROVE  FoldInv'
  OBVIOUS
<1>1. CASE UNCHANGED migrationVars
  BY <1>1
  DEF migrationVars, FoldInv, Shape, Surviving, Merging, Kept, IsKept, EdgesOf, Duplicates,
      Between, Survivor
<1> QED BY <1>1, ReportStep, NextLoserStep, DeleteDuplicatesStep, DeleteLoopsStep,
           RepointStep, StoreAliasStep, DeleteLoserStep, StopMergeStep DEF MigrationNext

\* merge_fold_collisions loses no edge to a duplicate, a repointing, a cascade or UNIQUE, for
\* any graph and wherever it dies and is begun anew, if nobody writes meanwhile.
THEOREM EdgesAreKept == MigrationSpec => []EveryEdgeIsKept
<1>1. FoldInv => EveryEdgeIsKept
  BY DEF FoldInv, Shape, Merging, Kept, EveryEdgeIsKept
<1> QED BY <1>1, FoldInvInit, FoldInvStep, PTL DEF MigrationSpec

\* The rows there are can be counted, and the counts are numbers.
Countable == IsFiniteSet(edges) /\ told \in [report : Counts, done : Counts]

\* What the dry run counts are edges, each with the node that it is matched to.
LEMMA MatchedAreFew ==
  ASSUME IsFiniteSet(Nodes), IsFiniteSet(edges), NEW S, S \subseteq Nodes \X edges
  PROVE  Cardinality(S) \in Nat
<1>1. IsFiniteSet(Nodes \X edges)
  BY FS_Product
<1>2. IsFiniteSet(S)
  BY <1>1, FS_Subset
<1> QED BY <1>2, FS_CardinalityType

\* So the dry run counts numbers.
LEMMA ReportIsCounts ==
  ASSUME IsFiniteSet(Nodes), IsFiniteSet(edges), nodes \subseteq Nodes, NEW map
  PROVE  ReportCounts(map) \in Counts
<1> DEFINE lost == {n \in nodes : map[n] # n}
           D == UNION {{n} \X Duplicates(n, map[n]) : n \in lost}
           L == UNION {{n} \X Between(n, map[n]) : n \in lost}
           R == UNION {{n} \X EdgesOf(n) : n \in lost}
<1>1. D \subseteq Nodes \X edges
  BY DEF Duplicates, EdgesOf
<1>2. L \subseteq Nodes \X edges
  BY DEF Between
<1>3. R \subseteq Nodes \X edges
  BY DEF EdgesOf
<1>4. ReportCounts(map) = [duplicates |-> Cardinality(D), loops |-> Cardinality(L),
                           repointed |-> Cardinality(R)]
  BY DEF ReportCounts
<1> HIDE DEF D, L, R
<1>5. Cardinality(D) \in Nat /\ Cardinality(L) \in Nat /\ Cardinality(R) \in Nat
  BY <1>1, <1>2, <1>3, MatchedAreFew
<1> QED BY <1>4, <1>5 DEF Counts

\* A statement adds its row count to one of the totals.
LEMMA DidCounts ==
  ASSUME told \in [report : Counts, done : Counts],
         NEW field \in {"duplicates", "loops", "repointed"}, NEW S, IsFiniteSet(S), Did(field, S)
  PROVE  told' \in [report : Counts, done : Counts]
<1>1. PICK c \in Nat : c = Cardinality(S)
  BY FS_CardinalityType
<1>2. told' = [told EXCEPT !.done[field] = @ + c]
  BY <1>1 DEF Did
<1>3. told.report \in Counts /\ told.done \in Counts
  OBVIOUS
<1>4. told.done[field] + c \in Nat
  BY <1>3 DEF Counts
<1>5. [told.done EXCEPT ![field] = @ + c] \in Counts
  BY <1>3, <1>4 DEF Counts
<1>6. told' = [told EXCEPT !.done = [told.done EXCEPT ![field] = @ + c]]
  BY <1>2
<1> QED BY <1>5, <1>6

\* No step makes more edges than there were: a repointed edge is in the place of another.
LEMMA CountableStep ==
  ASSUME FoldInv, IsFiniteSet(Nodes), Countable, [MigrationNext]_migrationVars
  PROVE  Countable'
<1>0. nodes \subseteq Nodes /\ IsFiniteSet(edges) /\ told \in [report : Counts, done : Counts]
  BY DEF Countable, FoldInv, Shape
<1>1. ASSUME edges' = edges, told' = told PROVE Countable'
  BY <1>1 DEF Countable
<1>2. CASE Report
  <2>1. PICK map : told' = [report |-> ReportCounts(map), done |-> Zero]
    BY <1>2 DEF Report
  <2>2. Zero \in Counts
    BY DEF Zero, Counts
  <2>3. told' \in [report : Counts, done : Counts]
    BY <1>0, <2>1, <2>2, ReportIsCounts
  <2>4. edges' = edges
    BY <1>2 DEF Report
  <2> QED BY <1>0, <2>3, <2>4 DEF Countable
<1>3. ASSUME NEW S, S \subseteq edges, edges' = edges \ S,
             NEW field \in {"duplicates", "loops", "repointed"}, Did(field, S)
      PROVE  Countable'
  <2>1. IsFiniteSet(S) /\ IsFiniteSet(edges')
    BY <1>0, <1>3, FS_Subset
  <2> QED BY <1>0, <1>3, <2>1, DidCounts DEF Countable
<1>4. CASE DeleteDuplicates
  BY <1>3, <1>4 DEF DeleteDuplicates, Duplicates, EdgesOf
<1>5. CASE DeleteLoops
  BY <1>3, <1>5 DEF DeleteLoops, Between
<1>6. CASE Repoint
  <2>1. CASE UNCHANGED <<edges, told>>
    BY <1>1, <2>1
  <2>2. CASE ~UNCHANGED <<edges, told>>
    <3> DEFINE n == merging.node
               S == EdgesOf(n)
               images == {Repointed(e, n, Survivor) : e \in S}
    <3>1. edges' = (edges \ S) \cup images /\ Did("repointed", S)
      BY <1>6, <2>2 DEF Repoint
    <3>2. IsFiniteSet(S) /\ IsFiniteSet(edges \ S)
      <4>1. S \subseteq edges /\ edges \ S \subseteq edges
        BY DEF EdgesOf
      <4> QED BY <1>0, <4>1, FS_Subset
    <3>3. IsFiniteSet(images)
      <4> DEFINE g == [e \in S |-> Repointed(e, n, Survivor)]
      <4>1. g \in [S -> images] /\ \A t \in images : \E e \in S : g[e] = t
        OBVIOUS
      <4> HIDE DEF g, S, images
      <4> QED BY <3>2, <4>1, AsManyImages
    <3> QED BY <1>0, <3>1, <3>2, <3>3, FS_Union, DidCounts DEF Countable
  <2> QED BY <2>1, <2>2
<1>7. CASE DeleteLoser
  <2>1. told' = told /\ edges' \in SUBSET edges
    BY <1>7 DEF DeleteLoser
  <2> QED BY <1>0, <2>1, FS_Subset DEF Countable
<1>8. CASE NextLoser \/ StoreAlias \/ StopMerge \/ UNCHANGED migrationVars
  BY <1>1, <1>8 DEF NextLoser, StoreAlias, StopMerge, migrationVars
<1> QED BY <1>2, <1>4, <1>5, <1>6, <1>7, <1>8 DEF MigrationNext

\* The types, for any finite graph: the migration counts what it does.
THEOREM MigrationTypeCorrect ==
  ASSUME IsFiniteSet(Nodes), IsFiniteSet(Start)
  PROVE  MigrationSpec => []MigrationTypeOK
<1> DEFINE Noted == aliases \in [Nodes -> SUBSET Nodes]
<1>1. MigrationInit => FoldInv /\ Countable /\ Noted
  <2> SUFFICES ASSUME MigrationInit PROVE FoldInv /\ Countable /\ Noted
    OBVIOUS
  <2>1. FoldInv
    BY FoldInvInit
  <2>2. IsFiniteSet(edges)
    BY FS_Subset DEF MigrationInit
  <2>3. told \in [report : Counts, done : Counts]
    BY DEF MigrationInit, Zero, Counts
  <2>4. Noted
    BY DEF MigrationInit
  <2> QED BY <2>1, <2>2, <2>3, <2>4 DEF Countable
<1>2. FoldInv /\ Countable /\ Noted /\ [MigrationNext]_migrationVars
        => (FoldInv /\ Countable /\ Noted)'
  <2> SUFFICES ASSUME FoldInv, Countable, Noted, [MigrationNext]_migrationVars
               PROVE  FoldInv' /\ Countable' /\ Noted'
    OBVIOUS
  <2>1. FoldInv'
    BY FoldInvStep
  <2>2. Countable'
    BY CountableStep
  <2>3. CASE StoreAlias
    <3>1. aliases' = [aliases EXCEPT ![Survivor] = @ \cup {merging.node}]
      BY <2>3 DEF StoreAlias
    <3>2. merging.node \in Nodes
      BY <2>3 DEF StoreAlias, FoldInv, Shape, Merging, Busy, Losers
    <3> QED BY <2>1, <2>2, <3>1, <3>2
  <2>4. CASE ~StoreAlias
    <3>1. Noted'
      BY <2>4
      DEF MigrationNext, Report, NextLoser, DeleteDuplicates, DeleteLoops, Repoint, DeleteLoser,
          StopMerge, migrationVars
    <3> QED BY <2>1, <2>2, <3>1
  <2> QED BY <2>3, <2>4
<1>3. FoldInv /\ Countable /\ Noted => MigrationTypeOK
  BY DEF FoldInv, Shape, Countable, MigrationTypeOK
<1> QED BY <1>1, <1>2, <1>3, PTL DEF MigrationSpec

-----------------------------------------------------------------------------
(***************************************************************************)
(* TurnTraces                                                              *)
(* TracesKeepTheirTurn is inductive with the types: a revision is measured *)
(* from created_at, which no revision moves.                               *)
(***************************************************************************)
LEMMA TraceParts ==
  /\ RevisionWindow \in Nat /\ NoTrace \notin Trace
  /\ \A a, b \in Nat : LET trace == [told |-> a, created |-> b] IN
       trace \in Trace /\ trace.told = a /\ trace.created = b
  /\ \A trace \in Trace : trace.told \in Nat /\ trace.created \in Nat
BY TracesAssumption DEF Trace

TracesInv == TracesTypeOK /\ TracesKeepTheirTurn

\* A trace that lands (save_turn_trace): the insert, the revision or the refusal.
LEMMA LandingKeeps ==
  ASSUME TracesInv, NEW w \in Writers, LandTrace(w)
  PROVE  TracesInv'
<1> DEFINE c    == writing[w].turn
           date == writing[w].date
<1>1. /\ c \in Turns /\ date \in Nat
      /\ traces \in [Turns -> Trace \cup {NoTrace}] /\ first \in [Turns -> Nat]
      /\ losses \in [Turns -> Nat] /\ late \in [Turns -> Nat]
      /\ writing \in [Writers -> [turn : Turns \cup {NoTrace}, date : Nat]] /\ day \in Nat
  BY DEF TracesInv, TracesTypeOK, LandTrace
<1>2. writing' = [writing EXCEPT ![w] = Nothing] /\ day' = day
  BY DEF LandTrace
<1>3. writing' \in [Writers -> [turn : Turns \cup {NoTrace}, date : Nat]]
  BY <1>1, <1>2 DEF Nothing
<1>4. /\ first' = IF traces[c] = NoTrace THEN [first EXCEPT ![c] = date] ELSE first
      /\ late' = IF traces[c] # NoTrace /\ date > first[c] + RevisionWindow
                 THEN [late EXCEPT ![c] = @ + 1] ELSE late
  BY DEF LandTrace
<1>5. /\ traces[c] # NoTrace =>
           traces[c] \in Trace /\ traces[c].created = first[c]
      /\ losses[c] = late[c] /\ RevisionWindow \in Nat
      /\ \A d \in Turns \ {c} :
           /\ traces[d] # NoTrace => /\ traces[d].created = first[d]
                                    /\ traces[d].told <= first[d] + RevisionWindow
           /\ losses[d] = late[d]
  BY <1>1, TraceParts DEF TracesInv, TracesKeepTheirTurn
<1> HIDE DEF c, date
<1>6. CASE /\ traces[c] # NoTrace => Revisable(c, date)
           /\ traces' = [traces EXCEPT ![c] = Stored(c, date)]
           /\ UNCHANGED losses
  <2>1. /\ Stored(c, date) \in Trace /\ Stored(c, date).told = date
        /\ Stored(c, date).created = IF traces[c] = NoTrace THEN date ELSE first[c]
    BY <1>1, <1>5, TraceParts DEF Stored
  <2>2. traces' \in [Turns -> Trace \cup {NoTrace}] /\ traces'[c] = Stored(c, date)
        /\ \A d \in Turns \ {c} : traces'[d] = traces[d]
    BY <1>1, <1>6, <2>1
  <2>3. CASE traces[c] = NoTrace
    <3>1. first' = [first EXCEPT ![c] = date] /\ late' = late
      BY <1>4, <2>3
    <3> QED BY <1>1, <1>2, <1>3, <1>5, <1>6, <2>1, <2>2, <2>3, <3>1
            DEF TracesInv, TracesTypeOK, TracesKeepTheirTurn
  <2>4. CASE traces[c] # NoTrace
    <3>1. date <= first[c] + RevisionWindow /\ first' = first /\ late' = late
      BY <1>1, <1>4, <1>5, <1>6, <2>4 DEF Revisable
    <3> QED BY <1>1, <1>2, <1>3, <1>5, <1>6, <2>1, <2>2, <2>4, <3>1
            DEF TracesInv, TracesTypeOK, TracesKeepTheirTurn
  <2> QED BY <2>3, <2>4
<1>7. CASE /\ traces[c] # NoTrace /\ ~Revisable(c, date)
           /\ losses' = [losses EXCEPT ![c] = @ + 1]
           /\ UNCHANGED traces
  <2>1. date > first[c] + RevisionWindow
    BY <1>1, <1>5, <1>7 DEF Revisable
  <2>2. first' = first /\ late' = [late EXCEPT ![c] = @ + 1]
    BY <1>4, <1>7, <2>1
  <2> QED BY <1>1, <1>2, <1>3, <1>5, <1>7, <2>2
          DEF TracesInv, TracesTypeOK, TracesKeepTheirTurn
<1> QED BY <1>6, <1>7 DEF LandTrace, c, date

\* Every step keeps what the traces stand on.
LEMMA TracesStep == TracesInv /\ [TracesNext]_tracesVars => TracesInv'
<1> SUFFICES ASSUME TracesInv, [TracesNext]_tracesVars
             PROVE  TracesInv'
  OBVIOUS
<1> USE DEF TracesInv, TracesTypeOK
<1>1. ASSUME NEW w \in Writers, SendTrace(w)
      PROVE  TracesInv'
  <2>1. PICK c \in Turns, date \in 0..day :
          writing' = [writing EXCEPT ![w] = [turn |-> c, date |-> date]]
    BY <1>1 DEF SendTrace
  <2>2. writing' \in [Writers -> [turn : Turns \cup {NoTrace}, date : Nat]]
    BY <2>1
  <2> QED BY <1>1, <2>2 DEF SendTrace, TracesKeepTheirTurn
<1>2. ASSUME NEW w \in Writers, LandTrace(w)
      PROVE  TracesInv'
  BY <1>2, LandingKeeps
<1>3. ASSUME NEW w \in Writers, LoseTrace(w)
      PROVE  TracesInv'
  BY <1>3 DEF LoseTrace, Nothing, TracesKeepTheirTurn
<1>4. CASE EraseTraces
  BY <1>4 DEF EraseTraces, TracesKeepTheirTurn
<1>5. CASE NextDay
  BY <1>5 DEF NextDay, TracesKeepTheirTurn
<1>6. CASE UNCHANGED tracesVars
  BY <1>6 DEF tracesVars, TracesKeepTheirTurn
<1> QED BY <1>1, <1>2, <1>3, <1>4, <1>5, <1>6 DEF TracesNext

\* A coordinate's first date, its last and what was counted late agree in every state
\* (save_turn_trace).
THEOREM TracesInvariant == TracesSpec => []TracesInv
<1>1. TracesInit => TracesInv
  BY DEF TracesInit, TracesInv, TracesTypeOK, Nothing, TracesKeepTheirTurn
<1> QED BY <1>1, TracesStep, PTL DEF TracesSpec

\* What is stored of a turn, and what is counted of it, have their types.
THEOREM TracesTypeCorrect == TracesSpec => []TracesTypeOK
<1>1. TracesInv => TracesTypeOK
  BY DEF TracesInv
<1> QED BY <1>1, TracesInvariant, PTL

\* A coordinate keeps to the date of its first trace (save_turn_trace, trace_policy.py),
\* whatever order traces land in, and what is refused is counted.
THEOREM TracesKeep == TracesSpec => []TracesKeepTheirTurn
<1>1. TracesInv => TracesKeepTheirTurn
  BY DEF TracesInv
<1> QED BY <1>1, TracesInvariant, PTL

-----------------------------------------------------------------------------
(***************************************************************************)
(* ConversationBuffer                                                      *)
(* The list in Redis is the end of the list in memory.  HoldsTheEnd says   *)
(* where it begins: at the last silence as of the last push, or as far     *)
(* back as the size goes; and that it lives for Ttl after that push.  What *)
(* has happened since the last push is only in the clock.                  *)
(***************************************************************************)
\* s is the end of q.
IsEnd(s, q) ==
  /\ s \in Seq(Turn) /\ q \in Seq(Turn) /\ Len(s) <= Len(q)
  /\ \A i \in 1..Len(s) : s[i] = q[Len(q) - Len(s) + i]

\* As much of n as a window of that size shows.
Shown(n, size) == IF size = 0 \/ size >= n THEN n ELSE size

\* Two ends of one list, of one length, are one.
LEMMA EndsAreKnownByLength ==
  ASSUME NEW q, NEW s, NEW u, IsEnd(s, q), IsEnd(u, q), Len(s) = Len(u)
  PROVE  s = u
BY SeqEqual DEF IsEnd

\* The end of an end is an end.
LEMMA EndOfEnd ==
  ASSUME NEW q, NEW s, NEW u, IsEnd(s, q), IsEnd(u, s)
  PROVE  IsEnd(u, q)
<1>1. Len(s) \in Nat /\ Len(u) \in Nat /\ Len(q) \in Nat
  BY LenProperties DEF IsEnd
<1>2. ASSUME NEW i \in 1..Len(u)
      PROVE  u[i] = q[Len(q) - Len(u) + i]
  <2>1. u[i] = s[Len(s) - Len(u) + i] /\ Len(s) - Len(u) + i \in 1..Len(s)
    BY <1>1 DEF IsEnd
  <2>2. s[Len(s) - Len(u) + i] = q[Len(q) - Len(s) + (Len(s) - Len(u) + i)]
    BY <2>1 DEF IsEnd
  <2>3. Len(q) - Len(s) + (Len(s) - Len(u) + i) = Len(q) - Len(u) + i
    BY <1>1
  <2> QED BY <2>1, <2>2, <2>3
<1> QED BY <1>1, <1>2 DEF IsEnd

\* LTRIM, and the slice in memory, keep an end.
LEMMA LastOfIsAnEnd ==
  ASSUME NEW q \in Seq(Turn), NEW n \in Nat
  PROVE  IsEnd(LastOf(q, n), q) /\ Len(LastOf(q, n)) = Shown(Len(q), n)
<1>1. Len(q) \in Nat
  BY LenProperties
<1>2. CASE n = 0 \/ n >= Len(q)
  <2>1. LastOf(q, n) = q
    BY <1>2 DEF LastOf
  <2>2. \A i \in 1..Len(q) : Len(q) - Len(q) + i = i
    BY <1>1
  <2>3. IsEnd(q, q)
    BY <1>1, <2>2 DEF IsEnd
  <2>4. Shown(Len(q), n) = Len(q)
    BY <1>2 DEF Shown
  <2> QED BY <2>1, <2>3, <2>4
<1>3. CASE ~(n = 0 \/ n >= Len(q))
  <2> DEFINE m == Len(q) - n + 1
  <2>1. m \in 1..Len(q) /\ Len(q) - m + 1 = n
    BY <1>1, <1>3
  <2>2. \A i \in m..Len(q) : q[i] \in Turn
    BY <1>1, <2>1, ElementOfSeq
  <2>3. LastOf(q, n) = SubSeq(q, m, Len(q))
    BY <1>3 DEF LastOf
  <2>4. /\ SubSeq(q, m, Len(q)) \in Seq(Turn)
        /\ Len(SubSeq(q, m, Len(q))) = n
        /\ \A i \in 1..n : SubSeq(q, m, Len(q))[i] = q[m + i - 1]
    <3> HIDE DEF m
    <3> QED BY <1>1, <2>1, <2>2, SubSeqProperties
  <2>5. \A i \in 1..n : m + i - 1 = Len(q) - n + i
    BY <1>1
  <2> QED BY <1>1, <1>3, <2>3, <2>4, <2>5 DEF IsEnd, Shown
<1> QED BY <1>2, <1>3

\* What a list holds from k on is an end of it.
LEMMA TailIsAnEnd ==
  ASSUME NEW q \in Seq(Turn), NEW k \in 1..Len(q) + 1
  PROVE  IsEnd(SubSeq(q, k, Len(q)), q) /\ Len(SubSeq(q, k, Len(q))) = Len(q) - k + 1
<1>1. Len(q) \in Nat /\ k \in Int
  BY LenProperties
<1>2. \A i \in k..Len(q) : q[i] \in Turn
  BY <1>1, ElementOfSeq
<1>3. /\ SubSeq(q, k, Len(q)) \in Seq(Turn)
      /\ Len(SubSeq(q, k, Len(q))) = Len(q) - k + 1
      /\ \A i \in 1..Len(q) - k + 1 : SubSeq(q, k, Len(q))[i] = q[k + i - 1]
  BY <1>1, <1>2, SubSeqProperties
<1>4. \A i \in 1..Len(q) - k + 1 : k + i - 1 = Len(q) - (Len(q) - k + 1) + i
  BY <1>1
<1> QED BY <1>1, <1>3, <1>4 DEF IsEnd

\* An end and its list grow alike.
LEMMA EndsGrow ==
  ASSUME NEW q, NEW s, IsEnd(s, q), NEW x \in Turn
  PROVE  IsEnd(Append(s, x), Append(q, x)) /\ Len(Append(s, x)) = Len(s) + 1
<1>1. Len(s) \in Nat /\ Len(q) \in Nat /\ s \in Seq(Turn) /\ q \in Seq(Turn)
  BY LenProperties DEF IsEnd
<1>2. Append(s, x) \in Seq(Turn) /\ Append(q, x) \in Seq(Turn)
      /\ Len(Append(s, x)) = Len(s) + 1 /\ Len(Append(q, x)) = Len(q) + 1
  BY <1>1
<1>3. ASSUME NEW i \in 1..Len(s) + 1
      PROVE  Append(s, x)[i] = Append(q, x)[Len(q) + 1 - (Len(s) + 1) + i]
  <2>1. CASE i = Len(s) + 1
    BY <1>1, <2>1
  <2>2. CASE i \in 1..Len(s)
    <3>1. Append(s, x)[i] = s[i]
      BY <1>1, <2>2
    <3>2. Len(q) - Len(s) + i \in 1..Len(q)
      BY <1>1, <2>2 DEF IsEnd
    <3>3. Append(q, x)[Len(q) - Len(s) + i] = q[Len(q) - Len(s) + i]
      BY <1>1, <3>2
    <3>4. Len(q) + 1 - (Len(s) + 1) + i = Len(q) - Len(s) + i
      BY <1>1
    <3> QED BY <2>2, <3>1, <3>3, <3>4 DEF IsEnd
  <2>3. i = Len(s) + 1 \/ i \in 1..Len(s)
    BY <1>1
  <2> QED BY <2>1, <2>2, <2>3
<1>4. Len(s) <= Len(q)
  BY DEF IsEnd
<1>5. IsEnd(Append(s, x), Append(q, x))
  <2> SUFFICES /\ Len(Append(s, x)) <= Len(Append(q, x))
               /\ \A i \in 1..Len(Append(s, x)) :
                    Append(s, x)[i] = Append(q, x)[Len(Append(q, x)) - Len(Append(s, x)) + i]
    BY <1>2 DEF IsEnd
  <2> QED BY <1>1, <1>2, <1>3, <1>4
<1> QED BY <1>2, <1>5

-----------------------------------------------------------------------------
\* The turns of a talk are numbered, and none is of a later instant than now.
Numbered(t) ==
  \A i \in 1..Len(lists[t]) : lists[t][i].n = i /\ lists[t][i].at <= instant

\* From k on nothing was silent for long, up to the last turn; and before k something was.
RunsFrom(t, k) ==
  /\ k \in 1..Len(lists[t])
  /\ \A j \in k..Len(lists[t]) - 1 : lists[t][j + 1].at - lists[t][j].at < Ttl
  /\ k > 1 => lists[t][k].at - lists[t][k - 1].at >= Ttl

\* What Redis holds is the end of the talk from there on, and it lives for Ttl after the last.
HoldsTheEnd(t) ==
  IF lists[t] = <<>> THEN keys[t].turns = <<>>
  ELSE /\ keys[t].ends = lists[t][Len(lists[t])].at + Ttl
       /\ IsEnd(keys[t].turns, lists[t])
       /\ \E k \in 1..Len(lists[t]) :
            RunsFrom(t, k) /\ Len(keys[t].turns) = Shown(Len(lists[t]) - k + 1, MaxSize)

BufferInv == BufferTypeOK /\ \A t \in Talks : Numbered(t) /\ HoldsTheEnd(t)

\* While there is a talk Redis holds something of it, though perhaps no longer.
LEMMA HeldLives ==
  ASSUME BufferInv, NEW t \in Talks, lists[t] # <<>>
  PROVE  LET last == lists[t][Len(lists[t])] IN
         keys[t].turns # <<>> /\ last.at \in Nat /\ keys[t].ends = last.at + Ttl
<1> DEFINE q == lists[t]
<1>1. q \in Seq(Turn) /\ Len(q) \in Nat /\ MaxSize \in Nat
  BY LenProperties, BufferAssumption DEF BufferInv, BufferTypeOK
<1>2. PICK k \in 1..Len(q) : Len(keys[t].turns) = Shown(Len(q) - k + 1, MaxSize)
  BY DEF BufferInv, HoldsTheEnd
<1>3. Len(q) - k + 1 \in Nat /\ Len(q) - k + 1 > 0
  BY <1>1, <1>2
<1>4. Shown(Len(q) - k + 1, MaxSize) > 0
  BY <1>1, <1>3 DEF Shown
<1>5. q[Len(q)] \in Turn
  BY <1>1, <1>2, ElementOfSeq
<1> QED BY <1>2, <1>4, <1>5 DEF Turn, BufferInv, HoldsTheEnd

\* What a push leaves of the list that Redis holds.
LEMMA PushedHolds ==
  ASSUME BufferInv, NEW t \in Talks, Push(t)
  PROVE  BufferTypeOK' /\ Numbered(t)' /\ HoldsTheEnd(t)'
<1> DEFINE q == lists[t]
           x == Pushed(t)
           r == Append(q, x)
           held == LastOf(Append(Standing(t), x), MaxSize)
<1>1. /\ q \in Seq(Turn) /\ Len(q) \in Nat /\ instant \in Nat
      /\ keys \in [Talks -> [turns : Seq(Turn), ends : Nat]] /\ lists \in [Talks -> Seq(Turn)]
      /\ MaxSize \in Nat /\ Ttl \in Nat /\ Ttl > 0
  BY LenProperties, BufferAssumption DEF BufferInv, BufferTypeOK
<1>2. x \in Turn /\ x.n = Len(q) + 1 /\ x.at = instant
  BY <1>1 DEF Pushed, Turn
<1>3. Standing(t) \in Seq(Turn)
  BY <1>1 DEF Standing
<1>4. /\ r \in Seq(Turn) /\ Len(r) = Len(q) + 1 /\ r[Len(q) + 1] = x
      /\ \A i \in 1..Len(q) : r[i] = q[i]
  BY <1>1, <1>2
<1>5. Append(Standing(t), x) \in Seq(Turn)
  BY <1>2, <1>3
<1>6. IsEnd(held, Append(Standing(t), x))
      /\ Len(held) = Shown(Len(Append(Standing(t), x)), MaxSize)
  BY <1>1, <1>5, LastOfIsAnEnd
<1>7. held \in Seq(Turn)
  BY <1>6 DEF IsEnd
<1>8. /\ instant' = instant
      /\ lists' = [lists EXCEPT ![t] = r]
      /\ keys' = [keys EXCEPT ![t] = [turns |-> held, ends |-> instant + Ttl]]
  BY DEF Push
<1>9. lists'[t] = r /\ keys'[t].turns = held /\ keys'[t].ends = instant + Ttl
  BY <1>1, <1>8
<1> HIDE DEF q, x, r, held
<1>10. BufferTypeOK'
  BY <1>1, <1>4, <1>7, <1>8 DEF BufferTypeOK
<1>11. Numbered(t)'
  <2>1. \A i \in 1..Len(q) : q[i].n = i /\ q[i].at <= instant
    BY DEF Numbered, BufferInv, q
  <2>2. \A i \in 1..Len(r) : r[i].n = i /\ r[i].at <= instant
    <3> TAKE i \in 1..Len(r)
    <3>1. i = Len(q) + 1 \/ i \in 1..Len(q)
      BY <1>1, <1>4
    <3>2. CASE i = Len(q) + 1
      BY <1>1, <1>2, <1>4, <3>2
    <3>3. CASE i \in 1..Len(q)
      BY <1>4, <2>1, <3>3
    <3> QED BY <3>1, <3>2, <3>3
  <2> QED BY <1>8, <1>9, <2>2 DEF Numbered
<1>12. r # <<>>
  BY <1>1, <1>4
<1>13. SUFFICES \E k \in 1..Len(r) :
                  /\ \A j \in k..Len(q) : r[j + 1].at - r[j].at < Ttl
                  /\ k > 1 => r[k].at - r[k - 1].at >= Ttl
                  /\ IsEnd(held, r) /\ Len(held) = Shown(Len(q) + 1 - k + 1, MaxSize)
  <2> SUFFICES ASSUME NEW k \in 1..Len(r),
                      \A j \in k..Len(q) : r[j + 1].at - r[j].at < Ttl,
                      k > 1 => r[k].at - r[k - 1].at >= Ttl,
                      IsEnd(held, r), Len(held) = Shown(Len(q) + 1 - k + 1, MaxSize)
               PROVE  HoldsTheEnd(t)'
    BY <1>10, <1>11
  <2>1. Len(r) - 1 = Len(q)
    BY <1>1, <1>4
  <2>2. RunsFrom(t, k)'
    BY <1>9, <2>1 DEF RunsFrom
  <2>3. keys'[t].ends = lists'[t][Len(lists'[t])].at + Ttl
    BY <1>2, <1>4, <1>9
  <2> QED BY <1>4, <1>9, <1>12, <2>2, <2>3 DEF HoldsTheEnd
<1>14. HoldsTheEnd(t) /\ Numbered(t)
  BY DEF BufferInv
<1>15. q # <<>> => /\ keys[t].turns # <<>> /\ q[Len(q)].at \in Nat
                   /\ keys[t].ends = q[Len(q)].at + Ttl
  BY HeldLives DEF q
<1>16. CASE Standing(t) # <<>>
  <2>1. Standing(t) = keys[t].turns /\ keys[t].ends > instant
    BY <1>16 DEF Standing
  <2>2. q # <<>>
    BY <1>14, <1>16, <2>1 DEF HoldsTheEnd, q
  <2>3. PICK k \in 1..Len(q) :
          /\ \A j \in k..Len(q) - 1 : q[j + 1].at - q[j].at < Ttl
          /\ k > 1 => q[k].at - q[k - 1].at >= Ttl
          /\ Len(keys[t].turns) = Shown(Len(q) - k + 1, MaxSize)
    BY <1>14, <2>2 DEF HoldsTheEnd, RunsFrom, q
  <2>4. IsEnd(Standing(t), q)
    BY <1>14, <2>1, <2>2 DEF HoldsTheEnd, q
  <2>5. IsEnd(Append(Standing(t), x), r) /\ Len(Append(Standing(t), x)) = Len(Standing(t)) + 1
    BY <1>2, <2>4, EndsGrow DEF r
  <2>6. IsEnd(held, r)
    BY <1>6, <2>5, EndOfEnd
  <2>7. Len(held) = Shown(Shown(Len(q) - k + 1, MaxSize) + 1, MaxSize)
    BY <1>6, <2>1, <2>3, <2>5
  <2>8. Shown(Shown(Len(q) - k + 1, MaxSize) + 1, MaxSize) = Shown(Len(q) + 1 - k + 1, MaxSize)
    BY <1>1, <2>3 DEF Shown
  <2>9. \A j \in k..Len(q) : r[j + 1].at - r[j].at < Ttl
    <3> TAKE j \in k..Len(q)
    <3>1. CASE j = Len(q)
      <4>1. r[j + 1].at = instant /\ r[j] = q[j]
        BY <1>1, <1>2, <1>4, <2>3, <3>1
      <4>2. q[j].at + Ttl > instant /\ q[j].at \in Nat
        BY <1>15, <2>1, <2>2, <3>1
      <4> QED BY <1>1, <4>1, <4>2
    <3>2. CASE j # Len(q)
      <4>1. j \in k..Len(q) - 1 /\ j \in 1..Len(q) /\ j + 1 \in 1..Len(q)
        BY <1>1, <2>3, <3>2
      <4> QED BY <1>4, <2>3, <4>1
    <3> QED BY <3>1, <3>2
  <2>10. k > 1 => r[k].at - r[k - 1].at >= Ttl
    <3>1. k > 1 => k \in 1..Len(q) /\ k - 1 \in 1..Len(q)
      BY <1>1, <2>3
    <3> QED BY <1>4, <2>3, <3>1
  <2>11. k \in 1..Len(r)
    BY <1>1, <1>4, <2>3
  <2> QED BY <2>6, <2>7, <2>8, <2>9, <2>10, <2>11
<1>17. CASE Standing(t) = <<>>
  <2> DEFINE k == Len(q) + 1
  <2>1. IsEnd(<<>>, q)
    BY <1>1, EmptySeq DEF IsEnd
  <2>2. IsEnd(Append(<<>>, x), r) /\ Len(Append(<<>>, x)) = 1
    <3>1. Len(<<>>) + 1 = 1
      BY EmptySeq
    <3> QED BY <1>2, <2>1, <3>1, EndsGrow DEF r
  <2>3. IsEnd(held, r) /\ Len(held) = Shown(1, MaxSize)
    BY <1>6, <1>17, <2>2, EndOfEnd
  <2>4. Len(q) + 1 - k + 1 = 1
    BY <1>1
  <2>5. k > 1 => r[k].at - r[k - 1].at >= Ttl
    <3> SUFFICES ASSUME Len(q) > 0 PROVE r[k].at - r[k - 1].at >= Ttl
      BY <1>1
    <3>1. q # <<>> /\ Len(q) \in 1..Len(q) /\ k - 1 = Len(q)
      BY <1>1
    <3>2. r[k].at = instant /\ r[k - 1] = q[Len(q)]
      BY <1>2, <1>4, <3>1
    <3>3. /\ ~(keys[t].ends > instant)
          /\ keys[t].ends = q[Len(q)].at + Ttl /\ q[Len(q)].at \in Nat
      BY <1>15, <1>17, <3>1 DEF Standing
    <3> QED BY <1>1, <3>2, <3>3
  <2>6. k \in 1..Len(r) /\ \A j \in k..Len(q) : FALSE
    BY <1>1, <1>4
  <2> HIDE DEF k
  <2> QED BY <2>3, <2>4, <2>5, <2>6
<1> QED BY <1>16, <1>17

-----------------------------------------------------------------------------
\* The invariant of the buffers, and its steps.
LEMMA BufferInvInit == BufferInit => BufferInv
<1> SUFFICES ASSUME BufferInit PROVE BufferInv
  OBVIOUS
<1>1. \A t \in Talks : lists[t] = <<>> /\ keys[t].turns = <<>>
  BY DEF BufferInit
<1>2. BufferTypeOK
  BY EmptySeq DEF BufferInit, BufferTypeOK
<1>3. \A t \in Talks : Numbered(t)
  BY <1>1, EmptySeq DEF Numbered
<1> QED BY <1>1, <1>2, <1>3 DEF BufferInv, HoldsTheEnd

LEMMA BufferInvStep == BufferInv /\ [BufferNext]_bufferVars => BufferInv'
<1> SUFFICES ASSUME BufferInv, [BufferNext]_bufferVars
             PROVE  BufferInv'
  OBVIOUS
<1>0. /\ instant \in Nat /\ keys \in [Talks -> [turns : Seq(Turn), ends : Nat]]
      /\ lists \in [Talks -> Seq(Turn)]
  BY DEF BufferInv, BufferTypeOK
\* A talk whose lists do not change goes on being held.
<1>1. ASSUME NEW t \in Talks, lists'[t] = lists[t], keys'[t] = keys[t],
             instant' \in Nat, instant' >= instant
      PROVE  Numbered(t)' /\ HoldsTheEnd(t)'
  <2>1. Numbered(t)'
    <3> SUFFICES ASSUME NEW i \in 1..Len(lists[t])
                 PROVE  lists[t][i].n = i /\ lists[t][i].at <= instant'
      BY <1>1 DEF Numbered
    <3>1. lists[t][i].n = i /\ lists[t][i].at <= instant
      BY DEF BufferInv, Numbered
    <3>2. lists[t][i].at \in Nat
      <4>1. lists[t] \in Seq(Turn)
        BY <1>0
      <4>2. lists[t][i] \in Turn
        BY <4>1, ElementOfSeq
      <4> QED BY <4>2 DEF Turn
    <3> QED BY <1>0, <1>1, <3>1, <3>2
  <2> QED BY <1>1, <2>1 DEF BufferInv, HoldsTheEnd, RunsFrom
<1>2. CASE UNCHANGED bufferVars
  BY <1>0, <1>1, <1>2 DEF bufferVars, BufferInv, BufferTypeOK
<1>3. ASSUME NEW t \in Talks, Push(t)
      PROVE  BufferInv'
  <2>1. BufferTypeOK' /\ Numbered(t)' /\ HoldsTheEnd(t)'
    BY <1>3, PushedHolds
  <2>2. ASSUME NEW u \in Talks, u # t
        PROVE  Numbered(u)' /\ HoldsTheEnd(u)'
    <3>1. lists'[u] = lists[u] /\ keys'[u] = keys[u] /\ instant' = instant
      BY <1>0, <1>3, <2>2 DEF Push
    <3> QED BY <1>0, <1>1, <3>1
  <2> QED BY <2>1, <2>2 DEF BufferInv
<1>4. ASSUME NEW t \in Talks, Clear(t)
      PROVE  BufferInv'
  <2>1. /\ instant' = instant
        /\ lists' = [lists EXCEPT ![t] = <<>>]
        /\ keys' = [keys EXCEPT ![t] = [turns |-> <<>>, ends |-> 0]]
    BY <1>4 DEF Clear
  <2>2. BufferTypeOK'
    BY <1>0, <2>1, EmptySeq DEF BufferTypeOK
  <2>3. Numbered(t)' /\ HoldsTheEnd(t)'
    BY <1>0, <2>1, EmptySeq DEF Numbered, HoldsTheEnd
  <2>4. ASSUME NEW u \in Talks, u # t
        PROVE  Numbered(u)' /\ HoldsTheEnd(u)'
    <3>1. lists'[u] = lists[u] /\ keys'[u] = keys[u]
      BY <1>0, <2>1, <2>4
    <3> QED BY <1>0, <1>1, <2>1, <3>1
  <2> QED BY <2>2, <2>3, <2>4 DEF BufferInv
<1>5. CASE BufferTick
  <2>1. instant' = instant + 1 /\ keys' = keys /\ lists' = lists
    BY <1>5 DEF BufferTick
  <2>2. instant' \in Nat /\ instant' >= instant
    BY <1>0, <2>1
  <2> QED BY <1>0, <1>1, <2>1, <2>2 DEF BufferInv, BufferTypeOK
<1> QED BY <1>2, <1>3, <1>4, <1>5 DEF BufferNext

\* Whatever is said, cleared or waited for, the list of a talk in Redis is the end of the list
\* in memory that HoldsTheEnd says (RedisConversationBuffer.append, InMemoryConversationBuffer.append).
THEOREM BufferInvariant == BufferSpec => []BufferInv
BY BufferInvInit, BufferInvStep, PTL DEF BufferSpec

\* Lists hold turns, and every key ends at an instant.
THEOREM BufferTypeCorrect == BufferSpec => []BufferTypeOK
<1>1. BufferInv => BufferTypeOK
  BY DEF BufferInv
<1> QED BY <1>1, BufferInvariant, PTL

\* A turn stands in the window of Redis exactly while the talk has not been silent since, as far
\* back as the window goes (RedisConversationBuffer.append, get).
THEOREM WindowsHold == BufferSpec => []WindowsHoldTheTalk
<1>1. BufferInv => WindowsHoldTheTalk
  <2> SUFFICES ASSUME BufferInv, NEW t \in Talks, NEW size \in 1..MaxSize
               PROVE  \E k \in 1..Len(MemoryWindow(t, size)) + 1 :
                        /\ Window(t, size) =
                             SubSeq(MemoryWindow(t, size), k, Len(MemoryWindow(t, size)))
                        /\ \A i \in 1..Len(MemoryWindow(t, size)) :
                             i >= k <=> SinceSilence(t, MemoryWindow(t, size)[i].n)
    BY DEF WindowsHoldTheTalk
  <2> DEFINE q == lists[t]
             memory == MemoryWindow(t, size)
  <2>1. /\ q \in Seq(Turn) /\ Len(q) \in Nat /\ instant \in Nat /\ MaxSize \in Nat
        /\ size \in Nat /\ size > 0 /\ size <= MaxSize /\ Ttl \in Nat
        /\ keys[t].turns \in Seq(Turn) /\ keys[t].ends \in Nat
    BY LenProperties, BufferAssumption DEF BufferInv, BufferTypeOK
  <2>2. /\ IsEnd(memory, q) /\ Len(memory) = Shown(Len(q), size)
    BY <2>1, LastOfIsAnEnd DEF MemoryWindow
  <2>3. memory \in Seq(Turn) /\ Len(memory) \in Nat /\ Len(memory) <= Len(q)
    BY <2>1, <2>2, LenProperties DEF IsEnd
  <2>4. ASSUME NEW i \in 1..Len(memory)
        PROVE  memory[i].n = Len(q) - Len(memory) + i
    <3>1. memory[i] = q[Len(q) - Len(memory) + i] /\ Len(q) - Len(memory) + i \in 1..Len(q)
      BY <2>1, <2>2, <2>3 DEF IsEnd
    <3> QED BY <3>1 DEF BufferInv, Numbered
  \* Where the turns that still stand begin in the list.
  <2>5. \E b \in 1..Len(q) + 1 :
          /\ Len(Window(t, size)) = IF b > Len(q) THEN 0 ELSE Shown(Len(q) - b + 1, size)
          /\ IsEnd(Window(t, size), q)
          /\ \A i \in 1..Len(q) : i >= b <=> SinceSilence(t, i)
    <3>1. CASE Standing(t) = <<>>
      <4>1. Window(t, size) = <<>>
        BY <3>1, <2>1, EmptySeq DEF Window, LastOf
      <4>2. IsEnd(<<>>, q) /\ Len(<<>>) = 0
        BY <2>1, EmptySeq DEF IsEnd
      <4>3. ASSUME NEW i \in 1..Len(q), SinceSilence(t, i)
            PROVE  FALSE
        <5>1. q # <<>> /\ Len(q) \in i..Len(q)
          BY <2>1
        <5>2. /\ ~(keys[t].ends > instant)
              /\ keys[t].ends = q[Len(q)].at + Ttl /\ q[Len(q)].at \in Nat
          BY <3>1, <5>1, HeldLives DEF Standing
        <5>3. instant - q[Len(q)].at < Ttl
          BY <4>3, <5>1 DEF SinceSilence
        <5> QED BY <2>1, <5>2, <5>3
      <4>4. /\ Len(q) + 1 > Len(q) /\ Len(q) + 1 \in 1..Len(q) + 1
            /\ \A i \in 1..Len(q) : ~(i >= Len(q) + 1)
        BY <2>1
      <4> HIDE DEF q
      <4> QED BY <4>1, <4>2, <4>3, <4>4
    <3>2. CASE Standing(t) # <<>>
      <4>1. Standing(t) = keys[t].turns /\ keys[t].ends > instant /\ q # <<>>
        BY <3>2 DEF Standing, BufferInv, HoldsTheEnd
      <4>2. PICK b \in 1..Len(q) :
              /\ \A j \in b..Len(q) - 1 : q[j + 1].at - q[j].at < Ttl
              /\ b > 1 => q[b].at - q[b - 1].at >= Ttl
              /\ Len(keys[t].turns) = Shown(Len(q) - b + 1, MaxSize)
        BY <4>1 DEF BufferInv, HoldsTheEnd, RunsFrom
      <4>3. keys[t].ends = q[Len(q)].at + Ttl /\ IsEnd(Standing(t), q)
        BY <4>1 DEF BufferInv, HoldsTheEnd
      <4>4. IsEnd(Window(t, size), q) /\ Len(Window(t, size)) = Shown(Len(Standing(t)), size)
        BY <2>1, <4>1, <4>3, LastOfIsAnEnd, EndOfEnd DEF Window
      <4>5. Len(Window(t, size)) = Shown(Len(q) - b + 1, size)
        BY <2>1, <4>1, <4>2, <4>4 DEF Shown
      <4>6. ASSUME NEW i \in 1..Len(q)
            PROVE  i >= b <=> SinceSilence(t, i)
        <5>1. ASSUME i >= b, NEW j \in i..Len(q)
              PROVE  (IF j = Len(q) THEN instant ELSE q[j + 1].at) - q[j].at < Ttl
          <6>1. CASE j = Len(q)
            <7>1. q[Len(q)].at \in Nat
              BY <4>1, HeldLives
            <7> QED BY <2>1, <4>1, <4>3, <6>1, <7>1
          <6>2. CASE j # Len(q)
            <7>1. j \in b..Len(q) - 1
              BY <2>1, <4>2, <5>1, <6>2
            <7> QED BY <4>2, <6>2, <7>1
          <6> QED BY <6>1, <6>2
        <5>2. ASSUME ~(i >= b), SinceSilence(t, i)
              PROVE  FALSE
          <6>1. b > 1 /\ b - 1 \in i..Len(q) /\ b - 1 # Len(q) /\ (b - 1) + 1 = b
            BY <2>1, <4>2, <5>2
          <6>2. q[b].at - q[b - 1].at < Ttl
            BY <5>2, <6>1 DEF SinceSilence
          <6>3. q[b].at - q[b - 1].at >= Ttl
            BY <4>2, <6>1
          <6>4. q[b].at \in Nat /\ q[b - 1].at \in Nat
            <7>1. b \in 1..Len(q) /\ b - 1 \in 1..Len(q)
              BY <2>1, <4>2, <6>1
            <7>2. q[b] \in Turn /\ q[b - 1] \in Turn
              BY <2>1, <7>1, ElementOfSeq
            <7> QED BY <7>2 DEF Turn
          <6> QED BY <2>1, <6>2, <6>3, <6>4
        <5> QED BY <5>1, <5>2 DEF SinceSilence
      <4>7. b \in 1..Len(q) + 1 /\ ~(b > Len(q))
        BY <2>1, <4>2
      <4> HIDE DEF q
      <4> QED BY <4>4, <4>5, <4>6, <4>7
    <3> QED BY <3>1, <3>2
  <2>6. PICK b \in 1..Len(q) + 1 :
          /\ Len(Window(t, size)) = IF b > Len(q) THEN 0 ELSE Shown(Len(q) - b + 1, size)
          /\ IsEnd(Window(t, size), q)
          /\ \A i \in 1..Len(q) : i >= b <=> SinceSilence(t, i)
    BY <2>5
  <2> DEFINE off == Len(q) - Len(memory)
             k   == IF b > off THEN b - off ELSE 1
  <2> HIDE DEF q, memory
  <2>7. off \in Nat /\ k \in 1..Len(memory) + 1
    BY <2>1, <2>2, <2>3, <2>6 DEF Shown
  <2>8. \A i \in 1..Len(memory) : i >= k <=> SinceSilence(t, memory[i].n)
    <3> TAKE i \in 1..Len(memory)
    <3>1. memory[i].n = off + i /\ off + i \in 1..Len(q)
      BY <2>1, <2>3, <2>4, <2>7
    <3>2. off + i >= b <=> SinceSilence(t, off + i)
      BY <2>6, <3>1
    <3>3. i >= k <=> off + i >= b
      BY <2>1, <2>3, <2>6, <2>7
    <3> QED BY <3>1, <3>2, <3>3
  <2>9. Window(t, size) = SubSeq(memory, k, Len(memory))
    <3>1. IsEnd(SubSeq(memory, k, Len(memory)), q)
      BY <2>2, <2>3, <2>7, TailIsAnEnd, EndOfEnd
    <3>2. Len(SubSeq(memory, k, Len(memory))) = Len(memory) - k + 1
      BY <2>3, <2>7, TailIsAnEnd
    <3>3. Len(memory) - k + 1 = IF b > Len(q) THEN 0 ELSE Shown(Len(q) - b + 1, size)
      <4>1. Len(memory) = Shown(Len(q), size) /\ off = Len(q) - Len(memory)
        BY <2>2
      <4> HIDE DEF off
      <4>2. CASE b > off
        <5>1. k = b - off
          BY <4>2
        <5>2. Len(memory) - k + 1 = Len(q) - b + 1
          BY <2>1, <2>3, <2>6, <2>7, <4>1, <5>1
        <5>3. Len(q) - b + 1 <= Len(memory) /\ b \in Nat
          BY <2>1, <2>3, <2>6, <4>1, <4>2
        <5>4. Len(memory) <= size
          BY <2>1, <4>1 DEF Shown
        <5>5. b > Len(q) => Len(q) - b + 1 = 0
          BY <2>1, <2>6
        <5>6. Shown(Len(q) - b + 1, size) = Len(q) - b + 1
          BY <2>1, <2>3, <5>3, <5>4 DEF Shown
        <5> QED BY <5>2, <5>5, <5>6
      <4>3. CASE ~(b > off)
        <5>1. k = 1
          BY <4>3
        <5>2. off > 0 /\ Len(memory) = size /\ Len(q) - b + 1 > size /\ ~(b > Len(q))
          BY <2>1, <2>3, <2>6, <2>7, <4>1, <4>3 DEF Shown
        <5> QED BY <2>1, <2>3, <2>6, <5>1, <5>2 DEF Shown
      <4> QED BY <4>2, <4>3
    <3> QED BY <2>6, <3>1, <3>2, <3>3, EndsAreKnownByLength
  <2> QED BY <2>7, <2>8, <2>9 DEF memory
<1> QED BY <1>1, BufferInvariant, PTL

-----------------------------------------------------------------------------
(***************************************************************************)
(* MemoryUpkeep                                                            *)
(* A row that has stood since the walk began is moved, or is past the      *)
(* cursor, or is on the page that is read, or lies past a page that was    *)
(* full.  That the page has every row before any row that it lacks, and is *)
(* full when it lacks one, is a fact about counting rows by their place    *)
(* (PageReaches).                                                          *)
(***************************************************************************)
\* No two rows have one id.
IdsApart == \A f, g \in Remembered : rows[f].id = rows[g].id => f = g

Reading == walk.phase \in {"embedding", "saving"}

\* A page is read, then embedded and saved, and let go of.
PageHeld ==
  /\ walk.todo \subseteq walk.page
  /\ IF Reading THEN walk.page # {} /\ IsFiniteSet(walk.page) ELSE walk.page = {}

\* What a page says of a fact is so unless somebody has told or removed the fact since.
PageIsTrue ==
  \A m \in walk.page : m.fact \notin marks.disturbed =>
    rows[m.fact] # Nil /\ rows[m.fact].id = m.id /\ rows[m.fact].confidence = m.confidence

\* A full page has been read, and the row lies past it.
Ahead(f) == Cardinality(walk.page) >= Batch /\ \A m \in walk.page : m.id < rows[f].id

\* A row that has stood all through the walk is moved, or the walk will still come to it.
StandingIsReached ==
  \A f \in marks.standing :
    /\ rows[f] # Nil
    /\ \/ rows[f].space = "new"
       \/ walk.phase = "scanning" /\ rows[f].id > walk.after
       \/ walk.phase = "embedding" /\ ((\E m \in walk.page : m.fact = f) \/ Ahead(f))
       \/ walk.phase = "saving" /\ ((\E m \in walk.todo : m.fact = f) \/ Ahead(f))

\* A row has the confidence last told, if the walk has not saved it from an older page.
ToldIsKept == \A f \in Remembered \ marks.revised : rows[f].confidence = marks.told[f]

UpkeepInv == UpkeepTypeOK /\ IdsApart /\ PageHeld /\ PageIsTrue /\ StandingIsReached /\ ToldIsKept

\* The numbers of the constants, apart from the shape of a row.
LEMMA UpkeepNumbers ==
  Batch \in Nat \ {0} /\ Ceiling \in Nat /\ ScoreCap \in Nat /\ MaxCalls \in Nat
BY UpkeepAssumption

\* What the assumption says of numbers, apart from the records.
LEMMA IdsAreNumbers ==
  \A id \in Ids : id \in Nat /\ id > 0
<1>1. Ids \subseteq Nat \ {0}
  BY UpkeepAssumption
<1> QED BY <1>1

LEMMA NoScore == 0 \in -ScoreCap..ScoreCap
<1>1. ScoreCap \in Nat
  BY UpkeepNumbers
<1> QED BY <1>1

\* A row's fields, and the rows that differ from it in some of them.
LEMMA RowParts ==
  /\ Nil \notin Row
  /\ \A r \in Row : /\ r.id \in Ids /\ r.id \in Nat /\ r.id # 0 /\ r.confidence \in Confidences
                    /\ r.space \in Spaces /\ r.score \in -ScoreCap..ScoreCap
  /\ \A r \in Row, confidence \in Confidences, space \in Spaces :
       LET changed == [r EXCEPT !.confidence = confidence, !.space = space] IN
       /\ changed \in Row
       /\ changed.id = r.id /\ changed.confidence = confidence /\ changed.space = space
       /\ confidence = r.confidence => changed = [r EXCEPT !.space = space]
  /\ \A r \in Row, score \in -ScoreCap..ScoreCap :
       LET changed == [r EXCEPT !.score = score] IN
       /\ changed \in Row
       /\ changed.id = r.id /\ changed.confidence = r.confidence /\ changed.space = r.space
<1> USE UpkeepAssumption DEF Row, Spaces
<1>1. Nil \notin Row
  OBVIOUS
<1>2. \A r \in Row : /\ r.id \in Ids /\ r.id \in Nat /\ r.id # 0 /\ r.confidence \in Confidences
                     /\ r.space \in Spaces /\ r.score \in -ScoreCap..ScoreCap
  OBVIOUS
<1>3. ASSUME NEW r \in Row, NEW confidence \in Confidences, NEW space \in Spaces
      PROVE  LET changed == [r EXCEPT !.confidence = confidence, !.space = space] IN
             /\ changed \in Row
             /\ changed.id = r.id /\ changed.confidence = confidence /\ changed.space = space
             /\ confidence = r.confidence => changed = [r EXCEPT !.space = space]
  OBVIOUS
<1>4. ASSUME NEW r \in Row, NEW score \in -ScoreCap..ScoreCap
      PROVE  LET changed == [r EXCEPT !.score = score] IN
             /\ changed \in Row
             /\ changed.id = r.id /\ changed.confidence = r.confidence
             /\ changed.space = r.space
  OBVIOUS
<1> HIDE DEF Row
<1> QED BY <1>1, <1>2, <1>3, <1>4

\* The fields of the marks and of a walk.
LEMMA MarksParts ==
  \A m \in Marks : m.standing \subseteq Facts /\ m.disturbed \subseteq Facts
                   /\ m.revised \subseteq Facts /\ m.told \in [Facts -> Confidences \cup {0}]
BY DEF Marks

LEMMA WalkParts ==
  /\ NoWalk \in Walk /\ Ended \in Walk
  /\ \A v \in Walk : /\ v.phase \in Phases /\ v.after \in Nat /\ v.after \in Ids \cup {0}
                     /\ v.page \subseteq Copy /\ v.todo \subseteq Copy
  /\ \A m \in Copy : m.fact \in Facts /\ m.id \in Ids /\ m.id \in Nat
                     /\ m.confidence \in Confidences
<1>1. NoWalk \in Walk /\ Ended \in Walk
  BY DEF NoWalk, Ended, Walk, Phases
<1>2. \A id \in Ids \cup {0} : id \in Nat
  BY IdsAreNumbers
<1>3. ASSUME NEW v \in Walk
      PROVE  /\ v.phase \in Phases /\ v.after \in Nat /\ v.after \in Ids \cup {0}
             /\ v.page \subseteq Copy /\ v.todo \subseteq Copy
  <2>1. v.after \in Ids \cup {0} /\ v.phase \in Phases
    BY DEF Walk
  <2>2. v.page \subseteq Copy /\ v.todo \subseteq Copy
    BY DEF Walk
  <2> QED BY <2>1, <2>2, <1>2
<1>4. \A m \in Copy : m.fact \in Facts /\ m.id \in Ids /\ m.id \in Nat
                      /\ m.confidence \in Confidences
  BY <1>2 DEF Copy
<1> QED BY <1>1, <1>3, <1>4

\* What somebody's call does to the marks.
LEMMA DisturbMarks ==
  ASSUME UpkeepTypeOK, NEW S \in SUBSET Facts
  PROVE  /\ Disturb(S) \in Marks
         /\ Disturb(S).standing = marks.standing \ S
         /\ Disturb(S).revised = marks.revised \ S
         /\ Disturb(S).told = marks.told
         /\ Disturb(S).disturbed =
              IF walk.page = {} THEN marks.disturbed ELSE marks.disturbed \cup S
BY DEF UpkeepTypeOK, Disturb, Marks

\* What the upsert leaves.
LEMMA Upserted ==
  ASSUME UpkeepTypeOK, NEW f \in Facts, NEW confidence \in Confidences, NEW space \in Spaces,
         NEW heard \in Personas \cup {""}, Upsert(f, confidence, space, heard)
  PROVE  /\ rows' \in [Facts -> Row \cup {Nil}]
         /\ \A g \in Facts \ {f} : rows'[g] = rows[g]
         /\ rows'[f] \in Row /\ rows'[f].confidence = confidence
         /\ space # "none" => rows'[f].space = space
         /\ rows[f] # Nil /\ space # "none" =>
              rows'[f] = [rows[f] EXCEPT !.confidence = confidence, !.space = space]
         /\ rows[f] # Nil => rows'[f].id = rows[f].id
         /\ rows[f] = Nil => rows'[f].id \notin UsedIds
<1>1. rows \in [Facts -> Row \cup {Nil}]
  BY DEF UpkeepTypeOK
<1>2. CASE rows[f] = Nil
  <2>1. PICK id \in Ids :
          /\ id \notin UsedIds
          /\ rows' = [rows EXCEPT ![f] =
               [id |-> id, confidence |-> confidence, space |-> space, heard |-> heard,
                aged |-> FALSE, score |-> 0]]
    BY <1>2 DEF Upsert, IsFresh
  <2>2. [id |-> id, confidence |-> confidence, space |-> space, heard |-> heard,
         aged |-> FALSE, score |-> 0] \in Row
    BY NoScore DEF Row
  <2> QED BY <1>1, <1>2, <2>1, <2>2
<1>3. CASE rows[f] # Nil
  <2> DEFINE kept == IF space = "none" THEN rows[f].space ELSE space
             new  == [rows[f] EXCEPT !.confidence = confidence, !.space = kept]
  <2>1. rows[f] \in Row /\ kept \in Spaces
    BY <1>1, <1>3, RowParts
  <2>2. rows' = [rows EXCEPT ![f] = new]
    BY <1>3, Zenon DEF Upsert
  <2>3. new \in Row /\ new.id = rows[f].id /\ new.confidence = confidence /\ new.space = kept
    <3> HIDE DEF kept
    <3>1. [rows[f] EXCEPT !.confidence = confidence, !.space = kept] \in Row
      BY <2>1, RowParts
    <3>2. /\ new.id = rows[f].id /\ new.confidence = confidence /\ new.space = kept
      BY <2>1 DEF Row
    <3> QED BY <3>1, <3>2
  <2> QED BY <1>1, <1>3, <2>1, <2>2, <2>3
<1> QED BY <1>2, <1>3

\* The first state is typed.
LEMMA UpkeepTypeInit == UpkeepInit => UpkeepTypeOK
<1> SUFFICES ASSUME UpkeepInit PROVE UpkeepTypeOK
  OBVIOUS
<1>1. rows \in [Facts -> Row \cup {Nil}]
  <2>1. \A r \in [id : Ids, confidence : Confidences, space : {"old"}, heard : Personas,
                  aged : BOOLEAN, score : {0}] : r \in Row
    BY NoScore DEF Row, Spaces
  <2> QED BY <2>1 DEF UpkeepInit
<1>2. marks \in Marks
  <2>1. \A f \in Facts : rows[f] # Nil => rows[f].confidence \in Confidences
    <3> SUFFICES ASSUME NEW f \in Facts, rows[f] # Nil PROVE rows[f].confidence \in Confidences
      OBVIOUS
    <3>1. rows[f] \in Row
      BY <1>1
    <3> QED BY <3>1, RowParts
  <2> QED BY <2>1 DEF UpkeepInit, Marks
<1>3. walk \in Walk /\ calls \in 0..MaxCalls
  BY WalkParts, UpkeepNumbers DEF UpkeepInit
<1> QED BY <1>1, <1>2, <1>3 DEF UpkeepTypeOK
\* The page that is held has a last row.
LEMMA LastOfPage ==
  ASSUME UpkeepTypeOK, PageHeld, Reading
  PROVE  LET last == CHOOSE i \in Ids : \E m \in walk.page :
                       m.id = i /\ \A other \in walk.page : other.id <= i
         IN  /\ last \in Ids
             /\ \E m \in walk.page : m.id = last
             /\ \A m \in walk.page : m.id <= last
<1> DEFINE S == {m.id : m \in walk.page}
           IsLast(i) == \E m \in walk.page :
                          m.id = i /\ \A other \in walk.page : other.id <= i
<1>1. walk.page \subseteq Copy /\ walk.page # {} /\ IsFiniteSet(walk.page)
  BY WalkParts DEF UpkeepTypeOK, PageHeld
<1>2. S \subseteq Nat /\ S \subseteq Ids /\ S # {}
  BY <1>1, WalkParts
<1>3. IsFiniteSet(S)
  <2> DEFINE f == [m \in walk.page |-> m.id]
  <2>1. f \in Surjection(walk.page, S)
    BY DEF Surjection
  <2> QED BY <1>1, <2>1, FS_Surjection
<1>4. PICK i \in S : \A j \in S : j <= i
  BY <1>2, <1>3, GreatestOf
<1>5. i \in Ids /\ IsLast(i)
  BY <1>2, <1>4
<1> QED BY <1>5

\* A step keeps the types.  PageHeld is there for NextPage: the last id of a page exists.
LEMMA UpkeepTypeStep ==
  ASSUME UpkeepTypeOK, PageHeld, UpkeepNext
  PROVE  UpkeepTypeOK'
<1>0. /\ rows \in [Facts -> Row \cup {Nil}] /\ walk \in Walk /\ marks \in Marks
      /\ calls \in 0..MaxCalls /\ MaxCalls \in Nat
  BY UpkeepNumbers DEF UpkeepTypeOK
<1>a. ASSUME calls < MaxCalls, calls' = calls + 1
      PROVE  calls' \in 0..MaxCalls
  BY <1>0, <1>a
<1>1. ASSUME NEW f \in Facts, NEW confidence \in Confidences, NEW space \in Spaces,
             NEW heard \in Personas, SaveMemory(f, confidence, space, heard)
      PROVE  UpkeepTypeOK'
  <2>1. rows' \in [Facts -> Row \cup {Nil}]
    BY <1>1, Upserted DEF SaveMemory
  <2>2. marks' \in Marks
    <3>1. Disturb({f}) \in Marks
      BY DisturbMarks
    <3> QED BY <1>1, <3>1 DEF SaveMemory, Marks
  <2> QED BY <1>0, <1>a, <1>1, <2>1, <2>2 DEF SaveMemory, Called, UpkeepTypeOK
<1>2. ASSUME NEW delta \in {-1, 1}, AdjustFeedbackScore(delta)
      PROVE  UpkeepTypeOK'
  <2>1. PICK S \in SUBSET Remembered :
          rows' = [f \in Facts |->
            IF f \in S THEN [rows[f] EXCEPT !.score = Saturated(@ + delta)] ELSE rows[f]]
    BY <1>2 DEF AdjustFeedbackScore
  <2>2. ASSUME NEW f \in S PROVE [rows[f] EXCEPT !.score = Saturated(@ + delta)] \in Row
    <3>1. rows[f] \in Row
      BY <1>0 DEF Remembered
    <3>2. rows[f].score \in -ScoreCap..ScoreCap /\ ScoreCap \in Nat
      BY <3>1, RowParts, UpkeepNumbers
    <3>3. Saturated(rows[f].score + delta) \in -ScoreCap..ScoreCap
      BY <3>2 DEF Saturated
    <3> QED BY <3>1, <3>3, RowParts
  <2>3. rows' \in [Facts -> Row \cup {Nil}]
    BY <1>0, <2>1, <2>2
  <2> QED BY <1>0, <1>a, <1>2, <2>3 DEF AdjustFeedbackScore, Called, UpkeepTypeOK
<1>3. ASSUME NEW S \in SUBSET Remembered, DeleteMemories(S)
      PROVE  UpkeepTypeOK'
  <2>1. S \subseteq Facts
    BY DEF Remembered
  <2>2. Disturb(S) \in Marks
    BY <2>1, DisturbMarks
  <2>3. marks' \in Marks
    BY <1>3, <2>2 DEF DeleteMemories, Marks
  <2> QED BY <1>0, <1>a, <1>3, <2>3 DEF DeleteMemories, Called, Delete, UpkeepTypeOK
<1>4. CASE PruneMemories
  BY <1>3, <1>4 DEF PruneMemories
<1>5. CASE StopWalk
  <2>1. marks' \in Marks
    BY <1>0, <1>5 DEF StopWalk, Marks
  <2> QED BY <1>0, <1>a, <1>5, <2>1, WalkParts DEF StopWalk, UpkeepTypeOK
<1>6. CASE BeginWalk
  <2>1. marks' \in Marks
    BY <1>0, <1>6 DEF BeginWalk, Marks, Remembered
  <2>2. walk' \in Walk
    BY <1>6 DEF BeginWalk, NoWalk, Walk, Phases
  <2> QED BY <1>0, <1>6, <2>1, <2>2 DEF BeginWalk, UpkeepTypeOK
<1>7. CASE ScanPage
  <2>1. marks' \in Marks
    BY <1>0, <1>7 DEF ScanPage, Marks
  <2>2. {[fact |-> f, id |-> rows[f].id, confidence |-> rows[f].confidence] : f \in PageFacts}
          \subseteq Copy
    <3>1. \A f \in PageFacts : f \in Facts /\ rows[f] \in Row
      BY <1>0 DEF PageFacts, PastCursor, Remembered
    <3>2. \A f \in PageFacts : rows[f].id \in Ids /\ rows[f].confidence \in Confidences
      BY <3>1, RowParts
    <3> HIDE DEF PageFacts
    <3> QED BY <3>1, <3>2 DEF Copy
  <2>3. walk' \in Walk
    BY <1>0, <1>7, <2>2, WalkParts DEF ScanPage, Walk, Phases
  <2> QED BY <1>0, <1>7, <2>1, <2>3 DEF ScanPage, UpkeepTypeOK
<1>8. CASE EmbedPage
  <2>1. walk' \in Walk
    BY <1>0, <1>8 DEF EmbedPage, Walk, Phases
  <2>2. marks' \in Marks
    BY <1>0, <1>8 DEF EmbedPage, Marks
  <2> QED BY <1>0, <1>8, <2>1, <2>2 DEF EmbedPage, UpkeepTypeOK
<1>9. CASE SaveNext
  <2>1. PICK m \in walk.todo :
          /\ Upsert(m.fact, m.confidence, "new", "")
          /\ walk' = [walk EXCEPT !.todo = @ \ {m}]
          /\ marks' = [marks EXCEPT !.revised =
                        IF m.fact \in marks.disturbed THEN @ \cup {m.fact} ELSE @]
    BY <1>9 DEF SaveNext
  <2>2. m.fact \in Facts /\ m.confidence \in Confidences
    BY <1>0, WalkParts
  <2>3. rows' \in [Facts -> Row \cup {Nil}]
    BY <2>1, <2>2, Upserted DEF Spaces
  <2>4. walk' \in Walk
    BY <1>0, <2>1 DEF Walk
  <2>5. marks' \in Marks
    BY <1>0, <2>1, <2>2 DEF Marks
  <2> QED BY <1>0, <1>9, <2>3, <2>4, <2>5 DEF SaveNext, UpkeepTypeOK
<1>10. CASE NextPage
  <2> SUFFICES walk' \in Walk
    BY <1>0, <1>10 DEF NextPage, UpkeepTypeOK
  <2> DEFINE last == CHOOSE i \in Ids : \E m \in walk.page :
                       m.id = i /\ \A other \in walk.page : other.id <= i
  <2>1. CASE walk' = Ended
    BY <2>1, WalkParts
  <2>2. CASE walk' = [walk EXCEPT !.phase = "scanning", !.page = {}, !.after = last]
    <3>1. last \in Ids
      BY <1>10, LastOfPage DEF NextPage, Reading
    <3> HIDE DEF last
    <3> QED BY <1>0, <2>2, <3>1 DEF Walk, Phases
  <2> QED BY <1>10, <2>1, <2>2 DEF NextPage
<1> QED BY <1>1, <1>2, <1>3, <1>4, <1>5, <1>6, <1>7, <1>8, <1>9, <1>10
        DEF UpkeepNext, WalkNext, OtherNext

-----------------------------------------------------------------------------
(* The page *)

Below(f) == {g \in PastCursor : rows[g].id < rows[f].id}

\* Finitely many rows stand below a row, for their ids do.
LEMMA BelowIsFinite ==
  ASSUME UpkeepTypeOK, IdsApart, NEW f \in PastCursor
  PROVE  rows[f].id \in Nat /\ IsFiniteSet(Below(f)) /\ Cardinality(Below(f)) \in Nat
<1> DEFINE fn == [h \in Below(f) |-> rows[h].id]
<1>1. \A g \in PastCursor : g \in Remembered /\ rows[g].id \in Nat
  BY RowParts DEF UpkeepTypeOK, PastCursor, Remembered
<1>2. IsFiniteSet(0..rows[f].id)
  BY <1>1, FS_Interval
<1>3. fn \in [Below(f) -> 0..rows[f].id]
  BY <1>1 DEF Below
<1>4. \A h, k \in Below(f) : rows[h].id = rows[k].id => h = k
  BY <1>1 DEF Below, IdsApart
<1>5. IsFiniteSet(Below(f))
  <2>1. \A h, k \in Below(f) : fn[h] = fn[k] => h = k
    BY <1>4
  <2> HIDE DEF fn
  <2> QED BY <1>2, <1>3, <2>1, SmallAsItsImage
<1> QED BY <1>1, <1>5, FS_CardinalityType

\* Rows are counted by their place among the rows past the cursor.
LEMMA PlacesGrow ==
  ASSUME UpkeepTypeOK, IdsApart, NEW f \in PastCursor, NEW g \in PastCursor,
         rows[f].id < rows[g].id
  PROVE  Cardinality(Below(f)) < Cardinality(Below(g))
<1>1. /\ rows[f].id \in Nat /\ rows[g].id \in Nat
      /\ IsFiniteSet(Below(f)) /\ IsFiniteSet(Below(g))
      /\ Cardinality(Below(f)) \in Nat /\ Cardinality(Below(g)) \in Nat
  BY BelowIsFinite
<1>2. Below(f) \subseteq Below(g)
  <2> SUFFICES ASSUME NEW h \in Below(f) PROVE h \in Below(g)
    OBVIOUS
  <2>1. h \in PastCursor /\ rows[h].id < rows[f].id
    BY DEF Below
  <2>2. rows[h].id \in Nat
    BY <2>1, BelowIsFinite
  <2> QED BY <1>1, <2>1, <2>2 DEF Below
<1>3. f \in Below(g) /\ f \notin Below(f)
  BY <1>1 DEF Below
<1>4. Cardinality(Below(f)) <= Cardinality(Below(g))
      /\ (Cardinality(Below(f)) = Cardinality(Below(g)) => Below(f) = Below(g))
  BY <1>1, <1>2, FS_Subset
<1> QED BY <1>1, <1>3, <1>4

\* A page is finite, for its rows are told apart by how many stand below them.
LEMMA PageIsFinite ==
  ASSUME UpkeepTypeOK, IdsApart
  PROVE  IsFiniteSet(PageFacts)
<1> DEFINE fn == [h \in PageFacts |-> Cardinality(Below(h))]
<1>1. \A h \in PageFacts : h \in PastCursor /\ Cardinality(Below(h)) < Batch
  BY DEF PageFacts, Below
<1>2. IsFiniteSet(0..Batch)
  BY UpkeepNumbers, FS_Interval
<1>3. fn \in [PageFacts -> 0..Batch]
  <2>1. \A h \in PageFacts : Cardinality(Below(h)) \in Nat
    BY <1>1, BelowIsFinite
  <2>2. \A h \in PageFacts : Cardinality(Below(h)) \in 0..Batch
    BY <1>1, <2>1, UpkeepNumbers
  <2> QED BY <2>2
<1>4. ASSUME NEW h \in PageFacts, NEW k \in PageFacts, fn[h] = fn[k]
      PROVE  h = k
  <2>1. /\ h \in PastCursor /\ k \in PastCursor /\ rows[h].id \in Nat /\ rows[k].id \in Nat
        /\ Cardinality(Below(h)) \in Nat /\ Cardinality(Below(h)) = Cardinality(Below(k))
    BY <1>1, <1>4, BelowIsFinite
  <2>2. rows[h].id = rows[k].id
    BY <2>1, PlacesGrow
  <2> QED BY <2>1, <2>2 DEF IdsApart, PastCursor
<1> HIDE DEF fn
<1> QED BY <1>2, <1>3, <1>4, SmallAsItsImage

\* A row that is not on the page comes after all of it, and the page is full.
LEMMA PageReaches ==
  ASSUME UpkeepTypeOK, IdsApart, NEW f \in PastCursor \ PageFacts
  PROVE  /\ Cardinality(PageFacts) >= Batch
         /\ \A g \in PageFacts : rows[g].id < rows[f].id
<1>1. \A g \in PastCursor : /\ g \in Remembered /\ rows[g].id \in Nat /\ IsFiniteSet(Below(g))
                            /\ Cardinality(Below(g)) \in Nat
  BY BelowIsFinite DEF PastCursor
<1>2. \A g \in PastCursor : g \in PageFacts <=> Cardinality(Below(g)) < Batch
  BY DEF PageFacts, Below
<1>3. \A g \in PageFacts : rows[g].id < rows[f].id
  <2> SUFFICES ASSUME NEW g \in PageFacts, ~(rows[g].id < rows[f].id)
               PROVE  FALSE
    OBVIOUS
  <2>1. g \in PastCursor /\ f \in PastCursor /\ f # g
    BY DEF PageFacts
  <2>2. rows[f].id < rows[g].id
    <3>1. rows[f].id # rows[g].id
      BY <1>1, <2>1 DEF IdsApart
    <3> QED BY <1>1, <2>1, <3>1
  <2>3. Cardinality(Below(f)) < Cardinality(Below(g))
    BY <2>1, <2>2, PlacesGrow
  <2> QED BY <1>1, <1>2, <2>1, <2>3, UpkeepNumbers
<1>4. IsFiniteSet(PageFacts) /\ Cardinality(PageFacts) \in Nat
  BY PageIsFinite, FS_CardinalityType
<1>5. PICK e \in PastCursor \ PageFacts : Below(e) \subseteq PageFacts
  <2> DEFINE ids == {rows[h].id : h \in PastCursor \ PageFacts}
  <2>1. ids \subseteq Nat /\ ids # {}
    BY <1>1
  <2>2. PICK i \in ids : \A j \in ids : i <= j
    BY <2>1, LeastOf
  <2>3. PICK e \in PastCursor \ PageFacts : rows[e].id = i
    OBVIOUS
  <2>4. ASSUME NEW h \in Below(e), h \notin PageFacts
        PROVE  FALSE
    <3>1. h \in PastCursor \ PageFacts /\ rows[h].id < i
      BY <2>3, <2>4 DEF Below
    <3>2. i <= rows[h].id
      BY <2>2, <3>1
    <3>3. i \in Nat /\ rows[h].id \in Nat
      BY <1>1, <2>1, <3>1
    <3> QED BY <3>1, <3>2, <3>3
  <2> QED BY <2>3, <2>4
<1>6. Cardinality(Below(e)) <= Cardinality(PageFacts)
  BY <1>4, <1>5, FS_Subset
<1>7. ~(Cardinality(Below(e)) < Batch) /\ Cardinality(Below(e)) \in Nat
  BY <1>1, <1>2
<1> QED BY <1>3, <1>4, <1>6, <1>7, UpkeepNumbers

\* The same of the page as it is kept, and it is not empty while there is a row to come to.
LEMMA PageRead ==
  ASSUME UpkeepTypeOK, IdsApart
  PROVE  LET page == {[fact |-> f, id |-> rows[f].id, confidence |-> rows[f].confidence]
                        : f \in PageFacts} IN
         /\ PageFacts = {} => PastCursor = {}
         /\ IsFiniteSet(page)
         /\ \A f \in PastCursor \ PageFacts :
              Cardinality(page) >= Batch /\ \A m \in page : m.id < rows[f].id
<1> DEFINE copy(f) == [fact |-> f, id |-> rows[f].id, confidence |-> rows[f].confidence]
           page == {copy(f) : f \in PageFacts}
           fn == [f \in PageFacts |-> copy(f)]
<1>1. ASSUME NEW f \in PastCursor, PageFacts = {}
      PROVE  FALSE
  <2>1. Cardinality(PageFacts) >= Batch /\ Cardinality(PageFacts) = 0
    BY <1>1, PageReaches, FS_EmptySet
  <2> QED BY <2>1, UpkeepNumbers
<1>2. IsFiniteSet(page) /\ Cardinality(page) = Cardinality(PageFacts)
  <2>1. fn \in [PageFacts -> page] /\ \A m \in page : \E f \in PageFacts : fn[f] = m
    OBVIOUS
  <2>2. \A f, g \in PageFacts : fn[f] = fn[g] => f = g
    OBVIOUS
  <2> HIDE DEF fn, page
  <2> QED BY <2>1, <2>2, PageIsFinite, AsManyImages
<1>3. ASSUME NEW f \in PastCursor \ PageFacts
      PROVE  Cardinality(page) >= Batch /\ \A m \in page : m.id < rows[f].id
  <2>1. Cardinality(PageFacts) >= Batch /\ \A g \in PageFacts : rows[g].id < rows[f].id
    BY PageReaches
  <2> QED BY <1>2, <2>1
<1> QED BY <1>1, <1>2, <1>3

-----------------------------------------------------------------------------
(* The invariant, action by action *)

\* Somebody else's calls leave the walk alone, and disturb what they tell and remove.
LEMMA SaveMemoryKeeps ==
  ASSUME UpkeepInv, NEW f \in Facts, NEW confidence \in Confidences, NEW space \in Spaces,
         NEW heard \in Personas, SaveMemory(f, confidence, space, heard)
  PROVE  IdsApart' /\ PageHeld' /\ PageIsTrue' /\ StandingIsReached' /\ ToldIsKept'
<1> USE DEF UpkeepInv
<1>1. /\ rows' \in [Facts -> Row \cup {Nil}]
      /\ \A g \in Facts \ {f} : rows'[g] = rows[g]
      /\ rows'[f] \in Row /\ rows'[f].confidence = confidence
      /\ rows[f] # Nil => rows'[f].id = rows[f].id
      /\ rows[f] = Nil => rows'[f].id \notin UsedIds
  BY Upserted DEF SaveMemory
<1>2. /\ walk' = walk
      /\ marks'.standing = marks.standing \ {f} /\ marks'.revised = marks.revised \ {f}
      /\ marks'.told = [marks.told EXCEPT ![f] = confidence]
      /\ marks'.disturbed = IF walk.page = {} THEN marks.disturbed ELSE marks.disturbed \cup {f}
  <2>1. Disturb({f}) \in Marks /\ marks' = [Disturb({f}) EXCEPT !.told[f] = confidence]
    BY DisturbMarks DEF SaveMemory
  <2> QED BY <2>1, DisturbMarks DEF SaveMemory, Called, Marks
<1>3. IdsApart'
  <2> SUFFICES ASSUME NEW g \in Remembered', NEW h \in Remembered',
                      rows'[g].id = rows'[h].id, g # h
               PROVE  FALSE
    BY DEF IdsApart
  <2>1. g \in Facts /\ h \in Facts /\ rows'[g] # Nil /\ rows'[h] # Nil
    BY DEF Remembered
  <2>2. CASE g # f /\ h # f
    BY <1>1, <2>1, <2>2 DEF IdsApart, Remembered
  <2>3. ASSUME NEW k \in Facts \ {f}, rows[k] # Nil, rows[k].id = rows'[f].id
        PROVE  FALSE
    <3>1. k \in Remembered /\ rows[k].id \in UsedIds
      BY <2>3 DEF Remembered, UsedIds
    <3>2. rows[f] # Nil /\ rows[f].id = rows[k].id
      BY <1>1, <2>3, <3>1
    <3> QED BY <2>3, <3>1, <3>2 DEF IdsApart, Remembered
  <2> QED BY <1>1, <2>1, <2>2, <2>3
<1>4. PageHeld'
  BY <1>2 DEF PageHeld, Reading
<1>5. PageIsTrue'
  BY <1>1, <1>2, WalkParts DEF PageIsTrue, UpkeepTypeOK
<1>6. StandingIsReached'
  <2>1. marks.standing \subseteq Facts
    BY MarksParts DEF UpkeepTypeOK
  <2> QED BY <1>1, <1>2, <2>1 DEF StandingIsReached, Ahead
<1>7. ToldIsKept'
  <2>1. marks.told \in [Facts -> Confidences \cup {0}]
    BY MarksParts DEF UpkeepTypeOK
  <2> QED BY <1>1, <1>2, <2>1 DEF ToldIsKept, Remembered
<1> QED BY <1>3, <1>4, <1>5, <1>6, <1>7

\* Rows go.
LEMMA DeleteKeeps ==
  ASSUME UpkeepInv, NEW S \in SUBSET Remembered, DeleteMemories(S)
  PROVE  IdsApart' /\ PageHeld' /\ PageIsTrue' /\ StandingIsReached' /\ ToldIsKept'
<1> USE DEF UpkeepInv
<1>1. rows' = [f \in Facts |-> IF f \in S THEN Nil ELSE rows[f]]
  BY DEF DeleteMemories, Delete
<1>2. S \subseteq Facts
  BY DEF Remembered
<1>3. /\ walk' = walk
      /\ marks'.standing = marks.standing \ S /\ marks'.revised = marks.revised \ S
      /\ marks'.disturbed = IF walk.page = {} THEN marks.disturbed ELSE marks.disturbed \cup S
      /\ \A f \in Facts \ S : marks'.told[f] = marks.told[f]
  <2>1. /\ Disturb(S) \in Marks
        /\ marks' = [Disturb(S) EXCEPT !.told = [f \in Facts |-> IF f \in S THEN 0 ELSE @[f]]]
    BY <1>2, DisturbMarks DEF DeleteMemories
  <2>2. /\ marks'.standing = Disturb(S).standing /\ marks'.revised = Disturb(S).revised
        /\ marks'.disturbed = Disturb(S).disturbed
        /\ marks'.told = [f \in Facts |-> IF f \in S THEN 0 ELSE Disturb(S).told[f]]
    BY <2>1 DEF Marks
  <2>3. walk' = walk
    BY DEF DeleteMemories, Called
  <2>4. \A f \in Facts \ S : marks'.told[f] = Disturb(S).told[f]
    BY <2>2
  <2>5. /\ Disturb(S).standing = marks.standing \ S /\ Disturb(S).revised = marks.revised \ S
        /\ Disturb(S).told = marks.told
        /\ Disturb(S).disturbed =
             IF walk.page = {} THEN marks.disturbed ELSE marks.disturbed \cup S
    BY <1>2, DisturbMarks
  <2> QED BY <2>2, <2>3, <2>4, <2>5
<1>4. IdsApart'
  BY <1>1 DEF IdsApart, Remembered
<1>5. PageHeld'
  BY <1>3 DEF PageHeld, Reading
<1>6. PageIsTrue'
  BY <1>1, <1>3, WalkParts DEF PageIsTrue, UpkeepTypeOK
<1>7. StandingIsReached'
  <2>1. marks.standing \subseteq Facts
    BY MarksParts DEF UpkeepTypeOK
  <2> QED BY <1>1, <1>3, <2>1 DEF StandingIsReached, Ahead
<1>8. ToldIsKept'
  BY <1>1, <1>3 DEF ToldIsKept, Remembered
<1> QED BY <1>4, <1>5, <1>6, <1>7, <1>8

\* Scores move, and nothing else of a row does.
LEMMA FeedbackKeeps ==
  ASSUME UpkeepInv, NEW delta \in {-1, 1}, AdjustFeedbackScore(delta)
  PROVE  IdsApart' /\ PageHeld' /\ PageIsTrue' /\ StandingIsReached' /\ ToldIsKept'
<1> USE DEF UpkeepInv
<1>1. PICK S \in SUBSET Remembered :
        rows' = [f \in Facts |->
          IF f \in S THEN [rows[f] EXCEPT !.score = Saturated(@ + delta)] ELSE rows[f]]
  BY DEF AdjustFeedbackScore
<1>2. \A f \in Facts : /\ rows'[f] = Nil <=> rows[f] = Nil
                       /\ rows[f] # Nil => /\ rows'[f].id = rows[f].id
                                           /\ rows'[f].confidence = rows[f].confidence
                                           /\ rows'[f].space = rows[f].space
  <2> TAKE f \in Facts
  <2>1. rows[f] # Nil => rows[f] \in Row
    BY DEF UpkeepTypeOK
  <2>2. CASE f \in S
    <3>1. rows[f] \in Row
      BY <2>1, <2>2 DEF Remembered
    <3>2. Saturated(rows[f].score + delta) \in -ScoreCap..ScoreCap
      <4>1. rows[f].score \in -ScoreCap..ScoreCap /\ ScoreCap \in Nat
        BY <3>1, RowParts, UpkeepNumbers
      <4> QED BY <4>1 DEF Saturated
    <3>3. rows'[f] = [rows[f] EXCEPT !.score = Saturated(rows[f].score + delta)]
      BY <1>1, <2>2
    <3> DEFINE score == Saturated(rows[f].score + delta)
    <3> HIDE DEF score
    <3>4. [rows[f] EXCEPT !.score = score] \in Row
      BY <3>1, <3>2, RowParts DEF score
    <3>5. /\ rows'[f].id = rows[f].id /\ rows'[f].confidence = rows[f].confidence
          /\ rows'[f].space = rows[f].space
      BY <3>1, <3>3 DEF Row, score
    <3> QED BY <3>1, <3>3, <3>4, <3>5, RowParts DEF score
  <2>3. CASE f \notin S
    BY <1>1, <2>3
  <2> QED BY <2>2, <2>3
<1>3. walk' = walk /\ marks' = marks
  BY DEF AdjustFeedbackScore, Called
<1>4. IdsApart'
  BY <1>2 DEF IdsApart, Remembered
<1>5. PageHeld'
  BY <1>3 DEF PageHeld, Reading
<1>6. PageIsTrue'
  BY <1>2, <1>3, WalkParts DEF PageIsTrue, UpkeepTypeOK
<1>7. StandingIsReached'
  <2>1. marks.standing \subseteq Facts
    BY MarksParts DEF UpkeepTypeOK
  <2> QED BY <1>2, <1>3, <2>1 DEF StandingIsReached, Ahead
<1>8. ToldIsKept'
  BY <1>2, <1>3 DEF ToldIsKept, Remembered
<1> QED BY <1>4, <1>5, <1>6, <1>7, <1>8

\* The walk's own steps.
LEMMA BeginWalkKeeps ==
  ASSUME UpkeepInv, BeginWalk
  PROVE  IdsApart' /\ PageHeld' /\ PageIsTrue' /\ StandingIsReached' /\ ToldIsKept'
<1> USE DEF UpkeepInv
<1>1. /\ rows' = rows /\ walk' = [NoWalk EXCEPT !.phase = "scanning"]
      /\ marks' = [marks EXCEPT !.standing = Remembered] /\ marks \in Marks
  BY DEF BeginWalk, UpkeepTypeOK
<1>2. /\ walk'.phase = "scanning" /\ walk'.page = {} /\ walk'.todo = {} /\ walk'.after = 0
  BY <1>1 DEF NoWalk
<1>3. /\ marks'.standing = Remembered /\ marks'.disturbed = marks.disturbed
      /\ marks'.revised = marks.revised /\ marks'.told = marks.told
  BY <1>1 DEF Marks
<1>4. \A f \in Remembered : rows[f].id > 0 /\ rows[f] # Nil
  <2>1. \A f \in Remembered : rows[f] \in Row /\ rows[f] # Nil
    BY DEF UpkeepTypeOK, Remembered
  <2>2. \A f \in Remembered : rows[f].id \in Ids
    BY <2>1, RowParts
  <2> QED BY <2>1, <2>2, IdsAreNumbers
<1>5. IdsApart' /\ ToldIsKept'
  BY <1>1, <1>3 DEF IdsApart, ToldIsKept, Remembered
<1>6. PageHeld' /\ PageIsTrue'
  BY <1>2 DEF PageHeld, Reading, PageIsTrue
<1>7. StandingIsReached'
  BY <1>1, <1>2, <1>3, <1>4 DEF StandingIsReached
<1> QED BY <1>5, <1>6, <1>7

\* A page is read: what stands was on the page, or is past the cursor still.
LEMMA ScanPageKeeps ==
  ASSUME UpkeepInv, ScanPage
  PROVE  IdsApart' /\ PageHeld' /\ PageIsTrue' /\ StandingIsReached' /\ ToldIsKept'
<1> USE DEF UpkeepInv
<1> DEFINE page == {[fact |-> f, id |-> rows[f].id, confidence |-> rows[f].confidence]
                      : f \in PageFacts}
<1>1. /\ rows' = rows /\ walk.phase = "scanning" /\ walk \in Walk /\ marks \in Marks
      /\ marks' = [marks EXCEPT !.disturbed = {}]
      /\ walk' = IF PageFacts = {} THEN Ended
                 ELSE [walk EXCEPT !.phase = "embedding", !.page = page]
  BY DEF ScanPage, UpkeepTypeOK
<1>2. /\ marks'.standing = marks.standing /\ marks'.revised = marks.revised
      /\ marks'.told = marks.told
  BY <1>1 DEF Marks
<1>3. IdsApart' /\ ToldIsKept'
  BY <1>1, <1>2 DEF IdsApart, ToldIsKept, Remembered
<1>4. walk.page = {} /\ walk.todo = {}
  BY <1>1 DEF PageHeld, Reading
<1>5. \A f \in marks.standing :
        f \in Facts /\ rows[f] # Nil /\ (rows[f].space = "new" \/ f \in PastCursor)
  <2>1. marks.standing \subseteq Facts
    BY <1>1, MarksParts
  <2> QED BY <1>1, <2>1 DEF StandingIsReached, PastCursor, Remembered
<1>6. CASE PageFacts = {}
  <2>1. walk'.phase = "done" /\ walk'.page = {} /\ walk'.todo = {}
    BY <1>1, <1>6 DEF Ended, NoWalk
  <2>2. PastCursor = {}
    BY <1>6, PageRead
  <2>3. StandingIsReached'
    BY <1>1, <1>2, <1>5, <2>2 DEF StandingIsReached
  <2> QED BY <1>3, <2>1, <2>3 DEF PageHeld, Reading, PageIsTrue
<1>7. CASE PageFacts # {}
  <2>1. walk'.phase = "embedding" /\ walk'.page = page /\ walk'.todo = {}
    BY <1>1, <1>4, <1>7 DEF Walk
  <2>2. page # {} /\ IsFiniteSet(page)
    BY <1>7, PageRead
  <2>3. \A m \in page : rows[m.fact] # Nil /\ rows[m.fact].id = m.id
                        /\ rows[m.fact].confidence = m.confidence
    <3>1. \A f \in PageFacts : rows[f] # Nil
      BY DEF PageFacts, PastCursor, Remembered
    <3> HIDE DEF PageFacts
    <3> QED BY <3>1
  <2>4. \A f \in PageFacts : \E m \in page : m.fact = f
    <3> TAKE f \in PageFacts
    <3> WITNESS [fact |-> f, id |-> rows[f].id, confidence |-> rows[f].confidence] \in page
    <3> QED OBVIOUS
  <2>5. \A f \in PastCursor \ PageFacts :
          Cardinality(page) >= Batch /\ \A m \in page : m.id < rows[f].id
    BY PageRead
  <2> HIDE DEF page
  <2>6. PageHeld' /\ PageIsTrue'
    BY <1>1, <2>1, <2>2, <2>3 DEF PageHeld, Reading, PageIsTrue
  <2>7. StandingIsReached'
    BY <1>1, <1>2, <1>5, <2>1, <2>4, <2>5 DEF StandingIsReached, Ahead
  <2> QED BY <1>3, <2>6, <2>7
<1> QED BY <1>6, <1>7

\* What could not be embedded leaves the page and what stands.
LEMMA EmbedPageKeeps ==
  ASSUME UpkeepInv, EmbedPage
  PROVE  IdsApart' /\ PageHeld' /\ PageIsTrue' /\ StandingIsReached' /\ ToldIsKept'
<1> USE DEF UpkeepInv
<1>1. PICK failed \in SUBSET walk.page :
        /\ walk' = [walk EXCEPT !.phase = "saving", !.todo = walk.page \ failed]
        /\ marks' = [marks EXCEPT !.standing = @ \ {m.fact : m \in failed}]
  BY DEF EmbedPage
<1>2. /\ rows' = rows /\ walk.phase = "embedding" /\ walk \in Walk /\ marks \in Marks
  BY DEF EmbedPage, UpkeepTypeOK
<1>3. walk'.phase = "saving" /\ walk'.page = walk.page /\ walk'.todo = walk.page \ failed
  BY <1>1, <1>2 DEF Walk
<1>4. /\ marks'.standing = marks.standing \ {m.fact : m \in failed}
      /\ marks'.revised = marks.revised /\ marks'.told = marks.told
      /\ marks'.disturbed = marks.disturbed
  BY <1>1, <1>2 DEF Marks
<1>5. IdsApart' /\ ToldIsKept'
  BY <1>2, <1>4 DEF IdsApart, ToldIsKept, Remembered
<1>6. PageHeld' /\ PageIsTrue'
  BY <1>2, <1>3, <1>4 DEF PageHeld, Reading, PageIsTrue
<1>7. StandingIsReached'
  <2> SUFFICES ASSUME NEW f \in marks.standing, \A m \in failed : m.fact # f,
                      rows[f] # Nil, rows[f].space # "new"
               PROVE  (\E m \in walk.page \ failed : m.fact = f) \/ Ahead(f)
    BY <1>2, <1>3, <1>4 DEF StandingIsReached, Ahead
  <2> QED BY <1>2 DEF StandingIsReached
<1> QED BY <1>5, <1>6, <1>7

\* What saving a row of the page does to rows and marks: a fact that nobody has disturbed
\* since the page was read gets its vector, and nothing else of it changes.
LEMMA SaveNextSaves ==
  ASSUME UpkeepInv, NEW m \in walk.todo, Upsert(m.fact, m.confidence, "new", "")
  PROVE  /\ m.fact \in Facts
         /\ rows' \in [Facts -> Row \cup {Nil}]
         /\ \A g \in Facts \ {m.fact} : rows'[g] = rows[g]
         /\ rows'[m.fact] \in Row /\ rows'[m.fact].space = "new"
         /\ rows[m.fact] # Nil => rows'[m.fact].id = rows[m.fact].id
         /\ rows[m.fact] = Nil => rows'[m.fact].id \notin UsedIds
         /\ m.fact \notin marks.disturbed =>
              /\ rows[m.fact] # Nil /\ rows[m.fact].confidence = m.confidence
              /\ rows'[m.fact] = [rows[m.fact] EXCEPT !.space = "new"]
              /\ rows'[m.fact].confidence = rows[m.fact].confidence
<1> USE DEF UpkeepInv
<1>1. m.fact \in Facts /\ m.confidence \in Confidences /\ m \in walk.page
  BY WalkParts DEF UpkeepTypeOK, PageHeld
<1>2. /\ rows' \in [Facts -> Row \cup {Nil}]
      /\ \A g \in Facts \ {m.fact} : rows'[g] = rows[g]
      /\ rows'[m.fact] \in Row /\ rows'[m.fact].confidence = m.confidence
      /\ rows'[m.fact].space = "new"
      /\ rows[m.fact] # Nil =>
           rows'[m.fact] = [rows[m.fact] EXCEPT !.confidence = m.confidence, !.space = "new"]
      /\ rows[m.fact] # Nil => rows'[m.fact].id = rows[m.fact].id
      /\ rows[m.fact] = Nil => rows'[m.fact].id \notin UsedIds
  BY <1>1, Upserted DEF Spaces
<1>3. ASSUME m.fact \notin marks.disturbed
      PROVE  /\ rows[m.fact] # Nil /\ rows[m.fact].confidence = m.confidence
             /\ rows'[m.fact] = [rows[m.fact] EXCEPT !.space = "new"]
  <2>1. rows[m.fact] # Nil /\ rows[m.fact].confidence = m.confidence
    BY <1>1, <1>3 DEF PageIsTrue
  <2>2. rows[m.fact] \in Row
    BY <1>1, <2>1 DEF UpkeepTypeOK
  <2>3. [rows[m.fact] EXCEPT !.confidence = m.confidence, !.space = "new"]
          = [rows[m.fact] EXCEPT !.space = "new"]
    <3>1. rows[m.fact] = [rows[m.fact] EXCEPT !.confidence = m.confidence]
      BY <2>1, <2>2 DEF Row
    <3> QED BY <2>1, <2>2, <3>1 DEF Row
  <2> QED BY <1>2, <2>1, <2>3
<1> QED BY <1>1, <1>2, <1>3

\* One row of the page is saved, over whatever was told of it since.
LEMMA SaveNextKeeps ==
  ASSUME UpkeepInv, SaveNext
  PROVE  IdsApart' /\ PageHeld' /\ PageIsTrue' /\ StandingIsReached' /\ ToldIsKept'
<1> USE DEF UpkeepInv
<1>1. PICK m \in walk.todo :
        /\ Upsert(m.fact, m.confidence, "new", "")
        /\ walk' = [walk EXCEPT !.todo = @ \ {m}]
        /\ marks' = [marks EXCEPT !.revised =
                      IF m.fact \in marks.disturbed THEN @ \cup {m.fact} ELSE @]
  BY DEF SaveNext
<1>2. /\ m.fact \in Facts
      /\ rows' \in [Facts -> Row \cup {Nil}]
      /\ \A g \in Facts \ {m.fact} : rows'[g] = rows[g]
      /\ rows'[m.fact] \in Row /\ rows'[m.fact].space = "new"
      /\ rows[m.fact] # Nil => rows'[m.fact].id = rows[m.fact].id
      /\ rows[m.fact] = Nil => rows'[m.fact].id \notin UsedIds
      /\ m.fact \notin marks.disturbed =>
           rows[m.fact] # Nil /\ rows'[m.fact].confidence = rows[m.fact].confidence
  BY <1>1, SaveNextSaves
<1>3. walk.phase = "saving" /\ walk \in Walk /\ marks \in Marks /\ Nil \notin Row
  BY RowParts DEF SaveNext, UpkeepTypeOK
<1>4. walk'.phase = "saving" /\ walk'.page = walk.page /\ walk'.todo = walk.todo \ {m}
  BY <1>1, <1>3 DEF Walk
<1>5. /\ marks'.standing = marks.standing /\ marks'.told = marks.told
      /\ marks'.disturbed = marks.disturbed
      /\ marks'.revised = IF m.fact \in marks.disturbed THEN marks.revised \cup {m.fact}
                          ELSE marks.revised
  BY <1>1, <1>3 DEF Marks
<1>6. IdsApart'
  <2> SUFFICES ASSUME NEW g \in Remembered', NEW h \in Remembered',
                      rows'[g].id = rows'[h].id, g # h
               PROVE  FALSE
    BY DEF IdsApart
  <2>1. g \in Facts /\ h \in Facts /\ rows'[g] # Nil /\ rows'[h] # Nil
    BY DEF Remembered
  <2>2. CASE g # m.fact /\ h # m.fact
    BY <1>2, <2>1, <2>2 DEF IdsApart, Remembered
  <2>3. ASSUME NEW k \in Facts \ {m.fact}, rows[k] # Nil, rows[k].id = rows'[m.fact].id
        PROVE  FALSE
    <3>1. k \in Remembered /\ rows[k].id \in UsedIds
      BY <2>3 DEF Remembered, UsedIds
    <3>2. rows[m.fact] # Nil /\ rows[m.fact].id = rows[k].id
      BY <1>2, <2>3, <3>1
    <3> QED BY <1>2, <2>3, <3>1, <3>2 DEF IdsApart, Remembered
  <2> QED BY <1>2, <2>1, <2>2, <2>3
<1>7. PageHeld'
  BY <1>3, <1>4 DEF PageHeld, Reading
<1>8. PageIsTrue'
  <2> SUFFICES ASSUME NEW p \in walk.page, p.fact \notin marks.disturbed
               PROVE  rows'[p.fact] # Nil /\ rows'[p.fact].id = p.id
                      /\ rows'[p.fact].confidence = p.confidence
    BY <1>4, <1>5 DEF PageIsTrue
  <2>1. /\ p.fact \in Facts /\ rows[p.fact] # Nil /\ rows[p.fact].id = p.id
        /\ rows[p.fact].confidence = p.confidence
    BY <1>3, WalkParts DEF PageIsTrue
  <2> QED BY <1>2, <1>3, <2>1
<1>9. StandingIsReached'
  <2> SUFFICES ASSUME NEW f \in marks.standing
               PROVE  /\ rows'[f] # Nil
                      /\ \/ rows'[f].space = "new"
                         \/ (\E p \in walk.todo \ {m} : p.fact = f) \/ Ahead(f)'
    BY <1>4, <1>5 DEF StandingIsReached
  <2>1. /\ f \in Facts /\ rows[f] # Nil
        /\ rows[f].space = "new" \/ (\E p \in walk.todo : p.fact = f) \/ Ahead(f)
    BY <1>3, MarksParts DEF StandingIsReached
  <2>2. CASE f = m.fact
    BY <1>2, <1>3, <2>2
  <2>3. CASE f # m.fact
    <3>1. rows'[f] = rows[f]
      BY <1>2, <2>1, <2>3
    <3> QED BY <1>4, <2>1, <2>3, <3>1 DEF Ahead
  <2> QED BY <2>2, <2>3
<1>10. ToldIsKept'
  BY <1>2, <1>5 DEF ToldIsKept, Remembered
<1> QED BY <1>6, <1>7, <1>8, <1>9, <1>10

\* The cursor moves to the last id of the page.
LEMMA NextPageKeeps ==
  ASSUME UpkeepInv, NextPage
  PROVE  IdsApart' /\ PageHeld' /\ PageIsTrue' /\ StandingIsReached' /\ ToldIsKept'
<1> USE DEF UpkeepInv
<1> DEFINE last == CHOOSE i \in Ids : \E m \in walk.page :
                     m.id = i /\ \A other \in walk.page : other.id <= i
<1>1. /\ rows' = rows /\ marks' = marks /\ walk.phase = "saving" /\ walk.todo = {}
      /\ walk \in Walk /\ marks \in Marks
      /\ walk' = IF Cardinality(walk.page) < Batch THEN Ended
                 ELSE [walk EXCEPT !.phase = "scanning", !.page = {}, !.after = last]
  BY DEF NextPage, UpkeepTypeOK
<1>2. \E m \in walk.page : m.id = last
  BY <1>1, LastOfPage DEF Reading
<1> HIDE DEF last
<1>5. /\ walk'.page = {} /\ walk'.todo = {}
      /\ IF Cardinality(walk.page) < Batch THEN walk'.phase = "done"
         ELSE walk'.phase = "scanning" /\ walk'.after = last
  BY <1>1 DEF Ended, NoWalk, Walk
<1>6. IdsApart' /\ ToldIsKept'
  BY <1>1 DEF IdsApart, ToldIsKept, Remembered
<1>7. PageHeld' /\ PageIsTrue'
  BY <1>5 DEF PageHeld, Reading, PageIsTrue
<1>8. StandingIsReached'
  <2> SUFFICES ASSUME NEW f \in marks.standing
               PROVE  /\ rows[f] # Nil
                      /\ \/ rows[f].space = "new"
                         \/ walk'.phase = "scanning" /\ rows[f].id > walk'.after
    BY <1>1 DEF StandingIsReached
  <2>1. rows[f] # Nil /\ (rows[f].space = "new" \/ Ahead(f)) /\ rows[f].id \in Nat
    <3>1. f \in Facts /\ rows[f] # Nil /\ (rows[f].space = "new" \/ Ahead(f))
      BY <1>1, MarksParts DEF StandingIsReached
    <3>2. rows[f] \in Row
      BY <3>1 DEF UpkeepTypeOK
    <3> QED BY <3>1, <3>2, RowParts
  <2>2. CASE rows[f].space = "new"
    BY <2>1, <2>2
  <2>3. CASE Ahead(f)
    <3>1. Cardinality(walk.page) >= Batch /\ last < rows[f].id
      BY <1>2, <2>3 DEF Ahead
    <3>2. IsFiniteSet(walk.page) /\ last \in Nat
      BY <1>1, <1>2, WalkParts DEF PageHeld, Reading
    <3>3. Cardinality(walk.page) \in Nat /\ Batch \in Nat
      BY <3>2, FS_CardinalityType, UpkeepNumbers
    <3>4. walk'.phase = "scanning" /\ walk'.after = last
      BY <1>5, <3>1, <3>3
    <3> QED BY <2>1, <3>1, <3>2, <3>4
  <2> QED BY <2>1, <2>2, <2>3
<1> QED BY <1>6, <1>7, <1>8

\* The walk ends.
LEMMA StopWalkKeeps ==
  ASSUME UpkeepInv, StopWalk
  PROVE  IdsApart' /\ PageHeld' /\ PageIsTrue' /\ StandingIsReached' /\ ToldIsKept'
<1>1. /\ rows' = rows /\ walk' = NoWalk /\ marks \in Marks
      /\ marks' = [marks EXCEPT !.standing = {}, !.disturbed = {}]
  BY DEF StopWalk, UpkeepInv, UpkeepTypeOK
<1>2. /\ walk'.phase = "idle" /\ walk'.page = {} /\ walk'.todo = {}
      /\ marks'.standing = {} /\ marks'.revised = marks.revised /\ marks'.told = marks.told
  BY <1>1 DEF NoWalk, Marks
<1> QED BY <1>1, <1>2 DEF UpkeepInv, IdsApart, PageHeld, Reading, PageIsTrue,
           StandingIsReached, ToldIsKept, Remembered

\* The invariant of the upkeep, and its steps.
LEMMA UpkeepInvInit == UpkeepInit => UpkeepInv
<1> SUFFICES ASSUME UpkeepInit PROVE UpkeepInv
  OBVIOUS
<1>1. UpkeepTypeOK
  BY UpkeepTypeInit
<1>2. /\ walk.phase = "idle" /\ walk.page = {} /\ walk.todo = {}
      /\ marks.standing = {}
      /\ marks.told = [f \in Facts |-> IF rows[f] = Nil THEN 0 ELSE rows[f].confidence]
  BY DEF UpkeepInit, NoWalk
<1>3. \A f \in Remembered : rows[f].confidence = marks.told[f]
  BY <1>2 DEF Remembered
<1> QED BY <1>1, <1>2, <1>3 DEF UpkeepInit, UpkeepInv, IdsApart, PageHeld, Reading, PageIsTrue,
           StandingIsReached, ToldIsKept

LEMMA UpkeepInvStep == UpkeepInv /\ [UpkeepNext]_upkeepVars => UpkeepInv'
<1> SUFFICES ASSUME UpkeepInv, [UpkeepNext]_upkeepVars
             PROVE  UpkeepInv'
  OBVIOUS
<1>1. CASE UNCHANGED upkeepVars
  BY <1>1 DEF upkeepVars, UpkeepInv, UpkeepTypeOK, IdsApart, PageHeld, Reading, PageIsTrue,
     StandingIsReached, Ahead, ToldIsKept, Remembered
<1>2. CASE UpkeepNext
  <2>1. UpkeepTypeOK'
    BY <1>2, UpkeepTypeStep DEF UpkeepInv
  <2>2. CASE WalkNext
    BY <2>1, <2>2, BeginWalkKeeps, ScanPageKeeps, EmbedPageKeeps, SaveNextKeeps, NextPageKeeps
       DEF WalkNext, UpkeepInv
  <2>3. CASE OtherNext
    <3>1. ASSUME NEW f \in Facts, NEW confidence \in Confidences, NEW space \in Spaces,
                 NEW heard \in Personas, SaveMemory(f, confidence, space, heard)
          PROVE  UpkeepInv'
      BY <2>1, <3>1, SaveMemoryKeeps DEF UpkeepInv
    <3>2. ASSUME NEW delta \in {-1, 1}, AdjustFeedbackScore(delta)
          PROVE  UpkeepInv'
      BY <2>1, <3>2, FeedbackKeeps DEF UpkeepInv
    <3>3. ASSUME NEW S \in SUBSET Remembered, DeleteMemories(S)
          PROVE  UpkeepInv'
      BY <2>1, <3>3, DeleteKeeps DEF UpkeepInv
    <3>4. CASE PruneMemories
      BY <3>3, <3>4 DEF PruneMemories
    <3>5. CASE StopWalk
      BY <2>1, <3>5, StopWalkKeeps DEF UpkeepInv
    <3> QED BY <2>3, <3>1, <3>2, <3>3, <3>4, <3>5 DEF OtherNext
  <2> QED BY <1>2, <2>2, <2>3 DEF UpkeepNext
<1> QED BY <1>1, <1>2

\* The page a walk holds, its cursor, and what stood when it began agree with the table in
\* every state (reembed_memories).
THEOREM UpkeepInvariant == UpkeepSpec => []UpkeepInv
BY UpkeepInvInit, UpkeepInvStep, PTL DEF UpkeepSpec

-----------------------------------------------------------------------------
(* What follows *)

\* Rows, the walk and what is kept for the properties have their types.
THEOREM UpkeepTypeCorrect == UpkeepSpec => []UpkeepTypeOK
<1>1. UpkeepInv => UpkeepTypeOK
  BY DEF UpkeepInv
<1> QED BY <1>1, UpkeepInvariant, PTL

\* A walk that ends (reembed_memories) has moved every row that stood all through it,
\* whatever was inserted, removed, pruned or told between its pages and steps.
THEOREM WalksMoveWhatStands == UpkeepSpec => []WalkMovesWhatStands
<1>1. UpkeepInv => WalkMovesWhatStands
  BY DEF UpkeepInv, StandingIsReached, WalkMovesWhatStands
<1> QED BY <1>1, UpkeepInvariant, PTL

\* Re-embedding touches nothing of an undisturbed row but its vector.
THEOREM ReembeddingMovesVectors == UpkeepSpec => ReembeddingMovesVectorsOnly
<1> DEFINE Step == \A f \in Facts \ marks.disturbed :
              walk' # walk =>
                \/ rows'[f] = rows[f]
                \/ rows[f] # Nil /\ rows'[f] = [rows[f] EXCEPT !.space = "new"]
<1>1. UpkeepInv /\ [UpkeepNext]_upkeepVars => [Step]_upkeepVars
  <2> SUFFICES ASSUME UpkeepInv, UpkeepNext, walk' # walk, rows' # rows
               PROVE  Step
    BY DEF upkeepVars
  <2>1. SaveNext
    BY DEF UpkeepNext, WalkNext, OtherNext, BeginWalk, ScanPage, EmbedPage, NextPage, StopWalk,
       SaveMemory, AdjustFeedbackScore, DeleteMemories, PruneMemories, Called
  <2>2. PICK m \in walk.todo : Upsert(m.fact, m.confidence, "new", "")
    BY <2>1 DEF SaveNext
  <2> QED BY <2>2, SaveNextSaves
<1> QED BY <1>1, UpkeepInvariant, PTL DEF UpkeepSpec, ReembeddingMovesVectorsOnly

\* Retention (prune_memories) spares what was last told with more confidence than its ceiling,
\* but for a fact that the walk has put back to an older confidence: one told while its page
\* waited for the model (maintenance.py, reembed_memories), which retention does take
\* (ConfirmedIsKept, under MCPartsLimits.cfg).
THEOREM RetentionSpares == UpkeepSpec => RetentionSparesTheConfirmed
<1> DEFINE Step == PruneMemories => \A f \in Facts :
              (rows'[f] # rows[f] /\ f \notin marks.revised) => marks.told[f] <= Ceiling
<1>1. UpkeepInv /\ [UpkeepNext]_upkeepVars => [Step]_upkeepVars
  <2> SUFFICES ASSUME UpkeepInv, PruneMemories, NEW f \in Facts, rows'[f] # rows[f],
                      f \notin marks.revised
               PROVE  marks.told[f] <= Ceiling
    BY DEF upkeepVars
  <2>1. rows' = [g \in Facts |->
           IF g \in {h \in Remembered : rows[h].aged /\ rows[h].confidence <= Ceiling}
           THEN Nil ELSE rows[g]]
    BY DEF PruneMemories, DeleteMemories, Delete
  <2>2. f \in Remembered /\ rows[f].confidence <= Ceiling
    BY <2>1
  <2> QED BY <2>2 DEF UpkeepInv, ToldIsKept
<1> QED BY <1>1, UpkeepInvariant, PTL DEF UpkeepSpec, RetentionSparesTheConfirmed

-----------------------------------------------------------------------------
(***************************************************************************)
(* Lexical                                                                 *)
(* Whatever the walks bring, in whatever order, becomes one candidate to   *)
(* an edge (BuiltInv), as long as there is room and a source, a relation   *)
(* and a target are one edge's.                                            *)
(***************************************************************************)
\* What a maximum is of.
LEMMA MaxOf ==
  ASSUME NEW S, S \subseteq Nat, S # {}, IsFiniteSet(S)
  PROVE  Max(S) \in S /\ \A x \in S : x <= Max(S)
<1>1. \E x \in S : \A y \in S : x >= y
  <2>1. PICK x \in S : \A y \in S : y <= x
    BY GreatestOf
  <2> QED BY <2>1
<1> QED BY <1>1 DEF Max

LEMMA ShareIsNat ==
  ASSUME NEW a \in Nat, NEW b \in Nat, b # 0
  PROVE  a \div b \in Nat
OBVIOUS

\* A question that may be asked is finite, and so are its variants.
Askable(asked) == IsFiniteSet(asked) /\ \A v \in asked : IsFiniteSet(v)

LEMMA QuestionsAreAskable == \A q \in Questions : Askable(q.asked)
BY LexicalAssumption DEF Askable

LEMMA RelevanceIsNat ==
  ASSUME NEW asked, Askable(asked), NEW words
  PROVE  Relevance(asked, words) \in Nat
<1> DEFINE T == {u \in asked : Terms(u) # {}}
<1> DEFINE share(v) == (Scale * Cardinality(Terms(v) \cap words)) \div Cardinality(Terms(v))
<1> DEFINE f == [v \in T |-> share(v)]
<1> DEFINE S == {share(v) : v \in T}
<1>1. ASSUME NEW v \in T PROVE share(v) \in Nat
  <2>1. IsFiniteSet(Terms(v))
    BY FS_Subset DEF Terms, Askable
  <2>2. IsFiniteSet(Terms(v) \cap words)
    BY <2>1, FS_Subset
  <2>3. Cardinality(Terms(v)) \in Nat /\ Cardinality(Terms(v)) # 0
    BY <2>1, FS_CardinalityType, FS_EmptySet
  <2>4. Scale * Cardinality(Terms(v) \cap words) \in Nat
    BY <2>2, FS_CardinalityType, LexicalAssumption
  <2> QED BY <2>3, <2>4, ShareIsNat
<1>2. IsFiniteSet(T)
  BY FS_Subset DEF Askable
<1> HIDE DEF share, T
<1>3. f \in [T -> S] /\ \A t \in S : \E v \in T : f[v] = t
  OBVIOUS
<1>4. IsFiniteSet(S)
  <2> HIDE DEF f, S
  <2> QED BY <1>2, <1>3, AsManyImages
<1>5. S \subseteq Nat
  BY <1>1
<1> HIDE DEF S
<1>6. IsFiniteSet({0} \cup S)
  BY <1>4, FS_Union, FS_Singleton
<1>7. {0} \cup S \subseteq Nat /\ {0} \cup S # {}
  BY <1>5
<1>8. Max({0} \cup S) \in {0} \cup S
  BY <1>6, <1>7, MaxOf
<1>9. Relevance(asked, words) = Max({0} \cup S)
  BY DEF Relevance, S, T, share
<1> QED BY <1>7, <1>8, <1>9

\* No candidate scores below its own relevance.
LEMMA ScoreBounds ==
  ASSUME NEW asked, Askable(asked), NEW C, IsFiniteSet(C), NEW c
  PROVE  Score(asked, c, C) \in Nat /\ Relevance(asked, c.words) <= Score(asked, c, C)
<1> DEFINE into == {b \in C : /\ b.source = "graph" /\ b.tail # <<>>
                              /\ b.tail = c.head /\ Relevance(asked, b.words) > 0}
<1> DEFINE own == Relevance(asked, c.words)
<1> DEFINE half(b) == Relevance(asked, b.words) \div 2
<1> DEFINE f == [b \in into |-> half(b)]
<1> DEFINE S == {half(b) : b \in into}
<1> DEFINE T == IF c.source = "graph" THEN S ELSE {}
<1>1. IsFiniteSet(into)
  BY FS_Subset
<1>2. ASSUME NEW b \in into PROVE half(b) \in Nat
  BY RelevanceIsNat, ShareIsNat
<1>3. own \in Nat
  BY RelevanceIsNat
<1>4. Score(asked, c, C) = Max({own} \cup T)
  BY DEF Score
<1> HIDE DEF into, half, own
<1>5. f \in [into -> S] /\ \A t \in S : \E b \in into : f[b] = t
  OBVIOUS
<1>6. IsFiniteSet(S)
  <2> HIDE DEF f, S
  <2> QED BY <1>1, <1>5, AsManyImages
<1>7. S \subseteq Nat
  BY <1>2
<1> HIDE DEF S
<1>8. T \subseteq Nat /\ IsFiniteSet(T)
  BY <1>6, <1>7, FS_EmptySet
<1> HIDE DEF T
<1>9. IsFiniteSet({own} \cup T)
  BY <1>8, FS_Union, FS_Singleton
<1>10. /\ Max({own} \cup T) \in {own} \cup T
       /\ \A x \in {own} \cup T : x <= Max({own} \cup T)
  BY <1>3, <1>8, <1>9, MaxOf
<1> QED BY <1>3, <1>4, <1>8, <1>10 DEF own

\* A ranking is as long as what it ranks.
LEMMA RankIsLong ==
  ASSUME NEW asked, NEW C, NEW some, IsFiniteSet(some)
  PROVE  /\ Len(Rank(asked, some, C)) = Cardinality(some)
         /\ \E X : Rank(asked, some, C) \in Seq(X)
<1>1. Cardinality(some) \in Nat
  BY FS_CardinalityType
<1>2. PICK s : s = Rank(asked, some, C)
  OBVIOUS
<1> DEFINE score == [c \in C |-> Score(asked, c, C)]
<1> DEFINE Better(a, b) == \/ score[a] > score[b]
                           \/ score[a] = score[b] /\ Place(a.source) < Place(b.source)
                           \/ score[a] = score[b] /\ a.source = b.source /\ a.prior < b.prior
                           \/ /\ score[a] = score[b] /\ a.source = b.source
                              /\ a.prior = b.prior /\ a.id < b.id
<1> DEFINE nth(i) == CHOOSE c \in some : Cardinality({b \in some : Better(b, c)}) = i - 1
<1>3. s = [i \in 1..Cardinality(some) |-> nth(i)]
  BY <1>2 DEF Rank
<1> HIDE DEF nth
<1> DEFINE X == {nth(i) : i \in 1..Cardinality(some)}
<1>4. s \in [1..Cardinality(some) -> X]
  BY <1>3
<1> HIDE DEF X
<1>5. s \in Seq(X) /\ Len(s) = Cardinality(some)
  BY <1>1, <1>4
<1> QED BY <1>2, <1>5

LEMMA TopOfSome ==
  ASSUME NEW X, NEW s \in Seq(X), Len(s) > 0
  PROVE  Top(s) # <<>>
<1>1. Len(s) \in Nat /\ \A i \in 1..Len(s) : s[i] \in X
  BY LenProperties
<1>2. TopK \in Nat /\ TopK # 0
  BY LexicalAssumption
<1>3. PICK n : n = Min({TopK, Len(s)})
  OBVIOUS
<1>4. n \in {TopK, Len(s)} /\ n <= Len(s)
  <2>1. \E x \in {TopK, Len(s)} : \A y \in {TopK, Len(s)} : x =< y
    <3>1. CASE TopK <= Len(s)
      BY <1>1, <1>2, <3>1
    <3>2. CASE ~(TopK <= Len(s))
      <4>1. Len(s) <= TopK
        BY <1>1, <1>2, <3>2
      <4> QED BY <1>1, <4>1
    <3> QED BY <3>1, <3>2
  <2> QED BY <1>3, <2>1 DEF Min
<1>5. n \in Nat /\ 1 <= n
  BY <1>1, <1>2, <1>4
<1>6. \A i \in 1..n : s[i] \in X
  BY <1>1, <1>4, <1>5
<1>7. Len(SubSeq(s, 1, n)) = n
  BY <1>5, <1>6, SubSeqProperties
<1>8. SubSeq(s, 1, n) # <<>>
  BY <1>5, <1>7
<1> QED BY <1>3, <1>8 DEF Top

\* Nothing is chosen when nothing reaches the floor, and only then.
LEMMA NothingPasses ==
  ASSUME NEW asked, Askable(asked), NEW C, IsFiniteSet(C), Chosen(asked, C) = <<>>
  PROVE  \A c \in C : LET r == Relevance(asked, c.words) IN r < Floor \/ r = 0
<1>1. IsFiniteSet(Passing(asked, C))
  BY FS_Subset DEF Passing
<1>2. Passing(asked, C) = {}
  <2> SUFFICES ASSUME Passing(asked, C) # {} PROVE FALSE
    OBVIOUS
  <2>1. Cardinality(Passing(asked, C)) \in Nat /\ Cardinality(Passing(asked, C)) # 0
    BY <1>1, FS_CardinalityType, FS_EmptySet
  <2>2. PICK X : Rank(asked, Passing(asked, C), C) \in Seq(X)
    BY <1>1, RankIsLong
  <2>3. Len(Rank(asked, Passing(asked, C), C)) > 0
    BY <1>1, <2>1, RankIsLong
  <2> QED BY <2>2, <2>3, TopOfSome DEF Chosen
<1>3. ASSUME NEW c \in C
      PROVE  Relevance(asked, c.words) < Floor \/ Relevance(asked, c.words) = 0
  <2>1. /\ Score(asked, c, C) \in Nat /\ Relevance(asked, c.words) \in Nat
        /\ Relevance(asked, c.words) <= Score(asked, c, C)
    BY ScoreBounds, RelevanceIsNat
  <2>2. ~(Score(asked, c, C) >= Floor /\ Score(asked, c, C) > 0)
    BY <1>2 DEF Passing
  <2>3. Floor \in Nat
    BY LexicalAssumption
  <2> QED BY <2>1, <2>2, <2>3
<1> QED BY <1>3

\* Nor is anything told of a name when no candidate is about it.
LEMMA NothingAbout ==
  ASSUME NEW q, NEW C, IsFiniteSet(C), Partial(q, C) = <<>>
  PROVE  \A c \in C : ~About(c, q.anchors)
<1> DEFINE direct == {c \in C : About(c, q.anchors)}
<1> DEFINE tails == {c.tail : c \in direct} \ {<<>>}
<1> DEFINE hop == {c \in C \ direct : c.source = "graph" /\ c.head \in tails}
<1> SUFFICES ASSUME direct # {} PROVE FALSE
  OBVIOUS
<1>1. Partial(q, C) = Top(Rank(q.asked, direct, C) \o Rank(q.asked, hop, C))
  BY DEF Partial
<1>2. IsFiniteSet(direct) /\ IsFiniteSet(hop)
  <2>1. direct \in SUBSET C /\ hop \in SUBSET C
    OBVIOUS
  <2> HIDE DEF direct, hop
  <2> QED BY <2>1, FS_Subset
<1> HIDE DEF direct, tails, hop
<1>3. Cardinality(direct) \in Nat /\ Cardinality(direct) # 0 /\ Cardinality(hop) \in Nat
  BY <1>2, FS_CardinalityType, FS_EmptySet
<1>4. PICK s, t : s = Rank(q.asked, direct, C) /\ t = Rank(q.asked, hop, C)
  OBVIOUS
<1>5. PICK X, Y : s \in Seq(X) /\ t \in Seq(Y)
  BY <1>2, <1>4, RankIsLong
<1>6. Len(s) = Cardinality(direct) /\ Len(t) = Cardinality(hop)
  BY <1>2, <1>4, RankIsLong
<1>7. s \in Seq(X \cup Y) /\ t \in Seq(X \cup Y)
  BY <1>5
<1>8. s \o t \in Seq(X \cup Y) /\ Len(s \o t) = Len(s) + Len(t)
  BY <1>7, ConcatProperties
<1>9. Len(s \o t) > 0
  BY <1>3, <1>6, <1>8
<1> QED BY <1>1, <1>4, <1>8, <1>9, TopOfSome

Entry(e) == [key |-> e.key, candidate |-> Candidate(e, 0)]
Entries  == {Entry(e) : e \in Edges}

\* One candidate to a key, and one to the key of every edge that a walk is done with.
BuiltInv ==
  /\ built \in Seq(Entries)
  /\ \A i, j \in 1..Len(built) : built[i].key = built[j].key => i = j
  /\ walks \in [Edges -> 0..2]
  /\ \A e \in Edges : walks[e] = 0 => \E i \in 1..Len(built) : built[i].key = e.key
  /\ sources["graph"] = "answered" => \A e \in Edges : walks[e] = 0

\* An answer is decided when nothing changes any more.
LexicalInv ==
  /\ question \in Questions
  /\ BuiltInv
  /\ answer # NoAnswer =>
       /\ \A s \in DOMAIN sources : sources[s] # "asked"
       /\ answer = Decide(question, Candidates, Broken)
  /\ DOMAIN sources = {"graph", "memory"}

\* Every edge finds a place.
Roomy == Cardinality(Edges) <= MaxCandidates

LEMMA EdgesHaveRoom ==
  ASSUME Roomy, BuiltInv, NEW e \in Edges,
         \A i \in 1..Len(built) : built[i].key # e.key
  PROVE  Len(built) < MaxCandidates
<1> DEFINE I == 1..Len(built)
<1> DEFINE rest == Edges \ {e}
<1>1. Len(built) \in Nat /\ \A i \in I : built[i] \in Entries
  BY LenProperties DEF BuiltInv
<1>2. \A i \in I : \E x \in Edges : built[i] = Entry(x)
  BY <1>1 DEF Entries
<1>3. PICK g : g = [i \in I |-> CHOOSE x \in Edges : built[i] = Entry(x)]
  OBVIOUS
<1>4. \A i \in I : g[i] \in Edges /\ built[i] = Entry(g[i])
  BY <1>2, <1>3
<1>5. ASSUME NEW i \in I
      PROVE  built[i].key = g[i].key
  <2>1. PICK x : x = g[i]
    OBVIOUS
  <2>2. Entry(x).key = x.key
    BY DEF Entry
  <2> QED BY <1>4, <2>1, <2>2
<1>6. g \in [I -> rest] /\ \A i, j \in I : g[i] = g[j] => i = j
  <2>1. g = [i \in I |-> g[i]]
    BY <1>3
  <2>2. \A i \in I : g[i] \in rest
    BY <1>4, <1>5
  <2>3. \A i, j \in I : g[i] = g[j] => i = j
    BY <1>5 DEF BuiltInv
  <2> HIDE DEF I, rest
  <2> QED BY <2>1, <2>2, <2>3
<1>7. IsFiniteSet(rest) /\ Cardinality(rest) = Cardinality(Edges) - 1
  BY FS_RemoveElement, LexicalAssumption
<1> HIDE DEF rest
<1>10. Cardinality(I) <= Cardinality(rest)
  <2> HIDE DEF I
  <2> QED BY <1>6, <1>7, SmallAsItsImage
<1>11. Cardinality(I) = Len(built)
  <2>1. PICK n \in Nat : n = Len(built)
    BY <1>1
  <2>2. Cardinality(1..n) = IF 1 > n THEN 0 ELSE n - 1 + 1
    BY FS_Interval
  <2> QED BY <2>1, <2>2
<1>12. Cardinality(Edges) \in Nat /\ MaxCandidates \in Nat
  BY FS_CardinalityType, LexicalAssumption
<1> QED BY <1>1, <1>7, <1>10, <1>11, <1>12 DEF Roomy

\* A walk that meets an edge leaves one candidate to its key.
LEMMA BuildKeeps ==
  ASSUME Roomy, BuiltInv, NEW e \in Edges, built' = Build(built, e)
  PROVE  /\ built' \in Seq(Entries)
         /\ \A i, j \in 1..Len(built)' : built'[i].key = built'[j].key => i = j
         /\ \A x \in Edges :
              x = e \/ (\E i \in 1..Len(built) : built[i].key = x.key) =>
                \E i \in 1..Len(built)' : built'[i].key = x.key
<1>1. /\ built \in Seq(Entries) /\ Len(built) \in Nat /\ DOMAIN built = 1..Len(built)
      /\ \A i, j \in 1..Len(built) : built[i].key = built[j].key => i = j
  BY LenProperties DEF BuiltInv
<1>2. CASE \E i \in 1..Len(built) : built[i].key = e.key
  <2>1. built' = built
    BY <1>1, <1>2 DEF Build
  <2> QED BY <1>1, <1>2, <2>1
<1>3. CASE \A i \in 1..Len(built) : built[i].key # e.key
  <2>1. Len(built) < MaxCandidates /\ MaxCandidates \in Nat
    BY <1>3, EdgesHaveRoom, LexicalAssumption
  <2>2. Candidate(e, Len(built)) = Candidate(e, 0)
    BY DEF Candidate
  <2>3. built' = Append(built, Entry(e))
    BY <1>1, <1>3, <2>1, <2>2 DEF Build, Entry
  <2>4. Entry(e) \in Entries /\ Entry(e).key = e.key
    BY DEF Entries, Entry
  <2>5. PICK n \in Nat : n = Len(built)
    BY <1>1
  <2>6. /\ built' \in Seq(Entries) /\ Len(built)' = n + 1
        /\ \A i \in 1..n : built'[i] = built[i]
        /\ built'[n + 1] = Entry(e)
    BY <1>1, <2>3, <2>4, <2>5, AppendProperties
  <2>7. \A i \in 1..(n + 1) : i # n + 1 => i \in 1..n
    OBVIOUS
  <2>8. ASSUME NEW i \in 1..(n + 1), NEW j \in 1..(n + 1), built'[i].key = built'[j].key
        PROVE  i = j
    BY <1>1, <1>3, <2>4, <2>5, <2>6, <2>7, <2>8
  <2>9. \A i \in 1..n : i \in 1..(n + 1)
    OBVIOUS
  <2>10. n + 1 \in 1..(n + 1)
    OBVIOUS
  <2>11. ASSUME NEW x \in Edges, x = e \/ (\E i \in 1..Len(built) : built[i].key = x.key)
         PROVE  \E i \in 1..(n + 1) : built'[i].key = x.key
    <3>1. CASE x = e
      BY <2>4, <2>6, <2>10, <3>1
    <3>2. CASE \E i \in 1..Len(built) : built[i].key = x.key
      BY <2>5, <2>6, <2>9, <3>2
    <3> QED BY <2>11, <3>1, <3>2
  <2> QED BY <2>6, <2>8, <2>11
<1> QED BY <1>2, <1>3

LEMMA SourcesAre == ToSet(Sources) = {"graph", "memory"} /\ "graph" # "memory"
BY DEF ToSet, Sources

LEMMA LexicalStart == LexicalInit => LexicalInv
<1> SUFFICES ASSUME LexicalInit PROVE LexicalInv
  OBVIOUS
<1>1. question \in Questions /\ built = <<>> /\ answer = NoAnswer
      /\ sources = [s \in {"graph", "memory"} |-> "asked"] /\ walks \in [Edges -> 1..2]
  BY SourcesAre DEF LexicalInit
<1>2. built \in Seq(Entries) /\ Len(built) = 0
  BY <1>1
<1>3. \A e \in Edges : walks[e] \in 0..2 /\ walks[e] # 0
  BY <1>1
<1>4. walks \in [Edges -> 0..2]
  BY <1>1, <1>3
<1>5. BuiltInv
  BY <1>1, <1>2, <1>3, <1>4 DEF BuiltInv
<1> QED BY <1>1, <1>5 DEF LexicalInv

\* What the caller joins and what it could not ask are told from these alone.
LEMMA JoinedAlike ==
  ASSUME UNCHANGED <<question, built, sources>>
  PROVE  /\ Candidates' = Candidates /\ Broken' = Broken
         /\ Decide(question, Candidates, Broken)' = Decide(question, Candidates, Broken)
<1>1. Candidates' = Candidates /\ Broken' = Broken
  BY DEF Candidates, Broken
<1> QED BY <1>1

LEMMA LexicalStep ==
  ASSUME Roomy, LexicalInv, [LexicalNext]_lexicalVars
  PROVE  LexicalInv'
<1>1. CASE WalkEdge
  <2>1. PICK e \in Edges : walks[e] > 0 /\ walks' = [walks EXCEPT ![e] = @ - 1]
                           /\ built' = Build(built, e)
    BY <1>1 DEF WalkEdge
  <2>2. sources["graph"] = "asked" /\ UNCHANGED <<question, sources, answer>>
    BY <1>1 DEF WalkEdge
  <2>3. BuiltInv
    BY DEF LexicalInv
  <2>4. walks' \in [Edges -> 0..2]
    BY <2>1, <2>3 DEF BuiltInv
  <2>5. \A x \in Edges : walks'[x] = 0 => x = e \/ walks[x] = 0
    BY <2>1, <2>3 DEF BuiltInv
  <2>6. /\ built' \in Seq(Entries)
        /\ \A i, j \in 1..Len(built)' : built'[i].key = built'[j].key => i = j
        /\ \A x \in Edges :
             x = e \/ (\E i \in 1..Len(built) : built[i].key = x.key) =>
               \E i \in 1..Len(built)' : built'[i].key = x.key
    BY <2>1, <2>3, BuildKeeps
  <2>7. \A x \in Edges : walks'[x] = 0 => \E i \in 1..Len(built)' : built'[i].key = x.key
    BY <2>3, <2>5, <2>6 DEF BuiltInv
  <2>8. BuiltInv'
    BY <2>2, <2>4, <2>6, <2>7 DEF BuiltInv
  <2>9. answer = NoAnswer
    BY <2>2 DEF LexicalInv
  <2> QED BY <2>2, <2>8, <2>9 DEF LexicalInv
<1>2. ASSUME NEW s \in ToSet(Sources), SourceAnswers(s) \/ SourceBreaks(s) PROVE LexicalInv'
  <2>1. s \in {"graph", "memory"} /\ sources[s] = "asked"
        /\ UNCHANGED <<question, built, walks, answer>>
    BY <1>2, SourcesAre DEF SourceAnswers, SourceBreaks
  <2>2. answer = NoAnswer
    BY <2>1 DEF LexicalInv
  <2>3. DOMAIN sources' = {"graph", "memory"}
    BY <1>2 DEF LexicalInv, SourceAnswers, SourceBreaks
  <2>4. sources'["graph"] = "answered" => \A e \in Edges : walks[e] = 0
    BY <1>2, SourcesAre DEF LexicalInv, BuiltInv, SourceAnswers, SourceBreaks
  <2>5. BuiltInv'
    BY <2>1, <2>4 DEF LexicalInv, BuiltInv
  <2> QED BY <2>1, <2>2, <2>3, <2>5 DEF LexicalInv
<1>3. CASE AnswerQuestion
  <2>1. /\ \A s \in DOMAIN sources : sources[s] # "asked"
        /\ answer' = Decide(question, Candidates, Broken)
        /\ UNCHANGED <<question, built, walks, sources>>
    BY <1>3 DEF AnswerQuestion
  <2>2. Decide(question, Candidates, Broken)' = Decide(question, Candidates, Broken)
    BY <2>1, JoinedAlike
  <2>3. BuiltInv'
    BY <2>1 DEF LexicalInv, BuiltInv
  <2> QED BY <2>1, <2>2, <2>3 DEF LexicalInv
<1>4. CASE UNCHANGED lexicalVars
  <2>1. UNCHANGED <<question, built, walks, sources, answer>>
    BY <1>4 DEF lexicalVars
  <2>2. Decide(question, Candidates, Broken)' = Decide(question, Candidates, Broken)
    BY <2>1, JoinedAlike
  <2>3. BuiltInv'
    BY <2>1 DEF LexicalInv, BuiltInv
  <2> QED BY <2>1, <2>2, <2>3 DEF LexicalInv
<1> QED BY <1>1, <1>2, <1>3, <1>4 DEF LexicalNext

\* What is joined is what is held, in whatever order it was met.
LEMMA JoinedIsHeld ==
  ASSUME KeysTell, LexicalInv
  PROVE  Candidates = Held
<1> SUFFICES ASSUME sources["graph"] = "answered"
             PROVE  {built[i].candidate : i \in DOMAIN built} = {Candidate(e, 0) : e \in Edges}
  BY DEF Candidates, Held
<1>1. /\ DOMAIN built = 1..Len(built) /\ \A i \in 1..Len(built) : built[i] \in Entries
      /\ \A e \in Edges : \E i \in 1..Len(built) : built[i].key = e.key
  BY LenProperties DEF LexicalInv, BuiltInv
<1>2. ASSUME NEW i \in 1..Len(built)
      PROVE  \E e \in Edges : built[i].candidate = Candidate(e, 0) /\ built[i].key = e.key
  BY <1>1 DEF Entries, Entry
<1>3. ASSUME NEW e \in Edges
      PROVE  \E i \in 1..Len(built) : built[i].candidate = Candidate(e, 0)
  <2>1. PICK i \in 1..Len(built) : built[i].key = e.key
    BY <1>1
  <2>2. PICK x \in Edges : built[i].candidate = Candidate(x, 0) /\ built[i].key = x.key
    BY <1>2
  <2>3. x = e
    BY <2>1, <2>2 DEF KeysTell
  <2> QED BY <2>2, <2>3
<1>4. \A c \in {built[i].candidate : i \in DOMAIN built} : \E e \in Edges : c = Candidate(e, 0)
  BY <1>1, <1>2
<1>5. \A e \in Edges : Candidate(e, 0) \in {built[i].candidate : i \in DOMAIN built}
  BY <1>1, <1>3
<1> QED BY <1>4, <1>5

LEMMA HeldIsFinite == IsFiniteSet(Held)
<1> DEFINE f == [e \in Edges |-> Candidate(e, 0)]
<1> DEFINE S == {Candidate(e, 0) : e \in Edges}
<1> DEFINE I == 1..Len(Recall)
<1> DEFINE g == [i \in I |-> MemoryCandidate(i)]
<1>1. f \in [Edges -> S] /\ \A t \in S : \E e \in Edges : f[e] = t
  OBVIOUS
<1>2. IsFiniteSet(S)
  <2> HIDE DEF f, S
  <2> QED BY <1>1, AsManyImages, LexicalAssumption
<1>3. Recalled = {MemoryCandidate(i) : i \in I}
  BY LexicalAssumption DEF Recalled
<1>4. g \in [I -> Recalled] /\ \A t \in Recalled : \E i \in I : g[i] = t
  BY <1>3
<1>5. IsFiniteSet(I)
  BY FS_Interval, LexicalAssumption
<1>6. IsFiniteSet(Recalled)
  <2> HIDE DEF g, I
  <2> QED BY <1>4, <1>5, AsManyImages
<1> HIDE DEF S
<1>7. Held = (IF sources["graph"] = "answered" THEN S ELSE {})
               \cup (IF sources["memory"] = "answered" THEN Recalled ELSE {})
  BY DEF Held, S
<1>8. IsFiniteSet(IF sources["graph"] = "answered" THEN S ELSE {})
  BY <1>2, FS_EmptySet
<1>9. IsFiniteSet(IF sources["memory"] = "answered" THEN Recalled ELSE {})
  BY <1>6, FS_EmptySet
<1> QED BY <1>7, <1>8, <1>9, FS_Union

\* What each decision was made for.
LEMMA DecisionsSay ==
  ASSUME NEW q, NEW C, NEW failed, NEW d, d = Decide(q, C, failed)
  PROVE  /\ d.decision \in {"nothing_relevant", "partial"} =>
              Chosen(q.asked, C) = <<>> /\ failed = {}
         /\ d.decision = "nothing_relevant" => Partial(q, C) = <<>>
<1>1. \A w, p : Decision(w, p).decision = w
  BY DEF Decision
<1> QED BY <1>1 DEF Decide

\* Where a source, a relation and a target are one edge's, and every edge finds a place: the
\* answer is what the sources hold, in whatever order and however often it was brought; and
\* nothing is said to be there, or to be known of a name, only when that is so.
THEOREM AnswersAreHeld ==
  ASSUME KeysTell, Roomy
  PROVE  LexicalSpec => []AnswersAreTheStores
<1>1. ASSUME LexicalInv PROVE AnswersAreTheStores
  <2> SUFFICES ASSUME answer.decision # "none" PROVE
        /\ answer = Decide(question, Held, Broken)
        /\ answer.decision \in {"nothing_relevant", "partial"} =>
             /\ Broken = {}
             /\ \A c \in Held : LET r == Relevance(question.asked, c.words) IN r < Floor \/ r = 0
        /\ answer.decision = "nothing_relevant" => \A c \in Held : ~About(c, question.anchors)
    BY DEF AnswersAreTheStores
  <2>1. answer # NoAnswer
    BY DEF NoAnswer
  <2>2. PICK q, C, failed : q = question /\ C = Held /\ failed = Broken
    OBVIOUS
  <2>3. answer = Decide(q, C, failed)
    BY <1>1, <2>1, <2>2, JoinedIsHeld DEF LexicalInv
  <2>4. Askable(q.asked) /\ IsFiniteSet(C)
    BY <1>1, <2>2, HeldIsFinite, QuestionsAreAskable DEF LexicalInv
  <2>5. /\ answer.decision \in {"nothing_relevant", "partial"} =>
             Chosen(q.asked, C) = <<>> /\ failed = {}
        /\ answer.decision = "nothing_relevant" => Partial(q, C) = <<>>
    BY <2>3, DecisionsSay
  <2>6. answer.decision \in {"nothing_relevant", "partial"} =>
          \A c \in C : LET r == Relevance(q.asked, c.words) IN r < Floor \/ r = 0
    BY <2>4, <2>5, NothingPasses
  <2>7. answer.decision = "nothing_relevant" => \A c \in C : ~About(c, q.anchors)
    BY <2>4, <2>5, NothingAbout
  <2> QED BY <2>2, <2>3, <2>5, <2>6, <2>7
<1>2. LexicalInv /\ [LexicalNext]_lexicalVars => LexicalInv'
  BY LexicalStep
<1> QED BY <1>1, <1>2, LexicalStart, PTL DEF LexicalSpec
=============================================================================
