------------------------ MODULE KnowledgeGraphProofs ------------------------
(***************************************************************************)
(* What holds of the knowledge graph for any names, types, sessions,       *)
(* contacts and processes: its types, that edges have their ends, what an  *)
(* upsert may not do to what is there; what readers rely on, that a        *)
(* contact is answered from what it may read alone, and that the two       *)
(* adapters answer alike where a folded label is one node (KgReads).       *)
(***************************************************************************)
EXTENDS KgReads, NaturalSets, FiniteSetTheorems, TLAPS

\* The rows an upsert has resolved were rows.
EndsResolved ==
  \A w \in Writers : Landing(w) => writers[w].source # 0 /\ writers[w].target # 0

\* Why it is needed: EdgesHaveEnds says nothing of an edge between its two statements.
GraphInv == GraphTypeOK /\ EdgesHaveEnds /\ EndsResolved

-----------------------------------------------------------------------------
(* Labels and what they designate *)

LEMMA NothingIsTyped ==
  /\ NoNode \in NodeRow /\ NoNode.id = 0
  /\ NoEdge \in EdgeRow /\ NoEdge.id = 0
  /\ NotRun \in [todo : SUBSET Listed, doomed : SUBSET Labels]
BY DEF NoNode, NodeRow, NoEdge, EdgeRow, Status, Audiences, NotRun

LEMMA CalledAreNodes ==
  ASSUME NEW label
  PROVE  /\ Exactly(label) \subseteq Called(label)
         /\ One(label) \subseteq Called(label)
         /\ Called(label) \subseteq Nodes
BY DEF Exactly, Called, One

LEMMA ResolvedAreNodes ==
  ASSUME NEW label \in Labels
  PROVE  Resolved(label) \subseteq Nodes
<1>1. <<label.name, "CONCEPT">> \in Nodes
  BY GraphAssumption DEF Labels, Nodes
<1> QED
  BY <1>1, CalledAreNodes DEF Resolved, Oldest

LEMMA FactsAreTyped ==
  ASSUME NEW f \in Facts
  PROVE  f \in Fact
BY GraphAssumption DEF Fact, Relations

LEMMA KeysOfAreKeys ==
  ASSUME NEW f \in Fact
  PROVE  KeysOf(f) \subseteq Keys
<1>1. f.relation \in Relations
  BY DEF Fact
<1>2. One(f.source) \subseteq Nodes /\ One(f.target) \subseteq Nodes
  BY CalledAreNodes
<1> QED
  BY <1>1, <1>2 DEF KeysOf, Keys

LEMMA LabelsOfNodes ==
  ASSUME GraphTypeOK, NEW n \in Nodes
  PROVE  LabelOf(n) \in Labels
<1>1. n[1] \in Names
  BY DEF Nodes
<1>2. nodes[n].accented \in BOOLEAN
  BY DEF GraphTypeOK, NodeRow
<1> QED
  BY <1>1, <1>2 DEF LabelOf, Labels

LEMMA FactsOfKeys ==
  ASSUME GraphTypeOK, NEW k \in Keys
  PROVE  FactOf(k) \in Fact
<1>1. k.source \in Nodes /\ k.target \in Nodes /\ k.relation \in Relations
  BY DEF Keys
<1>2. LabelOf(k.source) \in Labels /\ LabelOf(k.target) \in Labels
  BY <1>1, LabelsOfNodes
<1> QED
  BY <1>1, <1>2 DEF FactOf, Fact

-----------------------------------------------------------------------------
(* Rows *)

LEMMA MergedIsTyped ==
  ASSUME NEW row \in EdgeRow, NEW v \in Sent
  PROVE  /\ Merged(row, v) \in {"none", "asserted", "proposed"}
         /\ Kept(row, v) \in {"none", "asserted", "proposed"}
BY DEF Merged, Kept, EdgeRow, Sent

LEMMA InsertedIsNat ==
  ASSUME GraphTypeOK
  PROVE  inserted \in Nat /\ inserted + 1 \in Nat /\ inserted + 2 \in Nat
<1>1. inserted \in Nat
  BY DEF GraphTypeOK
<1> QED
  BY <1>1

\* What an upsert leaves of a row that is there.
LEMMA UpdatedRow ==
  ASSUME NEW row \in EdgeRow, NEW v \in Sent
  PROVE  /\ Updated(row, v) \in EdgeRow
         /\ Updated(row, v).id = row.id
         /\ row.status # "proposed" => Updated(row, v).status = row.status
         /\ row.audience # "" => Updated(row, v).audience = row.audience
         /\ Updated(row, v).words = Kept(row, v)
<1>1. v.status \in Status /\ v.session \in Sessions \cup {""} /\ v.audience \in Audiences
  BY GraphAssumption DEF Sent, Status
<1>2. Kept(row, v) \in {"none", "asserted", "proposed"}
  BY MergedIsTyped
<1> QED
  BY <1>1, <1>2 DEF Updated, EdgeRow

LEMMA InsertedRow ==
  ASSUME GraphTypeOK, NEW v \in Sent
  PROVE  Inserted(v) \in EdgeRow /\ Inserted(v).id = inserted + 1
<1>1. v.status \in Status /\ v.session \in Sessions \cup {""} /\ v.audience \in Audiences
  BY GraphAssumption DEF Sent, Status
<1>2. inserted + 1 \in Nat
  BY InsertedIsNat
<1>3. Merged(NoEdge, v) \in {"none", "asserted", "proposed"}
  BY NothingIsTyped, MergedIsTyped
<1> QED
  BY <1>1, <1>2, <1>3 DEF Inserted, EdgeRow

-----------------------------------------------------------------------------
(* The inductive invariant *)

\* Rows that are added and edges that are not.
LEMMA NodesAdded ==
  ASSUME EdgesHaveEnds, UNCHANGED edges,
         \A n \in Nodes : IsNode(n) => IsNode(n)'
  PROVE  EdgesHaveEnds'
<1> QED
  BY DEF EdgesHaveEnds, IsEdge, IsNode, Keys

\* Edges that change or go and nodes that stay.
LEMMA EdgesChanged ==
  ASSUME EdgesHaveEnds, UNCHANGED nodes,
         \A k \in Keys : edges'[k].id # 0 => IsEdge(k)
  PROVE  EdgesHaveEnds'
<1> QED
  BY DEF EdgesHaveEnds, IsEdge, IsNode

LEMMA GraphInitInv == GraphInit => GraphInv
<1> SUFFICES ASSUME GraphInit PROVE GraphInv
  OBVIOUS
<1>1. GraphTypeOK
  BY NothingIsTyped DEF GraphInit, GraphTypeOK
<1>2. EdgesHaveEnds
  BY NothingIsTyped DEF GraphInit, EdgesHaveEnds, IsEdge
<1>3. EndsResolved
  BY DEF GraphInit, EndsResolved, Landing
<1> QED
  BY <1>1, <1>2, <1>3 DEF GraphInv

LEMMA UpsertNodeInv ==
  ASSUME GraphInv, NEW label \in Mentioned, NEW type \in Types, UpsertNode(label, type)
  PROVE  GraphInv'
<1> DEFINE n == <<label.name, type>>
<1>1. label \in Labels /\ label.accented \in BOOLEAN /\ n \in Nodes
  BY GraphAssumption DEF Labels, Nodes
<1>2. inserted \in Nat /\ inserted + 1 \in Nat /\ inserted + 1 # 0
  BY InsertedIsNat DEF GraphInv, GraphTypeOK
<1>3. nodes \in [Nodes -> NodeRow]
  BY DEF GraphInv, GraphTypeOK
<1>4. /\ nodes' \in [Nodes -> NodeRow]
      /\ inserted' \in Nat
      /\ \A m \in Nodes : IsNode(m) => IsNode(m)'
  <2>1. CASE IsNode(n)
    BY <1>1, <1>2, <1>3, <2>1 DEF UpsertNode, NodeRow, IsNode
  <2>2. CASE ~IsNode(n)
    BY <1>1, <1>2, <1>3, <2>2 DEF UpsertNode, NodeRow, IsNode
  <2> QED
    BY <2>1, <2>2
<1>5. UNCHANGED <<edges, writers, curators, pruners, classifiers, rejected, purging>>
  BY DEF UpsertNode
<1>6. GraphTypeOK'
  BY <1>4, <1>5 DEF GraphInv, GraphTypeOK
<1>7. EdgesHaveEnds'
  BY <1>4, <1>5, NodesAdded DEF GraphInv
<1>8. EndsResolved'
  BY <1>5 DEF GraphInv, EndsResolved, Landing
<1> QED
  BY <1>6, <1>7, <1>8 DEF GraphInv

LEMMA BeginEdgeInv ==
  ASSUME GraphInv, NEW w \in Writers, NEW fact \in Facts, BeginEdge(w, fact)
  PROVE  GraphInv'
<1>1. /\ fact.source \in Labels /\ fact.target \in Labels /\ fact.relation \in Relations
      /\ fact.source.accented \in BOOLEAN /\ fact.target.accented \in BOOLEAN
  BY FactsAreTyped DEF Fact, Labels
<1> DEFINE Targets(s) == IF fact.source.name = fact.target.name /\ ~IsNode(s) THEN {s}
                         ELSE Resolved(fact.target)
           New(s, t)  == {n \in {s, t} : ~IsNode(n)}
           Row(s, t, n) == [id |-> IF n = s \/ IsNode(s) THEN inserted + 1 ELSE inserted + 2,
                            accented |-> IF n = s THEN fact.source.accented
                                         ELSE fact.target.accented]
           Added(s, t) == [n \in Nodes |-> IF n \in New(s, t) THEN Row(s, t, n) ELSE nodes[n]]
<1>2. PICK s \in Resolved(fact.source) : \E t \in Targets(s) :
        /\ nodes' = Added(s, t)
        /\ inserted' = inserted + Cardinality(New(s, t))
        /\ writers' = [writers EXCEPT ![w] =
             [phase |-> "landing", source |-> Added(s, t)[s].id, target |-> Added(s, t)[t].id,
              key |-> [source |-> s, target |-> t, relation |-> fact.relation]]]
        /\ UNCHANGED <<edges, curators, pruners, classifiers, rejected, purging>>
  BY DEF BeginEdge
<1>3. PICK t \in Targets(s) :
        /\ nodes' = Added(s, t)
        /\ inserted' = inserted + Cardinality(New(s, t))
        /\ writers' = [writers EXCEPT ![w] =
             [phase |-> "landing", source |-> Added(s, t)[s].id, target |-> Added(s, t)[t].id,
              key |-> [source |-> s, target |-> t, relation |-> fact.relation]]]
        /\ UNCHANGED <<edges, curators, pruners, classifiers, rejected, purging>>
  BY <1>2
<1>4. s \in Nodes /\ t \in Nodes
  BY <1>1, <1>2, <1>3, ResolvedAreNodes
<1>5. /\ nodes \in [Nodes -> NodeRow] /\ inserted \in Nat
      /\ inserted + 1 \in Nat /\ inserted + 1 # 0 /\ inserted + 2 \in Nat /\ inserted + 2 # 0
  BY InsertedIsNat DEF GraphInv, GraphTypeOK
<1>6. \A n \in Nodes : Row(s, t, n) \in NodeRow /\ Row(s, t, n).id # 0
  BY <1>1, <1>5 DEF NodeRow
<1>7. /\ Added(s, t) \in [Nodes -> NodeRow]
      /\ Added(s, t)[s].id # 0 /\ Added(s, t)[t].id # 0
      /\ Added(s, t)[s].id \in Nat /\ Added(s, t)[t].id \in Nat
      /\ \A n \in Nodes : nodes[n].id # 0 => Added(s, t)[n].id # 0
  <2> HIDE DEF Row
  <2>1. \A n \in Nodes : /\ Added(s, t)[n] \in NodeRow
                         /\ nodes[n].id # 0 => Added(s, t)[n].id # 0
                         /\ n \in {s, t} => Added(s, t)[n].id # 0
    BY <1>5, <1>6 DEF IsNode
  <2> QED
    BY <1>4, <2>1 DEF NodeRow
<1>8. Cardinality(New(s, t)) \in Nat
  <2>1. IsFiniteSet({s}) /\ IsFiniteSet({s} \cup {t})
    BY FS_EmptySet, FS_AddElement, FS_Singleton
  <2>2. New(s, t) \subseteq {s} \cup {t}
    OBVIOUS
  <2> QED
    BY <2>1, <2>2, FS_Subset, FS_CardinalityType
<1>9. [phase |-> "landing", source |-> Added(s, t)[s].id, target |-> Added(s, t)[t].id,
       key |-> [source |-> s, target |-> t, relation |-> fact.relation]] \in Write
  <2> HIDE DEF Added
  <2> QED
    BY <1>1, <1>4, <1>7 DEF Write, Keys
<1> HIDE DEF Added, New
<1>10. inserted' \in Nat
  BY <1>3, <1>5, <1>8
<1>11. GraphTypeOK'
  BY <1>3, <1>7, <1>9, <1>10 DEF GraphInv, GraphTypeOK
<1>12. EdgesHaveEnds'
  BY <1>3, <1>7, NodesAdded DEF GraphInv, IsNode
<1>13. EndsResolved'
  BY <1>3, <1>7 DEF GraphInv, GraphTypeOK, EndsResolved, Landing
<1> QED
  BY <1>11, <1>12, <1>13 DEF GraphInv

LEMMA LandEdgeInv ==
  ASSUME GraphInv, NEW w \in Writers, NEW v \in Sent, LandEdge(w, v)
  PROVE  GraphInv'
<1> DEFINE k == writers[w].key
<1>1. /\ writers \in [Writers -> Write \cup {NoWrite}] /\ edges \in [Keys -> EdgeRow]
      /\ GraphTypeOK /\ inserted \in Nat /\ inserted + 1 \in Nat /\ inserted + 1 # 0
  BY InsertedIsNat DEF GraphInv, GraphTypeOK
<1>2. k \in Keys /\ writers[w] \in Write
  BY <1>1 DEF LandEdge, Landing, Write
<1>3. /\ edges' = [edges EXCEPT ![k] = IF IsEdge(k) THEN Updated(edges[k], v) ELSE Inserted(v)]
      /\ inserted' = IF IsEdge(k) THEN inserted ELSE inserted + 1
      /\ writers' = [writers EXCEPT ![w] = NoWrite]
      /\ UNCHANGED <<nodes, curators, pruners, classifiers, rejected, purging>>
      /\ EndsStand(writers[w]) /\ Landing(w)
  BY DEF LandEdge
<1>4. Updated(edges[k], v) \in EdgeRow /\ Inserted(v) \in EdgeRow
  BY <1>1, <1>2, UpdatedRow, InsertedRow
<1>5. edges' \in [Keys -> EdgeRow]
  BY <1>1, <1>2, <1>3, <1>4
<1>6. GraphTypeOK'
  BY <1>1, <1>3, <1>5 DEF GraphTypeOK
<1>7. IsNode(k.source) /\ IsNode(k.target)
  BY <1>3 DEF GraphInv, EndsResolved, EndsStand, IsNode
<1>8. EdgesHaveEnds'
  BY <1>1, <1>2, <1>3, <1>7 DEF GraphInv, EdgesHaveEnds, IsEdge, IsNode
<1>9. EndsResolved'
  BY <1>1, <1>3 DEF GraphInv, EndsResolved, Landing
<1> QED
  BY <1>6, <1>8, <1>9 DEF GraphInv

LEMMA LoseEdgeInv ==
  ASSUME GraphInv, NEW w \in Writers, LoseEdge(w)
  PROVE  GraphInv'
<1>1. writers' = [writers EXCEPT ![w] = NoWrite]
      /\ UNCHANGED <<nodes, edges, curators, pruners, classifiers, rejected, purging, inserted>>
  BY DEF LoseEdge
<1>2. GraphTypeOK'
  BY <1>1 DEF GraphInv, GraphTypeOK
<1>3. EdgesHaveEnds'
  BY <1>1, NodesAdded DEF GraphInv, IsNode
<1>4. EndsResolved'
  BY <1>1 DEF GraphInv, GraphTypeOK, EndsResolved, Landing
<1> QED
  BY <1>2, <1>3, <1>4 DEF GraphInv

\* Statements on edges alone insert none.
LEMMA EdgesOnly ==
  ASSUME GraphInv, UNCHANGED <<nodes, writers>>, GraphTypeOK',
         \A k \in Keys : edges'[k].id # 0 => IsEdge(k)
  PROVE  GraphInv'
<1>1. EdgesHaveEnds'
  BY EdgesChanged DEF GraphInv
<1>2. EndsResolved'
  BY DEF GraphInv, EndsResolved, Landing
<1> QED
  BY <1>1, <1>2 DEF GraphInv

LEMMA ReadPendingInv ==
  ASSUME GraphInv, NEW c \in Curators, ReadPending(c)
  PROVE  GraphInv'
<1>1. PICK k \in Proposed :
        curators' = [curators EXCEPT ![c] = [phase |-> "judging", fact |-> FactOf(k)]]
  BY DEF ReadPending
<1>2. FactOf(k) \in Fact
  BY <1>1, FactsOfKeys DEF Proposed, GraphInv
<1>3. [phase |-> "judging", fact |-> FactOf(k)] \in Review
  BY <1>2 DEF Review
<1>4. UNCHANGED <<nodes, edges, writers, pruners, classifiers, rejected, purging, inserted>>
  BY DEF ReadPending
<1>5. GraphTypeOK'
  BY <1>1, <1>3, <1>4 DEF GraphInv, GraphTypeOK
<1> QED
  BY <1>4, <1>5, EdgesOnly DEF IsEdge

\* A statement on the edges a label designates touches one column.
LEMMA JudgeInv ==
  ASSUME GraphInv, NEW c \in Curators, NEW status \in Status, Judge(c, status)
  PROVE  GraphInv'
<1> DEFINE found == {k \in KeysOf(curators[c].fact) : IsEdge(k)}
<1>1. curators[c].fact \in Fact
  BY DEF Judge, GraphInv, GraphTypeOK, Review
<1>2. found \subseteq Keys
  BY <1>1, KeysOfAreKeys
<1> HIDE DEF found
<1>3. /\ edges' = [k \in Keys |-> IF k \in found THEN [edges[k] EXCEPT !.status = status]
                                   ELSE edges[k]]
      /\ rejected' = IF status = "rejected" THEN rejected \cup found ELSE rejected \ found
      /\ curators' = [curators EXCEPT ![c] = NoReview]
      /\ UNCHANGED <<nodes, writers, pruners, classifiers, purging, inserted>>
  BY DEF Judge, found
<1>4. edges \in [Keys -> EdgeRow]
  BY DEF GraphInv, GraphTypeOK
<1>5. \A k \in Keys : edges'[k] \in EdgeRow /\ edges'[k].id = edges[k].id
  BY <1>3, <1>4 DEF EdgeRow
<1>6. GraphTypeOK'
  BY <1>2, <1>3, <1>5 DEF GraphInv, GraphTypeOK
<1> QED
  BY <1>3, <1>5, <1>6, EdgesOnly DEF IsEdge

LEMMA SetEdgeStatusInv ==
  ASSUME GraphInv, NEW k \in Keys, NEW status \in Status, SetEdgeStatus(k, status)
  PROVE  GraphInv'
<1>1. /\ edges' = [edges EXCEPT ![k].status = status]
      /\ rejected' = IF status = "rejected" THEN rejected \cup {k} ELSE rejected \ {k}
      /\ UNCHANGED <<nodes, writers, curators, pruners, classifiers, purging, inserted>>
  BY DEF SetEdgeStatus
<1>2. edges \in [Keys -> EdgeRow]
  BY DEF GraphInv, GraphTypeOK
<1>3. edges' \in [Keys -> EdgeRow] /\ \A l \in Keys : edges'[l].id = edges[l].id
  BY <1>1, <1>2 DEF EdgeRow
<1>4. GraphTypeOK'
  BY <1>1, <1>3 DEF GraphInv, GraphTypeOK
<1> QED
  BY <1>1, <1>3, <1>4, EdgesOnly DEF IsEdge

LEMMA AudienceIsTyped ==
  ASSUME GraphInv, NEW fact, NEW audience \in Audiences, SetEdgeAudience(fact, audience)
  PROVE  edges' \in [Keys -> EdgeRow] /\ \A l \in Keys : edges'[l].id = edges[l].id
<1> DEFINE found == {k \in KeysOf(fact) : IsEdge(k)}
<1>1. edges' = [k \in Keys |-> IF k \in found THEN [edges[k] EXCEPT !.audience = audience]
                               ELSE edges[k]]
  BY DEF SetEdgeAudience
<1>2. edges \in [Keys -> EdgeRow]
  BY DEF GraphInv, GraphTypeOK
<1> HIDE DEF found
<1>3. \A k \in Keys : edges'[k] \in EdgeRow /\ edges'[k].id = edges[k].id
  BY <1>1, <1>2 DEF EdgeRow
<1> QED
  BY <1>1, <1>3

LEMMA SetAudienceInv ==
  ASSUME GraphInv, NEW k \in Keys, NEW audience \in Audiences,
         SetEdgeAudience(FactOf(k), audience),
         UNCHANGED <<nodes, writers, curators, pruners, classifiers, rejected, purging, inserted>>
  PROVE  GraphInv'
<1>1. edges' \in [Keys -> EdgeRow] /\ \A l \in Keys : edges'[l].id = edges[l].id
  BY AudienceIsTyped
<1>2. GraphTypeOK'
  BY <1>1 DEF GraphInv, GraphTypeOK
<1> QED
  BY <1>1, <1>2, EdgesOnly DEF IsEdge

-----------------------------------------------------------------------------
(* Removal *)

LEMMA WithoutInv ==
  ASSUME GraphInv, NEW ns, Without(ns), rejected' \subseteq rejected, purging' \in BOOLEAN,
         pruners' \in [Pruners -> [todo : SUBSET Listed, doomed : SUBSET Labels]],
         UNCHANGED <<writers, curators, classifiers, inserted>>
  PROVE  GraphInv'
<1>1. /\ nodes' = [n \in Nodes |-> IF n \in ns THEN NoNode ELSE nodes[n]]
      /\ edges' = [k \in Keys |-> IF {k.source, k.target} \cap ns # {} THEN NoEdge
                                  ELSE edges[k]]
  BY DEF Without
<1>2. nodes \in [Nodes -> NodeRow] /\ edges \in [Keys -> EdgeRow]
  BY DEF GraphInv, GraphTypeOK
<1>3. nodes' \in [Nodes -> NodeRow] /\ edges' \in [Keys -> EdgeRow]
  BY <1>1, <1>2, NothingIsTyped
<1>4. GraphTypeOK'
  BY <1>3 DEF GraphInv, GraphTypeOK
<1>5. EdgesHaveEnds'
  <2> SUFFICES ASSUME NEW k \in Keys, edges'[k].id # 0
               PROVE  nodes'[k.source].id # 0 /\ nodes'[k.target].id # 0
    BY DEF EdgesHaveEnds, IsEdge, IsNode
  <2>1. k.source \notin ns /\ k.target \notin ns /\ edges[k].id # 0
    BY <1>1, NothingIsTyped
  <2>2. k.source \in Nodes /\ k.target \in Nodes
    BY DEF Keys
  <2> QED
    BY <1>1, <2>1, <2>2 DEF GraphInv, EdgesHaveEnds, IsEdge, IsNode
<1>6. EndsResolved'
  BY DEF GraphInv, EndsResolved, Landing
<1> QED
  BY <1>4, <1>5, <1>6 DEF GraphInv

LEMMA DeleteNodeInv ==
  ASSUME GraphInv, NEW label, DeleteNode(label)
  PROVE  GraphInv'
<1>1. Without(One(label)) /\ rejected' \subseteq rejected
      /\ UNCHANGED <<writers, curators, pruners, classifiers, purging, inserted>>
  BY DEF DeleteNode
<1> QED
  BY <1>1, WithoutInv DEF GraphInv, GraphTypeOK

LEMMA DeleteEdgesInv ==
  ASSUME GraphInv, NEW session, DeleteEdgesBySession(session)
  PROVE  GraphInv'
<1>1. edges' = [k \in Keys |-> IF IsEdge(k) /\ edges[k].session = session THEN NoEdge
                               ELSE edges[k]]
      /\ UNCHANGED <<nodes, writers, curators, pruners, classifiers, rejected, purging, inserted>>
  BY DEF DeleteEdgesBySession
<1>2. edges' \in [Keys -> EdgeRow] /\ \A k \in Keys : edges'[k].id # 0 => IsEdge(k)
  BY <1>1, NothingIsTyped DEF GraphInv, GraphTypeOK, IsEdge
<1>3. GraphTypeOK'
  BY <1>1, <1>2 DEF GraphInv, GraphTypeOK
<1> QED
  BY <1>1, <1>2, <1>3, EdgesOnly

LEMMA PurgeInv ==
  ASSUME GraphInv, PurgeEdges \/ PurgeNodes \/ CrashPurge
  PROVE  GraphInv'
<1>1. CASE PurgeEdges
  <2>1. /\ edges' = [k \in Keys |-> NoEdge] /\ rejected' = {} /\ purging' = TRUE
        /\ UNCHANGED <<nodes, writers, curators, pruners, classifiers, inserted>>
    BY <1>1 DEF PurgeEdges
  <2>2. GraphTypeOK'
    BY <2>1, NothingIsTyped DEF GraphInv, GraphTypeOK
  <2> QED
    BY <2>1, <2>2, NothingIsTyped, EdgesOnly
<1>2. CASE PurgeNodes
  BY <1>2, WithoutInv DEF PurgeNodes, GraphInv, GraphTypeOK
<1>3. CASE CrashPurge
  <2>1. /\ purging' = FALSE
        /\ UNCHANGED <<nodes, edges, writers, curators, pruners, classifiers, rejected, inserted>>
    BY <1>3 DEF CrashPurge
  <2>2. GraphTypeOK'
    BY <2>1 DEF GraphInv, GraphTypeOK
  <2> QED
    BY <2>1, <2>2, EdgesOnly DEF IsEdge
<1> QED
  BY <1>1, <1>2, <1>3

-----------------------------------------------------------------------------
(* Maintenance jobs *)

LEMMA PruneInv ==
  ASSUME GraphInv, NEW p \in Pruners, PruneStep(p)
  PROVE  GraphInv'
<1> DEFINE Pruner == [todo : SUBSET Listed, doomed : SUBSET Labels]
<1>1. pruners \in [Pruners -> Pruner] /\ nodes \in [Nodes -> NodeRow]
  BY DEF GraphInv, GraphTypeOK
<1>2. CASE ListNodes(p)
  <2> DEFINE found == {[id |-> nodes[n].id, label |-> LabelOf(n)] :
                         n \in {m \in Nodes : IsNode(m)}}
  <2>1. pruners' = [pruners EXCEPT ![p].todo = found]
        /\ UNCHANGED <<nodes, edges, writers, curators, classifiers, rejected, purging, inserted>>
    BY <1>2 DEF ListNodes
  <2>2. found \subseteq Listed
    BY <1>1, LabelsOfNodes DEF GraphInv, Listed, NodeRow
  <2> HIDE DEF found
  <2>3. pruners' \in [Pruners -> Pruner]
    BY <1>1, <2>1, <2>2
  <2>4. GraphTypeOK'
    BY <2>1, <2>3 DEF GraphInv, GraphTypeOK
  <2> QED
    BY <2>1, <2>4, EdgesOnly DEF IsEdge
<1>3. CASE AskEdges(p)
  <2>1. PICK e \in pruners[p].todo :
          pruners' = [pruners EXCEPT ![p] =
            [todo |-> pruners[p].todo \ {e},
             doomed |-> IF HasEdges(e.label) THEN {} ELSE {e.label}]]
    BY <1>3 DEF AskEdges
  <2>2. e.label \in Labels
    BY <1>1 DEF Listed
  <2>3. pruners' \in [Pruners -> Pruner]
    BY <1>1, <2>1, <2>2
  <2>4. UNCHANGED <<nodes, edges, writers, curators, classifiers, rejected, purging, inserted>>
    BY <1>3 DEF AskEdges
  <2>5. GraphTypeOK'
    BY <2>3, <2>4 DEF GraphInv, GraphTypeOK
  <2> QED
    BY <2>4, <2>5, EdgesOnly DEF IsEdge
<1>4. CASE DeleteOrphan(p)
  <2>1. PICK label \in pruners[p].doomed : Without(One(label))
    BY <1>4 DEF DeleteOrphan
  <2>2. pruners' \in [Pruners -> Pruner]
        /\ UNCHANGED <<writers, curators, classifiers, rejected, purging, inserted>>
    BY <1>1, <1>4 DEF DeleteOrphan
  <2>3. purging' \in BOOLEAN
    BY <2>2 DEF GraphInv, GraphTypeOK
  <2> QED
    BY <2>1, <2>2, <2>3, WithoutInv
<1> QED
  BY <1>2, <1>3, <1>4 DEF PruneStep

LEMMA ClassifyInv ==
  ASSUME GraphInv, NEW c \in Classifiers, ListUnclassified(c) \/ Classify(c)
  PROVE  GraphInv'
<1> DEFINE Work == [fact : Fact, want : Audiences]
<1>1. classifiers \in [Classifiers -> SUBSET Work] /\ edges \in [Keys -> EdgeRow]
  BY DEF GraphInv, GraphTypeOK
<1>2. CASE ListUnclassified(c)
  <2> DEFINE found == {[fact |-> FactOf(k), want |-> Wanted(edges[k])] : k \in Unclassified}
  <2>1. PICK todo \in SUBSET found :
          classifiers' = [classifiers EXCEPT ![c] = {m \in todo : m.want # ""}]
    BY <1>2 DEF ListUnclassified
  <2>2. \A k \in Keys : Wanted(edges[k]) \in Audiences
    BY <1>1, GraphAssumption DEF EdgeRow, Wanted, Audiences
  <2>3. found \subseteq Work
    <3>1. \A k \in Keys : FactOf(k) \in Fact
      BY FactsOfKeys DEF GraphInv
    <3>2. \A k \in Keys : [fact |-> FactOf(k), want |-> Wanted(edges[k])] \in Work
      BY <2>2, <3>1
    <3>3. Unclassified \subseteq Keys
      BY DEF Unclassified
    <3> HIDE DEF Work
    <3> QED
      BY <3>2, <3>3
  <2> HIDE DEF found
  <2>4. classifiers' \in [Classifiers -> SUBSET Work]
    BY <1>1, <2>1, <2>3
  <2>5. UNCHANGED <<nodes, edges, writers, curators, pruners, rejected, purging, inserted>>
    BY <1>2 DEF ListUnclassified
  <2>6. GraphTypeOK'
    BY <2>4, <2>5 DEF GraphInv, GraphTypeOK
  <2> QED
    BY <2>5, <2>6, EdgesOnly DEF IsEdge
<1>3. CASE Classify(c)
  <2>1. PICK m \in classifiers[c] :
          /\ SetEdgeAudience(m.fact, m.want)
          /\ classifiers' = [classifiers EXCEPT ![c] = classifiers[c] \ {m}]
    BY <1>3 DEF Classify
  <2>2. m.want \in Audiences
    BY <1>1
  <2>3. edges' \in [Keys -> EdgeRow] /\ \A l \in Keys : edges'[l].id = edges[l].id
    BY <2>1, <2>2, AudienceIsTyped
  <2>4. UNCHANGED <<nodes, writers, curators, pruners, rejected, purging, inserted>>
    BY <1>3 DEF Classify
  <2>5. classifiers' \in [Classifiers -> SUBSET Work]
    BY <1>1, <2>1
  <2>6. GraphTypeOK'
    BY <2>3, <2>4, <2>5 DEF GraphInv, GraphTypeOK
  <2> QED
    BY <2>3, <2>4, <2>6, EdgesOnly DEF IsEdge
<1> QED
  BY <1>2, <1>3

-----------------------------------------------------------------------------
(* The theorems *)

LEMMA GraphNextInv == GraphInv /\ [GraphNext]_graphVars => GraphInv'
<1> SUFFICES ASSUME GraphInv, [GraphNext]_graphVars PROVE GraphInv'
  OBVIOUS
<1>1. ASSUME NEW label \in Mentioned, NEW type \in Types, UpsertNode(label, type)
      PROVE  GraphInv'
  BY <1>1, UpsertNodeInv
<1>2. ASSUME NEW w \in Writers, WriteStep(w) PROVE GraphInv'
  BY <1>2, BeginEdgeInv, LandEdgeInv, LoseEdgeInv DEF WriteStep
<1>3. ASSUME NEW c \in Curators, ReadPending(c) \/ CurateStep(c) PROVE GraphInv'
  BY <1>3, ReadPendingInv, JudgeInv DEF CurateStep, Status
<1>4. CASE PersonStep
  BY <1>4, SetEdgeStatusInv, SetAudienceInv, DeleteNodeInv DEF PersonStep
<1>5. ASSUME NEW session \in Disliked, DeleteEdgesBySession(session) PROVE GraphInv'
  BY <1>5, DeleteEdgesInv
<1>6. CASE PurgeEdges \/ PurgeNodes \/ CrashPurge
  BY <1>6, PurgeInv
<1>7. ASSUME NEW p \in Pruners, PruneStep(p) PROVE GraphInv'
  BY <1>7, PruneInv
<1>8. ASSUME NEW c \in Classifiers, ListUnclassified(c) \/ Classify(c) PROVE GraphInv'
  BY <1>8, ClassifyInv
<1>9. CASE UNCHANGED graphVars
  <2>1. GraphTypeOK'
    BY <1>9 DEF graphVars, GraphInv, GraphTypeOK
  <2> QED
    BY <1>9, <2>1, EdgesOnly DEF graphVars, IsEdge
<1> QED
  BY <1>1, <1>2, <1>3, <1>4, <1>5, <1>6, <1>7, <1>8, <1>9 DEF GraphNext

THEOREM GraphIsInv == GraphSpec => []GraphInv
BY GraphInitInv, GraphNextInv, PTL DEF GraphSpec

\* The rows of the graph, what its writers are about to insert, and the labels its curators
\* and jobs hold are of their types (GraphTypeOK).
THEOREM GraphTypeCorrect == GraphSpec => []GraphTypeOK
BY GraphIsInv, PTL DEF GraphInv

\* No interleaving of upserts, deletions, purges and crashes leaves an edge without one of
\* its nodes (EdgesHaveEnds): the resolved rows may go before the edge is inserted, and
\* the insert is then refused.
THEOREM EdgesKeepEnds == GraphSpec => []EdgesHaveEnds
BY GraphIsInv, PTL DEF GraphInv

\* What a step does to the edges: a writer lands one, or nobody's upsert is concerned and
\* an edge keeps its row and its attributes or goes.
LEMMA StepsOnEdges ==
  ASSUME GraphInv, [GraphNext]_graphVars
  PROVE  \/ UNCHANGED edges
         \/ \E w \in Writers, v \in Sent : LandEdge(w, v)
         \/ /\ UNCHANGED writers
            /\ \A k \in Keys : \/ edges'[k].id = edges[k].id /\ edges'[k].words = edges[k].words
                               \/ edges'[k] = NoEdge
<1> DEFINE Kind == \/ UNCHANGED edges
                   \/ \E w \in Writers, v \in Sent : LandEdge(w, v)
                   \/ /\ UNCHANGED writers
                      /\ \A k \in Keys :
                           \/ edges'[k].id = edges[k].id /\ edges'[k].words = edges[k].words
                           \/ edges'[k] = NoEdge
<1> SUFFICES Kind
  OBVIOUS
<1>1. edges \in [Keys -> EdgeRow]
  BY DEF GraphInv, GraphTypeOK
<1>2. ASSUME NEW label \in Mentioned, NEW type \in Types, UpsertNode(label, type)
      PROVE  Kind
  BY <1>2 DEF UpsertNode
<1>3. ASSUME NEW w \in Writers, WriteStep(w) PROVE Kind
  BY <1>3 DEF WriteStep, BeginEdge, LoseEdge
<1>4. ASSUME NEW c \in Curators, ReadPending(c) PROVE Kind
  BY <1>4 DEF ReadPending
<1>5. ASSUME NEW c \in Curators, NEW status, Judge(c, status) PROVE Kind
  BY <1>1, <1>5 DEF Judge, EdgeRow
<1>6. ASSUME NEW k \in Keys, NEW status, SetEdgeStatus(k, status) PROVE Kind
  BY <1>1, <1>6 DEF SetEdgeStatus, EdgeRow
<1>7. ASSUME NEW fact, NEW audience, SetEdgeAudience(fact, audience), UNCHANGED writers
      PROVE  Kind
  BY <1>1, <1>7 DEF SetEdgeAudience, EdgeRow
<1>8. ASSUME NEW ns, Without(ns), UNCHANGED writers PROVE Kind
  BY <1>1, <1>8 DEF Without
<1>9. ASSUME NEW session, DeleteEdgesBySession(session) PROVE Kind
  BY <1>1, <1>9 DEF DeleteEdgesBySession
<1>10. CASE PurgeEdges \/ CrashPurge
  BY <1>10 DEF PurgeEdges, CrashPurge
<1>11. CASE UNCHANGED graphVars
  BY <1>11 DEF graphVars
<1> HIDE DEF Kind
<1>12. CASE PersonStep
  <2>1. ASSUME NEW k \in Keys, NEW status \in Status, SetEdgeStatus(k, status) PROVE Kind
    BY <2>1, <1>6
  <2>2. ASSUME NEW k \in Keys, NEW audience \in Audiences,
               SetEdgeAudience(FactOf(k), audience), UNCHANGED writers
        PROVE  Kind
    BY <2>2, <1>7
  <2>3. ASSUME NEW label \in Labels, DeleteNode(label) PROVE Kind
    BY <2>3, <1>8 DEF DeleteNode
  <2> QED
    BY <1>12, <2>1, <2>2, <2>3 DEF PersonStep
<1>13. CASE PurgeNodes
  BY <1>8, <1>13 DEF PurgeNodes
<1>14. ASSUME NEW p \in Pruners, PruneStep(p) PROVE Kind
  <2>1. CASE DeleteOrphan(p)
    BY <1>8, <2>1 DEF DeleteOrphan
  <2>2. CASE ListNodes(p) \/ AskEdges(p)
    BY <2>2 DEF ListNodes, AskEdges, Kind
  <2> QED
    BY <1>14, <2>1, <2>2 DEF PruneStep
<1>15. ASSUME NEW c \in Classifiers, ListUnclassified(c) \/ Classify(c) PROVE Kind
  <2>1. CASE Classify(c)
    BY <1>7, <2>1 DEF Classify
  <2>2. CASE ListUnclassified(c)
    BY <2>2 DEF ListUnclassified, Kind
  <2> QED
    BY <1>15, <2>1, <2>2
<1> QED
  BY <1>2, <1>3, <1>4, <1>5, <1>9, <1>10, <1>11, <1>12, <1>13, <1>14, <1>15
     DEF GraphNext, CurateStep

\* What landing does to an edge that is there.
LEMMA LandedRow ==
  ASSUME GraphInv, NEW w \in Writers, NEW v \in Sent, LandEdge(w, v),
         NEW k \in Keys, IsEdge(k)
  PROVE  edges'[k] = edges[k] \/ edges'[k] = Updated(edges[k], v)
BY DEF LandEdge, GraphInv, GraphTypeOK, IsEdge

\* No upsert changes a status that is not "proposed" (VerdictsStand): neither an extraction
\* nor the staff's own write undoes what a person decided.
THEOREM UpsertsLeaveVerdicts == GraphSpec => VerdictsStand
<1>1. ASSUME GraphInv, [GraphNext]_graphVars
      PROVE  \A w \in Writers, k \in Keys :
               (writers'[w] # writers[w] /\ IsEdge(k) /\ edges[k].status # "proposed") =>
                 edges'[k].status = edges[k].status
  <2> SUFFICES ASSUME NEW w \in Writers, NEW k \in Keys, writers'[w] # writers[w], IsEdge(k),
                      edges[k].status # "proposed"
               PROVE  edges'[k].status = edges[k].status
    OBVIOUS
  <2>1. CASE UNCHANGED edges
    BY <2>1
  <2>2. ASSUME NEW u \in Writers, NEW v \in Sent, LandEdge(u, v)
        PROVE  edges'[k].status = edges[k].status
    <3>1. edges[k] \in EdgeRow
      BY <1>1 DEF GraphInv, GraphTypeOK
    <3>2. Updated(edges[k], v).status = edges[k].status
      BY <3>1, UpdatedRow
    <3>3. edges'[k] = edges[k] \/ edges'[k] = Updated(edges[k], v)
      BY <1>1, <2>2, LandedRow
    <3> QED
      BY <3>2, <3>3
  <2> QED
    BY <1>1, <2>1, <2>2, StepsOnEdges
<1> QED
  BY <1>1, GraphIsInv, PTL DEF GraphSpec, VerdictsStand

\* No upsert changes an audience that was declared (UpsertsKeepAudiences).
THEOREM UpsertsLeaveAudiences == GraphSpec => UpsertsKeepAudiences
<1>1. ASSUME GraphInv, [GraphNext]_graphVars
      PROVE  \A w \in Writers, k \in Keys :
               (writers'[w] # writers[w] /\ IsEdge(k) /\ edges[k].audience # "") =>
                 edges'[k].audience = edges[k].audience
  <2> SUFFICES ASSUME NEW w \in Writers, NEW k \in Keys, writers'[w] # writers[w], IsEdge(k),
                      edges[k].audience # ""
               PROVE  edges'[k].audience = edges[k].audience
    OBVIOUS
  <2>1. CASE UNCHANGED edges
    BY <2>1
  <2>2. ASSUME NEW u \in Writers, NEW v \in Sent, LandEdge(u, v)
        PROVE  edges'[k].audience = edges[k].audience
    <3>1. edges[k] \in EdgeRow
      BY <1>1 DEF GraphInv, GraphTypeOK
    <3>2. Updated(edges[k], v).audience = edges[k].audience
      BY <3>1, UpdatedRow
    <3>3. edges'[k] = edges[k] \/ edges'[k] = Updated(edges[k], v)
      BY <1>1, <2>2, LandedRow
    <3> QED
      BY <3>2, <3>3
  <2> QED
    BY <1>1, <2>1, <2>2, StepsOnEdges
<1> QED
  BY <1>1, GraphIsInv, PTL DEF GraphSpec, UpsertsKeepAudiences

\* Whatever a step is, an accepted edge does not gain proposed attributes
\* (AcceptedGainNoProposals).
THEOREM ProposalsStayApart == GraphSpec => AcceptedGainNoProposals
<1>1. ASSUME GraphInv, [GraphNext]_graphVars
      PROVE  \A k \in Keys :
               (IsEdge(k) /\ edges[k].status = "accepted" /\ edges'[k].status = "accepted") =>
                 edges'[k].words \in {edges[k].words, "asserted"}
  <2> SUFFICES ASSUME NEW k \in Keys, IsEdge(k), edges[k].status = "accepted",
                      edges'[k].status = "accepted"
               PROVE  edges'[k].words \in {edges[k].words, "asserted"}
    OBVIOUS
  <2>1. CASE UNCHANGED edges
    BY <2>1
  <2>2. ASSUME NEW u \in Writers, NEW v \in Sent, LandEdge(u, v)
        PROVE  edges'[k].words \in {edges[k].words, "asserted"}
    <3>1. edges[k] \in EdgeRow /\ v.status \in {"accepted", "proposed"}
      BY <1>1, GraphAssumption DEF GraphInv, GraphTypeOK, Sent
    <3>2. Kept(edges[k], v) \in {edges[k].words, "asserted"}
      BY <3>1 DEF Kept, Merged
    <3>3. Updated(edges[k], v).words = Kept(edges[k], v)
      BY <3>1, UpdatedRow
    <3>4. edges'[k] = edges[k] \/ edges'[k] = Updated(edges[k], v)
      BY <1>1, <2>2, LandedRow
    <3>5. CASE edges'[k] = edges[k]
      BY <3>5
    <3>6. CASE edges'[k] = Updated(edges[k], v)
      BY <3>2, <3>3, <3>6
    <3> QED
      BY <3>4, <3>5, <3>6
  <2>3. CASE edges'[k].words = edges[k].words \/ edges'[k] = NoEdge
    <3>1. NoEdge.status # "accepted"
      BY DEF NoEdge
    <3> QED
      BY <2>3, <3>1
  <2> QED
    BY <1>1, <2>1, <2>2, <2>3, StepsOnEdges
<1> QED
  BY <1>1, GraphIsInv, PTL DEF GraphSpec, AcceptedGainNoProposals

\* A label designates one node or none.
LEMMA OneIsOne ==
  ASSUME NEW label
  PROVE  One(label) = {} \/ Cardinality(One(label)) = 1
BY DEF One

\* Nodes are added, deleted one by one, or purged.
LEMMA StepsOnNodes ==
  ASSUME GraphInv, [GraphNext]_graphVars
  PROVE  \/ \A n \in Nodes : IsNode(n) => IsNode(n)'
         \/ \E label \in Labels : Without(One(label))
         \/ purging
<1> DEFINE Kind == \/ \A n \in Nodes : IsNode(n) => IsNode(n)'
                   \/ \E label \in Labels : Without(One(label))
                   \/ purging
<1> SUFFICES Kind
  OBVIOUS
<1>1. /\ nodes \in [Nodes -> NodeRow]
      /\ pruners \in [Pruners -> [todo : SUBSET Listed, doomed : SUBSET Labels]]
      /\ inserted + 1 # 0 /\ inserted + 2 # 0
  BY InsertedIsNat DEF GraphInv, GraphTypeOK
<1>2. ASSUME UNCHANGED nodes PROVE Kind
  BY <1>2 DEF IsNode
<1>3. ASSUME NEW label \in Mentioned, NEW type \in Types, UpsertNode(label, type)
      PROVE  Kind
  <2>1. \A n \in Nodes : IsNode(n) => IsNode(n)'
    BY <1>1, <1>3 DEF UpsertNode, IsNode, NodeRow
  <2> QED
    BY <2>1
<1>4. ASSUME NEW w \in Writers, NEW fact \in Facts, BeginEdge(w, fact) PROVE Kind
  <2>1. \A n \in Nodes : IsNode(n) => nodes'[n] = nodes[n]
    BY <1>4 DEF BeginEdge
  <2> QED
    BY <2>1 DEF IsNode
<1> HIDE DEF Kind
<1>5. ASSUME NEW w \in Writers, WriteStep(w) PROVE Kind
  BY <1>2, <1>4, <1>5 DEF WriteStep, LandEdge, LoseEdge
<1>6. ASSUME NEW c \in Curators, ReadPending(c) \/ CurateStep(c) PROVE Kind
  BY <1>2, <1>6 DEF ReadPending, CurateStep, Judge
<1>7. CASE PersonStep
  <2>1. ASSUME NEW label \in Labels, DeleteNode(label) PROVE Kind
    BY <2>1 DEF DeleteNode, Kind
  <2>2. ASSUME NEW k \in Keys, NEW status \in Status, SetEdgeStatus(k, status) PROVE Kind
    BY <1>2, <2>2 DEF SetEdgeStatus
  <2> QED
    BY <1>2, <1>7, <2>1, <2>2 DEF PersonStep
<1>8. ASSUME NEW session \in Disliked, DeleteEdgesBySession(session) PROVE Kind
  BY <1>2, <1>8 DEF DeleteEdgesBySession
<1>9. CASE PurgeEdges \/ CrashPurge
  BY <1>2, <1>9 DEF PurgeEdges, CrashPurge
<1>10. CASE PurgeNodes
  BY <1>10 DEF PurgeNodes, Kind
<1>11. ASSUME NEW p \in Pruners, PruneStep(p) PROVE Kind
  <2>1. CASE DeleteOrphan(p)
    BY <1>1, <2>1 DEF DeleteOrphan, Kind
  <2>2. CASE ListNodes(p) \/ AskEdges(p)
    BY <1>2, <2>2 DEF ListNodes, AskEdges
  <2> QED
    BY <1>11, <2>1, <2>2 DEF PruneStep
<1>12. ASSUME NEW c \in Classifiers, ListUnclassified(c) \/ Classify(c) PROVE Kind
  BY <1>2, <1>12 DEF ListUnclassified, Classify
<1>13. CASE UNCHANGED graphVars
  BY <1>2, <1>13 DEF graphVars
<1> QED
  BY <1>3, <1>5, <1>6, <1>7, <1>8, <1>9, <1>10, <1>11, <1>12, <1>13 DEF GraphNext

\* A deletion by label, a person's or the maintenance job's, takes one node even where
\* several have the name: only a purge takes more (OneNodeIsDeleted).
THEOREM DeletionsAreSingle == GraphSpec => OneNodeIsDeleted
<1> DEFINE Gone == {n \in Nodes : IsNode(n) /\ nodes'[n] = NoNode}
<1>1. ASSUME GraphInv, [GraphNext]_graphVars
      PROVE  (\E n \in Nodes : IsNode(n) /\ ~IsNode(n)') => purging \/ Cardinality(Gone) = 1
  <2> SUFFICES ASSUME NEW n \in Nodes, IsNode(n), ~IsNode(n)', ~purging
               PROVE  Cardinality(Gone) = 1
    OBVIOUS
  <2>1. PICK label \in Labels : Without(One(label))
    BY <1>1, StepsOnNodes
  <2>2. nodes' = [m \in Nodes |-> IF m \in One(label) THEN NoNode ELSE nodes[m]]
    BY <2>1 DEF Without
  <2>3. One(label) \subseteq Nodes /\ \A m \in One(label) : IsNode(m)
    BY CalledAreNodes DEF Called
  <2>4. Gone = One(label)
    BY <2>2, <2>3, NothingIsTyped DEF IsNode
  <2>5. n \in One(label)
    BY <2>2 DEF IsNode
  <2> QED
    BY <2>4, <2>5, OneIsOne
<1> QED
  BY <1>1, GraphIsInv, PTL DEF GraphSpec, OneNodeIsDeleted

-----------------------------------------------------------------------------
(* KgReads: what its readers may rely on, from the invariant of the graph.   *)

\* Whoever reads an edge sees its ends.
LEMMA EndsAreVisible ==
  ASSUME EdgesHaveEnds, NEW viewer, NEW k \in Readable(viewer)
  PROVE  Ends(k) \subseteq VisibleNodes(viewer)
<1>1. k \in Keys /\ IsEdge(k)
  BY DEF Readable
<1>2. /\ k.source \in Nodes /\ IsNode(k.source)
      /\ k.target \in Nodes /\ IsNode(k.target)
  BY <1>1 DEF EdgesHaveEnds, Keys
<1> QED
  BY <1>2 DEF VisibleNodes, Ends

\* Whoever may read an edge may see its two nodes (EdgesShowTheirEnds), because no edge
\* is ever without them: the inference graph_stats makes from an empty ranking.
THEOREM EdgesShowEnds == GraphSpec => []EdgesShowTheirEnds
<1>1. GraphInv => EdgesShowTheirEnds
  BY EndsAreVisible DEF GraphInv, EdgesShowTheirEnds
<1> QED
  BY <1>1, GraphIsInv, PTL

\* A contact sees the nodes of the edges it reads and no other: what is visible to it
\* needs no look at the nodes themselves.
THEOREM VisibleIsDerived ==
  ASSUME EdgesHaveEnds, NEW contact \in Contacts, contact # "staff"
  PROVE  VisibleNodes(contact) = UNION {Ends(k) : k \in Readable(contact)}
<1>1. \A k \in Readable(contact) : Ends(k) \subseteq VisibleNodes(contact)
  BY EndsAreVisible
<1>2. \A n \in VisibleNodes(contact) : \E k \in Readable(contact) : n \in Ends(k)
  BY DEF VisibleNodes
<1> QED
  BY <1>1, <1>2

-----------------------------------------------------------------------------
(* KgReads: walks, which are defined by recursion on the depth.              *)

\* The rows of the recursive query, and what one more hop makes of some.
Rows == [node : Nodes, path : SUBSET Nodes]

Onward(r, k) == [node |-> OtherEnd(k, r.node), path |-> r.path \cup {OtherEnd(k, r.node)}]

OneHop(rows, ks) == UNION {{Onward(r, k) : k \in {l \in ks : Follows(r, l)}} : r \in rows}

LEMMA HopsOn ==
  ASSUME NEW rows, NEW ks, NEW s
  PROVE  s \in OneHop(rows, ks)
           <=> \E r \in rows, k \in ks : Follows(r, k) /\ s = Onward(r, k)
BY DEF OneHop

LEMMA OneHopIsRows ==
  ASSUME NEW ks \in SUBSET Keys, NEW rows \in SUBSET Rows
  PROVE  OneHop(rows, ks) \in SUBSET Rows
<1>1. ASSUME NEW k \in ks, NEW r \in rows PROVE Onward(r, k) \in Rows
  BY DEF Rows, Onward, OtherEnd, Keys
<1> QED
  BY <1>1, HopsOn

\* The rows of the recursive query, hop by hop.
LEMMA HopsAre ==
  ASSUME NEW first \in SUBSET Rows, NEW ks \in SUBSET Keys
  PROVE  /\ Hops(first, ks)[0] = first
         /\ \A d \in 1..MaxDepth :
              Hops(first, ks)[d] = OneHop(Hops(first, ks)[d - 1], ks)
         /\ \A d \in 0..MaxDepth : Hops(first, ks)[d] \in SUBSET Rows
<1> DEFINE T == [rows \in SUBSET Rows |-> OneHop(rows, ks)]
<1> DEFINE Body(h) == [d \in 0..MaxDepth |-> IF d = 0 THEN first ELSE OneHop(h[d - 1], ks)]
<1>1. Hops(first, ks) = CHOOSE h : h = Body(h)
  BY DEF Hops, OneHop, Onward
<1>2. T \in [SUBSET Rows -> SUBSET Rows]
  BY OneHopIsRows
<1>3. MaxDepth \in Nat
  BY ReaderAssumption
<1>4. PICK f \in [0..MaxDepth -> SUBSET Rows] :
        f[0] = first /\ \A n \in 1..MaxDepth : f[n] = T[f[n - 1]]
  <2> DEFINE X == SUBSET Rows
  <2>1. first \in X /\ T \in [X -> X]
    BY <1>2
  <2> HIDE DEF T, X
  <2>2. \E f \in [0..MaxDepth -> X] : CarriesOn(f, first, T, MaxDepth)
    BY <1>3, <2>1, CarriedOn
  <2> QED
    BY <2>2 DEF X, CarriesOn
<1>5. f = Body(f)
  <2>1. ASSUME NEW d \in 0..MaxDepth
        PROVE  f[d] = IF d = 0 THEN first ELSE OneHop(f[d - 1], ks)
    <3>1. CASE d = 0
      BY <1>4, <3>1
    <3>2. CASE d # 0
      <4>1. d \in 1..MaxDepth /\ d - 1 \in 0..MaxDepth
        BY <1>3, <3>2
      <4> QED
        BY <1>4, <3>2, <4>1
    <3> QED
      BY <3>1, <3>2
  <2> QED
    BY <2>1
<1> DEFINE h == Hops(first, ks)
<1>6. h = Body(h)
  <2> HIDE DEF Body
  <2> QED
    BY <1>1, <1>5
<1> HIDE DEF h
<1>7. h[0] = first
  BY <1>3, <1>6
<1>8. ASSUME NEW d \in 1..MaxDepth PROVE h[d] = OneHop(h[d - 1], ks)
  <2>1. d \in 0..MaxDepth /\ d # 0
    OBVIOUS
  <2> QED
    BY <1>6, <2>1
<1>9. \A d \in 0..MaxDepth : h[d] \in SUBSET Rows
  <2> DEFINE S == {d \in 0..MaxDepth : h[d] \in SUBSET Rows}
  <2>1. 0 \in S
    BY <1>3, <1>7
  <2>2. \A d \in 1..MaxDepth : d - 1 \in S => d \in S
    BY <1>8, OneHopIsRows
  <2> HIDE DEF S
  <2>3. \A d \in 0..MaxDepth : d \in S
    BY <1>3, <2>1, <2>2, UpTo
  <2> QED
    BY <2>3 DEF S
<1> QED
  BY <1>7, <1>8, <1>9 DEF h

\* The labels of the queue, depth by depth.
LEMMA MetAre ==
  ASSUME NEW name \in Names, NEW ks \in SUBSET Keys
  PROVE  /\ Met(name, ks)[0] = {name}
         /\ \A d \in 1..MaxDepth :
              Met(name, ks)[d] =
                Met(name, ks)[d - 1]
                  \cup UNION {{k.source[1], k.target[1]} :
                                k \in TouchingAny(Met(name, ks)[d - 1], ks)}
<1> DEFINE Wider(names) ==
      names \cup UNION {{k.source[1], k.target[1]} : k \in TouchingAny(names, ks)}
<1> DEFINE T == [names \in SUBSET Names |-> Wider(names)]
<1> DEFINE Body(h) == [d \in 0..MaxDepth |-> IF d = 0 THEN {name} ELSE Wider(h[d - 1])]
<1>1. Met(name, ks) = CHOOSE h : h = Body(h)
  BY DEF Met
<1>2. T \in [SUBSET Names -> SUBSET Names]
  <2>1. \A k \in ks : k.source[1] \in Names /\ k.target[1] \in Names
    BY DEF Keys, Nodes
  <2>2. ASSUME NEW names \in SUBSET Names PROVE Wider(names) \in SUBSET Names
    BY <2>1 DEF TouchingAny
  <2> QED
    BY <2>2
<1>3. MaxDepth \in Nat
  BY ReaderAssumption
<1>4. PICK f \in [0..MaxDepth -> SUBSET Names] :
        f[0] = {name} /\ \A n \in 1..MaxDepth : f[n] = T[f[n - 1]]
  <2> DEFINE X == SUBSET Names
  <2> DEFINE a == {name}
  <2>1. a \in X /\ T \in [X -> X]
    BY <1>2
  <2> HIDE DEF T, X, a
  <2>2. \E f \in [0..MaxDepth -> X] : CarriesOn(f, a, T, MaxDepth)
    BY <1>3, <2>1, CarriedOn
  <2> QED
    BY <2>2 DEF X, a, CarriesOn
<1>5. f = Body(f)
  <2> HIDE DEF Wider
  <2>1. ASSUME NEW d \in 0..MaxDepth
        PROVE  f[d] = IF d = 0 THEN {name} ELSE Wider(f[d - 1])
    <3>1. CASE d = 0
      BY <1>4, <3>1
    <3>2. CASE d # 0
      <4>1. d \in 1..MaxDepth /\ d - 1 \in 0..MaxDepth
        BY <1>3, <3>2
      <4> QED
        BY <1>4, <3>2, <4>1
    <3> QED
      BY <3>1, <3>2
  <2> QED
    BY <2>1
<1> DEFINE h == Met(name, ks)
<1>6. h = Body(h)
  <2> HIDE DEF Body
  <2> QED
    BY <1>1, <1>5
<1> HIDE DEF h, Wider
<1>7. h[0] = {name}
  BY <1>3, <1>6
<1>8. ASSUME NEW d \in 1..MaxDepth PROVE h[d] = Wider(h[d - 1])
  <2>1. d \in 0..MaxDepth /\ d # 0
    OBVIOUS
  <2> QED
    BY <1>6, <2>1
<1> QED
  BY <1>7, <1>8 DEF h, Wider

-----------------------------------------------------------------------------
(* What does not show.                                                       *)

LEMMA SameHop ==
  ASSUME NEW F, NEW G, NEW ks,
         \A k \in ks, r \in F \cup G : Follows(r, k) => (r \in F <=> r \in G)
  PROVE  OneHop(F, ks) = OneHop(G, ks)
<1>1. OneHop(F, ks) \subseteq OneHop(G, ks)
  BY HopsOn
<1>2. OneHop(G, ks) \subseteq OneHop(F, ks)
  BY HopsOn
<1> QED
  BY <1>1, <1>2

\* Rows from which no edge leads anywhere change nothing of a walk.
LEMMA RoutesAlike ==
  ASSUME NEW F \in SUBSET Rows, NEW G \in SUBSET Rows, NEW ks \in SUBSET Keys,
         \A k \in ks, r \in F \cup G : Follows(r, k) => (r \in F <=> r \in G)
  PROVE  \A d \in 0..MaxDepth, k \in ks :
           (\E r \in Hops(F, ks)[d] : Follows(r, k))
             <=> (\E r \in Hops(G, ks)[d] : Follows(r, k))
<1> DEFINE f == Hops(F, ks)
<1> DEFINE g == Hops(G, ks)
<1>1. /\ f[0] = F /\ \A d \in 1..MaxDepth : f[d] = OneHop(f[d - 1], ks)
      /\ g[0] = G /\ \A d \in 1..MaxDepth : g[d] = OneHop(g[d - 1], ks)
  BY HopsAre
<1> HIDE DEF f, g
<1> DEFINE S == {d \in 0..MaxDepth : d = 0 \/ f[d] = g[d]}
<1>2. MaxDepth \in Nat
  BY ReaderAssumption
<1>3. 0 \in S
  BY <1>2
<1>4. ASSUME NEW d \in 1..MaxDepth, d - 1 \in S PROVE d \in S
  <2>1. d \in 0..MaxDepth /\ (d - 1 = 0 \/ f[d - 1] = g[d - 1])
    BY <1>4
  <2>2. CASE d - 1 = 0
    <3>1. f[d] = OneHop(F, ks) /\ g[d] = OneHop(G, ks)
      BY <1>1, <2>2
    <3>2. OneHop(F, ks) = OneHop(G, ks)
      BY SameHop
    <3> QED
      BY <2>1, <3>1, <3>2
  <2>3. CASE f[d - 1] = g[d - 1]
    BY <1>1, <2>1, <2>3
  <2> QED
    BY <2>1, <2>2, <2>3
<1> HIDE DEF S
<1>5. \A d \in 0..MaxDepth : d \in S
  BY <1>2, <1>3, <1>4, UpTo
<1>6. ASSUME NEW d \in 0..MaxDepth, NEW k \in ks
      PROVE  (\E r \in f[d] : Follows(r, k)) <=> (\E r \in g[d] : Follows(r, k))
  <2>1. d = 0 \/ f[d] = g[d]
    BY <1>5 DEF S
  <2>2. CASE d = 0
    BY <1>1, <2>2
  <2> QED
    BY <2>1, <2>2
<1> QED
  BY <1>6 DEF f, g

\* What a walk returns, of the rows it starts from and the edges it may follow.
WalkOver(F, ks, depth) ==
  {k \in ks : \E d \in 0..(depth - 1) : \E r \in Hops(F, ks)[d] : Follows(r, k)}

LEMMA WalkIsOver ==
  \A viewer, name, depth :
    Walk(viewer, name, depth) = WalkOver(From(name), Spoken(viewer), depth)
BY DEF Walk, WalkOver

LEMMA FromIsRows == \A name : From(name) \in SUBSET Rows
BY DEF From, Rows

\* A step that leaves the edges a contact may read leaves all it is answered, but for what
\* hidden edges offer.
LEMMA AnswersHold ==
  ASSUME EdgesHaveEnds, EdgesHaveEnds', NEW contact \in Contacts,
         Readable(contact)' = Readable(contact),
         \A k \in Readable(contact) : edges'[k] = edges[k]
  PROVE  /\ Answers(contact)' = Answers(contact)
         /\ \A n \in Nodes :
              \/ n \in Related(contact)' <=> n \in Related(contact)
              \/ n \in VisibleNodes(contact) /\ HiddenAt(contact, n)' # HiddenAt(contact, n)
<1>1. contact # "staff"
  BY ReaderAssumption DEF Contacts
<1>2. Spoken(contact)' = Spoken(contact)
  BY DEF Spoken
<1>3. Pending(contact)' = Pending(contact)
  BY DEF Pending
<1>4. VisibleNodes(contact)' = VisibleNodes(contact)
  <2>1. VisibleNodes(contact) = UNION {Ends(k) : k \in Readable(contact)}
    BY <1>1, VisibleIsDerived
  <2>2. ASSUME NEW n \in Nodes
        PROVE  n \in VisibleNodes(contact)' <=> \E k \in Readable(contact)' : n \in Ends(k)
    <3>1. ASSUME NEW k \in Readable(contact)', n \in Ends(k) PROVE IsNode(n)'
      BY <3>1 DEF Readable, EdgesHaveEnds, Ends
    <3> QED
      BY <1>1, <3>1 DEF VisibleNodes
  <2>3. \A n \in VisibleNodes(contact)' : n \in Nodes
    BY DEF VisibleNodes
  <2>4. \A k \in Readable(contact)' : Ends(k) \subseteq Nodes
    BY DEF Readable, Ends, Keys
  <2> QED
    BY <2>1, <2>2, <2>3, <2>4
<1>5. ASSUME NEW name \in Names, NEW depth \in 0..(MaxDepth + 1)
      PROVE  Walk(contact, name, depth)' = Walk(contact, name, depth)
  <2>1. PICK F, G, ks : F = From(name) /\ G = From(name)' /\ ks = Spoken(contact)
    OBVIOUS
  <2>2. F \in SUBSET Rows /\ G \in SUBSET Rows /\ ks \in SUBSET Keys
    BY <2>1 DEF From, Rows, Spoken, Readable
  <2>3. \A k \in ks : \A n \in Ends(k) : IsNode(n) /\ IsNode(n)'
    BY <1>2, <2>1 DEF Spoken, Readable, EdgesHaveEnds, Ends
  <2>4. ASSUME NEW k \in ks, NEW r \in F \cup G, Follows(r, k)
        PROVE  r \in F <=> r \in G
    <3>1. PICK n \in Nodes : n[1] = name /\ r = [node |-> n, path |-> {n}]
      BY <2>1 DEF From
    <3>2. IsNode(n) /\ IsNode(n)'
      BY <2>3, <2>4, <3>1 DEF Follows
    <3> QED
      BY <2>1, <3>1, <3>2 DEF From
  <2>5. \A d \in 0..MaxDepth, k \in ks :
           (\E r \in Hops(F, ks)[d] : Follows(r, k))
             <=> (\E r \in Hops(G, ks)[d] : Follows(r, k))
    BY <2>2, <2>4, RoutesAlike
  <2>6. WalkOver(F, ks, depth) = WalkOver(G, ks, depth)
    <3>1. \A d \in 0..(depth - 1) : d \in 0..MaxDepth
      BY ReaderAssumption
    <3> QED
      BY <2>5, <3>1 DEF WalkOver
  <2>7. /\ Walk(contact, name, depth) = WalkOver(F, ks, depth)
        /\ Walk(contact, name, depth)' = WalkOver(G, ks, depth)
    BY <1>2, <2>1 DEF Walk, WalkOver
  <2> QED
    BY <2>6, <2>7
<1>6. \A name \in Names : Neighbors(contact, name)' = Neighbors(contact, name)
  BY <1>2 DEF Neighbors
<1>7. \A n \in Nodes : Degree(contact, n)' = Degree(contact, n)
  BY <1>2 DEF Degree
<1>8. \A name \in Names :
        /\ Walk(contact, name, MaxDepth)' = Walk(contact, name, MaxDepth)
        /\ Walk(contact, name, 1)' = Walk(contact, name, 1)
  <2>1. MaxDepth \in 0..(MaxDepth + 1) /\ 1 \in 0..(MaxDepth + 1)
    BY ReaderAssumption
  <2> QED
    BY <1>5, <2>1
<1>9. \A name \in Names :
        /\ Named(contact, name)' = Named(contact, name)
        /\ CountNodes(contact, name)' = CountNodes(contact, name)
  BY <1>4 DEF Named, CountNodes
<1>10. \A name \in Names : ContextEdges(contact, name)' = ContextEdges(contact, name)
  BY <1>8, <1>9 DEF ContextEdges
<1>11. TotalEdges(contact, 1)' = TotalEdges(contact, 1)
  BY <1>2, <1>4 DEF TotalEdges
<1>12. /\ [name \in Names |-> Walk(contact, name, MaxDepth)]'
            = [name \in Names |-> Walk(contact, name, MaxDepth)]
       /\ [name \in Names |-> Neighbors(contact, name)]'
            = [name \in Names |-> Neighbors(contact, name)]
       /\ [name \in Names |-> ContextEdges(contact, name)]'
            = [name \in Names |-> ContextEdges(contact, name)]
       /\ [name \in Names |-> CountNodes(contact, name)]'
            = [name \in Names |-> CountNodes(contact, name)]
       /\ [n \in Nodes |-> Degree(contact, n)]' = [n \in Nodes |-> Degree(contact, n)]
  BY <1>6, <1>7, <1>8, <1>9, <1>10
<1>13. Answers(contact)' = Answers(contact)
  BY <1>3, <1>4, <1>11, <1>12 DEF Answers
<1>14. ASSUME NEW n \in Nodes
       PROVE  \/ n \in Related(contact)' <=> n \in Related(contact)
              \/ n \in VisibleNodes(contact) /\ HiddenAt(contact, n)' # HiddenAt(contact, n)
  <2> DEFINE At(k) == edges[k].status = "accepted" /\ n \in Ends(k)
  <2>1. /\ n \in Related(contact) <=>
             n \in VisibleNodes(contact) /\ \E k \in Keys : IsEdge(k) /\ At(k)
        /\ n \in Related(contact)' <=>
             n \in VisibleNodes(contact)' /\ \E k \in Keys : IsEdge(k)' /\ At(k)'
    BY DEF Related
  <2>2. /\ HiddenAt(contact, n) <=> \E k \in Keys \ Readable(contact) : IsEdge(k) /\ At(k)
        /\ HiddenAt(contact, n)' <=>
             \E k \in Keys \ Readable(contact) : IsEdge(k)' /\ At(k)'
    BY DEF HiddenAt
  <2>3. \A k \in Readable(contact) :
          k \in Keys /\ IsEdge(k) /\ IsEdge(k)' /\ (At(k) <=> At(k)')
    BY DEF Readable
  <2> HIDE DEF At
  <2> QED
    BY <1>4, <2>1, <2>2, <2>3
<1> QED
  BY <1>13, <1>14

\* What a contact may not read does not show in what it reads: not by what it routes, counts
\* or leaves out.  The one answer in which it does is whether a node that it sees is offered
\* for a walk, and there by a hidden edge at that node alone.
THEOREM HiddenStays == GraphSpec => HiddenShowsInOffersAlone
<1> DEFINE Hidden ==
      \A contact \in Contacts :
        (/\ Readable(contact)' = Readable(contact)
         /\ \A k \in Readable(contact) : edges'[k] = edges[k]) =>
          /\ Answers(contact)' = Answers(contact)
          /\ \A n \in Nodes :
               \/ n \in Related(contact)' <=> n \in Related(contact)
               \/ n \in VisibleNodes(contact) /\ HiddenAt(contact, n)' # HiddenAt(contact, n)
<1>1. GraphInv /\ GraphInv' => Hidden
  BY AnswersHold DEF GraphInv
<1> QED
  BY <1>1, GraphIsInv, PTL DEF HiddenShowsInOffersAlone

-----------------------------------------------------------------------------
(* The two walks                                                             *)

\* A row stands at a node the queue has met by then, and on its own path.
LEMMA RowsAreMet ==
  ASSUME NEW N \in SUBSET Nodes, NEW ks \in SUBSET Keys, \A k \in ks : Ends(k) \subseteq N,
         NEW name \in Names, NEW F \in SUBSET Rows,
         \A r \in F : r.node \in N /\ r.node[1] = name /\ r.node \in r.path
  PROVE  \A d \in 0..MaxDepth : \A r \in Hops(F, ks)[d] :
           r.node \in N /\ r.node \in r.path /\ r.node[1] \in Met(name, ks)[d]
<1> DEFINE hops == Hops(F, ks)
<1> DEFINE met == Met(name, ks)
<1> DEFINE Good(d) == \A r \in hops[d] : r.node \in N /\ r.node \in r.path /\ r.node[1] \in met[d]
<1> DEFINE S == {d \in 0..MaxDepth : Good(d)}
<1>1. /\ hops[0] = F
      /\ \A d \in 1..MaxDepth : hops[d] = OneHop(hops[d - 1], ks)
  BY HopsAre
<1>2. /\ met[0] = {name}
      /\ \A d \in 1..MaxDepth :
           met[d] = met[d - 1] \cup UNION {{k.source[1], k.target[1]} :
                                             k \in TouchingAny(met[d - 1], ks)}
  BY MetAre
<1> HIDE DEF hops, met
<1>3. MaxDepth \in Nat
  BY ReaderAssumption
<1>4. 0 \in S
  BY <1>1, <1>2, <1>3
<1>5. ASSUME NEW d \in 1..MaxDepth, d - 1 \in S PROVE d \in S
  <2> SUFFICES ASSUME NEW r \in hops[d]
               PROVE  r.node \in N /\ r.node \in r.path /\ r.node[1] \in met[d]
    OBVIOUS
  <2>1. PICK q \in hops[d - 1], k \in ks :
          Follows(q, k) /\ r = Onward(q, k)
    BY <1>1, HopsOn
  <2>2. r.node = OtherEnd(k, q.node) /\ r.node \in r.path
    BY <2>1 DEF Onward
  <2>3. q.node \in Ends(k) /\ OtherEnd(k, q.node) \in Ends(k)
    BY <2>1 DEF Follows, OtherEnd, Ends
  <2>4. q.node[1] \in met[d - 1]
    BY <1>5
  <2>5. k \in TouchingAny(met[d - 1], ks)
    BY <2>3, <2>4 DEF TouchingAny, Ends
  <2>6. r.node[1] \in {k.source[1], k.target[1]}
    BY <2>2, <2>3 DEF Ends
  <2>7. r.node[1] \in met[d]
    BY <1>2, <2>5, <2>6
  <2> QED BY <2>2, <2>3, <2>7
<1> HIDE DEF S
<1>6. \A d \in 0..MaxDepth : d \in S
  BY <1>3, <1>4, <1>5, UpTo
<1> QED BY <1>6 DEF S, hops, met

\* What the queue has met it has met later on too.
LEMMA MetGrows ==
  ASSUME NEW ks \in SUBSET Keys, NEW name \in Names
  PROVE  \A d \in 0..MaxDepth : \A e \in 0..d : Met(name, ks)[e] \subseteq Met(name, ks)[d]
<1> DEFINE met == Met(name, ks)
<1> DEFINE S == {d \in 0..MaxDepth : \A e \in 0..d : met[e] \subseteq met[d]}
<1>1. \A d \in 1..MaxDepth : met[d - 1] \subseteq met[d]
  BY MetAre
<1> HIDE DEF met
<1>2. MaxDepth \in Nat
  BY ReaderAssumption
<1>3. 0 \in S
  BY <1>2
<1>4. ASSUME NEW d \in 1..MaxDepth, d - 1 \in S PROVE d \in S
  <2>1. ASSUME NEW e \in 0..d PROVE met[e] \subseteq met[d]
    <3>1. CASE e = d
      BY <3>1
    <3>2. CASE e # d
      <4>1. e \in 0..(d - 1)
        BY <3>2
      <4>2. met[e] \subseteq met[d - 1]
        BY <1>4, <4>1
      <4> QED BY <1>1, <4>2
    <3> QED BY <3>1, <3>2
  <2> QED BY <2>1
<1> HIDE DEF S
<1>5. \A d \in 0..MaxDepth : d \in S
  BY <1>2, <1>3, <1>4, UpTo
<1> QED BY <1>5 DEF S, met

\* A row comes to whatever the queue meets at some depth, by a path of what was met before.
Reached(n, d, rows, met) ==
  \E r \in rows : r.node = n /\ \A p \in r.path : p = n \/ (d > 0 /\ p[1] \in met[d - 1])

\* The first rows of a walk, the scope having the nodes N.
StartsAt(N, name) == {[node |-> n, path |-> {n}] : n \in {m \in N : m[1] = name}}

Single(N) == \A m, n \in N : m[1] = n[1] => m = n

NewlyMet(n, d, met) == n[1] \in met[d] /\ (d = 0 \/ n[1] \notin met[d - 1])

LEMMA MetIsReached ==
  ASSUME NEW N \in SUBSET Nodes, Single(N),
         NEW ks \in SUBSET Keys, \A k \in ks : Ends(k) \subseteq N,
         NEW name \in Names, NEW F \in SUBSET Rows, F = StartsAt(N, name)
  PROVE  \A d \in 0..MaxDepth, n \in N :
           NewlyMet(n, d, Met(name, ks)) => Reached(n, d, Hops(F, ks)[d], Met(name, ks))
<1> DEFINE hops == Hops(F, ks)
<1> DEFINE met == Met(name, ks)
<1> DEFINE S == {d \in 0..MaxDepth :
                   \A n \in N : NewlyMet(n, d, met) => Reached(n, d, hops[d], met)}
<1>1. /\ hops[0] = F
      /\ \A d \in 1..MaxDepth : hops[d] = OneHop(hops[d - 1], ks)
  BY HopsAre
<1>2. /\ met[0] = {name}
      /\ \A d \in 1..MaxDepth :
           met[d] = met[d - 1] \cup UNION {{k.source[1], k.target[1]} :
                                             k \in TouchingAny(met[d - 1], ks)}
  BY MetAre
<1> HIDE DEF hops, met
<1>3. MaxDepth \in Nat
  BY ReaderAssumption
<1>4. 0 \in S
  <2> SUFFICES ASSUME NEW n \in N, n[1] = name PROVE Reached(n, 0, hops[0], met)
    BY <1>2, <1>3 DEF NewlyMet
  <2> DEFINE r == [node |-> n, path |-> {n}]
  <2>1. r \in hops[0] /\ r.node = n /\ r.path = {n}
    BY <1>1 DEF StartsAt
  <2> QED BY <2>1 DEF Reached
<1>5. ASSUME NEW d \in 1..MaxDepth, d - 1 \in S PROVE d \in S
  <2> SUFFICES ASSUME NEW n \in N, NewlyMet(n, d, met) PROVE Reached(n, d, hops[d], met)
    OBVIOUS
  <2>1. d \in Nat /\ d # 0 /\ d > 0 /\ d - 1 \in 0..MaxDepth
    BY <1>3
  <2>2. n[1] \in met[d] /\ n[1] \notin met[d - 1]
    BY <2>1 DEF NewlyMet
  <2>3. PICK k \in ks : /\ {k.source[1], k.target[1]} \cap met[d - 1] # {}
                        /\ n[1] \in {k.source[1], k.target[1]}
    BY <1>2, <2>2 DEF TouchingAny
  <2>4. k.source \in N /\ k.target \in N
    BY DEF Ends
  <2>5. PICK m \in N : m \in Ends(k) /\ n \in Ends(k) /\ OtherEnd(k, m) = n /\ m # n
                       /\ m[1] \in met[d - 1]
    <3>1. CASE n[1] = k.source[1]
      <4>1. n = k.source /\ k.target[1] \in met[d - 1]
        BY <2>2, <2>3, <2>4, <3>1 DEF Single
      <4>2. k.target # n
        BY <2>2, <4>1
      <4> QED BY <2>4, <4>1, <4>2 DEF Ends, OtherEnd
    <3>2. CASE n[1] = k.target[1] /\ n[1] # k.source[1]
      <4>1. n = k.target /\ k.source[1] \in met[d - 1]
        BY <2>2, <2>3, <2>4, <3>2 DEF Single
      <4>2. k.source # n
        BY <2>2, <4>1
      <4> QED BY <2>4, <4>1, <4>2 DEF Ends, OtherEnd
    <3> QED BY <2>3, <3>1, <3>2
  <2>6. NewlyMet(m, d - 1, met)
    <3> SUFFICES ASSUME d - 1 # 0, m[1] \in met[(d - 1) - 1] PROVE FALSE
      BY <2>5 DEF NewlyMet
    <3>1. d - 1 \in 1..MaxDepth
      BY <2>1
    <3>2. k \in TouchingAny(met[(d - 1) - 1], ks)
      BY <2>5 DEF TouchingAny, Ends
    <3>3. n[1] \in met[d - 1]
      BY <1>2, <2>3, <3>1, <3>2
    <3> QED BY <2>2, <3>3
  <2>7. PICK r \in hops[d - 1] :
          /\ r.node = m
          /\ \A p \in r.path : p = m \/ (d - 1 > 0 /\ p[1] \in met[(d - 1) - 1])
    BY <1>5, <2>6 DEF Reached
  <2>8. \A p \in r.path : p[1] \in met[d - 1]
    <3> SUFFICES ASSUME NEW p \in r.path, p # m PROVE p[1] \in met[d - 1]
      BY <2>5
    <3>1. d - 1 \in 1..MaxDepth /\ p[1] \in met[(d - 1) - 1]
      BY <2>1, <2>7
    <3> QED BY <1>2, <3>1
  <2> DEFINE q == [node |-> n, path |-> r.path \cup {n}]
  <2>9. Follows(r, k) /\ OtherEnd(k, r.node) = n
    BY <2>2, <2>5, <2>7, <2>8 DEF Follows
  <2>10. q \in hops[d]
    <3>1. q = Onward(r, k)
      BY <2>9 DEF Onward
    <3> HIDE DEF q
    <3>2. q \in OneHop(hops[d - 1], ks)
      BY <2>9, <3>1, HopsOn
    <3> QED BY <1>1, <3>2
  <2>11. q.node = n /\ q.path = r.path \cup {n}
    OBVIOUS
  <2> HIDE DEF q
  <2> QED BY <2>1, <2>8, <2>10, <2>11 DEF Reached
<1> HIDE DEF S
<1>6. \A d \in 0..MaxDepth : d \in S
  BY <1>3, <1>4, <1>5, UpTo
<1> QED BY <1>6 DEF S, hops, met

\* Where a label is one node, the paths and the queue reach the same edges, but for those
\* from a node to itself.
LEMMA WalksAlike ==
  ASSUME NEW N \in SUBSET Nodes, Single(N),
         NEW ks \in SUBSET Keys, \A k \in ks : Ends(k) \subseteq N,
         NEW name \in Names, NEW F \in SUBSET Rows, F = StartsAt(N, name),
         NEW depth \in 1..(MaxDepth + 1)
  PROVE  WalkOver(F, ks, depth) =
           {k \in TouchingAny(Met(name, ks)[depth - 1], ks) : k.source # k.target}
<1> DEFINE hops == Hops(F, ks)
<1> DEFINE met == Met(name, ks)
<1>1. MaxDepth \in Nat /\ depth - 1 \in 0..MaxDepth
  BY ReaderAssumption
<1>2. \A d \in 0..MaxDepth : \A r \in hops[d] :
        r.node \in N /\ r.node \in r.path /\ r.node[1] \in met[d]
  <2>1. \A r \in F : r.node \in N /\ r.node[1] = name /\ r.node \in r.path
    BY DEF StartsAt
  <2> QED BY <2>1, RowsAreMet
<1>3. \A d \in 0..(depth - 1) : met[d] \subseteq met[depth - 1]
  BY <1>1, MetGrows
<1>4. \A d \in 0..MaxDepth, n \in N : NewlyMet(n, d, met) => Reached(n, d, hops[d], met)
  BY MetIsReached
<1>5. \A d \in 0..(depth - 1) : d \in 0..MaxDepth
  BY <1>1
<1> HIDE DEF hops, met
<1>6. ASSUME NEW k \in ks, NEW d \in 0..(depth - 1), NEW r \in hops[d], Follows(r, k)
      PROVE  k \in TouchingAny(met[depth - 1], ks) /\ k.source # k.target
  <2>1. r.node \in r.path /\ r.node[1] \in met[depth - 1]
    BY <1>2, <1>3, <1>5
  <2>2. r.node \in Ends(k) /\ OtherEnd(k, r.node) \notin r.path
    BY <1>6 DEF Follows
  <2> QED BY <2>1, <2>2 DEF TouchingAny, Ends, OtherEnd
<1>7. ASSUME NEW k \in ks, k \in TouchingAny(met[depth - 1], ks), k.source # k.target
      PROVE  \E d \in 0..(depth - 1) : \E r \in hops[d] : Follows(r, k)
  <2> DEFINE T == {d \in 0..(depth - 1) : k \in TouchingAny(met[d], ks)}
  <2>1. T \subseteq Nat /\ depth - 1 \in T
    BY <1>1, <1>7
  <2> HIDE DEF T
  <2>2. PICK d \in T : \A e \in T : d <= e
    BY <2>1, LeastOf
  <2>3. d \in 0..(depth - 1) /\ d \in Nat /\ k \in TouchingAny(met[d], ks)
    BY <1>1, <2>2 DEF T
  <2>4. d > 0 => \A p \in Ends(k) : p[1] \notin met[d - 1]
    <3> SUFFICES ASSUME d > 0, NEW p \in Ends(k), p[1] \in met[d - 1] PROVE FALSE
      OBVIOUS
    <3>1. d - 1 \in 0..(depth - 1)
      BY <1>1, <2>3
    <3>2. k \in TouchingAny(met[d - 1], ks)
      BY DEF TouchingAny, Ends
    <3>3. d - 1 \in T
      BY <3>1, <3>2 DEF T
    <3>4. d <= d - 1
      BY <2>2, <3>3
    <3> QED BY <2>3, <3>4
  <2>5. PICK n \in Ends(k) : n[1] \in met[d]
    BY <2>3 DEF TouchingAny, Ends
  <2>6. n \in N /\ NewlyMet(n, d, met)
    BY <2>3, <2>4, <2>5 DEF NewlyMet
  <2>7. PICK r \in hops[d] :
          r.node = n /\ \A p \in r.path : p = n \/ (d > 0 /\ p[1] \in met[d - 1])
    BY <1>4, <1>5, <2>3, <2>6 DEF Reached
  <2>8. OtherEnd(k, n) \in Ends(k) /\ OtherEnd(k, n) # n
    BY <1>7, <2>5 DEF OtherEnd, Ends
  <2>9. Follows(r, k)
    BY <2>4, <2>7, <2>8 DEF Follows
  <2> QED BY <2>3, <2>9
<1>8. WalkOver(F, ks, depth) =
        {k \in ks : \E d \in 0..(depth - 1) : \E r \in hops[d] : Follows(r, k)}
  BY DEF WalkOver, hops
<1>9. TouchingAny(met[depth - 1], ks) \subseteq ks
  BY DEF TouchingAny
<1>10. WalkOver(F, ks, depth) = {k \in TouchingAny(met[depth - 1], ks) : k.source # k.target}
  BY <1>6, <1>7, <1>8, <1>9
<1> QED BY <1>10 DEF met

\* Two nodes of a scope may share a folded label, where their types differ; here none do.
LabelsAreSingle == \A m, n \in Nodes : IsNode(m) /\ IsNode(n) /\ m[1] = n[1] => m = n

LEMMA SpokenStand ==
  ASSUME EdgesHaveEnds, NEW viewer
  PROVE  \A k \in Readable(viewer) \cup Spoken(viewer) :
           /\ k \in Keys /\ IsEdge(k) /\ k.source \in Nodes /\ k.target \in Nodes
           /\ IsNode(k.source) /\ IsNode(k.target)
BY DEF EdgesHaveEnds, Readable, Spoken, Keys

LEMMA WalkIsTouching ==
  ASSUME EdgesHaveEnds, LabelsAreSingle, NEW viewer, NEW name \in Names,
         NEW depth \in 1..(MaxDepth + 1)
  PROVE  Walk(viewer, name, depth) =
           {k \in TouchingAny(Met(name, Spoken(viewer))[depth - 1], Spoken(viewer)) :
              k.source # k.target}
<1>1. PICK N, ks, F : N = {n \in Nodes : IsNode(n)} /\ ks = Spoken(viewer) /\ F = From(name)
  OBVIOUS
<1>2. N \in SUBSET Nodes /\ Single(N)
  BY <1>1 DEF LabelsAreSingle, Single
<1>3. ks \in SUBSET Keys /\ \A k \in ks : Ends(k) \subseteq N
  BY <1>1, SpokenStand DEF Ends
<1>4. F \in SUBSET Rows /\ F = StartsAt(N, name)
  BY <1>1, FromIsRows DEF From, StartsAt
<1>5. WalkOver(F, ks, depth) =
        {k \in TouchingAny(Met(name, ks)[depth - 1], ks) : k.source # k.target}
  BY <1>2, <1>3, <1>4, WalksAlike
<1> QED BY <1>1, <1>5, WalkIsOver

\* The two adapters walk alike, to any depth and over any graph, where a folded label is one
\* node.
THEOREM WalksAgree == GraphSpec => [](LabelsAreSingle => SameWalk)
<1>1. ASSUME EdgesHaveEnds, LabelsAreSingle PROVE SameWalk
  <2> SUFFICES ASSUME NEW viewer \in Viewers, NEW name \in Names, NEW depth \in 0..MaxDepth
               PROVE  Walk(viewer, name, depth) =
                        {k \in WalkInMemory(viewer, name, depth) : k.source # k.target}
    BY DEF SameWalk
  <2>1. MaxDepth \in Nat
    BY ReaderAssumption
  <2>2. CASE depth = 0
    <3>1. 0..(depth - 1) = {}
      BY <2>2
    <3> QED BY <2>2, <3>1 DEF Walk, WalkInMemory
  <2>3. CASE depth # 0
    <3>1. depth \in 1..(MaxDepth + 1)
      BY <2>1, <2>3
    <3> QED BY <1>1, <2>3, <3>1, WalkIsTouching DEF WalkInMemory
  <2> QED BY <2>2, <2>3
<1> QED BY <1>1, EdgesKeepEnds, PTL

-----------------------------------------------------------------------------
(* The other answers                                                         *)

LEMMA NodeOfLabel ==
  ASSUME LabelsAreSingle, NEW n \in Nodes, IsNode(n), NEW m \in Nodes, IsNode(m)
  PROVE  m[1] = n[1] <=> m = n
BY DEF LabelsAreSingle

LEMMA ListsAlike ==
  ASSUME EdgesHaveEnds, LabelsAreSingle, NEW viewer \in Viewers
  PROVE  VisibleNodes(viewer) = ListInMemory(viewer)
<1> SUFFICES ASSUME NEW n \in Nodes, IsNode(n)
             PROVE  (viewer = "staff" \/ \E k \in Readable(viewer) : n \in Ends(k))
                      <=> n[1] \in VisibleLabels(viewer)
  BY DEF VisibleNodes, ListInMemory
<1>1. CASE viewer = "staff"
  BY <1>1 DEF VisibleLabels
<1>2. CASE viewer # "staff"
  <2>1. \A k \in Readable(viewer) : n \in Ends(k) <=> n[1] \in {k.source[1], k.target[1]}
    BY SpokenStand, NodeOfLabel DEF Ends
  <2> QED BY <1>2, <2>1 DEF VisibleLabels, LabelsOf
<1> QED BY <1>1, <1>2

LEMMA RelatedAlike ==
  ASSUME EdgesHaveEnds, LabelsAreSingle, NEW viewer \in Viewers
  PROVE  Related(viewer) = RelatedInMemory(viewer)
<1> DEFINE ks == {k \in Keys : IsEdge(k) /\ edges[k].status = "accepted"}
<1>1. \A k \in ks : /\ k.source \in Nodes /\ k.target \in Nodes
                    /\ IsNode(k.source) /\ IsNode(k.target)
  BY DEF EdgesHaveEnds, Keys
<1>2. ASSUME NEW n \in Nodes, IsNode(n)
      PROVE  (\E k \in ks : n \in Ends(k)) <=> n[1] \in LabelsOf(ks)
  <2>1. \A k \in ks : n \in Ends(k) <=> n[1] \in {k.source[1], k.target[1]}
    BY <1>1, <1>2, NodeOfLabel DEF Ends
  <2> QED BY <2>1 DEF LabelsOf
<1>3. VisibleNodes(viewer) = ListInMemory(viewer)
      /\ \A n \in VisibleNodes(viewer) : n \in Nodes /\ IsNode(n)
  BY ListsAlike DEF VisibleNodes
<1> QED BY <1>2, <1>3 DEF Related, RelatedInMemory

LEMMA NeighborsAlike ==
  ASSUME EdgesHaveEnds, LabelsAreSingle, NEW viewer \in Viewers, NEW name \in Names
  PROVE  Neighbors(viewer, name) = NeighborsInMemory(viewer, name)
<1> DEFINE ks == Spoken(viewer)
<1> DEFINE ahead == {k.target[1] : k \in {l \in ks : l.source[1] = name}}
<1> DEFINE back == {k.source[1] : k \in {l \in ks : l.source[1] # name /\ l.target[1] = name}}
<1>1. \A k \in ks : /\ k.source \in Nodes /\ k.target \in Nodes
                    /\ IsNode(k.source) /\ IsNode(k.target)
                    /\ (k.source[1] = k.target[1] => k.source = k.target)
  BY SpokenStand, NodeOfLabel
<1>2. Neighbors(viewer, name) = UNION {{OtherEnd(k, n) : n \in {m \in Ends(k) : m[1] = name}} :
                                         k \in ks}
  BY DEF Neighbors
<1>3. NeighborsInMemory(viewer, name) = {n \in Nodes : IsNode(n) /\ n[1] \in ahead \cup back}
  BY DEF NeighborsInMemory
<1> HIDE DEF ks
<1>4. ASSUME NEW k \in ks, NEW n \in Ends(k), n[1] = name
      PROVE  /\ OtherEnd(k, n) \in Nodes /\ IsNode(OtherEnd(k, n))
             /\ OtherEnd(k, n)[1] \in ahead \cup back
  <2>1. CASE k.source = n
    BY <1>1, <1>4, <2>1 DEF OtherEnd
  <2>2. CASE k.source # n
    <3>1. k.target = n /\ k.source[1] # name
      BY <1>1, <1>4, <2>2 DEF Ends
    <3> QED BY <1>1, <1>4, <2>2, <3>1 DEF OtherEnd
  <2> QED BY <2>1, <2>2
<1>5. ASSUME NEW m \in Nodes, IsNode(m), m[1] \in ahead \cup back
      PROVE  \E k \in ks : \E n \in Ends(k) : n[1] = name /\ OtherEnd(k, n) = m
  <2>1. CASE m[1] \in ahead
    <3>1. PICK k \in ks : k.source[1] = name /\ m[1] = k.target[1]
      BY <2>1
    <3>2. m = k.target
      BY <1>1, <1>5, <3>1, NodeOfLabel
    <3> QED BY <3>1, <3>2 DEF Ends, OtherEnd
  <2>2. CASE m[1] \in back
    <3>1. PICK k \in ks : k.source[1] # name /\ k.target[1] = name /\ m[1] = k.source[1]
      BY <2>2
    <3>2. m = k.source
      BY <1>1, <1>5, <3>1, NodeOfLabel
    <3> QED BY <3>1, <3>2 DEF Ends, OtherEnd
  <2> QED BY <1>5, <2>1, <2>2
<1> HIDE DEF ahead, back
<1>6. Neighbors(viewer, name) \subseteq NeighborsInMemory(viewer, name)
  BY <1>2, <1>3, <1>4
<1>7. NeighborsInMemory(viewer, name) \subseteq Neighbors(viewer, name)
  BY <1>2, <1>3, <1>5
<1> QED BY <1>6, <1>7

\* What a context is: the spoken edges of the label, but for those from a node to itself.
LEMMA ContextIs ==
  ASSUME EdgesHaveEnds, LabelsAreSingle, NEW viewer, NEW name \in Names,
         Named(viewer, name) # {}
  PROVE  ContextEdges(viewer, name) =
           {k \in Spoken(viewer) : name \in {k.source[1], k.target[1]} /\ k.source # k.target}
<1>1. Met(name, Spoken(viewer))[1 - 1] = {name}
  <2>1. Spoken(viewer) \in SUBSET Keys
    BY DEF Spoken, Readable
  <2>2. Met(name, Spoken(viewer))[0] = {name}
    BY <2>1, MetAre
  <2> QED BY <2>2
<1>2. 1 \in 1..(MaxDepth + 1)
  BY ReaderAssumption
<1>3. Walk(viewer, name, 1) =
        {k \in TouchingAny({name}, Spoken(viewer)) : k.source # k.target}
  BY <1>1, <1>2, WalkIsTouching
<1> QED BY <1>3 DEF ContextEdges, TouchingAny

LEMMA ContextsAlike ==
  ASSUME EdgesHaveEnds, LabelsAreSingle, NEW viewer \in Viewers, NEW name \in Names
  PROVE  ContextEdges(viewer, name) =
           {k \in ContextInMemory(viewer, name) : k.source # k.target}
<1>1. Named(viewer, name) = {n \in ListInMemory(viewer) : n[1] = name}
  BY ListsAlike DEF Named
<1>2. Named(viewer, name) = {}
        <=> (\A n \in Nodes : IsNode(n) => n[1] # name) \/ name \notin VisibleLabels(viewer)
  BY <1>1 DEF ListInMemory
<1>3. CASE Named(viewer, name) = {}
  BY <1>2, <1>3 DEF ContextEdges, ContextInMemory
<1>4. CASE Named(viewer, name) # {}
  BY <1>2, <1>4, ContextIs DEF ContextInMemory
<1> QED BY <1>3, <1>4

LEMMA DegreesAlike ==
  ASSUME EdgesHaveEnds, LabelsAreSingle, NEW viewer \in Viewers, NEW name \in Names,
         NEW n \in Named(viewer, name)
  PROVE  Degree(viewer, n) = DegreeInMemory(viewer, name)
<1>1. n \in Nodes /\ IsNode(n) /\ n[1] = name
  BY DEF Named, VisibleNodes
<1>2. \A k \in Spoken(viewer) : /\ k.source = n <=> k.source[1] = name
                                /\ k.target = n <=> k.target[1] = name
  BY <1>1, SpokenStand, NodeOfLabel
<1>3. /\ {k \in Spoken(viewer) : k.source = n} = {k \in Spoken(viewer) : k.source[1] = name}
      /\ {k \in Spoken(viewer) : k.target = n} = {k \in Spoken(viewer) : k.target[1] = name}
  BY <1>2
<1> QED BY <1>3 DEF Degree, DegreeInMemory

\* The other reads of the two adapters answer alike, where a folded label is one node.
THEOREM AnswersAgree == GraphSpec => [](LabelsAreSingle => SameAnswers)
<1>1. ASSUME EdgesHaveEnds, LabelsAreSingle PROVE SameAnswers
  <2> SUFFICES ASSUME NEW viewer \in Viewers
               PROVE  /\ VisibleNodes(viewer) = ListInMemory(viewer)
                      /\ Related(viewer) = RelatedInMemory(viewer)
                      /\ \A name \in Names :
                           /\ CountNodes(viewer, name) = CountInMemory(viewer, name)
                           /\ Neighbors(viewer, name) = NeighborsInMemory(viewer, name)
                           /\ ContextEdges(viewer, name) =
                                {k \in ContextInMemory(viewer, name) : k.source # k.target}
                           /\ \A n \in Named(viewer, name) :
                                Degree(viewer, n) = DegreeInMemory(viewer, name)
    BY DEF SameAnswers
  <2>1. VisibleNodes(viewer) = ListInMemory(viewer)
    BY <1>1, ListsAlike
  <2>2. \A name \in Names : CountNodes(viewer, name) = CountInMemory(viewer, name)
    BY <2>1 DEF CountNodes, Named, CountInMemory
  <2> QED BY <1>1, <2>1, <2>2, RelatedAlike, NeighborsAlike, ContextsAlike, DegreesAlike
<1> QED BY <1>1, EdgesKeepEnds, PTL

-----------------------------------------------------------------------------
(* The statistics                                                            *)

\* So that they can be counted.
EdgesAreFinite == IsFiniteSet({k \in Keys : IsEdge(k)})

LEMMA FiniteAlways == GraphSpec => []EdgesAreFinite
<1>1. GraphInit => EdgesAreFinite
  <2> SUFFICES ASSUME GraphInit PROVE {k \in Keys : IsEdge(k)} = {}
    BY FS_EmptySet DEF EdgesAreFinite
  <2> QED BY DEF GraphInit, IsEdge, NoEdge
<1>2. ASSUME GraphInv, EdgesAreFinite, [GraphNext]_graphVars PROVE EdgesAreFinite'
  <2>1. CASE UNCHANGED edges
    BY <1>2, <2>1 DEF EdgesAreFinite, IsEdge
  <2>2. ASSUME NEW w \in Writers, NEW v \in Sent, LandEdge(w, v) PROVE EdgesAreFinite'
    <3>1. PICK key : key = writers[w].key
      OBVIOUS
    <3>2. {k \in Keys : IsEdge(k)}' \subseteq {k \in Keys : IsEdge(k)} \cup {key}
      BY <1>2, <2>2, <3>1 DEF LandEdge, GraphInv, GraphTypeOK, IsEdge
    <3>3. IsFiniteSet({k \in Keys : IsEdge(k)} \cup {key})
      BY <1>2, FS_AddElement DEF EdgesAreFinite
    <3> QED BY <3>2, <3>3, FS_Subset DEF EdgesAreFinite
  <2>3. CASE \A k \in Keys : \/ edges'[k].id = edges[k].id /\ edges'[k].words = edges[k].words
                             \/ edges'[k] = NoEdge
    <3>1. {k \in Keys : IsEdge(k)}' \subseteq {k \in Keys : IsEdge(k)}
      BY <2>3, NothingIsTyped DEF IsEdge
    <3> QED BY <1>2, <3>1, FS_Subset DEF EdgesAreFinite
  <2> QED BY <1>2, <2>1, <2>2, <2>3, StepsOnEdges
<1> QED BY <1>1, <1>2, GraphIsInv, PTL DEF GraphSpec

LEMMA DegreeIsContext ==
  ASSUME EdgesHaveEnds, LabelsAreSingle, EdgesAreFinite,
         NEW viewer \in Viewers, NEW n \in VisibleNodes(viewer)
  PROVE  Degree(viewer, n) = Cardinality(ContextEdges(viewer, n[1]))
                               + 2 * Cardinality({k \in Spoken(viewer) : Ends(k) = {n}})
<1> DEFINE ks == Spoken(viewer)
<1> DEFINE A == {k \in ks : k.source = n}
<1> DEFINE B == {k \in ks : k.target = n}
<1> DEFINE L == {k \in ks : Ends(k) = {n}}
<1> DEFINE C == ContextEdges(viewer, n[1])
<1>1. n \in Nodes /\ IsNode(n) /\ n[1] \in Names
  BY DEF VisibleNodes, Nodes
<1>2. C = {k \in ks : n[1] \in {k.source[1], k.target[1]} /\ k.source # k.target}
  <2>1. n \in Named(viewer, n[1])
    BY DEF Named
  <2> QED BY <1>1, <2>1, ContextIs
<1>3. \A k \in ks : /\ n[1] = k.source[1] <=> k.source = n
                    /\ n[1] = k.target[1] <=> k.target = n
  BY <1>1, SpokenStand, NodeOfLabel
<1>4. IsFiniteSet(ks)
  <2>1. ks \subseteq {k \in Keys : IsEdge(k)}
    BY DEF Spoken, Readable
  <2> QED BY <2>1, FS_Subset DEF EdgesAreFinite
<1>5. Degree(viewer, n) = Cardinality(A) + Cardinality(B)
  BY DEF Degree
<1> HIDE DEF ks
<1>6. L = A \cap B /\ C \cap L = {} /\ C \cup L = A \cup B
  <2>1. \A k : k \in L <=> k \in A /\ k \in B
    BY DEF Ends
  <2>2. \A k \in ks : k \in C <=> (k \in A \/ k \in B) /\ ~(k \in A /\ k \in B)
    BY <1>2, <1>3
  <2>3. C \subseteq ks
    BY <1>2
  <2> HIDE DEF A, B, C, L
  <2> QED BY <2>1, <2>2, <2>3, <1>2 DEF A, B
<1>7. IsFiniteSet(A) /\ IsFiniteSet(B) /\ IsFiniteSet(C) /\ IsFiniteSet(L)
  <2>1. A \subseteq ks /\ B \subseteq ks /\ C \subseteq ks /\ L \subseteq ks
    BY <1>2
  <2> HIDE DEF A, B, C, L
  <2> QED BY <1>4, <2>1, FS_Subset
<1> HIDE DEF A, B, C, L
<1>8. Cardinality(A \cup B) = Cardinality(A) + Cardinality(B) - Cardinality(L)
  BY <1>6, <1>7, FS_Union
<1>9. Cardinality(A \cup B) = Cardinality(C) + Cardinality(L)
  <2>1. Cardinality(C \cup L) = Cardinality(C) + Cardinality(L) - Cardinality(C \cap L)
    BY <1>7, FS_Union
  <2>2. Cardinality(C \cap L) = 0
    BY <1>6, FS_EmptySet
  <2>3. Cardinality(C) \in Nat /\ Cardinality(L) \in Nat
    BY <1>7, FS_CardinalityType
  <2>4. Cardinality(C \cup L) = Cardinality(C) + Cardinality(L)
    BY <2>1, <2>2, <2>3
  <2> QED BY <1>6, <2>4
<1>10. /\ Cardinality(A) \in Nat /\ Cardinality(B) \in Nat
       /\ Cardinality(C) \in Nat /\ Cardinality(L) \in Nat
  BY <1>7, FS_CardinalityType
<1>11. Cardinality(A) + Cardinality(B) = Cardinality(C) + 2 * Cardinality(L)
  BY <1>8, <1>9, <1>10
<1> QED BY <1>5, <1>11 DEF C, L, ks

\* The degrees graph_stats ranks by are the sizes of the contexts, where a folded label is one
\* node: an edge from a node to itself counts twice in the one and not at all in the other.
THEOREM StatsAgree == GraphSpec => [](LabelsAreSingle => StatsAreTheContexts)
<1>1. ASSUME EdgesHaveEnds, LabelsAreSingle, EdgesAreFinite PROVE StatsAreTheContexts
  BY <1>1, DegreeIsContext DEF StatsAreTheContexts
<1> QED BY <1>1, EdgesKeepEnds, FiniteAlways, PTL
=============================================================================
