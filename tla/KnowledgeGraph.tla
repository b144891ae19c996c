--------------------------- MODULE KnowledgeGraph ---------------------------
(***************************************************************************)
(* The knowledge graph of one scope (ports.py, KnowledgeGraph; its Postgres *)
(* adapter): typed nodes, the edges between them, who may read an edge and *)
(* whether a person has judged it.  Extractions and staff upsert edges,    *)
(* curators judge what is pending, and two maintenance jobs walk the graph *)
(* (maintenance.py).                                                       *)
(*                                                                         *)
(* A statement is atomic and commits by itself, as it does with dsn=, and  *)
(* handlers are several: `upsert_edge` resolves its two ends and then      *)
(* inserts the edge; a curator judges what was read before; the            *)
(* maintenance jobs read everything and then write row by row.             *)
(*                                                                         *)
(* A label is a name, which is what folding keeps of it, and whether it is *)
(* spelled with its diacritics.  Of the attributes of an edge the model    *)
(* keeps whether there are any, and whether the last were asserted or only *)
(* proposed.                                                               *)
(*                                                                         *)
(* An operator marked "Slip" is an operation with a fault the properties   *)
(* must notice; nothing uses it.                                           *)
(***************************************************************************)
EXTENDS Integers, FiniteSets

CONSTANTS
  Names,        (* Folded labels.                                          *)
  Types,        (* Node types, CONCEPT among them.                         *)
  Mentioned,    (* The labels nodes are written with.                      *)
  Facts,        (* The edges that may be written: two labels, a relation.  *)
  Sessions,     (* Sessions that extract relations.                        *)
  Disliked,     (* Those that end with a disliked turn.                    *)
  Identities,   (* Contacts.                                               *)
  Owner,        (* The contact of each session, "" if it cannot be told.   *)
  Written,      (* The statuses the writers write.                         *)
  Writers,      (* Processes that upsert edges.                            *)
  Curators,     (* People that judge what is pending.                      *)
  Pruners,      (* Runs of prune_orphan_nodes.                             *)
  Classifiers,  (* Runs of classify_edge_audience.                         *)
  MaxId         (* Bounds the model: how many rows are ever inserted.      *)

Labels == [name : Names, accented : BOOLEAN]

ASSUME GraphAssumption ==
  /\ "CONCEPT" \in Types
  /\ Facts \subseteq [source : Labels, target : Labels, relation : STRING]
  /\ Mentioned \subseteq Labels
  /\ Disliked \subseteq Sessions
  /\ Owner \in [Sessions -> Identities \cup {""}]
  /\ Identities \cap {"", "tenant"} = {}
  /\ "" \notin Sessions
  /\ Written \subseteq {"accepted", "proposed"}
  /\ MaxId \in Nat

VARIABLES
  nodes,        (* Per name and type: the node row.                        *)
  edges,        (* Per pair of nodes and relation: the edge row.           *)
  writers,      (* Per writer: the edge it is upserting.                   *)
  curators,     (* Per curator: the pending edge that was read.            *)
  pruners,      (* Per run: the labels listed, and the one found orphan.   *)
  classifiers,  (* Per run: the edges to classify.                         *)
  rejected,     (* The edges whose last verdict of a person is a rejection.*)
  purging,      (* A purge has deleted the edges and not yet the nodes.    *)
  inserted      (* How many rows were inserted; the last id.               *)

graphVars == <<nodes, edges, writers, curators, pruners, classifiers, rejected, purging,
               inserted>>

Nodes     == Names \X Types
Relations == {f.relation : f \in Facts}
Keys      == [source : Nodes, target : Nodes, relation : Relations]
Status    == {"accepted", "proposed", "rejected"}
Audiences == {"", "tenant"} \cup Identities

NoNode == [id |-> 0, accented |-> FALSE]
NoEdge == [id |-> 0, status |-> "rejected", session |-> "", audience |-> "", words |-> "none"]

NodeRow == [id : Nat, accented : BOOLEAN]
EdgeRow == [id : Nat, status : Status, session : Sessions \cup {""}, audience : Audiences,
            words : {"none", "asserted", "proposed"}]

Fact     == [source : Labels, target : Labels, relation : Relations]
NoWrite  == [phase |-> "idle"]
Write    == [phase : {"landing"}, key : Keys, source : Nat, target : Nat]
NoReview == [phase |-> "idle"]
Review   == [phase : {"judging"}, fact : Fact]
Listed   == [id : Nat, label : Labels]
NotRun   == [todo |-> {}, doomed |-> {}]

GraphTypeOK ==
  /\ nodes \in [Nodes -> NodeRow]
  /\ edges \in [Keys -> EdgeRow]
  /\ writers \in [Writers -> Write \cup {NoWrite}]
  /\ curators \in [Curators -> Review \cup {NoReview}]
  /\ pruners \in [Pruners -> [todo : SUBSET Listed, doomed : SUBSET Labels]]
  /\ classifiers \in [Classifiers -> SUBSET [fact : Fact, want : Audiences]]
  /\ rejected \subseteq Keys
  /\ purging \in BOOLEAN
  /\ inserted \in Nat

GraphInit ==
  /\ nodes = [n \in Nodes |-> NoNode]
  /\ edges = [k \in Keys |-> NoEdge]
  /\ writers = [w \in Writers |-> NoWrite]
  /\ curators = [c \in Curators |-> NoReview]
  /\ pruners = [p \in Pruners |-> NotRun]
  /\ classifiers = [c \in Classifiers |-> {}]
  /\ rejected = {}
  /\ purging = FALSE
  /\ inserted = 0

-----------------------------------------------------------------------------
(* Labels, nodes and edges *)

IsNode(n) == nodes[n].id # 0
IsEdge(k) == edges[k].id # 0

Called(label)  == {n \in Nodes : n[1] = label.name /\ IsNode(n)}
Exactly(label) == {n \in Called(label) : nodes[n].accented = label.accented}
LabelOf(n)     == [name |-> n[1], accented |-> nodes[n].accented]
FactOf(k)      == [source |-> LabelOf(k.source), target |-> LabelOf(k.target),
                   relation |-> k.relation]

Oldest(ns) == {n \in ns : \A m \in ns : nodes[n].id <= nodes[m].id}

\* _resolve_node_id, one node: the exact spelling first, then the smallest id; a label
\* nobody has is given a node of the column's default type.
Resolved(label) ==
  IF Exactly(label) # {} THEN Oldest(Exactly(label))
  ELSE IF Called(label) # {} THEN Oldest(Called(label))
  ELSE {<<label.name, "CONCEPT">>}

\* _one_node_id: the nodes a label designates beyond doubt, one or none.
One(label) ==
  IF Cardinality(Called(label)) = 1 THEN Called(label)
  ELSE IF Cardinality(Exactly(label)) = 1 THEN Exactly(label) ELSE {}

KeysOf(fact) == [source : One(fact.source), target : One(fact.target),
                 relation : {fact.relation}]

Touching(n) == {k \in Keys : IsEdge(k) /\ n \in {k.source, k.target}}

\* has_edges: any node of the name, any status, any audience.
HasEdges(label) == \E n \in Called(label) : Touching(n) # {}

Readers(audience) == IF audience = "tenant" THEN Identities ELSE {audience} \ {""}

-----------------------------------------------------------------------------
(* upsert_node *)

\* A row is unique by folded label and type, and its spelling gains diacritics and
\* never loses them.
UpsertNode(label, type) ==
  LET n == <<label.name, type>> IN
  /\ IF IsNode(n)
     THEN /\ nodes' = [nodes EXCEPT ![n].accented = @ \/ label.accented]
          /\ UNCHANGED inserted
     ELSE /\ inserted < MaxId
          /\ nodes' = [nodes EXCEPT ![n] = [id |-> inserted + 1, accented |-> label.accented]]
          /\ inserted' = inserted + 1
  /\ UNCHANGED <<edges, writers, curators, pruners, classifiers, rejected, purging>>

-----------------------------------------------------------------------------
(* upsert_edge *)

\* What a caller sends beside the two labels and the relation.
Sent == [status : Written, session : Sessions \cup {""}, audience : Audiences, words : BOOLEAN]

\* Both ends are resolved, and those that are missing are inserted.  What was sent with
\* them is read when the edge is inserted, and is chosen there.
BeginEdge(w, fact) ==
  \E s \in Resolved(fact.source) :
  \E t \in IF fact.source.name = fact.target.name /\ ~IsNode(s) THEN {s}
           ELSE Resolved(fact.target) :
    LET new    == {n \in {s, t} : ~IsNode(n)}
        row(n) == [id |-> IF n = s \/ IsNode(s) THEN inserted + 1 ELSE inserted + 2,
                   accented |-> IF n = s THEN fact.source.accented ELSE fact.target.accented]
        ns     == [n \in Nodes |-> IF n \in new THEN row(n) ELSE nodes[n]] IN
    /\ writers[w] = NoWrite
    /\ inserted + Cardinality(new) <= MaxId
    /\ nodes' = ns
    /\ inserted' = inserted + Cardinality(new)
    /\ writers' = [writers EXCEPT ![w] =
         [phase |-> "landing", source |-> ns[s].id, target |-> ns[t].id,
          key |-> [source |-> s, target |-> t, relation |-> fact.relation]]]
    /\ UNCHANGED <<edges, curators, pruners, classifiers, rejected, purging>>

Landing(w) == writers[w] # NoWrite

\* The foreign keys: the rows that were resolved are still there.
EndsStand(e) == nodes[e.key.source].id = e.source /\ nodes[e.key.target].id = e.target

\* What the caller sent, merged over what was there; nothing changes if nothing was sent.
Merged(row, v) ==
  IF ~v.words THEN row.words ELSE IF v.status = "accepted" THEN "asserted" ELSE "proposed"

\* A proposal does not touch the attributes of an accepted edge.
Kept(row, v) ==
  IF row.status = "accepted" /\ v.status = "proposed" THEN row.words ELSE Merged(row, v)

\* Slip: the last writer decides, verdict or not.
UpdatedAnyway(row, v) ==
  [row EXCEPT !.status = v.status, !.session = v.session, !.words = Kept(row, v),
              !.audience = IF @ = "" THEN v.audience ELSE @]

\* Slip: the audience of the last writer replaces the one that was there.
UpdatedAudience(row, v) ==
  [row EXCEPT !.status = IF @ = "proposed" THEN v.status ELSE @,
              !.session = v.session, !.words = Kept(row, v), !.audience = v.audience]

\* Slip: the gate covers the status alone, and attributes merge straight through.
UpdatedMerging(row, v) ==
  [row EXCEPT !.status = IF @ = "proposed" THEN v.status ELSE @,
              !.session = v.session, !.words = Merged(row, v),
              !.audience = IF @ = "" THEN v.audience ELSE @]

\* ON CONFLICT DO UPDATE: a proposal is promoted and a verdict is not demoted, and a
\* declared audience stays.
Updated(row, v) ==
  [id       |-> row.id,
   status   |-> IF row.status = "proposed" THEN v.status ELSE row.status,
   session  |-> v.session,
   audience |-> IF row.audience = "" THEN v.audience ELSE row.audience,
   words    |-> Kept(row, v)]

Inserted(v) ==
  [id |-> inserted + 1, status |-> v.status, session |-> v.session, audience |-> v.audience,
   words |-> Merged(NoEdge, v)]

\* Slip: the ends are not asked for.
LandEdgeUnchecked(w, v) ==
  LET k == writers[w].key IN
  /\ Landing(w)
  /\ IsEdge(k) \/ inserted < MaxId
  /\ edges' = [edges EXCEPT ![k] = IF IsEdge(k) THEN Updated(@, v) ELSE Inserted(v)]
  /\ inserted' = IF IsEdge(k) THEN inserted ELSE inserted + 1
  /\ writers' = [writers EXCEPT ![w] = NoWrite]
  /\ UNCHANGED <<nodes, curators, pruners, classifiers, rejected, purging>>

LandEdge(w, v) ==
  LET k == writers[w].key IN
  /\ Landing(w)
  /\ EndsStand(writers[w])
  /\ IsEdge(k) \/ inserted < MaxId
  /\ edges' = [edges EXCEPT ![k] = IF IsEdge(k) THEN Updated(@, v) ELSE Inserted(v)]
  /\ inserted' = IF IsEdge(k) THEN inserted ELSE inserted + 1
  /\ writers' = [writers EXCEPT ![w] = NoWrite]
  /\ UNCHANGED <<nodes, curators, pruners, classifiers, rejected, purging>>

\* An end is gone and the insert raises, or the process dies before it.
LoseEdge(w) ==
  /\ Landing(w)
  /\ writers' = [writers EXCEPT ![w] = NoWrite]
  /\ UNCHANGED <<nodes, edges, curators, pruners, classifiers, rejected, purging, inserted>>

-----------------------------------------------------------------------------
(* Verdicts *)

Proposed == {k \in Keys : IsEdge(k) /\ edges[k].status = "proposed"}

\* pending_edges, and a person who picks one of them.
ReadPending(c) ==
  /\ curators[c] = NoReview
  /\ \E k \in Proposed :
       curators' = [curators EXCEPT ![c] = [phase |-> "judging", fact |-> FactOf(k)]]
  /\ UNCHANGED <<nodes, edges, writers, pruners, classifiers, rejected, purging, inserted>>

\* set_edge_status, by the labels that were read; False when they designate no edge.
Judge(c, status) ==
  LET found == {k \in KeysOf(curators[c].fact) : IsEdge(k)} IN
  /\ curators[c] # NoReview
  /\ edges' = [k \in Keys |->
       IF k \in found
       THEN [edges[k] EXCEPT !.status = status]
       ELSE edges[k]]
  /\ rejected' = IF status = "rejected" THEN rejected \cup found ELSE rejected \ found
  /\ curators' = [curators EXCEPT ![c] = NoReview]
  /\ UNCHANGED <<nodes, writers, pruners, classifiers, purging, inserted>>

\* A person changes their mind about an edge, whatever its status.
SetEdgeStatus(k, status) ==
  /\ IsEdge(k) /\ k \in KeysOf(FactOf(k))
  /\ edges[k].status # status
  /\ edges' = [edges EXCEPT ![k].status = status]
  /\ rejected' = IF status = "rejected" THEN rejected \cup {k} ELSE rejected \ {k}
  /\ UNCHANGED <<nodes, writers, curators, pruners, classifiers, purging, inserted>>

SetEdgeAudience(fact, audience) ==
  LET found == {k \in KeysOf(fact) : IsEdge(k)} IN
  edges' = [k \in Keys |->
    IF k \in found THEN [edges[k] EXCEPT !.audience = audience] ELSE edges[k]]

-----------------------------------------------------------------------------
(* Removal *)

\* The edges go with the node (ON DELETE CASCADE).
Without(ns) == /\ nodes' = [n \in Nodes |-> IF n \in ns THEN NoNode ELSE nodes[n]]
               /\ edges' = [k \in Keys |->
                    IF {k.source, k.target} \cap ns # {} THEN NoEdge ELSE edges[k]]

\* A person deletes one node, and with it what was judged of its edges.
DeleteNode(label) ==
  /\ One(label) # {}
  /\ Without(One(label))
  /\ rejected' = {k \in rejected : {k.source, k.target} \cap One(label) = {}}
  /\ UNCHANGED <<writers, curators, pruners, classifiers, purging, inserted>>

\* consolidate_session, with a disliked turn.
DeleteEdgesBySession(session) ==
  /\ \E k \in Keys : IsEdge(k) /\ edges[k].session = session
  /\ edges' = [k \in Keys |->
       IF IsEdge(k) /\ edges[k].session = session THEN NoEdge ELSE edges[k]]
  /\ UNCHANGED <<nodes, writers, curators, pruners, classifiers, rejected, purging, inserted>>

\* purge_scope: two deletes, the edges and then the nodes.
PurgeEdges ==
  /\ ~purging /\ \E n \in Nodes : IsNode(n)
  /\ edges' = [k \in Keys |-> NoEdge]
  /\ rejected' = {}
  /\ purging' = TRUE
  /\ UNCHANGED <<nodes, writers, curators, pruners, classifiers, inserted>>

PurgeNodes ==
  /\ purging
  /\ Without(Nodes)
  /\ rejected' = {}
  /\ purging' = FALSE
  /\ UNCHANGED <<writers, curators, pruners, classifiers, inserted>>

CrashPurge ==
  /\ purging
  /\ purging' = FALSE
  /\ UNCHANGED <<nodes, edges, writers, curators, pruners, classifiers, rejected, inserted>>

-----------------------------------------------------------------------------
(* prune_orphan_nodes *)

ListNodes(p) ==
  /\ pruners[p] = NotRun
  /\ \E n \in Nodes : IsNode(n)
  /\ pruners' = [pruners EXCEPT ![p].todo =
       {[id |-> nodes[n].id, label |-> LabelOf(n)] : n \in {m \in Nodes : IsNode(m)}}]
  /\ UNCHANGED <<nodes, edges, writers, curators, classifiers, rejected, purging, inserted>>

\* A label whose node is gone has no edges either.
AskEdges(p) ==
  /\ pruners[p].doomed = {}
  /\ \E e \in pruners[p].todo :
       /\ \A f \in pruners[p].todo : e.id <= f.id
       /\ pruners' = [pruners EXCEPT ![p] =
            [todo |-> @.todo \ {e}, doomed |-> IF HasEdges(e.label) THEN {} ELSE {e.label}]]
  /\ UNCHANGED <<nodes, edges, writers, curators, classifiers, rejected, purging, inserted>>

DeleteOrphan(p) ==
  /\ \E label \in pruners[p].doomed : Without(One(label))
  /\ pruners' = [pruners EXCEPT ![p].doomed = {}]
  /\ UNCHANGED <<writers, curators, classifiers, rejected, purging, inserted>>

-----------------------------------------------------------------------------
(* classify_edge_audience *)

\* Nothing automated writes an edge without a session.
Wanted(row) == IF row.session = "" THEN "tenant" ELSE Owner[row.session]

\* The proposals, and what a walk of one step reaches from each node: accepted edges
\* between two nodes.
Unclassified ==
  {k \in Keys : /\ IsEdge(k) /\ edges[k].audience = ""
                /\ edges[k].status = "proposed"
                     \/ (edges[k].status = "accepted" /\ k.source # k.target)}

\* Of two edges called alike one is kept, and those whose session nobody knows are left.
ListUnclassified(c) ==
  LET found == {[fact |-> FactOf(k), want |-> Wanted(edges[k])] : k \in Unclassified} IN
  /\ classifiers[c] = {}
  /\ \E todo \in SUBSET found :
       /\ \A f \in {m.fact : m \in found} : \E m \in todo : m.fact = f
       /\ \A m1, m2 \in todo : m1.fact = m2.fact => m1 = m2
       /\ classifiers' = [classifiers EXCEPT ![c] = {m \in todo : m.want # ""}]
  /\ UNCHANGED <<nodes, edges, writers, curators, pruners, rejected, purging, inserted>>

Classify(c) ==
  /\ \E m \in classifiers[c] :
       /\ SetEdgeAudience(m.fact, m.want)
       /\ classifiers' = [classifiers EXCEPT ![c] = @ \ {m}]
  /\ UNCHANGED <<nodes, writers, curators, pruners, rejected, purging, inserted>>

-----------------------------------------------------------------------------
\* Extractions write no attributes and declare the contact of their session or nothing;
\* what staff and the host's imports write has no session.
FromExtraction(v) == v.session # "" /\ v.audience \in {"", Owner[v.session]} /\ ~v.words

WriteStep(w) ==
  \/ \E fact \in Facts : BeginEdge(w, fact)
  \/ \E v \in Sent : (v.session = "" \/ FromExtraction(v)) /\ LandEdge(w, v)
  \/ LoseEdge(w)

PersonStep ==
  \/ \E k \in Keys, status \in Status : SetEdgeStatus(k, status)
  \/ \E k \in Keys, audience \in Audiences :
       /\ IsEdge(k) /\ k \in KeysOf(FactOf(k)) /\ edges[k].audience # audience
       /\ SetEdgeAudience(FactOf(k), audience)
       /\ UNCHANGED <<nodes, writers, curators, pruners, classifiers, rejected, purging, inserted>>
  \/ \E label \in Labels : DeleteNode(label)

CurateStep(c) == \E status \in {"accepted", "rejected"} : Judge(c, status)

PruneStep(p) == ListNodes(p) \/ AskEdges(p) \/ DeleteOrphan(p)

GraphNext ==
  \/ \E label \in Mentioned, type \in Types : UpsertNode(label, type)
  \/ \E w \in Writers : WriteStep(w)
  \/ \E c \in Curators : ReadPending(c) \/ CurateStep(c)
  \/ PersonStep
  \/ \E session \in Disliked : DeleteEdgesBySession(session)
  \/ PurgeEdges \/ PurgeNodes \/ CrashPurge
  \/ \E p \in Pruners : PruneStep(p)
  \/ \E c \in Classifiers : ListUnclassified(c) \/ Classify(c)

GraphSpec == GraphInit /\ [][GraphNext]_graphVars

-----------------------------------------------------------------------------
\* Every edge has its two ends, however upserts, deletions and purges interleave.
EdgesHaveEnds == \A k \in Keys : IsEdge(k) => IsNode(k.source) /\ IsNode(k.target)

\* What was accepted or rejected stays so until a person says otherwise, whoever writes the
\* edge meanwhile ("undoing a human verdict takes a human", in_memory.py, upsert_edge).
VerdictsStand ==
  [][\A w \in Writers, k \in Keys :
       (writers'[w] # writers[w] /\ IsEdge(k) /\ edges[k].status # "proposed") =>
         edges'[k].status = edges[k].status]_graphVars

\* A spoken edge does not gain the words of a proposal: an accepted edge that stays
\* accepted has the attributes it had, or some that were asserted ("Reviewed means reviewed as
\* it stood", postgres.py, upsert_edge).
AcceptedGainNoProposals ==
  [][\A k \in Keys :
       (IsEdge(k) /\ edges[k].status = "accepted" /\ edges'[k].status = "accepted") =>
         edges'[k].words \in {edges[k].words, "asserted"}]_graphVars

\* An edge that was somebody's own, or everybody's, stays so until it is classified
\* again: a writer that declares otherwise changes nothing.
UpsertsKeepAudiences ==
  [][\A w \in Writers, k \in Keys :
       (writers'[w] # writers[w] /\ IsEdge(k) /\ edges[k].audience # "") =>
         edges'[k].audience = edges[k].audience]_graphVars

\* One label, one node: no deletion by label takes two.
OneNodeIsDeleted ==
  [][(\E n \in Nodes : IsNode(n) /\ ~IsNode(n)') => purging
      \/ Cardinality({n \in Nodes : IsNode(n) /\ nodes'[n] = NoNode}) = 1]_graphVars

-----------------------------------------------------------------------------
(* What the repository says and the code does not keep.                      *)

\* A rejected claim stays unspoken until a person takes the rejection back ("the next
\* extraction pass must not be able to undo it", in_memory.py, upsert_edge).
RejectionsStick == \A k \in rejected : edges[k].status = "rejected"

\* "A PROPOSAL cannot modify a VERDICT in any field" (postgres.py, upsert_edge).
ProposalsModifyNoVerdict ==
  [][\A w \in Writers, v \in Sent :
       LET k == writers[w].key IN
       (LandEdge(w, v) /\ v.status = "proposed" /\ edges[k].status = "accepted") =>
         edges'[k] = edges[k]]_graphVars

\* "A re-assertion may NARROW the audience but never widen it" (postgres.py,
\* upsert_edge).
UpsertsNeverWiden ==
  [][\A w \in Writers, k \in Keys :
       (writers'[w] # writers[w] /\ IsEdge(k)) =>
         Readers(edges'[k].audience) \subseteq Readers(edges[k].audience)]_graphVars

\* Words that were only proposed are not said because somebody asserted the bare relation:
\* "Reviewed means reviewed as it stood" (postgres.py, upsert_edge).
SpokenWasReviewed ==
  [][\A w \in Writers, k \in Keys :
       (/\ writers'[w] # writers[w]
        /\ IsEdge(k) /\ edges[k].status = "proposed" /\ edges'[k].status = "accepted") =>
         edges'[k].words # "proposed"]_graphVars

\* "Delete knowledge nodes with no incident edges" (maintenance.py).
OrphansHadNoEdges ==
  [][\A p \in Pruners :
       (pruners[p].doomed # {} /\ pruners'[p].doomed = {}) => edges' = edges]_graphVars

\* "Only '' rows are touched" (maintenance.py, classify_edge_audience).
OnlyUnclassifiedChange ==
  [][(classifiers' # classifiers) =>
       \A k \in Keys : edges'[k] # edges[k] => edges[k].audience = ""]_graphVars
=============================================================================
