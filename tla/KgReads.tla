------------------------------ MODULE KgReads ------------------------------
(***************************************************************************)
(* What the knowledge graph answers (ports.py, KnowledgeGraph: walk,       *)
(* neighbors, get_node_context, list_nodes, graph_stats and                *)
(* find_nodes_by_embedding, count_nodes) to whom: staff read everything,   *)
(* and a contact reads what is everybody's or its own.                     *)
(*                                                                         *)
(* Each answer is one query, so it is an operator over the state of        *)
(* KnowledgeGraph.  A label is asked for by its folded form.  An answer is *)
(* a set: the order is left out, but for the depth at which a walk reaches *)
(* an edge, which is the least depth that returns it.                      *)
(***************************************************************************)
EXTENDS KnowledgeGraph

CONSTANT MaxDepth   (* Bounds the model: how deep the walks go. *)

\* The audience a staff read passes is none that a contact may have (types.py,
\* AUDIENCE_STAFF).
ASSUME ReaderAssumption == MaxDepth \in Nat /\ "staff" \notin Identities

\* What a reader declares; "" is what a contact nobody has identified yet reads with.
Contacts == Identities \cup {""}
Viewers  == Contacts \cup {"staff"}

-----------------------------------------------------------------------------
(* Who may read what *)

\* audience_can_read, and the predicate of every query.
CanRead(viewer, audience) ==
  viewer = "staff" \/ audience = "tenant" \/ (viewer # "" /\ audience = viewer)

Readable(viewer) == {k \in Keys : IsEdge(k) /\ CanRead(viewer, edges[k].audience)}

\* The edges that are said: a claim that nobody has reviewed is not.
Spoken(viewer) == {k \in Readable(viewer) : edges[k].status = "accepted"}

Ends(k) == {k.source, k.target}

\* Slip: a node is found from the edges that leave it.
VisibleLeaving(viewer) ==
  {n \in Nodes : /\ IsNode(n)
                 /\ viewer = "staff" \/ \E k \in Readable(viewer) : n = k.source}

\* list_nodes: a node is visible by an edge the reader may see, and to staff in any case.
VisibleNodes(viewer) ==
  {n \in Nodes : /\ IsNode(n)
                 /\ viewer = "staff" \/ \E k \in Readable(viewer) : n \in Ends(k)}

\* find_node answers one of the nodes that a label names, as far as the reader sees any.
Named(viewer, name) == {n \in VisibleNodes(viewer) : n[1] = name}

CountNodes(viewer, name) == Cardinality(Named(viewer, name))

\* pending_edges: what waits for a verdict.
Pending(viewer) == {k \in Readable(viewer) : edges[k].status = "proposed"}

-----------------------------------------------------------------------------
(* Walks *)

OtherEnd(k, n) == IF k.source = n THEN k.target ELSE k.source

\* A row of the recursive query: the node reached, and the nodes on the way to it.
From(name) == {[node |-> n, path |-> {n}] : n \in {m \in Nodes : m[1] = name /\ IsNode(m)}}

Follows(row, k) == row.node \in Ends(k) /\ OtherEnd(k, row.node) \notin row.path

\* The rows after some hops from the first, along the edges of ks.
Hops(first, ks) ==
  LET hops[d \in 0..MaxDepth] ==
        IF d = 0 THEN first
        ELSE UNION {{[node |-> OtherEnd(k, r.node), path |-> r.path \cup {OtherEnd(k, r.node)}] :
                       k \in {l \in ks : Follows(r, l)}} : r \in hops[d - 1]}
  IN hops

\* Slip: whatever is accepted routes the walk, and what may not be read is held back at
\* the end.
WalkHoldingBack(viewer, name, depth) ==
  LET hops == Hops(From(name), Spoken("staff"))
      rows == UNION {hops[d] : d \in 0..(depth - 1)}
  IN {k \in Spoken(viewer) : \E r \in rows : Follows(r, k)}

\* Slip: one hop too many.
WalkOneMore(viewer, name, depth) ==
  LET ks   == Spoken(viewer)
      hops == Hops(From(name), ks)
      rows == UNION {hops[d] : d \in 0..depth}
  IN {k \in ks : \E r \in rows : Follows(r, k)}

\* walk of the Postgres adapter.
Walk(viewer, name, depth) ==
  LET ks   == Spoken(viewer)
      hops == Hops(From(name), ks)
      rows == UNION {hops[d] : d \in 0..(depth - 1)}
  IN {k \in ks : \E r \in rows : Follows(r, k)}

\* The edges of ks that touch some labels.
TouchingAny(names, ks) == {k \in ks : {k.source[1], k.target[1]} \cap names # {}}

\* The labels met after some hops along the edges of ks.
Met(name, ks) ==
  LET met[d \in 0..MaxDepth] ==
        IF d = 0 THEN {name}
        ELSE met[d - 1]
               \cup UNION {{k.source[1], k.target[1]} : k \in TouchingAny(met[d - 1], ks)}
  IN met

\* walk of the in-memory adapter: a queue that meets each label once.  It expands those
\* met before the last depth, whichever edge they were met by.
WalkInMemory(viewer, name, depth) ==
  LET ks == Spoken(viewer)
  IN IF depth = 0 THEN {} ELSE TouchingAny(Met(name, ks)[depth - 1], ks)

-----------------------------------------------------------------------------
(* Neighbors, contexts and statistics *)

\* Slip: an edge leads to its target.
NeighborsAhead(viewer, name) ==
  {k.target : k \in {l \in Spoken(viewer) : l.source[1] = name}}

Neighbors(viewer, name) ==
  UNION {{OtherEnd(k, n) : n \in {m \in Ends(k) : m[1] = name}} : k \in Spoken(viewer)}

\* get_node_context: nothing about a node that is not visible.
ContextEdges(viewer, name) ==
  IF Named(viewer, name) = {} THEN {}
  ELSE {k \in Walk(viewer, name, 1) : name \in {k.source[1], k.target[1]}}

\* Slip: an edge counts where it leaves.
DegreeLeaving(viewer, n) == Cardinality({k \in Spoken(viewer) : k.source = n})

\* graph_stats: an edge counts at both of its ends.
Degree(viewer, n) ==
  Cardinality({k \in Spoken(viewer) : k.source = n})
    + Cardinality({k \in Spoken(viewer) : k.target = n})

\* graph_stats: the count comes with the ranking, which has `top` nodes at most.
TotalEdges(viewer, top) ==
  IF VisibleNodes(viewer) = {} \/ top = 0 THEN 0 ELSE Cardinality(Spoken(viewer))

\* find_nodes_by_embedding for a caller that walks from what it finds (related_only).
Related(viewer) ==
  {n \in VisibleNodes(viewer) :
     \E k \in Keys : IsEdge(k) /\ edges[k].status = "accepted" /\ n \in Ends(k)}

-----------------------------------------------------------------------------
(* The in-memory adapter, which knows a node by its folded label alone.      *)

LabelsOf(ks) == UNION {{k.source[1], k.target[1]} : k \in ks}

\* _visible_labels: from the edges, whether or not their nodes stand.
VisibleLabels(viewer) ==
  IF viewer = "staff" THEN {n[1] : n \in {m \in Nodes : IsNode(m)}}
  ELSE LabelsOf(Readable(viewer))

ListInMemory(viewer) == {n \in Nodes : IsNode(n) /\ n[1] \in VisibleLabels(viewer)}

CountInMemory(viewer, name) == Cardinality({n \in ListInMemory(viewer) : n[1] = name})

NeighborsInMemory(viewer, name) ==
  LET labels == {k.target[1] : k \in {l \in Spoken(viewer) : l.source[1] = name}}
                \cup {k.source[1] : k \in {l \in Spoken(viewer) : l.source[1] # name
                                                             /\ l.target[1] = name}}
  IN {n \in Nodes : IsNode(n) /\ n[1] \in labels}

\* get_node_context reads the edges itself, where the other adapter walks one step.
ContextInMemory(viewer, name) ==
  IF (\A n \in Nodes : IsNode(n) => n[1] # name) \/ name \notin VisibleLabels(viewer) THEN {}
  ELSE {k \in Spoken(viewer) : name \in {k.source[1], k.target[1]}}

\* graph_stats: each edge adds one at either end, by label.
DegreeInMemory(viewer, name) ==
  Cardinality({k \in Spoken(viewer) : k.source[1] = name})
    + Cardinality({k \in Spoken(viewer) : k.target[1] = name})

RelatedInMemory(viewer) ==
  {n \in ListInMemory(viewer) :
     n[1] \in LabelsOf({k \in Keys : IsEdge(k) /\ edges[k].status = "accepted"})}

-----------------------------------------------------------------------------
\* The two adapters walk alike where a folded label is one node: the paths of the recursive
\* query and the queue reach the same edges at the same depths, but for an edge from a node to
\* itself, which the query never returns ("mirrors the in-memory BFS", postgres.py, walk).
SameWalk ==
  \A viewer \in Viewers, name \in Names, depth \in 0..MaxDepth :
    Walk(viewer, name, depth) =
      {k \in WalkInMemory(viewer, name, depth) : k.source # k.target}

\* So do the other reads ("so the two stores answer the same question the same way",
\* in_memory.py, graph_stats), of which only a context shows an edge from a node to itself.
SameAnswers ==
  \A viewer \in Viewers :
    /\ VisibleNodes(viewer) = ListInMemory(viewer)
    /\ Related(viewer) = RelatedInMemory(viewer)
    /\ \A name \in Names :
         /\ CountNodes(viewer, name) = CountInMemory(viewer, name)
         /\ Neighbors(viewer, name) = NeighborsInMemory(viewer, name)
         /\ ContextEdges(viewer, name) =
              {k \in ContextInMemory(viewer, name) : k.source # k.target}
         /\ \A n \in Named(viewer, name) : Degree(viewer, n) = DegreeInMemory(viewer, name)

\* All that is read of the graph but what is offered for a walk.
Answers(viewer) ==
  [walks     |-> [name \in Names |-> Walk(viewer, name, MaxDepth)],
   neighbors |-> [name \in Names |-> Neighbors(viewer, name)],
   contexts  |-> [name \in Names |-> ContextEdges(viewer, name)],
   counts    |-> [name \in Names |-> CountNodes(viewer, name)],
   pending   |-> Pending(viewer),
   nodes     |-> VisibleNodes(viewer),
   degrees   |-> [n \in Nodes |-> Degree(viewer, n)],
   total     |-> TotalEdges(viewer, 1)]

HiddenAt(viewer, n) ==
  \E k \in Keys \ Readable(viewer) : /\ IsEdge(k) /\ edges[k].status = "accepted"
                                     /\ n \in Ends(k)

\* What a contact may not read does not show in what it reads, by what it routes, counts
\* or leaves out: a step that changes none of its edges changes none of its answers.  But for
\* one: a node that it sees is offered for a walk (find_nodes_by_embedding, related_only) by
\* any accepted edge, whoever may read it, so that the first that comes to the node and the
\* last that goes show there, at that node.
HiddenShowsInOffersAlone ==
  [][\A contact \in Contacts :
       (/\ Readable(contact)' = Readable(contact)
        /\ \A k \in Readable(contact) : edges'[k] = edges[k]) =>
         /\ Answers(contact)' = Answers(contact)
         /\ \A n \in Nodes :
              \/ n \in Related(contact)' <=> n \in Related(contact)
              \/ n \in VisibleNodes(contact) /\ HiddenAt(contact, n)' # HiddenAt(contact, n)
    ]_<<nodes, edges>>

\* The degrees of the dashboard are what reading the nodes one at a time counts ("Visibility
\* follows the one-at-a-time version EXACTLY", ports.py, graph_stats), but for an edge from a
\* node to itself.
StatsAreTheContexts ==
  \A viewer \in Viewers : \A n \in VisibleNodes(viewer) :
    Degree(viewer, n) = Cardinality(ContextEdges(viewer, n[1]))
                        + 2 * Cardinality({k \in Spoken(viewer) : Ends(k) = {n}})

\* "NO VISIBLE NODE => NO VISIBLE EDGE" (postgres.py, graph_stats), and more: whoever sees an
\* edge sees its two nodes.
EdgesShowTheirEnds ==
  \A viewer \in Viewers : \A k \in Readable(viewer) : Ends(k) \subseteq VisibleNodes(viewer)

-----------------------------------------------------------------------------
(* What the repository says and the code does not keep.                      *)

\* "Anything the walk will not traverse is not 'related'" (postgres.py,
\* find_nodes_by_embedding).
RelatedCanBeWalked ==
  \A viewer \in Viewers : \A n \in Related(viewer) : Walk(viewer, n[1], 1) # {}

\* So nothing of what a contact may not read would show in what it is offered.
HiddenStaysHidden ==
  [][\A contact \in Contacts :
       (/\ Readable(contact)' = Readable(contact)
        /\ \A k \in Readable(contact) : edges'[k] = edges[k]) =>
         Related(contact)' = Related(contact)]_<<nodes, edges>>

\* The summary counts the edges the reader may see, however long a ranking it asks for.
EdgesAreCounted ==
  \A viewer \in Viewers, top \in {0, 1} :
    TotalEdges(viewer, top) = Cardinality(Spoken(viewer))
=============================================================================
