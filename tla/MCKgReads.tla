---------------------------- MODULE MCKgReads ----------------------------
(* KgReads on a small instance: three nodes of one type.                     *)
EXTENDS KgReads, TLC

CONSTANTS x, y, z

Plain(name)      == [name |-> name, accented |-> FALSE]
Knows(one, other) == [source |-> Plain(one), target |-> Plain(other), relation |-> "knows"]

\* A triangle, so that walks meet a node by two ways, and an edge from a node to itself.
Triangle == {Knows(x, y), Knows(y, z), Knows(z, x), Knows(x, x)}
Fork     == {Knows(x, y), Knows(x, z)}

MCMentioned == {Plain(name) : name \in Names}
MCOwner     == [session \in Sessions |-> ""]

\* No answer depends on ids, spellings, sessions or words, and with one node to a label no
\* later step does either.  (TLC evaluates a function of the state before it keeps the state
\* only if the view compares it.)
Seen == <<{n \in Nodes : IsNode(n)},
          [k \in {l \in Keys : IsEdge(l)} |-> <<edges[k].status, edges[k].audience>>],
          [w \in Writers |-> IF Landing(w) THEN <<writers[w].key, EndsStand(writers[w])>> ELSE <<>>],
          purging, edges = edges, nodes = nodes, writers = writers>>
\* Bounds the model: no edge is under way while a scope is purged.  The answers depend on the
\* nodes and the edges there are, and those that this leaves out arise without a purge.
PurgesAlone == ~(purging /\ \E w \in Writers : Landing(w))
=============================================================================
