-------------------------- MODULE MCKnowledgeGraph -------------------------
(* KnowledgeGraph on small instances.                                        *)
EXTENDS KnowledgeGraph

CONSTANTS i1, n1, n2, w1, c1, p1, m1

Plain(n)    == [name |-> n, accented |-> FALSE]
Accented(n) == [name |-> n, accented |-> TRUE]

\* One relation between two names, and nodes whose name is spelled in full.
OneFact == {[source |-> Plain(n1), target |-> Plain(n2), relation |-> "r"]}
InFull  == {Accented(n1)}

OneOwner  == [s \in Sessions |-> i1]

\* Bounds the model: beside the writers, one process at a time is between its reads and
\* its writes.
OneReader ==
  Cardinality({c \in Curators : curators[c] # NoReview}
    \cup {p \in Pruners : pruners[p] # NotRun} \cup {c \in Classifiers : classifiers[c] # {}}) <= 1
=============================================================================
