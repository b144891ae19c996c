---------------------------- MODULE FoldMigration --------------------------
(***************************************************************************)
(* merge_fold_collisions (fold_migration.py): nodes whose labels fold to   *)
(* one key, which earlier were nodes apart, become one, and the edges of   *)
(* those that go are pointed at the one that stays.  The collisions are    *)
(* read once; then it is a statement after the other, each on its own when *)
(* the connection is in no transaction, and an application that died is    *)
(* begun anew.                                                             *)
(*                                                                         *)
(* An edge is its key, <<source, relation, target>>.  Key gives the scope, *)
(* the type and the folded label of a node.                                *)
(***************************************************************************)
EXTENDS Integers, FiniteSets

CONSTANTS
  Nodes,        (* The ids there are.                                      *)
  Key,          (* Per node: what its label folds to.                      *)
  Keys,         (* The keys.                                               *)
  Relations,    (* What an edge may say.                                   *)
  Start,        (* Bounds the model: the edges there may be at the start.  *)
  Asserted,     (* Bounds the model: edges that others assert meanwhile.   *)
  NoNode        (* No node.                                                *)

ASSUME MigrationAssumption ==
  /\ Nodes \subseteq Nat
  /\ NoNode \notin Nodes
  /\ Key \in [Nodes -> Keys]
  /\ Start \subseteq Nodes \X Relations \X Nodes

VARIABLES
  nodes,        (* The ids that have a row.                                *)
  edges,        (* The edges there are.                                    *)
  stays,        (* Per node: the survivor of its collision.                *)
  merging,      (* The node that is being merged, and what comes next.     *)
  aliases,      (* Per node: the nodes whose labels it has noted.          *)
  told,         (* What the report has counted, and what was done.         *)
  before        (* For the properties: the edges that have been asserted.  *)

migrationVars == <<nodes, edges, stays, merging, aliases, told, before>>

Triples == Nodes \X Relations \X Nodes
Steps   == {"report", "next", "duplicates", "loops", "repoint", "alias", "delete",
            "failed", "done"}
Counts  == [duplicates : Nat, loops : Nat, repointed : Nat]
Zero    == [duplicates |-> 0, loops |-> 0, repointed |-> 0]

MigrationTypeOK ==
  /\ nodes \subseteq Nodes
  /\ edges \subseteq Triples
  /\ stays \in [Nodes -> Nodes]
  /\ merging \in [node : Nodes \cup {NoNode}, step : Steps]
  /\ aliases \in [Nodes -> SUBSET Nodes]
  /\ told \in [report : Counts, done : Counts]
  /\ before \subseteq Triples

MigrationInit ==
  /\ nodes = Nodes
  /\ edges \in SUBSET Start
  /\ stays = [n \in Nodes |-> n]
  /\ merging = [node |-> NoNode, step |-> "report"]
  /\ aliases = [n \in Nodes |-> {}]
  /\ told = [report |-> Zero, done |-> Zero]
  /\ before = edges

-----------------------------------------------------------------------------
Touches(e, n)  == e[1] = n \/ e[3] = n
EdgesOf(n)     == {e \in edges : Touches(e, n)}
Instead(x, n, s) == IF x = n THEN s ELSE x

\* The edge e with s in the place of n.
Repointed(e, n, s) == <<Instead(e[1], n, s), e[2], Instead(e[3], n, s)>>

\* Edges of n that, pointed at s, are there already (o.id <> e.id).
Duplicates(n, s) == {e \in EdgesOf(n) : Repointed(e, n, s) \in edges \ {e}}

\* Edges between n and s.
Between(n, s) ==
  {e \in edges : (e[1] = n /\ e[3] = s) \/ (e[1] = s /\ e[3] = n)}

Degree(n) == Cardinality(EdgesOf(n))

\* Of the nodes of a key the best connected, and of equals the oldest.
IsSurvivor(s) ==
  /\ s \in nodes
  /\ \A n \in nodes \ {s} : Key[n] = Key[s] =>
       Degree(n) < Degree(s) \/ (Degree(n) = Degree(s) /\ s < n)

Losers == {n \in nodes : stays[n] # n}

-----------------------------------------------------------------------------
\* The dry run counts with the queries of the application, and applies nothing.
ReportCounts(map) ==
  LET lost == {n \in nodes : map[n] # n} IN
  [duplicates |-> Cardinality(UNION {{n} \X Duplicates(n, map[n]) : n \in lost}),
   loops      |-> Cardinality(UNION {{n} \X Between(n, map[n]) : n \in lost}),
   repointed  |-> Cardinality(UNION {{n} \X EdgesOf(n) : n \in lost})]

\* fold_collisions: one survivor to a key.
Report ==
  /\ merging.step = "report"
  /\ \E keep \in [Keys -> Nodes \cup {NoNode}] :
       LET map == [n \in Nodes |-> IF n \in nodes THEN keep[Key[n]] ELSE n] IN
       /\ \A k \in Keys :
            IF \E n \in nodes : Key[n] = k
            THEN keep[k] \in Nodes /\ Key[keep[k]] = k /\ IsSurvivor(keep[k])
            ELSE keep[k] = NoNode
       /\ stays' = map
       /\ told' = [report |-> ReportCounts(map), done |-> Zero]
  /\ merging' = [merging EXCEPT !.step = "next"]
  /\ UNCHANGED <<nodes, edges, aliases, before>>

\* The losers follow each other; the report's order (scope, type, label, id) is one of these.
NextLoser ==
  /\ merging.step = "next"
  /\ IF Losers = {}
     THEN merging' = [merging EXCEPT !.step = "done"]
     ELSE \E n \in Losers : merging' = [node |-> n, step |-> "duplicates"]
  /\ UNCHANGED <<nodes, edges, stays, aliases, told, before>>

Survivor == stays[merging.node]

Did(field, S) == told' = [told EXCEPT !.done[field] = @ + Cardinality(S)]

DeleteDuplicates ==
  LET S == Duplicates(merging.node, Survivor) IN
  /\ merging.step = "duplicates"
  /\ edges' = edges \ S
  /\ Did("duplicates", S)
  /\ merging' = [merging EXCEPT !.step = "loops"]
  /\ UNCHANGED <<nodes, stays, aliases, before>>

DeleteLoops ==
  LET S == Between(merging.node, Survivor) IN
  /\ merging.step = "loops"
  /\ edges' = edges \ S
  /\ Did("loops", S)
  /\ merging' = [merging EXCEPT !.step = "repoint"]
  /\ UNCHANGED <<nodes, stays, aliases, before>>

\* Slip: only the edges from the node are repointed; the cascade takes the others.
RepointOutgoing ==
  LET n == merging.node
      S == {e \in edges : e[1] = n} IN
  /\ merging.step = "repoint"
  /\ edges' = (edges \ S) \cup {Repointed(e, n, Survivor) : e \in S}
  /\ Did("repointed", S)
  /\ merging' = [merging EXCEPT !.step = "alias"]
  /\ UNCHANGED <<nodes, stays, aliases, before>>

\* UNIQUE (source_id, target_id, relation): the statement fails if two edges would be one.
Repoint ==
  LET n == merging.node
      S == EdgesOf(n)
      images == {Repointed(e, n, Survivor) : e \in S} IN
  /\ merging.step = "repoint"
  /\ IF /\ images \cap (edges \ S) = {}
        /\ \A e, f \in S : Repointed(e, n, Survivor) = Repointed(f, n, Survivor) => e = f
     THEN /\ edges' = (edges \ S) \cup images
          /\ Did("repointed", S)
          /\ merging' = [merging EXCEPT !.step = "alias"]
     ELSE /\ merging' = [merging EXCEPT !.step = "failed"]
          /\ UNCHANGED <<edges, told>>
  /\ UNCHANGED <<nodes, stays, aliases, before>>

StoreAlias ==
  /\ merging.step = "alias"
  /\ aliases' = [aliases EXCEPT ![Survivor] = @ \cup {merging.node}]
  /\ merging' = [merging EXCEPT !.step = "delete"]
  /\ UNCHANGED <<nodes, edges, stays, told, before>>

\* ON DELETE CASCADE.  What the node itself had noted goes with its row.
DeleteLoser ==
  /\ merging.step = "delete"
  /\ nodes' = nodes \ {merging.node}
  /\ edges' = edges \ EdgesOf(merging.node)
  /\ merging' = [node |-> NoNode, step |-> "next"]
  /\ aliases' = [aliases EXCEPT ![merging.node] = {}]
  /\ UNCHANGED <<stays, told, before>>

\* The operator's process dies, or its connection, and the application is begun anew.
StopMerge ==
  /\ merging.step \notin {"report", "done"}
  /\ merging' = [node |-> NoNode, step |-> "report"]
  /\ UNCHANGED <<nodes, edges, stays, aliases, told, before>>

\* Somebody asserts an edge meanwhile.
AssertEdge ==
  /\ merging.step \notin {"report", "done"}
  /\ \E e \in Asserted \ edges :
       /\ e[1] \in nodes /\ e[3] \in nodes
       /\ edges' = edges \cup {e}
       /\ before' = before \cup {e}
  /\ UNCHANGED <<nodes, stays, merging, aliases, told>>

MigrationNext ==
  \/ Report \/ NextLoser
  \/ DeleteDuplicates \/ DeleteLoops \/ Repoint \/ StoreAlias \/ DeleteLoser
  \/ StopMerge

MigrationSpec == MigrationInit /\ [][MigrationNext]_migrationVars

\* The same, while others write.
MigrationAmongWriters ==
  MigrationInit /\ [][MigrationNext \/ AssertEdge]_migrationVars
-----------------------------------------------------------------------------
IsKept(e) ==
  \E o \in edges :
    /\ o[2] = e[2] /\ Key[o[1]] = Key[e[1]] /\ Key[o[3]] = Key[e[3]]
    /\ e[1] = e[3] => o[1] = o[3]

\* If nobody writes meanwhile, wherever an application dies and is begun anew: every edge
\* that was there is there between nodes of the same keys, whatever was deleted, repointed
\* or taken by a cascade, unless it was one between two nodes that are to be one; and no
\* statement runs into UNIQUE.
EveryEdgeIsKept ==
  /\ merging.step # "failed"
  /\ \A e \in edges : {e[1], e[3]} \subseteq nodes
  /\ \A e \in before : IsKept(e) \/ (e[1] # e[3] /\ Key[e[1]] = Key[e[3]])

\* Violated where an application dies (fold_migration.py:223: the label that disappears stays
\* on the survivor): the next one may find another survivor, and deletes the first.
AliasesAreKept ==
  \A n \in Nodes \ nodes : \E s \in nodes : Key[s] = Key[n] /\ n \in aliases[s]

\* Violated (fold_migration.py: the report says what the application will do): edges that
\* the application deletes as duplicates or loops are counted as repointed too.
ReportIsWhatIsDone ==
  merging.step = "done" => told.report = told.done
=============================================================================
