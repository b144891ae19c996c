----------------------------- MODULE MCKbReads -----------------------------
(* KbReads, and under it KbStore, on a small instance: two documents of two  *)
(* owners, one under the prefix of the other.                                *)
EXTENDS KbReads, TLC

CONSTANTS d1, d2, tenant, agent, a, b, c, r1, guest

MCOwnerOf == [d \in Docs |-> IF d = d1 THEN tenant ELSE agent]
MCUnder   == tenant :> {tenant, agent} @@ agent :> {agent}

\* No action but the pruning reads the tombstones, so that states that differ in
\* them alone have the same future: one of them is explored.
LiveView  == <<docs, versions, drafts, chunks, originals, clock, profiles, readers>>

Symmetry  == Permutations(Contents)
=============================================================================
