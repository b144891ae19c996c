------------------------------ MODULE MCHypnos -----------------------------
(* Hypnos on small instances.                                                *)
EXTENDS Hypnos, TLC

CONSTANTS s1, s2, k1, k2, w1, w2, j1, j2, p1

Symmetry == Permutations(Writers)

\* The run that uses this view asks nothing of the memories, of the losses or of when a row
\* landed. No guard reads more of the memories than whether a scope has any, and what a
\* consolidation draws them from, which is never empty while it waits for the model,
\* nothing else.
TurnView == <<[s \in Scopes |-> [k \in Ids |-> [n \in TurnNumbers |->
                [turns[s][k][n] EXCEPT !.landed = 0]]]],
              sessions, {s \in Scopes : memories[s] = {}}, saves, purge, erased,
              clock, [j \in Janitors \cup Callers |-> [jobs[j] EXCEPT !.liked = {}]],
              known, faults>>
=============================================================================
