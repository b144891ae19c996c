-------------------------- MODULE MCConversations --------------------------
(* Conversations on small instances.                                         *)
EXTENDS Conversations, TLC

CONSTANTS s1, s2, k1, k2, w1, w2, w3

Symmetry == Permutations(Writers) \cup Permutations(Scopes)

\* No property reads the feedback, how many losses were counted, more of the memories than
\* whether there are any, or when a scope was purged; nor does a guard or an update that they
\* read, but for Few.
TurnView == <<[s \in Scopes |-> [k \in Ids |-> [n \in TurnNumbers |->
                [turns[s][k][n] EXCEPT !.disliked = FALSE]]]],
              sessions, {s \in Scopes : memories[s] = {}}, saves, purge,
              {s \in Scopes : erased[s] # 0}, clock>>

\* Bounds the model.  Memories are none or of the first instant, of one scope, and forgotten
\* before the third, since no property of the run asks for more; at most one scope has its
\* turns purged, or one writer dies; and while a session that the library minted is open, no
\* other scope has its id.
OpenElsewhere(r, k) == sessions[k].scope \notin {r, Nil} /\ sessions[k].ended = 0

Few ==
  /\ \A s \in Scopes : memories[s] \subseteq {1}
  /\ Cardinality({s \in Scopes : memories[s] # {}}) <= IF clock < 3 THEN 1 ELSE 0
  /\ Cardinality({s \in Scopes : erased[s] # 0})
       + Cardinality({w \in Writers : saves[w].phase = "dead"}) <= 1
  /\ \A r \in Scopes, k \in Ids : OpenElsewhere(r, k) =>
       TurnsOf(r, k) = {} /\ \A w \in Writers : ~(saves[w].scope = r /\ saves[w].id = k)
=============================================================================
