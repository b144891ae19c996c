----------------------------- MODULE MCKbSearch ----------------------------
(* KbSearch on a small instance: one document, two contents of two models.   *)
EXTENDS KbSearch, TLC

CONSTANTS d1, owner, a, b, r1, guest

MCOwnerOf == [d \in Docs |-> owner]
MCUnder   == [p \in Owners |-> {p}]

\* Every content is made with a model of its own.
MCModelOf == [content \in Contents |-> content]

LiveView == <<docs, versions, drafts, chunks, originals, clock, profiles, readers, queries>>
Symmetry == Permutations(Contents)
=============================================================================
