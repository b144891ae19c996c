----------------------------- MODULE MCKbIngest ----------------------------
(* KbIngest on small instances: one document, two files.                     *)
EXTENDS KbIngest, TLC

CONSTANTS d1, owner, a, b, w1, w2

MCOwnerOf == [d \in Docs |-> owner]
MCUnder   == [p \in Owners |-> {p}]

\* Extraction gives the same chunks each time.
MCOnePlan == [c \in Contents |-> {Ordinals}]

\* Another chunking configuration is deployed between two preparations.
MCTwoPlans == [c \in Contents |-> {{1}, Ordinals}]

\* One embedding model: no other content has the same bytes.
MCOneModel == [c \in Contents |-> {c}]

\* Two models and one file.
MCTwoModels == [c \in Contents |-> Contents]

\* No action but the pruning reads the tombstones.
LiveView == <<docs, versions, drafts, chunks, originals, clock, worker>>

\* Jobs are alike, and so are files: the definitions above treat them alike.
Symmetry == Permutations(Workers) \cup Permutations(Contents)
=============================================================================
