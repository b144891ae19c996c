----------------------------- MODULE KbServing -----------------------------
(***************************************************************************)
(* What the document store promises to the readers of a document, and      *)
(* nothing of how: a document serves no text, then the whole text of one   *)
(* version, then the whole text of a newer one, and so on until somebody   *)
(* removes it.  Nothing but a newer version or a removal takes a served    *)
(* text away, and no text is served in part.                               *)
(***************************************************************************)
EXTENDS Naturals

CONSTANTS
  Docs,         (* Documents.                                              *)
  Numbers,      (* Version numbers.                                        *)
  Texts,        (* Whole texts a version may have, as sets of chunks.      *)
  NoText        (* What a document that serves nothing answers.            *)

VARIABLES
  present,      (* The documents that were created and not removed.        *)
  served        (* Per document: the version it answers with, its text.    *)

servingVars == <<present, served>>

Nothing == [version |-> 0, text |-> NoText]

ServingInit ==
  /\ present = {}
  /\ served = [d \in Docs |-> Nothing]

Create(d) ==
  /\ d \notin present
  /\ present' = present \cup {d}
  /\ UNCHANGED served

Publish(d) ==
  /\ d \in present
  /\ \E n \in Numbers, text \in Texts :
       /\ n > served[d].version
       /\ served' = [served EXCEPT ![d] = [version |-> n, text |-> text]]
  /\ UNCHANGED present

\* One document, or every document under an owner, in one step.
Withdraw(S) ==
  /\ present' = present \ S
  /\ served' = [d \in Docs |-> IF d \in S THEN Nothing ELSE served[d]]

ServingNext ==
  \/ \E d \in Docs : Create(d) \/ Publish(d)
  \/ \E S \in SUBSET present : Withdraw(S)

ServingSpec == ServingInit /\ [][ServingNext]_servingVars
=============================================================================
