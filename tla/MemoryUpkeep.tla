---------------------------- MODULE MemoryUpkeep ---------------------------
(***************************************************************************)
(* The memories of one scope while a janitor keeps them (maintenance.py):  *)
(* the upsert that tells a fact, feedback, retention and erasure, and the  *)
(* walk that re-embeds every row after a change of model.  A statement is  *)
(* atomic.  The walk is many: it reads a page by id, waits for the model,  *)
(* and saves the page row by row, with any other call between two steps.   *)
(*                                                                         *)
(* A fact is a category and a content, the key of the upsert.  A vector is *)
(* known by the model that made it.  An id is a random uuid and matters by *)
(* its place among the ids.                                                *)
(***************************************************************************)
EXTENDS Integers, FiniteSets

CONSTANTS
  Facts,        (* What may be remembered.                                 *)
  Ids,          (* Bounds the model: the places of an id.                  *)
  Personas,     (* Who may hear a fact first; the blank persona is "".     *)
  Batch,        (* The walk's page size.                                   *)
  Ceiling,      (* Retention's max_confidence.                             *)
  Confidences,  (* The confidences a fact is told with.                    *)
  ScoreCap,     (* Where the feedback score saturates.                     *)
  Touched,      (* How many rows one feedback reaches at most.             *)
  MaxCalls,     (* Bounds the model: the calls of everybody but the walk.  *)
  Nil           (* The row of a fact that is not remembered.               *)

ASSUME UpkeepAssumption ==
  /\ Ids \subseteq Nat \ {0}
  /\ Batch \in Nat \ {0}
  /\ Confidences \subseteq Nat
  /\ Ceiling \in Nat
  /\ ScoreCap \in Nat
  /\ Touched \in Nat
  /\ MaxCalls \in Nat
  /\ Nil \notin [id : Ids, confidence : Confidences, space : {"none", "old", "new"},
                 heard : Personas \cup {""}, aged : BOOLEAN, score : -ScoreCap..ScoreCap]

VARIABLES
  rows,         (* Per fact: its row.                                      *)
  walk,         (* The re-embedding walk.                                  *)
  marks,        (* For the properties alone: see Marks.                    *)
  calls         (* How many calls the others have made.                    *)

upkeepVars == <<rows, walk, marks, calls>>

Spaces == {"none", "old", "new"}

Row == [id : Ids, confidence : Confidences, space : Spaces, heard : Personas \cup {""},
        aged : BOOLEAN, score : -ScoreCap..ScoreCap]

\* What the page holds of a row: the record scan_memories gave, of which these are used.
Copy == [fact : Facts, id : Ids, confidence : Confidences]

Phases == {"idle", "scanning", "embedding", "saving", "done"}
Walk   == [phase : Phases, after : Ids \cup {0}, page : SUBSET Copy, todo : SUBSET Copy]

NoWalk == [phase |-> "idle", after |-> 0, page |-> {}, todo |-> {}]

\* standing: the rows there were when the walk began that nobody has removed or told again
\* and the embedder has not skipped; disturbed: facts told or removed since the page was
\* read; revised: facts saved from a disturbed page; told: the confidence last told.
Marks == [standing : SUBSET Facts, disturbed : SUBSET Facts, revised : SUBSET Facts,
          told : [Facts -> Confidences \cup {0}]]

UpkeepTypeOK ==
  /\ rows \in [Facts -> Row \cup {Nil}]
  /\ walk \in Walk
  /\ marks \in Marks
  /\ calls \in 0..MaxCalls

Remembered == {f \in Facts : rows[f] # Nil}
UsedIds    == {rows[f].id : f \in Remembered}

\* The memories as an older model left them, young and aged ones.
UpkeepInit ==
  /\ rows \in [Facts -> [id : Ids, confidence : Confidences, space : {"old"}, heard : Personas,
                         aged : BOOLEAN, score : {0}] \cup {Nil}]
  /\ \A f, g \in Remembered : rows[f].id = rows[g].id => f = g
  /\ walk = NoWalk
  /\ marks = [standing |-> {}, disturbed |-> {}, revised |-> {},
              told |-> [f \in Facts |-> IF rows[f] = Nil THEN 0 ELSE rows[f].confidence]]
  /\ calls = 0

-----------------------------------------------------------------------------
(* The table *)

IsFresh(id) == id \in Ids \ UsedIds

\* Slip: the list of updated columns is made to match the list of inserted ones.
UpsertUniform(f, confidence, space, heard) ==
  \E id \in Ids :
    /\ IF rows[f] = Nil THEN IsFresh(id) ELSE id = rows[f].id
    /\ rows' = [rows EXCEPT ![f] =
         [id |-> id, confidence |-> confidence, space |-> space, heard |-> heard,
          aged |-> FALSE, score |-> 0]]

\* Slip: a fact told again keeps the confidence it had.
UpsertKeepingConfidence(f, confidence, space, heard) ==
  IF rows[f] = Nil
  THEN \E id \in Ids :
         /\ IsFresh(id)
         /\ rows' = [rows EXCEPT ![f] =
              [id |-> id, confidence |-> confidence, space |-> space, heard |-> heard,
               aged |-> FALSE, score |-> 0]]
  ELSE rows' = [rows EXCEPT ![f] =
         [@ EXCEPT !.space = IF space = "none" THEN @ ELSE space]]

\* On conflict the confidence is replaced, a vector only by another, and who heard it
\* first, its age and its score stay.
Upsert(f, confidence, space, heard) ==
  IF rows[f] = Nil
  THEN \E id \in Ids :
         /\ IsFresh(id)
         /\ rows' = [rows EXCEPT ![f] =
              [id |-> id, confidence |-> confidence, space |-> space, heard |-> heard,
               aged |-> FALSE, score |-> 0]]
  ELSE rows' = [rows EXCEPT ![f] =
         [@ EXCEPT !.confidence = confidence,
                   !.space = IF space = "none" THEN rows[f].space ELSE space]]

Delete(S) == rows' = [f \in Facts |-> IF f \in S THEN Nil ELSE rows[f]]

-----------------------------------------------------------------------------
(* Everybody but the walk *)

Called == calls < MaxCalls /\ calls' = calls + 1 /\ UNCHANGED walk

\* Somebody else's call has told or removed the facts S.
Disturb(S) ==
  [marks EXCEPT !.standing = @ \ S,
                !.disturbed = IF walk.page = {} THEN @ ELSE @ \cup S,
                !.revised = @ \ S]

\* With a vector of its process's model, or with none when the embedder failed.
SaveMemory(f, confidence, space, heard) ==
  /\ Called
  /\ Upsert(f, confidence, space, heard)
  /\ marks' = [Disturb({f}) EXCEPT !.told[f] = confidence]

Saturated(score) ==
  IF score > ScoreCap THEN ScoreCap ELSE IF score < -ScoreCap THEN -ScoreCap ELSE score

\* Any matching rows, as many as the limit allows.
AdjustFeedbackScore(delta) ==
  /\ Called
  /\ \E S \in SUBSET Remembered :
       /\ S # {} /\ Cardinality(S) <= Touched
       /\ rows' = [f \in Facts |->
            IF f \in S THEN [rows[f] EXCEPT !.score = Saturated(@ + delta)] ELSE rows[f]]
  /\ UNCHANGED marks

\* A category of a scope, or with purge_scope all of it.
DeleteMemories(S) ==
  /\ Called
  /\ S # {}
  /\ Delete(S)
  /\ marks' = [Disturb(S) EXCEPT !.told = [f \in Facts |-> IF f \in S THEN 0 ELSE @[f]]]

\* Retention: old rows, and of those only what is not confirmed.
PruneMemories ==
  LET S == {f \in Remembered : rows[f].aged /\ rows[f].confidence <= Ceiling} IN
  DeleteMemories(S)

-----------------------------------------------------------------------------
(* The walk *)

BeginWalk ==
  /\ walk.phase = "idle"
  /\ walk' = [NoWalk EXCEPT !.phase = "scanning"]
  /\ marks' = [marks EXCEPT !.standing = Remembered]
  /\ UNCHANGED <<rows, calls>>

PastCursor == {f \in Remembered : rows[f].id > walk.after}
PageFacts  ==
  {f \in PastCursor : Cardinality({g \in PastCursor : rows[g].id < rows[f].id}) < Batch}

Ended == [NoWalk EXCEPT !.phase = "done"]

\* Slip: the next page is counted from the first row instead of found by id.
ScanByOffset ==
  LET skipped == {f \in Remembered :
                    Cardinality({g \in Remembered : rows[g].id < rows[f].id}) < walk.after}
      rest == Remembered \ skipped
      page == {f \in rest : Cardinality({g \in rest : rows[g].id < rows[f].id}) < Batch}
  IN
  /\ walk.phase = "scanning"
  /\ walk' = IF page = {} THEN Ended
             ELSE [walk EXCEPT !.phase = "embedding", !.after = @ + Batch,
                    !.page = {[fact |-> f, id |-> rows[f].id,
                               confidence |-> rows[f].confidence] : f \in page}]
  /\ marks' = [marks EXCEPT !.disturbed = {}]
  /\ UNCHANGED <<rows, calls>>

\* The next Batch rows by id; the walk ends where there are none.
ScanPage ==
  /\ walk.phase = "scanning"
  /\ walk' = IF PageFacts = {} THEN Ended
             ELSE [walk EXCEPT !.phase = "embedding",
                    !.page = {[fact |-> f, id |-> rows[f].id,
                               confidence |-> rows[f].confidence] : f \in PageFacts}]
  /\ marks' = [marks EXCEPT !.disturbed = {}]
  /\ UNCHANGED <<rows, calls>>

\* The model answers, with an empty vector for what it could not embed.
EmbedPage ==
  /\ walk.phase = "embedding"
  /\ \E failed \in SUBSET walk.page :
       /\ walk' = [walk EXCEPT !.phase = "saving", !.todo = walk.page \ failed]
       /\ marks' = [marks EXCEPT !.standing = @ \ {m.fact : m \in failed}]
  /\ UNCHANGED <<rows, calls>>

\* Each row is saved with the confidence it was read with.
SaveNext ==
  /\ walk.phase = "saving"
  /\ \E m \in walk.todo :
       /\ \A other \in walk.todo : m.id <= other.id
       /\ Upsert(m.fact, m.confidence, "new", "")
       /\ walk' = [walk EXCEPT !.todo = @ \ {m}]
       /\ marks' = [marks EXCEPT !.revised =
                     IF m.fact \in marks.disturbed THEN @ \cup {m.fact} ELSE @]
  /\ UNCHANGED calls

\* The cursor moves past the page; a short page was the last.
NextPage ==
  /\ walk.phase = "saving" /\ walk.todo = {}
  /\ walk' = IF Cardinality(walk.page) < Batch THEN Ended
             ELSE [walk EXCEPT !.phase = "scanning", !.page = {},
                    !.after = CHOOSE i \in Ids : \E m \in walk.page :
                                m.id = i /\ \A other \in walk.page : other.id <= i]
  /\ UNCHANGED <<rows, marks, calls>>

\* The janitor dies, or a provider's error ends the walk: the next one begins anew.
StopWalk ==
  /\ walk.phase \in {"scanning", "embedding", "saving"}
  /\ calls < MaxCalls /\ calls' = calls + 1
  /\ walk' = NoWalk
  /\ marks' = [marks EXCEPT !.standing = {}, !.disturbed = {}]
  /\ UNCHANGED rows

-----------------------------------------------------------------------------
WalkNext  == BeginWalk \/ ScanPage \/ EmbedPage \/ SaveNext \/ NextPage

OtherNext ==
  \/ \E f \in Facts, confidence \in Confidences, space \in Spaces, heard \in Personas :
       SaveMemory(f, confidence, space, heard)
  \/ \E delta \in {-1, 1} : AdjustFeedbackScore(delta)
  \/ \E S \in SUBSET Remembered : DeleteMemories(S)
  \/ PruneMemories
  \/ StopWalk

UpkeepNext == WalkNext \/ OtherNext

UpkeepSpec == UpkeepInit /\ [][UpkeepNext]_upkeepVars
-----------------------------------------------------------------------------
\* A walk that ends has moved every row that stood all through it to the new model, except
\* those the embedder skipped and those somebody told again meanwhile, whatever was
\* inserted, removed or pruned between its pages.
WalkMovesWhatStands ==
  walk.phase = "done" => \A f \in marks.standing : rows[f].space = "new"

\* Re-embedding changes vectors and nothing else, unless a fact of its page was told or
\* removed after the page was read: no confidence, age, score or first hearer is touched,
\* no row appears, and feedback given meanwhile is kept.
ReembeddingMovesVectorsOnly ==
  [][\A f \in Facts \ marks.disturbed :
       walk' # walk =>
         \/ rows'[f] = rows[f]
         \/ rows[f] # Nil /\ rows'[f] = [rows[f] EXCEPT !.space = "new"]]_upkeepVars

\* Retention removes nothing whose last telling confirmed it, but for a fact that the walk has
\* saved since from a page read before that telling, with the confidence of then
\* (ConfirmedIsKept).
RetentionSparesTheConfirmed ==
  [][PruneMemories => \A f \in Facts :
       (rows'[f] # rows[f] /\ f \notin marks.revised) => marks.told[f] <= Ceiling]_upkeepVars

\* Violated: retention never "deletes a CONFIRMED fact because it is old" (maintenance.py,
\* prune_memories, of max_confidence).  A fact that is confirmed while its page waits for the
\* model is saved back unconfirmed.
ConfirmedIsKept ==
  [][PruneMemories => \A f \in Facts : rows'[f] # rows[f] => marks.told[f] <= Ceiling]_upkeepVars

\* Violated, as maintenance.py says of itself (the store must be quiescent): a fact that was
\* removed stays so until it is told again.
RemovedStaysRemoved ==
  \A f \in Facts : rows[f] # Nil => marks.told[f] # 0
=============================================================================
