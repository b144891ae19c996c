----------------------------- MODULE KbSearch ------------------------------
(***************************************************************************)
(* `search`, against everything that writes the store.  In memory it is    *)
(* one step; in Postgres it reads the embedding models of what the caller  *)
(* may read in one statement and the passages in another, each of them a   *)
(* snapshot of its own.                                                    *)
(***************************************************************************)
EXTENDS KbReads

CONSTANTS
  ModelOf,      (* The embedding model of each content, a function of them. *)
  InMemory      (* Which adapter answers: the one in memory, or Postgres.  *)

VARIABLE
  queries       (* Per reader: the search it has under way, or its answer. *)

searchVars == <<readsVars, queries>>

Models == {ModelOf[c] : c \in Contents}

\* The model is the one that made the query's vector; vector, whether it is compared;
\* spaces, the models of the passages it was compared with.
NoQuery == [doing |-> "idle"]
Query   == [doing : {"searching"}, profile : Profiles, model : Models, vector : BOOLEAN]
Answer  == [doing : {"found"}, model : Models, vector : BOOLEAN, spaces : SUBSET Models]

SearchTypeOK ==
  /\ ReadsTypeOK
  /\ queries \in [Readers -> {NoQuery} \cup Query \cup Answer]

SearchInit ==
  /\ ReadsInit
  /\ queries = [r \in Readers |-> NoQuery]

-----------------------------------------------------------------------------
ServedSources(p) == UNION {ServedSource(d, p) : d \in Docs}

\* All or none: the vector is compared only if every readable version has its model.
UsesVector(p, m) == \A s \in ServedSources(p) : ModelOf[ContentOf(s)] = m

\* With the vector every readable passage is a candidate; without, those that match.
Hits(p, vector) ==
  LET all == UNION {TextOf(s) : s \in ServedSources(p)}
  IN  IF vector THEN {all} ELSE SUBSET all

Found(m, vector, hits) ==
  [doing |-> "found", model |-> m, vector |-> vector,
   spaces |-> IF vector THEN {ModelOf[h[1]] : h \in hits} ELSE {}]

SearchAtOnce(r, p, m) ==
  /\ InMemory
  /\ queries[r] = NoQuery
  /\ \E hits \in Hits(p, UsesVector(p, m)) :
       queries' = [queries EXCEPT ![r] = Found(m, UsesVector(p, m), hits)]

SearchModels(r, p, m) ==
  /\ ~InMemory
  /\ queries[r] = NoQuery
  /\ queries' = [queries EXCEPT ![r] =
        [doing |-> "searching", profile |-> p, model |-> m, vector |-> UsesVector(p, m)]]

SearchPassages(r) ==
  /\ queries[r].doing = "searching"
  /\ \E hits \in Hits(queries[r].profile, queries[r].vector) :
       queries' = [queries EXCEPT ![r] = Found(@.model, @.vector, hits)]

Search ==
  /\ \E r \in Readers :
       \/ \E p \in Profiles, m \in Models : SearchAtOnce(r, p, m) \/ SearchModels(r, p, m)
       \/ SearchPassages(r)
  /\ UNCHANGED readsVars

SearchNext == (ReadsNext /\ UNCHANGED queries) \/ Search

SearchSpec == SearchInit /\ [][SearchNext]_searchVars
-----------------------------------------------------------------------------
\* Violated in Postgres, where a swap may fall between the statements; held in memory.  A
\* vector is compared only with passages that its own model indexed (documents.py,
\* KbSearchResult: the vector is used only when every readable chunk was indexed by the
\* model that made it).
OneVectorSpace ==
  \A r \in Readers :
    queries[r].doing = "found" => queries[r].spaces \subseteq {queries[r].model}
=============================================================================
