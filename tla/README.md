# cogno-engram: verification development

TLA+ models of [cogno-engram](../src/README.md), the memory of a conversational agent: what
it keeps of conversations, what it consolidates of them, the graph it builds, and the
documents it serves. The models are written from the code under `src/cogno_engram`. TLC checks
them on small instances, and TLAPS proves the theorems for every value of the constants.

1. [The system](#1-the-system): components, state, operations, interactions
2. [The modules](#2-the-modules) and how they correspond to the code
3. [The runs](#3-the-runs): bounds, fairness, what each one shows
4. [Where code and documentation disagree](#4-where-code-and-documentation-disagree)
5. [The theorems](#5-the-theorems)
6. [What is not modelled](#6-what-is-not-modelled), and the [plan](#7-the-plan)

## 1. The system

The library has no threads and no server. A host (an agent process, a worker, a panel, a cron)
calls it, several of its processes at once, and they meet in one store: PostgreSQL, or the
in-memory adapter inside one process. What is hard about it is therefore not inside a
function. It is what several callers, each in the middle of a handler that awaits a model or a
database for seconds to minutes, do to the rows that the others have read.

### 1.1 Components

| Component | Where | State | Operations that change it |
| --- | --- | --- | --- |
| Document store | `documents.py` (port), `adapters/in_memory.py`, `adapters/postgres.py` | documents, version rows, drafts, chunks, originals, tombstones | create_document, begin_version, save_draft, claim_draft, add_chunks, commit_version, fail_version, discard_draft, expire_drafts, interrupt_stale, delete_document, purge_owner_subtree, prune_tombstones, set_profiles |
| Document reader path | both adapters | none; what a caller has read so far | search, read_served, version_text |
| Ingestion | `ingest.py` | none of its own; a job's local variables between two calls | prepare, commit, ingest, reindex, discard_draft and the two sweeps |
| Embedding rate limiter | `ingest.py` TokensPerMinute | a token bucket | the call before each embedding |
| Conversation tables | `ports.py` MemoryStore, both adapters, `write_loss.py` | turns, sessions, memories, a count of losses | create_session, close_session, save_turn, update_turn_response, set_feedback, save_memory, delete_memories, purge_scope |
| Turn traces | `trace_policy.py`, both adapters | a trace on each turn | save_turn_trace, with a window for revisions |
| Memories, their feedback and their retrieval | both adapters | rows with a confidence, a vector, a score | save_memory, adjust_feedback_score, delete_memories; scan_memories and load_memories read |
| Conversation buffer | `adapters/redis_buffer.py`, `adapters/in_memory.py` | a list per session, in Redis with an expiry | push, window, clear |
| Hypnos, and the janitor loop that runs it | `hypnos.py`, `docs/HOST_INTEGRATION.md` | none of its own; what a consolidation has loaded | micro_consolidate (Tier 1), periodic_consolidate (2), consolidate_session (3) |
| Knowledge graph | `ports.py` KnowledgeGraph, `types.py`, both adapters | nodes, edges | upsert_node, upsert_edge, set_edge_status, set_edge_audience, delete_node, delete_edges_by_session, purge_scope; and its reads |
| Maintenance | `maintenance.py` | none of its own; lists read before they are acted on | prune_orphan_nodes, classify_edge_audience, prune_memories, reembed_memories, reembed_knowledge_nodes |
| Label folding, and its migration | `folding.py`, `textfold.py`, `fold_migration.py` | the nodes it merges | fold_collisions, merge_fold_collisions |
| Chunking | `chunking.py` | none | chunk_markdown, chunk_pages, chunk_text, join_passages |
| Extraction | `documents.py` | none | the host's extractor, and read_extracted |
| Lexical search | `lexical.py` | none | candidates, ranking, the decision what to answer |
| Reranking | `reranker.py` | none | orders hits |
| Graph context block | `graph_context.py` | none | ingest_entities (an upsert_node for each entity); the rest formats |
| Package surface | `__init__.py` files | none | imports |
| Benchmark harness | `src/cognobench` | none | scores models on fixed questions; no host runs it |

### 1.2 How they interact

* **Host to ingestion to document store.** A panel or a worker calls `prepare` and `commit`;
  each makes several calls to the store and computes between them (extraction and chunking,
  the spending gate, the embeddings). The host's tick calls `expire_drafts` and
  `interrupt_stale`; the panel discards, deletes and purges at any time.
* **Turns, janitor, tables.** The host saves each turn. Every so often a turn calls
  `periodic_consolidate`; a loop of the host asks `idle_sessions` and calls
  `consolidate_session`. Both load the turns, wait for a model, and save memories; Tier 3
  closes the session, which stamps the turns that it is said to have read. `session_lock`
  exists, and whether to hold it is the host's choice.
* **Extractions, people, jobs and the graph.** Hypnos upserts the relations it extracts as
  proposals or as facts; staff write edges of their own; curators accept or reject what is
  pending; maintenance lists nodes or edges and then deletes or classifies them one by one.
  Feedback prunes: when a session ends with a disliked turn, the edges of that session go.
* **Readers.** A contact reads what is everybody's or its own; staff read everything. Walks,
  counts and similarity must agree on that, and the two adapters must agree on the answers.
* **Readers of documents.** A guest's agent reads a served text a page at a time and searches it, an
  administrator reads a draft, while versions are swapped and profiles withdrawn.
* **A change of model, and other upkeep.** A janitor walks the memories page by page, waits for a
  model, and saves each row back through the same upsert that tells a fact, while facts are told,
  scored, pruned and erased.

### 1.3 What is hard, and what must hold

* **Document store and ingestion.** Two jobs, a sweep, a panel and a crash, in any order. A
  document that answers keeps answering with a whole text, until a newer text or a removal;
  four tables that say the same thing about one version; nothing stays `processing`, nothing is
  removed without a record, and nothing is written for what is gone.
* **Conversation tables.** Numbers are allocated by `max + 1` without a lock, so allocations
  race, and `created_at` is fixed before the number is taken. A turn that begins after another was
  saved comes after it; that a transcript is in the order of `created_at` throughout needs `session_lock`.
  A row is never another turn's, and a turn that is dropped is counted. `sessions` is keyed by an id two
  scopes may share. With `dsn=` a purge is several transactions.
* **Hypnos.** Minutes pass between the load and the close, and the close stamps by time. A
  stamp means that the turn was read; the stamps and `ended_at` agree; a session is picked for
  news and for nothing else; and in the end every turn is read, whatever fails.
* **Knowledge graph.** `upsert_edge` is two statements, and the curators and the jobs act on
  what they read earlier. Edges have both ends; verdicts stand against later extractions;
  what is only proposed is never spoken; audiences that were declared are not widened.
* **Graph reads.** Hidden edges show in no answer, by a walk they route, a node they reveal, or
  a number they enter, but in one: what `related_only` offers. A recursive query and a breadth-first queue
  return the same edges.
* **Document reader path.** A text is read in several answers, and a version may be swapped between
  two of them, or between the two statements of one search. What is put together must be one
  version's text, and a vector compared only with vectors of its own model.
* **Memories and maintenance.** Every job lists and then acts: what has changed in between must not be
  undone, and a walk by pages must miss no row that was there throughout.
* **Rate limiter.** Jobs share a bucket and sleep outside of it: each is held to the rate it sees.
* **Migration of labels.** A merge of nodes is five statements and may die between any two: it loses
  no edge, and no statement fails on a uniqueness constraint.
* **Chunking.** What is split, packed, overlapped and joined again says what the author wrote, once
  and in order.
* **Lexical search.** The same question over the same stores has one answer, whatever order a query
  plan returns rows in; "nothing" is said only when everybody was asked.
* **Turn traces and the buffer.** A trace is revised within its window only, and revisions do not walk
  on; a window holds the end of the talk in both adapters.

The hazards, each at its line and with the properties that would catch it, are listed in
`PROJECT.json`.

## 2. The modules

```
KbServing                        what readers are promised
   ^ refined by
KbIngest ---- EXTENDS ----> KbStore          KbIngestProofs, KbStoreProofs
   workers and the host        the store
                               ^
KbSearch ---- EXTENDS ----> KbReads          KbReadsProofs (of both)
   searches                    whole texts, page by page

Hypnos ------ EXTENDS ----> Conversations    HypnosProofs (of both)
   janitors and callers        the tables

KgReads ----- EXTENDS ----> KnowledgeGraph   KnowledgeGraphProofs
   who is told what            nodes, edges, writers, people, jobs

MemoryUpkeep    memories, row by row, under the re-embedding walk   PartsProofs
TokenPacer      the bucket, and the jobs that sleep on it           PartsProofs
FoldMigration   the merge of nodes that fold alike                  PartsProofs
Lexical         from a question to a decision                       PartsProofs
TurnTraces      traces and their window                             PartsProofs
ConversationBuffer   a window in Redis and one in memory            PartsProofs
Chunking        from a file to chunks, and back                     ChunkingProofs

NaturalSets     lemmas about sets of naturals and induction, for the proofs
```

In each pair the upper module composes with the lower one: it adds processes (or readers), and
its steps change the store only through the lower module's operations. For KbIngest and Hypnos
that is itself checked (`Spec` and `ConvSpec` are properties of runs) and proved
(`IngestImplementsStore`, `HypnosImplementsConversations`), so that whatever is proved of a store
holds while any number of jobs run against it. The seven modules at the end share no variable with
another. Where their rows are also those of a larger module, they have what that one leaves out:
MemoryUpkeep what a row of a memory holds, TurnTraces the traces of turns, and FoldMigration the ids of
nodes, in a graph that nobody else writes meanwhile (`MCPartsWriters` shows why). `MCParts` puts the
seven side by side.

Conventions. The code's names are kept where TLA+ allows: `CommitVersion` is `commit_version`.
An operator whose comment begins with "Slip", or whose name is an operation and a fault, is an
operation as a plausible mistake would have it. No action uses one. `PROJECT.json` pairs each
with the property that notices it when it takes the operation's place. Constants that are
commented "Bounds the model" are there for TLC; no theorem depends on their values. Theorems
are in modules of their own. No module declares a RECURSIVE operator: what goes round is a recursive
function of a number (`TakenIn` in Chunking, `Hops` and `Met` in KgReads), which can be proved about.

### 2.1 KbStore: the document store

State: `docs` (does the document exist, and its `active_version`), `versions` (per document and
number: state, reason, `claimed_at`, `expires_at`, content), `drafts`, `chunks`, `originals`,
`tombstones`, `clock`. A content is a (sha256, embed_model) pair, the key that
`begin_version` looks up. A chunk is its ordinal. Texts, vectors, page counts and
usage figures are left out: no guard reads them.

Each operation is one atomic action. In memory it is, because it never awaits; in Postgres it
is one transaction that locks the document row (with one exception, see KbPostgres in the
plan). `BeginVersion` has its four ways: the row exists in some state and is taken again, it is
served already, it is new with the next number, or the document is gone. `CommitVersion` is
the disjunction of its two outcomes that write; refusals change nothing and are steps of the
worker that was refused. The sweeps end up to `SweepLimit` of the due versions, any of them:
the order within a sweep is by time, and rows of one time are unordered.

`Next` is `HostNext` (panel, tick, pruning) or `IngestCall`, which is any call of a worker with any
argument: the store is checked, and proved, against callers that nobody has coordinated.

### 2.2 KbIngest: workers

Adds `worker`: for each job the call it makes next, and what it holds. A step of a worker is one
call to the store with everything the worker computes before it. So the instant that `prepare`
reads at its start is in `moment` while others act, and the draft that was claimed is in `plan`
while chunks are staged in batches of `StageBatch`. `Fail` happens at the steps where the code catches
(extraction; the gate, the embedder, an internal error), with the reason of that step. `Crash` is
the death of the process, a cancellation, or a call to the store that raises where nothing catches:
the rows stay. `Reindex` prepares the stored original of the active version with the embedder of the
day (`SameBytes`: the same file under each model).

### 2.3 KbServing: the promise to readers

Twenty lines: a document serves nothing, then the whole text of one version, then that of a newer
one, until it is removed. `KbIngest` maps to it by `AnsweredWith` (the active version when it is
ready, with its chunks). It says nothing of drafts, sweeps, or failures.

### 2.4 Conversations: turns, sessions, memories

State: `turns` (per scope, id and number: the instant its transaction began, which is `created_at`, the
instant it landed, which is history, and whether it was pinned, stamped or disliked), `sessions` (per id: the scope and `ended_at`), `memories` (per scope: the
turns they were drawn from), `saves` (per writer: the insert it has begun), `lost`, `purge`,
`erased`, `clock`.

Statements are atomic and handlers are not. `save_turn` has three steps. Its transaction begins
(`BeginSave`), which fixes `now()`: with a pool that is not in autocommit that is a round trip of its own, and
in autocommit it still precedes the snapshot of the statement. The insert takes `max(turn_n) + 1` from that
snapshot (`TakeNumber`), unless the number is pinned; others may have begun and ended in between. And it lands,
or meets the conflict and begins again, with a new `now()`, up to `Attempts`, or is lost and counted. The
clock advances whenever `now()` is read, so that each turn has an instant of its own, and a turn is known by that
instant: a masked or reworded text is the same turn. `erased` is a history variable: when the scope was
last purged. `Connections` says how the host's processes connect: with `dsn=` each delete of a purge is a
transaction, and the process may die between two; in a pool they are one.

`DropSessionRows` is what a host does that cleans a scope up and spares the turns
(`idle_sessions` provides for it). `CreateSession` mints an id that nothing has used.

### 2.5 Hypnos: consolidation

Adds `jobs` (per janitor and caller: the scan, the session, what was loaded), `known` (the turns
of consolidations that completed and whose close was taken, a history variable) and `faults`. A consolidation has three
calls with time in between: `Load`, `Extract` (the answer of the model, embedded and saved as
memories) and `Close`. `Unread` is the WHERE clause of `idle_sessions` with both of its marks,
`ended_at` and the stamp, and its join by id alone. `FailJob` is an exception that the host
survives, `CrashJob` the death of the process. Relations go to the graph, which is another
module and touches nothing here.

`Locking` says whether the host holds `session_lock` around its turns and around its
consolidations. `docs/HOST_INTEGRATION.md:60` shows the lock around `save_turn`; lines 68 to 75 show
the consolidations without it. Both are legal, so both are checked.

### 2.6 KnowledgeGraph: nodes, edges, verdicts

State: `nodes` (per name and type: the row's id and spelling), `edges` (per pair of nodes and
relation: id, status, session, audience, whether there are attributes and whose), `writers`,
`curators`, `pruners`, `classifiers` (each with what it has read and not yet acted on),
`rejected` (history), `purging`, `inserted` (the last id).

One scope, and a connection per statement (`dsn=`). A label is its folded name and whether it
carries its diacritics, which is all that `_resolve_node_id` tells apart: the exact spelling first,
then the smallest id, else a new CONCEPT. `BeginEdge` resolves (or makes) both ends; `LandEdge`
inserts, if both rows are still the same ones, and merges on conflict as the CASE expressions do;
`LoseEdge` is the foreign key that refuses. The two ends are resolved in one step here, and what is
sent with an edge is chosen when it lands. `Judge` writes the verdict on the labels that a curator
read earlier. The lists of a maintenance job are one read; its writes are one by one.

### 2.7 KgReads: what is answered to whom

No state. Each read of the Postgres adapter is an operator over the rows, and each has its twin of the
in-memory adapter: `Walk` counts the paths of the recursive query, `WalkInMemory` is the queue;
`Degree` is the aggregate of `graph_stats`, `ContextEdges` the read that it replaces. An
answer is a set. Order is left out, but for the depth at which a walk reaches an edge.
`Hops` holds the rows that the recursive query returns at each depth, from those of the depth before;
`Met` is what the queue has met by then. Both are recursive functions of the depth, so that they can be
proved about. A staff read passes an audience that no contact may have (`ReaderAssumption`).

### 2.8 KbReads and KbSearch: readers of documents

KbReads adds `profiles` (whom a document is published to, with `SetProfiles`) and `readers`. One
call of `read_served` or `version_text` is one snapshot in both adapters, so it is one step; a whole
text takes several, each told the ordinal where the last ended. `PageOf` fetches one passage more than it
keeps, which is how the code knows that there are others. A reader keeps to the version that its first answer
named, which every answer repeats, and begins again when a later answer names another. `text`, what
the version held at the first answer, is a history variable. KbSearch adds `queries`: in memory a
search is one step; in Postgres it is two, the models that are readable and then the passages,
in autocommit or at READ COMMITTED.

### 2.9 MemoryUpkeep: memories and the re-embedding walk

State: `rows` (per fact, the key of the upsert: id, confidence, the model of its vector, who
heard it first, whether it is old enough for retention, its score), `walk` (phase, cursor, page,
what is left of the page). `Upsert` is the statement with its two column lists: on conflict the
confidence is replaced, the vector only by another vector, and the rest stays. The walk reads a page
(`ScanPage`), waits for the model (`EmbedPage`, which may skip some), and saves row by row (`SaveNext`) with the
confidence that it read; anybody else's call may fall between two of these. Ids are random, so
that a new row may sort before or behind the cursor. `marks` is history.

### 2.10 TokenPacer: the rate limiter

State: the bucket (`available` as of `at`), and per job the `call` that sleeps. The unit of time is
what one token takes to refill, so that everything is a whole number; in the code it is continuous.
`Pace` finds enough or computes the deficit and sleeps; `Wake` takes what it asked for, whatever
has been taken meanwhile, and what is not there is forgiven (`max(0, ...)`), as in the code.
`Observe` starts a count at any instant, so that the properties speak of every interval.

### 2.11 FoldMigration: the merge of labels

State: `nodes`, `edges` as (source, relation, target), `stays` (the report: who survives), `merging`
(the node, and which of its five statements is next), `aliases`. A statement is a step, because in autocommit
each stands alone. `StopMerge` is the death of the process, or of its connection, after which the
operator begins anew with a new report. `Repoint` fails where UNIQUE would; `DeleteLoser` takes what
the cascade takes. What a label folds to is a constant, `Key`.

### 2.12 Chunking and Lexical: two algorithms, run by their inputs

In Chunking the state is the file, which its author writes one line, page or bookmark at a time; what is made
of it are operators (`ChunkMarkdown`, `ChunkPages`, and back: `ChunkText`, `JoinPassages`), with
the code's helpers by name. Texts are sequences of characters, because where one is cut is the subject.
Each loop of the code is a step (`CutNext`, `AddUnit`, `AddLine`, `ReadLine`, `JoinNext`), which `TakenIn` takes for
one element after the other. A text is over any set of characters that has the two white ones and `">"`, which
stands for the mark of `path_separator` (`chunking.py:57`). A bookmark has a title, for `read_extracted`
drops those without (`documents.py:757-760`).
The reference, `LinesSay` and `PagesSay`, says what stands under which heading without any cutting.

One kind of title is not read back. The separator is not stored, so `chunk_text` (`chunking.py:186-203`) takes it
from the head: what is between the first title and the next. If the heading after the first title of the path is
itself the separator's mark ("›", or "› ›"), the mark that ends the separator can be taken for the title, the rest
does not fit, and the whole content is returned, its head included. `_content`'s docstring calls `chunk_text` "Its
inverse" (`chunking.py:180`); the one of `chunk_text` allows for it: "at worst a reader sees the path twice". No text is lost.
"› x" is read back, as is any other title. The theorem excludes these titles (`TitlesAreClear`), the
run has none, and `MCPartsMarked.cfg` shows one.

In Lexical the state is a question that is being answered: walks bring edges in any order and more than
once, sources break, and then `Decide`. Scores are shares of `Scale`, so that they are whole
numbers. An answer ranks a set of candidates: the place of one is the number of those that are better, by
score, source, the source's own order and the id, which is what sorting by that key gives. The reference is
the same decision over what the sources hold, as sets.

### 2.13 TurnTraces and ConversationBuffer

`save_turn_trace` is one statement that inserts, revises or refuses; it is dated by its caller, or when its
transaction begins, and lands later and out of order (`SendTrace`, `LandTrace`). `first` and
`late` are history. In ConversationBuffer each push and clear goes to both adapters: Redis trims and
expires, the list in memory does neither, and the properties compare what they serve.

## 3. The runs

`tlc -config <cfg> <module>` runs each; none takes five minutes on two cores.

| Run | Module, configuration | Checks |
| --- | --- | --- |
| kb_store_one | MCKbReads, MCKbReads | StoreInv, WalksReadOneText, ServedIsImmutable, NumbersAreNotReused, AnswersMoveForward, RemovalsAreRecorded |
| kb_one_job | MCKbIngest, MCKbIngestOneJob | ServedIsWhole, ServedKeepsAnswering, ReadersSeeServing, Spec |
| kb_settles | MCKbIngest, MCKbIngestSettles | EveryVersionSettles (liveness) |
| conv_tables | MCConversations, MCConversationsTables | TurnsInOrder, TurnsAreNeverReplaced, NoSilentLoss, CloseKeepsToItsScope |
| hypnos_locked | MCHypnos, MCHypnosLocked | StampMeansRead, TurnsInTime, MarkersAgree, PicksHaveNews |
| hypnos_settles | MCHypnos, MCHypnosSettles | EveryTurnIsRead (liveness), ConvSpec |
| kg_core | MCKnowledgeGraph, MCKnowledgeGraphCore | EdgesHaveEnds, VerdictsStand, AcceptedGainNoProposals, UpsertsKeepAudiences |
| kg_reads | MCKgReads, MCKgReads | SameWalk, SameAnswers, StatsAreTheContexts, EdgesShowTheirEnds, HiddenShowsInOffersAlone |
| parts | MCParts, MCParts | WalkMovesWhatStands, ReembeddingMovesVectorsOnly, RetentionSparesTheConfirmed (MemoryUpkeep); EachJobIsPaced (TokenPacer); EveryEdgeIsKept (FoldMigration); ReadBackIsTheText (Chunking); AnswersAreTheStores (Lexical); TracesKeepTheirTurn (TurnTraces); WindowsHoldTheTalk (ConversationBuffer) |
| kb_late_commit | MCKbIngest, MCKbIngestLost | ServedKeepsAnswering, violated: see section 4 |
| kb_search | MCKbSearch, MCKbSearchPostgres | OneVectorSpace, violated: see section 4 |
| kg_verdict | MCKnowledgeGraph, MCKnowledgeGraphVerdict | ProposalsModifyNoVerdict, violated: see section 4 |

The runs carry no type invariants: most are proved (`TypeCorrect`, `IngestTypeCorrect`, `ReadsTypeCorrect`,
`ConvTypeCorrect`, `HypnosTypeCorrect`, `GraphTypeCorrect`, `PacerTypeCorrect`, `TracesTypeCorrect`,
`BufferTypeCorrect`, `UpkeepTypeCorrect`, `SearchTypeCorrect`, `MigrationTypeCorrect`, `FileIsTyped`), and
`LexicalInv`, from which AnswersAreHeld follows, has those of Lexical.

### 3.1 What each one shows, and why its bounds are enough

**kb_store_one**: one document, two contents, two version numbers, two ordinals, the clock to 1, one
reader of one profile, one passage to a page. Every operation, any argument, any order, and any of them
between two pages. Two contents and two numbers are the least at which
a version is superseded, taken again, and overtaken by a late commit; two ordinals tell a part
of a text from the whole, and make a text take two pages; one tick tells due from not due (`DraftTtl` 1, `Stale` 0); a
sweep may take one or both. Operations of different documents meet only in the removal of a
subtree, which `MCKbReadsMany.cfg` (two documents, two owners, one under the other) covers, and passes.

**kb_one_job**: one worker, three versions, the clock to 2, uploads until 2, one chunk per batch,
two models of one file (so that `reindex` happens). Three numbers let a job find what it
served superseded, and then be superseded itself. It shows that with one job at a time readers see
`KbServing`, through every failure, crash, discard, sweep and deletion; and that `KbIngest`
is an implementation of `KbStore`.

**kb_settles**: the same with one ordinal, two versions, uploads until 1: the instants up to 2
are there for the sweeps.

**conv_tables**: two scopes that share one session id, two writers, two attempts, the number 3 that
may be pinned, numbers to 4, saves that begin until 3, the clock to 4, both kinds of connection. Two allocations can
race, the loser can try again and lose again, or be followed by a close; a transaction can begin, and another
begin and land, before the first takes its number; a pinned number leaves a hole below it, and the next
allocation goes past it; a close can fall between a turn that began earlier and its landing, in either scope;
and saves and closes fall between the deletes of a purge. The id may be one that the library
minted for one of the scopes.

**hypnos_locked**: one scope, two ids (one minted by the library), two writers, a janitor and a periodic
caller, `Locking`, `dsn=`, one fault, the clock to 5, `Limit` 2. So: close, write again, close
again, clean up, a purge in three transactions, a crash in each place, a writer that waits for the other or for a
consolidation, and a scan that returns both sessions of which one changes while the other is consolidated. Take one
side of the lock away and it shows a turn that is stamped unread, a turn between the marks, and a transcript out
of the order of `created_at`: those are the mutants. One scope, since the theorem (`PicksAreNews`) is for any
number; MCHypnosSharedId has two.

**hypnos_settles**: `Limit` 1 (so that a session may have to wait its turn), a pool, no periodic callers, the
clock to 6, one fault.

**kg_core**: two names of two types each, one fact (written without
diacritics, about a node that others upsert with them), one session that ends disliked, a writer, a curator,
a pruner, a classifier, four ids. Two types under one name are what makes resolution by label
ambiguous, and four ids are enough to delete an end and make it again under an edge that has
not landed.

**kg_reads**: three nodes of one type, a triangle and a loop as the facts that may be written, six rows
(so up to three of the four edges), walks to depth 2, one contact, one reader who has not been
identified, and staff. A triangle is the smallest graph in which a node is reached by two ways.
Deeper walks on three nodes return no more.

**parts**: a behaviour is one of one part, which `part` names; the others stay where they are. So one
run asks of each part what it must keep to, over the whole of its states:

* *upkeep*: three facts on three places of an id, pages of two, two calls by others. A page of two and three rows
  make a full page, a short one, and rows that sort before and behind the cursor; two calls let a fact
  be told and then pruned, or removed and told again, around one step of the walk.
* *pacer*: two jobs, a bucket of 2, requests to 3 (more than the bucket), six units of time, three times
  what fills it.
* *migration*: three nodes of one key and one of another; any subset of seven edges, among them a loop, twins, edges
  both ways, and edges between nodes that are to be one; a death at every statement.
* *chunking*: chunks of ten characters that overlap in three; files of up to four lines (out of ten: words, a word too
  long, headings of two levels, a bare one, two fences), or of pages and bookmarks. At that size a line is
  split, packed with others, and overlapped, over up to two headings.
* *lexical*: four facts about two people and a dog, two memories, six questions, results of two, each source working or broken;
  every order of walks in which each edge comes once or twice.
* *traces*: two turns, two writers, days to 3 with a window of 1 (so that two revisions could walk on), erasure in between.
* *buffer*: two talks, windows to 2, an expiry after 2 of 5 instants, four pushes.

Each bound in a guard (`MaxVersion`, `MaxClock`, `MaxTurn`, `MaxId`, `LastSave`, `LastUpload`, `MaxFaults`)
lets a model stop where the system would go on. That is why deadlock is not checked: the system
has no blocking wait in these parts, and the states without successors are those at the bounds.

### 3.2 Views, symmetry, constraints

* `LiveView` (KbReads, KbSearch, KbIngest) leaves the tombstones out: no action but the pruning reads them, so states
  that differ in them alone have the same future. `RemovalsAreRecorded` is about a step, and
  the step from the one such state that is explored shows what is recorded. In kb_settles the pruning is a
  stutter under this view, and neither the property nor the fairness is about it.
* `TurnView` (Conversations, Hypnos) leaves out the number of losses, and more of the memories than whether a scope
  has any; in Conversations the feedback, which nothing reads there, and when a scope was purged; in Hypnos when a row
  landed, and what is drawn from while the model answers. No property of these runs, and no guard or
  update that they read, depends on those. (NoSilentLoss is about a step, and compares the losses before it and after.)
* `Seen` (KgReads) leaves out ids, spellings, sessions and words: no answer depends on them, and
  with one node to a label no later step does either.
* `PartView` (MCParts) is the state of the part that the behaviour is of, less what a migration's report
  has counted (`told`), which decides nothing and which no property of the run reads.
* Symmetry: over files and workers (KbIngest), contents (KbReads, KbSearch), writers and scopes
  (Conversations), writers (Hypnos), facts (MemoryUpkeep). The definitions, the bounds and the properties treat them alike, and no
  run that uses symmetry has a liveness property.
* `Few` (conv_tables) is a constraint: memories are none or of the first instant, of one scope at a time, and gone
  by the third instant, for no property of the run is about memories; at most one scope is purged, or one
  writer dies; and while a session that the library minted is open, its id is not in use in another
  scope, which a host has no reason to do. The theorems about the tables have no such bounds.
* `OneReader` (kg_core) is a constraint: beside the writer, one process at a time is between its reads
  and its writes. Every pair of the writer and another is there; two of the others at once (a pruning
  and a classification, say) are not. The theorems about the graph have no such bound, and they
  are about the same properties.
* `PurgesAlone` (kg_reads) is a constraint: no edge is under way while a scope is purged. The answers depend
  on the nodes and edges there are, and those it leaves out arise without a purge.

### 3.3 Fairness

* **kb_settles**: the host's tick goes on (`WF` of Tick, ExpireDrafts and InterruptStale), as
  `ingest.py` asks of it ("for a host's tick"). Nothing is assumed of the workers, which may hang or die
  anywhere: that is the point of the sweeps.
* **hypnos_settles**: the janitor's loop goes on (`WF` of Scan and of JobStep), and an insert that
  began ends in some way. Failures are finitely many: a session whose consolidation always fails
  is never read, and with `Limit` of them nothing else is (listed as a hazard). There are no periodic callers,
  because a host that holds the lock for them all the time would keep the janitor out for good,
  and weak fairness of the janitor does not forbid it.

### 3.4 Configurations beside the runs

These are instances of the same modules, kept because each shows in a short trace a behaviour
that a host should know of. Most of the properties quote a comment that reads more widely than the
code (the quotation stands above the property); some say why a property of the runs is qualified
as it is, or needs the lock. TLC reports each of them violated, when it is the only one left in its
configuration, except where the table says that they pass.

| Configuration | Property | What its trace shows |
| --- | --- | --- |
| MCKbReadsMany | NoOrphans, RemovalsAreRecorded (pass) | Two documents of two owners, and the removal of a subtree. |
| MCKbSearchMemory | OneVectorSpace (passes) | The in-memory search awaits nothing between its two reads. |
| MCKbIngestLeftover | ServesWhatWasConfirmed | A commit dies while it stages; the same bytes are prepared again with another chunking; chunks of the first text stay beside those of the second and are served. |
| MCKbIngestTwoJobs | ServedIsWhole | `begin_version` hands a row that one job is staging to another (`in_memory.py:1154`), and whichever commits first serves the chunks that are there by then. documents.py:39 says "Nothing is served until it is whole". |
| | EmbeddedOnce | A retry of the preparation during the embedding makes a second draft, which is confirmed, claimed, and embedded again. |
| | SupersededByALiveUpload | A version is dropped as superseded by a newer one that has already failed. |
| MCConversationsLimits | TurnsInTime | Without the lock, a turn whose transaction began first takes its number after another has begun and landed: the higher number has the earlier `created_at`. |
| | ErasedAtOnce | With `dsn=`, a purge that dies leaves the memories of a scope whose turns are gone. |
| | AnswersTellLosses | A turn pinned at 0 is kept and answered with 0, which says that it was lost. |
| MCHypnosLateInsert | MarkersAgree | Without the lock, an insert that began before a close lands after it: not stamped, not newer. |
| MCHypnosUnread | StampMeansRead | Without the lock, a turn saved while the model answers is stamped by the close although nothing read it. |
| MCHypnosSharedId | ClosesMark | Of two scopes with one session id, one cannot close the other's row: its consolidation marks nothing, and its session is picked at every scan. |
| MCHypnosForgotten | ForgottenStaysForgotten | A scope is purged while the model answers; the memories of the purged turns are saved. |
| MCKnowledgeGraphLimits | RejectionsStick | A rejected edge is deleted with its session, and asserted again by the next extraction. |
| | UpsertsNeverWiden | An edge that no contact may read, because nobody has declared its audience, is opened by the next upsert that declares one. |
| | SpokenWasReviewed | The attributes of a proposal become spoken when somebody asserts the bare relation. |
| | OrphansHadNoEdges | An edge asserted between `has_edges` and `delete_node` is deleted with the node. |
| | OnlyUnclassifiedChange | An audience set by a person between list and write is overwritten by the classification. |
| MCKgReadsLimits | EdgesAreCounted | With `top=0`, `graph_stats` of the Postgres adapter says that there are no edges. |
| | RelatedCanBeWalked | `related_only` accepts an edge of any audience (`postgres.py:1954`), so a contact is offered nodes that it cannot walk from; postgres.py:1953 says "Anything the walk will not traverse is not "related"". |
| | HiddenStaysHidden | By the same offers, an edge that a contact may not read shows: the first one at a node that it sees has the node offered, and the last that goes takes the offer back. |
| MCPartsLimits | RemovedStaysRemoved | A memory deleted while its page is embedded is saved again; maintenance.py:116 asks for a quiescent store. |
| | ConfirmedIsKept | A fact is confirmed while its page waits for the model, saved back with the confidence of before, and deleted by the next retention; of which maintenance.py says that it never deletes a confirmed fact for its age. |
| | TogetherPaced | Two jobs find the bucket short, sleep, and take the same refill. |
| | LimitPerMinute | A full bucket and its refill go through within a minute; ingest.py:133 says "at most `limit` tokens per rolling minute". |
| | AliasesAreKept | A merge dies and is begun anew with another survivor: the label that the first one had noted goes with its row. |
| | ReportIsWhatIsDone | The dry run counts as repointed what the application deletes as a duplicate or a loop. |
| | OldestIsTold | Of two edges of one source, relation and target, the query plan decides which is told. |
| | WindowsAreNoLonger | A window of size 0 is the whole list, in both adapters (`-0`). |
| | AlteredInTime | A trace that says an old date is revised after the window, by the clock. |
| MCPartsWriters | EveryEdgeIsKept | An edge that somebody asserts at a loser between its statements goes with the cascade. |
| MCPartsMarked | ReadBackIsTheText | A heading is titled as the mark of the separator, under another title: its passage is read with its head, the path twice (2.12). |

The two adapters differ in what `SameWalk`, `SameAnswers` and `StatsAreTheContexts` spell out: the
recursive query never returns an edge from a node to itself, the queue does; and a context built on the
walk leaves it out as well. In memory a label is one node whatever its type, so the twins are
compared with one type to a label.

## 4. Where code and documentation disagree

Three runs end in a counterexample, and each is a sentence of the repository that the code does not keep.

* **kb_late_commit** (`ServedKeepsAnswering`): `commit_version` asks whether the version is the newest
  before it asks whether it is the one being served (`in_memory.py:1197`, `postgres.py:2711`). Two jobs
  on one version; the first commit serves it; a newer upload begins; the second commit is
  "superseded", deletes the served version, and the document answers nothing. README.md:114 says
  "the previous version answers until the new one is ready and keeps answering if it fails".
  With one job at a time the same property holds (kb_one_job).
* **kb_search** (`OneVectorSpace`): the Postgres `search` decides in one statement whether the query's vector
  is comparable with everything readable, and reads the passages in another (`postgres.py:3128`). A
  reindex with another model, committed in between, has its passages compared with a vector of the old
  one, and the result names no degradation. documents.py:446 says "The vector is used only when every readable
  chunk was indexed by the model that made it". The in-memory adapter keeps it.
* **kg_verdict** (`ProposalsModifyNoVerdict`): a proposal that lands on an accepted edge takes over its
  `source_session` (`postgres.py:1885`), and feedback-driven pruning deletes by session.
  postgres.py:1887 says "a PROPOSAL cannot modify a VERDICT in any field"; the in-memory twin returns
  before it changes anything.

Of the configurations in 3.4, ServedIsWhole with two jobs, RelatedCanBeWalked, ConfirmedIsKept and LimitPerMinute also
quote a sentence that the code does not keep.

## 5. The theorems

`tlapm <module>` proves each for all values of the constants that satisfy the named assumptions of the
modules (`OwnersAssumption`, `BoundsAssumption`, `IngestAssumption`, `NilIsNoDocument`, `ReadsAssumption`,
`ConversationAssumption`, `HypnosAssumption`, `GraphAssumption`, `ReaderAssumption`, `PacerAssumption`,
`MigrationAssumption`, `TracesAssumption`, `BufferAssumption`, `UpkeepAssumption`, `LexicalAssumption`,
`ChunkingAssumption`):
that the functions are functions of the right domains, that the bounds are numbers, that what is counted is
finite, and that the markers for "none" are not values. TLC evaluates them in the runs. A theorem that needs
more says so in its ASSUME. Section 3.4 has a trace of what happens without it, but for `Roomy` (below), and for
a graph to be migrated that is finite (MigrationTypeCorrect counts it).

**NaturalSets.** Lemmas only. `LeastOf` and `GreatestOf`; `SmallAsItsImage` and `AsManyImages`, on the sizes of
images; `UpTo` and `CarriedOn`, which are induction on a number and definition by recursion, stated with a
set in the place of a predicate (the library's own induction theorems take an operator, which no prover here
can instantiate).

**KbStoreProofs.** `TypeCorrect`; `StoreInvariant` (StoreInv: the four tables agree);
`AnswersForward`; `ServedImmutable`; `NumbersNotReused`; `RemovalsRecorded`.
StoreInv is inductive together with the types: it can be said of one version at a time (`Agree`), and each
lemma takes an operation and a version and asks whether the operation wrote to it. The two action
properties split the operations in those that leave served versions and the set of rows alone (`Keeps`),
removals, and commits. `AnswersForward` needs one more invariant, `ActiveIsNotAhead`: the newest row is
at or above the active version. Without it, nothing says that a newest version that is being
committed is not older than what is served. `NumbersNotReused` rests on no operation taking the newest row
but with its document; `RemovalsRecorded` asks of each operation what it loses (`LossesAreRecorded`) and needs StoreInv:
an operation records the rows that it ends, and an upload is only ever a row's.

**KbReadsProofs.** `ReadsImplementStore`: reading changes nothing, so that the theorems of the store hold with readers
(`ReadsKeepStore`). `WalksRead`: a caller that has gone through a served text has the whole text of one version.
What is behind a walk is either still being read, as it was at the first answer, up to the last passage (`Reading`),
or its number is done with, since the document is gone or has a later row (`Superseded`). The second
half is where `NumbersNotReused` is needed: if a number could be given again, the next page would be of
another text under the same name. `SearchesKeepToOneSpace`: with `InMemory`, OneVectorSpace of KbSearch
holds, which kb_search shows violated in Postgres: what is missing there is only that both reads are one step.
`SearchTypeCorrect` holds in either adapter, and needs ReadsInv: only because a served version has an uploaded content
is the model of each hit one of the models there are.

**KbIngestProofs.** `IngestTypeCorrect`, from `Holds`: what a job holds when it makes the call of its
phase (a document, an instant that has been, a version that exists as a number).
`IngestImplementsStore`: each step of a worker is an operation of KbStore with arguments that the store
allows, or leaves the store alone. `IngestKeepsStore`: hence StoreInv and the two action properties
hold under any number of workers that fail and die anywhere. Those survive concurrency; what follows does not, and
says so. With one job at a time (`OneJob`), `AnswersStand`: a document that answers keeps answering. Its invariant is
`PointerInv`: what a document points to is ready, and the version a job works on is not; so a commit never
finds the version it commits served, which is what goes wrong in MCKbIngestLost. With one way to cut a file besides
(`OnePlan`), `TextsAreWhole` and `IngestImplementsServing`, from `TextInv`: each row
holds chunks of the text of its own file only, each job's plan is that text, and what it has not left to do is staged.
Two jobs break the last part (MCKbIngestTwoJobs); a second way to cut, after a commit that died, breaks the first
(MCKbIngestLeftover). `IngestImplementsServing` is the refinement of KbServing.

**HypnosProofs.** Of the tables: `OrderInvariant`, `ConvTypeCorrect`, `TranscriptsInOrder`, `NeverReplaced`,
`CloseKeeps`, `NothingLostQuietly`. TurnsInOrder is not inductive, for it says nothing of the inserts
under way. OrderInv adds: nothing is begun in the future; inserts have instants of their own (`SavesAreApart`); and a
row above a number that an insert has allocated has landed since that insert began (`PassedSince`): when it took the
number there was none. So an insert that lands late and low is overtaken only by turns that it overlapped. Pinned
numbers are outside the order, as in the property.

Of the janitors, in the same module: `HypnosTypeCorrect`, `HypnosImplementsConversations`, `HypnosKeepsConversations`, from `Held`:
what a job has loaded was begun before now. So the memories that it saves are drawn from turns, and
every step, failures included, is an operation of the tables. With the lock (`ASSUME Locking`), `StampsMeanRead` and
`MarksAgree`, from MarksInv: nobody saves into a session that is being consolidated (`Excluded`), so that what was
loaded is all that there is when it is closed (`AllLoaded`), and an insert under way began after the last
close of its session (`LaterThanClose`). MCHypnosLateInsert and MCHypnosUnread are what happens without. With the lock
too, `TranscriptsInTime`: TurnsInTime, from TimeInv. No two inserts are into one session (`Alone`), one under way
is later than every row there is (`LatestBegun`), and the number that it has allocated is above all of them
(`NumberFree`). `PicksAreNews` needs neither the lock nor a bound on the scopes: from NewsInv, that a row has an instant
no insert under way has, that what was loaded is of its session or gone, and that what a close that was taken has read is
stamped or gone.

**KnowledgeGraphProofs.** `GraphTypeCorrect`, `EdgesKeepEnds`, `UpsertsLeaveVerdicts`,
`UpsertsLeaveAudiences`, `ProposalsStayApart`, `DeletionsAreSingle`. GraphInv is the types,
EdgesHaveEnds and `EndsResolved` (the ids that an upsert has resolved are not 0). The last is needed because EdgesHaveEnds
says nothing of an edge between its two statements: without it, `LandEdge` could compare a
resolved 0 with the 0 of a row that is not there. The action properties follow from it one action at a time: only
`LandEdge`, `Judge` and the classification write an edge, and only deletions take nodes.

Of the reads (KgReads), in the same module: `EdgesShowEnds` from `EdgesKeepEnds`: whoever reads an edge sees its nodes.
`VisibleIsDerived`: what a contact sees of the nodes is what its edges touch. `HiddenStays`, without any hypothesis: a step
that leaves the edges a contact reads alone leaves each of its answers alone, but for the offers of `related_only`, and those
change only where a hidden edge comes or goes. `WalksAgree`, `AnswersAgree` and
`StatsAgree`: the adapters answer alike in every state where a folded label is one node (`LabelsAreSingle`; in memory it is one
whatever its type, and kg_core has states with two). The walks agree by induction on the depth, through
`Met`: the rows of a depth are those that touch what was met up to the depth before (`RowsAreMet`), and every label met
is one the queue has reached. `StatsAgree` counts, so it needs that the edges are finitely many, which is an invariant
(`FiniteAlways`) and not an assumption: each step adds one edge at most.

**PartsProofs.** The parts of MCParts, each by itself.
*TokenPacer*: `PacerTypeCorrect` and `JobsArePaced`, for any number of jobs. EachJobIsPaced is not
inductive: a grant leaves nothing of what was in the bucket. `WithWhatIsLeft` counts what a job would find now
with what it has gone through with, and `WithWhatItWaitsFor` counts what a sleeping job will take at the
instant it sleeps to: together they survive whoever empties the bucket meanwhile.
*FoldMigration*: `EdgesAreKept`, for any nodes, keys, relations and edges, and a death at any statement.
FoldInv says what each statement leaves to the next: after the first no duplicate is left for
the third to run into UNIQUE, after the second nothing that would be a loop, after the third no
edge at all for the cascade to take; and every node has one survivor, of its key, that survives.
`KeptBySubstitutes` is the lemma the steps share: edges that are replaced by others between nodes of the same keys
are still kept. `MigrationTypeCorrect`, for a finite graph: no step makes more edges than there were, so what the report
and the statements count are numbers.
*TurnTraces*: `TracesTypeCorrect` and `TracesKeep`: what is stored is within the window of the first trace of its
coordinate, in whatever order the statements land.
*ConversationBuffer*: `BufferTypeCorrect` and `WindowsHold`, from BufferInv: a list in Redis is the end of the list in memory
(`HoldsTheEnd`), as far back as the last silence and as the size it was trimmed to.
*MemoryUpkeep*: `UpkeepTypeCorrect`, `WalksMoveWhatStands`, `ReembeddingMovesVectors`, `RetentionSpares`. A
walk by pages has moved whatever lies behind its cursor, or has it still in hand, or somebody has
disturbed it; new rows may come before the cursor, old ones do not move.
What a retention takes was last told at the ceiling or below, or was saved back by the walk from a page read before
it was told (`marks.revised`): that exception is a hazard, and ConfirmedIsKept is the property without it.
*Lexical*: `AnswersAreHeld`. BuiltInv: whatever the walks bring, there is one candidate to a key, and one
for every edge that a walk is done with; so what is joined in the end is what the stores hold (`JoinedIsHeld`). It
assumes that a source, a relation and a target are one edge's (`KeysTell`, a condition of the property too:
OldestIsTold is violated without it) and that there are not more edges than are built into candidates (`Roomy`:
beyond that, which ones are dropped is the order in which they came). That "nothing" and "partial" are said only
when nothing passes is shown through lengths: a ranking is as long as what it ranks (`RankIsLong`).

**ChunkingProofs.** `ReadBackIsSafe`: ReadBackIsTheText, for files of any length over any characters, any title, target and
overlap, with `TitlesAreClear`; and `FileIsTyped`. What is *said* is the letters that are not white, each with its path, so
the proof follows what is said through every loop of the code:

* *Out.* Paragraphs say what their lines say (`ParagraphsKeep`), pieces what their paragraph says and none is longer
  than a piece (`SplitLongKeeps`), and bodies are no longer than the target and say *anew*, that is without what
  `OverlapLength` would take off, what their paragraphs say (`PackKeeps`). The invariant of packing is that each body
  opens with the tail of the one before (`Opens`), however it goes on (`StillOpens`).
* *Back.* What is taken for overlap is exactly the tail that packing repeated (`OverlapIs`): the test of
  `_overlap_length` on the two sizes is what makes it so. `chunk_text` inverts `_content` on a path of clear titles (`ContentIsRead`).
  Passages that are joined, in one window or in two, say what each adds to the one before (`JoinSays`, `WindowsSay`).
* *Section by section.* The chunks of a section add what its lines say, if it is *fresh*: the chunk before
  is not of the same path and page, or else the reader would take for overlap what the author wrote twice (`EmitSays`).
  Pages always are, by their numbers (`PagesAreRead`). For lines, `Sound` says after each of them that the fence and the
  stack are what the file has in force (`FenceAt`, `InForceAt`, which look at the whole file again where the code keeps
  a stack), where the last chunk stands (`LastFrom`), and that the chunks and the open section say what has been read (`Kept`).
  That a section is fresh follows if no sections repeat (`PendingIsFresh`), which is the exception that the property makes;
  `chunking.py:219` knows of it.

The lemmas at the beginning (`TakenInIs`, `TakenInSteps`, `OnSequences`, `FlattenConcat`) are the induction over sequences
that the rest needs, again with a set in the place of a predicate.

Only model-checked: the two liveness properties (EveryVersionSettles, EveryTurnIsRead), for liveness under
fairness and ENABLED are out of the prover's reach. Every other property of the passing runs is a theorem, under the
hypotheses named above. The three properties that the runs of section 4 violate are false, and ServedKeepsAnswering and
OneVectorSpace have theorems with the hypothesis that is missing there.

## 6. What is not modelled

* **Row locks of PostgreSQL.** KbStore takes an operation as one step. One pair of
  transactions is not protected by its locks (`commit_version` against `interrupt_stale`, `postgres.py:2702`,
  a hazard); it needs statements as steps.
* **Rankings**: the order of the hits of a document search, `load_memories`, the similarity of nodes, the reranker. They
  order by real-valued scores of models, and change nothing.
* **Reads that change nothing and that no action depends on**: list, recent, admin and scan reads, except where
  a handler acts on them (idle_sessions, load_turns, pending_edges, list_nodes, has_edges, scan_memories).
* **Texts and vectors**: masking, wording, embeddings, tokenising (singulars, variants, folding), the rendering of an
  answer, the graph context block, prompts and summaries, `update_turn_response`, serialisation, logging. No guard of
  what is modelled reads them. Chunking is the exception, and has them.
* **`micro_consolidate`** changes nothing; **`reembed_knowledge_nodes`** is the walk of MemoryUpkeep over ids
  that only grow, and is not an action of a module.
* **The host's extractor** is external: it fails, or hands on pages and an outline.
* **Two scopes in the graph**: every statement names its scope, and the scope of an edge is that of its ends; one scope is
  all there is to tell apart.
* **Sessions whose content always fails** (`postgres.py:1259`, a hazard): failures are finitely many here.
* **The benchmark harness** (`src/cognobench`) scores models and belongs to no host; the **package surface** is imports.

## 7. The plan

Done, in this order, each with its runs and then its proofs: KbStore, KbIngest, KbServing;
Conversations, Hypnos; KnowledgeGraph, KgReads; KbReads, KbSearch; MemoryUpkeep, TokenPacer, FoldMigration;
Chunking, Lexical, TurnTraces, ConversationBuffer. To do, the most important first:

1. **KbPostgres**: `commit_version`, `interrupt_stale`, `claim_draft`, `expire_drafts` with their row locks, a statement to a
   step, refining KbStore. Two transactions, one version. Property: the store's own Next (an ended version never becomes
   ready). Theorem: mutual exclusion of the pairs that do lock the same row.
2. **CurationQueue**: `pending_edges` by pages with curators that judge by label. Every proposal is judged or gone
   in the end.
