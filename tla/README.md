# Formal models of rag-kit

TLA+ modules that model rag-kit (`src/src/ragkit`): the manifest-bound indexes
and the stores behind them, the two application services over a dense and a
sparse index, composition and the life of a deployment, chunking, answering,
metadata filters, the HTTP server with its deadlines, and the bootstrap of an
assignment. TLC checks small instances; TLAPS proves the main results for every
instance.

Paths below are relative to the repository, whose package is `src/src/ragkit`.
To check a run, `tlc -config MCSqlStores.cfg MCSqlStores`; to check proofs,
`tlapm SqlStoresProofs.tla`. `PROJECT.json` lists the runs, the source lines of
every definition, one mutant per checked property, the hazards and the theorems.

## 1. The system

rag-kit is a Python library with a CLI and an ASGI app. Indexing turns one
source into chunks and writes them, with embeddings, to a dense index
(`VectorStore`) and, under the hybrid policy, to a BM25 index (`SparseIndex`).
Asking retrieves from the indexes and generates a cited answer. What one
composition writes, another may only read or extend when it was composed with
the same *index manifest* (embedder, dimension, chunker, policy, ...).

| Component | State it keeps | Operations | What makes it correct |
|---|---|---|---|
| Ports (`ports/`) | none; they state the contract of an index | `require_compatible`, `upsert`, `search`, `delete` | the first upsert binds the index to a manifest for ever; later calls under another manifest are refused without effect |
| SQLite store | database file: schema, one manifest row, entry rows; a write lock | upsert and delete in `BEGIN IMMEDIATE`; search in two plain statements | whole upserts and deletes; no lock left behind; searches answer from one commit |
| pgvector store | two tables; a table lock with a queue | one transaction; search takes no lock | as SQLite; a COMMIT whose reply is lost |
| Qdrant store | remote collection with vector size; sentinel point; points | several HTTP requests per call, no lock | at most one client initialises; no points before the sentinel; a bare collection stays closed |
| OpenSearch store | index whose mapping carries the manifest; documents | create race, bulk requests | as above, with partly failed requests |
| Pinecone store | namespace with a provisioned sentinel, vectors | batches, eventual visibility | as above, without creation |
| In-memory store | manifest and entries under one lock | each operation one critical section | as the port |
| BM25 index | manifest, chunks, per process, in memory | bind, upsert of a pending copy, retrieve | a chunk ID keeps its content; empty after a restart |
| Hybrid retriever | none | dense search, then BM25, then rank fusion | both results under one manifest; no two contents for one ID; the fusion's order |
| Indexing service | none; drives the rest | eight recorded stages and two preflights | incompatible runs write nothing; success means searchable |
| Answering service | none | retrieve, rerank, prompt, generate | answers only from evidence it retrieved and prompted |
| Telemetry | bounded list of events per process, or a stream | `record`, which may refuse | the bound; a refusal must not be mistaken for "nothing was written" |
| Configuration, runtime composition, policies | a profile file; the composed components | load, override, resolve, select, fingerprint | what is composed fits together, and what it writes can be read |
| Chunkers | a bound family and policy | spans of texts, groups of parts | nothing is lost, limits hold, units stay whole |
| Extractors | none | parts in reading order, with relations | every part that says anything is evidence |
| Deadlines | process-wide alarm and handler | `run_with_deadline` | the alarm stays inside |
| HTTP app and server | a correlation context per request | routes, limits, error mapping | one true response; identifiers are not mixed up; the loop is freed |
| Assignment bootstrap | two managed files, a staging directory | inspect, stage, swap, roll back | failure restores; success is complete; no file is lost |
| Domain values | none | identity, filters, manifests | the same filter means the same in every store |
| Embedders, rerankers, generators | none | local models, one hosted API | results of the right shape |
| Evaluation, CLI | none | metrics, reports, commands | the metrics' definitions |

**Interactions.** A service calls its components in a fixed order through
`invoke_timed` (`application/_telemetry.py`), which calls, then records an
event, then returns or re-raises. Threads of one process share the component
objects (BM25 index, telemetry) and processes share the persistent dense index.
The HTTP app runs every request as a task of one event loop and calls the
pipeline on it, so requests alternate only at their awaits and a call of the
pipeline blocks all others; threads arise in programs that use the library.
Extraction of images and media runs under a deadline of the main thread. Stores
talk to SQLite, PostgreSQL or a remote server. A profile decides what a process
is composed of, and outlives it, as the collections do.

**Hard behaviours.** Concurrent first upserts that all find an unbound index;
the manifest read in one request or statement and used in a later one; requests
that the server executes after the client gave up; batches that fail in part; an
event that is refused after its effect; a BM25 index that a restart empties while
the dense index persists; edited sources and edited profiles; an alarm that
interrupts the clean-up of its own deadline; renames that fail half-way and
exceptions between a rename and the record of it. `PROJECT.json` has each one
with its line ("hazards") and the properties that are aimed at it.

## 2. The modules

| Module | Models | Runs |
|---|---|---|
| `IndexData` | rows, batches, calls and answers common to all index models | all index runs |
| `ManifestIndex` | what the ports promise of an index; also `InMemoryVectorStore`, whose operations are critical sections | as a property of the stores |
| `SqliteStore` | `adapters/sqlite_store.py`, statement by statement | `sql_stores` |
| `PgVectorStore` | `adapters/pgvector_store.py`, statement by statement | `sql_stores` |
| `QdrantStore` | `adapters/qdrant_store.py`, request by request | `qdrant_store` |
| `OpenSearchStore` | `adapters/opensearch_store.py`, request by request | `remote_stores` |
| `PineconeStore` | `adapters/pinecone_store.py`, request by request | `remote_stores` |
| `SqlStores` | a composition with SQLite or pgvector | `sql_stores` |
| `RemoteStores` | a composition with OpenSearch or Pinecone | `remote_stores` |
| `HybridIndexing` | `application/indexing.py`, `application/answering.py`, `_telemetry.py`, the BM25 and hybrid classes of `adapters/retrieval.py`, `InMemoryTelemetry` | `hybrid_threads`, `hybrid_processes` |
| `Composition` | `infrastructure/bootstrap.py` and `config.py`, the policy tables of `ports/models.py`, overrides of `cli/main.py` | `runtime` |
| `Answering` | the data flow of `AnsweringService.run`: rankings, fusion, reranking, prompt budget, citations | `runtime` |
| `MetadataFilters` | the filters of `domain/filters.py`, their Python evaluation and the four filter compilers | `runtime`, `filters_negation` |
| `TextChunking` | the span algorithms of `adapters/text_chunking.py`, and table rows | `chunking` |
| `Chunking` | extractors' parts and relations, `adapters/adaptive_chunking.py`, `modality_chunking.py` | `chunking`, `chunking_forms` |
| `Deadline` | `adapters/_deadline.py` | `delivery` |
| `HttpApp` | `delivery/http.py`, `RequestCorrelatedTelemetry` | `delivery` |
| `Delivery` | both composed, with the operations of the media and vision extractors | `delivery` |
| `AssignmentBootstrap` | `infrastructure/assignment.py` | `bootstrap*` |

`ManifestIndex` is the specification of the ports. `InMemoryVectorStore` is it;
`SqliteStore`, `PgVectorStore`, `QdrantStore` and `OpenSearchStore` instantiate
it, with a mapping of their state where that is not the identity, and have its
specification as a property. `PineconeStore` is specified on its own: its binding
is made by an operator, not by a first upsert, and an upsert there is visible
record by record. `HybridIndexing` instantiates `ManifestIndex` as its dense
index, so what it shows holds over any store whose successful upserts are atomic
(memory, SQLite, pgvector, Qdrant); over OpenSearch and Pinecone the parts of an
upsert that is still under way are visible as well, which `HybridIndexing` has
only for upserts that fail. `Delivery` extends `HttpApp` and `Deadline`.
`<Module>Proofs` holds the proofs of a module; `RuntimeProofs` those of
`Composition`, `Answering` and `MetadataFilters`, `ChunkingProofs` those of
`TextChunking` and `Chunking`, and `EntryPointProofs` those of `Deadline`,
`HttpApp`, `Delivery` and `AssignmentBootstrap`.

`bootstrap` (`infrastructure/bootstrap.py`) selects one vector store, by the name
in `components.vector_store`. `SqlStores` and `RemoteStores` are that choice
between two stores of a kind: `kind` is the selected one, and the variables of the
other rest in their initial state (`Select`, `Use`). Each extends one store and
instantiates the other, over chunks of its own where the instance needs less.
`MCSqlStores` and `MCRemoteStores` only give the constants their values. In
`MCRuntime`, `kind` likewise says whether a behaviour is about a composition, one
answer or one filter, which share no state.

### ManifestIndex

`manifest`, `rows` and `answer` are the persisted manifest, the stored rows and
what each client's last search returned. A row records the manifest of the upsert
that wrote it (`under`), which no store keeps: it is a history that lets
properties speak of the origin of a row. Refused calls are stuttering steps.

### SqliteStore

`schema` is the file and the tables created so far; `manifest` and `rows` are
committed; `pending` is the image the holder of `lock` works on. `pc` is the
statement a client is at. `OpenForUpsert`, `CreateTable`, `SchemaReady`,
`Begin`, `CheckManifest`, `WriteRow` (one per statement of `executemany`) and
`Commit` are `upsert`; `OpenForDelete` and the last four are `delete`;
`SearchManifest` and `SearchRows` are the two statements of `search`, which run
outside a transaction; `Preflight` is `require_compatible`. `StatementFails` is
`sqlite3.Error` at any statement and `Crash` a process that stops; both roll
back. `BusyTimeout` is the 30 s busy timeout, which may end any wait. A COMMIT
and the return after it are one step.

That a search needs no transaction is a consequence of the protocol: the manifest
row is never changed once it is committed.

### PgVectorStore

`lock` is the table lock (SHARE ROW EXCLUSIVE) of upserts and deletes, `queue`
the sessions that wait for it, without a timeout. Every other statement reads
what is committed at that moment. `late` and `Orphan` are what a lost connection
leaves at the server: a session that keeps its place or the lock until the server
notices (`Reap`), and that may still carry out the COMMIT it was sent. The
caller then gets an error for what took effect, so effects come "only with
success or with a lost connection". An error of the driver at `rollback()` is
handed on untranslated (`driver_error`).

### QdrantStore

`collection` is the vector size (or None), `sentinel` the manifest of the
sentinel point and `rows` the chunk points. A call is a sequence of requests:
`Describe`, then `CheckSentinel`, then `Query` or `Send`; an upsert that finds no
collection sends "create" and then "initialise" (sentinel and points in one
request). The server accepts "create" only once and points only of its vector
size (`Accepts`). `GiveUp` is a timeout or a stop after a request was sent: the
request stays in `late` and `ExecuteLate` may execute it at any later time, or
`DropLate` loses it. `OperatorCleanup` is the "explicit operator cleanup" the
store's error message asks for, and is assumed to be done with care: when no
initialisation can still arrive. The server itself is external.

### OpenSearchStore

`manifest` is the one in the mapping of the index, which exists if and only if it
is not None. `Exists` is the first request of a call; an upsert goes on to
`Create`, and to `Recheck` when the creation raised; every call but a preflight
of an absent index then reads the mapping (`ReadMapping`). `todo` are the IDs to
send and `applied` those the server confirmed. `Bulk` is one bulk request, of
which the server carries out the items `done`, and the inspection of its response
(`Succeeds`). `Retry` is the client library's `retry_on_timeout`: the request
stays in `late` and is sent again; `GiveUp` leaves one behind as it ends the
call; `ExecuteLate` carries out all or some of such a request, or loses it.

An upsert of several bulk requests is not atomic, and a search may find a part of
it. So the store implements `ManifestIndex` with the parts of batches for
batches and all sets of IDs for deletes: creation is an upsert of no rows, every
bulk request an upsert or delete of some. What is left of atomicity is
`SuccessIsWhole`.

### PineconeStore

`sentinel` is the manifest an operator provisioned (`Provision`); the store only
reads it. `todo`, `sent` and `applied` are the IDs of the batches to come, under
way and confirmed. `seen` is what queries see: it catches up with `rows` one
record at a time (`Settle`). The SDK repeats a request that timed out, and the
first copy may be carried out later, even after the call has ended.

### MetadataFilters

A filter is a tree of comparisons under And, Or and Not. The Python evaluation that
the memory and SQLite stores and BM25 share and the four compilers are all
recursions over that tree, so the model represents a filter by what each of them
makes of it: `matches` is what Python selects, `pinecone`, `openSearch`, `qdrant`
and `pgVector` what the compiled queries select (for Pinecone and OpenSearch under
the `negated` flag and without it; for pgvector SQL's three truth values), and
`rejectedBy` the stores that raise `UnsupportedCapabilityError`. `Comparison` is the
case of a leaf, given what the backend's operators mean (typed fields that may be
missing, nested documents); `Not`, `And` and `Or` say what each function makes of a
node from what it made of the children. The state is the filters that a caller has
at hand; `MakeComparison`, `Negate` and `Connect` add one, built from any of them.

One field is enough: the values a chunk can have in it (absent, null, and one or
more of each type) give the comparisons every combination of truth values that
several fields could. Left out are integers above 2^53 in double-precision fields
and the order in which PostgreSQL evaluates a type test and the cast beside it.

`Equal` has Python's `True == 1`, which no typed store has, so on such values the
compiled queries and the Python evaluation do differ. Nothing is assumed to keep
them out: the instance has True beside 1 and 2.0 beside 2 in the field of chunks and
among the operands. Instead the properties name the chunks they do not
speak of. `Blurred` are those whose boolean meets an equal number in a comparison of
the filter, or whose number meets an equal boolean; `Widened`, left out for Qdrant
only, those whose float meets an equal integer, which Qdrant's integer match does
not select. For every other chunk, and for those chunks in every other filter, the
stores agree with Python.

### HybridIndexing

Each client runs requests in its process `Home[k]`. `pc[k]` is the stage and
whether the call or the record of its event is next; stages that touch no shared
state take the two in one step. `Accept` is `_require_manifest_components`, the
two `Preflight`s are `_require_store_compatibility`, `DenseUpsert` and
`SparseUpsert` the two writes, `DenseSearch` and `SparseRetrieve` the two halves
of `HybridRetriever.retrieve`. `DenseUpsertFails` writes any part of the batch,
which is what batched stores and lost replies can do. `Record` may find
`InMemoryTelemetry` full and raise `LimitExceededError` in place of the stage's
own result. `wrote` is history: the indexes that the request mutated. The
environment edits the source, composes processes and stops them.

Assumed: a process renders a chunk ID to one content (its extractors are
deterministic), while two processes may differ, because confidence, metadata and
extractor identity are not part of the ID (`domain/identity.py`).

### Composition

`profile` is the file, `runtime` the profile (with overrides) that the running
process was composed from, `indexes` every collection. `Start` is `load_config`,
the overrides and `bootstrap`, which accept or refuse a profile as a whole
(`Accepted`); `Index` and `Ask` are the operations under the manifest of
`ManifestFor`. Where an index is written is decided by the policy (`Targets`),
where the retriever reads by the selected components (`Asked`). `entries` is
history: how each chunk in an index was made, which no store records. One
process runs at a time, and edits between processes stand for all edits, as a
process reads the file once; `HybridIndexing` has the processes that run at once.

Checks of a single field are left out: a value out of range is in no profile.
Three limits are accepted at the start and refuse every question later:
`top_k` times the hybrid multiplier above `max_chunks`; `top_k` above
`max_chunks` with the store of a server; `top_k` above the cross-encoder's
`reranker_max_top_k`. `max_chunks` and the timeouts are part of the fingerprints
of the server stores, so changing one makes a persistent index incompatible.
The settings of extractors are in no fingerprint: chunks of a text that was read
in two OCR languages can share an index, and `Make` does not have them either.

### Answering

One run of the service over any results of the retriever's sources. Scores,
lengths of texts and the generator's choice of citations are arbitrary; ties are
included. `found` is what each source returned, `candidates`, `context`, `prompt`
and `citations` what the stages hand on, and `ending` how the run ended. Every
check of the service is there and ends the run in `integrity_error`, which
`StagesAgree` says never happens with the repository's own components.

`Ranked` is sorting by relevance, then ID, and cutting: a result's place is one
more than the number of results before it. `Contribution` is a sum of fractions
over the common denominator `Product`; the code adds floats. While the constant
plus the largest rank stays below 100,000 (as in `src/configs`), two such sums that
differ are further apart than rounding is wide, so the order is the same but for
sums that are equal, which the model orders by ID and the code perhaps by their
last bits. `Scan` is the loop of the
prompt builder, one chunk of the context at a time (`Consider`). A hosted model's
answer mentions up to `MaxMarkers` IDs in any order (`Sanitized` keeps the first
authorised mention of each).

### TextChunking and Chunking

A text is a sequence of the characters that the patterns tell apart; "#" stands
for whatever begins a section of the strategy (a heading, an article, a
declaration, a speaker). `TextSpans` is `text_strategy_spans`: the units of a
region, bounded, grouped, merged. Positions are those of the code. Its loops are of
two kinds, `Scan` (a cursor that goes on from where its last piece ended) and
`Join` (a list whose last span the next one may extend), each a function over the
positions. On 1800 random texts without headings, `TextSpans` and `TableRows` give
the same spans as the Python functions. `Scan` reads the pieces of every position
before it moves, where the code looks at those it visits; as a piece depends on the
text alone, the spans are the same.

`Chunking` is an extractor that appends parts, with the relations its heuristics
give them (labels on forms and in tables, continuations, keyframes), and then
`AdaptiveChunker.chunk`. `ReadScene` appends a scene and its keyframe, as
extraction does. The strategies of text over the parts of another family join the
parts, cut the text and group what each span touches (`SpannedGroups`). No part is empty
(`DocumentsHaveText`, from `_validate_part`). The text extractor refuses a document
without searchable text, and the others skip or refuse blank words, boxes and
segments (`Inked`), with one exception: a workbook cell is skipped only if its value
is None (`layout.py:335`), so a cell of white space is a part. Such a part says
nothing (`Says`), and `EvidenceKept` does not speak of it: a strategy over the joined
text makes no chunk of it.

### Deadline, HttpApp, Delivery

`at` is where `run_with_deadline` is. `Fire` is the timer running out; `Deliver`
the handler, which the interpreter runs before the next step of the main thread,
wherever that is: in the operation, or in `run_with_deadline` itself, the rest of
which does not run then: the remaining clean-up, or all of it if the alarm comes
when the timer is started and the `try` not yet entered ("armed"). That leaves the
stale handler installed, without a timer; harmless, and the next call installs its
own. A host's own use
of SIGALRM is outside the model.

In `HttpApp` every stretch between two awaits is one action, except that the
call of the pipeline lasts from `Receive` to `Return` and lets nobody else run
(`loop`). A body that cannot be used is refused with 400, or with 500 where
`json.loads` or `Path.resolve` raises something the handlers do not expect (`Receive`). `context` is the `ContextVar` of each task. `MaxEvents` stands for a
sink that refuses: `InMemoryTelemetry` at its limit, or a stream that fails.
Then there is no response, as the event of a request is recorded before anything
is sent (`Conclude`).

### AssignmentBootstrap

`progress` is where the program is, `files` are the managed files of the
destination and `backups` those moved to the staging directory; `committed` is the list that drives the rollback. One
iteration of the swap moves the old file aside, installs the new one and appends
the pair; "restore" is the inner handler and "rollback" the outer one, after
which the temporary directory disappears with what is still in it. Each run meets
at most one exception; a second one inside a handler is the filesystem failure
the docstring excludes. If `interrupts` holds, the exception may be
`KeyboardInterrupt`, which can come after a call had its effect or between two
statements.

## 3. The runs

| Run | Question | Instance | States |
|---|---|---|---|
| `sql_stores` | Do interleaved connections, failures, lost connections and stops implement the index? Is a lock ever left behind, or an effect visible without success? Does every call end? | 2 clients, 2 manifests, 2 chunks (pgvector: 1), a batch of two and one that changes a content, 1 orphan in the queue | 112,950 |
| `qdrant_store` | Does the unlocked protocol implement the index, with requests that arrive late? Is there one initialiser? | 2 clients, 3 manifests (2 of one size), 1 chunk, an empty batch too | 294,540 |
| `remote_stores` | Do racing creators, partly failed, repeated and late requests implement the index, and does success mean that every item was confirmed? | 2 clients, 2 manifests, 2 chunks, one item per request | 338,686 |
| `hybrid_threads` | Two threads share BM25 and telemetry while the source is edited: is a success searchable, are the indexes consistent? | 1 process, 2 threads, 2 manifests, 2 chunks, 3 source editions, 16 events | 657,654 |
| `hybrid_processes` | Two processes with different compositions share the dense index and restart: do bindings and chunks agree, does indexing ever conflict? | 2 processes, 2 manifests, 2 renderings, 9 events | 1,944,660 |
| `runtime` | Does an index ever mix differently made chunks, and is what was indexed found, over edits, overrides and restarts? Are answers grounded and ranked well? Do the filter compilers select what the Python evaluation selects? | 2 profiles, 2 edits of 11 fields, 3 overrides, 2 sources; 3 chunks, 2 scores; filters of 2 comparisons over 7 operands and 11 values of the field and up to 3 connectives, each used any number of times | 631,332 |
| `chunking` | Do chunks lose text, exceed the limit, cut what fits, or drop evidence? | every text of up to 4 characters and longer ones; documents of up to 3 parts, blank cells among them; 2 sizes; every strategy of every family | 247,076 |
| `delivery` | Do events carry their own request's identifier, are responses true, do alarms stay inside, does every request end? | 2 requests, a repeated client identifier, 3 events, 2 operations per call | 318,006 |
| `bootstrap` | Does a failed call restore everything and a successful one complete? Are the user's files kept, with Ctrl-C anywhere? | 2 files, every initial content, any one failure | 626 |
| `filters_negation` | Does pgvector return every chunk that satisfies the filter? It does not. | filters of 2 comparisons and up to 2 connectives | violation |
| `bootstrap_docstring` | Does the docstring's promise hold when Ctrl-C hits? It does not. | as `bootstrap` | violation |
| `chunking_forms` | Does `evidence` put every part in a chunk? On forms it does not. | as `chunking` | violation |

**Why the bounds are enough.** Every race of the stores is between two actors
over one binding: two clients that initialise, one reader and one writer, a
preflight and a rival's upsert. Two manifests are needed for one to be wrong, a
third in Qdrant because the vector size and the sentinel are two different
checks. Two chunks make a batch that can be half-written; one of them again with
another content makes an overwrite visible. In Qdrant and pgvector a batch is one
request or statement, so one chunk suffices; in OpenSearch and Pinecone two
chunks with one item per request make an upsert of two requests, the first of
which is not the last. An orphan in pgvector's queue is one more competitor for
the lock. Three connectives over two comparisons nest a negation under a conjunction under a
negation, after which the compilers' `negated` flag repeats itself. The telemetry bounds
(16 and 9) let a whole index run (8 events) finish and let the limit be met at
any stage of the next request; in `delivery` the three events let two requests
finish or be refused at every place. Two edits change two fields at once, or one
and back; every relation between fields is between two. Texts of four characters
with sizes 2 and 4 need every branch of the cutting, packing and merging; the
longer texts add a second sentence, section or clause. Three parts make a label
of a label. The managed files are two in the code. `late` holds at most one
abandoned request per client, which is the one bound that is not a CONSTANT: with
two clients there are still two late requests at once. The proofs have none of
these bounds except that last one.

**Symmetry** is used over clients, chunks, manifests or sources where nothing tells them
apart, only in runs without liveness.

**Fairness.** `sql_stores`: weak fairness of each step of a call for every
client, which is a Python thread about to execute its next statement; waits for
SQLite's lock end by the busy timeout that `sqlite3.connect` is given. In
pgvector, waits have no timeout: in addition the server grants a free lock to the
head of the queue (`Grant`) and notices dead sessions (`Reap`, TCP keepalive), as
PostgreSQL does. `delivery`: the loop serves tasks that can go on, Python executes
the next statement, a running timer runs out, and an interpreter that gets control
back runs the noted handler. Nothing is assumed of new calls, of failures, of
operations finishing by themselves, or of clients sending: a client that never
ends its body keeps its task for ever, and the code has no timeout there.

`CHECK_DEADLOCK` is off where the system may stop: when the requests are all
served (`delivery`), a document is chunked, or the bounds on edits and filters
are used up. `AssignmentBootstrap` is a program that ends, and its last disjunct
of `Next` is that end.

### Findings

**Rollback and Ctrl-C.** `bootstrap_assignment`'s docstring says "Staging or
commit failure restores the complete pre-call managed-file state", excluding
abrupt termination and filesystem failure
(`src/src/ragkit/infrastructure/assignment.py:146-147`). The handlers do catch
`BaseException`. But `_replace(target, backup)` (line 117) is outside the inner
`try`, and the pair is appended to `committed` only at line 124: a
`KeyboardInterrupt` right after the rename leads to the outer handler, which has
nothing to undo, and `TemporaryDirectory` then removes the backup, the only copy
of the user's file (`bootstrap_docstring`). Without interrupts the promise holds,
and is proved.

**Negated order in pgvector.** README says that stores "translate only filters
they can represent exactly" (`src/README.md:187-188`). pgvector compiles an
ordered comparison to `jsonb_typeof(metadata -> f) = 'number' AND ...`, which is
NULL for a chunk that lacks the field (equality is wrapped in `COALESCE`). Under
`Not` it stays NULL and the chunk is dropped, while the Python evaluation and the
compilers of Pinecone and OpenSearch keep it (`filters_negation`). Apart from
values that Python's `==` takes for an operand of another type (see below), pgvector
returns no chunk that does not match (part of `TranslationsAreTrue`).

**Forms lose words.** In form mode each OCR word is labelled by the word to its
left, and the modality chunker drops every part that labels another one,
restoring only the direct labels of what is left. On a line of three words the
first one is in no chunk (`chunking_forms`); docs/chunking-strategies.md:35
promises one chunk per part. Where no label is itself labelled, everything is
kept (`EvidenceKept`).

**Met while modelling, without a run.** Python takes True for 1 and 2.0 for 2, and
`_matches` compares with `==`. So the same filter selects differently by store: of
chunks whose field is True, `eq 1` selects all in memory, SQLite and BM25 and none in
the typed stores; `ne 1` selects none there and all in those that compile it,
pgvector, Pinecone and OpenSearch, which is the one way in which pgvector returns a
chunk that the Python evaluation does not. Likewise True as the operand and 1 in the
field; and in Qdrant `eq 2` does not select a stored 2.0. A workbook cell of white
space is a part, and `auto` makes an atomic chunk of it while the strategies over the
joined text pass over it. `_sliding_atomic_groups` fills up to the
limit without the separator of two characters, so a group of several parts may
exceed `max_chars` by two (`ChunksFit` speaks of fixed groups and texts).
`ModalityChunker`'s docstring calls the generic evidence strategy "the bounded
fallback", which deletes `max_chars`. pgvector's `rollback()` on a lost connection
raises the driver's own error. The prompt budget counts the text of chunks, not
the rendered evidence blocks around it (`AnswersAreGrounded` is about the former).

## 4. The proofs

All theorems are about the specifications as the runs use them, for every value
of the constants that the named assumptions allow: sets of clients, manifests,
chunks, contents, requests and profiles of any size; `None` outside them; positive
vector sizes, batch sizes and limits; finite batches; a finite set of chunk IDs
with a total order, and integers for scores (`AnsweringAssumption`); `MaxEvents`,
`FileCount` and the like natural numbers. A run whose module extends the one with
the assumption evaluates it. The invariants of the stores, the services and the
bootstrap include type correctness.

- **ManifestIndexProofs**: `ManifestBound`, `BindingIsFinal`. The invariant
  `Sound` (types, and rows and answers under the manifest) is inductive, one lemma per
  operation (`UpsertIsSound` and so on): an index without a manifest has no rows
  (`UnboundIsEmpty`), so the upsert that binds it finds none of another. A
  store that implements the index inherits the first (`NoForeignRows`,
  `PgNoForeignRows`): no row of another manifest is stored in it or found by a
  search.
- **SqlStoresProofs**, SQLite: `LockSafety`, `Refinement`, `NoEffectWithoutSuccess`,
  `NoForeignRows`. The invariant `IInv` adds to types and lock discipline that a
  client past the check of the manifest searches under the committed one
  (`CallsInPlace`) and that the pending image is the committed rows with exactly
  the statements so far applied (`ImageOfCommitted`). The second is what makes
  `Commit` one abstract upsert or delete, and the first what makes the second
  statement of a search one abstract search.
- **SqlStoresProofs**, pgvector: `TableLockSafety`, `TablesRefine`,
  `NoEffectButByCommit`, `PgNoForeignRows`. The lock discipline is not inductive by
  itself: a session whose client is gone may hold the lock and still commit. What
  the invariant `PgInv` adds is that whatever a session past the check may still
  publish, alive or `late`, is an upsert or delete under the bound manifest, or an
  upsert while there is none (`Publishable`), which stays true as long as it keeps
  the lock, as nobody else can write. So every COMMIT is one abstract upsert or
  delete, whoever learns of it.
- **RemoteStoresProofs**, OpenSearch: `BulkSafety`, `Refinement`, `WholeSuccess`,
  `NoForeignRows`, for any `BatchSize`. The mapping's manifest never changes once
  it is there (`QueriesStayBound`, `RowsUntouched`), so a client that has read it,
  and every request it leaves behind, acts on an index of its own manifest.
  `NothingIsLost` (what a call has to send is to be sent or confirmed) is what
  makes the last bulk request's success that of the whole call.
- **RemoteStoresProofs**, Pinecone: `NamespaceSafety`, `SuccessConfirmsAll`, for
  any `BatchSize`, repetition and delay. A sentinel that was read stays, so a
  request that nobody waits for is still one of its manifest (`LateIsBound`);
  `OneBatchInDoubt` says that what is confirmed, under way and to be sent is always
  the whole call, which with `BatchAndRest` (a batch and the rest are the list)
  gives that success confirms every batch.
- **StoresSafety**, in both modules, puts this together for the composition the
  runs check, since the store that was not selected does not move
  (`EachStoreBehaves`).
- **QdrantStoreProofs**: `InitialisationSafety`, `Refinement`, `BareStaysClosed`,
  `NoForeignRows`. `OneInitialiser` is not inductive by itself: `RequestsFit` says
  that an initialisation under way implies a collection without sentinel and of
  its vector size, and that a write, on time or late, carries the sentinel's
  manifest. Together they make every execution of a request one abstract step.
- **HybridIndexingProofs**: `IndexesAgree`, `SparseIsCovered`, `RefusalIsClean`,
  `AskedUnderManifest`, `NoConflict`, `SuccessIsSearchable`. The invariant
  attaches to every stage what the run has achieved so far (`Placed`): after
  "upsert" its chunks are in the dense index under its manifest, after
  "sparse_upsert" in BM25 too. Such facts are stable because bindings are final,
  dense chunks are never deleted by a service, and BM25 only grows until its
  process stops, which ends its runs as well.
- **RuntimeProofs**, composition: `OneMake`, `ServesOwn`, for any profiles,
  alternatives, overrides and sources, provided that a profile's collection is one
  of the named ones (`CollectionAssumption`). A manifest determines the make of
  what is written under it (`ManifestDeterminesMake`), since every input of chunker
  and embedder is in a fingerprint, and an index that is bound to a manifest is
  only written under that one (`MadeAsBound`). For an accepted profile the indexes
  the policy writes are those the retriever asks (`WrittenIsAsked`), so what a
  process has indexed stays searchable until it stops (`IndexedIsSearchable`).
- **RuntimeProofs**, answering: `StagesNeverDisagree`, `FusionKeepsOrder`,
  `CitationsAreGrounded`, for any chunks, contents, scores, lengths and limits. The
  order by relevance, then ID, is total on the results of a stage, so counting what
  comes before gives each a place of its own and leaves none out (`Placing`,
  `Placed`). Therefore every stage hands on a `Listing`, for which each check of the
  service holds (`ListingIsWellRanked`). The terms of fusion decrease with the rank
  (`TermsDecrease`: the denominator is a multiple of each `RrfK + rank`), so a chunk
  that all sources of another rank higher contributes more
  (`EarlierContributesMore`) and stands before it (`EarlierIsRanked`). The scan of
  the context keeps its count equal to the length of what it has taken
  (`ConsiderTakes`, `IncludedFits`), and `AnsweringInv` traces citations through
  prompt, context and candidates to a source (`Grounded`).
- **RuntimeProofs**, filters: `FiltersAreTranslated`, for any values of the field,
  any operands and filters of any depth; the only assumption is that values are
  scalars (`ValuesAreScalars`). What it says of a filter leaves out the values that
  Python's `==` takes for an operand of another type in one of its comparisons
  (`Blurred`, and for Qdrant `Widened`). A node leaves out whatever one of its children
  does, so each lemma carries the exempted values up the tree. That a compiled filter is exact is no invariant of the construction: a negation of it may
  be wrong. `Translated` adds that the query compiled under the `negated` flag selects
  the complement, and that pgvector's condition is never true of a chunk that does
  not match and never false of one that does, while it may be unknown. Both are
  preserved by Not, And and Or (`NotIsTranslated`, `ConnectedIsTranslated`); for a
  comparison each store has a lemma of its own (`PineconeLeafIsExact` and so on).
- **ChunkingProofs**: `ChunksAlwaysCover`, `ChunksAlwaysFit`, `NothingIsEverCut`,
  `EvidenceIsKept`, for any documents, sizes and requests, provided that
  0 <= overlap < max, 1 <= min <= max (`SizesAssumption`) and that no text is blank
  and no part empty (`DocumentsHaveText`).
  The argument follows the algorithms upwards. A scan finds what the cursor does not
  step over and keeps the order of its pieces (`ScanHolds`, `ScanSorted`); a join
  keeps what its spans held, their order, and any limit its rule respects (`JoinInv`).
  So each stage of `text_strategy_spans` turns a list of different spans, in order
  and within the limit (`Neat`), into one (`RegionFacts`, `TextSpansFacts`), and
  leaves whole what the strategy may not cut (`Entire`). The invariant of the
  chunker, `Inv`, says that a text document has one part and no other document has a
  text, that parts relate to parts before them, a keyframe to its scene, and that
  the chunks are made of the present parts. From there: groups of atoms differ in the
  part each begins with (`Headed`), ends with (`SlidingDiffers`), or in the run of
  neighbours they are (`Neighbours`), and every part that says anything is in a group
  because it begins one, labels a part that does (`LabelOf`), or has ink in the text of all parts,
  which the spans of that text cover (`PartInked`, `SpannedDiffers`).
- **EntryPointProofs**, delivery: `DeadlinesAreContained`, `CorrelationIsExact`,
  `ResponsesAreRecorded`. A timer runs only in the operation and in the first half
  of the clean-up, and the handler that raises is installed there (`ClockSafe`). A
  request has no event before it arrives, and the context of its task is its
  identifier from then until it is concluded (`Correlated`). `Account` says of each
  request what the log holds of it at every place: nothing until it is concluded;
  then one terminal event with its status, after all its others, and as many stage
  events as its successful call had stages. A step of one request leaves what the
  log holds of the others (`OthersAccounted`).
- **EntryPointProofs**, bootstrap: `RollbackIsComplete` (without interrupts),
  `Completeness`, `UserFilesAreKept`, for any number of managed files. The
  invariant says where each user file is (`FilesAccounted`) and, without interrupts,
  that `committed` and the current file explain every difference from `before`
  (`Exact`).

A temporal theorem is put together from `Init => IInv`, `IInv /\ [Next]_vars =>
IInv'` (one step per action) and the consequence, by PTL.

Induction over data is done in first-order steps, since the induction theorems of
the library take an operator that the provers cannot instantiate. That every
nonempty set of natural numbers has a least member follows from the
well-foundedness of `<`, where the relation is a set (`Least`, `LeastExists`), and
induction over a set of numbers from that (`Induction`, `Upwards`, `Downwards`). A
recursive function is a CHOOSE: that it satisfies its equation needs a function that
does, which `Recursion` builds; `ProductIs`, `LengthIs` and `IncludedFits` apply it,
as do `Scanning`, `JoiningExists` and `FlatExists` for the loops of the chunkers.
A filter's tree needs none of it: each node is a state's step.

**Only model-checked.** Liveness (`EveryCallEnds`, `EveryTransactionEnds`,
`EveryRequestEnds`), which is out of the prover's reach, and the three violations.
Every other property that a run checks is a theorem.

## 5. What is not modelled

- Ranking and scores in the index models: there an answer is the set of rows a
  search selects from. `Answering` has rankings with arbitrary scores; the BM25
  formula and vector distances are floating-point functions.
- What a request that was given up does to the order of writes: a server may
  execute a repeated upsert after a later delete. No version is sent with it and
  nothing is promised; the abstract index allows it as a late upsert.
- Stale chunks of an edited or deleted document: no service deletes any, and
  nothing promises it (hazard without a property).
- Another process that changes a managed file during a bootstrap: the docstring
  makes no promise for it (hazard without a property).
- The wording of errors, logging, JSON, and the parsing of file formats,
  configuration files and arguments; the grammars of headings and sentences.
- `inspect_profile`, which reports what `bootstrap` would compose, and
  `adapters/multimodal.py`.
- Evaluation: metrics and reports are pure functions and formatting.
- SQLite, PostgreSQL, Qdrant, OpenSearch, Pinecone and the filesystem
  themselves: external, modelled by what the code relies on (exclusive locks and
  rollback; creation of a collection that fails the second time; a rename that
  takes effect or raises).
- A second exception inside a rollback handler, and two bootstraps at once on one
  destination: both are outside what the docstring promises.

## 6. Plan

Done: the contract of an index and the stores that meet it; the services over two
indexes; composition over the life of a deployment; answering, chunking and
filters; the HTTP server with deadlines; the bootstrap; and the proofs of all of
these. Left, in this order:

1. `HybridIndexing` under the dense and the sparse policy, and with the locator
   checks of derived parts.
2. The ranking metrics of evaluation against reference definitions.
