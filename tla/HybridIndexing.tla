--------------------------- MODULE HybridIndexing ---------------------------
(***************************************************************************)
(* The application services over a hybrid index: IndexingService and       *)
(* AnsweringService in several processes that share one persistent dense   *)
(* index, while each process keeps its own BM25 index and its own bounded  *)
(* telemetry in memory.  The dense index is ManifestIndex, which the store *)
(* models implement; BM25 is modelled here.                                *)
(*                                                                         *)
(* Every stage is invoke_timed: the call, then the record of its event.    *)
(* The event comes after the effect and may be refused (LimitExceeded), so *)
(* a run can raise after it has written.                                   *)
(***************************************************************************)
EXTENDS IndexData, Naturals

CONSTANTS
  Processes,   \* processes that compose the pipeline
  Home,        \* the process each client (a thread of it) runs in
  Configs,     \* what a process can be composed with
  Sources,     \* the sets of chunk IDs the source can come to
  MaxEvents    \* InMemoryTelemetry's max_events

ASSUME HomeIsAProcess == Home \in [Clients -> Processes]

\* A composition renders a chunk ID to one content (extractor, metadata) and
\* fits the manifests whose chunker, embedder and policy it has.
ASSUME ConfigsFit == Configs \subseteq [rendering : Contents, manifests : SUBSET Manifests]

ASSUME SourcesAreChunks == Sources \subseteq SUBSET Chunks

ASSUME MaxEventsIsPositive == MaxEvents \in Nat \ {0}

VARIABLES
  source,          \* the chunk IDs that indexing the source now yields
  denseManifest,   \* the dense index: its manifest
  dense,           \* its rows
  config,          \* what each process is composed with, None while it is down
  sparseManifest,  \* the BM25 index of each process: its manifest
  sparse,          \* its chunks
  events,          \* the number of telemetry events each process holds
  run,             \* the request each client runs, None if it runs none
  pc,              \* the stage it is in, and whether it still has to record it
  hits,            \* what an ask has retrieved so far
  wrote,           \* the indexes its last index request has mutated
  outcome          \* how its last request ended

sparseIndex == <<sparseManifest, sparse>>
vars == <<source, denseManifest, dense, config, sparseIndex, events, run, pc, hits,
          wrote, outcome>>

Dense == INSTANCE ManifestIndex
           WITH manifest <- denseManifest, rows <- dense, answer <- hits

-----------------------------------------------------------------------------
(* Stages *)

IndexStages == {"fetch", "classify", "extract", "project", "chunk", "preflight_dense",
                "preflight_sparse", "embed", "upsert", "sparse_upsert"}
AskStages   == {"retrieve", "retrieve_sparse", "rerank", "prompt", "generate"}
Stages      == {"accept"} \cup IndexStages \cup AskStages

\* The order of IndexingService.run and AnsweringService.run.
Following ==
  [accept           |-> "fetch",
   fetch            |-> "classify",
   classify         |-> "extract",
   extract          |-> "project",
   project          |-> "chunk",
   chunk            |-> "preflight_dense",
   preflight_dense  |-> "preflight_sparse",
   preflight_sparse |-> "embed",
   embed            |-> "upsert",
   upsert           |-> "sparse_upsert",
   sparse_upsert    |-> "return",
   retrieve         |-> "retrieve_sparse",
   retrieve_sparse  |-> "rerank",
   rerank           |-> "prompt",
   prompt           |-> "generate",
   generate         |-> "return"]

\* Mutant: the cheaper BM25 index is written before the dense one.
AfterSparseFirst(stage) ==
  CASE stage = "embed"         -> "sparse_upsert"
    [] stage = "sparse_upsert" -> "upsert"
    [] stage = "upsert"        -> "return"
    [] OTHER                   -> Following[stage]

After(stage) == Following[stage]

\* A stage without effects on an index, done by an injected component.
PureStages == {"classify", "extract", "project", "chunk", "embed", "rerank", "prompt",
               "generate"}

\* Stages whose result the service validates before it goes on.
ValidatedStages == {"classify", "extract", "project", "chunk", "embed", "retrieve_sparse",
                    "rerank", "prompt", "generate"}

\* Errors as far as the properties tell them apart: "conflict" is the
\* IntegrityError of two contents under one chunk ID, "contract" that of a
\* component that broke its contract.
Errors   == {"incompatible", "conflict", "contract", "provider_error", "limit"}
Outcomes == {"none", "ok", "omitted", "crashed"} \cup Errors

\* pc[k].error is the error the stage raised, to be recorded and raised on.
At(stage)            == [stage |-> stage, todo |-> "call", error |-> "none"]
ToRecord(stage, err) == [stage |-> stage, todo |-> "record", error |-> err]
Places == [stage : Stages, todo : {"call", "record"}, error : Errors \cup {"none"}]

\* An index request, with the chunk IDs its fetch came to, or an ask.
Request(op, m, ids) == [op |-> op, manifest |-> m, ids |-> ids]
Requests == [op : {"index", "ask"}, manifest : Manifests, ids : SUBSET Chunks]

ASSUME NoneIsNothingElse == None \notin Configs \cup Places \cup Requests

\* The telemetry of a process never holds more than MaxEvents events, whichever
\* threads record them, and every index holds whole rows.
TypeOK ==
  /\ source \in SUBSET Chunks
  /\ denseManifest \in Manifests \cup {None}
  /\ dense \in Rows
  /\ config \in [Processes -> Configs \cup {None}]
  /\ sparseManifest \in [Processes -> Manifests \cup {None}]
  /\ sparse \in [Processes -> Rows]
  /\ events \in [Processes -> 0..MaxEvents]
  /\ run \in [Clients -> Requests \cup {None}]
  /\ pc \in [Clients -> Places \cup {None}]
  /\ hits \in [Clients -> Answer \cup {None}]
  /\ wrote \in [Clients -> SUBSET {"dense", "sparse"}]
  /\ outcome \in [Clients -> Outcomes]

Init ==
  /\ source \in Sources
  /\ denseManifest = None
  /\ dense = NoRows
  /\ config = [p \in Processes |-> None]
  /\ sparseManifest = [p \in Processes |-> None]
  /\ sparse = [p \in Processes |-> NoRows]
  /\ events = [p \in Processes |-> 0]
  /\ run = [k \in Clients |-> None]
  /\ pc = [k \in Clients |-> None]
  /\ hits = [k \in Clients |-> None]
  /\ wrote = [k \in Clients |-> {}]
  /\ outcome = [k \in Clients |-> "none"]

-----------------------------------------------------------------------------
(* Helpers *)

Calling(k, stage) == pc[k] = At(stage)

\* The call of a stage raises, or returns if the error is "none"; its event is
\* still to be recorded.
Raises(k, error) == pc' = [pc EXCEPT ![k] = ToRecord(pc[k].stage, error)]
Returns(k)       == Raises(k, "none")

Proceed(k) == pc' = [pc EXCEPT ![k] = At(After(pc[k].stage))]

\* The request ends, and its client's process with it or not.
Ends(k, how) ==
  /\ run' = [run EXCEPT ![k] = None]
  /\ pc' = [pc EXCEPT ![k] = None]
  /\ outcome' = [outcome EXCEPT ![k] = how]

\* The chunks of a request as its process renders them.
Batch(k, ids) ==
  [c \in Chunks |-> IF c \in ids THEN config[Home[k]].rendering ELSE None]

\* Nothing was acquired, or it came to no chunk; nothing was retrieved, or
\* nothing was left by the reranker.
MayOmit(k) ==
  \/ run[k].op = "index" /\ run[k].ids = {} /\ pc[k].stage \in {"extract", "chunk"}
  \/ pc[k].stage \in {"retrieve_sparse", "rerank"}

MustOmit(k) == pc[k].stage = "chunk" /\ run[k].ids = {}

\* InMemoryTelemetry.record accepts an event.
Count(p) ==
  /\ events[p] < MaxEvents
  /\ events' = [events EXCEPT ![p] = events[p] + 1]

\* The stage's event is recorded; then the error is raised on, or the request
\* goes on, returns, or finds that the component broke its contract.
Record(k, error) ==
  /\ Count(Home[k])
  /\ \/ error # "none" /\ Ends(k, error)
     \/ error = "none" /\ MayOmit(k) /\ Ends(k, "omitted")
     \/ /\ error = "none" /\ ~MustOmit(k) /\ After(pc[k].stage) # "return"
        /\ Proceed(k)
        /\ UNCHANGED <<run, outcome>>
     \/ error = "none" /\ After(pc[k].stage) = "return" /\ Ends(k, "ok")
     \/ error = "none" /\ pc[k].stage \in ValidatedStages /\ Ends(k, "contract")

\* telemetry.record raises LimitExceededError, which replaces any other error.
RecordRefused(k) ==
  /\ events[Home[k]] = MaxEvents
  /\ Ends(k, "limit")
  /\ UNCHANGED events

-----------------------------------------------------------------------------
(* Requests *)

Start(k) ==
  /\ run[k] = None /\ config[Home[k]] # None
  /\ \E op \in {"index", "ask"}, m \in Manifests :
       /\ op = "ask" => m \in config[Home[k]].manifests
       /\ run' = [run EXCEPT ![k] = Request(op, m, {})]
       /\ pc' = [pc EXCEPT ![k] = At(IF op = "index" THEN "accept" ELSE "retrieve")]
  /\ hits' = [hits EXCEPT ![k] = None]
  /\ wrote' = [wrote EXCEPT ![k] = {}]
  /\ outcome' = [outcome EXCEPT ![k] = "none"]
  /\ UNCHANGED <<source, denseManifest, dense, config, sparseIndex, events>>

\* _require_manifest_components.
Accept(k) ==
  /\ Calling(k, "accept")
  /\ \/ /\ run[k].manifest \in config[Home[k]].manifests
        /\ Proceed(k)
        /\ UNCHANGED <<run, outcome>>
     \/ /\ run[k].manifest \notin config[Home[k]].manifests
        /\ Ends(k, "incompatible")
  /\ UNCHANGED <<source, denseManifest, dense, config, sparseIndex, events, hits, wrote>>

\* The bytes are read now; what follows derives its chunks from them.
Fetch(k) ==
  /\ Calling(k, "fetch")
  /\ \/ /\ Count(Home[k])
        /\ \/ source = {} /\ Ends(k, "omitted")
           \/ /\ Proceed(k)
              /\ run' = [run EXCEPT ![k] = Request("index", run[k].manifest, source)]
              /\ UNCHANGED outcome
           \/ Ends(k, "provider_error")
     \/ RecordRefused(k)
  /\ UNCHANGED <<source, denseManifest, dense, config, sparseIndex, hits, wrote>>

\* The call of an injected component touches nothing that is shared, so the
\* call and the record of its event are one step.
PureStage(k) ==
  /\ pc[k] # None /\ pc[k].todo = "call" /\ pc[k].stage \in PureStages
  /\ (\E error \in {"none", "provider_error"} : Record(k, error)) \/ RecordRefused(k)
  /\ UNCHANGED <<source, denseManifest, dense, config, sparseIndex, hits, wrote>>

\* _require_store_compatibility: outside invoke_timed, so nothing is recorded.
Preflight(k) ==
  /\ \/ Calling(k, "preflight_dense") \/ Calling(k, "preflight_sparse")
  /\ LET bound == IF pc[k].stage = "preflight_dense" THEN denseManifest
                                                     ELSE sparseManifest[Home[k]]
     IN  \/ bound \in {None, run[k].manifest} /\ Proceed(k) /\ UNCHANGED <<run, outcome>>
         \/ bound \notin {None, run[k].manifest} /\ Ends(k, "incompatible")
         \/ pc[k].stage = "preflight_dense" /\ Ends(k, "provider_error")
  /\ UNCHANGED <<source, denseManifest, dense, config, sparseIndex, events, hits, wrote>>

DenseUpsert(k) ==
  /\ Calling(k, "upsert")
  /\ \/ /\ Dense!Upsert(run[k].manifest, Batch(k, run[k].ids))
        /\ wrote' = [wrote EXCEPT ![k] = wrote[k] \cup {"dense"}]
        /\ Returns(k)
     \/ /\ denseManifest \notin {None, run[k].manifest}
        /\ Raises(k, "incompatible")
        /\ UNCHANGED <<denseManifest, dense, hits, wrote>>
  /\ UNCHANGED <<source, config, sparseIndex, events, run, outcome>>

\* A provider error leaves nothing, part of the batch (bulk and batched
\* stores) or, when only the reply was lost, all of it.
DenseUpsertFails(k) ==
  /\ Calling(k, "upsert")
  /\ Raises(k, "provider_error")
  /\ \/ UNCHANGED <<denseManifest, dense, hits, wrote>>
     \/ /\ \E part \in SUBSET run[k].ids : Dense!Upsert(run[k].manifest, Batch(k, part))
        /\ wrote' = [wrote EXCEPT ![k] = wrote[k] \cup {"dense"}]
  /\ UNCHANGED <<source, config, sparseIndex, events, run, outcome>>

\* The stored chunks whose content the batch would change.
Conflicts(stored, batch) ==
  {c \in Chunks : batch[c] # None /\ stored[c] # None /\ stored[c].content # batch[c]}

\* Mutant: the pending dictionary starts empty instead of as a copy.
PendingEmpty(p) == NoRows

\* pending = dict(self._chunks).
PendingChunks(p) == sparse[p]

\* BM25 checks the manifest, then the content of every chunk it knows.
SparseVerdict(k) ==
  IF sparseManifest[Home[k]] \notin {None, run[k].manifest}
    THEN "incompatible"
    ELSE IF Conflicts(sparse[Home[k]], Batch(k, run[k].ids)) # {} THEN "conflict" ELSE "none"

\* BM25Retriever.upsert, atomic under its lock.
SparseUpsert(k) ==
  LET p == Home[k]
      written == Put(PendingChunks(p), run[k].manifest, Batch(k, run[k].ids))
  IN  /\ Calling(k, "sparse_upsert")
      /\ Raises(k, SparseVerdict(k))
      /\ IF SparseVerdict(k) = "none"
           THEN /\ sparseManifest' = [sparseManifest EXCEPT ![p] = run[k].manifest]
                /\ sparse' = [sparse EXCEPT ![p] = written]
                /\ wrote' = [wrote EXCEPT ![k] = wrote[k] \cup {"sparse"}]
           ELSE UNCHANGED <<sparseIndex, wrote>>
      /\ UNCHANGED <<source, denseManifest, dense, config, events, run, hits, outcome>>

\* A chunker that repeated a chunk ID is found out only now, the dense index
\* written: SparseUpsertRequest requires unique IDs, UpsertRequest does not.
SparseRequestFails(k) ==
  /\ Calling(k, "sparse_upsert")
  /\ Raises(k, "contract")
  /\ UNCHANGED <<source, denseManifest, dense, config, sparseIndex, events, run, hits, wrote,
                 outcome>>

\* HybridRetriever.retrieve is one stage: the dense search, then BM25.
DenseSearch(k) ==
  /\ Calling(k, "retrieve")
  /\ \/ Dense!Search(k, run[k].manifest) /\ Proceed(k)
     \/ /\ \/ denseManifest # run[k].manifest /\ Raises(k, "incompatible")
           \/ Raises(k, "provider_error")
        /\ UNCHANGED <<denseManifest, dense, hits>>
  /\ UNCHANGED <<source, config, sparseIndex, events, run, wrote, outcome>>

\* The union of two result sets; a chunk found by both counts once.
Fused(found, other) == [c \in Chunks |-> IF found[c] = None THEN other[c] ELSE found[c]]

\* Contents that differ between the two indexes raise if both made the top k.
SparseRetrieve(k) ==
  /\ Calling(k, "retrieve_sparse")
  /\ LET p == Home[k]
         found == hits[k].found
         both == {c \in Chunks : found[c] # None /\ sparse[p][c] # None}
     IN  \/ /\ sparseManifest[p] = run[k].manifest
            /\ hits' = [hits EXCEPT ![k] =
                          [expected |-> hits[k].expected, found |-> Fused(found, sparse[p])]]
            /\ Returns(k)
         \/ /\ sparseManifest[p] # run[k].manifest
            /\ Raises(k, "incompatible")
            /\ UNCHANGED hits
         \/ /\ sparseManifest[p] = run[k].manifest
            /\ \E c \in both : found[c].content # sparse[p][c].content
            /\ Raises(k, "conflict")
            /\ UNCHANGED hits
  /\ UNCHANGED <<source, denseManifest, dense, config, sparseIndex, events, run, wrote,
                 outcome>>

\* The event of a stage that reads or writes an index: other threads may have
\* used the index, or the last event, in between.
RecordEffect(k) ==
  /\ pc[k] # None /\ pc[k].todo = "record"
  /\ Record(k, pc[k].error) \/ RecordRefused(k)
  /\ UNCHANGED <<source, denseManifest, dense, config, sparseIndex, hits, wrote>>

-----------------------------------------------------------------------------
(* The environment *)

EditSource ==
  /\ \E ids \in Sources : source' = ids
  /\ UNCHANGED <<denseManifest, dense, config, sparseIndex, events, run, pc, hits, wrote,
                 outcome>>

\* bootstrap composes a process, with an empty BM25 index and no events.
Compose(p) ==
  /\ config[p] = None
  /\ \E new \in Configs : config' = [config EXCEPT ![p] = new]
  /\ UNCHANGED <<source, denseManifest, dense, sparseIndex, events, run, pc, hits, wrote,
                 outcome>>

\* Mutant: the BM25 index outlives its process, as if it were persisted.
KeepSparse(p) == UNCHANGED sparseIndex

\* BM25Retriever lives in memory only.
LoseSparse(p) ==
  /\ sparseManifest' = [sparseManifest EXCEPT ![p] = None]
  /\ sparse' = [sparse EXCEPT ![p] = NoRows]

\* The process stops, between any two steps of its requests.
Stop(p) ==
  /\ config[p] # None
  /\ config' = [config EXCEPT ![p] = None]
  /\ LoseSparse(p)
  /\ events' = [events EXCEPT ![p] = 0]
  /\ run' = [k \in Clients |-> IF Home[k] = p THEN None ELSE run[k]]
  /\ pc' = [k \in Clients |-> IF Home[k] = p THEN None ELSE pc[k]]
  /\ outcome' = [k \in Clients |-> IF Home[k] = p /\ run[k] # None THEN "crashed"
                                                                  ELSE outcome[k]]
  /\ UNCHANGED <<source, denseManifest, dense, hits, wrote>>

-----------------------------------------------------------------------------

Step(k) ==
  \/ Start(k) \/ Accept(k) \/ Fetch(k) \/ PureStage(k) \/ Preflight(k)
  \/ DenseUpsert(k) \/ DenseUpsertFails(k)
  \/ SparseUpsert(k) \/ SparseRequestFails(k)
  \/ DenseSearch(k) \/ SparseRetrieve(k)
  \/ RecordEffect(k)

Next ==
  \/ \E k \in Clients : Step(k)
  \/ \E p \in Processes : Compose(p) \/ Stop(p)
  \/ EditSource

Spec == Init /\ [][Next]_vars

-----------------------------------------------------------------------------
(* Properties *)

\* A process's BM25 index is bound to no manifest but that of the dense index,
\* whatever other processes and threads bind in between: the preflights are
\* not repeated, yet the order of the two upserts is enough.
SparseBindingFollowsDense ==
  \A p \in Processes : sparseManifest[p] \in {None, denseManifest}

\* A run that ends in IndexCompatibilityError has mutated neither index, though
\* the dense one is written before the sparse one is asked again.
IncompatibleRunWroteNothing ==
  \A k \in Clients : outcome[k] = "incompatible" => wrote[k] = {}

\* Every chunk that BM25 knows is in the dense index, after any failure.
SparseCoveredByDense ==
  \A p \in Processes : IdsOf(sparse[p]) \subseteq IdsOf(dense)

\* What an ask retrieves from the two indexes was all indexed under the
\* manifest it expects.
AnswersUnderManifest ==
  \A k \in Clients : hits[k] # None => AllUnder(hits[k].found, hits[k].expected)

\* Indexing never ends in "sparse upsert changed chunk content": a process
\* renders a chunk ID to one content and BM25 does not outlive the process.
IndexNeverConflicts ==
  [][\A k \in Clients :
       run[k] # None /\ run[k].op = "index" => outcome'[k] # "conflict"]_vars

\* When indexing reports success, each of its chunks is in the dense index and
\* in the BM25 index of its process, both under its manifest.
IndexSuccessIsSearchable ==
  [][\A k \in Clients :
       /\ run[k] # None /\ run[k].op = "index"
       /\ outcome'[k] = "ok"
       => /\ denseManifest = run[k].manifest
          /\ sparseManifest[Home[k]] = run[k].manifest
          /\ run[k].ids \subseteq IdsOf(dense) \cap IdsOf(sparse[Home[k]])]_vars

=============================================================================
