------------------------ MODULE HybridIndexingProofs ------------------------
(***************************************************************************)
(* The two indexes of a hybrid pipeline never disagree about their         *)
(* manifest, for any number of processes, threads and manifests.  The      *)
(* preflight cannot guarantee it, since others may bind either index after *)
(* it.  What does is the order of the upserts: a request reaches the BM25  *)
(* upsert only after its dense upsert succeeded, the dense binding is      *)
(* final, and so every BM25 index can only be bound to that manifest.      *)
(***************************************************************************)
EXTENDS HybridIndexing, TLAPS

EarlyStages == {"accept", "fetch", "classify", "extract", "project", "chunk",
                "preflight_dense", "preflight_sparse", "embed"}

\* The dense index holds the whole batch of client k's request.
InDense(k) ==
  denseManifest = run[k].manifest /\ run[k].ids \subseteq IdsOf(dense)

InSparse(k) ==
  /\ sparseManifest[Home[k]] = run[k].manifest
  /\ run[k].ids \subseteq IdsOf(sparse[Home[k]])

\* What a request has done, by the stage it is in.
Progress(k) ==
  LET at == pc[k]
  IN  /\ at.stage \in AskStages <=> run[k].op = "ask"
      /\ at.todo = "call" => at.error = "none"
      /\ at.todo = "record" =>
           at.stage \in {"upsert", "sparse_upsert", "retrieve", "retrieve_sparse"}
      /\ at.stage \in EarlyStages \cup AskStages => wrote[k] = {}
      /\ at.stage = "upsert" =>
           /\ at.todo = "call" \/ at.error = "incompatible" => wrote[k] = {}
           /\ at.todo = "record" /\ at.error = "none" => InDense(k)
           /\ at.error # "conflict"
      /\ at.stage = "sparse_upsert" =>
           /\ InDense(k)
           /\ at.error \in {"none", "contract"}
           /\ at.todo = "record" /\ at.error = "none" => InSparse(k)
      /\ at.stage = "retrieve" /\ at.todo = "record" => at.error # "none"
      /\ at.stage = "retrieve_sparse" /\ at.todo = "call" =>
           hits[k] # None /\ hits[k].expected = run[k].manifest

Placed(k) ==
  /\ run[k] = None <=> pc[k] = None
  /\ run[k] # None => /\ config[Home[k]] # None
                      /\ outcome[k] = "none"
                      /\ Progress(k)

HitsUnderManifest(k) ==
  hits[k] # None => /\ hits[k].expected = denseManifest
                    /\ AllUnder(hits[k].found, denseManifest)

\* The contents of BM25 are those its process renders.
SparseIsOwn ==
  \A p \in Processes, c \in Chunks :
    sparse[p][c] # None =>
      config[p] # None /\ sparse[p][c].content = config[p].rendering

Indexes ==
  /\ AllUnder(dense, denseManifest)
  /\ \A p \in Processes : AllUnder(sparse[p], sparseManifest[p])
  /\ SparseBindingFollowsDense
  /\ SparseCoveredByDense
  /\ SparseIsOwn

IInv ==
  /\ TypeOK
  /\ Indexes
  /\ IncompatibleRunWroteNothing
  /\ \A k \in Clients : Placed(k) /\ HitsUnderManifest(k)

-----------------------------------------------------------------------------

\* The order of the two services, as far as the invariant needs it.
LEMMA StageOrder ==
  /\ After("accept") = "fetch"
  /\ After("fetch") = "classify"
  /\ After("preflight_dense") = "preflight_sparse"
  /\ After("preflight_sparse") = "embed"
  /\ After("embed") = "upsert"
  /\ After("upsert") = "sparse_upsert"
  /\ After("sparse_upsert") = "return"
  /\ After("retrieve") = "retrieve_sparse"
  /\ After("retrieve_sparse") = "rerank"
  /\ \A s \in {"classify", "extract", "project", "chunk"} : After(s) \in EarlyStages
  /\ \A s \in {"rerank", "prompt"} : After(s) \in AskStages \ {"retrieve_sparse"}
  /\ After("generate") = "return"
  BY DEF After, Following, EarlyStages, AskStages

\* Client k moves without touching an index.
LEMMA ClientMoves ==
  ASSUME IInv, NEW k \in Clients,
         UNCHANGED <<denseManifest, dense, config, sparseManifest, sparse>>,
         \A j \in Clients \ {k} :
           /\ run'[j] = run[j] /\ pc'[j] = pc[j] /\ hits'[j] = hits[j]
           /\ wrote'[j] = wrote[j] /\ outcome'[j] = outcome[j],
         TypeOK', Placed(k)', HitsUnderManifest(k)',
         outcome'[k] = "incompatible" => wrote'[k] = {}
  PROVE  IInv'
<1>1. Indexes'
  BY DEF IInv, Indexes, AllUnder, SparseBindingFollowsDense, SparseCoveredByDense,
         SparseIsOwn, IdsOf
<1>2. ASSUME NEW j \in Clients, j # k
      PROVE  Placed(j)' /\ HitsUnderManifest(j)'
  BY <1>2 DEF IInv, Placed, Progress, InDense, InSparse, HitsUnderManifest, AllUnder, IdsOf
<1>3. IncompatibleRunWroteNothing'
  BY DEF IInv, IncompatibleRunWroteNothing
<1>4. QED
  BY <1>1, <1>2, <1>3 DEF IInv

\* A request that ends leaves nothing to be known about it.
LEMMA RequestEnds ==
  ASSUME IInv, NEW k \in Clients, NEW how \in Outcomes, Ends(k, how),
         UNCHANGED <<source, denseManifest, dense, config, sparseIndex, hits, wrote>>,
         events' \in [Processes -> 0..MaxEvents],
         how = "incompatible" => wrote[k] = {}
  PROVE  IInv'
<1>1. TypeOK'
  BY DEF IInv, TypeOK, Ends, sparseIndex
<1>2. Placed(k)' /\ HitsUnderManifest(k)'
  BY DEF IInv, TypeOK, Ends, Placed, HitsUnderManifest, AllUnder
<1>3. outcome'[k] = how
  BY DEF IInv, TypeOK, Ends
<1>4. \A j \in Clients \ {k} :
        /\ run'[j] = run[j] /\ pc'[j] = pc[j] /\ hits'[j] = hits[j]
        /\ wrote'[j] = wrote[j] /\ outcome'[j] = outcome[j]
  BY DEF IInv, TypeOK, Ends
<1>5. QED
  BY <1>1, <1>2, <1>3, <1>4, ClientMoves DEF sparseIndex

\* The place, the request and the composition of a client that runs a request.
LEMMA Running ==
  ASSUME IInv, NEW k \in Clients, pc[k] # None
  PROVE  /\ run[k] \in Requests /\ run[k] # None /\ pc[k] \in Places
         /\ run[k].op \in {"index", "ask"} /\ run[k].manifest \in Manifests
         /\ run[k].ids \subseteq Chunks
         /\ pc[k].stage \in Stages /\ pc[k].todo \in {"call", "record"}
         /\ pc[k].error \in Errors \cup {"none"}
         /\ Progress(k) /\ outcome[k] = "none"
         /\ Home[k] \in Processes /\ config[Home[k]] \in Configs
         /\ config[Home[k]].rendering \in Contents
         /\ config[Home[k]] # None
  BY HomeIsAProcess, ConfigsFit DEF IInv, TypeOK, Placed, Requests, Places

\* A stage's event is counted within the limit.
LEMMA CountType ==
  ASSUME IInv, NEW k \in Clients, Count(Home[k])
  PROVE  events' \in [Processes -> 0..MaxEvents]
  BY HomeIsAProcess, MaxEventsIsPositive DEF IInv, TypeOK, Count

\* The fields of a place.
LEMMA AtFields ==
  ASSUME NEW stage \in Stages, NEW error \in Errors \cup {"none"}
  PROVE  /\ At(stage) \in Places /\ ToRecord(stage, error) \in Places
         /\ At(stage).stage = stage /\ At(stage).todo = "call" /\ At(stage).error = "none"
         /\ ToRecord(stage, error).stage = stage
         /\ ToRecord(stage, error).todo = "record" /\ ToRecord(stage, error).error = error
  BY DEF At, ToRecord, Places

\* Recording the event of a stage whose error, if any, is `error`.
LEMMA Recording ==
  ASSUME IInv, NEW k \in Clients, pc[k] # None,
         NEW error \in Errors \cup {"none"},
         \/ pc[k].todo = "record" /\ error = pc[k].error
         \/ /\ pc[k].todo = "call" /\ pc[k].stage \in PureStages
            /\ error \in {"none", "provider_error"},
         Record(k, error) \/ RecordRefused(k),
         UNCHANGED <<source, denseManifest, dense, config, sparseIndex, hits, wrote>>
  PROVE  IInv'
<1>0. Progress(k) /\ pc[k] \in Places /\ run[k] # None /\ outcome[k] = "none"
      /\ config[Home[k]] # None
  BY Running
<1>1. CASE RecordRefused(k)
  BY <1>1, RequestEnds DEF RecordRefused, IInv, TypeOK, Outcomes, Errors
<1>2. CASE Record(k, error) /\ error # "none" /\ Ends(k, error)
  <2>1. error = "incompatible" => wrote[k] = {}
    BY <1>0, <1>2 DEF Progress, EarlyStages, AskStages
  <2>2. QED
    BY <1>2, <2>1, CountType, RequestEnds DEF Record, Outcomes
<1>3. CASE Record(k, error) /\ (Ends(k, "omitted") \/ Ends(k, "ok") \/ Ends(k, "contract"))
  BY <1>3, CountType, RequestEnds DEF Record, Outcomes, Errors
<1>4. CASE Record(k, error) /\ error = "none" /\ After(pc[k].stage) # "return"
             /\ Proceed(k) /\ UNCHANGED <<run, outcome>>
  <2>1. pc[k].stage \in {"upsert", "retrieve_sparse", "retrieve", "classify", "extract",
                         "project", "chunk", "embed", "rerank", "prompt"}
    <3>1. pc[k].stage \notin {"sparse_upsert", "generate"}
      BY <1>4, StageOrder
    <3>2. CASE pc[k].todo = "record"
      BY <1>0, <3>1, <3>2 DEF Progress
    <3>3. CASE pc[k].stage \in PureStages
      BY <3>1, <3>3 DEF PureStages
    <3>4. QED
      BY <3>2, <3>3
  <2>2. /\ After(pc[k].stage) \in Stages
        /\ pc'[k] = At(After(pc[k].stage))
        /\ pc'[k].stage = After(pc[k].stage) /\ pc'[k].todo = "call" /\ pc'[k].error = "none"
        /\ pc'[k] \in Places
    <3>1. After(pc[k].stage) \in Stages
      BY <2>1, StageOrder DEF Stages, IndexStages, AskStages, EarlyStages
    <3>2. pc'[k] = At(After(pc[k].stage))
      BY <1>4 DEF Proceed, IInv, TypeOK
    <3>3. QED
      BY <3>1, <3>2, AtFields
  <2>3. events' \in [Processes -> 0..MaxEvents]
    BY <1>4, CountType DEF Record
  <2>4. TypeOK'
    BY <1>4, <2>2, <2>3 DEF IInv, TypeOK, Proceed, sparseIndex
  <2>5. Progress(k)'
    <3>1. CASE pc[k].stage \in {"classify", "extract", "project", "chunk"}
      BY <1>0, <1>4, <2>2, <3>1, StageOrder DEF Progress, EarlyStages, AskStages
    <3>2. CASE pc[k].stage = "embed"
      BY <1>0, <1>4, <2>2, <3>2, StageOrder DEF Progress, EarlyStages, AskStages
    <3>3. CASE pc[k].stage = "upsert"
      <4>1. pc[k].todo = "record" /\ pc[k].error = "none"
        BY <1>4, <3>3 DEF PureStages
      <4>2. InDense(k) /\ InDense(k)'
        BY <1>0, <1>4, <3>3, <4>1 DEF Progress, InDense, IdsOf
      <4>3. QED
        BY <1>0, <1>4, <2>2, <3>3, <4>2, StageOrder DEF Progress, EarlyStages, AskStages
    <3>4. CASE pc[k].stage \in {"retrieve_sparse", "rerank", "prompt"}
      BY <1>0, <1>4, <2>2, <3>4, StageOrder DEF Progress, EarlyStages, AskStages
    <3>5. pc[k].stage # "retrieve"
      BY <1>0, <1>4 DEF Progress, PureStages
    <3>6. QED
      BY <2>1, <3>1, <3>2, <3>3, <3>4, <3>5
  <2>6. Placed(k)' /\ HitsUnderManifest(k)'
    BY <1>0, <1>4, <2>2, <2>5, NoneIsNothingElse
    DEF IInv, Placed, HitsUnderManifest, AllUnder
  <2>7. \A j \in Clients \ {k} : pc'[j] = pc[j]
    BY <1>4 DEF Proceed, IInv, TypeOK
  <2>8. QED
    BY <1>0, <1>4, <2>4, <2>6, <2>7, ClientMoves DEF sparseIndex
<1>5. QED
  BY <1>1, <1>2, <1>3, <1>4 DEF Record

-----------------------------------------------------------------------------
(* Steps of a request that write or read an index *)

\* What holds of a request that others run while the indexes are bound or grow.
LEMMA OthersStay ==
  ASSUME IInv, NEW j \in Clients,
         run'[j] = run[j], pc'[j] = pc[j], hits'[j] = hits[j],
         wrote'[j] = wrote[j], outcome'[j] = outcome[j], config' = config,
         denseManifest # None => denseManifest' = denseManifest,
         IdsOf(dense) \subseteq IdsOf(dense'),
         \A p \in Processes :
           /\ sparseManifest[p] # None => sparseManifest'[p] = sparseManifest[p]
           /\ IdsOf(sparse[p]) \subseteq IdsOf(sparse'[p])
  PROVE  Placed(j)' /\ HitsUnderManifest(j)'
<1>1. HitsUnderManifest(j)'
  BY NoneIsNoValue DEF IInv, TypeOK, HitsUnderManifest, AllUnder, Answer
<1>2. ASSUME run[j] # None
      PROVE  Progress(j)'
  <2>1. pc[j] # None
    BY <1>2 DEF IInv, Placed
  <2>2. run[j].manifest # None /\ Home[j] \in Processes /\ Progress(j)
    BY <2>1, Running, NoneIsNoValue
  <2>3. InDense(j) => InDense(j)'
    BY <2>2 DEF InDense
  <2>4. InSparse(j) => InSparse(j)'
    BY <2>2 DEF InSparse
  <2>5. QED
    BY <2>2, <2>3, <2>4 DEF Progress
<1>3. QED
  BY <1>1, <1>2 DEF IInv, Placed

\* An upsert of some of the request's chunks into the dense index.
LEMMA DenseWritten ==
  ASSUME IInv, NEW k \in Clients, Calling(k, "upsert"),
         NEW part \in SUBSET run[k].ids, NEW error \in {"none", "provider_error"},
         error = "none" => part = run[k].ids,
         Dense!Upsert(run[k].manifest, Batch(k, part)),
         wrote' = [wrote EXCEPT ![k] = wrote[k] \cup {"dense"}],
         Raises(k, error),
         UNCHANGED <<source, config, sparseIndex, events, run, outcome>>
  PROVE  IInv'
<1> DEFINE m == run[k].manifest
<1>0. /\ pc[k] # None /\ run[k] # None /\ m \in Manifests /\ run[k].ids \subseteq Chunks
      /\ Progress(k) /\ outcome[k] = "none" /\ config[Home[k]] # None
      /\ config[Home[k]].rendering \in Contents /\ config[Home[k]].rendering # None
      /\ pc[k].stage = "upsert" /\ run[k] \in Requests
  <2>1. pc[k] # None /\ pc[k].stage = "upsert"
    BY NoneIsNothingElse, AtFields DEF Calling, Stages, IndexStages, Errors
  <2>2. QED
    BY <2>1, Running, NoneIsNoValue
<1>1. denseManifest \in {None, m} /\ denseManifest' = m /\ hits' = hits
  BY DEF Dense!Upsert
<1>2. dense' = [c \in Chunks |-> IF c \in part
                  THEN [content |-> config[Home[k]].rendering, under |-> m]
                  ELSE dense[c]]
  BY <1>0 DEF Dense!Upsert, Dense!Put, Batch
<1>3. denseManifest = None => \A c \in Chunks : dense[c] = None
  BY NoneIsNoValue DEF IInv, TypeOK, Indexes, AllUnder, Rows, Row
<1>4. dense' \in Rows /\ AllUnder(dense', m)
  BY <1>0, <1>1, <1>2, <1>3 DEF IInv, TypeOK, Indexes, AllUnder, Rows, Row
<1>5. IdsOf(dense) \cup part \subseteq IdsOf(dense')
  BY <1>0, <1>2, NoneIsNoValue DEF IInv, IdsOf, Row
<1>6. pc'[k] = ToRecord("upsert", error) /\ pc' \in [Clients -> Places \cup {None}]
  BY <1>0, AtFields DEF Raises, IInv, TypeOK, Stages, IndexStages, Errors
<1>7. /\ pc'[k].stage = "upsert" /\ pc'[k].todo = "record" /\ pc'[k].error = error
      /\ pc'[k] # None
  BY <1>6, AtFields, NoneIsNothingElse DEF Stages, IndexStages, Errors
<1>8. TypeOK'
  BY <1>0, <1>1, <1>4, <1>6 DEF IInv, TypeOK, sparseIndex
<1>9. Indexes'
  <2>1. \A p \in Processes :
          AllUnder(sparse[p], sparseManifest[p]) /\ sparseManifest[p] \in {None, m}
    BY <1>0, <1>1 DEF IInv, Indexes, SparseBindingFollowsDense
  <2>2. QED
    BY <1>1, <1>4, <1>5, <2>1
    DEF IInv, Indexes, SparseBindingFollowsDense, SparseCoveredByDense, SparseIsOwn,
        AllUnder, sparseIndex
<1>10. Placed(k)'
  <2>1. error = "none" => InDense(k)'
    BY <1>1, <1>5 DEF InDense
  <2>2. Progress(k)'
    BY <1>0, <1>7, <2>1 DEF Progress, EarlyStages, AskStages
  <2>3. QED
    BY <1>0, <1>7, <2>2 DEF Placed
<1>11. HitsUnderManifest(k)'
  BY <1>1, NoneIsNoValue DEF IInv, TypeOK, HitsUnderManifest, AllUnder, Answer
<1>12. ASSUME NEW j \in Clients, j # k
       PROVE  Placed(j)' /\ HitsUnderManifest(j)'
  BY <1>1, <1>5, <1>12, OthersStay DEF IInv, TypeOK, Raises, sparseIndex
<1>13. IncompatibleRunWroteNothing'
  BY <1>0 DEF IInv, TypeOK, IncompatibleRunWroteNothing
<1>14. QED
  BY <1>8, <1>9, <1>10, <1>11, <1>12, <1>13 DEF IInv

\* The step raises or returns, and touches no index.
LEMMA OnlyRaises ==
  ASSUME IInv, NEW k \in Clients, pc[k] # None,
         NEW error \in Errors \cup {"none"}, Raises(k, error),
         UNCHANGED <<source, denseManifest, dense, config, sparseIndex, events, run, hits,
                     wrote, outcome>>,
         \/ pc[k].stage = "upsert" /\ pc[k].todo = "call"
            /\ error \in {"incompatible", "provider_error"}
         \/ pc[k].stage = "sparse_upsert" /\ error = "contract"
         \/ pc[k].stage = "retrieve" /\ error # "none"
         \/ pc[k].stage = "retrieve_sparse"
  PROVE  IInv'
<1>1. /\ pc[k].stage \in Stages /\ Progress(k) /\ run[k] # None /\ outcome[k] = "none"
      /\ config[Home[k]] # None
  BY Running
<1>2. pc'[k] = ToRecord(pc[k].stage, error) /\ pc' \in [Clients -> Places \cup {None}]
  BY <1>1, AtFields DEF Raises, IInv, TypeOK
<1>3. /\ pc'[k].stage = pc[k].stage /\ pc'[k].todo = "record" /\ pc'[k].error = error
      /\ pc'[k] # None
  BY <1>1, <1>2, AtFields, NoneIsNothingElse
<1>4. TypeOK'
  BY <1>2 DEF IInv, TypeOK, sparseIndex
<1>5. Progress(k)'
  BY <1>1, <1>3 DEF Progress, EarlyStages, AskStages, InDense, IdsOf
<1>6. Placed(k)' /\ HitsUnderManifest(k)'
  BY <1>1, <1>3, <1>5 DEF IInv, Placed, HitsUnderManifest, AllUnder
<1>7. QED
  BY <1>1, <1>4, <1>6, ClientMoves DEF IInv, TypeOK, Raises, sparseIndex

\* BM25 never refuses: its binding follows the dense index, which this request
\* has just written, and its contents are rendered by the same process.
LEMMA SparseAccepts ==
  ASSUME IInv, NEW k \in Clients, Calling(k, "sparse_upsert")
  PROVE  SparseVerdict(k) = "none"
<1>1. pc[k] # None /\ pc[k].stage = "sparse_upsert"
  BY NoneIsNothingElse, AtFields DEF Calling, Stages, IndexStages, Errors
<1>2. Progress(k) /\ Home[k] \in Processes /\ run[k].manifest \in Manifests
  BY <1>1, Running
<1>3. sparseManifest[Home[k]] \in {None, run[k].manifest}
  BY <1>1, <1>2 DEF Progress, InDense, IInv, Indexes, SparseBindingFollowsDense
<1>4. Conflicts(sparse[Home[k]], Batch(k, run[k].ids)) = {}
  BY <1>2 DEF Conflicts, Batch, IInv, Indexes, SparseIsOwn
<1>5. QED
  BY <1>3, <1>4 DEF SparseVerdict

\* The BM25 upsert keeps the invariant: it follows its own dense upsert.
LEMMA SparseWritten ==
  ASSUME IInv, NEW k \in Clients, SparseUpsert(k)
  PROVE  IInv'
<1> DEFINE m == run[k].manifest
           p == Home[k]
<1>1. pc[k] # None /\ pc[k].stage = "sparse_upsert"
  BY NoneIsNothingElse, AtFields DEF SparseUpsert, Calling, Stages, IndexStages, Errors
<1>2. /\ run[k] # None /\ m \in Manifests /\ run[k].ids \subseteq Chunks
      /\ Progress(k) /\ outcome[k] = "none" /\ p \in Processes
      /\ config[p] # None /\ config[p].rendering \in Contents /\ config[p].rendering # None
  BY <1>1, Running, NoneIsNoValue
<1>3. InDense(k) /\ denseManifest = m
  BY <1>1, <1>2 DEF Progress, InDense
<1>4. /\ sparseManifest' = [sparseManifest EXCEPT ![p] = m]
      /\ sparse' = [sparse EXCEPT ![p] =
           [c \in Chunks |-> IF c \in run[k].ids
              THEN [content |-> config[p].rendering, under |-> m] ELSE sparse[p][c]]]
      /\ wrote' = [wrote EXCEPT ![k] = wrote[k] \cup {"sparse"}]
      /\ Raises(k, "none")
      /\ UNCHANGED <<source, denseManifest, dense, config, events, run, hits, outcome>>
  BY <1>2, SparseAccepts DEF SparseUpsert, PendingChunks, Put, Batch
<1>5. sparseManifest[p] \in {None, m}
  BY <1>2, <1>3 DEF IInv, Indexes, SparseBindingFollowsDense
<1>6. sparseManifest[p] = None => \A c \in Chunks : sparse[p][c] = None
  BY <1>2, NoneIsNoValue DEF IInv, TypeOK, Indexes, AllUnder, Rows, Row
<1>7. sparse'[p] = [c \in Chunks |-> IF c \in run[k].ids
           THEN [content |-> config[p].rendering, under |-> m] ELSE sparse[p][c]]
      /\ sparseManifest'[p] = m
  BY <1>2, <1>4 DEF IInv, TypeOK
<1>8. sparse'[p] \in Rows /\ AllUnder(sparse'[p], m)
  BY <1>2, <1>5, <1>6, <1>7 DEF IInv, TypeOK, Indexes, AllUnder, Rows, Row
<1>9. IdsOf(sparse'[p]) = IdsOf(sparse[p]) \cup run[k].ids
  BY <1>2, <1>7, NoneIsNoValue DEF IdsOf, Row
<1>10. pc'[k] = ToRecord("sparse_upsert", "none") /\ pc' \in [Clients -> Places \cup {None}]
  BY <1>1, <1>4, AtFields DEF Raises, IInv, TypeOK, Stages, IndexStages, Errors
<1>11. /\ pc'[k].stage = "sparse_upsert" /\ pc'[k].todo = "record"
       /\ pc'[k].error = "none" /\ pc'[k] # None
  BY <1>10, AtFields, NoneIsNothingElse DEF Stages, IndexStages, Errors
<1>12. sparse' \in [Processes -> Rows] /\ sparseManifest' \in [Processes -> Manifests \cup {None}]
  BY <1>2, <1>4, <1>7, <1>8 DEF IInv, TypeOK
<1>13. TypeOK'
  BY <1>4, <1>10, <1>12 DEF IInv, TypeOK
<1>14. \A q \in Processes \ {p} :
         sparse'[q] = sparse[q] /\ sparseManifest'[q] = sparseManifest[q]
  BY <1>4 DEF IInv, TypeOK
<1>15. Indexes'
  <2>1. SparseBindingFollowsDense'
    BY <1>3, <1>4, <1>7, <1>14 DEF IInv, Indexes, SparseBindingFollowsDense
  <2>2. SparseCoveredByDense'
    BY <1>3, <1>4, <1>9, <1>14 DEF IInv, Indexes, SparseCoveredByDense, InDense
  <2>3. SparseIsOwn'
    BY <1>2, <1>4, <1>7, <1>14 DEF IInv, Indexes, SparseIsOwn
  <2>4. (\A q \in Processes : AllUnder(sparse[q], sparseManifest[q]))'
    BY <1>7, <1>8, <1>14 DEF IInv, Indexes, AllUnder
  <2>5. QED
    BY <1>4, <2>1, <2>2, <2>3, <2>4 DEF IInv, Indexes, AllUnder
<1>16. Placed(k)' /\ HitsUnderManifest(k)'
  <2>1. InDense(k)' /\ InSparse(k)'
    BY <1>3, <1>4, <1>7, <1>9 DEF InDense, InSparse, IdsOf
  <2>2. Progress(k)'
    BY <1>1, <1>2, <1>4, <1>11, <2>1 DEF Progress, EarlyStages, AskStages
  <2>3. QED
    BY <1>2, <1>4, <1>11, <2>2 DEF IInv, Placed, HitsUnderManifest, AllUnder
<1>17. ASSUME NEW j \in Clients, j # k
       PROVE  Placed(j)' /\ HitsUnderManifest(j)'
  <2>1. pc'[j] = pc[j] /\ wrote'[j] = wrote[j]
    BY <1>4, <1>17 DEF IInv, TypeOK, Raises
  <2>2. \A q \in Processes :
          /\ sparseManifest[q] # None => sparseManifest'[q] = sparseManifest[q]
          /\ IdsOf(sparse[q]) \subseteq IdsOf(sparse'[q])
    BY <1>5, <1>7, <1>9, <1>14
  <2>3. IdsOf(dense) \subseteq IdsOf(dense')
    BY <1>4
  <2>4. QED
    BY <1>4, <1>17, <2>1, <2>2, <2>3, OthersStay
<1>18. IncompatibleRunWroteNothing'
  BY <1>2, <1>4 DEF IInv, TypeOK, IncompatibleRunWroteNothing
<1>19. QED
  BY <1>13, <1>15, <1>16, <1>17, <1>18 DEF IInv

-----------------------------------------------------------------------------
(* The other steps of a request *)

\* The next stage of a request that did nothing yet.
LEMMA EarlyProceeds ==
  ASSUME IInv, NEW k \in Clients, pc[k] # None,
         pc[k].stage \in {"accept", "fetch", "preflight_dense", "preflight_sparse"},
         Proceed(k),
         run' = run \/ \E ids \in SUBSET Chunks :
                         run' = [run EXCEPT ![k] = Request("index", run[k].manifest, ids)],
         events' \in [Processes -> 0..MaxEvents],
         UNCHANGED <<source, denseManifest, dense, config, sparseIndex, hits, wrote, outcome>>
  PROVE  IInv'
<1>1. /\ Progress(k) /\ run[k] # None /\ run[k].op = "index" /\ run[k].manifest \in Manifests
      /\ outcome[k] = "none" /\ config[Home[k]] # None
  BY Running DEF Progress, AskStages
<1>2. After(pc[k].stage) \in EarlyStages
  BY StageOrder DEF EarlyStages
<1>3. After(pc[k].stage) \in Stages /\ pc'[k] = At(After(pc[k].stage))
  BY <1>2 DEF EarlyStages, Stages, IndexStages, Proceed, IInv, TypeOK
<1>4. /\ pc'[k].stage = After(pc[k].stage) /\ pc'[k].todo = "call" /\ pc'[k].error = "none"
      /\ pc'[k] # None /\ pc'[k] \in Places
  BY <1>3, AtFields, NoneIsNothingElse
<1>5. run' \in [Clients -> Requests \cup {None}] /\ run'[k] # None /\ run'[k].op = "index"
      /\ \A j \in Clients \ {k} : run'[j] = run[j]
  BY <1>1, NoneIsNothingElse DEF IInv, TypeOK, Requests, Request
<1>6. TypeOK'
  BY <1>3, <1>4, <1>5 DEF IInv, TypeOK, Proceed, sparseIndex
<1>7. Progress(k)'
  BY <1>1, <1>2, <1>4, <1>5 DEF Progress, EarlyStages, AskStages
<1>8. Placed(k)' /\ HitsUnderManifest(k)'
  BY <1>1, <1>4, <1>5, <1>7 DEF IInv, Placed, HitsUnderManifest, AllUnder
<1>9. QED
  BY <1>1, <1>5, <1>6, <1>8, ClientMoves DEF IInv, TypeOK, Proceed, sparseIndex

\* A request starts afresh.
LEMMA Starting ==
  ASSUME IInv, NEW k \in Clients, Start(k)
  PROVE  IInv'
<1>1. PICK op \in {"index", "ask"}, m \in Manifests :
        /\ run' = [run EXCEPT ![k] = Request(op, m, {})]
        /\ pc' = [pc EXCEPT ![k] = At(IF op = "index" THEN "accept" ELSE "retrieve")]
  BY DEF Start
<1>2. run'[k] = Request(op, m, {}) /\ run'[k] \in Requests /\ run'[k].op = op
      /\ run'[k] # None
  BY <1>1, NoneIsNothingElse DEF IInv, TypeOK, Request, Requests
<1>3. /\ pc'[k] \in Places /\ pc'[k] # None
      /\ pc'[k].stage = (IF op = "index" THEN "accept" ELSE "retrieve")
      /\ pc'[k].todo = "call" /\ pc'[k].error = "none"
  <2> DEFINE first == IF op = "index" THEN "accept" ELSE "retrieve"
  <2>1. first \in Stages
    BY DEF Stages, AskStages
  <2>2. pc'[k] = At(first)
    BY <1>1 DEF IInv, TypeOK
  <2> HIDE DEF first
  <2>3. pc'[k] \in Places /\ pc'[k].stage = first /\ pc'[k].todo = "call"
        /\ pc'[k].error = "none"
    BY <2>1, <2>2, AtFields
  <2>4. QED
    BY <2>3, NoneIsNothingElse DEF first
<1>4. hits'[k] = None /\ wrote'[k] = {} /\ outcome'[k] = "none" /\ config[Home[k]] # None
  BY DEF Start, IInv, TypeOK
<1>5. TypeOK'
  BY <1>1, <1>2, <1>3 DEF Start, IInv, TypeOK, Outcomes, sparseIndex
<1>6. Progress(k)'
  BY <1>2, <1>3, <1>4 DEF Progress, EarlyStages, AskStages
<1>7. Placed(k)' /\ HitsUnderManifest(k)'
  BY <1>2, <1>3, <1>4, <1>6 DEF Placed, HitsUnderManifest, Start
<1>8. QED
  BY <1>1, <1>4, <1>5, <1>7, ClientMoves DEF Start, IInv, TypeOK, sparseIndex

\* An ask reads one index after the other.
LEMMA Searching ==
  ASSUME IInv, NEW k \in Clients, DenseSearch(k)
  PROVE  IInv'
<1> DEFINE m == run[k].manifest
<1>1. pc[k] # None /\ pc[k].stage = "retrieve"
  BY NoneIsNothingElse, AtFields DEF DenseSearch, Calling, Stages, AskStages, Errors
<1>2. /\ Progress(k) /\ run[k] # None /\ m \in Manifests /\ outcome[k] = "none"
      /\ config[Home[k]] # None
  BY <1>1, Running
<1>3. CASE Dense!Search(k, m) /\ Proceed(k)
  <2>1. denseManifest = m /\ hits' = [hits EXCEPT ![k] = [expected |-> m, found |-> dense]]
        /\ UNCHANGED <<denseManifest, dense>>
    BY <1>3 DEF Dense!Search
  <2>2. hits'[k] = [expected |-> m, found |-> dense] /\ hits'[k] \in Answer
    BY <1>2, <2>1 DEF IInv, TypeOK, Answer
  <2>3. pc'[k] = At("retrieve_sparse")
    BY <1>1, <1>3, StageOrder DEF Proceed, IInv, TypeOK
  <2>4. /\ pc'[k].stage = "retrieve_sparse" /\ pc'[k].todo = "call" /\ pc'[k].error = "none"
        /\ pc'[k] \in Places /\ pc'[k] # None
    BY <2>3, AtFields, NoneIsNothingElse DEF Stages, AskStages
  <2>5. TypeOK'
    BY <1>3, <2>1, <2>2, <2>3, <2>4 DEF DenseSearch, Proceed, IInv, TypeOK, sparseIndex
  <2>6. Progress(k)'
    BY <1>1, <1>2, <2>2, <2>4, NoneIsNoValue
    DEF DenseSearch, Progress, EarlyStages, AskStages, Answer
  <2>7. Placed(k)' /\ HitsUnderManifest(k)'
    BY <1>2, <2>1, <2>2, <2>4, <2>6
    DEF DenseSearch, IInv, Indexes, Placed, HitsUnderManifest, AllUnder
  <2>8. QED
    BY <1>2, <1>3, <2>1, <2>5, <2>7, ClientMoves
    DEF DenseSearch, Proceed, IInv, TypeOK, sparseIndex
<1>4. CASE /\ Raises(k, "incompatible") \/ Raises(k, "provider_error")
           /\ UNCHANGED <<denseManifest, dense, hits>>
  BY <1>1, <1>4, OnlyRaises DEF DenseSearch, Errors
<1>5. QED
  BY <1>3, <1>4 DEF DenseSearch

\* What BM25 adds to the dense hits is under the same manifest.
LEMMA SearchingSparse ==
  ASSUME IInv, NEW k \in Clients, SparseRetrieve(k)
  PROVE  IInv'
<1> DEFINE p == Home[k]
<1>1. pc[k] # None /\ pc[k].stage = "retrieve_sparse" /\ pc[k].todo = "call"
  BY NoneIsNothingElse, AtFields DEF SparseRetrieve, Calling, Stages, AskStages, Errors
<1>2. /\ Progress(k) /\ run[k] # None /\ outcome[k] = "none" /\ config[Home[k]] # None
      /\ p \in Processes
  BY <1>1, Running
<1>3. hits[k] # None /\ hits[k].expected = run[k].manifest
  BY <1>1, <1>2 DEF Progress
<1>4. CASE UNCHANGED hits
           /\ (Raises(k, "incompatible") \/ Raises(k, "conflict"))
  BY <1>1, <1>4, OnlyRaises DEF SparseRetrieve, Errors
<1>5. CASE /\ sparseManifest[p] = run[k].manifest
           /\ hits' = [hits EXCEPT ![k] =
                [expected |-> hits[k].expected, found |-> Fused(hits[k].found, sparse[p])]]
           /\ Returns(k)
  <2>1. /\ hits[k] \in Answer /\ hits[k].expected = denseManifest
        /\ AllUnder(hits[k].found, denseManifest)
    BY <1>3 DEF IInv, TypeOK, HitsUnderManifest
  <2>2. sparse[p] \in Rows /\ AllUnder(sparse[p], denseManifest)
    BY <1>2, <1>3, <1>5, <2>1 DEF IInv, TypeOK, Indexes
  <2>3. hits'[k] = [expected |-> hits[k].expected, found |-> Fused(hits[k].found, sparse[p])]
    BY <1>5 DEF IInv, TypeOK
  <2>4. Fused(hits[k].found, sparse[p]) \in Rows
        /\ AllUnder(Fused(hits[k].found, sparse[p]), denseManifest)
    BY <2>1, <2>2 DEF Fused, Answer, Rows, AllUnder
  <2>5. hits'[k] \in Answer /\ HitsUnderManifest(k)'
    BY <2>1, <2>3, <2>4 DEF SparseRetrieve, Answer, HitsUnderManifest, AllUnder
  <2>6. pc'[k] = ToRecord("retrieve_sparse", "none")
    BY <1>1, <1>5 DEF Returns, Raises, IInv, TypeOK
  <2>7. /\ pc'[k].stage = "retrieve_sparse" /\ pc'[k].todo = "record"
        /\ pc'[k].error = "none" /\ pc'[k] \in Places /\ pc'[k] # None
    BY <2>6, AtFields, NoneIsNothingElse DEF Stages, AskStages, Errors
  <2>8. TypeOK'
    BY <1>5, <2>5, <2>6, <2>7 DEF SparseRetrieve, Returns, Raises, IInv, TypeOK, sparseIndex
  <2>9. Placed(k)'
    <3>1. Progress(k)'
      BY <1>1, <1>2, <2>7 DEF SparseRetrieve, Progress, EarlyStages, AskStages
    <3>2. QED
      BY <1>2, <2>7, <3>1 DEF SparseRetrieve, Placed
  <2>10. QED
    BY <1>2, <1>5, <2>5, <2>8, <2>9, ClientMoves
    DEF SparseRetrieve, Returns, Raises, IInv, TypeOK, sparseIndex
<1>6. QED
  BY <1>4, <1>5 DEF SparseRetrieve

-----------------------------------------------------------------------------
(* Processes and the source *)

\* A process starts with an empty BM25 index.
LEMMA Composing ==
  ASSUME IInv, NEW p \in Processes, Compose(p)
  PROVE  IInv'
<1>1. PICK new \in Configs : config' = [config EXCEPT ![p] = new]
  BY DEF Compose
<1>2. config[p] = None /\ new # None
      /\ UNCHANGED <<source, denseManifest, dense, sparseManifest, sparse, events, run, pc,
                     hits, wrote, outcome>>
  BY NoneIsNothingElse DEF Compose, sparseIndex
<1>3. TypeOK'
  BY <1>1, <1>2 DEF IInv, TypeOK
<1>4. Indexes'
  BY <1>1, <1>2
  DEF IInv, TypeOK, Indexes, AllUnder, SparseBindingFollowsDense, SparseCoveredByDense,
      SparseIsOwn, IdsOf
<1>5. ASSUME NEW j \in Clients
      PROVE  Placed(j)' /\ HitsUnderManifest(j)'
  <2>1. Home[j] = p => run[j] = None
    BY <1>2 DEF IInv, Placed
  <2>2. run[j] # None => config'[Home[j]] # None
    BY <1>1, <2>1, HomeIsAProcess DEF IInv, TypeOK, Placed
  <2>3. Progress(j) => Progress(j)'
    BY <1>2 DEF Progress, InDense, InSparse, IdsOf
  <2>4. QED
    BY <1>2, <2>2, <2>3 DEF IInv, Placed, HitsUnderManifest, AllUnder
<1>6. QED
  BY <1>2, <1>3, <1>4, <1>5 DEF IInv, IncompatibleRunWroteNothing

\* A process stops at any point of its requests, and BM25 is lost.
LEMMA Stopping ==
  ASSUME IInv, NEW p \in Processes, Stop(p)
  PROVE  IInv'
<1>1. /\ config' = [config EXCEPT ![p] = None]
      /\ sparseManifest' = [sparseManifest EXCEPT ![p] = None]
      /\ sparse' = [sparse EXCEPT ![p] = NoRows]
      /\ UNCHANGED <<source, denseManifest, dense, hits, wrote>>
  BY DEF Stop, LoseSparse
<1>2. NoRows \in Rows /\ IdsOf(NoRows) = {} /\ \A m \in Manifests \cup {None} : AllUnder(NoRows, m)
  BY DEF NoRows, Rows, IdsOf, AllUnder
<1>3. TypeOK'
  BY <1>1, <1>2, MaxEventsIsPositive DEF Stop, IInv, TypeOK, Outcomes
<1>4. \A q \in Processes :
        IF q = p THEN sparseManifest'[q] = None /\ sparse'[q] = NoRows
                 ELSE /\ sparseManifest'[q] = sparseManifest[q] /\ sparse'[q] = sparse[q]
                      /\ config'[q] = config[q]
  BY <1>1 DEF IInv, TypeOK
<1>5. Indexes'
  <2>1. SparseBindingFollowsDense' /\ SparseCoveredByDense'
    BY <1>1, <1>2, <1>4 DEF IInv, Indexes, SparseBindingFollowsDense, SparseCoveredByDense, IdsOf
  <2>2. SparseIsOwn'
    BY <1>4 DEF IInv, Indexes, SparseIsOwn, NoRows
  <2>3. (\A q \in Processes : AllUnder(sparse[q], sparseManifest[q]))'
    BY <1>2, <1>4 DEF IInv, Indexes, AllUnder
  <2>4. QED
    BY <1>1, <2>1, <2>2, <2>3 DEF IInv, Indexes, AllUnder
<1>6. ASSUME NEW j \in Clients
      PROVE  Placed(j)' /\ HitsUnderManifest(j)'
  <2>1. CASE Home[j] = p
    BY <1>1, <2>1 DEF Stop, IInv, Placed, HitsUnderManifest, AllUnder
  <2>2. CASE Home[j] # p
    <3>1. run'[j] = run[j] /\ pc'[j] = pc[j] /\ outcome'[j] = outcome[j]
          /\ Home[j] \in Processes /\ config'[Home[j]] = config[Home[j]]
      BY <1>4, <2>2, HomeIsAProcess DEF Stop
    <3>2. Progress(j) => Progress(j)'
      BY <1>1, <1>4, <2>2, <3>1 DEF Progress, InDense, InSparse, IdsOf
    <3>3. QED
      BY <1>1, <3>1, <3>2 DEF IInv, Placed, HitsUnderManifest, AllUnder
  <2>3. QED
    BY <2>1, <2>2
<1>7. IncompatibleRunWroteNothing'
  BY <1>1 DEF Stop, IInv, IncompatibleRunWroteNothing
<1>8. QED
  BY <1>3, <1>5, <1>6, <1>7 DEF IInv

\* Nothing that the invariant speaks of changes but the source.
LEMMA Stuttering ==
  ASSUME IInv, source' \in SUBSET Chunks,
         UNCHANGED <<denseManifest, dense, config, sparseIndex, events, run, pc, hits, wrote,
                     outcome>>
  PROVE  IInv'
<1>1. TypeOK'
  BY DEF IInv, TypeOK, sparseIndex
<1>2. Indexes'
  BY DEF IInv, Indexes, AllUnder, SparseBindingFollowsDense, SparseCoveredByDense,
         SparseIsOwn, IdsOf, sparseIndex
<1>3. IncompatibleRunWroteNothing'
  BY DEF IInv, IncompatibleRunWroteNothing
<1>4. ASSUME NEW j \in Clients
      PROVE  Placed(j)' /\ HitsUnderManifest(j)'
  BY DEF IInv, Placed, HitsUnderManifest, AllUnder, Progress, InDense, InSparse, IdsOf,
         sparseIndex
<1>5. QED
  BY <1>1, <1>2, <1>3, <1>4 DEF IInv

-----------------------------------------------------------------------------
(* The invariant *)

\* No index is bound and no request runs.
LEMMA InitInvariant == Init => IInv
<1> SUFFICES ASSUME Init PROVE IInv
  OBVIOUS
<1>1. TypeOK
  BY SourcesAreChunks, MaxEventsIsPositive DEF Init, TypeOK, NoRows, Rows, Outcomes
<1>2. Indexes
  BY HomeIsAProcess
  DEF Init, Indexes, AllUnder, SparseBindingFollowsDense, SparseCoveredByDense, SparseIsOwn,
      IdsOf, NoRows
<1>3. QED
  BY <1>1, <1>2 DEF Init, IInv, IncompatibleRunWroteNothing, Placed, HitsUnderManifest

\* Every step of a request keeps the invariant.
LEMMA StepInvariant ==
  ASSUME IInv, NEW k \in Clients, Step(k)
  PROVE  IInv'
<1>1. CASE Start(k)
  BY <1>1, Starting
<1>2. CASE Accept(k)
  <2>1. pc[k] # None /\ pc[k].stage = "accept"
    BY <1>2, NoneIsNothingElse, AtFields DEF Accept, Calling, Stages, Errors
  <2>2. Progress(k)
    BY <2>1, Running
  <2>3. CASE Proceed(k) /\ UNCHANGED <<run, outcome>>
    BY <1>2, <2>1, <2>3, EarlyProceeds DEF Accept, IInv, TypeOK
  <2>4. CASE Ends(k, "incompatible")
    BY <1>2, <2>1, <2>2, <2>4, RequestEnds
    DEF Accept, IInv, TypeOK, Outcomes, Errors, Progress, EarlyStages
  <2>5. QED
    BY <1>2, <2>3, <2>4 DEF Accept
<1>3. CASE Fetch(k)
  <2>1. pc[k] # None /\ pc[k].stage = "fetch"
    BY <1>3, NoneIsNothingElse, AtFields DEF Fetch, Calling, Stages, IndexStages, Errors
  <2>2. CASE RecordRefused(k)
    BY <1>3, <2>2, RequestEnds DEF Fetch, RecordRefused, IInv, TypeOK, Outcomes, Errors
  <2>3. CASE Count(Home[k]) /\ (Ends(k, "omitted") \/ Ends(k, "provider_error"))
    BY <1>3, <2>3, CountType, RequestEnds DEF Fetch, Outcomes, Errors
  <2>4. CASE /\ Count(Home[k]) /\ Proceed(k) /\ UNCHANGED outcome
             /\ run' = [run EXCEPT ![k] = Request("index", run[k].manifest, source)]
    BY <1>3, <2>1, <2>4, CountType, EarlyProceeds DEF Fetch, IInv, TypeOK
  <2>5. QED
    BY <1>3, <2>2, <2>3, <2>4 DEF Fetch
<1>4. CASE PureStage(k)
  BY <1>4, Recording DEF PureStage, Errors
<1>5. CASE Preflight(k)
  <2>1. pc[k] # None /\ pc[k].stage \in {"preflight_dense", "preflight_sparse"}
    BY <1>5, NoneIsNothingElse, AtFields DEF Preflight, Calling, Stages, IndexStages, Errors
  <2>2. Progress(k)
    BY <2>1, Running
  <2>3. CASE Proceed(k) /\ UNCHANGED <<run, outcome>>
    BY <1>5, <2>1, <2>3, EarlyProceeds DEF Preflight, IInv, TypeOK
  <2>4. CASE Ends(k, "incompatible")
    BY <1>5, <2>1, <2>2, <2>4, RequestEnds
    DEF Preflight, IInv, TypeOK, Outcomes, Errors, Progress, EarlyStages
  <2>5. CASE Ends(k, "provider_error")
    BY <1>5, <2>5, RequestEnds DEF Preflight, IInv, TypeOK, Outcomes, Errors
  <2>6. QED
    BY <1>5, <2>3, <2>4, <2>5 DEF Preflight
<1>6. CASE DenseUpsert(k)
  <2>1. pc[k] # None /\ pc[k].stage = "upsert" /\ pc[k].todo = "call"
    BY <1>6, NoneIsNothingElse, AtFields DEF DenseUpsert, Calling, Stages, IndexStages, Errors
  <2>2. CASE /\ Dense!Upsert(run[k].manifest, Batch(k, run[k].ids))
             /\ wrote' = [wrote EXCEPT ![k] = wrote[k] \cup {"dense"}]
             /\ Returns(k)
    <3>1. run[k].ids \in SUBSET run[k].ids
      OBVIOUS
    <3>2. QED
      BY <1>6, <2>2, <3>1, DenseWritten DEF DenseUpsert, Returns
  <2>3. CASE /\ Raises(k, "incompatible")
             /\ UNCHANGED <<denseManifest, dense, hits, wrote>>
    BY <1>6, <2>1, <2>3, OnlyRaises DEF DenseUpsert, Errors
  <2>4. QED
    BY <1>6, <2>2, <2>3 DEF DenseUpsert
<1>7. CASE DenseUpsertFails(k)
  <2>1. pc[k] # None /\ pc[k].stage = "upsert" /\ pc[k].todo = "call"
    BY <1>7, NoneIsNothingElse, AtFields
    DEF DenseUpsertFails, Calling, Stages, IndexStages, Errors
  <2>2. CASE UNCHANGED <<denseManifest, dense, hits, wrote>>
    BY <1>7, <2>1, <2>2, OnlyRaises DEF DenseUpsertFails, Errors
  <2>3. CASE /\ \E part \in SUBSET run[k].ids :
                  Dense!Upsert(run[k].manifest, Batch(k, part))
             /\ wrote' = [wrote EXCEPT ![k] = wrote[k] \cup {"dense"}]
    BY <1>7, <2>3, DenseWritten DEF DenseUpsertFails
  <2>4. QED
    BY <1>7, <2>2, <2>3 DEF DenseUpsertFails
<1>8. CASE SparseUpsert(k)
  BY <1>8, SparseWritten
<1>9. CASE DenseSearch(k)
  BY <1>9, Searching
<1>10. CASE SparseRetrieve(k)
  BY <1>10, SearchingSparse
<1>11. CASE RecordEffect(k)
  <2>1. pc[k].error \in Errors \cup {"none"}
    BY <1>11, Running DEF RecordEffect
  <2>2. QED
    BY <1>11, <2>1, Recording DEF RecordEffect
<1>12. CASE SparseRequestFails(k)
  <2>1. pc[k] # None /\ pc[k].stage = "sparse_upsert"
    BY <1>12, NoneIsNothingElse, AtFields
    DEF SparseRequestFails, Calling, Stages, IndexStages, Errors
  <2>2. QED
    BY <1>12, <2>1, OnlyRaises DEF SparseRequestFails, Errors
<1>13. QED
  BY <1>1, <1>2, <1>3, <1>4, <1>5, <1>6, <1>7, <1>8, <1>9, <1>10, <1>11, <1>12 DEF Step

\* So does every step of the system.
LEMMA NextInvariant == IInv /\ [Next]_vars => IInv'
<1> SUFFICES ASSUME IInv, [Next]_vars PROVE IInv'
  OBVIOUS
<1>1. ASSUME NEW k \in Clients, Step(k) PROVE IInv'
  BY <1>1, StepInvariant
<1>2. ASSUME NEW p \in Processes, Compose(p) \/ Stop(p) PROVE IInv'
  BY <1>2, Composing, Stopping
<1>3. CASE EditSource
  BY <1>3, SourcesAreChunks, Stuttering DEF EditSource
<1>4. CASE UNCHANGED vars
  BY <1>4, Stuttering DEF vars, IInv, TypeOK
<1>5. QED
  BY <1>1, <1>2, <1>3, <1>4 DEF Next

\* The invariant holds for any processes, threads, manifests and editions.
THEOREM Invariance == Spec => []IInv
<1>1. QED
  BY InitInvariant, NextInvariant, PTL DEF Spec

-----------------------------------------------------------------------------
(* Results *)

\* No run of any process leaves the two indexes with different manifests, one
\* of them mutated by a run that was refused, or a chunk in BM25 only.
THEOREM IndexesAgree ==
  Spec => [](/\ TypeOK
             /\ SparseBindingFollowsDense
             /\ IncompatibleRunWroteNothing
             /\ SparseCoveredByDense)
<1>1. IInv => /\ TypeOK /\ SparseBindingFollowsDense
              /\ IncompatibleRunWroteNothing /\ SparseCoveredByDense
  BY DEF IInv, Indexes
<1>2. QED
  BY <1>1, Invariance, PTL

\* What an ask retrieves was all indexed under the manifest it expects.
THEOREM AskedUnderManifest == Spec => []AnswersUnderManifest
<1>1. IInv => AnswersUnderManifest
  BY DEF IInv, HitsUnderManifest, AnswersUnderManifest
<1>2. QED
  BY <1>1, Invariance, PTL

\* The step with which an index request succeeds, or meets a conflict.
LEMMA IndexEnds ==
  ASSUME IInv, [Next]_vars, NEW k \in Clients, run[k] # None, run[k].op = "index",
         outcome'[k] \in {"ok", "conflict"}
  PROVE  outcome'[k] = "ok" /\ InDense(k) /\ InSparse(k)
<1>1. /\ pc[k] # None /\ Progress(k) /\ outcome[k] = "none" /\ pc[k].stage \notin AskStages
      /\ outcome \in [Clients -> Outcomes]
  BY Running DEF IInv, TypeOK, Placed, Progress
<1>2. ~ (UNCHANGED outcome)
  BY <1>1
<1>3. PICK j \in Clients : Step(j)
  BY <1>1, <1>2 DEF Next, Compose, Stop, EditSource, vars
<1>4. ASSUME NEW i \in Clients, NEW how, Ends(i, how)
      PROVE  outcome'[k] = (IF i = k THEN how ELSE "none")
  BY <1>1, <1>4 DEF Ends
<1>5. j = k
      /\ \E error \in Errors \cup {"none"} :
           /\ Record(k, error)
           /\ \/ pc[k].todo = "record" /\ error = pc[k].error
              \/ pc[k].stage \in PureStages /\ error \in {"none", "provider_error"}
  <2>1. CASE Start(j)
    BY <1>1, <2>1 DEF Start, IInv, TypeOK
  <2>2. CASE Accept(j) \/ Preflight(j)
    BY <1>2, <1>4, <2>2 DEF Accept, Preflight
  <2>3. CASE Fetch(j)
    BY <1>2, <1>4, <2>3 DEF Fetch, RecordRefused
  <2>4. CASE PureStage(j)
    <3>1. PICK error \in {"none", "provider_error"} : Record(j, error) \/ RecordRefused(j)
      BY <2>4 DEF PureStage
    <3>2. Record(j, error)
      BY <1>4, <3>1 DEF RecordRefused
    <3>3. j = k
      BY <1>2, <1>4, <3>2 DEF Record
    <3>4. QED
      BY <2>4, <3>2, <3>3 DEF PureStage, Errors
  <2>5. CASE \/ DenseUpsert(j) \/ DenseUpsertFails(j)
             \/ SparseUpsert(j) \/ SparseRequestFails(j)
             \/ DenseSearch(j) \/ SparseRetrieve(j)
    BY <1>2, <2>5
    DEF DenseUpsert, DenseUpsertFails, SparseUpsert, SparseRequestFails, DenseSearch,
        SparseRetrieve
  <2>6. CASE RecordEffect(j)
    <3>1. Record(j, pc[j].error) \/ RecordRefused(j)
      BY <2>6 DEF RecordEffect
    <3>2. Record(j, pc[j].error)
      BY <1>4, <3>1 DEF RecordRefused
    <3>3. j = k
      BY <1>2, <1>4, <3>2 DEF Record
    <3>4. pc[k].error \in Errors \cup {"none"}
      BY <1>1, Running
    <3>5. QED
      BY <2>6, <3>2, <3>3, <3>4 DEF RecordEffect
  <2>7. QED
    BY <1>3, <2>1, <2>2, <2>3, <2>4, <2>5, <2>6 DEF Step
<1>6. PICK error \in Errors \cup {"none"} :
        /\ Record(k, error)
        /\ \/ pc[k].todo = "record" /\ error = pc[k].error
           \/ pc[k].stage \in PureStages /\ error \in {"none", "provider_error"}
  BY <1>5
<1>7. error # "conflict"
  BY <1>1, <1>6 DEF Progress, AskStages
<1>8. error = "none" /\ After(pc[k].stage) = "return" /\ outcome'[k] = "ok"
  BY <1>1, <1>2, <1>4, <1>6, <1>7 DEF Record, Ends, Errors
<1>9. pc[k].stage \notin {"upsert", "embed", "classify", "extract", "project", "chunk"}
  BY <1>8, StageOrder DEF EarlyStages
<1>10. pc[k].stage = "sparse_upsert" /\ pc[k].todo = "record"
  BY <1>1, <1>6, <1>9 DEF Progress, AskStages, PureStages
<1>11. pc[k].error = "none"
  BY <1>6, <1>8, <1>10 DEF PureStages
<1>12. QED
  BY <1>1, <1>8, <1>10, <1>11 DEF Progress

\* Indexing never meets two contents for one chunk ID in BM25.
THEOREM NoConflict == Spec => IndexNeverConflicts
<1>1. IInv /\ [Next]_vars =>
        [\A k \in Clients :
           run[k] # None /\ run[k].op = "index" => outcome'[k] # "conflict"]_vars
  BY IndexEnds
<1>2. QED
  BY <1>1, Invariance, PTL DEF Spec, IndexNeverConflicts

\* When indexing reports success, each of its chunks can be found in the dense
\* index and in the BM25 index of its process.
THEOREM SuccessIsSearchable == Spec => IndexSuccessIsSearchable
<1>1. IInv /\ [Next]_vars =>
        [\A k \in Clients :
           /\ run[k] # None /\ run[k].op = "index"
           /\ outcome'[k] = "ok"
           => /\ denseManifest = run[k].manifest
              /\ sparseManifest[Home[k]] = run[k].manifest
              /\ run[k].ids \subseteq IdsOf(dense) \cap IdsOf(sparse[Home[k]])]_vars
  BY IndexEnds DEF InDense, InSparse
<1>2. QED
  BY <1>1, Invariance, PTL DEF Spec, IndexSuccessIsSearchable

\* The two cases of IndexesAgree that matter to a caller.  What BM25 of a
\* process holds is in the dense index of a hybrid deployment: the sparse upsert
\* comes second and nothing is deleted from the dense index.
THEOREM SparseIsCovered == Spec => []SparseCoveredByDense
<1>1. QED
  BY IndexesAgree, PTL

\* An indexing run that was told its index is incompatible has written nothing
\* under its manifest: the preflight asks both indexes before the first write.
THEOREM RefusalIsClean == Spec => []IncompatibleRunWroteNothing
<1>1. QED
  BY IndexesAgree, PTL

=============================================================================
