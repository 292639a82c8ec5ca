--------------------------- MODULE RemoteStoresProofs ---------------------------
(***************************************************************************)
(* What the stores without a transaction keep to, for any number of        *)
(* clients, manifests and batch sizes, and so whichever of them a          *)
(* composition selects.                                                    *)
(*                                                                         *)
(* OpenSearchStore implements ManifestIndex, in parts.  The argument is    *)
(* that the manifest in the mapping never changes once it is there: a      *)
(* client that has read it, and any request it leaves behind, may act on   *)
(* it at any later time.                                                   *)
(*                                                                         *)
(* PineconeStore (Pinecone!) promises less.  A sentinel that was read      *)
(* stays, so every record, sent in time or late, is one of its manifest;   *)
(* and the batches a call has confirmed, with what it has still to send,   *)
(* are always what it was asked to write.                                  *)
(***************************************************************************)
EXTENDS RemoteStores, FiniteSetTheorems, SequenceTheorems, TLAPS

\* What every implementation of the abstract index inherits from it.
Promise ==
  INSTANCE ManifestIndexProofs
    WITH Batches <- {Part(b, ids) : b \in Batches \cup {NoRows}, ids \in SUBSET Chunks},
         IdSets  <- SUBSET Chunks

-----------------------------------------------------------------------------
(* OpenSearchStore *)

\* Which calls are in progress where.
CallsInPlace ==
  \A k \in Clients :
    /\ pc[k] = "idle" <=> call[k] = None
    /\ pc[k] # "idle" => result[k] = "none"
    /\ pc[k] # "idle" /\ call[k].op = "preflight" => todo[k] = {}
    /\ pc[k] \in {"create", "recheck"} => call[k].op = "upsert"
    /\ pc[k] = "bulk" => call[k].op \in {"upsert", "delete"}
    /\ pc[k] = "query" => call[k].op = "search" /\ manifest = call[k].manifest
    /\ late[k] # None /\ late[k].op = "bulk" => late[k].call.op \in {"upsert", "delete"}

\* What a call has to send is still to be sent, or confirmed.
NothingIsLost ==
  \A k \in Clients :
    call[k] # None => IdsOf(call[k].batch) \cup call[k].ids \subseteq todo[k] \cup applied[k]

IInv ==
  /\ TypeOK
  /\ BulkMeetsItsManifest
  /\ CallsInPlace
  /\ NothingIsLost

-----------------------------------------------------------------------------

\* The fields of a call.
LEMMA CallFields ==
  ASSUME NEW c \in Call
  PROVE  /\ c.op \in {"preflight", "search", "upsert", "delete"}
         /\ c.manifest \in Manifests
         /\ c.batch \in Batches \cup {NoRows}
         /\ c.batch \in [Chunks -> Contents \cup {None}]
         /\ IdsOf(c.batch) \cup c.ids \in SUBSET Chunks
         /\ c.op = "preflight" => IdsOf(c.batch) \cup c.ids = {}
         /\ c # None
<1>1. /\ c.op \in {"preflight", "search", "upsert", "delete"}
      /\ c.manifest \in Manifests
      /\ c.batch \in Batches \cup {NoRows}
      /\ c.ids \in IdSets \cup {{}}
      /\ c.op = "preflight" => c.batch = NoRows /\ c.ids = {}
      /\ c # None
  BY NoneIsNoValue DEF Call
<1>2. QED
  BY <1>1, BatchesAreMaps, IdSetsAreChunks DEF NoRows, IdsOf

\* A request carries its call and some IDs.
LEMMA RequestFields ==
  ASSUME NEW op \in {"create", "bulk"}, NEW c \in Call, NEW ids \in SUBSET Chunks
  PROVE  /\ Request(op, c, ids) \in Requests
         /\ Request(op, c, ids) # None
         /\ Request(op, c, ids).op = op
         /\ Request(op, c, ids).call = c
         /\ Request(op, c, ids).ids = ids
  BY NoneIsNoRequest DEF Request, Requests

\* Any part of a bulk request leaves rows, and the manifest alone.
LEMMA RowsAfterBulk ==
  ASSUME IInv, NEW c \in Call, NEW ids \in SUBSET Chunks, ExecuteBulk(c, ids)
  PROVE  rows' \in Rows /\ manifest' = manifest
<1>1. Part(c.batch, ids) \in [Chunks -> Contents \cup {None}] /\ c.manifest \in Manifests
  BY CallFields DEF Part
<1>2. QED
  BY <1>1 DEF ExecuteBulk, Put, Drop, Rows, Row, IInv, TypeOK

\* The client's call while it is inside a call, and what it may send.
LEMMA InsideCall ==
  ASSUME IInv, NEW k \in Clients, pc[k] # "idle"
  PROVE  /\ call[k] \in Call
         /\ call[k].manifest \in Manifests
         /\ result[k] = "none"
         /\ Batch(k) \subseteq SUBSET todo[k]
         /\ todo[k] \in SUBSET Chunks
         /\ \A r \in Outgoing(k) :
              /\ r \in Requests
              /\ r # None
              /\ r.op = "bulk" => /\ manifest = r.call.manifest
                                  /\ r.call.op \in {"upsert", "delete"}
<1>1. call[k] \in Call /\ result[k] = "none" /\ todo[k] \in SUBSET Chunks
  BY DEF IInv, TypeOK, CallsInPlace
<1>2. Batch(k) \subseteq SUBSET todo[k]
  BY DEF Batch
<1>3. ASSUME NEW r \in Outgoing(k)
      PROVE  /\ r \in Requests
             /\ r # None
             /\ r.op = "bulk" => /\ manifest = r.call.manifest
                                 /\ r.call.op \in {"upsert", "delete"}
  <2>1. CASE pc[k] = "create"
    BY <1>1, <2>1, RequestFields DEF Outgoing
  <2>2. CASE pc[k] = "bulk"
    <3>1. PICK ids \in SUBSET Chunks : r = Request("bulk", call[k], ids)
      BY <1>1, <1>2, <2>2 DEF Outgoing
    <3>2. manifest = call[k].manifest /\ call[k].op \in {"upsert", "delete"}
      BY <2>2 DEF IInv, BulkMeetsItsManifest, CallsInPlace
    <3>3. QED
      BY <1>1, <3>1, <3>2, RequestFields
  <2>3. CASE pc[k] \notin {"create", "bulk"}
    BY <2>3 DEF Outgoing
  <2>4. QED
    BY <2>1, <2>2, <2>3
<1>4. QED
  BY <1>1, <1>2, <1>3, CallFields

\* A step that touches no rows, binds at most an unbound index, and leaves
\* the other clients alone.
LEMMA RowsUntouched ==
  ASSUME IInv, NEW k \in Clients, TypeOK', CallsInPlace', NothingIsLost',
         manifest # None => manifest' = manifest,
         \A j \in Clients \ {k} : pc'[j] = pc[j] /\ call'[j] = call[j] /\ late'[j] = late[j],
         pc'[k] = "bulk" => manifest' = call'[k].manifest,
         late'[k] # None /\ late'[k].op = "bulk" => manifest' = late'[k].call.manifest
  PROVE  IInv'
<1>1. ASSUME NEW j \in Clients, pc[j] = "bulk"
      PROVE  manifest # None /\ manifest = call[j].manifest
  BY <1>1, InsideCall, NoneIsNoValue DEF IInv, BulkMeetsItsManifest
<1>2. ASSUME NEW j \in Clients, late[j] # None, late[j].op = "bulk"
      PROVE  manifest # None /\ manifest = late[j].call.manifest
  BY <1>2, CallFields, NoneIsNoValue DEF IInv, TypeOK, BulkMeetsItsManifest, Requests
<1>3. BulkMeetsItsManifest'
  BY <1>1, <1>2 DEF BulkMeetsItsManifest
<1>4. QED
  BY <1>3 DEF IInv

\* Once bound, the index is bound for good, whatever other clients do.
LEMMA QueriesStayBound ==
  ASSUME IInv, NEW j \in Clients, pc[j] = "query"
  PROVE  manifest # None /\ manifest = call[j].manifest
  BY InsideCall, NoneIsNoValue DEF IInv, CallsInPlace

\* Every step of a client or of its requests keeps the invariant.
LEMMA StepInvariant ==
  ASSUME IInv, NEW k \in Clients, Step(k)
  PROVE  IInv'
<1> USE DEF IInv, stored, progress, Goto, End
<1>1. CASE Start(k)
  <2>1. PICK c \in Call :
          /\ call' = [call EXCEPT ![k] = c]
          /\ todo' = [todo EXCEPT ![k] = IdsOf(c.batch) \cup c.ids]
    BY <1>1 DEF Start
  <2> DEFINE work == IdsOf(c.batch) \cup c.ids
  <2>2. work \in SUBSET Chunks /\ c # None /\ (c.op = "preflight" => work = {})
    BY CallFields
  <2> HIDE DEF work
  <2>3. TypeOK'
    BY <1>1, <2>1, <2>2 DEF Start, TypeOK, Places, Results, work
  <2>4. CallsInPlace'
    BY <1>1, <2>1, <2>2 DEF Start, TypeOK, CallsInPlace, work
  <2>5. NothingIsLost'
    BY <1>1, <2>1, <2>2 DEF Start, TypeOK, NothingIsLost, work
  <2>6. QED
    BY <1>1, <2>1, <2>3, <2>4, <2>5, RowsUntouched DEF Start, TypeOK, BulkMeetsItsManifest
<1>2. CASE Exists(k)
  <2>1. TypeOK' /\ CallsInPlace' /\ NothingIsLost'
    BY <1>2 DEF Exists, TypeOK, Places, Results, CallsInPlace, NothingIsLost
  <2>2. QED
    BY <1>2, <2>1, RowsUntouched DEF Exists, TypeOK, BulkMeetsItsManifest
<1>3. CASE Create(k)
  <2>0. call[k].manifest \in Manifests
    BY <1>3, InsideCall DEF Create
  <2>1. manifest # None => manifest' = manifest
    BY <1>3 DEF Create, ExecuteCreate
  <2>2. TypeOK'
    BY <1>3, <2>0 DEF Create, ExecuteCreate, TypeOK, Places, Results
  <2>3. CallsInPlace' /\ NothingIsLost'
    BY <1>3, <2>1, QueriesStayBound DEF Create, TypeOK, CallsInPlace, NothingIsLost
  <2>4. late[k] # None /\ late[k].op = "bulk" => manifest # None
    BY CallFields, NoneIsNoValue DEF TypeOK, Requests, BulkMeetsItsManifest
  <2>5. QED
    BY <1>3, <2>1, <2>2, <2>3, <2>4, RowsUntouched DEF Create, TypeOK, BulkMeetsItsManifest
<1>4. CASE Recheck(k)
  <2>1. TypeOK' /\ CallsInPlace' /\ NothingIsLost'
    BY <1>4 DEF Recheck, TypeOK, Places, Results, CallsInPlace, NothingIsLost
  <2>2. QED
    BY <1>4, <2>1, RowsUntouched DEF Recheck, TypeOK, BulkMeetsItsManifest
<1>5. CASE ReadMapping(k)
  <2>1. TypeOK' /\ NothingIsLost'
    BY <1>5 DEF ReadMapping, TypeOK, Places, Results, NothingIsLost
  <2>2. CallsInPlace'
    BY <1>5, InsideCall, CallFields DEF ReadMapping, TypeOK, CallsInPlace
  <2>3. QED
    BY <1>5, <2>1, <2>2, RowsUntouched DEF ReadMapping, TypeOK, BulkMeetsItsManifest
<1>6. CASE Query(k)
  <2>0. call[k].manifest \in Manifests
    BY <1>6, InsideCall DEF Query
  <2>1. TypeOK' /\ CallsInPlace' /\ NothingIsLost'
    BY <1>6, <2>0 DEF Query, TypeOK, Places, Results, CallsInPlace, NothingIsLost, Answer
  <2>2. QED
    BY <1>6, <2>1, RowsUntouched DEF Query, TypeOK, BulkMeetsItsManifest
<1>7. CASE Bulk(k)
  <2>0. call[k] \in Call /\ Batch(k) \subseteq SUBSET todo[k] /\ todo[k] \in SUBSET Chunks
    BY <1>7, InsideCall DEF Bulk
  <2>1. PICK part \in Batch(k), done \in SUBSET Chunks :
          /\ done \subseteq part
          /\ ExecuteBulk(call[k], done)
          /\ applied' = [applied EXCEPT ![k] = applied[k] \cup done]
          /\ IF Succeeds(part, done)
               THEN /\ todo' = [todo EXCEPT ![k] = todo[k] \ part]
                    /\ IF todo[k] = part
                         THEN /\ pc' = [pc EXCEPT ![k] = "idle"]
                              /\ call' = [call EXCEPT ![k] = None]
                              /\ result' = [result EXCEPT ![k] = "ok"]
                         ELSE UNCHANGED <<pc, call, result>>
               ELSE /\ pc' = [pc EXCEPT ![k] = "idle"]
                    /\ call' = [call EXCEPT ![k] = None]
                    /\ result' = [result EXCEPT ![k] = "provider_error"]
                    /\ UNCHANGED todo
    BY <1>7, <2>0 DEF Bulk
  <2>2. /\ call[k] \in Call /\ part \subseteq todo[k] /\ done \subseteq part
        /\ todo[k] \in SUBSET Chunks
    BY <2>0, <2>1
  <2>3. rows' \in Rows /\ manifest' = manifest
    BY <2>1, <2>2, RowsAfterBulk
  <2>4. UNCHANGED <<late, answer>>
    BY <1>7 DEF Bulk
  <2>5. TypeOK'
    BY <2>1, <2>2, <2>3, <2>4 DEF TypeOK, Places, Results
  <2>6. CallsInPlace'
    BY <2>1, <2>3, <2>4 DEF TypeOK, CallsInPlace
  <2>7. NothingIsLost'
    BY <2>1, <2>2 DEF TypeOK, NothingIsLost, Succeeds
  <2>8. QED
    BY <2>1, <2>3, <2>4, <2>5, <2>6, <2>7, RowsUntouched DEF TypeOK, BulkMeetsItsManifest
<1>8. CASE Retry(k)
  <2>1. PICK r \in Outgoing(k) : late' = [late EXCEPT ![k] = r]
    BY <1>8 DEF Retry
  <2>2. pc[k] # "idle"
    BY <2>1 DEF Outgoing
  <2>3. /\ r \in Requests
        /\ r.op = "bulk" => manifest = r.call.manifest /\ r.call.op \in {"upsert", "delete"}
    BY <2>1, <2>2, InsideCall
  <2>4. TypeOK' /\ CallsInPlace' /\ NothingIsLost'
    BY <1>8, <2>1, <2>3 DEF Retry, TypeOK, CallsInPlace, NothingIsLost
  <2>5. QED
    BY <1>8, <2>1, <2>3, <2>4, RowsUntouched DEF Retry, TypeOK, BulkMeetsItsManifest
<1>9. CASE GiveUp(k)
  <2>1. \/ UNCHANGED late
        \/ \E r \in Outgoing(k) : late' = [late EXCEPT ![k] = r]
    BY <1>9 DEF GiveUp
  <2>2. \A r \in Outgoing(k) :
          /\ r \in Requests
          /\ r.op = "bulk" => manifest = r.call.manifest /\ r.call.op \in {"upsert", "delete"}
    BY <1>9, InsideCall DEF GiveUp
  <2>3. UNCHANGED <<stored, todo, applied, answer>>
    BY <1>9 DEF GiveUp
  <2>4. \E how \in Results \ {"none"} :
          /\ pc' = [pc EXCEPT ![k] = "idle"]
          /\ call' = [call EXCEPT ![k] = None]
          /\ result' = [result EXCEPT ![k] = how]
    BY <1>9 DEF GiveUp, Results
  <2>5. TypeOK' /\ CallsInPlace' /\ NothingIsLost'
    BY <2>1, <2>2, <2>3, <2>4 DEF TypeOK, Places, CallsInPlace, NothingIsLost
  <2>6. QED
    BY <2>1, <2>2, <2>3, <2>4, <2>5, RowsUntouched DEF TypeOK, BulkMeetsItsManifest
<1>10. CASE ExecuteLate(k)
  <2>0. late[k] \in Requests /\ late[k].call \in Call /\ late[k].call.manifest \in Manifests
    BY <1>10, CallFields DEF ExecuteLate, TypeOK, Requests
  <2>1. /\ rows' \in Rows /\ manifest' \in Manifests \cup {None}
        /\ manifest # None => manifest' = manifest
    <3>1. CASE ExecuteCreate(late[k].call.manifest)
      BY <2>0, <3>1 DEF ExecuteCreate, TypeOK
    <3>2. CASE \E done \in SUBSET late[k].ids : ExecuteBulk(late[k].call, done)
      BY <2>0, <3>2, RowsAfterBulk DEF Requests, TypeOK
    <3>3. CASE UNCHANGED stored
      BY <3>3 DEF TypeOK
    <3>4. QED
      BY <1>10, <3>1, <3>2, <3>3 DEF ExecuteLate
  <2>2. UNCHANGED <<progress, answer>> /\ late' = [late EXCEPT ![k] = None]
    BY <1>10 DEF ExecuteLate
  <2>3. TypeOK' /\ CallsInPlace' /\ NothingIsLost'
    BY <2>1, <2>2, QueriesStayBound DEF TypeOK, CallsInPlace, NothingIsLost
  <2>4. pc[k] = "bulk" => manifest # None /\ manifest = call[k].manifest
    BY InsideCall, NoneIsNoValue DEF BulkMeetsItsManifest
  <2>5. QED
    BY <2>1, <2>2, <2>3, <2>4, RowsUntouched DEF TypeOK
<1>11. QED
  BY <1>1, <1>2, <1>3, <1>4, <1>5, <1>6, <1>7, <1>8, <1>9, <1>10 DEF Step

\* Stuttering keeps the invariant.
LEMMA StutterInvariant ==
  ASSUME IInv, UNCHANGED vars
  PROVE  IInv'
  BY DEF vars, progress, IInv, TypeOK, BulkMeetsItsManifest, CallsInPlace, NothingIsLost

\* The invariant the other theorems rest on.
THEOREM Invariance == Spec => []IInv
<1>1. Init => IInv
  BY NoneIsNoValue
  DEF Init, IInv, TypeOK, BulkMeetsItsManifest, CallsInPlace, NothingIsLost, NoRows, Rows,
      Places, Results
<1>2. IInv /\ [Next]_vars => IInv'
  BY StepInvariant, StutterInvariant DEF Next
<1>3. QED
  BY <1>1, <1>2, PTL DEF Spec

\* No bulk request meets an index of another manifest, for any number of
\* clients, manifests and late requests and any batch size.
THEOREM BulkSafety == Spec => [](TypeOK /\ BulkMeetsItsManifest)
  BY Invariance, PTL DEF IInv

-----------------------------------------------------------------------------

\* The empty part of an empty batch, which creation amounts to upserting.
LEMMA EmptyPart == Part(NoRows, {}) = NoRows
  BY DEF Part, NoRows

\* The parts of an upsert are batches of the promised index.
LEMMA PartsAreBatches ==
  ASSUME NEW c \in Call, NEW ids \in SUBSET Chunks
  PROVE  Part(c.batch, ids) \in {Part(b, i) : b \in Batches \cup {NoRows}, i \in SUBSET Chunks}
<1>1. c.batch \in Batches \cup {NoRows}
  BY CallFields
<1>2. \A b \in Batches \cup {NoRows}, j \in SUBSET Chunks :
        Part(b, j) \in {Part(d, i) : d \in Batches \cup {NoRows}, i \in SUBSET Chunks}
  OBVIOUS
<1>3. QED
  BY <1>1, <1>2

\* Creation binds the index without any row, or changes nothing.
LEMMA CreateRefines ==
  ASSUME IInv, NEW m \in Manifests, ExecuteCreate(m), UNCHANGED answer
  PROVE  [Index!Next]_(Index!vars)
<1>1. CASE manifest = None
  <2>1. rows' = Put(rows, m, NoRows)
    BY DEF ExecuteCreate, Put, NoRows, IInv, TypeOK, Rows
  <2>2. Index!Upsert(m, NoRows)
    BY <1>1, <2>1 DEF ExecuteCreate, Index!Upsert, Put, Index!Put
  <2>3. NoRows \in {Part(b, i) : b \in Batches \cup {NoRows}, i \in SUBSET Chunks}
    BY EmptyPart
  <2>4. QED
    BY <2>2, <2>3 DEF Index!Next
<1>2. CASE manifest # None
  BY <1>2 DEF ExecuteCreate, Index!vars
<1>3. QED
  BY <1>1, <1>2

\* The items of a bulk request are an upsert or a delete of their own.
LEMMA BulkRefines ==
  ASSUME IInv, NEW c \in Call, c.op \in {"upsert", "delete"}, manifest = c.manifest,
         NEW ids \in SUBSET Chunks, ExecuteBulk(c, ids), UNCHANGED answer
  PROVE  [Index!Next]_(Index!vars)
<1>0. c.manifest \in Manifests
  BY CallFields
<1>1. CASE c.op = "upsert"
  <2>1. Index!Upsert(c.manifest, Part(c.batch, ids))
    BY <1>1 DEF ExecuteBulk, Index!Upsert, Put, Index!Put
  <2>2. QED
    BY <1>0, <2>1, PartsAreBatches DEF Index!Next
<1>2. CASE c.op = "delete"
  <2>1. Index!Delete(c.manifest, ids)
    BY <1>2 DEF ExecuteBulk, Index!Delete, Drop, Index!Drop
  <2>2. QED
    BY <1>0, <2>1 DEF Index!Next
<1>3. QED
  BY <1>1, <1>2

\* Every step is a step of the promised index or changes nothing of it.
LEMMA StepRefines ==
  ASSUME IInv, NEW k \in Clients, Step(k)
  PROVE  [Index!Next]_(Index!vars)
<1>1. CASE Start(k)
  <2>1. Index!Forget(k)
    BY <1>1 DEF Start, stored, Index!Forget
  <2>2. QED
    BY <2>1 DEF Index!Next
<1>2. CASE Query(k)
  <2>1. call[k].manifest \in Manifests
    BY <1>2, InsideCall DEF Query
  <2>2. Index!Search(k, call[k].manifest)
    BY <1>2 DEF Query, stored, Index!Search, IInv, CallsInPlace
  <2>3. QED
    BY <2>1, <2>2 DEF Index!Next
<1>3. CASE Create(k)
  <2>1. call[k].manifest \in Manifests
    BY <1>3, InsideCall DEF Create
  <2>2. UNCHANGED answer /\ (ExecuteCreate(call[k].manifest) \/ UNCHANGED stored)
    BY <1>3 DEF Create
  <2>3. QED
    BY <2>1, <2>2, CreateRefines DEF stored, Index!vars
<1>4. CASE Bulk(k)
  <2>1. /\ call[k] \in Call /\ Batch(k) \subseteq SUBSET todo[k] /\ todo[k] \in SUBSET Chunks
        /\ call[k].op \in {"upsert", "delete"} /\ manifest = call[k].manifest
    BY <1>4, InsideCall DEF Bulk, IInv, CallsInPlace, BulkMeetsItsManifest
  <2>2. PICK done \in SUBSET Chunks : ExecuteBulk(call[k], done) /\ UNCHANGED answer
    BY <1>4, <2>1 DEF Bulk
  <2>3. QED
    BY <2>1, <2>2, BulkRefines
<1>5. CASE ExecuteLate(k)
  <2>1. /\ late[k] \in Requests /\ late[k].call \in Call
        /\ late[k].call.manifest \in Manifests
    BY <1>5, CallFields DEF ExecuteLate, IInv, TypeOK, Requests
  <2>2. UNCHANGED answer
    BY <1>5 DEF ExecuteLate
  <2>3. CASE ExecuteCreate(late[k].call.manifest)
    BY <2>1, <2>2, <2>3, CreateRefines
  <2>4. CASE late[k].op = "bulk" /\ \E done \in SUBSET late[k].ids :
               ExecuteBulk(late[k].call, done)
    <3>1. late[k].call.op \in {"upsert", "delete"} /\ manifest = late[k].call.manifest
      BY <1>5, <2>4 DEF ExecuteLate, IInv, CallsInPlace, BulkMeetsItsManifest
    <3>2. PICK done \in SUBSET Chunks : ExecuteBulk(late[k].call, done)
      BY <2>1, <2>4 DEF Requests
    <3>3. QED
      BY <2>1, <2>2, <3>1, <3>2, BulkRefines
  <2>5. CASE UNCHANGED stored
    BY <2>2, <2>5 DEF stored, Index!vars
  <2>6. QED
    BY <1>5, <2>3, <2>4, <2>5 DEF ExecuteLate
<1>6. CASE Exists(k) \/ Recheck(k) \/ ReadMapping(k) \/ Retry(k) \/ GiveUp(k)
  BY <1>6 DEF Exists, Recheck, ReadMapping, Retry, GiveUp, stored, Index!vars
<1>7. QED
  BY <1>1, <1>2, <1>3, <1>4, <1>5, <1>6 DEF Step

\* OpenSearchVectorStore implements the index of the VectorStore port, with
\* upserts and deletes that take effect in parts.
THEOREM Refinement == Spec => ImplementsManifestIndex
<1>1. Init => Index!Init
  BY DEF Init, NoRows, Index!Init, Index!NoRows
<1>2. IInv /\ [Next]_vars => [Index!Next]_(Index!vars)
  <2>1. UNCHANGED vars => UNCHANGED Index!vars
    BY DEF vars, Index!vars
  <2>2. QED
    BY <2>1, StepRefines DEF Next
<1>3. QED
  BY <1>1, <1>2, Invariance, PTL DEF Spec, Index!Spec, ImplementsManifestIndex

-----------------------------------------------------------------------------

\* An upsert or a delete that reports success has had every item confirmed.
THEOREM WholeSuccess == Spec => SuccessIsWhole
<1> DEFINE Whole(k) ==
      /\ call[k] # None /\ result'[k] = "ok"
      /\ call[k].op \in {"upsert", "delete"}
      => IdsOf(call[k].batch) \cup call[k].ids \subseteq applied'[k]
<1>1. ASSUME IInv, Next, NEW k \in Clients, call[k] # None, result'[k] = "ok",
             call[k].op \in {"upsert", "delete"}
      PROVE  IdsOf(call[k].batch) \cup call[k].ids \subseteq applied'[k]
  <2>1. /\ pc[k] # "idle" /\ result[k] = "none"
        /\ IdsOf(call[k].batch) \cup call[k].ids \subseteq todo[k] \cup applied[k]
    BY <1>1 DEF IInv, CallsInPlace, NothingIsLost
  <2>2. PICK j \in Clients : Step(j)
    BY <1>1 DEF Next
  <2>3. j = k /\ (ReadMapping(k) \/ Bulk(k))
    BY <1>1, <2>1, <2>2
    DEF Step, Start, Exists, Create, Recheck, Query, Retry, GiveUp, ExecuteLate, ReadMapping,
        Bulk, Goto, End, progress, IInv, TypeOK, CallsInPlace
  <2>4. CASE ReadMapping(k)
    BY <1>1, <2>1, <2>4 DEF ReadMapping, Goto, End, IInv, TypeOK
  <2>5. CASE Bulk(k)
    BY <1>1, <2>1, <2>5 DEF Bulk, Succeeds, IInv, TypeOK
  <2>6. QED
    BY <2>3, <2>4, <2>5
<1>2. ASSUME IInv, UNCHANGED vars, NEW k \in Clients
      PROVE  Whole(k)
  BY <1>2 DEF vars, progress, IInv, CallsInPlace
<1>3. IInv /\ [Next]_vars => [\A k \in Clients : Whole(k)]_vars
  BY <1>1, <1>2
<1>4. QED
  BY <1>3, Invariance, PTL DEF Spec, SuccessIsWhole

\* No document of another manifest is ever stored or given to a search,
\* repeated and late requests included.
THEOREM NoForeignRows == Spec => [](Index!RowsUnderManifest /\ Index!AnswersUnderManifest)
<1>1. Index!Spec => Promise!Spec
  <2>1. Index!Init => Promise!Init
    BY DEF Index!Init, Promise!Init, Index!NoRows, Promise!NoRows
  <2>2. [Index!Next]_(Index!vars) => [Promise!Next]_(Promise!vars)
    BY DEF Index!Next, Index!Upsert, Index!Delete, Index!Search, Index!Forget, Index!vars,
           Index!Put, Index!Drop, Promise!Next, Promise!Upsert, Promise!Delete, Promise!Search,
           Promise!Forget, Promise!vars, Promise!Put, Promise!Drop
  <2>3. QED
    BY <2>1, <2>2, PTL DEF Index!Spec, Promise!Spec
<1>2. Promise!RowsUnderManifest /\ Promise!AnswersUnderManifest
        => Index!RowsUnderManifest /\ Index!AnswersUnderManifest
  BY DEF Index!RowsUnderManifest, Promise!RowsUnderManifest, Index!AnswersUnderManifest,
         Promise!AnswersUnderManifest, Index!AllUnder, Promise!AllUnder
<1>3. Promise!BatchesAreMaps /\ Promise!IdSetsAreChunks
  <2>1. \A b \in Batches \cup {NoRows} : b \in [Chunks -> Contents \cup {None}]
    BY BatchesAreMaps DEF NoRows
  <2>2. QED
    BY <2>1 DEF Part
<1>4. Promise!NoneIsNoValue
  <2>1. None \notin Clients \cup Manifests \cup Contents \cup Promise!Row \cup Promise!Answer
    BY NoneIsNoValue DEF Row, Rows, Answer, Promise!Row, Promise!Rows, Promise!Answer
  <2>2. None \notin Promise!Call
    BY NoneIsNoPart DEF Index!Call, Index!NoRows, Promise!Call, Promise!NoRows
  <2>3. QED
    BY <2>1, <2>2
<1>5. QED
  BY <1>1, <1>2, <1>3, <1>4, Refinement, Promise!ManifestBound, PTL DEF ImplementsManifestIndex

-----------------------------------------------------------------------------
(* PineconeStore *)

\* The chunk IDs that a call is about.
Named(c) == Pinecone!IdsOf(c.batch) \cup c.ids

Phases == {"idle", "fetch", "query", "send"}

PineconeTypes ==
  /\ sentinel \in Manifests \cup {None}
  /\ records \in Pinecone!Rows /\ seen \in Pinecone!Rows
  /\ unsettled \in [Clients -> [call : Pinecone!Call, ids : SUBSET Chunks] \cup {None}]
  /\ pcall \in [Clients -> Pinecone!Call \cup {None}]
  /\ place \in [Clients -> Phases]
  /\ queue \in [Clients -> Seq(Chunks)]
  /\ sent \in [Clients -> SUBSET Chunks]
  /\ confirmed \in [Clients -> SUBSET Chunks]
  /\ outcome \in [Clients -> Pinecone!Results]

UpsertsInPlace ==
  \A k \in Clients :
    /\ place[k] = "idle" <=> pcall[k] = None
    /\ place[k] # "idle" => outcome[k] = "none"
    /\ place[k] # "send" => confirmed[k] = {} /\ sent[k] = {}
    /\ place[k] = "query" => pcall[k].op = "search"

\* A request nobody waits for was checked against the sentinel as well.
LateIsBound == \A k \in Clients : unsettled[k] # None => unsettled[k].call.manifest = sentinel

PineconeInv ==
  /\ PineconeTypes
  /\ UpsertsInPlace
  /\ LateIsBound
  /\ NamespaceUnderSentinel
  /\ OneBatchInDoubt

-----------------------------------------------------------------------------

\* The fields of a call of PineconeStore.
LEMMA PineconeCallFields ==
  ASSUME NEW c \in Pinecone!Call
  PROVE  /\ c.op \in {"preflight", "search", "upsert", "delete"}
         /\ c.manifest \in Manifests
         /\ c.batch \in [Chunks -> Contents \cup {None}]
         /\ Named(c) \in SUBSET Chunks /\ IsFiniteSet(Named(c))
         /\ c.op = "search" => Named(c) = {}
         /\ c # None
<1>1. /\ c.op \in {"preflight", "search", "upsert", "delete"}
      /\ c.manifest \in Manifests
      /\ c.batch \in Batches \cup {Pinecone!NoRows}
      /\ c.ids \in IdSets \cup {{}}
      /\ c.op = "search" => c.batch = Pinecone!NoRows /\ c.ids = {}
      /\ c # None
  BY NoneIsNoValue DEF Pinecone!Call, Pinecone!NoRows, Call, NoRows
<1>2. /\ c.batch \in [Chunks -> Contents \cup {None}]
      /\ c.ids \in SUBSET Chunks
      /\ Pinecone!IdsOf(Pinecone!NoRows) = {}
  BY <1>1, BatchesAreMaps, IdSetsAreChunks DEF Pinecone!NoRows, Pinecone!IdsOf
<1>3. IsFiniteSet(Pinecone!IdsOf(c.batch)) /\ IsFiniteSet(c.ids)
  BY <1>1, <1>2, RequestsAreFinite, FS_EmptySet DEF IdsOf, Pinecone!IdsOf
<1>4. IsFiniteSet(Named(c))
  BY <1>3, FS_Union DEF Named
<1>5. QED
  BY <1>1, <1>2, <1>4 DEF Named, Pinecone!IdsOf

\* An order of a finite set names each element of it.
LEMMA OrderNamesAll ==
  ASSUME NEW S, IsFiniteSet(S), NEW order \in Pinecone!SetToSeqs(S)
  PROVE  order \in Seq(S) /\ Pinecone!ToSet(order) = S
<1> DEFINE n == Cardinality(S)
<1>1. n \in Nat
  BY FS_CardinalityType
<1>0. Pinecone!Cardinality(S) = n
  BY DEF Pinecone!Cardinality, Cardinality
<1>2. order \in [1..n -> S] /\ \A i, j \in 1..n : i # j => order[i] # order[j]
  BY <1>0 DEF Pinecone!SetToSeqs
<1>3. order \in Injection(1..n, S)
  BY <1>2 DEF Injection, IsInjective
<1>4. Cardinality(1..n) = n
  BY <1>1, FS_Interval
<1>5. order \in Surjection(1..n, S)
  BY <1>3, <1>4, FS_Injection
<1>6. \A t \in S : \E i \in 1..n : order[i] = t
  BY <1>5 DEF Surjection
<1> HIDE DEF n
<1>7. order \in Seq(S) /\ DOMAIN order = 1..n
  BY <1>1, <1>2
<1>8. QED
  BY <1>2, <1>6, <1>7 DEF Pinecone!ToSet

\* A batch and the rest are what there was to send.
LEMMA BatchAndRest ==
  ASSUME NEW s \in Seq(Chunks)
  PROVE  /\ Pinecone!Batch(s) \in SUBSET Chunks
         /\ Pinecone!Rest(s) \in Seq(Chunks)
         /\ Pinecone!ToSet(s) = Pinecone!Batch(s) \cup Pinecone!ToSet(Pinecone!Rest(s))
         /\ Pinecone!Rest(s) = <<>> => Pinecone!ToSet(s) = Pinecone!Batch(s)
<1> DEFINE n == Len(s)
<1>1. n \in Nat /\ DOMAIN s = 1..n /\ BatchSize \in Nat /\ BatchSize > 0
  BY BatchSizeIsPositive
<1>2. \A i \in 1..n : s[i] \in Chunks
  OBVIOUS
<1>3. Pinecone!Batch(s) \in SUBSET Chunks
  BY <1>1, <1>2 DEF Pinecone!Batch
<1>4. CASE BatchSize < n
  <2>1. /\ Pinecone!Rest(s) \in Seq(Chunks)
        /\ Len(Pinecone!Rest(s)) = n - BatchSize
        /\ \A i \in 1..(n - BatchSize) : Pinecone!Rest(s)[i] = s[BatchSize + i]
    <3>1. /\ BatchSize + 1 \in Int /\ n \in Int /\ BatchSize + 1 =< n
          /\ n - (BatchSize + 1) + 1 = n - BatchSize
          /\ \A i \in BatchSize + 1..n : s[i] \in Chunks
          /\ \A i \in 1..(n - BatchSize) : (BatchSize + 1) + i - 1 = BatchSize + i
      BY <1>1, <1>2, <1>4
    <3> HIDE DEF n
    <3>2. /\ SubSeq(s, BatchSize + 1, n) \in Seq(Chunks)
          /\ Len(SubSeq(s, BatchSize + 1, n)) = n - (BatchSize + 1) + 1
          /\ \A i \in 1..(n - (BatchSize + 1) + 1) :
               SubSeq(s, BatchSize + 1, n)[i] = s[(BatchSize + 1) + i - 1]
      BY <3>1, SubSeqProperties
    <3>3. Pinecone!Rest(s) = SubSeq(s, BatchSize + 1, n)
      BY DEF Pinecone!Rest, n
    <3>4. QED
      BY <3>1, <3>2, <3>3
  <2>2. DOMAIN Pinecone!Rest(s) = 1..(n - BatchSize)
    BY <2>1
  <2>3. Pinecone!Batch(s) = {s[i] : i \in 1..BatchSize}
    BY <1>1, <1>4 DEF Pinecone!Batch
  <2>4. Pinecone!ToSet(Pinecone!Rest(s)) = {s[i] : i \in (BatchSize + 1)..n}
    <3>1. ASSUME NEW x \in Pinecone!ToSet(Pinecone!Rest(s))
          PROVE  x \in {s[i] : i \in (BatchSize + 1)..n}
      <4>1. PICK i \in 1..(n - BatchSize) : x = Pinecone!Rest(s)[i]
        BY <2>2 DEF Pinecone!ToSet
      <4>2. x = s[BatchSize + i] /\ BatchSize + i \in (BatchSize + 1)..n
        BY <1>1, <2>1, <4>1
      <4>3. QED
        BY <4>2
    <3>2. ASSUME NEW i \in (BatchSize + 1)..n PROVE s[i] \in Pinecone!ToSet(Pinecone!Rest(s))
      <4>1. i - BatchSize \in 1..(n - BatchSize) /\ BatchSize + (i - BatchSize) = i
        BY <1>1
      <4>2. Pinecone!Rest(s)[i - BatchSize] = s[i]
        BY <2>1, <4>1
      <4>3. QED
        BY <2>2, <4>1, <4>2 DEF Pinecone!ToSet
    <3>3. QED
      BY <3>1, <3>2
  <2>5. 1..n = (1..BatchSize) \cup ((BatchSize + 1)..n)
    BY <1>1, <1>4
  <2>6. Pinecone!Rest(s) # <<>>
    BY <1>1, <1>4, <2>1
  <2>7. QED
    BY <1>1, <1>3, <2>1, <2>3, <2>4, <2>5, <2>6 DEF Pinecone!ToSet
<1>5. CASE ~(BatchSize < n)
  <2>1. Pinecone!Rest(s) = <<>>
    BY <1>1, <1>5 DEF Pinecone!Rest
  <2>2. 1..BatchSize \cap DOMAIN s = DOMAIN s
    BY <1>1, <1>5
  <2>3. Pinecone!Batch(s) = Pinecone!ToSet(s) /\ Pinecone!ToSet(<<>>) = {}
    BY <2>2 DEF Pinecone!Batch, Pinecone!ToSet
  <2>4. QED
    BY <1>3, <2>1, <2>3
<1>6. QED
  BY <1>4, <1>5

\* A request that is carried out, even in part, keeps the namespace in order.
LEMMA Executed ==
  ASSUME PineconeTypes, Pinecone!AllUnder(records, sentinel),
         NEW c \in Pinecone!Call, c.manifest = sentinel,
         NEW ids \in SUBSET Chunks, Pinecone!Execute(c, ids)
  PROVE  records' \in Pinecone!Rows /\ Pinecone!AllUnder(records', sentinel)
<1>0. c.manifest \in Manifests /\ c.batch \in [Chunks -> Contents \cup {None}]
  BY PineconeCallFields
<1>1. CASE c.op = "upsert"
  BY <1>0, <1>1
  DEF PineconeTypes, Pinecone!Execute, Pinecone!Put, Pinecone!Rows, Pinecone!Row,
      Pinecone!AllUnder
<1>2. CASE c.op # "upsert"
  BY <1>2 DEF PineconeTypes, Pinecone!Execute, Pinecone!Drop, Pinecone!Rows, Pinecone!AllUnder
<1>3. QED
  BY <1>1, <1>2

\* A namespace without a sentinel is empty, and nobody is about to use it.
LEMMA Unprovisioned ==
  ASSUME PineconeInv, sentinel = None
  PROVE  /\ records = Pinecone!NoRows /\ seen = Pinecone!NoRows
         /\ \A k \in Clients : unsettled[k] = None /\ place[k] \notin {"send", "query"}
<1>1. \A c \in Chunks : records[c] = None /\ seen[c] = None
  BY NoneIsNoValue
  DEF PineconeInv, PineconeTypes, Pinecone!Rows, Pinecone!Row, NamespaceUnderSentinel,
      Pinecone!NamespaceUnderSentinel, Pinecone!AllUnder
<1>2. records = Pinecone!NoRows /\ seen = Pinecone!NoRows
  BY <1>1 DEF PineconeInv, PineconeTypes, Pinecone!Rows, Pinecone!NoRows
<1>3. ASSUME NEW k \in Clients, unsettled[k] # None PROVE FALSE
  <2>1. unsettled[k].call \in Pinecone!Call /\ unsettled[k].call.manifest = None
    BY <1>3 DEF PineconeInv, PineconeTypes, LateIsBound
  <2>2. QED
    BY <2>1, PineconeCallFields, NoneIsNoValue
<1>4. ASSUME NEW k \in Clients, place[k] \in {"send", "query"} PROVE FALSE
  <2>1. pcall[k] \in Pinecone!Call /\ pcall[k].manifest = None
    BY <1>4
    DEF PineconeInv, PineconeTypes, UpsertsInPlace, NamespaceUnderSentinel,
        Pinecone!NamespaceUnderSentinel
  <2>2. QED
    BY <2>1, PineconeCallFields, NoneIsNoValue
<1>5. QED
  BY <1>2, <1>3, <1>4

-----------------------------------------------------------------------------

\* What a call has still to send when it has nothing to send.
LEMMA EmptyList ==
  <<>> \in Seq(Chunks) /\ Pinecone!ToSet(<<>>) = {} /\ Pinecone!Batch(<<>>) = {}
  BY DEF Pinecone!ToSet, Pinecone!Batch

\* A call that ends leaves nothing of itself, but perhaps a late request.
LEMMA Ending ==
  ASSUME PineconeInv, NEW k \in Clients, NEW how \in Pinecone!Results, Pinecone!End(k, how),
         UNCHANGED <<sentinel, seen>>,
         records' \in Pinecone!Rows, Pinecone!AllUnder(records', sentinel),
         \/ UNCHANGED unsettled
         \/ \E ids \in SUBSET Chunks :
              /\ pcall[k] \in Pinecone!Call /\ pcall[k].manifest = sentinel
              /\ unsettled' = [unsettled EXCEPT ![k] = [call |-> pcall[k], ids |-> ids]]
  PROVE  PineconeInv'
<1> USE DEF PineconeInv, Pinecone!End
<1>1. PineconeTypes'
  <2>1. unsettled' \in [Clients -> [call : Pinecone!Call, ids : SUBSET Chunks] \cup {None}]
    BY DEF PineconeTypes
  <2>2. QED
    BY <2>1, EmptyList DEF PineconeTypes, Phases
<1>2. UpsertsInPlace'
  BY DEF PineconeTypes, UpsertsInPlace
<1>3. LateIsBound'
  BY DEF PineconeTypes, LateIsBound
<1>4. NamespaceUnderSentinel'
  BY
  DEF PineconeTypes, NamespaceUnderSentinel, Pinecone!NamespaceUnderSentinel, Pinecone!AllUnder
<1>5. OneBatchInDoubt'
  BY EmptyList DEF PineconeTypes, OneBatchInDoubt, Pinecone!OneBatchInDoubt
<1>6. QED
  BY <1>1, <1>2, <1>3, <1>4, <1>5

\* Whatever a client does, a request that times out included, keeps the invariant.
LEMMA PineconeClientInvariant ==
  ASSUME PineconeInv, NEW k \in Clients,
         \/ Pinecone!Start(k) \/ Pinecone!Fetch(k) \/ Pinecone!Query(k)
         \/ Pinecone!Send(k) \/ Pinecone!Retry(k) \/ Pinecone!SendFails(k)
         \/ Pinecone!ReadFails(k) \/ Pinecone!Crash(k)
  PROVE  PineconeInv'
<1> USE DEF PineconeInv, Pinecone!namespace
<1>0. /\ place[k] # "idle" => pcall[k] \in Pinecone!Call /\ pcall[k].manifest \in Manifests
      /\ place[k] \in {"send", "query"} => pcall[k].manifest = sentinel
      /\ queue[k] \in Seq(Chunks)
      /\ records \in Pinecone!Rows /\ Pinecone!AllUnder(records, sentinel)
      /\ Pinecone!Batch(queue[k]) \in SUBSET Chunks
  BY PineconeCallFields, BatchAndRest
  DEF PineconeTypes, UpsertsInPlace, NamespaceUnderSentinel, Pinecone!NamespaceUnderSentinel
<1>1. CASE Pinecone!Start(k)
  <2>a. PICK c \in Pinecone!Call :
          /\ pcall' = [pcall EXCEPT ![k] = c]
          /\ \E order \in Pinecone!SetToSeqs(Named(c)) : queue' = [queue EXCEPT ![k] = order]
    BY <1>1 DEF Pinecone!Start, Named
  <2>1. PICK order \in Pinecone!SetToSeqs(Named(c)) :
          /\ pcall' = [pcall EXCEPT ![k] = c]
          /\ queue' = [queue EXCEPT ![k] = order]
    BY <2>a
  <2>2. /\ order \in Seq(Named(c)) /\ Pinecone!ToSet(order) = Named(c)
        /\ Named(c) \in SUBSET Chunks
        /\ c # None
    BY PineconeCallFields, OrderNamesAll
  <2>3. order \in Seq(Chunks)
    BY <2>2
  <2>4. /\ place[k] = "idle" /\ place' = [place EXCEPT ![k] = "fetch"]
        /\ outcome' = [outcome EXCEPT ![k] = "none"]
        /\ UNCHANGED <<sentinel, records, seen, unsettled, sent, confirmed>>
    BY <1>1 DEF Pinecone!Start
  <2>5. PineconeTypes'
    BY <2>1, <2>3, <2>4 DEF PineconeTypes, Phases, Pinecone!Results
  <2>6. UpsertsInPlace'
    BY <2>1, <2>2, <2>4 DEF PineconeTypes, UpsertsInPlace
  <2>7. LateIsBound' /\ NamespaceUnderSentinel'
    BY <2>1, <2>4
    DEF PineconeTypes, LateIsBound, NamespaceUnderSentinel, Pinecone!NamespaceUnderSentinel,
        Pinecone!AllUnder
  <2>8. OneBatchInDoubt'
    <3>1. ASSUME NEW j \in Clients
          PROVE  /\ sent'[j] \ confirmed'[j] \subseteq Pinecone!Batch(queue'[j])
                 /\ confirmed'[j] \cup Pinecone!ToSet(queue'[j]) =
                      IF place'[j] \in {"fetch", "send"}
                        THEN Pinecone!IdsOf(pcall'[j].batch) \cup pcall'[j].ids ELSE {}
      <4>1. CASE j = k
        <5>1. /\ pcall'[k] = c /\ queue'[k] = order /\ place'[k] = "fetch"
              /\ confirmed'[k] = {} /\ sent'[k] = {}
          BY <2>1, <2>4 DEF PineconeTypes, UpsertsInPlace
        <5>2. QED
          BY <2>2, <4>1, <5>1 DEF Named
      <4>2. CASE j # k
        <5>1. /\ pcall'[j] = pcall[j] /\ queue'[j] = queue[j] /\ place'[j] = place[j]
              /\ confirmed'[j] = confirmed[j] /\ sent'[j] = sent[j]
          BY <2>1, <2>4, <4>2 DEF PineconeTypes
        <5>2. QED
          BY <5>1 DEF OneBatchInDoubt, Pinecone!OneBatchInDoubt
      <4>3. QED
        BY <4>1, <4>2
    <3>2. QED
      BY <3>1 DEF OneBatchInDoubt, Pinecone!OneBatchInDoubt
  <2>9. QED
    BY <2>5, <2>6, <2>7, <2>8
<1>2. CASE Pinecone!Fetch(k)
  <2>0. /\ place[k] = "fetch" /\ UNCHANGED <<sentinel, records, seen, unsettled>>
        /\ confirmed[k] = {} /\ sent[k] = {} /\ pcall[k] # None /\ outcome[k] = "none"
    BY <1>2 DEF Pinecone!Fetch, UpsertsInPlace
  <2>1. CASE \E how \in {"incompatible", "ok"} : Pinecone!End(k, how)
    BY <1>0, <2>0, <2>1, Ending DEF Pinecone!Results
  <2>2. CASE /\ Pinecone!Compatible(k) /\ pcall[k].op = "search"
             /\ Pinecone!Goto(k, "query", <<>>, {})
    <3>1. /\ place' = [place EXCEPT ![k] = "query"] /\ queue' = [queue EXCEPT ![k] = <<>>]
          /\ UNCHANGED <<sent, confirmed, pcall, outcome>>
      BY <2>2 DEF Pinecone!Goto, PineconeTypes
    <3>2. PineconeTypes'
      BY <2>0, <3>1, EmptyList DEF PineconeTypes, Phases
    <3>3. UpsertsInPlace' /\ LateIsBound' /\ NamespaceUnderSentinel'
      BY <2>0, <2>2, <3>1
      DEF PineconeTypes, UpsertsInPlace, LateIsBound, NamespaceUnderSentinel,
          Pinecone!NamespaceUnderSentinel, Pinecone!AllUnder, Pinecone!Compatible
    <3>4. OneBatchInDoubt'
      BY <2>0, <3>1, EmptyList DEF PineconeTypes, OneBatchInDoubt, Pinecone!OneBatchInDoubt
    <3>5. QED
      BY <3>2, <3>3, <3>4
  <2>3. CASE Pinecone!Compatible(k) /\ Pinecone!Goto(k, "send", queue[k], {})
    <3>1. /\ place' = [place EXCEPT ![k] = "send"]
          /\ UNCHANGED <<queue, sent, confirmed, pcall, outcome>>
      BY <2>3 DEF Pinecone!Goto, PineconeTypes
    <3>2. PineconeTypes'
      BY <2>0, <3>1 DEF PineconeTypes, Phases
    <3>3. UpsertsInPlace' /\ LateIsBound' /\ NamespaceUnderSentinel'
      BY <2>0, <2>3, <3>1
      DEF PineconeTypes, UpsertsInPlace, LateIsBound, NamespaceUnderSentinel,
          Pinecone!NamespaceUnderSentinel, Pinecone!AllUnder, Pinecone!Compatible
    <3>4. OneBatchInDoubt'
      BY <2>0, <3>1 DEF PineconeTypes, OneBatchInDoubt, Pinecone!OneBatchInDoubt
    <3>5. QED
      BY <3>2, <3>3, <3>4
  <2>4. QED
    BY <1>2, <2>1, <2>2, <2>3 DEF Pinecone!Fetch
<1>3. CASE Pinecone!Query(k) \/ Pinecone!ReadFails(k) \/ Pinecone!Crash(k)
  BY <1>0, <1>3, Ending DEF Pinecone!Query, Pinecone!ReadFails, Pinecone!Crash, Pinecone!Results
<1>4. CASE Pinecone!Send(k)
  <2>0. /\ place[k] = "send" /\ UNCHANGED <<sentinel, seen, unsettled>>
        /\ pcall[k] \in Pinecone!Call /\ pcall[k].manifest = sentinel
    BY <1>0, <1>4 DEF Pinecone!Send
  <2>1. records' \in Pinecone!Rows /\ Pinecone!AllUnder(records', sentinel)
    BY <1>0, <1>4, <2>0, Executed
    DEF Pinecone!Send, NamespaceUnderSentinel, Pinecone!NamespaceUnderSentinel
  <2>2. CASE Pinecone!End(k, "ok")
    BY <2>0, <2>1, <2>2, Ending DEF Pinecone!Results
  <2>3. CASE Pinecone!Goto(k, "send", Pinecone!Rest(queue[k]), Pinecone!Batch(queue[k]))
    <3> DEFINE batch == Pinecone!Batch(queue[k])
               rest  == Pinecone!Rest(queue[k])
    <3>1. /\ batch \in SUBSET Chunks /\ rest \in Seq(Chunks)
          /\ Pinecone!ToSet(queue[k]) = batch \cup Pinecone!ToSet(rest)
      BY <1>0, BatchAndRest
    <3>2. /\ place' = [place EXCEPT ![k] = "send"] /\ queue' = [queue EXCEPT ![k] = rest]
          /\ sent' = [sent EXCEPT ![k] = @ \cup batch]
          /\ confirmed' = [confirmed EXCEPT ![k] = @ \cup batch]
          /\ UNCHANGED <<pcall, outcome>>
      BY <2>3 DEF Pinecone!Goto
    <3> HIDE DEF batch, rest
    <3>3. PineconeTypes'
      BY <2>0, <2>1, <3>1, <3>2 DEF PineconeTypes, Phases
    <3>4. UpsertsInPlace' /\ LateIsBound' /\ NamespaceUnderSentinel'
      BY <2>0, <2>1, <3>2
      DEF PineconeTypes, UpsertsInPlace, LateIsBound, NamespaceUnderSentinel,
          Pinecone!NamespaceUnderSentinel, Pinecone!AllUnder
    <3>5. OneBatchInDoubt'
      <4>1. ASSUME NEW j \in Clients
            PROVE  /\ sent'[j] \ confirmed'[j] \subseteq Pinecone!Batch(queue'[j])
                   /\ confirmed'[j] \cup Pinecone!ToSet(queue'[j]) =
                        IF place'[j] \in {"fetch", "send"}
                          THEN Pinecone!IdsOf(pcall'[j].batch) \cup pcall'[j].ids ELSE {}
        <5>1. CASE j = k
          <6>1. /\ pcall'[k] = pcall[k] /\ queue'[k] = rest /\ place'[k] = "send"
                /\ confirmed'[k] = confirmed[k] \cup batch /\ sent'[k] = sent[k] \cup batch
            BY <3>2 DEF PineconeTypes
          <6>2. /\ sent[k] \ confirmed[k] \subseteq batch
                /\ confirmed[k] \cup Pinecone!ToSet(queue[k]) =
                     Pinecone!IdsOf(pcall[k].batch) \cup pcall[k].ids
            BY <2>0 DEF OneBatchInDoubt, Pinecone!OneBatchInDoubt, batch
          <6>3. QED
            BY <3>1, <5>1, <6>1, <6>2
        <5>2. CASE j # k
          <6>1. /\ pcall'[j] = pcall[j] /\ queue'[j] = queue[j] /\ place'[j] = place[j]
                /\ confirmed'[j] = confirmed[j] /\ sent'[j] = sent[j]
            BY <3>2, <5>2 DEF PineconeTypes
          <6>2. QED
            BY <6>1 DEF OneBatchInDoubt, Pinecone!OneBatchInDoubt
        <5>3. QED
          BY <5>1, <5>2
      <4>2. QED
        BY <4>1 DEF OneBatchInDoubt, Pinecone!OneBatchInDoubt
    <3>6. QED
      BY <3>3, <3>4, <3>5
  <2>4. QED
    BY <1>4, <2>2, <2>3 DEF Pinecone!Send
<1>5. CASE Pinecone!Retry(k)
  <2>0. /\ place[k] = "send" /\ pcall[k] \in Pinecone!Call /\ pcall[k].manifest = sentinel
        /\ unsettled' = [unsettled EXCEPT ![k] =
                           [call |-> pcall[k], ids |-> Pinecone!Batch(queue[k])]]
        /\ sent' = [sent EXCEPT ![k] = @ \cup Pinecone!Batch(queue[k])]
        /\ UNCHANGED <<sentinel, records, seen, pcall, place, queue, confirmed, outcome>>
    BY <1>0, <1>5 DEF Pinecone!Retry
  <2>1. PineconeTypes'
    BY <1>0, <2>0 DEF PineconeTypes
  <2>2. UpsertsInPlace' /\ LateIsBound' /\ NamespaceUnderSentinel'
    BY <2>0
    DEF PineconeTypes, UpsertsInPlace, LateIsBound, NamespaceUnderSentinel,
        Pinecone!NamespaceUnderSentinel, Pinecone!AllUnder
  <2>3. OneBatchInDoubt'
    BY <2>0 DEF PineconeTypes, OneBatchInDoubt, Pinecone!OneBatchInDoubt
  <2>4. QED
    BY <2>1, <2>2, <2>3
<1>6. CASE Pinecone!SendFails(k)
  <2>0. /\ place[k] = "send" /\ UNCHANGED <<sentinel, seen>> /\ Pinecone!End(k, "provider_error")
        /\ pcall[k] \in Pinecone!Call /\ pcall[k].manifest = sentinel
    BY <1>0, <1>6 DEF Pinecone!SendFails
  <2>1. CASE \E ids \in SUBSET Pinecone!Batch(queue[k]) :
               Pinecone!Execute(pcall[k], ids) /\ UNCHANGED unsettled
    <3>1. PICK ids \in SUBSET Chunks : Pinecone!Execute(pcall[k], ids) /\ UNCHANGED unsettled
      BY <1>0, <2>1
    <3>2. records' \in Pinecone!Rows /\ Pinecone!AllUnder(records', sentinel)
      BY <1>0, <2>0, <3>1, Executed
    <3>3. QED
      BY <2>0, <3>1, <3>2, Ending DEF Pinecone!Results
  <2>2. CASE /\ unsettled' = [unsettled EXCEPT ![k] =
                                [call |-> pcall[k], ids |-> Pinecone!Batch(queue[k])]]
             /\ UNCHANGED records
    BY <1>0, <2>0, <2>2, Ending DEF Pinecone!Results
  <2>3. QED
    BY <1>6, <2>1, <2>2 DEF Pinecone!SendFails
<1>7. QED
  BY <1>1, <1>2, <1>3, <1>4, <1>5, <1>6

\* So does what happens to the namespace by itself.
LEMMA NamespaceInvariant ==
  ASSUME PineconeInv,
         \/ Pinecone!Provision
         \/ \E c \in Chunks : Pinecone!Settle(c)
         \/ \E k \in Clients : Pinecone!ExecuteLate(k)
  PROVE  PineconeInv'
<1> USE DEF PineconeInv, Pinecone!progress
<1>1. CASE Pinecone!Provision
  <2>1. /\ sentinel' \in Manifests /\ UNCHANGED <<records, seen, unsettled, Pinecone!progress>>
        /\ records = Pinecone!NoRows /\ seen = Pinecone!NoRows
        /\ \A k \in Clients : unsettled[k] = None /\ place[k] \notin {"send", "query"}
    BY <1>1, Unprovisioned DEF Pinecone!Provision
  <2>2. QED
    BY <2>1
    DEF PineconeTypes, UpsertsInPlace, LateIsBound, NamespaceUnderSentinel,
        Pinecone!NamespaceUnderSentinel, OneBatchInDoubt, Pinecone!OneBatchInDoubt,
        Pinecone!AllUnder, Pinecone!NoRows
<1>2. ASSUME NEW c \in Chunks, Pinecone!Settle(c) PROVE PineconeInv'
  <2>1. /\ seen' = [seen EXCEPT ![c] = records[c]]
        /\ UNCHANGED <<sentinel, records, unsettled, Pinecone!progress>>
    BY <1>2 DEF Pinecone!Settle
  <2>2. seen' \in Pinecone!Rows /\ Pinecone!AllUnder(seen', sentinel)
    BY <2>1
    DEF PineconeTypes, NamespaceUnderSentinel, Pinecone!NamespaceUnderSentinel,
        Pinecone!AllUnder, Pinecone!Rows
  <2>3. QED
    BY <2>1, <2>2
    DEF PineconeTypes, UpsertsInPlace, LateIsBound, NamespaceUnderSentinel,
        Pinecone!NamespaceUnderSentinel, OneBatchInDoubt, Pinecone!OneBatchInDoubt
<1>3. ASSUME NEW k \in Clients, Pinecone!ExecuteLate(k) PROVE PineconeInv'
  <2>1. /\ unsettled[k].call \in Pinecone!Call /\ unsettled[k].ids \in SUBSET Chunks
        /\ unsettled[k].call.manifest = sentinel
        /\ unsettled' = [unsettled EXCEPT ![k] = None]
        /\ UNCHANGED <<sentinel, seen, Pinecone!progress>>
    BY <1>3 DEF Pinecone!ExecuteLate, PineconeTypes, LateIsBound
  <2>2. PICK ids \in SUBSET Chunks : Pinecone!Execute(unsettled[k].call, ids)
    BY <1>3, <2>1 DEF Pinecone!ExecuteLate
  <2>3. records' \in Pinecone!Rows /\ Pinecone!AllUnder(records', sentinel)
    BY <2>1, <2>2, Executed DEF NamespaceUnderSentinel, Pinecone!NamespaceUnderSentinel
  <2>4. QED
    BY <2>1, <2>3
    DEF PineconeTypes, UpsertsInPlace, LateIsBound, NamespaceUnderSentinel,
        Pinecone!NamespaceUnderSentinel, OneBatchInDoubt, Pinecone!OneBatchInDoubt
<1>4. QED
  BY <1>1, <1>2, <1>3

\* The inductive invariant of PineconeStore.
THEOREM PineconeInvariance == Pinecone!Spec => []PineconeInv
<1>1. Pinecone!Init => PineconeInv
  BY NoneIsNoValue, EmptyList
  DEF Pinecone!Init, PineconeInv, PineconeTypes, UpsertsInPlace, LateIsBound,
      NamespaceUnderSentinel, Pinecone!NamespaceUnderSentinel, OneBatchInDoubt,
      Pinecone!OneBatchInDoubt,
      Pinecone!AllUnder, Pinecone!NoRows, Pinecone!Rows, Phases, Pinecone!Results
<1>2. PineconeInv /\ [Pinecone!Next]_(Pinecone!vars) => PineconeInv'
  <2>1. CASE Pinecone!Next
    BY <2>1, PineconeClientInvariant, NamespaceInvariant DEF Pinecone!Next
  <2>2. CASE UNCHANGED Pinecone!vars
    BY <2>2
    DEF Pinecone!vars, Pinecone!namespace, Pinecone!progress, PineconeInv, PineconeTypes,
        UpsertsInPlace, LateIsBound,
        NamespaceUnderSentinel, Pinecone!NamespaceUnderSentinel, OneBatchInDoubt,
        Pinecone!OneBatchInDoubt
  <2>3. QED
    BY <2>1, <2>2
<1>3. QED
  BY <1>1, <1>2, PTL DEF Pinecone!Spec

\* The namespace holds, and queries see, records of the sentinel's manifest only, and
\* a call that fails leaves one batch in doubt.
THEOREM NamespaceSafety == Pinecone!Spec => [](NamespaceUnderSentinel /\ OneBatchInDoubt)
  BY PineconeInvariance, PTL DEF PineconeInv

\* No upsert or delete reports success before its last batch is confirmed.
THEOREM SuccessConfirmsAll == Pinecone!Spec => EveryBatchConfirmed
<1> DEFINE Confirmed(k) ==
      /\ pcall[k] # None /\ outcome'[k] = "ok"
      /\ pcall[k].op \in {"upsert", "delete"}
      => Pinecone!IdsOf(pcall[k].batch) \cup pcall[k].ids
           \subseteq confirmed[k] \cup Pinecone!Batch(queue[k])
<1>1. ASSUME PineconeInv, Pinecone!Next, NEW k \in Clients, pcall[k] # None, outcome'[k] = "ok",
             pcall[k].op \in {"upsert", "delete"}
      PROVE  Pinecone!IdsOf(pcall[k].batch) \cup pcall[k].ids
               \subseteq confirmed[k] \cup Pinecone!Batch(queue[k])
  <2>1. place[k] # "idle" /\ outcome[k] = "none" /\ queue[k] \in Seq(Chunks)
    BY <1>1 DEF PineconeInv, UpsertsInPlace, PineconeTypes
  <2>2. Pinecone!Fetch(k) \/ Pinecone!Send(k)
    <3>1. outcome' # outcome
      BY <1>1, <2>1
    <3>2. PICK j \in Clients :
            \/ Pinecone!Start(j) \/ Pinecone!Fetch(j) \/ Pinecone!Query(j) \/ Pinecone!Send(j)
            \/ Pinecone!SendFails(j) \/ Pinecone!ReadFails(j) \/ Pinecone!Crash(j)
      BY <1>1, <3>1
      DEF Pinecone!Next, Pinecone!Provision, Pinecone!Settle, Pinecone!Retry,
          Pinecone!ExecuteLate, Pinecone!progress
    <3>3. j = k
      BY <1>1, <2>1, <3>2
      DEF Pinecone!Start, Pinecone!Fetch, Pinecone!Query, Pinecone!Send, Pinecone!SendFails,
          Pinecone!ReadFails, Pinecone!Crash, Pinecone!Goto, Pinecone!End, PineconeInv,
          PineconeTypes
    <3>4. QED
      BY <1>1, <2>1, <3>2, <3>3
      DEF Pinecone!Start, Pinecone!Query, Pinecone!SendFails, Pinecone!ReadFails,
          Pinecone!Crash, Pinecone!End, PineconeInv, PineconeTypes, UpsertsInPlace
  <2>3. CASE Pinecone!Fetch(k)
    <3>1. queue[k] = <<>> /\ place[k] = "fetch"
      BY <1>1, <2>1, <2>3
      DEF Pinecone!Fetch, Pinecone!Goto, Pinecone!End, PineconeInv, PineconeTypes
    <3>2. confirmed[k] \cup Pinecone!ToSet(<<>>) =
            Pinecone!IdsOf(pcall[k].batch) \cup pcall[k].ids
      BY <1>1, <3>1 DEF PineconeInv, OneBatchInDoubt, Pinecone!OneBatchInDoubt
    <3>3. QED
      BY <3>2, EmptyList
  <2>4. CASE Pinecone!Send(k)
    <3>1. Pinecone!Rest(queue[k]) = <<>> /\ place[k] = "send"
      BY <1>1, <2>1, <2>4 DEF Pinecone!Send, Pinecone!Goto
    <3>2. Pinecone!ToSet(queue[k]) = Pinecone!Batch(queue[k])
      BY <2>1, <3>1, BatchAndRest
    <3>3. QED
      BY <1>1, <3>1, <3>2 DEF PineconeInv, OneBatchInDoubt, Pinecone!OneBatchInDoubt
  <2>5. QED
    BY <2>2, <2>3, <2>4
<1>2. PineconeInv /\ [Pinecone!Next]_(Pinecone!vars)
        => [\A k \in Clients : Confirmed(k)]_(Pinecone!vars)
  BY <1>1
<1>3. QED
  BY <1>2, PineconeInvariance, PTL
  DEF Pinecone!Spec, EveryBatchConfirmed, Pinecone!EveryBatchConfirmed

-----------------------------------------------------------------------------
(* The store a composition selects *)

\* The store that was not selected stays as it is, so a composition behaves
\* as each of the two stores may.
LEMMA EachStoreBehaves == StoresSpec => Spec /\ Pinecone!Spec
<1>1. Select => Init /\ Pinecone!Init
  BY DEF Select
<1>2. [Use]_stores => [Next]_vars /\ [Pinecone!Next]_(Pinecone!vars)
  BY DEF Use, stores, opensearch, pinecone, vars, Pinecone!vars, Pinecone!namespace,
         Pinecone!progress
<1>3. QED
  BY <1>1, <1>2, PTL DEF StoresSpec, Spec, Pinecone!Spec

\* What the checks before each request and after each answer are for, in
\* whichever store was selected.
THEOREM StoresSafety ==
  StoresSpec => /\ [](BulkMeetsItsManifest /\ NamespaceUnderSentinel /\ OneBatchInDoubt)
                /\ SuccessIsWhole /\ EveryBatchConfirmed
                /\ ImplementsManifestIndex
<1>1. Spec => []BulkMeetsItsManifest
  BY BulkSafety, PTL
<1>2. QED
  BY <1>1, EachStoreBehaves, NamespaceSafety, WholeSuccess, SuccessConfirmsAll, Refinement, PTL

=============================================================================
