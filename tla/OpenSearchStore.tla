--------------------------- MODULE OpenSearchStore ---------------------------
(***************************************************************************)
(* OpenSearchVectorStore: one remote index, without transactions.  The     *)
(* manifest is in the mapping the index is created with.  Several clients  *)
(* may create it at once; the losers go on if it exists by then, and every *)
(* client reads the mapping before it sends documents.  Documents travel   *)
(* in bulk requests of at most BatchSize items, any of which may fail.     *)
(* The client library repeats a request that timed out, so the server may  *)
(* execute a request twice, or after its client has given up.              *)
(***************************************************************************)
EXTENDS IndexData, Naturals, FiniteSets

CONSTANT BatchSize  \* batch_size

ASSUME BatchSizeIsPositive == BatchSize \in Nat \ {0}

VARIABLES
  manifest,  \* the manifest in the mapping of the index, None if it is absent
  rows,      \* the documents a search finds (refresh="wait_for")
  late,      \* the request a client no longer waits for
  call,      \* the call each client is making, None between calls
  pc,        \* where in the call it is
  todo,      \* the chunk IDs it has still to send
  applied,   \* the chunk IDs the server has confirmed to it in this call
  result,    \* how its last call ended
  answer     \* what its last search returned

progress == <<call, pc, todo, applied, result>>
vars == <<manifest, rows, late, progress, answer>>
stored == <<manifest, rows>>

Places == {"idle", "exists", "create", "recheck", "mapping", "bulk", "query"}

\* A request to create the index, or a bulk request for some of a call's IDs.
Request(op, c, ids) == [op |-> op, call |-> c, ids |-> ids]
Requests == [op : {"create", "bulk"}, call : Call, ids : SUBSET Chunks]

ASSUME NoneIsNoRequest == None \notin Requests

\* Whatever requests the server executes, in time or late, it holds whole
\* documents.
TypeOK ==
  /\ manifest \in Manifests \cup {None}
  /\ rows \in Rows
  /\ late \in [Clients -> Requests \cup {None}]
  /\ call \in [Clients -> Call \cup {None}]
  /\ pc \in [Clients -> Places]
  /\ todo \in [Clients -> SUBSET Chunks]
  /\ applied \in [Clients -> SUBSET Chunks]
  /\ result \in [Clients -> Results]
  /\ answer \in [Clients -> Answer \cup {None}]

Init ==
  /\ manifest = None
  /\ rows = NoRows
  /\ late = [k \in Clients |-> None]
  /\ call = [k \in Clients |-> None]
  /\ pc = [k \in Clients |-> "idle"]
  /\ todo = [k \in Clients |-> {}]
  /\ applied = [k \in Clients |-> {}]
  /\ result = [k \in Clients |-> "none"]
  /\ answer = [k \in Clients |-> None]

-----------------------------------------------------------------------------
(* The server *)

\* The part of a batch that concerns the given IDs.
Part(batch, ids) == [c \in Chunks |-> IF c \in ids THEN batch[c] ELSE None]

\* Creation is atomic and happens once; a bulk request is executed item by
\* item, and those in ids succeed.
ExecuteCreate(m) ==
  /\ manifest' = IF manifest = None THEN m ELSE manifest
  /\ UNCHANGED rows

ExecuteBulk(c, ids) ==
  /\ rows' = IF c.op = "upsert" THEN Put(rows, c.manifest, Part(c.batch, ids))
                                ELSE Drop(rows, ids)
  /\ UNCHANGED manifest

-----------------------------------------------------------------------------
(* The client *)

Start(k) ==
  /\ pc[k] = "idle"
  /\ \E c \in Call :
       /\ call' = [call EXCEPT ![k] = c]
       /\ todo' = [todo EXCEPT ![k] = IdsOf(c.batch) \cup c.ids]
  /\ pc' = [pc EXCEPT ![k] = "exists"]
  /\ applied' = [applied EXCEPT ![k] = {}]
  /\ result' = [result EXCEPT ![k] = "none"]
  /\ answer' = [answer EXCEPT ![k] = None]
  /\ UNCHANGED <<stored, late>>

Goto(k, place) ==
  /\ pc' = [pc EXCEPT ![k] = place]
  /\ UNCHANGED <<call, todo, applied, result>>

End(k, how) ==
  /\ pc' = [pc EXCEPT ![k] = "idle"]
  /\ call' = [call EXCEPT ![k] = None]
  /\ result' = [result EXCEPT ![k] = how]
  /\ UNCHANGED <<todo, applied>>

\* An absent index is compatible, is created by an upsert, and is an error to
\* a search or a delete.
Exists(k) ==
  /\ pc[k] = "exists"
  /\ \/ manifest # None /\ Goto(k, "mapping")
     \/ /\ manifest = None
        /\ \/ call[k].op = "preflight" /\ End(k, "ok")
           \/ call[k].op = "upsert" /\ Goto(k, "create")
           \/ call[k].op \in {"search", "delete"} /\ End(k, "incompatible")
  /\ UNCHANGED <<stored, late, answer>>

\* indices.create returns, or raises: the index may exist by then, created by
\* another client or by this very request.
Create(k) ==
  /\ pc[k] = "create"
  /\ \/ manifest = None /\ ExecuteCreate(call[k].manifest) /\ Goto(k, "mapping")
     \/ ExecuteCreate(call[k].manifest) /\ Goto(k, "recheck")
     \/ UNCHANGED stored /\ Goto(k, "recheck")
  /\ UNCHANGED <<late, answer>>

\* Mutant: a client that has lost the race takes the index for its own.
RecheckOnly(k) ==
  /\ pc[k] = "recheck"
  /\ \/ manifest # None /\ Goto(k, "bulk")
     \/ manifest = None /\ End(k, "provider_error")
  /\ UNCHANGED <<stored, late, answer>>

Recheck(k) ==
  /\ pc[k] = "recheck"
  /\ \/ manifest # None /\ Goto(k, "mapping")
     \/ manifest = None /\ End(k, "provider_error")
  /\ UNCHANGED <<stored, late, answer>>

\* get_mapping, and the comparison of the manifest in its _meta.
ReadMapping(k) ==
  /\ pc[k] = "mapping"
  /\ \/ manifest # call[k].manifest /\ End(k, "incompatible")
     \/ /\ manifest = call[k].manifest
        /\ \/ call[k].op = "search" /\ Goto(k, "query")
           \/ call[k].op # "search" /\ todo[k] = {} /\ End(k, "ok")
           \/ call[k].op # "search" /\ todo[k] # {} /\ Goto(k, "bulk")
  /\ UNCHANGED <<stored, late, answer>>

Query(k) ==
  /\ pc[k] = "query"
  /\ answer' = [answer EXCEPT ![k] = [expected |-> call[k].manifest, found |-> rows]]
  /\ End(k, "ok")
  /\ UNCHANGED <<stored, late>>

\* The IDs of a bulk request: a full batch, or all that are left.  Which of
\* them the request of the call names first is left open.
Batch(k) ==
  {ids \in SUBSET todo[k] : \/ ids = todo[k] /\ Cardinality(ids) <= BatchSize
                            \/ Cardinality(ids) = BatchSize}

\* Mutant: the items of the response are not inspected.
SucceedsAnyway(sent, done) == TRUE

\* _require_bulk_success: every item has succeeded (or was not there to delete).
Succeeds(sent, done) == done = sent

\* One bulk request, of which the server executes the items `done`.
Bulk(k) ==
  /\ pc[k] = "bulk"
  /\ \E sent \in Batch(k) : \E done \in SUBSET sent :
       /\ ExecuteBulk(call[k], done)
       /\ applied' = [applied EXCEPT ![k] = applied[k] \cup done]
       /\ IF Succeeds(sent, done)
            THEN /\ todo' = [todo EXCEPT ![k] = todo[k] \ sent]
                 /\ IF todo[k] = sent
                      THEN /\ pc' = [pc EXCEPT ![k] = "idle"]
                           /\ call' = [call EXCEPT ![k] = None]
                           /\ result' = [result EXCEPT ![k] = "ok"]
                      ELSE UNCHANGED <<pc, call, result>>
            ELSE /\ pc' = [pc EXCEPT ![k] = "idle"]
                 /\ call' = [call EXCEPT ![k] = None]
                 /\ result' = [result EXCEPT ![k] = "provider_error"]
                 /\ UNCHANGED todo
  /\ UNCHANGED <<late, answer>>

-----------------------------------------------------------------------------
(* Failures *)

\* The requests the client may be waiting for the answer of.
Outgoing(k) ==
  CASE pc[k] = "create" -> {Request("create", call[k], {})}
    [] pc[k] = "bulk"   -> {Request("bulk", call[k], ids) : ids \in Batch(k)}
    [] OTHER            -> {}

\* retry_on_timeout: the request times out, may yet be executed, and is sent
\* again.  A bulk request of which searches find a part before it is answered
\* is one of these, executed in part, and then sent again.  Bound: one request per client is abandoned at a time.
Retry(k) ==
  /\ late[k] = None
  /\ \E r \in Outgoing(k) : late' = [late EXCEPT ![k] = r]
  /\ UNCHANGED <<stored, progress, answer>>

\* The client gives up on its request, or stops, or the call to the backend
\* raises; a create that raises is rechecked instead.
GiveUp(k) ==
  /\ pc[k] # "idle"
  /\ \/ End(k, "crashed")
     \/ pc[k] # "create" /\ End(k, "provider_error")
  /\ \/ UNCHANGED late
     \/ late[k] = None /\ \E r \in Outgoing(k) : late' = [late EXCEPT ![k] = r]
  /\ UNCHANGED <<stored, answer>>

\* The server executes a request nobody waits for, or some of its items, or
\* it never arrives.
ExecuteLate(k) ==
  /\ late[k] # None
  /\ \/ late[k].op = "create" /\ ExecuteCreate(late[k].call.manifest)
     \/ /\ late[k].op = "bulk"
        /\ \E done \in SUBSET late[k].ids : ExecuteBulk(late[k].call, done)
     \/ UNCHANGED stored
  /\ late' = [late EXCEPT ![k] = None]
  /\ UNCHANGED <<progress, answer>>

-----------------------------------------------------------------------------

Step(k) ==
  \/ Start(k) \/ Exists(k) \/ Create(k) \/ Recheck(k) \/ ReadMapping(k) \/ Query(k)
  \/ Bulk(k) \/ Retry(k) \/ GiveUp(k) \/ ExecuteLate(k)

Next == \E k \in Clients : Step(k)

Spec == Init /\ [][Next]_vars

-----------------------------------------------------------------------------
(* Properties *)

\* No bulk request, in time, repeated or late, meets an index of another
\* manifest, nor an absent one, which OpenSearch would create without any.
BulkMeetsItsManifest ==
  \A k \in Clients :
    /\ pc[k] = "bulk" => manifest = call[k].manifest
    /\ late[k] # None /\ late[k].op = "bulk" => manifest = late[k].call.manifest

\* An upsert or a delete that reports success has had every item confirmed,
\* across all its bulk requests.
SuccessIsWhole ==
  [][\A k \in Clients :
       /\ call[k] # None /\ result'[k] = "ok"
       /\ call[k].op \in {"upsert", "delete"}
       => IdsOf(call[k].batch) \cup call[k].ids \subseteq applied'[k]]_vars

\* The store implements the index the port promises, except that an upsert or
\* a delete takes effect in parts: creation binds the index without any row,
\* and each bulk request carries out some items.
Index ==
  INSTANCE ManifestIndex
    WITH Batches <- {Part(b, ids) : b \in Batches \cup {NoRows}, ids \in SUBSET Chunks},
         IdSets  <- SUBSET Chunks
ImplementsManifestIndex == Index!Spec

=============================================================================
