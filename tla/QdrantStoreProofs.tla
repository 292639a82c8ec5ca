-------------------------- MODULE QdrantStoreProofs --------------------------
(***************************************************************************)
(* QdrantStore implements ManifestIndex without locks or transactions, for *)
(* any number of clients and manifests.  Two facts carry the argument: the *)
(* collection is created once, so there is at most one initialisation in   *)
(* the world; and a sentinel never changes once it is there, so a client   *)
(* that has read its own manifest may act on it at any later time.         *)
(***************************************************************************)
EXTENDS QdrantStore, TLAPS

\* What every implementation of the abstract index inherits from it.
Promise == INSTANCE ManifestIndexProofs WITH manifest <- sentinel

\* Which calls are in progress where.
CallsInPlace ==
  \A k \in Clients :
    /\ pc[k] # "idle" => call[k] # None
    /\ pc[k] \in {"create", "initialise"} => call[k].op = "upsert"
    /\ pc[k] = "write" => call[k].op \in {"upsert", "delete"}
    /\ pc[k] = "query" => call[k].op = "search"

\* A request that is to be sent, or was given up on, fits what the server
\* holds: a write follows a sentinel that was read, an initialisation finds
\* the bare collection its client created.
Fits(r) ==
  /\ r.op = "write" => sentinel = r.manifest
  /\ r.op = "initialise" => /\ sentinel = None
                            /\ collection = Dimension[r.manifest]
                            /\ r.ids = {}
                            /\ r.batch \in Batches

\* A write is a whole upsert or a whole delete.
WholeWrite(r) ==
  r.op = "write" => \/ r.batch \in Batches /\ r.ids = {}
                    \/ r.batch = NoRows /\ r.ids \in IdSets

RequestsFit ==
  \A k \in Clients :
    /\ pc[k] \in Mutations => Fits(Outgoing(k)) /\ WholeWrite(Outgoing(k))
    /\ pc[k] = "query" => sentinel = call[k].manifest
    /\ late[k] # None => Fits(late[k]) /\ WholeWrite(late[k])

IInv ==
  /\ TypeOK
  /\ SentinelBeforePoints
  /\ OneInitialiser
  /\ CallsInPlace
  /\ RequestsFit

-----------------------------------------------------------------------------

\* The fields of a call, by its operation.
LEMMA CallFields ==
  ASSUME NEW c \in Call
  PROVE  /\ c.op \in {"preflight", "search", "upsert", "delete"}
         /\ c.manifest \in Manifests
         /\ c.batch \in Batches \cup {NoRows}
         /\ c.ids \in IdSets \cup {{}}
         /\ c.op = "upsert" => c.batch \in Batches /\ c.ids = {}
         /\ c.op = "delete" => c.batch = NoRows /\ c.ids \in IdSets
         /\ c # None
  BY NoneIsNoValue DEF Call

\* The request of a client in a call, and its fields.
LEMMA RequestOfCall ==
  ASSUME NEW op \in Mutations, NEW c \in Call
  PROVE  /\ Request(op, c) \in Requests
         /\ Request(op, c) # None
         /\ Request(op, c).op = op
         /\ Request(op, c).manifest = c.manifest
         /\ Request(op, c).batch = c.batch
         /\ Request(op, c).ids = c.ids
  BY CallFields, NoneIsNoRequest DEF Request, Requests

\* A vector size is not the absence of a collection.
LEMMA SizeIsNotNone ==
  ASSUME NEW m \in Manifests
  PROVE  Dimension[m] \in Nat /\ Dimension[m] # None
  BY DimensionsArePositive, NoneIsNoNumber

\* Upserted and deleted rows are rows, under the manifest of the request.
LEMMA RowsAfterWrite ==
  ASSUME NEW rs \in Rows, NEW r \in Requests
  PROVE  Drop(Put(rs, r.manifest, r.batch), r.ids) \in Rows
<1>1. r.batch \in [Chunks -> Contents \cup {None}] /\ r.manifest \in Manifests
  BY BatchesAreMaps DEF Requests, NoRows
<1>2. QED
  BY <1>1 DEF Put, Drop, Rows, Row

\* What the server's execution of a fitting request does to its state.
LEMMA Execution ==
  ASSUME IInv, NEW r \in Requests, Accepts(r), Fits(r), Execute(r)
  PROVE  /\ collection' \in Nat \cup {None}
         /\ sentinel' \in Manifests \cup {None}
         /\ rows' \in Rows
         /\ SentinelBeforePoints'
         /\ sentinel # None => sentinel' = sentinel /\ collection' = collection
         /\ collection # None => collection' = collection
         /\ r.op # "initialise" => sentinel' = sentinel
<1>1. r.manifest \in Manifests /\ r.op \in Mutations
  BY DEF Requests
<1>2. CASE r.op = "create"
  BY <1>1, <1>2, SizeIsNotNone
  DEF IInv, TypeOK, SentinelBeforePoints, Accepts, Execute
<1>3. CASE r.op = "initialise"
  BY <1>1, <1>3, SizeIsNotNone, RowsAfterWrite, NoneIsNoValue
  DEF IInv, TypeOK, SentinelBeforePoints, Accepts, Execute, Fits
<1>4. CASE r.op = "write"
  BY <1>1, <1>4, SizeIsNotNone, RowsAfterWrite, NoneIsNoValue
  DEF IInv, TypeOK, SentinelBeforePoints, Accepts, Execute, Fits
<1>5. QED
  BY <1>1, <1>2, <1>3, <1>4 DEF Mutations

\* No execution disturbs another request that is in play: a write finds its
\* sentinel unchanged, and there is no second initialisation to disturb.
LEMMA OthersStillFit ==
  ASSUME IInv, NEW r \in Requests, Accepts(r), Fits(r), Execute(r),
         NEW q \in Requests, Fits(q),
         ~(r.op = "initialise" /\ q.op = "initialise")
  PROVE  /\ q.op = "write" => sentinel' = q.manifest
         /\ q.op = "initialise" => /\ sentinel' = None
                                   /\ collection' = Dimension[q.manifest]
                                   /\ q.ids = {}
                                   /\ q.batch \in Batches
<1>1. r.manifest \in Manifests /\ q.manifest \in Manifests /\ r.op \in Mutations
  BY DEF Requests
<1>2. CASE q.op = "write"
  BY <1>1, <1>2, Execution, NoneIsNoValue DEF Fits
<1>3. CASE q.op = "initialise"
  BY <1>1, <1>3, Execution, SizeIsNotNone DEF Fits
<1>4. QED
  BY <1>2, <1>3

\* A step of client k that changes nothing on the server, and leaves it at a
\* place where its request, if it has one, fits.
LEMMA ServerUntouched ==
  ASSUME IInv, NEW k \in Clients, TypeOK', CallsInPlace',
         UNCHANGED <<collection, sentinel, rows>>,
         \A j \in Clients \ {k} :
           pc'[j] = pc[j] /\ call'[j] = call[j] /\ late'[j] = late[j],
         pc'[k] # "initialise",
         pc'[k] = "write" => /\ sentinel = call'[k].manifest
                             /\ WholeWrite(Request("write", call'[k])),
         pc'[k] = "query" => sentinel = call'[k].manifest,
         late'[k] \in {None, late[k]}
           \/ /\ late[k] = None /\ pc[k] \in Mutations /\ pc'[k] = "idle"
              /\ late'[k] = Outgoing(k)
  PROVE  IInv'
<1>1. SentinelBeforePoints'
  BY DEF IInv, SentinelBeforePoints
<1>2. pc[k] \in Mutations => Outgoing(k).op = pc[k]
  BY DEF Outgoing, Request
<1>3. OneInitialiser'
  BY <1>2
  DEF IInv, OneInitialiser, Initialising, LateInitialisation, Mutations
<1>4. RequestsFit'
  <2>1. ASSUME NEW j \in Clients, j # k
        PROVE  /\ pc'[j] \in Mutations => Fits(Outgoing(j))' /\ WholeWrite(Outgoing(j))'
               /\ pc'[j] = "query" => sentinel' = call'[j].manifest
               /\ late'[j] # None => Fits(late[j])' /\ WholeWrite(late[j])'
    BY <2>1 DEF IInv, RequestsFit, Fits, WholeWrite, Outgoing, Request
  <2>2. pc'[k] \in Mutations => Fits(Outgoing(k))' /\ WholeWrite(Outgoing(k))'
    BY DEF Fits, WholeWrite, Outgoing, Request, Mutations
  <2>3. late'[k] # None => Fits(late[k])' /\ WholeWrite(late[k])'
    BY DEF IInv, RequestsFit, Fits, WholeWrite, Outgoing, Request
  <2>4. QED
    BY <2>1, <2>2, <2>3 DEF RequestsFit
<1>5. QED
  BY <1>1, <1>3, <1>4 DEF IInv

\* The client's call and request while it is inside a call.
LEMMA InsideCall ==
  ASSUME IInv, NEW k \in Clients, pc[k] # "idle"
  PROVE  /\ call[k] \in Call
         /\ pc[k] \in Mutations => /\ Outgoing(k) \in Requests
                                   /\ Outgoing(k) # None
                                   /\ Fits(Outgoing(k))
                                   /\ Outgoing(k).op = pc[k]
<1>1. call[k] \in Call
  BY DEF IInv, TypeOK, CallsInPlace
<1>2. QED
  BY <1>1, RequestOfCall DEF IInv, RequestsFit, Outgoing

\* Every step of a client or of its requests keeps the invariant.
LEMMA StepInvariant ==
  ASSUME IInv, NEW k \in Clients, Step(k)
  PROVE  IInv'
<1> USE DEF IInv, stored, Goto, End
<1>1. CASE Start(k)
  <2>1. TypeOK' /\ CallsInPlace'
    BY <1>1, CallFields DEF Start, TypeOK, Places, Mutations, Results, CallsInPlace
  <2>2. QED
    BY <1>1, <2>1, ServerUntouched DEF Start, TypeOK
<1>2. CASE Describe(k)
  <2>1. TypeOK' /\ CallsInPlace'
    BY <1>2 DEF Describe, TypeOK, Places, Mutations, Results, CallsInPlace
  <2>2. QED
    BY <1>2, <2>1, ServerUntouched DEF Describe, TypeOK
<1>3. CASE CheckSentinel(k)
  <2>0. call[k] \in Call /\ call[k].manifest \in Manifests
    BY <1>3, InsideCall, CallFields DEF CheckSentinel
  <2>1. TypeOK'
    BY <1>3 DEF CheckSentinel, TypeOK, Places, Mutations, Results
  <2>2. CallsInPlace'
    <3>1. pc'[k] = "write" => call[k].op \in {"upsert", "delete"}
      BY <1>3, <2>0, CallFields
      DEF CheckSentinel, TypeOK, Call, NothingToSend, IdsOf, NoRows
    <3>2. QED
      BY <1>3, <3>1 DEF CheckSentinel, TypeOK, CallsInPlace
  <2>3. pc'[k] = "write" => WholeWrite(Request("write", call'[k]))
    BY <1>3, <2>0, <2>2, CallFields
    DEF CheckSentinel, TypeOK, CallsInPlace, WholeWrite, Request
  <2>4. QED
    BY <1>3, <2>1, <2>2, <2>3, ServerUntouched DEF CheckSentinel, TypeOK
<1>4. CASE Query(k)
  <2>0. call[k] \in Call /\ call[k].manifest \in Manifests
    BY <1>4, InsideCall, CallFields DEF Query
  <2>1. TypeOK' /\ CallsInPlace'
    BY <1>4, <2>0 DEF Query, TypeOK, Places, Mutations, Results, CallsInPlace, Answer
  <2>2. QED
    BY <1>4, <2>1, ServerUntouched DEF Query, TypeOK
<1>5. CASE Send(k)
  <2>0. /\ Outgoing(k) \in Requests /\ Fits(Outgoing(k)) /\ Outgoing(k).op = pc[k]
        /\ call[k] \in Call /\ Outgoing(k).manifest = call[k].manifest
        /\ pc[k] \in Mutations
    BY <1>5, InsideCall, RequestOfCall DEF Send, Mutations, Outgoing
  <2> DEFINE r == Outgoing(k)
  <2>1. /\ collection' \in Nat \cup {None} /\ sentinel' \in Manifests \cup {None}
        /\ rows' \in Rows /\ SentinelBeforePoints'
        /\ sentinel # None => sentinel' = sentinel /\ collection' = collection
        /\ collection # None => collection' = collection
        /\ r.op # "initialise" => sentinel' = sentinel
    BY <1>5, <2>0, Execution DEF Send
  <2>2. TypeOK' /\ CallsInPlace'
    BY <1>5, <2>1 DEF Send, TypeOK, CallsInPlace, Places, Mutations, Results
  <2>3. pc[k] = "create" =>
          /\ collection = None /\ sentinel = None /\ sentinel' = None
          /\ collection' = Dimension[call[k].manifest]
          /\ call[k].ids = {} /\ call[k].batch \in Batches
    BY <1>5, <2>0, <2>1, SizeIsNotNone, CallFields
    DEF Send, Accepts, Execute, SentinelBeforePoints, TypeOK, CallsInPlace
  <2>4. OneInitialiser'
    <3>1. \A j \in Clients : Initialising(j) \/ LateInitialisation(j) =>
            collection # None
      BY SizeIsNotNone, InsideCall, RequestOfCall
      DEF RequestsFit, Fits, Initialising, LateInitialisation, Mutations, TypeOK, Requests
    <3>2. \A j \in Clients : Initialising(j)' => j = k \/ Initialising(j)
      BY <1>5 DEF Send, Initialising, TypeOK
    <3>3. \A j \in Clients : LateInitialisation(j)' <=> LateInitialisation(j)
      BY <1>5 DEF Send, LateInitialisation
    <3>4. pc[k] # "create" => ~Initialising(k)'
      BY <1>5 DEF Send, Initialising, TypeOK
    <3>5. QED
      BY <2>3, <3>1, <3>2, <3>3, <3>4 DEF OneInitialiser
  <2>5. RequestsFit'
    <3>1. ASSUME NEW j \in Clients, j # k
          PROVE  /\ pc'[j] \in Mutations => Fits(Outgoing(j))' /\ WholeWrite(Outgoing(j))'
                 /\ pc'[j] = "query" => sentinel' = call'[j].manifest
      <4>1. pc'[j] = pc[j] /\ call'[j] = call[j]
        BY <1>5, <3>1 DEF Send, TypeOK
      <4>2. CASE pc[j] \in Mutations
        <5>1. /\ Outgoing(j) \in Requests /\ Fits(Outgoing(j))
              /\ Outgoing(j).op = pc[j] /\ WholeWrite(Outgoing(j))
          BY <4>2, InsideCall DEF Mutations, RequestsFit
        <5>2. ~(r.op = "initialise" /\ Outgoing(j).op = "initialise")
          BY <2>0, <3>1, <5>1 DEF OneInitialiser, Initialising
        <5>3. QED
          BY <1>5, <2>0, <4>1, <4>2, <5>1, <5>2, OthersStillFit
          DEF Send, Fits, WholeWrite, Outgoing, Request, Mutations
      <4>3. CASE pc[j] = "query"
        BY <2>1, <4>1, <4>3, InsideCall, CallFields, NoneIsNoValue
        DEF RequestsFit, Mutations
      <4>4. QED
        BY <4>1, <4>2, <4>3
    <3>2. ASSUME NEW j \in Clients, late[j] # None
          PROVE  Fits(late[j])' /\ WholeWrite(late[j])'
      <4>1. late[j] \in Requests /\ Fits(late[j]) /\ WholeWrite(late[j]) /\ late' = late
        BY <1>5, <3>2 DEF Send, TypeOK, RequestsFit
      <4>2. ~(r.op = "initialise" /\ late[j].op = "initialise")
        BY <2>0, <3>2 DEF OneInitialiser, Initialising, LateInitialisation
      <4>3. QED
        BY <1>5, <2>0, <4>1, <4>2, OthersStillFit DEF Send, Fits, WholeWrite
    <3>3. pc'[k] \in Mutations => Fits(Outgoing(k))' /\ WholeWrite(Outgoing(k))'
      BY <1>5, <2>3 DEF Send, Fits, WholeWrite, Outgoing, Request, Mutations, TypeOK
    <3>4. pc'[k] # "query"
      BY <1>5 DEF Send, TypeOK
    <3>5. late' = late
      BY <1>5 DEF Send
    <3>6. QED
      BY <3>1, <3>2, <3>3, <3>4, <3>5 DEF RequestsFit
  <2>6. QED
    BY <2>1, <2>2, <2>4, <2>5
<1>6. CASE BackendFails(k)
  <2>1. TypeOK' /\ CallsInPlace'
    BY <1>6 DEF BackendFails, TypeOK, Places, Results, CallsInPlace
  <2>2. QED
    BY <1>6, <2>1, ServerUntouched DEF BackendFails, TypeOK
<1>7. CASE Crash(k)
  <2>1. TypeOK' /\ CallsInPlace'
    BY <1>7 DEF Crash, TypeOK, Places, Results, CallsInPlace
  <2>2. QED
    BY <1>7, <2>1, ServerUntouched DEF Crash, TypeOK
<1>8. CASE GiveUp(k)
  <2>0. Outgoing(k) \in Requests
    BY <1>8, InsideCall DEF GiveUp, Mutations
  <2>1. TypeOK' /\ CallsInPlace'
    BY <1>8, <2>0 DEF GiveUp, TypeOK, Places, Results, CallsInPlace
  <2>2. QED
    BY <1>8, <2>1, ServerUntouched DEF GiveUp, TypeOK
<1>9. CASE ExecuteLate(k)
  <2>0. /\ late[k] \in Requests /\ Fits(late[k]) /\ Accepts(late[k]) /\ Execute(late[k])
        /\ UNCHANGED <<call, pc, result, answer>>
        /\ late' = [late EXCEPT ![k] = None]
    BY <1>9 DEF ExecuteLate, TypeOK, RequestsFit
  <2> DEFINE r == late[k]
  <2>1. /\ collection' \in Nat \cup {None} /\ sentinel' \in Manifests \cup {None}
        /\ rows' \in Rows /\ SentinelBeforePoints'
        /\ sentinel # None => sentinel' = sentinel /\ collection' = collection
    BY <2>0, Execution
  <2>2. TypeOK' /\ CallsInPlace'
    BY <2>0, <2>1 DEF TypeOK, CallsInPlace
  <2>3. OneInitialiser'
    BY <2>0 DEF OneInitialiser, Initialising, LateInitialisation, TypeOK
  <2>4. RequestsFit'
    <3>1. ASSUME NEW j \in Clients, pc[j] \in Mutations
          PROVE  Fits(Outgoing(j))' /\ WholeWrite(Outgoing(j))'
      <4>1. /\ Outgoing(j) \in Requests /\ Fits(Outgoing(j))
            /\ Outgoing(j).op = pc[j] /\ WholeWrite(Outgoing(j))
        BY <3>1, InsideCall DEF Mutations, RequestsFit
      <4>2. ~(r.op = "initialise" /\ Outgoing(j).op = "initialise")
        BY <1>9, <4>1 DEF ExecuteLate, OneInitialiser, Initialising, LateInitialisation
      <4>3. QED
        BY <2>0, <4>1, <4>2, OthersStillFit DEF Fits, WholeWrite, Outgoing, Request
    <3>2. ASSUME NEW j \in Clients, pc[j] = "query"
          PROVE  sentinel' = call[j].manifest
      BY <2>1, <3>2, InsideCall, CallFields, NoneIsNoValue DEF RequestsFit, Mutations
    <3>3. ASSUME NEW j \in Clients, late'[j] # None
          PROVE  Fits(late[j])' /\ WholeWrite(late[j])'
      <4>1. /\ late[j] \in Requests /\ Fits(late[j]) /\ WholeWrite(late[j])
            /\ late'[j] = late[j] /\ j # k
        BY <2>0, <3>3 DEF TypeOK, RequestsFit
      <4>2. ~(r.op = "initialise" /\ late[j].op = "initialise")
        BY <1>9, <3>3, <4>1 DEF ExecuteLate, OneInitialiser, LateInitialisation
      <4>3. QED
        BY <2>0, <4>1, <4>2, OthersStillFit DEF Fits, WholeWrite
    <3>4. QED
      BY <2>0, <3>1, <3>2, <3>3 DEF RequestsFit
  <2>5. QED
    BY <2>1, <2>2, <2>3, <2>4
<1>10. CASE DropLate(k)
  <2>1. TypeOK' /\ CallsInPlace'
    BY <1>10 DEF DropLate, TypeOK, CallsInPlace
  <2>2. OneInitialiser' /\ SentinelBeforePoints'
    BY <1>10 DEF DropLate, OneInitialiser, Initialising, LateInitialisation, TypeOK,
                 SentinelBeforePoints
  <2>3. RequestsFit'
    BY <1>10 DEF DropLate, RequestsFit, Fits, WholeWrite, Outgoing, Request, TypeOK
  <2>4. QED
    BY <2>1, <2>2, <2>3
<1>11. QED
  BY <1>1, <1>2, <1>3, <1>4, <1>5, <1>6, <1>7, <1>8, <1>9, <1>10 DEF Step

\* A bare collection carries no request that depends on it.
LEMMA CleanupInvariant ==
  ASSUME IInv, OperatorCleanup
  PROVE  IInv'
<1>1. TypeOK' /\ SentinelBeforePoints' /\ OneInitialiser' /\ CallsInPlace'
  BY DEF IInv, OperatorCleanup, TypeOK, SentinelBeforePoints, OneInitialiser, Initialising,
         LateInitialisation, CallsInPlace
<1>2. RequestsFit'
  <2>1. ASSUME NEW j \in Clients
        PROVE  /\ pc[j] # "initialise"
               /\ late[j] # None => late[j].op # "initialise"
    BY DEF OperatorCleanup, SomeoneInitialises, Initialising, LateInitialisation
  <2>2. ASSUME NEW j \in Clients, pc[j] \in Mutations
        PROVE  Fits(Outgoing(j))' /\ WholeWrite(Outgoing(j))'
    BY <2>1, <2>2
    DEF IInv, RequestsFit, OperatorCleanup, Fits, WholeWrite, Outgoing, Request
  <2>3. ASSUME NEW j \in Clients, late[j] # None
        PROVE  Fits(late[j])' /\ WholeWrite(late[j])'
    BY <2>1, <2>3 DEF IInv, RequestsFit, OperatorCleanup, Fits, WholeWrite
  <2>4. QED
    BY <2>2, <2>3 DEF IInv, RequestsFit, OperatorCleanup
<1>3. QED
  BY <1>1, <1>2 DEF IInv

\* Stuttering keeps the invariant.
LEMMA StutterInvariant ==
  ASSUME IInv, UNCHANGED vars
  PROVE  IInv'
  BY DEF vars, IInv, TypeOK, SentinelBeforePoints, OneInitialiser, Initialising,
         LateInitialisation, CallsInPlace, RequestsFit, Fits, WholeWrite, Outgoing, Request

\* The invariant the other theorems rest on.
THEOREM Invariance == Spec => []IInv
<1>1. Init => IInv
  BY NoneIsNoValue
  DEF Init, IInv, TypeOK, SentinelBeforePoints, OneInitialiser, Initialising,
      LateInitialisation, CallsInPlace, RequestsFit, NoRows, Rows, Places, Mutations, Results
<1>2. IInv /\ [Next]_vars => IInv'
  BY StepInvariant, CleanupInvariant, StutterInvariant DEF Next
<1>3. QED
  BY <1>1, <1>2, PTL DEF Spec

\* Points never precede their sentinel, and at most one initialisation is under
\* way, for any number of clients, manifests and late requests.
THEOREM InitialisationSafety == Spec => [](TypeOK /\ SentinelBeforePoints /\ OneInitialiser)
  BY Invariance, PTL DEF IInv

-----------------------------------------------------------------------------
(* Refinement *)

\* An execution is a whole upsert, a whole delete, or invisible.
LEMMA ExecutionRefines ==
  ASSUME IInv, NEW r \in Requests, Accepts(r), Fits(r), WholeWrite(r), Execute(r),
         UNCHANGED answer
  PROVE  [Index!Next]_(Index!vars)
<1>1. r.op \in Mutations /\ r.manifest \in Manifests
  BY DEF Requests
<1>2. CASE r.op = "create"
  BY <1>2 DEF Execute, Index!vars
<1>3. CASE \/ r.op = "initialise"
           \/ r.op = "write" /\ r.batch \in Batches /\ r.ids = {}
  <2>1. /\ r.batch \in Batches /\ sentinel \in {None, r.manifest}
        /\ sentinel' = r.manifest
        /\ rows' = Drop(Put(rows, r.manifest, r.batch), {})
    BY <1>3 DEF Fits, Execute
  <2>2. rows' = Put(rows, r.manifest, r.batch)
    BY <2>1 DEF Drop, Put
  <2>3. Index!Upsert(r.manifest, r.batch)
    BY <2>1, <2>2 DEF Index!Upsert, Put, Index!Put
  <2>4. QED
    BY <1>1, <2>1, <2>3 DEF Index!Next
<1>4. CASE r.op = "write" /\ r.batch = NoRows /\ r.ids \in IdSets
  <2>1. Put(rows, r.manifest, NoRows) = rows
    BY DEF IInv, TypeOK, Rows, Put, NoRows
  <2>2. sentinel = r.manifest /\ sentinel' = sentinel /\ rows' = Drop(rows, r.ids)
    BY <1>4, <2>1 DEF Fits, Execute
  <2>3. Index!Delete(r.manifest, r.ids)
    BY <2>2 DEF Index!Delete, Drop, Index!Drop
  <2>4. QED
    BY <1>1, <1>4, <2>3 DEF Index!Next
<1>5. QED
  BY <1>1, <1>2, <1>3, <1>4 DEF WholeWrite, Mutations

\* Every step is a step of the promised index or changes nothing of it.
LEMMA StepRefines ==
  ASSUME IInv, NEW k \in Clients, Step(k)
  PROVE  [Index!Next]_(Index!vars)
<1>1. CASE Start(k)
  BY <1>1 DEF Start, stored, Index!Next, Index!Forget
<1>2. CASE Query(k)
  <2>1. call[k].manifest \in Manifests
    BY <1>2, InsideCall, CallFields DEF Query
  <2>2. Index!Search(k, call[k].manifest)
    BY <1>2 DEF Query, stored, Index!Search, IInv, RequestsFit
  <2>3. QED
    BY <2>1, <2>2 DEF Index!Next
<1>3. CASE Send(k)
  <2>1. Outgoing(k) \in Requests /\ Fits(Outgoing(k)) /\ WholeWrite(Outgoing(k))
    BY <1>3, InsideCall DEF Send, IInv, RequestsFit, Mutations
  <2>2. QED
    BY <1>3, <2>1, ExecutionRefines DEF Send
<1>4. CASE ExecuteLate(k)
  <2>1. late[k] \in Requests /\ Fits(late[k]) /\ WholeWrite(late[k])
    BY <1>4 DEF ExecuteLate, IInv, TypeOK, RequestsFit
  <2>2. QED
    BY <1>4, <2>1, ExecutionRefines DEF ExecuteLate
<1>5. CASE Describe(k) \/ CheckSentinel(k) \/ BackendFails(k) \/ Crash(k) \/ GiveUp(k)
             \/ DropLate(k)
  BY <1>5
  DEF Describe, CheckSentinel, BackendFails, Crash, GiveUp, DropLate, stored, Index!vars
<1>6. QED
  BY <1>1, <1>2, <1>3, <1>4, <1>5 DEF Step

\* QdrantVectorStore implements the index of the VectorStore port, although it
\* neither locks nor commits.
THEOREM Refinement == Spec => ImplementsManifestIndex
<1>1. Init => Index!Init
  BY DEF Init, NoRows, Index!Init, Index!NoRows
<1>2. IInv /\ [Next]_vars => [Index!Next]_(Index!vars)
  <2>1. OperatorCleanup \/ UNCHANGED vars => UNCHANGED Index!vars
    BY DEF OperatorCleanup, vars, Index!vars
  <2>2. QED
    BY <2>1, StepRefines DEF Next
<1>3. QED
  BY <1>1, <1>2, Invariance, PTL DEF Spec, Index!Spec, ImplementsManifestIndex

\* No point of another manifest is ever stored in the collection or given to a
\* search, retried requests and abandoned initialisations included.
THEOREM NoForeignRows == Spec => [](Index!RowsUnderManifest /\ Index!AnswersUnderManifest)
<1>1. Index!Spec => Promise!Spec
  <2>1. Index!Init => Promise!Init
    BY DEF Index!Init, Promise!Init, Index!NoRows, Promise!NoRows
  <2>2. [Index!Next]_(Index!vars) => [Promise!Next]_(Promise!vars)
    BY DEF Index!Next, Index!Upsert, Index!Delete, Index!Search, Index!Forget, Index!vars,
           Index!Put, Index!Drop, Promise!Next, Promise!Upsert, Promise!Delete, Promise!Search,
           Promise!Forget, Promise!vars, Promise!Put, Promise!Drop
  <2>3. QED
    BY <2>1, <2>2, PTL DEF Index!Spec, Promise!Spec
<1>2. Promise!RowsUnderManifest /\ Promise!AnswersUnderManifest
        => Index!RowsUnderManifest /\ Index!AnswersUnderManifest
  BY DEF Index!RowsUnderManifest, Promise!RowsUnderManifest, Index!AnswersUnderManifest,
         Promise!AnswersUnderManifest, Index!AllUnder, Promise!AllUnder
<1>3. Promise!BatchesAreMaps /\ Promise!IdSetsAreChunks /\ Promise!NoneIsNoValue
  BY BatchesAreMaps, IdSetsAreChunks, NoneIsNoValue
  DEF Row, Rows, Call, NoRows, Answer, Promise!Row, Promise!Rows, Promise!Call,
      Promise!NoRows, Promise!Answer
<1>4. Spec => Index!Spec
  BY Refinement DEF ImplementsManifestIndex
<1>5. QED
  BY <1>1, <1>2, <1>3, <1>4, Promise!ManifestBound, PTL

\* Retries fail closed on a collection that lost its initialiser.
THEOREM BareStaysClosed == Spec => BareCollectionStaysClosed
<1> DEFINE Bare == collection # None /\ sentinel = None /\ ~SomeoneInitialises
<1>1. IInv /\ [Next]_vars =>
        [Bare => UNCHANGED <<sentinel, rows>> /\ ~SomeoneInitialises']_vars
  <2> SUFFICES ASSUME IInv, Next, Bare
               PROVE  UNCHANGED <<sentinel, rows>> /\ ~SomeoneInitialises'
    BY DEF vars
  <2>1. CASE OperatorCleanup
    BY <2>1 DEF OperatorCleanup, SomeoneInitialises, Initialising, LateInitialisation
  <2>2. ASSUME NEW k \in Clients, Step(k)
        PROVE  UNCHANGED <<sentinel, rows>> /\ ~SomeoneInitialises'
    <3>1. /\ pc[k] # "initialise"
          /\ late[k] # None => late[k].op # "initialise"
      BY DEF SomeoneInitialises, Initialising, LateInitialisation
    <3>2. ~Send(k) /\ ~ExecuteLate(k)
      <4>1. ASSUME NEW r \in Requests, Fits(r), Accepts(r)
            PROVE  r.op = "initialise"
        BY <4>1, NoneIsNoValue DEF Requests, Fits, Accepts, Mutations
      <4>2. QED
        BY <3>1, <4>1, InsideCall
        DEF Send, ExecuteLate, IInv, TypeOK, RequestsFit, Mutations
    <3>3. pc'[k] # "initialise" /\ UNCHANGED <<sentinel, rows>>
      BY <2>2, <3>1, <3>2
      DEF Step, Start, Describe, CheckSentinel, Query, BackendFails, Crash, GiveUp, DropLate,
          Goto, End, stored, IInv, TypeOK
    <3>4. late'[k] # None => late'[k].op # "initialise"
      BY <2>2, <3>1, <3>2
      DEF Step, Start, Describe, CheckSentinel, Query, BackendFails, Crash, GiveUp, DropLate,
          stored, IInv, TypeOK, Outgoing, Request
    <3>5. \A j \in Clients \ {k} : pc'[j] = pc[j] /\ late'[j] = late[j]
      BY <2>2, <3>2
      DEF Step, Start, Describe, CheckSentinel, Query, BackendFails, Crash, GiveUp, DropLate,
          Goto, End, stored, IInv, TypeOK
    <3>6. QED
      BY <3>1, <3>3, <3>4, <3>5 DEF SomeoneInitialises, Initialising, LateInitialisation
  <2>3. QED
    BY <2>1, <2>2 DEF Next
<1>2. QED
  BY <1>1, Invariance, PTL DEF Spec, BareCollectionStaysClosed

=============================================================================
