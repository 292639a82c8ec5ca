----------------------------- MODULE QdrantStore -----------------------------
(***************************************************************************)
(* QdrantVectorStore: one remote collection shared by clients that were    *)
(* composed with any of several manifests, without transactions or locks.  *)
(* The manifest is a sentinel point in the collection.  The first upsert   *)
(* creates the collection and then sends sentinel and points in one        *)
(* request; any other call describes the collection, reads the sentinel    *)
(* and then sends its request.  A client that times out or stops does not  *)
(* take its request back: the server may still execute it later.           *)
(***************************************************************************)
EXTENDS IndexData, Naturals

CONSTANT Dimension  \* the embedding dimension of each manifest

ASSUME DimensionsArePositive == Dimension \in [Manifests -> Nat \ {0}]

ASSUME NoneIsNoNumber == None \notin Nat

VARIABLES
  collection,  \* the vector size of the remote collection, None if absent
  sentinel,    \* the manifest of the sentinel point, None if absent
  rows,        \* the chunk points
  late,        \* the request a client gave up on and the server still holds
  call,        \* the call each client is making, None between calls
  pc,          \* where in the call it is
  result,      \* how its last call ended
  answer       \* what its last search returned

vars == <<collection, sentinel, rows, late, call, pc, result, answer>>
stored == <<collection, sentinel, rows>>

Mutations == {"create", "initialise", "write"}
Places == {"idle", "describe", "sentinel", "query"} \cup Mutations

\* A request that changes the server's state; "write" is the upsert of points
\* or the delete of point IDs.
Request(op, c) == [op |-> op, manifest |-> c.manifest, batch |-> c.batch, ids |-> c.ids]

Requests ==
  [op : Mutations, manifest : Manifests, batch : Batches \cup {NoRows},
   ids : IdSets \cup {{}}]

ASSUME NoneIsNoRequest == None \notin Requests

\* Whatever requests the server executes, in time or late, it holds whole points.
TypeOK ==
  /\ collection \in Nat \cup {None}
  /\ sentinel \in Manifests \cup {None}
  /\ rows \in Rows
  /\ late \in [Clients -> Requests \cup {None}]
  /\ call \in [Clients -> Call \cup {None}]
  /\ pc \in [Clients -> Places]
  /\ result \in [Clients -> Results]
  /\ answer \in [Clients -> Answer \cup {None}]

Init ==
  /\ collection = None
  /\ sentinel = None
  /\ rows = NoRows
  /\ late = [k \in Clients |-> None]
  /\ call = [k \in Clients |-> None]
  /\ pc = [k \in Clients |-> "idle"]
  /\ result = [k \in Clients |-> "none"]
  /\ answer = [k \in Clients |-> None]

-----------------------------------------------------------------------------
(* The server *)

\* Create fails on a collection that exists; points need their vector size.
Accepts(r) ==
  IF r.op = "create" THEN collection = None ELSE collection = Dimension[r.manifest]

Execute(r) ==
  /\ collection' = IF r.op = "create" THEN Dimension[r.manifest] ELSE collection
  /\ sentinel' = IF r.op = "initialise" THEN r.manifest ELSE sentinel
  /\ rows' = IF r.op = "create" THEN rows ELSE Drop(Put(rows, r.manifest, r.batch), r.ids)

-----------------------------------------------------------------------------
(* The client *)

Start(k) ==
  /\ pc[k] = "idle"
  /\ \E c \in Call : call' = [call EXCEPT ![k] = c]
  /\ pc' = [pc EXCEPT ![k] = "describe"]
  /\ result' = [result EXCEPT ![k] = "none"]
  /\ answer' = [answer EXCEPT ![k] = None]
  /\ UNCHANGED <<stored, late>>

Goto(k, place) ==
  /\ pc' = [pc EXCEPT ![k] = place]
  /\ UNCHANGED <<call, result>>

End(k, how) ==
  /\ pc' = [pc EXCEPT ![k] = "idle"]
  /\ call' = [call EXCEPT ![k] = None]
  /\ result' = [result EXCEPT ![k] = how]

\* Without a collection a preflight passes, an upsert creates it and any other
\* call fails; with one, its vector size must be the manifest's.
Describe(k) ==
  /\ pc[k] = "describe"
  /\ \/ /\ collection = None
        /\ \/ call[k].op = "preflight" /\ End(k, "ok")
           \/ call[k].op = "upsert" /\ Goto(k, "create")
           \/ call[k].op \in {"search", "delete"} /\ End(k, "incompatible")
     \/ /\ collection = Dimension[call[k].manifest]
        /\ Goto(k, "sentinel")
     \/ /\ collection \notin {None, Dimension[call[k].manifest]}
        /\ End(k, "incompatible")
  /\ UNCHANGED <<stored, late, answer>>

\* The call has nothing to send once it is known to be compatible.
NothingToSend(c) == IdsOf(c.batch) = {} /\ c.ids = {}

\* Mutant: a collection without a sentinel is adopted by the next upsert.
AdoptBareCollection(k) ==
  /\ pc[k] = "sentinel"
  /\ \/ /\ sentinel = call[k].manifest
        /\ \/ call[k].op = "search" /\ Goto(k, "query")
           \/ call[k].op # "search" /\ NothingToSend(call[k]) /\ End(k, "ok")
           \/ call[k].op # "search" /\ ~NothingToSend(call[k]) /\ Goto(k, "write")
     \/ /\ sentinel = None /\ call[k].op = "upsert" /\ Goto(k, "initialise")
     \/ /\ sentinel \notin {None, call[k].manifest} /\ End(k, "incompatible")
  /\ UNCHANGED <<stored, late, answer>>

\* Mutant: only the vector size is compared.
SizeIsEnough(k) ==
  /\ pc[k] = "sentinel"
  /\ \/ call[k].op = "search" /\ Goto(k, "query")
     \/ call[k].op # "search" /\ Goto(k, "write")
  /\ UNCHANGED <<stored, late, answer>>

\* A missing sentinel and another manifest's are both incompatible.
CheckSentinel(k) ==
  /\ pc[k] = "sentinel"
  /\ \/ /\ sentinel = call[k].manifest
        /\ \/ call[k].op = "search" /\ Goto(k, "query")
           \/ call[k].op # "search" /\ NothingToSend(call[k]) /\ End(k, "ok")
           \/ call[k].op # "search" /\ ~NothingToSend(call[k]) /\ Goto(k, "write")
     \/ sentinel # call[k].manifest /\ End(k, "incompatible")
  /\ UNCHANGED <<stored, late, answer>>

Query(k) ==
  /\ pc[k] = "query"
  /\ answer' = [answer EXCEPT ![k] = [expected |-> call[k].manifest, found |-> rows]]
  /\ End(k, "ok")
  /\ UNCHANGED <<stored, late>>

\* The request the client is about to send, and its timely execution.
Outgoing(k) == Request(pc[k], call[k])

Send(k) ==
  /\ pc[k] \in Mutations
  /\ Accepts(Outgoing(k))
  /\ Execute(Outgoing(k))
  /\ \/ pc[k] = "create" /\ Goto(k, "initialise")
     \/ pc[k] # "create" /\ End(k, "ok")
  /\ UNCHANGED <<late, answer>>

-----------------------------------------------------------------------------
(* Failures *)

\* The backend raises, or the server refuses the request: no effect.
BackendFails(k) ==
  /\ pc[k] # "idle"
  /\ End(k, "provider_error")
  /\ UNCHANGED <<stored, late, answer>>

Crash(k) ==
  /\ pc[k] # "idle"
  /\ End(k, "crashed")
  /\ UNCHANGED <<stored, late, answer>>

\* The client times out, or stops, after it sent the request.  Bound: one such
\* request per client at a time.
GiveUp(k) ==
  /\ pc[k] \in Mutations /\ late[k] = None
  /\ late' = [late EXCEPT ![k] = Outgoing(k)]
  /\ \E how \in {"provider_error", "crashed"} : End(k, how)
  /\ UNCHANGED <<stored, answer>>

\* The server executes, or refuses or loses, a request nobody waits for.
ExecuteLate(k) ==
  /\ late[k] # None
  /\ Accepts(late[k])
  /\ Execute(late[k])
  /\ late' = [late EXCEPT ![k] = None]
  /\ UNCHANGED <<call, pc, result, answer>>

DropLate(k) ==
  /\ late[k] # None
  /\ late' = [late EXCEPT ![k] = None]
  /\ UNCHANGED <<stored, call, pc, result, answer>>

\* An initialisation is under way at a client, or held by the server.
Initialising(k) == pc[k] = "initialise"
LateInitialisation(k) == late[k] # None /\ late[k].op = "initialise"
SomeoneInitialises == \E k \in Clients : Initialising(k) \/ LateInitialisation(k)

\* External, "explicit operator cleanup": a collection that was left without a
\* sentinel is dropped once no initialisation of it can still arrive.
OperatorCleanup ==
  /\ collection # None /\ sentinel = None
  /\ ~SomeoneInitialises
  /\ collection' = None
  /\ UNCHANGED <<sentinel, rows, late, call, pc, result, answer>>

-----------------------------------------------------------------------------

Step(k) ==
  \/ Start(k) \/ Describe(k) \/ CheckSentinel(k) \/ Query(k) \/ Send(k)
  \/ BackendFails(k) \/ Crash(k) \/ GiveUp(k) \/ ExecuteLate(k) \/ DropLate(k)

Next == OperatorCleanup \/ \E k \in Clients : Step(k)

Spec == Init /\ [][Next]_vars

-----------------------------------------------------------------------------
(* Properties *)

\* Points are never in the collection without the sentinel that says how to
\* read them, and the sentinel fits the vectors' size: sentinel and first
\* points travel in one request, and nobody else writes before it.
SentinelBeforePoints ==
  /\ sentinel = None => rows = NoRows
  /\ sentinel # None => collection = Dimension[sentinel]

\* Without any lock, at most one initialisation is ever under way or in flight:
\* the server's refusal to create a collection twice elects its sender, also
\* after crashes, timeouts and operator cleanups.
OneInitialiser ==
  /\ \A j, k \in Clients : Initialising(j) /\ Initialising(k) => j = k
  /\ \A j, k \in Clients : LateInitialisation(j) /\ LateInitialisation(k) => j = k
  /\ \A j, k \in Clients : ~(Initialising(j) /\ LateInitialisation(k))

\* A collection that was left without a sentinel stays closed: no retry, of any
\* manifest, writes to it until an operator has removed it.
BareCollectionStaysClosed ==
  [][collection # None /\ sentinel = None /\ ~SomeoneInitialises
       => UNCHANGED <<sentinel, rows>> /\ ~SomeoneInitialises']_vars

\* The unlocked protocol implements the index the port promises, late requests
\* included: each request is one whole upsert or delete under the one manifest.
Index == INSTANCE ManifestIndex WITH manifest <- sentinel
ImplementsManifestIndex == Index!Spec

=============================================================================
