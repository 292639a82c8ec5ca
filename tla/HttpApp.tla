-------------------------------- MODULE HttpApp --------------------------------
(***************************************************************************)
(* HttpApp and RequestCorrelatedTelemetry: requests on one event loop.     *)
(*                                                                         *)
(* Requests interleave only where a handler awaits: between the messages   *)
(* of its body, and at each of the two messages of its response.  What is  *)
(* between two awaits is one step, except the call of the pipeline, which  *)
(* blocks the loop from Work to Return.                                    *)
(***************************************************************************)
EXTENDS Naturals, Sequences, FiniteSets

CONSTANTS Requests,   \* the requests, each in a task of its own
          Ids,        \* well-formed x-request-id values that clients send
          None,
          MaxBody,    \* _MAX_BODY_BYTES
          Stages,     \* bound: stage events of a call of the pipeline
          MaxEvents   \* what the telemetry sink holds before it refuses

VARIABLES
  pc,       \* where each request is
  route,    \* what it asks for
  id,       \* its correlation id
  context,  \* the ContextVar of its task
  size,     \* how much of its body has arrived
  status,   \* the status of its response
  made,     \* how the pipeline call made for it ended, None if there was none
  events,   \* what the sink has recorded
  loop      \* the request whose pipeline call blocks the event loop, or None

http == <<pc, route, id, context, size, status, made, events, loop>>

\* "probe" stands for /healthz and /readyz, "unserved" for any other path or method.
Routes   == {"probe", "unserved", "index", "ask", "no_path"}
Pipeline == {"index", "ask"}
Results  == {"ok", "invalid", "incompatible", "unsupported", "failed"}

ASSUME HttpAssumption ==
  None \notin Ids \cup Results /\ {MaxBody, Stages, MaxEvents} \subseteq Nat

\* request_id_factory gives every request another identifier.
Generated(r) == <<"generated", r>>

HttpInit ==
  /\ pc      = [r \in Requests |-> "new"]
  /\ route   = [r \in Requests |-> None]
  /\ id      = [r \in Requests |-> None]
  /\ context = [r \in Requests |-> None]
  /\ size    = [r \in Requests |-> 0]
  /\ status  = [r \in Requests |-> None]
  /\ made    = [r \in Requests |-> None]
  /\ events = <<>> /\ loop = None

\* Mutant: the identifier is kept in one place for all tasks.
SetContextForAll(r, value) == [q \in Requests |-> value]

\* RequestCorrelatedTelemetry.correlate
SetContext(r, value) == [context EXCEPT ![r] = value]

Event(r, operation, tag, code) ==
  [request |-> r, operation |-> operation, id |-> tag, status |-> code]

\* Mutant: an event the sink refuses is skipped.
ConcludeUnrecorded(r, tag, code, recorded) ==
  /\ status' = [status EXCEPT ![r] = code]
  /\ events' = IF Len(recorded) < MaxEvents
                 THEN Append(recorded, Event(r, "http.request", tag, code)) ELSE recorded
  /\ pc' = [pc EXCEPT ![r] = "starting"]

\* The end of __call__: the event of the request is recorded before anything is
\* sent, and a sink that refuses it leaves the request without a response.
Conclude(r, tag, code, recorded) ==
  IF Len(recorded) < MaxEvents
    THEN /\ status' = [status EXCEPT ![r] = code]
         /\ events' = Append(recorded, Event(r, "http.request", tag, code))
         /\ pc' = [pc EXCEPT ![r] = "starting"]
    ELSE /\ events' = recorded
         /\ pc' = [pc EXCEPT ![r] = "dropped"]
         /\ UNCHANGED status

\* The routes that are answered without a body.
Direct(what) ==
  CASE what = "probe"    -> {200, 503}
    [] what = "unserved" -> {404, 405}
    [] OTHER             -> {}

\* __call__ up to its first await; header is the x-request-id, None for one that
\* is missing or malformed.
Arrive(r, what, header) ==
  /\ loop = None /\ pc[r] = "new"
  /\ route' = [route EXCEPT ![r] = what]
  /\ id' = [id EXCEPT ![r] = IF header = None THEN Generated(r) ELSE header]
  /\ \/ /\ what = "no_path"
        /\ pc' = [pc EXCEPT ![r] = "dropped"]
        /\ UNCHANGED <<context, status, events>>
     \/ /\ what \in Pipeline
        /\ pc' = [pc EXCEPT ![r] = "body"]
        /\ context' = SetContext(r, id'[r])
        /\ UNCHANGED <<status, events>>
     \/ \E code \in Direct(what) : Conclude(r, id'[r], code, events) /\ UNCHANGED context
  /\ UNCHANGED <<size, made, loop>>

\* correlate is left and the request concluded.
Refuse(r, code) ==
  /\ size' = [size EXCEPT ![r] = 0]
  /\ context' = SetContext(r, None)
  /\ Conclude(r, id[r], code, events)
  /\ UNCHANGED <<route, id, made, loop>>

\* A message of the body: too much, not the last, unusable, or the last of a
\* request that the schema, the source and the selections allow.  Unusable is what
\* they reject, or what json.loads or Path.resolve raises another error for.
Receive(r, n, more) ==
  LET total == size[r] + n
  IN /\ loop = None /\ pc[r] = "body"
     /\ \/ total > MaxBody /\ Refuse(r, 413)
        \/ total <= MaxBody /\ ~more /\ \E code \in {400, 500} : Refuse(r, code)
        \/ /\ total <= MaxBody /\ more
           /\ size' = [size EXCEPT ![r] = total]
           /\ UNCHANGED <<pc, route, id, context, status, made, events, loop>>
        \/ /\ total <= MaxBody /\ ~more
           /\ size' = [size EXCEPT ![r] = 0]
           /\ pc' = [pc EXCEPT ![r] = "working"] /\ loop' = r
           /\ UNCHANGED <<route, id, context, status, made, events>>

\* The client goes away, or sends something that is no body.
Disconnect(r) ==
  /\ loop = None /\ pc[r] = "body"
  /\ Refuse(r, 400)

\* The except clauses of __call__.
StatusOf(result) ==
  CASE result = "ok"           -> 200
    [] result = "invalid"      -> 400
    [] result = "incompatible" -> 409
    [] result = "unsupported"  -> 503
    [] OTHER                   -> 500

\* The pipeline returns after some stages, each with an event that carries the
\* identifier of the context; a refused event is an error of the pipeline.
Return(r, stages, result) ==
  /\ loop = r /\ pc[r] = "working"
  /\ result = "ok" => stages = Stages
  /\ LET room     == MaxEvents - Len(events)
         refused  == stages > room
         recorded == events \o [k \in 1..(IF refused THEN room ELSE stages) |->
                                  Event(r, "stage", context[r], None)]
         how      == IF refused THEN "failed" ELSE result
     IN /\ made' = [made EXCEPT ![r] = how]
        /\ Conclude(r, id[r], StatusOf(how), recorded)
  /\ context' = SetContext(r, None)
  /\ loop' = None
  /\ UNCHANGED <<route, id, size>>

\* _send: two messages, unless the connection is lost.
SendNext(r) ==
  /\ loop = None /\ pc[r] \in {"starting", "sending"}
  /\ pc' = [pc EXCEPT ![r] = IF @ = "starting" THEN "sending" ELSE "done"]
  /\ UNCHANGED <<route, id, context, size, status, made, events, loop>>
SendFails(r) ==
  /\ loop = None /\ pc[r] \in {"starting", "sending"}
  /\ pc' = [pc EXCEPT ![r] = "dropped"]
  /\ UNCHANGED <<route, id, context, size, status, made, events, loop>>

\* Whatever happens on the loop while no call of the pipeline blocks it.
LoopStep ==
  \E r \in Requests :
    \/ \E what \in Routes, header \in Ids \cup {None} : Arrive(r, what, header)
    \/ \E n \in 0..(MaxBody + 1), more \in BOOLEAN : Receive(r, n, more)
    \/ Disconnect(r)
    \/ SendNext(r)
    \/ SendFails(r)

-----------------------------------------------------------------------------
\* An event names the request whose handling recorded it, however the requests of
\* the loop alternate and whatever identifiers their clients send: "concurrent
\* requests do not share identifiers" (docs/observability.md).
EventsNameTheirRequest == \A k \in DOMAIN events : events[k].id = id[events[k].request]

Recorded(r, operation) ==
  {k \in DOMAIN events : events[k].request = r /\ events[k].operation = operation}
Terminal(r) == Recorded(r, "http.request")

\* What a client is told has been recorded: a response has exactly one event, the
\* last of its request, with its status; and it says that the pipeline succeeded
\* exactly if it did, with all stages on record.  (the order in __call__)
ResponsesAreTrue ==
  \A r \in Requests : pc[r] \in {"starting", "sending", "done"} =>
    /\ \E k \in Terminal(r) :
         /\ Terminal(r) = {k} /\ events[k].status = status[r]
         /\ \A j \in DOMAIN events : events[j].request = r => j <= k
    /\ route[r] \in Pipeline =>
         /\ status[r] = 200 <=> made[r] = "ok"
         /\ made[r] = "ok" => Cardinality(Recorded(r, "stage")) = Stages

=============================================================================
