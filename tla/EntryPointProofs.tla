-------------------------- MODULE EntryPointProofs --------------------------
(***************************************************************************)
(* The two programs that a user starts and that run unattended: the HTTP   *)
(* server and its deadlines, for any requests, identifiers and bounds, and *)
(* the command that bootstraps an assignment, for any number of files.     *)
(*                                                                         *)
(* A timer runs only just before the operation, in it and in the first     *)
(* half of the clean-up, and `expired' is installed there (ClockSafe):     *)
(* run_with_deadline installs it before it starts the timer and stops the  *)
(* timer before it restores the handler.  A request has no event before it *)
(* arrives, and its context is its identifier from then until it is        *)
(* concluded (Correlated), so that each event is recorded under the        *)
(* identifier of the request it belongs to.                                *)
(*                                                                         *)
(* Until then it has no event at all, and its conclusion adds those of its *)
(* call and its own at once, or none (Account): what a response says, the  *)
(* log says.                                                               *)
(*                                                                         *)
(* The invariant of bootstrap_assignment accounts for every file at every  *)
(* moment: it is as it was, or it was moved aside, or swapped in with its  *)
(* old content aside.  That is enough for what holds even when Ctrl-C      *)
(* interrupts; a failed call restores everything only because, without     *)
(* interrupts, no file that is neither committed nor current was touched.  *)
(***************************************************************************)
EXTENDS Delivery, AssignmentBootstrap, Integers, FiniteSetTheorems, TLAPS

-----------------------------------------------------------------------------
(* Deadlines *)

ClockSafe ==
  /\ timer => at \in {"armed", "operation", "disarm"}
  /\ noted => ~timer /\ at \in {"armed", "operation", "disarm"}
  /\ at # "out" => handler = "expired"
  /\ ended # "killed"
  /\ at = "out" /\ ended = "value" => handler = saved

LEMMA ClockInit == DeliveryInit => ClockSafe
  BY DEF DeliveryInit, DeadlineInit, ClockSafe

\* Each step of a deadline, and whatever the server does around it.
LEMMA ClockNext == ClockSafe /\ [DeliveryNext]_delivery => ClockSafe'
<1> SUFFICES ASSUME ClockSafe, [DeliveryNext]_delivery PROVE ClockSafe'
  OBVIOUS
<1>1. CASE Serve
  BY <1>1 DEF Serve, clock, ClockSafe
<1>2. CASE Operate
  BY <1>2 DEF Operate, Enter, ClockSafe
<1>3. CASE Within
  <2>1. CASE Arm
    BY <2>1 DEF Arm, Goto, ClockSafe
  <2>t. CASE Try
    BY <2>t DEF Try, Goto, ClockSafe
  <2>2. CASE Finish
    BY <2>2 DEF Finish, Goto, ClockSafe
  <2>3. CASE Disarm
    BY <2>3 DEF Disarm, Goto, ClockSafe
  <2>4. CASE Restore
    BY <2>4 DEF Restore, Goto, ClockSafe
  <2>5. CASE Fire
    BY <2>5 DEF Fire, ClockSafe
  <2>6. CASE Deliver
    BY <2>6 DEF Deliver, ClockSafe
  <2>7. QED
    BY <1>3, <2>1, <2>2, <2>3, <2>4, <2>5, <2>6, <2>t DEF Within, DeadlineStep
<1>4. CASE Resume
  BY <1>4 DEF Resume, ClockSafe
<1>5. CASE UNCHANGED delivery
  BY <1>5 DEF delivery, clock, ClockSafe
<1>6. QED
  BY <1>1, <1>2, <1>3, <1>4, <1>5 DEF DeliveryNext

\* No alarm outlives the operation it belongs to, meets the default action or
\* follows a value that was handed out, wherever it interrupts the clean-up.
THEOREM DeadlinesAreContained == DeliverySpec => []AlarmsStayInside
<1>1. ClockSafe => AlarmsStayInside
  BY DEF ClockSafe, AlarmsStayInside
<1>2. QED
  BY <1>1, ClockInit, ClockNext, PTL DEF DeliverySpec

-----------------------------------------------------------------------------
(* Correlation *)

Labels == Ids \cup {None} \cup {Generated(r) : r \in Requests}

Records ==
  [request : Requests, operation : {"http.request", "stage"}, id : Labels,
   status : Nat \cup {None}]

\* The events of a log carry the identifier of their request.
Named(log) == \A k \in DOMAIN log : log[k].id = id[log[k].request]

Correlated ==
  /\ DOMAIN pc = Requests /\ DOMAIN context = Requests
  /\ id \in [Requests -> Labels]
  /\ events \in Seq(Records)
  /\ loop # None => loop \in Requests
  /\ \A r \in Requests : pc[r] = "new" => \A k \in DOMAIN events : events[k].request # r
  /\ \A r \in Requests : pc[r] \in {"body", "working"} => context[r] = id[r]
  /\ EventsNameTheirRequest

LEMMA EventOfLog ==
  ASSUME NEW log \in Seq(Records), NEW k \in DOMAIN log
  PROVE  log[k].request \in Requests
<1>1. log[k] \in Records
  OBVIOUS
<1>2. QED
  BY <1>1 DEF Records

LEMMA CorrelationInit == DeliveryInit => Correlated
<1> SUFFICES ASSUME DeliveryInit PROVE Correlated
  OBVIOUS
<1>1. events = <<>> /\ events \in Seq(Records) /\ DOMAIN events = {}
  BY DEF DeliveryInit, HttpInit
<1>2. QED
  BY <1>1 DEF DeliveryInit, HttpInit, Correlated, EventsNameTheirRequest, Labels

\* Concluding a request adds at most its own event to the log it is given.
LEMMA Concluding ==
  ASSUME NEW r \in Requests, NEW tag \in Labels, NEW code \in Nat,
         NEW log \in Seq(Records), Conclude(r, tag, code, log), DOMAIN pc = Requests
  PROVE  /\ events' \in Seq(Records)
         /\ \A k \in DOMAIN events' :
              \/ k \in DOMAIN log /\ events'[k] = log[k]
              \/ events'[k].request = r /\ events'[k].id = tag
         /\ DOMAIN pc' = Requests
         /\ pc'[r] \notin {"new", "body", "working"}
         /\ \A q \in Requests \ {r} : pc'[q] = pc[q]
<1> DEFINE E == Event(r, "http.request", tag, code)
<1>1. E \in Records /\ E.request = r /\ E.id = tag
  BY DEF Event, Records
<1>2. CASE Len(log) < MaxEvents
  <2>1. events' = Append(log, E) /\ pc' = [pc EXCEPT ![r] = "starting"]
    BY <1>2 DEF Conclude
  <2> HIDE DEF E
  <2>2. QED
    BY <1>1, <2>1
<1>3. CASE ~(Len(log) < MaxEvents)
  BY <1>3 DEF Conclude
<1>4. QED
  BY <1>2, <1>3

\* A request that is concluded leaves the log and the others as they should be.
LEMMA Concluded ==
  ASSUME Correlated, NEW r \in Requests, NEW log \in Seq(Records), NEW code \in Nat,
         Conclude(r, id'[r], code, log), id' \in [Requests -> Labels],
         \A q \in Requests \ {r} : id'[q] = id[q],
         \A k \in DOMAIN log : /\ log[k].request # r => k \in DOMAIN events /\ log[k] = events[k]
                               /\ log[k].request = r => log[k].id = id'[r],
         DOMAIN context' = Requests,
         \A q \in Requests \ {r} : context'[q] = context[q],
         loop' \in {loop, None}
  PROVE  Correlated'
<1>1. id'[r] \in Labels
  OBVIOUS
<1>2. /\ events' \in Seq(Records)
      /\ \A k \in DOMAIN events' :
           \/ k \in DOMAIN log /\ events'[k] = log[k]
           \/ events'[k].request = r /\ events'[k].id = id'[r]
      /\ DOMAIN pc' = Requests
      /\ pc'[r] \notin {"new", "body", "working"}
      /\ \A q \in Requests \ {r} : pc'[q] = pc[q]
  BY <1>1, Concluding DEF Correlated
<1>3. \A k \in DOMAIN events' : events'[k].request \in Requests
  BY <1>2, EventOfLog
<1>4. \A k \in DOMAIN events' : events'[k].request # r =>
        k \in DOMAIN events /\ events'[k] = events[k]
  BY <1>2
<1>5. EventsNameTheirRequest'
  BY <1>2, <1>3, <1>4 DEF Correlated, EventsNameTheirRequest
<1>6. \A q \in Requests : pc'[q] = "new" => \A k \in DOMAIN events' : events'[k].request # q
  BY <1>2, <1>4 DEF Correlated
<1>7. \A q \in Requests : pc'[q] \in {"body", "working"} => context'[q] = id'[q]
  BY <1>2 DEF Correlated
<1>8. QED
  BY <1>2, <1>5, <1>6, <1>7 DEF Correlated

\* A request that arrives has no event yet, so it may get its identifier.
LEMMA Arriving ==
  ASSUME Correlated, NEW r \in Requests, NEW what \in Routes,
         NEW header \in Ids \cup {None}, Arrive(r, what, header)
  PROVE  Correlated'
<1>1. /\ pc[r] = "new" /\ loop' = loop
      /\ id' = [id EXCEPT ![r] = IF header = None THEN Generated(r) ELSE header]
      /\ \A k \in DOMAIN events : events[k].request # r
  BY DEF Arrive, Correlated
<1>2. /\ id' \in [Requests -> Labels]
      /\ \A q \in Requests \ {r} : id'[q] = id[q]
  BY <1>1 DEF Correlated, Labels
<1>3. CASE /\ UNCHANGED events
           /\ \/ pc' = [pc EXCEPT ![r] = "dropped"] /\ UNCHANGED context
              \/ pc' = [pc EXCEPT ![r] = "body"] /\ context' = SetContext(r, id'[r])
  <2>1. /\ DOMAIN pc' = Requests /\ DOMAIN context' = Requests
        /\ pc'[r] \in {"dropped", "body"} /\ pc'[r] = "body" => context'[r] = id'[r]
        /\ \A q \in Requests \ {r} : pc'[q] = pc[q] /\ context'[q] = context[q]
    BY <1>3 DEF Correlated, SetContext
  <2>2. \A k \in DOMAIN events : events[k].request \in Requests
    BY EventOfLog DEF Correlated
  <2>3. EventsNameTheirRequest'
    BY <1>1, <1>2, <1>3, <2>2 DEF Correlated, EventsNameTheirRequest
  <2>4. QED
    BY <1>1, <1>2, <1>3, <2>1, <2>3 DEF Correlated
<1>4. CASE UNCHANGED context /\ \E code \in Direct(what) : Conclude(r, id'[r], code, events)
  <2>1. PICK code \in Direct(what) : Conclude(r, id'[r], code, events)
    BY <1>4
  <2>2. Direct(what) \subseteq Nat
    BY DEF Direct, Routes
  <2>3. events \in Seq(Records) /\ DOMAIN context' = Requests
    BY <1>4 DEF Correlated
  <2>4. QED
    BY <1>1, <1>2, <1>4, <2>1, <2>2, <2>3, Concluded
<1>5. QED
  BY <1>3, <1>4 DEF Arrive

\* A request that is refused while its body arrives.
LEMMA Refusing ==
  ASSUME Correlated, NEW r \in Requests, NEW code \in Nat, Refuse(r, code)
  PROVE  Correlated'
<1>1. /\ id' = id /\ loop' = loop /\ Conclude(r, id'[r], code, events)
      /\ context' = [context EXCEPT ![r] = None]
  BY DEF Refuse, SetContext
<1>2. /\ events \in Seq(Records) /\ id' \in [Requests -> Labels]
      /\ DOMAIN context' = Requests
      /\ \A q \in Requests \ {r} : context'[q] = context[q]
      /\ \A k \in DOMAIN events : events[k].request = r => events[k].id = id'[r]
  BY <1>1 DEF Correlated, EventsNameTheirRequest
<1>3. QED
  BY <1>1, <1>2, Concluded

\* Whatever else happens to one request and leaves the log alone.
LEMMA Moving ==
  ASSUME Correlated, NEW r \in Requests, NEW place, place # "new",
         place \in {"body", "working"} => pc[r] \in {"body", "working"},
         pc' = [pc EXCEPT ![r] = place], UNCHANGED <<id, context, events>>,
         loop' \in {loop, None, r}
  PROVE  Correlated'
<1>1. DOMAIN pc' = Requests /\ pc'[r] = place /\ \A q \in Requests \ {r} : pc'[q] = pc[q]
  BY DEF Correlated
<1>2. EventsNameTheirRequest'
  BY DEF Correlated, EventsNameTheirRequest
<1>3. QED
  BY <1>1, <1>2 DEF Correlated

LEMMA Repeated ==
  ASSUME NEW S, NEW e \in S, NEW n \in Int
  PROVE  [k \in 1..n |-> e] \in Seq(S)
<1>1. CASE n < 0
  <2>1. 1..n = 1..0
    BY <1>1
  <2>2. QED
    BY <2>1
<1>2. CASE n >= 0
  BY <1>2
<1>3. QED
  BY <1>1, <1>2

\* A call of the pipeline records its stages in the context of its request.
LEMMA Returning ==
  ASSUME Correlated, NEW r \in Requests, NEW stages \in 0..Stages,
         NEW result \in Results, Return(r, stages, result)
  PROVE  Correlated'
<1> DEFINE stage == Event(r, "stage", context[r], None)
           room  == MaxEvents - Len(events)
           n     == IF stages > room THEN room ELSE stages
           added == [k \in 1..n |-> stage]
           log   == events \o added
           how   == IF stages > room THEN "failed" ELSE result
<1>1. /\ id' = id /\ loop' = None /\ pc[r] = "working"
      /\ Conclude(r, id'[r], StatusOf(how), log)
      /\ context' = [context EXCEPT ![r] = None]
  BY DEF Return, SetContext
<1>2. StatusOf(how) \in Nat
  BY DEF StatusOf
<1>3. stage \in Records
  BY <1>1 DEF Correlated, Event, Records
<1>4. /\ events \in Seq(Records) /\ added \in Seq(Records)
      /\ \A k \in DOMAIN added : added[k] = stage
  <2>1. events \in Seq(Records) /\ Len(events) \in Nat
    BY DEF Correlated
  <2>2. n \in Int
    BY <2>1, HttpAssumption
  <2> HIDE DEF n, stage
  <2>3. QED
    BY <1>3, <2>1, <2>2, Repeated
<1>5. log \in Seq(Records)
  BY <1>4
<1>6. \A k \in DOMAIN log :
        (k \in DOMAIN events /\ log[k] = events[k]) \/ log[k] = stage
  <2> HIDE DEF added, stage
  <2>1. /\ DOMAIN log = 1..(Len(events) + Len(added))
        /\ \A k \in DOMAIN log :
             log[k] = IF k <= Len(events) THEN events[k] ELSE added[k - Len(events)]
    BY <1>4
  <2>2. ASSUME NEW k \in DOMAIN log
        PROVE  (k \in DOMAIN events /\ log[k] = events[k]) \/ log[k] = stage
    <3>1. Len(events) \in Nat /\ Len(added) \in Nat
          /\ DOMAIN events = 1..Len(events) /\ DOMAIN added = 1..Len(added)
      BY <1>4
    <3>2. k \in 1..(Len(events) + Len(added))
      BY <2>1
    <3>3. CASE k <= Len(events)
      BY <2>1, <3>1, <3>2, <3>3
    <3>4. CASE ~(k <= Len(events))
      <4>1. k - Len(events) \in DOMAIN added
        BY <3>1, <3>2, <3>4
      <4>2. QED
        BY <1>4, <2>1, <3>4, <4>1
    <3>5. QED
      BY <3>3, <3>4
  <2>3. QED
    BY <2>2
<1>7. stage.request = r /\ stage.id = id[r]
  BY <1>1 DEF Correlated, Event
<1> HIDE DEF log, how, stage
<1>8. \A k \in DOMAIN log :
        /\ log[k].request # r => k \in DOMAIN events /\ log[k] = events[k]
        /\ log[k].request = r => log[k].id = id'[r]
  BY <1>1, <1>6, <1>7 DEF Correlated, EventsNameTheirRequest
<1>9. QED
  BY <1>1, <1>2, <1>5, <1>8, Concluded DEF Correlated

LEMMA CorrelationNext == Correlated /\ [DeliveryNext]_delivery => Correlated'
<1> SUFFICES ASSUME Correlated, [DeliveryNext]_delivery PROVE Correlated'
  OBVIOUS
<1>1. CASE LoopStep
  <2>1. PICK r \in Requests :
          \/ \E what \in Routes, header \in Ids \cup {None} : Arrive(r, what, header)
          \/ \E n \in 0..(MaxBody + 1), more \in BOOLEAN : Receive(r, n, more)
          \/ Disconnect(r)
          \/ SendNext(r)
          \/ SendFails(r)
    BY <1>1 DEF LoopStep
  <2>2. CASE \E what \in Routes, header \in Ids \cup {None} : Arrive(r, what, header)
    BY <2>2, Arriving
  <2>3. ASSUME NEW n \in 0..(MaxBody + 1), NEW more \in BOOLEAN, Receive(r, n, more)
        PROVE  Correlated'
    <3>1. CASE \E code \in {400, 413, 500} : Refuse(r, code)
      BY <3>1, Refusing
    <3>2. CASE UNCHANGED <<pc, id, context, events, loop>>
      BY <3>2 DEF Correlated, EventsNameTheirRequest
    <3>3. CASE pc' = [pc EXCEPT ![r] = "working"] /\ loop' = r /\ UNCHANGED <<id, context, events>>
      BY <2>3, <3>3, Moving DEF Receive
    <3>4. QED
      BY <2>3, <3>1, <3>2, <3>3 DEF Receive
  <2>4. CASE Disconnect(r)
    BY <2>4, Refusing DEF Disconnect
  <2>5. CASE SendNext(r)
    <3>1. \E place \in {"sending", "done"} : pc' = [pc EXCEPT ![r] = place]
      BY <2>5 DEF SendNext
    <3>2. QED
      BY <2>5, <3>1, Moving DEF SendNext
  <2>6. CASE SendFails(r)
    BY <2>6, Moving DEF SendFails
  <2>7. QED
    BY <2>1, <2>2, <2>3, <2>4, <2>5, <2>6
<1>2. CASE UNCHANGED http
  BY <1>2 DEF http, Correlated, EventsNameTheirRequest
<1>3. CASE Resume
  <2>1. PICK stages \in 0..Stages, result \in Results : Return(loop, stages, result)
    BY <1>3 DEF Resume
  <2>2. loop \in Requests
    BY <1>3 DEF Resume, Correlated
  <2>3. QED
    BY <2>1, <2>2, Returning
<1>4. QED
  BY <1>1, <1>2, <1>3 DEF DeliveryNext, Serve, Operate, Within, delivery

\* Every event of the telemetry sink carries the identifier of the request whose
\* handling recorded it, however the requests alternate on the loop.
THEOREM CorrelationIsExact == DeliverySpec => []EventsNameTheirRequest
<1>1. Correlated => EventsNameTheirRequest
  BY DEF Correlated
<1>2. QED
  BY <1>1, CorrelationInit, CorrelationNext, PTL DEF DeliverySpec
-----------------------------------------------------------------------------
(* Responses *)

OfRequest(r) == {k \in DOMAIN events : events[k].request = r}

\* What there is to say of one request: it leaves no event before it is
\* concluded, and then, unless it is dropped, the ones it should.
Account(r) ==
  /\ pc[r] \in {"new", "body", "working"} => OfRequest(r) = {} /\ made[r] = None
  /\ pc[r] \in {"body", "working"} => route[r] \in Pipeline
  /\ pc[r] \in {"starting", "sending", "done"} =>
       /\ \E k \in Terminal(r) :
            /\ Terminal(r) = {k} /\ events[k].status = status[r]
            /\ \A j \in DOMAIN events : events[j].request = r => j <= k
       /\ route[r] \in Pipeline =>
            /\ status[r] = 200 <=> made[r] = "ok"
            /\ made[r] = "ok" => Cardinality(Recorded(r, "stage")) = Stages

Accounted ==
  /\ Correlated
  /\ DOMAIN route = Requests /\ DOMAIN status = Requests /\ DOMAIN made = Requests
  /\ \A r \in Requests : Account(r)

LEMMA AccountInit == DeliveryInit => Accounted
<1> SUFFICES ASSUME DeliveryInit PROVE Accounted
  OBVIOUS
<1>1. \A r \in Requests : OfRequest(r) = {}
  BY DEF DeliveryInit, HttpInit, OfRequest
<1>2. QED
  BY <1>1, CorrelationInit DEF DeliveryInit, HttpInit, Accounted, Account

\* What happens to a request does not concern the others.
LEMMA OthersAccounted ==
  ASSUME Accounted, NEW q \in Requests,
         pc'[q] = pc[q], route'[q] = route[q], status'[q] = status[q], made'[q] = made[q],
         \A k \in DOMAIN events : k \in DOMAIN events' /\ events'[k] = events[k],
         \A k \in DOMAIN events' : events'[k].request = q => k \in DOMAIN events
  PROVE  Account(q)'
<1>1. OfRequest(q)' = OfRequest(q) /\ Terminal(q)' = Terminal(q)
      /\ Recorded(q, "stage")' = Recorded(q, "stage")
  BY DEF OfRequest, Terminal, Recorded
<1>2. \A k \in Terminal(q) : events'[k] = events[k]
  BY DEF Terminal, Recorded
<1>3. \A k \in Terminal(q) :
        (\A j \in DOMAIN events : events[j].request = q => j <= k)
          => \A j \in DOMAIN events' : events'[j].request = q => j <= k
  OBVIOUS
<1>4. Account(q)
  BY DEF Accounted
<1>5. QED
  BY <1>1, <1>2, <1>3, <1>4 DEF Account

\* Steps of a request that leave the log alone.
LEMMA MovingAccounted ==
  ASSUME Accounted, Correlated', NEW r \in Requests, NEW place, Account(r)',
         pc' = [pc EXCEPT ![r] = place],
         route' \in {route, [route EXCEPT ![r] = route'[r]]},
         UNCHANGED <<status, made, events>>
  PROVE  Accounted'
<1>1. \A q \in Requests \ {r} : pc'[q] = pc[q] /\ route'[q] = route[q]
  BY DEF Accounted, Correlated
<1>2. \A q \in Requests \ {r} : Account(q)'
  BY <1>1, OthersAccounted
<1>3. DOMAIN route' = Requests
  BY DEF Accounted
<1>4. QED
  BY <1>2, <1>3 DEF Accounted

\* A request is concluded: after the stages of its call, if it made one, comes
\* its own event, or it is dropped.
LEMMA ConcludingAccounted ==
  ASSUME Accounted, Correlated', NEW r \in Requests, NEW tag \in Labels, NEW code \in Nat,
         OfRequest(r) = {}, NEW added \in Seq(Records),
         \A i \in DOMAIN added : added[i].request = r /\ added[i].operation = "stage",
         Conclude(r, tag, code, events \o added),
         DOMAIN route' = Requests, DOMAIN made' = Requests,
         \A q \in Requests \ {r} : route'[q] = route[q] /\ made'[q] = made[q],
         route'[r] \in Pipeline =>
           /\ code = 200 <=> made'[r] = "ok"
           /\ made'[r] = "ok" => Len(added) = Stages
  PROVE  Accounted'
<1> DEFINE E == Event(r, "http.request", tag, code)
           n == Len(events)
           m == Len(added)
           log == events \o added
<1>1. E \in Records /\ E.request = r /\ E.operation = "http.request" /\ E.status = code
  BY DEF Event, Records
<1>2. /\ events \in Seq(Records) /\ n \in Nat /\ m \in Nat /\ log \in Seq(Records)
      /\ DOMAIN events = 1..n /\ DOMAIN added = 1..m
      /\ Len(log) = n + m /\ DOMAIN log = 1..(n + m)
      /\ \A k \in 1..n : log[k] = events[k]
      /\ \A k \in (n + 1)..(n + m) : k - n \in 1..m /\ log[k] = added[k - n]
  BY DEF Accounted, Correlated
<1>3. \A k \in 1..n : log[k].request # r
  BY <1>2 DEF OfRequest
<1>4. \A k \in (n + 1)..(n + m) : log[k].request = r /\ log[k].operation = "stage"
  BY <1>2
<1> HIDE DEF E, n, m, log
<1>5. CASE Len(log) < MaxEvents
  <2>1. /\ status' = [status EXCEPT ![r] = code]
        /\ events' = Append(log, E)
        /\ pc' = [pc EXCEPT ![r] = "starting"]
    BY <1>5 DEF Conclude, log, E
  <2>2. /\ DOMAIN events' = 1..(n + m + 1)
        /\ \A k \in 1..(n + m) : events'[k] = log[k]
        /\ events'[n + m + 1] = E
    BY <1>1, <1>2, <2>1
  <2>3. /\ \A k \in 1..n : k \in DOMAIN events' /\ events'[k] = events[k]
                             /\ events'[k].request # r
        /\ \A k \in (n + 1)..(n + m) : k \in DOMAIN events' /\ events'[k].request = r
                                         /\ events'[k].operation = "stage"
        /\ n + m + 1 \in DOMAIN events'
        /\ \A k \in DOMAIN events' :
             k \in 1..n \/ k \in (n + 1)..(n + m) \/ k = n + m + 1
    <3>1. \A k \in 1..n : k \in 1..(n + m) /\ k \in 1..(n + m + 1)
      BY <1>2
    <3>2. \A k \in (n + 1)..(n + m) : k \in 1..(n + m) /\ k \in 1..(n + m + 1)
      BY <1>2
    <3>3. /\ n + m + 1 \in 1..(n + m + 1)
          /\ \A k \in 1..(n + m + 1) :
               k \in 1..n \/ k \in (n + 1)..(n + m) \/ k = n + m + 1
      BY <1>2
    <3>4. \A k \in 1..n : events'[k] = events[k] /\ events'[k].request # r
      BY <1>2, <1>3, <2>2, <3>1
    <3>5. \A k \in (n + 1)..(n + m) : events'[k].request = r
                                      /\ events'[k].operation = "stage"
      BY <1>4, <2>2, <3>2
    <3>6. QED
      BY <2>2, <3>1, <3>2, <3>3, <3>4, <3>5
  <2>4. \A q \in Requests \ {r} : Account(q)'
    <3> SUFFICES ASSUME NEW q \in Requests \ {r} PROVE Account(q)'
      OBVIOUS
    <3>1. pc'[q] = pc[q] /\ status'[q] = status[q]
      BY <2>1 DEF Accounted, Correlated
    <3>2. \A k \in DOMAIN events : k \in DOMAIN events' /\ events'[k] = events[k]
      BY <1>2, <2>3
    <3>3. \A k \in DOMAIN events' : events'[k].request = q => k \in DOMAIN events
      BY <1>1, <1>2, <2>2, <2>3
    <3>4. QED
      BY <3>1, <3>2, <3>3, OthersAccounted
  <2>5. Terminal(r)' = {n + m + 1}
    <3>1. \A k \in DOMAIN events' :
            k = n + m + 1
              <=> events'[k].request = r /\ events'[k].operation = "http.request"
      <4> SUFFICES ASSUME NEW k \in DOMAIN events'
                   PROVE  k = n + m + 1
                            <=> events'[k].request = r
                                /\ events'[k].operation = "http.request"
        OBVIOUS
      <4>1. CASE k \in 1..n
        BY <1>2, <2>3, <4>1
      <4>2. CASE k \in (n + 1)..(n + m)
        <5>1. k # n + m + 1
          BY <1>2, <4>2
        <5>2. QED
          BY <2>3, <4>2, <5>1
      <4>3. CASE k = n + m + 1
        BY <1>1, <2>2, <4>3
      <4>4. QED
        BY <2>3, <4>1, <4>2, <4>3
    <3>2. n + m + 1 \in DOMAIN events'
      BY <2>3
    <3>3. QED
      BY <3>1, <3>2 DEF Terminal, Recorded
  <2>6. Recorded(r, "stage")' = (n + 1)..(n + m)
    <3>1. \A k \in DOMAIN events' :
            k \in (n + 1)..(n + m)
              <=> events'[k].request = r /\ events'[k].operation = "stage"
      <4> SUFFICES ASSUME NEW k \in DOMAIN events'
                   PROVE  k \in (n + 1)..(n + m)
                            <=> events'[k].request = r /\ events'[k].operation = "stage"
        OBVIOUS
      <4>1. CASE k \in 1..n
        <5>1. k \notin (n + 1)..(n + m)
          BY <1>2, <4>1
        <5>2. QED
          BY <2>3, <4>1, <5>1
      <4>2. CASE k \in (n + 1)..(n + m)
        BY <2>3, <4>2
      <4>3. CASE k = n + m + 1
        <5>1. k \notin (n + 1)..(n + m)
          BY <1>2, <4>3
        <5>2. events'[k].operation = "http.request"
          BY <1>1, <2>2, <4>3
        <5>3. QED
          BY <5>1, <5>2
      <4>4. QED
        BY <2>3, <4>1, <4>2, <4>3
    <3>2. \A k \in (n + 1)..(n + m) : k \in DOMAIN events'
      BY <2>3
    <3>4. QED
      BY <3>1, <3>2 DEF Recorded
  <2>7. Cardinality((n + 1)..(n + m)) = m
    <3>1. CASE m = 0
      <4>1. (n + 1)..(n + m) = {}
        BY <1>2, <3>1
      <4>2. QED
        BY <3>1, <4>1, FS_EmptySet
    <3>2. CASE m # 0
      <4>1. n + 1 \in Int /\ n + m \in Int /\ n + 1 <= n + m /\ (n + m) - (n + 1) + 1 = m
        BY <1>2, <3>2
      <4>2. QED
        BY <4>1, FS_Interval
    <3>3. QED
      BY <3>1, <3>2
  <2>8. status'[r] = code /\ pc'[r] = "starting"
    BY <2>1 DEF Accounted, Correlated
  <2>9. Account(r)'
    BY <1>1, <1>2, <2>2, <2>5, <2>6, <2>7, <2>8 DEF Account, m
  <2>10. QED
    BY <2>1, <2>4, <2>9 DEF Accounted
<1>6. CASE ~(Len(log) < MaxEvents)
  <2>1. events' = log /\ pc' = [pc EXCEPT ![r] = "dropped"] /\ UNCHANGED status
    BY <1>6 DEF Conclude, log, E
  <2>2. \A q \in Requests \ {r} : Account(q)'
    <3> SUFFICES ASSUME NEW q \in Requests \ {r} PROVE Account(q)'
      OBVIOUS
    <3>1. pc'[q] = pc[q] /\ status'[q] = status[q]
      BY <2>1 DEF Accounted, Correlated
    <3>2. \A k \in DOMAIN events : k \in DOMAIN events' /\ events'[k] = events[k]
      BY <1>2, <2>1
    <3>3. \A k \in DOMAIN events' : events'[k].request = q => k \in DOMAIN events
      BY <1>2, <1>4, <2>1
    <3>4. QED
      BY <3>1, <3>2, <3>3, OthersAccounted
  <2>3. Account(r)'
    BY <2>1 DEF Account, Accounted, Correlated
  <2>4. QED
    BY <2>1, <2>2, <2>3 DEF Accounted
<1>7. QED
  BY <1>5, <1>6

\* The same without a call.
LEMMA RefusingAccounted ==
  ASSUME Accounted, Correlated', NEW r \in Requests, NEW tag \in Labels, NEW code \in Nat,
         OfRequest(r) = {}, Conclude(r, tag, code, events),
         DOMAIN route' = Requests, UNCHANGED made,
         \A q \in Requests \ {r} : route'[q] = route[q],
         route'[r] \in Pipeline => code # 200 /\ made[r] # "ok"
  PROVE  Accounted'
<1> DEFINE none == <<>>
<1>1. none \in Seq(Records) /\ DOMAIN none = {} /\ events \o none = events
  BY DEF Accounted, Correlated
<1> HIDE DEF none
<1>2. DOMAIN made' = Requests
  BY DEF Accounted
<1>3. Conclude(r, tag, code, events \o none)
  BY <1>1
<1>4. \A i \in DOMAIN none : none[i].request = r /\ none[i].operation = "stage"
  BY <1>1
<1>5. \A q \in Requests \ {r} : route'[q] = route[q] /\ made'[q] = made[q]
  OBVIOUS
<1>6. route'[r] \in Pipeline =>
        /\ code = 200 <=> made'[r] = "ok"
        /\ made'[r] = "ok" => Len(none) = Stages
  OBVIOUS
<1>7. QED
  BY <1>1, <1>2, <1>3, <1>4, <1>5, <1>6, ConcludingAccounted

LEMMA AccountNext == Accounted /\ [DeliveryNext]_delivery => Accounted'
<1> SUFFICES ASSUME Accounted, [DeliveryNext]_delivery PROVE Accounted'
  OBVIOUS
<1>0. Correlated' /\ Correlated /\ None # "ok"
  BY CorrelationNext, HttpAssumption DEF Accounted, Results
<1>1. ASSUME NEW r \in Requests, NEW what \in Routes, NEW header \in Ids \cup {None},
             Arrive(r, what, header)
      PROVE  Accounted'
  <2>1. /\ pc[r] = "new" /\ OfRequest(r) = {} /\ made[r] = None
        /\ route' = [route EXCEPT ![r] = what] /\ UNCHANGED made
        /\ id'[r] \in Labels /\ route'[r] = what
        /\ \A q \in Requests \ {r} : route'[q] = route[q]
    BY <1>0, <1>1 DEF Arrive, Accounted, Account, Correlated
  <2>2. CASE what = "no_path" /\ pc' = [pc EXCEPT ![r] = "dropped"] /\ UNCHANGED <<status, events>>
    <3>1. Account(r)'
      BY <2>1, <2>2 DEF Account, Accounted, Correlated
    <3>2. QED
      BY <1>0, <2>1, <2>2, <3>1, MovingAccounted
  <2>3. CASE what \in Pipeline /\ pc' = [pc EXCEPT ![r] = "body"] /\ UNCHANGED <<status, events>>
    <3>1. Account(r)'
      BY <2>1, <2>3 DEF Account, Accounted, Correlated, OfRequest
    <3>2. QED
      BY <1>0, <2>1, <2>3, <3>1, MovingAccounted
  <2>4. ASSUME NEW code \in Direct(what), Conclude(r, id'[r], code, events) PROVE Accounted'
    <3>1. code \in Nat /\ what \notin Pipeline
      BY <2>4 DEF Direct, Routes, Pipeline
    <3>2. DOMAIN route' = Requests
      BY <2>1 DEF Accounted
    <3>3. QED
      BY <1>0, <2>1, <2>4, <3>1, <3>2, RefusingAccounted
  <2>5. QED
    BY <1>1, <2>2, <2>3, <2>4 DEF Arrive
<1>2. ASSUME NEW r \in Requests, NEW code \in {400, 413, 500}, pc[r] = "body", Refuse(r, code)
      PROVE  Accounted'
  <2>1. OfRequest(r) = {} /\ made[r] = None /\ DOMAIN route = Requests /\ id[r] \in Labels
    BY <1>0, <1>2 DEF Accounted, Account, Correlated
  <2>2. QED
    BY <1>0, <1>2, <2>1, RefusingAccounted DEF Refuse
<1>3. ASSUME NEW r \in Requests, NEW place \in {"working", "sending", "done", "dropped"},
             \/ pc[r] = "body" /\ place = "working"
             \/ pc[r] \in {"starting", "sending"} /\ place # "working",
             pc' = [pc EXCEPT ![r] = place], UNCHANGED <<route, status, made, events>>
      PROVE  Accounted'
  <2>1. Account(r)'
    BY <1>3 DEF Account, Accounted, Correlated, OfRequest, Terminal, Recorded
  <2>2. QED
    BY <1>0, <1>3, <2>1, MovingAccounted
<1>4. CASE LoopStep
  <2>1. PICK r \in Requests :
          \/ \E what \in Routes, header \in Ids \cup {None} : Arrive(r, what, header)
          \/ \E n \in 0..(MaxBody + 1), more \in BOOLEAN : Receive(r, n, more)
          \/ Disconnect(r)
          \/ SendNext(r)
          \/ SendFails(r)
    BY <1>4 DEF LoopStep
  <2>2. ASSUME NEW n \in 0..(MaxBody + 1), NEW more \in BOOLEAN, Receive(r, n, more)
        PROVE  Accounted'
    <3>1. CASE \E code \in {400, 413, 500} : Refuse(r, code)
      BY <1>2, <2>2, <3>1 DEF Receive
    <3>2. CASE UNCHANGED <<pc, route, status, made, events>>
      <4>1. \A q \in Requests : Account(q)'
        BY <3>2, OthersAccounted
      <4>2. QED
        BY <1>0, <3>2, <4>1 DEF Accounted
    <3>3. CASE pc' = [pc EXCEPT ![r] = "working"] /\ UNCHANGED <<route, status, made, events>>
      BY <1>3, <2>2, <3>3 DEF Receive
    <3>4. QED
      BY <2>2, <3>1, <3>2, <3>3 DEF Receive
  <2>3. CASE Disconnect(r)
    BY <1>2, <2>3 DEF Disconnect
  <2>4. CASE SendNext(r)
    BY <1>3, <2>4 DEF SendNext
  <2>5. CASE SendFails(r)
    BY <1>3, <2>5 DEF SendFails
  <2>6. QED
    BY <1>1, <2>1, <2>2, <2>3, <2>4, <2>5
<1>5. CASE UNCHANGED http
  BY <1>0, <1>5 DEF http, Accounted, Account, OfRequest, Terminal, Recorded
<1>6. CASE Resume
  <2> DEFINE r == loop
             stage == Event(r, "stage", context[r], None)
             room == MaxEvents - Len(events)
  <2>1. PICK stages \in 0..Stages, result \in Results : Return(loop, stages, result)
    BY <1>6 DEF Resume
  <2> DEFINE n == IF stages > room THEN room ELSE stages
             added == [k \in 1..n |-> stage]
             how == IF stages > room THEN "failed" ELSE result
  <2>2. /\ r \in Requests /\ pc[r] = "working" /\ OfRequest(r) = {}
        /\ id[r] \in Labels /\ route[r] \in Pipeline
    BY <1>0, <2>1, <1>6 DEF Resume, Return, Accounted, Account, Correlated
  <2>3. /\ made' = [made EXCEPT ![r] = how] /\ UNCHANGED route
        /\ Conclude(r, id[r], StatusOf(how), events \o added)
        /\ result = "ok" => stages = Stages
    BY <2>1 DEF Return
  <2>4. stage \in Records /\ stage.request = r /\ stage.operation = "stage"
    BY <1>0, <2>2 DEF Correlated, Event, Records
  <2>5. StatusOf(how) \in Nat /\ (StatusOf(how) = 200 <=> how = "ok")
    BY DEF StatusOf, Results
  <2>6. added \in Seq(Records) /\ DOMAIN added = 1..n
    <3>1. n \in Int
      BY <1>0, HttpAssumption DEF Correlated
    <3> HIDE DEF n, stage
    <3>2. QED
      BY <2>4, <3>1, Repeated
  <2>7. how = "ok" => Len(added) = Stages
    <3>1. how = "ok" => n = Stages /\ Stages \in Nat
      BY <2>3, HttpAssumption
    <3> HIDE DEF n, stage, how
    <3>2. QED
      BY <2>6, <3>1
  <2> HIDE DEF n, stage, how
  <2>8. \A i \in DOMAIN added : added[i].request = r /\ added[i].operation = "stage"
    BY <2>4, <2>6
  <2>9. DOMAIN made' = Requests /\ made'[r] = how /\ DOMAIN route' = Requests
        /\ \A q \in Requests \ {r} : route'[q] = route[q] /\ made'[q] = made[q]
    BY <2>2, <2>3 DEF Accounted
  <2> HIDE DEF r, added
  <2>10. route'[r] \in Pipeline =>
           /\ StatusOf(how) = 200 <=> made'[r] = "ok"
           /\ made'[r] = "ok" => Len(added) = Stages
    BY <2>5, <2>7, <2>9
  <2>11. r \in Requests /\ id[r] \in Labels /\ OfRequest(r) = {}
         /\ StatusOf(how) \in Nat /\ added \in Seq(Records)
         /\ Conclude(r, id[r], StatusOf(how), events \o added)
    BY <2>2, <2>3, <2>5, <2>6
  <2>12. QED
    BY <1>0, <2>8, <2>9, <2>10, <2>11, ConcludingAccounted
<1>7. QED
  BY <1>4, <1>5, <1>6 DEF DeliveryNext, Serve, Operate, Within, delivery

\* What a client is told is what was recorded, and what happened.
THEOREM ResponsesAreRecorded == DeliverySpec => []ResponsesAreTrue
<1>1. Accounted => ResponsesAreTrue
  BY DEF Accounted, Account, ResponsesAreTrue
<1>2. QED
  BY <1>1, AccountInit, AccountNext, PTL DEF DeliverySpec

-----------------------------------------------------------------------------
(* bootstrap_assignment *)

\* The old content of a changed file once it was moved aside.
Aside(f) == backups[f] = IF before.files[f] = "user" THEN "user" ELSE "absent"

Kept(f) == files[f] = before.files[f] /\ backups[f] = "absent"

Active == {"stage", "loop", "install", "append", "restore", "rollback"}

\* What the call has decided to change.
Plan ==
  /\ ~before.root => before.files = NoFiles
  /\ progress \in {"inspect", "stage"} => committed = {} /\ \A f \in Files : Kept(f)
  /\ progress = "inspect" => root = before.root /\ changed = {}
  /\ progress \in Active =>
       /\ changed = {f \in Files : before.files[f] # "template"}
       /\ overwrite \/ \A f \in changed : before.files[f] = "absent"
  /\ progress # "done" => outcome = "none"

\* Where each file and its old content are.
FilesAccounted ==
  progress # "done" =>
    /\ \A f \in Files :
         \/ Kept(f)
         \/ f \in changed /\ Aside(f) /\ files[f] \in {"absent", "template"}
    /\ \A f \in committed : files[f] = "template" /\ Aside(f)

\* The file the loop is at.
AtCurrent ==
  /\ progress \in {"install", "append", "restore"} => current \in changed \ committed /\ Aside(current)
  /\ progress = "install" => files[current] = "absent"
  /\ progress = "append" => files[current] = "template"
  /\ progress = "restore" => files[current] \in {"absent", "template"}

\* Nothing else was touched; an interrupt can leave the current file behind.
Exact ==
  /\ \A f \in Files \ committed :
       \/ progress = "loop"
       \/ progress \in {"install", "append", "restore"} /\ f # current
       \/ progress = "rollback" /\ ~interrupts
       => Kept(f)
  /\ progress = "restore" /\ ~interrupts => files[current] = "absent"

EndedWell ==
  progress = "done" =>
    /\ FailureRestores
    /\ SuccessIsComplete
    /\ OnlyWithConsent

IInv == TypeOK /\ Plan /\ FilesAccounted /\ AtCurrent /\ Exact /\ EndedWell

-----------------------------------------------------------------------------

\* The call starts with every file as it was.
LEMMA InitInvariant == Init => IInv
<1> SUFFICES ASSUME Init PROVE IInv
  OBVIOUS
<1>1. TypeOK
  BY FileCountIsPositive DEF Init, TypeOK, Files, Contents, NoFiles
<1>2. \A f \in Files : Kept(f)
  BY DEF Init, Kept, NoFiles
<1>3. Plan
  BY <1>2 DEF Init, Plan, Active
<1>4. QED
  BY <1>1, <1>2, <1>3 DEF Init, IInv, FilesAccounted, AtCurrent, Exact, EndedWell

\* A failed call that touched no file it does not put back.
LEMMA CleaningUp ==
  ASSUME IInv, CleanUp, progress \in Active,
         UNCHANGED <<files, arguments, changed, committed, current>>,
         ~interrupts => files = before.files
  PROVE  IInv'
<1>1. TypeOK'
  BY DEF IInv, TypeOK, CleanUp, Ends, NoFiles, arguments
<1>2. FailureRestores'
  BY DEF IInv, TypeOK, Plan, FailureRestores, CleanUp, Ends, arguments
<1>3. OnlyWithConsent'
  BY DEF IInv, TypeOK, Plan, FilesAccounted, Kept, OnlyWithConsent, arguments, Active
<1>4. SuccessIsComplete'
  BY DEF SuccessIsComplete, CleanUp, Ends
<1>5. QED
  BY <1>1, <1>2, <1>3, <1>4
  DEF IInv, Plan, FilesAccounted, AtCurrent, Exact, EndedWell, CleanUp, Ends, Active, arguments

\* The comparison fixes what will change, and whether it may.
LEMMA Inspecting ==
  ASSUME IInv, Inspect
  PROVE  IInv'
<1>1. progress = "inspect" /\ UNCHANGED <<files, arguments, backups, committed, current>>
      /\ \A f \in Files : Kept(f)
  BY DEF Inspect, IInv, Plan
<1>2. CASE progress' = "done"
  <2>1. outcome' \in {"refused", "dry-run", "unchanged"} /\ root' = root /\ changed' = changed
    BY <1>2 DEF Inspect, Ends
  <2>2. outcome' = "unchanged" => Differing = {}
    BY <1>2 DEF Inspect, Ends
  <2>3. TypeOK'
    BY <1>1, <1>2, <2>1 DEF IInv, TypeOK, arguments
  <2>4. FailureRestores' /\ OnlyWithConsent'
    BY <1>1, <2>1 DEF FailureRestores, OnlyWithConsent, Kept, arguments
  <2>5. SuccessIsComplete'
    BY <1>1, <2>1, <2>2 DEF SuccessIsComplete, Differing
  <2>6. QED
    BY <1>1, <1>2, <2>3, <2>4, <2>5
    DEF IInv, Plan, FilesAccounted, AtCurrent, Exact, EndedWell, Active, arguments
<1>3. CASE progress' = "stage"
  <2>1. /\ changed' = Differing /\ outcome' = outcome /\ root' = TRUE
        /\ Colliding(Differing) = {} \/ overwrite
    BY <1>3 DEF Inspect, Ends
  <2>2. TypeOK'
    BY <1>1, <1>3, <2>1 DEF IInv, TypeOK, Plan, Differing, arguments
  <2>3. Plan'
    BY <1>1, <1>3, <2>1 DEF IInv, Plan, Kept, Differing, Colliding, Active, arguments
  <2>4. QED
    BY <1>1, <1>3, <2>2, <2>3
    DEF IInv, Plan, FilesAccounted, AtCurrent, Exact, EndedWell, Kept, arguments
<1>4. QED
  BY <1>2, <1>3 DEF Inspect, Ends

\* Copies into the staging directory leave the managed files alone.
LEMMA Staging ==
  ASSUME IInv, Stage
  PROVE  IInv'
<1>1. progress = "stage" /\ committed = {} /\ (\A f \in Files : Kept(f))
      /\ UNCHANGED <<files, arguments, changed, committed, current>>
  BY DEF Stage, IInv, Plan
<1>2. files = before.files
  BY <1>1 DEF IInv, TypeOK, Kept
<1>3. CASE CleanUp
  BY <1>1, <1>2, <1>3, CleaningUp DEF Active
<1>4. CASE progress' = "loop" /\ UNCHANGED <<root, backups, outcome>>
  BY <1>1, <1>4
  DEF IInv, TypeOK, Plan, FilesAccounted, AtCurrent, Exact, EndedWell, Kept, Aside, Active, arguments
<1>5. QED
  BY <1>3, <1>4 DEF Stage

\* A file that no handler would undo was still as it was before the call.
LEMMA BackingUp ==
  ASSUME IInv, BackUp
  PROVE  IInv'
<1>1. PICK f \in Files :
        /\ IsNext(f) /\ current' = f
        /\ \/ /\ IF files[f] = "absent" THEN UNCHANGED <<files, backups>> ELSE MoveAside(f)
              /\ progress' = "install"
           \/ progress' = "rollback" /\ UNCHANGED <<files, backups>>
           \/ interrupts /\ files[f] # "absent" /\ MoveAside(f) /\ progress' = "rollback"
  BY DEF BackUp
<1>2. /\ progress = "loop" /\ f \in changed \ committed /\ before.files[f] # "template"
      /\ UNCHANGED <<root, arguments, changed, committed, outcome>>
  BY <1>1 DEF BackUp, IsNext, IInv, Plan, Active
<1>3. CASE progress' = "rollback" /\ UNCHANGED <<files, backups>>
  BY <1>1, <1>2, <1>3
  DEF IInv, TypeOK, Plan, FilesAccounted, AtCurrent, Exact, EndedWell, Kept, Aside, Active, arguments
<1>4. CASE files[f] = "absent" /\ progress' = "install" /\ UNCHANGED <<files, backups>>
  <2>1. Aside(f)
    BY <1>2, <1>4 DEF IInv, TypeOK, FilesAccounted, Kept, Aside, Contents
  <2>2. QED
    BY <1>1, <1>2, <1>4, <2>1
    DEF IInv, TypeOK, Plan, FilesAccounted, AtCurrent, Exact, EndedWell, Kept, Aside, Active, arguments
<1>5. CASE /\ files[f] # "absent" /\ MoveAside(f)
           /\ progress' = "install" \/ (interrupts /\ progress' = "rollback")
  <2>1. Kept(f) /\ files[f] = "user"
    BY <1>2, <1>5 DEF IInv, TypeOK, Exact, Kept, Contents
  <2>2. files' = [files EXCEPT ![f] = "absent"] /\ backups' = [backups EXCEPT ![f] = "user"]
    BY <1>5, <2>1 DEF MoveAside
  <2>3. Aside(f)' /\ files'[f] = "absent"
    BY <1>2, <2>1, <2>2 DEF IInv, TypeOK, Kept, Aside, arguments
  <2>4. \A g \in Files \ {f} : files'[g] = files[g] /\ backups'[g] = backups[g]
    BY <2>2 DEF IInv, TypeOK
  <2>5. TypeOK'
    BY <1>1, <1>2, <1>5, <2>2 DEF IInv, TypeOK, Contents, arguments
  <2>6. QED
    BY <1>1, <1>2, <1>5, <2>3, <2>4, <2>5
    DEF IInv, TypeOK, Plan, FilesAccounted, AtCurrent, Exact, EndedWell, Kept, Aside, Active, arguments
<1>6. QED
  BY <1>1, <1>3, <1>4, <1>5

\* The new file takes the place of the one that was moved aside.
LEMMA Installing ==
  ASSUME IInv, Install
  PROVE  IInv'
<1>1. /\ progress = "install" /\ current \in changed \ committed /\ files[current] = "absent"
      /\ Aside(current)
      /\ UNCHANGED <<root, arguments, changed, backups, committed, current, outcome>>
  BY DEF Install, IInv, AtCurrent
<1>2. CASE progress' = "restore" /\ UNCHANGED files
  BY <1>1, <1>2
  DEF IInv, TypeOK, Plan, FilesAccounted, AtCurrent, Exact, EndedWell, Kept, Aside, Active, arguments
<1>3. CASE /\ files' = [files EXCEPT ![current] = "template"]
           /\ progress' = "append" \/ (interrupts /\ progress' = "restore")
  <2>1. files'[current] = "template" /\ \A g \in Files \ {current} : files'[g] = files[g]
    BY <1>1, <1>3 DEF IInv, TypeOK
  <2>2. TypeOK'
    BY <1>1, <1>3 DEF IInv, TypeOK, Contents, arguments
  <2>3. QED
    BY <1>1, <1>3, <2>1, <2>2
    DEF IInv, TypeOK, Plan, FilesAccounted, AtCurrent, Exact, EndedWell, Kept, Aside, Active, arguments
<1>4. QED
  BY <1>2, <1>3 DEF Install

\* A committed file is one the outer handler knows how to undo.
LEMMA Committing ==
  ASSUME IInv, Commit
  PROVE  IInv'
<1>1. progress = "append" /\ UNCHANGED <<files, root, arguments, changed, backups, current, outcome>>
  BY DEF Commit
<1>2. current \in changed \ committed /\ Aside(current) /\ files[current] = "template"
  BY <1>1 DEF IInv, AtCurrent
<1>3. CASE committed' = committed \cup {current} /\ progress' = "loop"
  BY <1>1, <1>2, <1>3
  DEF IInv, TypeOK, Plan, FilesAccounted, AtCurrent, Exact, EndedWell, Kept, Aside, Active, arguments
<1>4. CASE interrupts /\ progress' = "rollback" /\ UNCHANGED committed
  BY <1>1, <1>2, <1>4
  DEF IInv, TypeOK, Plan, FilesAccounted, AtCurrent, Exact, EndedWell, Kept, Aside, Active, arguments
<1>5. QED
  BY <1>3, <1>4 DEF Commit

\* The old content of f comes back.
LEMMA Restoring ==
  ASSUME IInv, RestoreCurrent
  PROVE  IInv'
<1>1. /\ progress = "restore" /\ progress' = "rollback" /\ PutBack(current)
      /\ UNCHANGED <<root, arguments, changed, committed, current, outcome>>
  BY DEF RestoreCurrent
<1>2. /\ current \in changed \ committed /\ Aside(current) /\ current \in Files
      /\ files[current] \in {"absent", "template"} /\ before.files[current] # "template"
  BY <1>1 DEF IInv, TypeOK, AtCurrent, Plan, Active
<1>3. /\ files' = [files EXCEPT ![current] =
                     IF backups[current] = "absent" THEN files[current] ELSE backups[current]]
      /\ backups' = [backups EXCEPT ![current] = "absent"]
  BY <1>1 DEF PutBack
<1>4. \A g \in Files \ {current} : files'[g] = files[g] /\ backups'[g] = backups[g]
  BY <1>3 DEF IInv, TypeOK
<1>5. /\ backups'[current] = "absent"
      /\ files'[current] = IF before.files[current] = "user" THEN "user" ELSE files[current]
  BY <1>2, <1>3 DEF IInv, TypeOK, Aside
<1>6. before.files[current] \in {"absent", "user"}
  BY <1>2 DEF IInv, TypeOK, Contents
<1>7. TypeOK'
  BY <1>1, <1>3 DEF IInv, TypeOK, Contents, arguments
<1>8. Plan'
  BY <1>1 DEF IInv, Plan, Active, arguments
<1>9. FilesAccounted'
  <2>1. Kept(current)' \/ (Aside(current)' /\ files'[current] \in {"absent", "template"})
    BY <1>1, <1>2, <1>5, <1>6 DEF Kept, Aside, arguments
  <2>2. \A g \in Files \ {current} :
          (Kept(g) => Kept(g)') /\ (Aside(g) => Aside(g)') /\ files'[g] = files[g]
    BY <1>1, <1>4 DEF Kept, Aside, arguments
  <2>3. QED
    BY <1>1, <1>2, <2>1, <2>2 DEF IInv, TypeOK, FilesAccounted
<1>10. Exact'
  BY <1>1, <1>2, <1>4, <1>5, <1>6 DEF IInv, Exact, Kept, arguments
<1>11. QED
  BY <1>1, <1>7, <1>8, <1>9, <1>10 DEF IInv, AtCurrent, EndedWell

\* Undoing one committed file brings it back to what it was.
LEMMA RollingBack ==
  ASSUME IInv, RollBack
  PROVE  IInv'
<1>1. progress = "rollback" /\ UNCHANGED <<arguments, changed, current>>
  BY DEF RollBack
<1>2. CASE \E f \in committed : /\ Undo(f) /\ committed' = committed \ {f}
                                /\ UNCHANGED <<root, progress, outcome>>
  <2>1. PICK f \in committed : Undo(f) /\ committed' = committed \ {f}
    BY <1>2
  <2>2. f \in changed /\ f \in Files /\ Aside(f) /\ before.files[f] \in {"absent", "user"}
    BY <1>1, <2>1 DEF IInv, TypeOK, FilesAccounted, Plan, Active, Contents
  <2>3. files' = [files EXCEPT ![f] = backups[f]] /\ backups' = [backups EXCEPT ![f] = "absent"]
    BY <2>1 DEF Undo
  <2>4. \A g \in Files \ {f} : files'[g] = files[g] /\ backups'[g] = backups[g]
    BY <2>3 DEF IInv, TypeOK
  <2>5. Kept(f)'
    BY <1>1, <2>2, <2>3 DEF IInv, TypeOK, Kept, Aside, arguments
  <2>6. TypeOK'
    BY <1>1, <1>2, <2>1, <2>2, <2>3 DEF IInv, TypeOK, Contents, arguments
  <2>7. Plan'
    BY <1>1, <1>2 DEF IInv, Plan, Active, arguments
  <2>8. FilesAccounted' /\ Exact'
    <3>1. \A g \in Files \ {f} :
            (Kept(g) => Kept(g)') /\ (Aside(g) => Aside(g)') /\ files'[g] = files[g]
      BY <1>1, <2>4 DEF Kept, Aside, arguments
    <3>2. FilesAccounted'
      BY <1>1, <1>2, <2>1, <2>5, <3>1 DEF IInv, TypeOK, FilesAccounted
    <3>3. Exact'
      BY <1>1, <1>2, <2>1, <2>5, <3>1 DEF IInv, Exact, arguments
    <3>4. QED
      BY <3>2, <3>3
  <2>9. QED
    BY <1>1, <1>2, <2>6, <2>7, <2>8 DEF IInv, AtCurrent, EndedWell
<1>3. CASE committed = {} /\ CleanUp /\ UNCHANGED <<files, committed>>
  <2>1. ~interrupts => files = before.files
    BY <1>1, <1>3 DEF IInv, TypeOK, Exact, Kept
  <2>2. QED
    BY <1>1, <1>3, <2>1, CleaningUp DEF Active
<1>4. QED
  BY <1>2, <1>3 DEF RollBack

\* Every changed file is committed, the others matched already.
LEMMA Finishing ==
  ASSUME IInv, Complete
  PROVE  IInv'
<1>1. progress = "loop" /\ changed = committed
      /\ UNCHANGED <<files, arguments, changed, committed, current>>
  BY DEF Complete
<1>2. CASE interrupts /\ CleanUp
  BY <1>1, <1>2, CleaningUp DEF Active
<1>3. CASE backups' = NoFiles /\ Ends("written") /\ UNCHANGED root
  <2>1. TypeOK'
    BY <1>1, <1>3 DEF IInv, TypeOK, Ends, NoFiles, arguments
  <2>2. SuccessIsComplete'
    BY <1>1 DEF IInv, TypeOK, Plan, FilesAccounted, Exact, Kept, SuccessIsComplete, Active
  <2>3. OnlyWithConsent'
    BY <1>1 DEF IInv, TypeOK, Plan, FilesAccounted, Kept, OnlyWithConsent, Active, arguments
  <2>4. FailureRestores'
    BY <1>3 DEF FailureRestores, Ends
  <2>5. QED
    BY <1>1, <1>3, <2>1, <2>2, <2>3, <2>4
    DEF IInv, Plan, FilesAccounted, AtCurrent, Exact, EndedWell, Ends, Active, arguments
<1>4. QED
  BY <1>2, <1>3 DEF Complete

\* Every step of the call accounts for every file.
LEMMA NextInvariant == IInv /\ [Next]_vars => IInv'
<1> SUFFICES ASSUME IInv, [Next]_vars PROVE IInv'
  OBVIOUS
<1>1. CASE UNCHANGED vars
  BY <1>1
  DEF vars, arguments, IInv, TypeOK, Plan, FilesAccounted, AtCurrent, Exact, EndedWell, Kept, Aside,
      FailureRestores, SuccessIsComplete, OnlyWithConsent
<1>2. QED
  BY <1>1, Inspecting, Staging, BackingUp, Installing, Committing, Restoring, RollingBack,
     Finishing DEF Next

\* The account holds throughout every call.
THEOREM Invariance == Spec => []IInv
<1>1. QED
  BY InitInvariant, NextInvariant, PTL DEF Spec

-----------------------------------------------------------------------------
(* Results *)

\* A call that no interrupt hits and that fails leaves everything as it was.
THEOREM RollbackIsComplete == Spec => []FailureRestores
<1>1. IInv => FailureRestores
  BY DEF IInv, Plan, EndedWell, FailureRestores
<1>2. QED
  BY <1>1, Invariance, PTL

\* Success means every file of the template, with or without interrupts.
THEOREM Completeness == Spec => []SuccessIsComplete
<1>1. IInv => SuccessIsComplete
  BY DEF IInv, Plan, EndedWell, SuccessIsComplete
<1>2. QED
  BY <1>1, Invariance, PTL

\* With or without interrupts, the user's files are safe without overwrite, and
\* within reach with it.
THEOREM UserFilesAreKept == Spec => [](OnlyWithConsent /\ OriginalsKept)
<1>1. IInv => OnlyWithConsent
  BY DEF IInv, TypeOK, Plan, FilesAccounted, Kept, EndedWell, OnlyWithConsent, Active
<1>2. IInv => OriginalsKept
  BY DEF IInv, FilesAccounted, Kept, Aside, OriginalsKept
<1>3. QED
  BY <1>1, <1>2, Invariance, PTL

=============================================================================
