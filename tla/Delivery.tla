------------------------------- MODULE Delivery -------------------------------
(***************************************************************************)
(* The HTTP server with a pipeline whose extraction runs under deadlines:  *)
(* vision inference under one, transcription and scene detection of media  *)
(* under two, one after the other, all on the thread of the event loop.    *)
(***************************************************************************)
EXTENDS HttpApp, Deadline

CONSTANT MaxOperations   \* bound: operations under a deadline in a call

VARIABLES mainThread,    \* whether the loop runs on the main thread
          left           \* operations that the current call still has to run

delivery == <<http, clock, mainThread, left>>

DeliveryInit ==
  /\ HttpInit /\ DeadlineInit
  /\ mainThread \in BOOLEAN /\ left = 0

\* A request that is accepted decides how many operations its call needs: an
\* index run over vision or media assets, one or more each; ask needs none.
Serve ==
  /\ LoopStep /\ UNCHANGED <<clock, mainThread>>
  /\ IF loop' = None THEN UNCHANGED left
     ELSE left' \in IF route[loop'] = "index" THEN 0..MaxOperations ELSE {0}

Operate ==
  /\ loop # None /\ left > 0
  /\ Enter(mainThread)
  /\ left' = left - 1
  /\ UNCHANGED <<http, mainThread>>

Within == DeadlineStep /\ UNCHANGED <<http, mainThread, left>>

\* An operation that did not give a value ends the call, which can fail without one too.
Ended(result) ==
  CASE ended \in {"timeout", "error"} -> result = "failed"
    [] ended = "unsupported"          -> result = "unsupported"
    [] ended = "killed"               -> FALSE
    [] OTHER                          -> left = 0 \/ result # "ok"

Resume ==
  /\ loop # None /\ at = "out" /\ ~noted
  /\ \E stages \in 0..Stages, result \in Results :
       Ended(result) /\ Return(loop, stages, result)
  /\ ended' = "none" /\ left' = 0
  /\ UNCHANGED <<handler, saved, timer, noted, at, mainThread>>

DeliveryNext == Serve \/ Operate \/ Within \/ Resume

\* The loop serves every task that can go on, and Python every statement; a timer
\* runs out, and a model's code comes back to the interpreter, which then raises.
\* Nothing makes an operation finish, and nobody makes a client send.
Fairness ==
  /\ \A r \in Requests : WF_delivery(SendNext(r) /\ UNCHANGED <<clock, mainThread, left>>)
  /\ WF_delivery(Operate) /\ WF_delivery(Resume)
  /\ \A step \in {"arm", "armed", "disarm", "restore"} :
       WF_delivery(at = step /\ Within)
  /\ WF_delivery(Fire /\ UNCHANGED <<http, mainThread, left>>)
  /\ WF_delivery(Deliver /\ UNCHANGED <<http, mainThread, left>>)

DeliverySpec == DeliveryInit /\ [][DeliveryNext]_delivery /\ Fairness

-----------------------------------------------------------------------------
\* A request whose body has arrived is answered or dropped, even if an operation
\* of some request never comes back by itself: its deadline frees the loop for
\* everybody.  (run_with_deadline, called on the event loop)
EveryRequestEnds ==
  \A r \in Requests : pc[r] \in {"working", "starting", "sending"} ~> pc[r] \in {"done", "dropped"}

=============================================================================
