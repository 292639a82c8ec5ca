------------------------------- MODULE Deadline -------------------------------
(***************************************************************************)
(* run_with_deadline: one SIGALRM timer around one synchronous operation.  *)
(*                                                                         *)
(* An alarm that goes off is first only noted by the interpreter and runs  *)
(* its handler, which raises, before the next step of the main thread:     *)
(* within the operation, but also within run_with_deadline itself, whose   *)
(* own clean-up is then cut short.  Nobody else uses the timer.            *)
(***************************************************************************)

VARIABLES
  handler,  \* what SIGALRM does: "default" ends the process, "expired" raises
  saved,    \* the handler to put back
  timer,    \* whether the timer is running
  noted,    \* whether an alarm has gone off whose handler has not run yet
  at,       \* where run_with_deadline is, "out" if it is not running
  ended     \* how it ended: "none", "value", "error", "timeout", "unsupported", "killed"

clock == <<handler, saved, timer, noted, at, ended>>

DeadlineInit ==
  /\ handler = "default" /\ saved = "default"
  /\ timer = FALSE /\ noted = FALSE
  /\ at = "out" /\ ended = "none"

\* A step of the main thread from one place to the next: not before a noted alarm.
Goto(from, to) == at = from /\ ~noted /\ ended # "killed" /\ at' = to

\* The call, and the saving of the handler; a timer is refused on other threads.
Enter(mainThread) ==
  /\ at = "out" /\ ~noted /\ ended # "killed"
  /\ IF mainThread
       THEN at' = "arm" /\ ended' = "none" /\ saved' = handler /\ handler' = "expired"
       ELSE at' = "out" /\ ended' = "unsupported" /\ UNCHANGED <<saved, handler>>
  /\ UNCHANGED <<timer, noted>>

\* Mutant: the timer is never started.
ArmWithoutTimer ==
  /\ Goto("arm", "armed") /\ UNCHANGED timer
  /\ UNCHANGED <<handler, saved, noted, ended>>

Arm ==
  /\ Goto("arm", "armed") /\ timer' = TRUE
  /\ UNCHANGED <<handler, saved, noted, ended>>

\* The try is entered, from where on the clean-up is sure to begin.
Try ==
  /\ Goto("armed", "operation")
  /\ UNCHANGED <<handler, saved, timer, noted, ended>>

\* The operation returns a value or raises an error of its own.
Finish ==
  /\ Goto("operation", "disarm")
  /\ ended' \in {"value", "error"}
  /\ UNCHANGED <<handler, saved, timer, noted>>

\* Mutant: the handler is put back before the timer is.
DisarmHandlerFirst ==
  /\ Goto("disarm", "restore") /\ handler' = saved
  /\ UNCHANGED <<saved, timer, noted, ended>>

\* finally: first the timer, whose previous setting is off ...
Disarm ==
  /\ Goto("disarm", "restore") /\ timer' = FALSE
  /\ UNCHANGED <<handler, saved, noted, ended>>

\* ... then the handler.
Restore ==
  /\ Goto("restore", "out") /\ handler' = saved /\ timer' = FALSE
  /\ UNCHANGED <<saved, noted, ended>>

\* The alarm goes off.
Fire ==
  /\ timer /\ ended # "killed"
  /\ timer' = FALSE
  /\ IF handler = "default" THEN ended' = "killed" /\ UNCHANGED noted
                            ELSE noted' = TRUE /\ UNCHANGED ended
  /\ UNCHANGED <<handler, saved, at>>

\* expired raises: in the operation, which may hand the error on under another
\* name, or in run_with_deadline before or after it, the rest of which does not
\* run then.
Deliver ==
  /\ noted /\ noted' = FALSE
  /\ IF at = "operation"
       THEN at' = "disarm" /\ ended' \in {"timeout", "error"}
       ELSE at' = "out" /\ ended' = "timeout"
  /\ UNCHANGED <<handler, saved, timer>>

DeadlineStep == Arm \/ Try \/ Finish \/ Disarm \/ Restore \/ Fire \/ Deliver

-----------------------------------------------------------------------------
\* Outside of run_with_deadline there is no alarm left that could interrupt whatever
\* runs next, though the clean-up can be cut short at every step; an alarm never
\* meets the default action; and a value that is handed out was in time.
\* (the order of the two calls in finally)
AlarmsStayInside ==
  /\ at = "out" => ~timer /\ ~noted
  /\ timer => handler = "expired"
  /\ ended # "killed"
  /\ at = "out" /\ ended = "value" => handler = saved

=============================================================================
