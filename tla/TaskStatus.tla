----------------------------- MODULE TaskStatus -----------------------------
(***************************************************************************)
(* What the execution and training endpoints promise a client that polls a *)
(* task: the sequence of statuses the client can observe, whatever the     *)
(* worker, the primary storage and the emergency record store do behind    *)
(* the endpoint.  TaskLifecycle implements this specification with its     *)
(* ClientView as the status.                                               *)
(*                                                                         *)
(*   "NOT_FOUND" -> "PENDING" -> "STARTED" -> "RUNNING" -> "COMPLETED"     *)
(*                                                                         *)
(* A task fails from any of these states; it is stopped only when somebody *)
(* asked for it.  The one way out of a final status is from "FAILED" to    *)
(* "STOPPED": a stop whose first writes failed still ends in "STOPPED".    *)
(***************************************************************************)
EXTENDS Naturals

CONSTANT Tasks

VARIABLES
  status,   \* status[t]: what a client that polls task t is told
  asked     \* the tasks somebody asked to stop

vars == <<status, asked>>

Statuses ==
  {"NOT_FOUND", "PENDING", "STARTED", "RUNNING", "COMPLETED", "FAILED", "STOPPED"}

Active == {"PENDING", "STARTED", "RUNNING"}

Init ==
  /\ status = [t \in Tasks |-> "NOT_FOUND"]
  /\ asked = {}

Become(t, s) ==
  /\ status' = [status EXCEPT ![t] = s]
  /\ UNCHANGED asked

\* A submission is accepted, or fails before the task exists.
Accept(t) ==
  /\ status[t] = "NOT_FOUND"
  /\ Become(t, "PENDING") \/ Become(t, "FAILED")

Progress(t) ==
  \/ status[t] = "PENDING" /\ Become(t, "STARTED")
  \/ status[t] = "STARTED" /\ Become(t, "RUNNING")
  \/ status[t] = "RUNNING" /\ Become(t, "COMPLETED")

Fail(t) ==
  /\ status[t] \in Active
  /\ Become(t, "FAILED")

Ask(t) ==
  /\ status[t] # "NOT_FOUND"
  /\ asked' = asked \union {t}
  /\ UNCHANGED status

Stop(t) ==
  /\ t \in asked
  /\ status[t] \in Active \union {"FAILED"}
  /\ Become(t, "STOPPED")

Next == \E t \in Tasks : Accept(t) \/ Progress(t) \/ Fail(t) \/ Ask(t) \/ Stop(t)

Spec == Init /\ [][Next]_vars

=============================================================================
