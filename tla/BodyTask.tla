------------------------------ MODULE BodyTask ------------------------------
(***************************************************************************)
(* The task that polls a body, whatever the body is: it calls poll_frame   *)
(* until the body ends or fails, again after the end (the contract allows  *)
(* it), and after an error only if the documentation or tests of it do     *)
(* (the contract does not). After Pending it sleeps until a waker fires,   *)
(* and a waker fires only if the call that returned Pending has polled     *)
(* something that was pending itself: a body that returns Pending on its   *)
(* own hangs its task.                                                     *)
(***************************************************************************)
EXTENDS Bodies

VARIABLES
  returned,   \* the frames the task has been given, in order
  outcome,    \* "open", "end" after Ready(None), "error" after an error
  task,       \* "ready", "parked" after Pending
  woken       \* what returned Pending last has kept the task's waker

taskVars == <<returned, outcome, task, woken>>

TaskTypeOK ==
  /\ returned \in Seq(AnyFrame)
  /\ outcome \in {"open", "end", "error"}
  /\ task \in {"ready", "parked"}
  /\ woken \in BOOLEAN

TaskInit ==
  /\ returned = <<>> /\ outcome = "open"
  /\ task = "ready" /\ woken = FALSE

MayPoll == task = "ready" /\ outcome # "error"

\* poll_frame gives r; last is what it polled last. None after an error leaves
\* the outcome an error, an error after None does not go unnoticed.
Answer(r, last) ==
  /\ returned' = IF IsFrame(r) THEN Append(returned, r) ELSE returned
  /\ outcome' = IF r = Failure \/ (r = End /\ outcome = "open") THEN r.kind
                ELSE outcome
  /\ task' = IF r = Pending THEN "parked" ELSE "ready"
  /\ woken' = (last = Pending)

\* The waker fires.
Wake ==
  /\ task = "parked" /\ woken
  /\ task' = "ready"
  /\ UNCHANGED <<returned, outcome, woken>>

\* The task is done with the body: it ended, or it has to be discarded.
TaskDone == outcome # "open" /\ UNCHANGED taskVars
=============================================================================
