----------------------------- MODULE Supervisor -----------------------------
(***************************************************************************)
(* supervise (orchestration/supervisor.rs): every endpoint runs under a    *)
(* supervisor that starts it again, after a wait, whenever it ends, until  *)
(* its token is cancelled.  Both of its selects watch the token and poll   *)
(* their branches in random order: a task may still act, and even end,     *)
(* after the cancellation, but at any of its awaits the supervisor may     *)
(* drop it.                                                                *)
(***************************************************************************)
VARIABLES
  phase,       \* [supervised task spawned -> where its supervisor is]
  cancelled    \* supervised tasks whose token is cancelled

\* "running": the task has been started.  "waiting": it ended, the backoff is on.
\* "due": the backoff is over.  "stopped": the supervisor has returned.
Phase == {"running", "waiting", "due", "stopped"}

Move(t, to) == phase' = [phase EXCEPT ![t] = to]

\* Mutant of TaskEnds: a task that returns is not started again.
TaskEndsForGood(t) ==
  /\ phase[t] = "running"
  /\ Move(t, "stopped")

\* The task returns, with or without an error.
TaskEnds(t) ==
  /\ phase[t] = "running"
  /\ Move(t, "waiting")

\* The select takes the cancelled branch and drops the task, wherever it is.
DropTask(t) ==
  /\ phase[t] = "running" /\ t \in cancelled
  /\ Move(t, "stopped")

\* The sleep ends.  (One that begins after the cancellation never does: the token
\* is ready first.)
BackoffEnds(t) ==
  /\ phase[t] = "waiting" /\ t \notin cancelled
  /\ Move(t, "due")

\* A sleep that had ended before may still win.
WakeUp(t) ==
  /\ phase[t] = "due"
  /\ Move(t, "running")

\* Mutant of StopWaiting: only the select around the task watches the token.
WaitOn(t) == FALSE /\ UNCHANGED phase

StopWaiting(t) ==
  /\ phase[t] \in {"waiting", "due"} /\ t \in cancelled
  /\ Move(t, "stopped")
=============================================================================
