--------------------------- MODULE SerialEndpoint ---------------------------
(***************************************************************************)
(* A serial endpoint (endpoints/serial.rs) under its supervisor.  Each     *)
(* start takes the next baud rate of the configured list                   *)
(* (orchestration.rs) and opens the port on a thread for blocking calls,   *)
(* with a timeout; an open that has timed out, or whose start was dropped, *)
(* goes on in its thread.  What then runs is a stream loop, reduced here   *)
(* to how it ends.                                                         *)
(***************************************************************************)
EXTENDS Supervisor, Naturals

CONSTANTS
  NumRates,   \* length of the configured list of baud rates, not 0 (validate.rs)
  MaxStuck    \* bound: threads that are stuck in an open

VARIABLES
  port,        \* "opening", "loop" or "over"
  baud_index,  \* how often a rate has been taken, modulo NumRates
  rate,        \* index of the current rate
  stuck        \* opens that nobody waits for any more

vars == <<phase, cancelled, port, baud_index, rate, stuck>>

-----------------------------------------------------------------------------

\* Mutant of NextRate: the index stays.
SameRate == rate' = baud_index + 1 /\ UNCHANGED baud_index

NextRate ==
  /\ rate' = baud_index + 1
  /\ baud_index' = (baud_index + 1) % NumRates

\* The supervisor calls the factory for the first time.
Init ==
  /\ phase = [t \in {"serial"} |-> "running"] /\ cancelled = {}
  /\ port = "opening"
  /\ rate = 1 /\ baud_index = 1 % NumRates
  /\ stuck = 0

Cancel ==
  /\ cancelled = {} /\ cancelled' = {"serial"}
  /\ UNCHANGED <<phase, port, baud_index, rate, stuck>>

Open ==
  /\ port = "opening" /\ port' = "loop"
  /\ UNCHANGED <<phase, cancelled, baud_index, rate, stuck>>

OpenFails ==
  /\ port = "opening" /\ port' = "over"
  /\ TaskEnds("serial")
  /\ UNCHANGED <<cancelled, baud_index, rate, stuck>>

\* apply_open_timeout gives up; the thread does not.
OpenTimesOut ==
  /\ port = "opening" /\ port' = "over"
  /\ stuck < MaxStuck /\ stuck' = stuck + 1
  /\ TaskEnds("serial")
  /\ UNCHANGED <<cancelled, baud_index, rate>>

\* An open returns too late; the port is closed again.
LateOpen ==
  /\ stuck > 0 /\ stuck' = stuck - 1
  /\ UNCHANGED <<phase, cancelled, port, baud_index, rate>>

\* run_stream_loop returns: end of file, an error, or the token.
LoopEnds ==
  /\ port = "loop" /\ port' = "over"
  /\ TaskEnds("serial")
  /\ UNCHANGED <<cancelled, baud_index, rate, stuck>>

\* The supervisor drops the task, which may be waiting for an open.
Drop ==
  /\ DropTask("serial")
  /\ port' = "over"
  /\ \/ port = "opening" /\ stuck < MaxStuck /\ stuck' = stuck + 1
     \/ port = "loop" /\ UNCHANGED stuck
  /\ UNCHANGED <<cancelled, baud_index, rate>>

Backoff ==
  /\ BackoffEnds("serial") \/ StopWaiting("serial")
  /\ UNCHANGED <<cancelled, port, baud_index, rate, stuck>>

Restart ==
  /\ WakeUp("serial")
  /\ port' = "opening"
  /\ NextRate
  /\ UNCHANGED <<cancelled, stuck>>

Next ==
  \/ Cancel
  \/ Open \/ OpenFails \/ OpenTimesOut \/ LateOpen \/ LoopEnds
  \/ Drop \/ Backoff \/ Restart

\* An open ends, if only by the timeout, and so does the backoff; a loop need not.
Fairness ==
  /\ WF_vars(Open \/ OpenFails \/ OpenTimesOut)
  /\ WF_vars(Backoff) /\ WF_vars(Restart)

-----------------------------------------------------------------------------

\* The variables have their types, and the port is in use only while the supervisor
\* runs the task.
TypeOK ==
  /\ phase \in [{"serial"} -> Phase] /\ cancelled \subseteq {"serial"}
  /\ port \in {"opening", "loop", "over"}
  /\ (port = "over") <=> (phase["serial"] # "running")
  /\ baud_index \in 0 .. NumRates - 1 /\ rate \in 1 .. NumRates
  /\ stuck \in 0 .. MaxStuck

\* "List of baud rates to cycle through" (config/endpoint.rs:17): whatever goes wrong in
\* a start, every rate is tried again and again, unless a loop keeps running or the
\* endpoint is cancelled.
EveryRateTried ==
  \A r \in 1 .. NumRates :
    \/ []<>(port = "opening" /\ rate = r)
    \/ <>[](port = "loop" \/ cancelled # {})
=============================================================================
