-------------------------------- MODULE TLog --------------------------------
(***************************************************************************)
(* The TLog endpoint (endpoints/tlog.rs) under its supervisor: it writes   *)
(* every message of the bus to a file, through a buffer that it flushes    *)
(* once a second and before it returns.  Each run has a file of its own.   *)
(***************************************************************************)
EXTENDS MessageBus, Supervisor, FiniteSets, SequencesExt

\* Receiver is {"tlog"}.
CONSTANTS
  MaxSent,     \* bound: how many messages are published
  MaxErrors    \* bound: how often opening, writing or flushing fails

VARIABLES
  task,        \* where the task is: "opening", "select", "closing" or "over"
  buffered,    \* positions in the BufWriter
  written,     \* history: positions in the files, in the order of writing
  bus_lagged,
  errors,      \* history: how often the task has failed
  handled,     \* history: positions received from the bus
  away         \* history: positions sent while there was no receiver, or
               \* unread when the receiver was dropped

vars == <<sent, cursor, phase, cancelled, task, buffered, written, bus_lagged, errors,
          handled, away>>

Position == 1 .. Len(sent)

-----------------------------------------------------------------------------

\* The supervisor starts the task at once, with a receiver.
Init ==
  /\ sent = <<>> /\ cursor = [r \in Receiver |-> 0]
  /\ phase = [t \in Receiver |-> "running"] /\ cancelled = {}
  /\ task = "opening"
  /\ buffered = <<>> /\ written = <<>>
  /\ bus_lagged = 0 /\ errors = 0
  /\ handled = {} /\ away = {}

Publish(m) ==
  /\ Len(sent) < MaxSent
  /\ sent' = Append(sent, m)
  /\ away' = IF task = "over" THEN away \cup {Len(sent) + 1} ELSE away
  /\ UNCHANGED <<cursor, phase, cancelled, task, buffered, written, bus_lagged, errors,
                 handled>>

Cancel ==
  /\ cancelled = {} /\ cancelled' = Receiver
  /\ UNCHANGED <<sent, cursor, phase, task, buffered, written, bus_lagged, errors, handled,
                 away>>

\* Mutant of Over: the buffer outlives the run.
OverKeepingBuffer(past) ==
  /\ task' = "over"
  /\ UNCHANGED buffered
  /\ away' = away \cup ((past + 1) .. Len(sent))

\* The task is over: it drops the writer, with what is buffered, and the receiver.
Over(past) ==
  /\ task' = "over"
  /\ buffered' = <<>>
  /\ away' = away \cup ((past + 1) .. Len(sent))

Fail(past) ==
  /\ errors < MaxErrors /\ errors' = errors + 1
  /\ TaskEnds("tlog")
  /\ Over(past)

-----------------------------------------------------------------------------
(* The task.  A branch that is ready may be taken although the token is    *)
(* cancelled.                                                              *)

OpenFile ==
  /\ task = "opening" /\ task' = "select"
  /\ UNCHANGED <<sent, cursor, phase, cancelled, buffered, written, bus_lagged, errors,
                 handled, away>>

OpenFails ==
  /\ task = "opening"
  /\ Fail(cursor["tlog"])
  /\ UNCHANGED <<sent, cursor, cancelled, written, bus_lagged, handled>>

\* Mutant of Lagged: one is counted for each report.
LaggedOnce ==
  /\ task = "select"
  /\ HasLagged("tlog")
  /\ bus_lagged' = bus_lagged + 1
  /\ SkipMissed("tlog")
  /\ UNCHANGED <<sent, phase, cancelled, task, buffered, written, errors, handled, away>>

Lagged ==
  /\ task = "select"
  /\ HasLagged("tlog")
  /\ bus_lagged' = bus_lagged + Missed("tlog")
  /\ SkipMissed("tlog")
  /\ UNCHANGED <<sent, phase, cancelled, task, buffered, written, errors, handled, away>>

\* recv(), and the two write_all into the buffer.
Receive ==
  /\ task = "select"
  /\ CanReceive("tlog") /\ TakeNext("tlog")
  /\ handled' = handled \cup {NextPosition("tlog")}
  /\ buffered' = Append(buffered, NextPosition("tlog"))
  /\ UNCHANGED <<sent, phase, cancelled, task, written, bus_lagged, errors, away>>

\* The buffer is full, or a flush is under way: the file takes some of it.
Spill ==
  /\ task \in {"select", "closing"}
  /\ \E n \in DOMAIN buffered :
       /\ written' = written \o SubSeq(buffered, 1, n)
       /\ buffered' = SubSeq(buffered, n + 1, Len(buffered))
  /\ UNCHANGED <<sent, cursor, phase, cancelled, task, bus_lagged, errors, handled, away>>

\* write_all fails, when the buffer has to make room for a message.
WriteFails ==
  /\ task = "select" /\ buffered # <<>>
  /\ CanReceive("tlog") /\ TakeNext("tlog")
  /\ handled' = handled \cup {NextPosition("tlog")}
  /\ Fail(NextPosition("tlog"))
  /\ UNCHANGED <<sent, cancelled, written, bus_lagged>>

\* Mutant of PeriodicFlush: the timer does nothing.
PeriodicNothing ==
  /\ task = "select" /\ buffered # <<>>
  /\ UNCHANGED vars

\* flush_interval.tick(), when there is something to flush.
PeriodicFlush ==
  /\ task = "select" /\ buffered # <<>>
  /\ written' = written \o buffered /\ buffered' = <<>>
  /\ UNCHANGED <<sent, cursor, phase, cancelled, task, bus_lagged, errors, handled, away>>

PeriodicFlushFails ==
  /\ task = "select" /\ buffered # <<>>
  /\ Fail(cursor["tlog"])
  /\ UNCHANGED <<sent, cursor, cancelled, written, bus_lagged, handled>>

SeeCancelled ==
  /\ task = "select" /\ cancelled # {}
  /\ task' = "closing"
  /\ UNCHANGED <<sent, cursor, phase, cancelled, buffered, written, bus_lagged, errors,
                 handled, away>>

\* The last flush, and the return, Ok in any case.
Close ==
  /\ task = "closing"
  /\ written' = written \o buffered
  /\ TaskEnds("tlog")
  /\ Over(cursor["tlog"])
  /\ UNCHANGED <<sent, cursor, cancelled, bus_lagged, errors, handled>>

CloseFails ==
  /\ task = "closing" /\ buffered # <<>>
  /\ Fail(cursor["tlog"])
  /\ UNCHANGED <<sent, cursor, cancelled, written, bus_lagged, handled>>

-----------------------------------------------------------------------------
(* The supervisor.                                                         *)

Drop ==
  /\ DropTask("tlog")
  /\ Over(cursor["tlog"])
  /\ UNCHANGED <<sent, cursor, cancelled, written, bus_lagged, errors, handled>>

Backoff ==
  /\ BackoffEnds("tlog") \/ StopWaiting("tlog")
  /\ UNCHANGED <<sent, cursor, cancelled, task, buffered, written, bus_lagged, errors,
                 handled, away>>

\* The factory subscribes, and the task begins with a new file.
Restart ==
  /\ WakeUp("tlog")
  /\ Subscribe("tlog")
  /\ task' = "opening"
  /\ UNCHANGED <<sent, cancelled, buffered, written, bus_lagged, errors, handled, away>>

Next ==
  \/ \E m \in Message : Publish(m)
  \/ Cancel
  \/ OpenFile \/ OpenFails
  \/ Lagged \/ Receive \/ Spill \/ WriteFails
  \/ PeriodicFlush \/ PeriodicFlushFails
  \/ SeeCancelled \/ Close \/ CloseFails
  \/ Drop \/ Backoff \/ Restart

Spec == Init /\ [][Next]_vars

\* The runtime polls what is ready: the file, the timer, the token, the backoff.
Fairness ==
  /\ WF_vars(OpenFile) /\ WF_vars(PeriodicFlush)
  /\ WF_vars(SeeCancelled) /\ WF_vars(Close)
  /\ WF_vars(Drop) /\ WF_vars(Backoff)

LiveSpec == Spec /\ Fairness

-----------------------------------------------------------------------------
(* Correctness.                                                            *)

\* The task and its supervisor agree on whether it runs, and only a task that
\* runs holds a buffer.
TypeOK ==
  /\ sent \in Seq(Message) /\ cursor \in [Receiver -> 0 .. Len(sent)]
  /\ phase \in [Receiver -> Phase] /\ cancelled \in {{}, Receiver}
  /\ task \in {"opening", "select", "closing", "over"}
  /\ (task = "over") <=> (phase["tlog"] # "running")
  /\ buffered \in Seq(Position) /\ written \in Seq(Position)
  /\ task \in {"opening", "over"} => buffered = <<>>
  /\ bus_lagged \in Nat /\ errors \in Nat
  /\ handled \in SUBSET Position /\ away \in SUBSET Position

\* The files hold the messages in the order of the bus, none twice, over lags,
\* failures and restarts with new files.
LogInOrder ==
  LET log == written \o buffered
  IN \A i, j \in DOMAIN log : i < j => log[i] < log[j]

\* "Dropping TLog-bound messages is a correctness signal, not noise -- count it"
\* (tlog.rs:117-121): what the bus overran, and nothing else, is in bus_lagged.
LagCounted ==
  bus_lagged = Cardinality((1 .. cursor["tlog"]) \ (handled \cup away))

\* A message that was received is on its way into a file, "periodic flush to ensure
\* data is written to disk" (tlog.rs:93): in the end it is there or the run that had
\* received it is over.
WrittenInTheEnd ==
  \A p \in 1 .. MaxSent : p \in ToSet(buffered) ~> p \notin ToSet(buffered)

\* Cancellation ends the supervisor, whatever the task and the backoff are doing.
StopsOnCancel == cancelled # {} ~> phase["tlog"] = "stopped"

\* "Ensure all buffered data is written before exiting" (tlog.rs:135): when the
\* logger has stopped and no write has failed, all that it received is in its files.
FlushedBeforeExit ==
  phase["tlog"] = "stopped" /\ errors = 0 => handled \subseteq ToSet(written)
=============================================================================
