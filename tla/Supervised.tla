----------------------------- MODULE Supervised ------------------------------
(***************************************************************************)
(* Three supervised endpoints that share no variable: a TCP server with    *)
(* its clients, the logger, and a serial endpoint.  In a behaviour one of  *)
(* them runs; the others have stopped before.                              *)
(***************************************************************************)
EXTENDS TcpConnections

CONSTANTS
  LogBusCapacity,   \* messages that the bus of the logger keeps
  LogMessage,       \* what is published on it
  LogMaxSent,       \* bound: how many messages are published on it
  LogMaxErrors,     \* bound: how often the logger fails
  NumRates,         \* length of the serial endpoint's list of baud rates, not 0 (validate.rs)
  MaxStuck          \* bound: its threads that are stuck in an open

ASSUME SupervisedAssumption ==
  /\ LogBusCapacity \in Nat \ {0} /\ LogMaxSent \in Nat /\ LogMaxErrors \in Nat
  /\ NumRates \in Nat \ {0} /\ MaxStuck \in Nat

VARIABLE part

tcpVars == vars

-----------------------------------------------------------------------------
(* The logger, the one receiver of its bus.                                *)

VARIABLES sent, cursor, log_phase, log_cancelled, task, buffered, written, bus_lagged,
          log_errors, handled, away

logVars == <<sent, cursor, log_phase, log_cancelled, task, buffered, written, bus_lagged,
             log_errors, handled, away>>

Log == INSTANCE TLog WITH
  phase <- log_phase, cancelled <- log_cancelled, errors <- log_errors,
  Receiver <- {"tlog"}, Message <- LogMessage, BusCapacity <- LogBusCapacity,
  MaxSent <- LogMaxSent, MaxErrors <- LogMaxErrors

-----------------------------------------------------------------------------
(* The serial endpoint.                                                    *)

VARIABLES serial_phase, serial_cancelled, port, baud_index, rate, stuck

serialVars == <<serial_phase, serial_cancelled, port, baud_index, rate, stuck>>

Serial == INSTANCE SerialEndpoint WITH
  phase <- serial_phase, cancelled <- serial_cancelled

-----------------------------------------------------------------------------
(* Stopped, after a cancellation.                                          *)

TcpStopped ==
  /\ phase = [t \in {"server"} |-> "stopped"] /\ cancelled = {"server"} \cup Peer
  /\ server = "over"
  /\ backlog = <<>> /\ join_set = {} /\ aborted = {}
  /\ conns = [id \in {} |-> 0]
  /\ client = [p \in Peer |-> "over"]
  /\ errors = 0

LogStopped ==
  /\ sent = <<>> /\ cursor = [r \in {"tlog"} |-> 0]
  /\ log_phase = [t \in {"tlog"} |-> "stopped"] /\ log_cancelled = {"tlog"}
  /\ task = "over"
  /\ buffered = <<>> /\ written = <<>>
  /\ bus_lagged = 0 /\ log_errors = 0
  /\ handled = {} /\ away = {}

SerialStopped ==
  /\ serial_phase = [t \in {"serial"} |-> "stopped"] /\ serial_cancelled = {"serial"}
  /\ port = "over" /\ rate = 1 /\ baud_index = 1 % NumRates /\ stuck = 0

PartsInit ==
  \/ part = "tcp" /\ Init /\ LogStopped /\ SerialStopped
  \/ part = "log" /\ TcpStopped /\ Log!Init /\ SerialStopped
  \/ part = "serial" /\ TcpStopped /\ LogStopped /\ Serial!Init

PartsNext ==
  \/ part = "tcp" /\ Next /\ UNCHANGED <<part, logVars, serialVars>>
  \/ part = "log" /\ Log!Next /\ UNCHANGED <<part, tcpVars, serialVars>>
  \/ part = "serial" /\ Serial!Next /\ UNCHANGED <<part, tcpVars, logVars>>

\* Each part is scheduled fairly as its module says.
PartsSpec ==
  /\ PartsInit /\ [][PartsNext]_<<part, tcpVars, logVars, serialVars>>
  /\ Fairness /\ Log!Fairness /\ Serial!Fairness

-----------------------------------------------------------------------------
(* The properties of the parts, each stated in its module.                 *)

\* The type invariants of the three parts (TcpConnections, TLog, SerialEndpoint).
TypesOK == TypeOK /\ Log!TypeOK /\ Serial!TypeOK

\* The log files are in the order of the bus, without repetition (TLog; tlog.rs:99-115).
LogInOrder == Log!LogInOrder

\* What the bus overran is counted by the logger (TLog; tlog.rs:117-121).
LagCounted == Log!LagCounted

\* What the logger received leaves its buffer in the end (TLog; tlog.rs:92-98).
WrittenInTheEnd == Log!WrittenInTheEnd

\* Cancellation ends the logger's supervisor (TLog; supervisor.rs:22-58).
StopsOnCancel == Log!StopsOnCancel

\* However its open and its loop fail, a serial endpoint tries every baud rate again and
\* again (SerialEndpoint; orchestration.rs:311-315).
EveryRateTried == Serial!EveryRateTried
=============================================================================
