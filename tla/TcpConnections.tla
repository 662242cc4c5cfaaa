--------------------------- MODULE TcpConnections ---------------------------
(***************************************************************************)
(* A TCP endpoint in server mode (endpoints/tcp.rs) under its supervisor,  *)
(* and the endpoints in client mode, of other routers, that connect to it. *)
(* The server spawns a task for each connection that it accepts, up to a   *)
(* limit, and joins the tasks that have ended; it watches for connections, *)
(* ended tasks and its token in a select that tries them in random order.  *)
(***************************************************************************)
EXTENDS Supervisor, Naturals, FiniteSets, Sequences

CONSTANTS
  Peer,         \* the clients
  MaxClients,   \* MAX_TCP_CLIENTS
  Backlog,      \* how many connections the kernel holds until they are accepted
  MaxErrors     \* bound: how often a connection breaks

ASSUME ConnectionsAssumption ==
  /\ IsFiniteSet(Peer) /\ "server" \notin Peer
  /\ MaxClients \in Nat \ {0} /\ Backlog \in Nat \ {0} /\ MaxErrors \in Nat

VARIABLES
  server,     \* where the server is: "binding", "select", "closing" or "over"
  backlog,    \* connections that wait to be accepted, in order
  join_set,   \* connections whose task has not been joined
  aborted,    \* connections whose task has been aborted
  conns,      \* [connection -> its client and its two ends]
  client,     \* where each client is
  errors

vars == <<phase, cancelled, server, backlog, join_set, aborted, conns, client, errors>>

\* The end at the server is "queued" in the kernel, "open" in a task, "ended" with
\* it, and then "gone".
Connection == [peer : Peer, near : {"queued", "open", "ended", "gone"},
               far : {"open", "closed"}]

\* EndpointIds of connections are never used again.  Here a number is free again
\* when both ends and the task are gone.
Id == 1 .. (Backlog + MaxClients + Cardinality(Peer))

Near(id) == conns[id].near
Far(id)  == conns[id].far

\* Both ends are changed through these: what is closed at both is forgotten.
Forgotten(cs) ==
  [id \in {i \in DOMAIN cs : cs[i].near # "gone" \/ cs[i].far # "closed"} |-> cs[id]]
SetNear(ids, to) == Forgotten([id \in DOMAIN conns |->
  IF id \in ids THEN [conns[id] EXCEPT !.near = to] ELSE conns[id]])

Listening == server \in {"select", "closing"}

Open == {id \in DOMAIN conns : Near(id) = "open"}
ToServer(p) == {id \in DOMAIN conns : conns[id].peer = p /\ Far(id) = "open"}

-----------------------------------------------------------------------------

Init ==
  /\ phase = [t \in {"server"} |-> "running"] /\ cancelled = {}
  /\ server = "binding"
  /\ backlog = <<>> /\ join_set = {} /\ aborted = {}
  /\ conns = [id \in {} |-> 0]
  /\ client = [p \in Peer |-> "connecting"]
  /\ errors = 0

Cancel(t) ==
  /\ t \notin cancelled /\ cancelled' = cancelled \cup {t}
  /\ UNCHANGED <<phase, server, backlog, join_set, aborted, conns, client, errors>>

-----------------------------------------------------------------------------
(* The server.                                                             *)

Bind ==
  /\ server = "binding" /\ server' = "select"
  /\ UNCHANGED <<phase, cancelled, backlog, join_set, aborted, conns, client, errors>>

BindFails ==
  /\ server = "binding" /\ server' = "over"
  /\ TaskEnds("server")
  /\ UNCHANGED <<cancelled, backlog, join_set, aborted, conns, client, errors>>

\* Mutant of Full: off by one.
OverFull == Cardinality(join_set) > MaxClients
Full == Cardinality(join_set) >= MaxClients

\* Mutant of Accept: the connection is closed, and served all the same.
ServeRejected ==
  /\ server = "select" /\ backlog # <<>>
  /\ backlog' = Tail(backlog)
  /\ conns' = SetNear({Head(backlog)}, IF Full THEN "gone" ELSE "open")
  /\ join_set' = join_set \cup {Head(backlog)}
  /\ UNCHANGED <<phase, cancelled, server, aborted, client, errors>>

\* One too many is closed again at once.
Accept ==
  /\ server = "select" /\ backlog # <<>>
  /\ backlog' = Tail(backlog)
  /\ IF Full
       THEN /\ conns' = SetNear({Head(backlog)}, "gone")
            /\ UNCHANGED join_set
       ELSE /\ conns' = SetNear({Head(backlog)}, "open")
            /\ join_set' = join_set \cup {Head(backlog)}
  /\ UNCHANGED <<phase, cancelled, server, aborted, client, errors>>

\* Mutant of JoinNext: tasks that have ended stay in the set.
JoinNone == FALSE /\ UNCHANGED vars

JoinNext ==
  /\ server = "select"
  /\ \E id \in join_set :
       /\ Near(id) = "ended"
       /\ join_set' = join_set \ {id}
       /\ conns' = SetNear({id}, "gone")
  /\ UNCHANGED <<phase, cancelled, server, backlog, aborted, client, errors>>

\* Mutant of SeeCancelled: the server returns at once.
ReturnAtOnce ==
  /\ server = "select" /\ "server" \in cancelled
  /\ TaskEnds("server")
  /\ server' = "over" /\ backlog' = <<>>
  /\ join_set' = {} /\ aborted' = join_set \cap Open
  /\ conns' = SetNear({id \in DOMAIN conns : Near(id) \in {"queued", "ended"}}, "gone")
  /\ UNCHANGED <<cancelled, client, errors>>

\* The loop is left; JoinSet::shutdown aborts the tasks, and then awaits them.
\* (The listener lives until the function returns, and the kernel goes on completing
\* connections that nobody accepts.)
SeeCancelled ==
  /\ server = "select" /\ "server" \in cancelled
  /\ server' = "closing"
  /\ aborted' = join_set \cap Open
  /\ UNCHANGED <<phase, cancelled, backlog, join_set, conns, client, errors>>

Close ==
  /\ server = "closing"
  /\ \A id \in join_set : Near(id) = "ended"
  /\ TaskEnds("server")
  /\ server' = "over" /\ backlog' = <<>>
  /\ join_set' = {} /\ aborted' = {}
  /\ conns' = SetNear({id \in DOMAIN conns : Near(id) \in {"queued", "ended"}}, "gone")
  /\ UNCHANGED <<cancelled, client, errors>>

\* Mutant of Drop: the tasks are left to themselves.
DropDetached ==
  /\ DropTask("server")
  /\ server' = "over" /\ backlog' = <<>>
  /\ join_set' = {} /\ UNCHANGED aborted
  /\ conns' = SetNear({id \in DOMAIN conns : Near(id) \in {"queued", "ended"}}, "gone")
  /\ UNCHANGED <<cancelled, client, errors>>

\* The supervisor drops the server, and with it the listener and the JoinSet, which
\* aborts its tasks and does not wait for them.
Drop ==
  /\ DropTask("server")
  /\ server' = "over" /\ backlog' = <<>>
  /\ join_set' = {} /\ aborted' = aborted \cup (join_set \cap Open)
  /\ conns' = SetNear({id \in DOMAIN conns : Near(id) \in {"queued", "ended"}}, "gone")
  /\ UNCHANGED <<cancelled, client, errors>>

Backoff ==
  /\ \/ (BackoffEnds("server") \/ StopWaiting("server")) /\ UNCHANGED server
     \/ WakeUp("server") /\ server' = "binding"
  /\ UNCHANGED <<cancelled, backlog, join_set, aborted, conns, client, errors>>

-----------------------------------------------------------------------------
(* The task of a connection: a stream loop, which ends when it reads the   *)
(* end of the stream, on an error, with the token, or by an abort.         *)

EndTask(id) ==
  conns' = SetNear({id}, IF id \in join_set THEN "ended" ELSE "gone")

LoopEnds(id) ==
  /\ Near(id) = "open"
  /\ Far(id) = "closed" \/ "server" \in cancelled \/ id \in aborted
  /\ EndTask(id)
  /\ aborted' = aborted \ {id}
  /\ UNCHANGED <<phase, cancelled, server, backlog, join_set, client, errors>>

LoopFails(id) ==
  /\ Near(id) = "open"
  /\ errors < MaxErrors /\ errors' = errors + 1
  /\ EndTask(id)
  /\ aborted' = aborted \ {id}
  /\ UNCHANGED <<phase, cancelled, server, backlog, join_set, client>>

-----------------------------------------------------------------------------
(* A client: it connects, runs a stream loop, waits, and connects again.   *)

\* The kernel of the server completes the connection, before it is accepted.
Connect(p) ==
  /\ client[p] = "connecting" /\ p \notin cancelled
  /\ Listening /\ Len(backlog) < Backlog
  /\ LET id == CHOOSE i \in Id \ DOMAIN conns : TRUE
     IN /\ conns' = [i \in DOMAIN conns \cup {id} |->
                       IF i = id THEN [peer |-> p, near |-> "queued", far |-> "open"]
                       ELSE conns[i]]
        /\ backlog' = Append(backlog, id)
  /\ client' = [client EXCEPT ![p] = "connected"]
  /\ UNCHANGED <<phase, cancelled, server, join_set, aborted, errors>>

ConnectFails(p) ==
  /\ client[p] = "connecting"
  /\ ~Listening \/ Len(backlog) = Backlog
  /\ client' = [client EXCEPT ![p] = "backoff"]
  /\ UNCHANGED <<phase, cancelled, server, backlog, join_set, aborted, conns, errors>>

Hangup(p, to) ==
  /\ client' = [client EXCEPT ![p] = to]
  /\ conns' = Forgotten([id \in DOMAIN conns |->
       IF id \in ToServer(p) THEN [conns[id] EXCEPT !.far = "closed"] ELSE conns[id]])

\* The server's end is closed.
Disconnect(p) ==
  /\ client[p] = "connected"
  /\ \A id \in ToServer(p) : Near(id) \in {"ended", "gone"}
  /\ Hangup(p, "backoff")
  /\ UNCHANGED <<phase, cancelled, server, backlog, join_set, aborted, errors>>

\* The connection breaks.
Break(p) ==
  /\ client[p] = "connected"
  /\ errors < MaxErrors /\ errors' = errors + 1
  /\ Hangup(p, "backoff")
  /\ UNCHANGED <<phase, cancelled, server, backlog, join_set, aborted>>

\* Mutant of Retry: a connection that was lost is not tried again.
GiveUp(p) == client[p] = "backoff" /\ UNCHANGED vars

Retry(p) ==
  /\ client[p] = "backoff" /\ p \notin cancelled
  /\ client' = [client EXCEPT ![p] = "connecting"]
  /\ UNCHANGED <<phase, cancelled, server, backlog, join_set, aborted, conns, errors>>

\* By its own token or by its supervisor, wherever it is.
ClientStops(p) ==
  /\ p \in cancelled /\ client[p] # "over"
  /\ Hangup(p, "over")
  /\ UNCHANGED <<phase, cancelled, server, backlog, join_set, aborted, errors>>

Server ==
  \/ Bind \/ BindFails \/ Accept \/ JoinNext \/ SeeCancelled \/ Close \/ Drop \/ Backoff

Client(p) ==
  Connect(p) \/ ConnectFails(p) \/ Disconnect(p) \/ Break(p) \/ Retry(p) \/ ClientStops(p)

Next ==
  \/ \E t \in {"server"} \cup Peer : Cancel(t)
  \/ Server
  \/ \E id \in DOMAIN conns : LoopEnds(id) \/ LoopFails(id)
  \/ \E p \in Peer : Client(p)

(***************************************************************************)
(* The runtime runs every task that is ready.  A select that can choose    *)
(* again and again between its branches takes each of them at some time    *)
(* (its order is random), the port is free at some time, and a client that *)
(* tries for ever finds room in the backlog at some time.  Nothing makes a *)
(* connection break, or a token be cancelled.                              *)
(***************************************************************************)
Fairness ==
  /\ SF_vars(Bind) /\ SF_vars(Accept) /\ SF_vars(JoinNext)
  /\ WF_vars(SeeCancelled) /\ WF_vars(Close) /\ WF_vars(Drop) /\ WF_vars(Backoff)
  /\ \A id \in Id : WF_vars(id \in DOMAIN conns /\ LoopEnds(id))
  /\ \A p \in Peer :
       /\ SF_vars(Connect(p)) /\ WF_vars(ConnectFails(p)) /\ WF_vars(Retry(p))
       /\ WF_vars(Disconnect(p))

Spec == Init /\ [][Next]_vars /\ Fairness

-----------------------------------------------------------------------------

\* The variables have their types; the backlog holds what waits in the kernel, the
\* JoinSet the connections whose task runs or waits to be joined, and a server that
\* is not running has neither (the limit compares the JoinSet, not the connections).
TypeOK ==
  /\ phase \in [{"server"} -> Phase] /\ cancelled \subseteq {"server"} \cup Peer
  /\ server \in {"binding", "select", "closing", "over"}
  /\ DOMAIN conns \subseteq Id /\ \A id \in DOMAIN conns : conns[id] \in Connection
  /\ {backlog[n] : n \in DOMAIN backlog} = {id \in DOMAIN conns : Near(id) = "queued"}
  /\ join_set \subseteq DOMAIN conns
  /\ \A id \in join_set : Near(id) \in {"open", "ended"}
  /\ aborted \subseteq Open
  /\ server \in {"binding", "over"} => backlog = <<>> /\ join_set = {}
  /\ client \in [Peer -> {"connecting", "connected", "backoff", "over"}]
  /\ errors \in 0 .. MaxErrors

\* The limit on clients (tcp.rs:23-24, 77-82) holds of the connections that are
\* served, whatever runs are cut off, and not only of the JoinSet it is tested on.
AtMostMaxClients == Cardinality(Open) <= MaxClients

\* No connection outlives its server: a task that serves one belongs to a running
\* server or has been aborted, and when the server returns by itself, after
\* JoinSet::shutdown, none is left at all (tcp.rs:123; supervisor.rs:22-27).
NoOrphans ==
  /\ \A id \in Open : id \in join_set \/ id \in aborted
  /\ phase["server"] = "waiting" => Open = {}

Served(p) == \E id \in ToServer(p) : Near(id) = "open"

\* With no more clients than the limit, every client is served for good once connections
\* stop breaking, even though dead connections count until they are joined and a client may
\* be turned away for them (tcp.rs:78-82, 131-171): the retries get it there.
EveryoneServed ==
  Cardinality(Peer) <= MaxClients =>
    \A p \in Peer : <>[](cancelled # {} \/ Served(p))
=============================================================================
