-------------------------- MODULE SupervisedProofs ---------------------------
(***************************************************************************)
(* The limit on TCP clients holds and no connection outlives its server;   *)
(* the logger's files are in order and its lags are counted; the serial    *)
(* endpoint's index stays within its list.  All for every value of the     *)
(* constants, however connections break and tasks fail, and whatever the   *)
(* supervisors do.                                                         *)
(***************************************************************************)
EXTENDS Supervised, MessageBusProofs, FunctionTheorems

-----------------------------------------------------------------------------
(* The TCP server and its clients.                                         *)

\* Connections whose client has not noticed that the server's end is closed.
HalfClosed == {id \in DOMAIN conns : Near(id) = "gone"}

\* The server runs as long as its supervisor runs it.
ServerRuns == server = "over" <=> phase["server"] # "running"

\* Each waiting connection waits once.
BacklogOK ==
  /\ backlog \in Seq(Id) /\ Len(backlog) <= Backlog
  /\ \A m, n \in DOMAIN backlog : backlog[m] = backlog[n] => m = n

\* A client has one connection at a time, which it knows of.
OneEach ==
  /\ \A id \in DOMAIN conns : Far(id) = "open" => client[conns[id].peer] = "connected"
  /\ \A i, j \in DOMAIN conns :
       Far(i) = "open" /\ Far(j) = "open" /\ conns[i].peer = conns[j].peer => i = j

\* Every task is in the JoinSet until it is joined, or has been aborted; what was aborted
\* and not awaited is left only by a supervisor that has stopped for good.
TasksOK ==
  /\ \A id \in DOMAIN conns : Near(id) = "open" => id \in join_set \cup aborted
  /\ \A id \in DOMAIN conns : Near(id) = "ended" => id \in join_set
  /\ HalfClosed \subseteq {id \in DOMAIN conns : Far(id) = "open"}
  /\ phase["server"] # "stopped" => aborted \subseteq join_set
  /\ IsFiniteSet(join_set \cup aborted) /\ Cardinality(join_set \cup aborted) <= MaxClients

TcpInv == TypeOK /\ ServerRuns /\ BacklogOK /\ OneEach /\ TasksOK

-----------------------------------------------------------------------------
(* The two ways in which connections change.                               *)

LEMMA NearChanges ==
  ASSUME TypeOK, NEW ids, NEW to \in {"open", "ended", "gone"}, conns' = SetNear(ids, to)
  PROVE  /\ DOMAIN conns' \subseteq DOMAIN conns
         /\ \A id \in DOMAIN conns' :
              /\ conns'[id] \in Connection
              /\ conns'[id].peer = conns[id].peer /\ conns'[id].far = conns[id].far
              /\ conns'[id].near = IF id \in ids THEN to ELSE conns[id].near
              /\ conns'[id].near # "gone" \/ conns'[id].far # "closed"
         /\ \A id \in DOMAIN conns :
              id \in DOMAIN conns' \/
                (IF id \in ids THEN to ELSE conns[id].near) = "gone"
<1> DEFINE cs == [id \in DOMAIN conns |->
                    IF id \in ids THEN [conns[id] EXCEPT !.near = to] ELSE conns[id]]
<1>1. \A id \in DOMAIN conns :
        /\ cs[id] \in Connection
        /\ cs[id].peer = conns[id].peer /\ cs[id].far = conns[id].far
        /\ cs[id].near = IF id \in ids THEN to ELSE conns[id].near
  BY DEF TypeOK, Connection
<1>2. conns' = [id \in {i \in DOMAIN cs : cs[i].near # "gone" \/ cs[i].far # "closed"} |-> cs[id]]
  BY DEF SetNear, Forgotten
<1>3. DOMAIN cs = DOMAIN conns
  OBVIOUS
<1> HIDE DEF cs
<1> QED
  BY <1>1, <1>2, <1>3

\* Of one connection.
OneNear(id, to) ==
  /\ DOMAIN conns' \subseteq DOMAIN conns
  /\ \A x \in DOMAIN conns' :
       conns'[x] \in Connection /\ conns'[x].near = IF x = id THEN to ELSE conns[x].near
  /\ \A x \in DOMAIN conns :
       x \in DOMAIN conns' \/ (IF x = id THEN to ELSE conns[x].near) = "gone"

LEMMA OneChanges ==
  ASSUME TypeOK, NEW id, NEW to \in {"open", "ended", "gone"}, conns' = SetNear({id}, to)
  PROVE  OneNear(id, to)
<1> DEFINE cs == [x \in DOMAIN conns |->
                    IF x \in {id} THEN [conns[x] EXCEPT !.near = to] ELSE conns[x]]
<1>1. \A x \in DOMAIN conns :
        cs[x] \in Connection /\ cs[x].near = IF x = id THEN to ELSE conns[x].near
  BY DEF TypeOK, Connection
<1>2. conns' = [x \in {i \in DOMAIN cs : cs[i].near # "gone" \/ cs[i].far # "closed"} |-> cs[x]]
  BY DEF SetNear, Forgotten
<1>3. DOMAIN cs = DOMAIN conns
  OBVIOUS
<1> HIDE DEF cs
<1> QED
  BY <1>1, <1>2, <1>3 DEF OneNear

\* Hangup closes the far ends of the client's connections.
LEMMA FarChanges ==
  ASSUME TypeOK, NEW p \in Peer, NEW to, Hangup(p, to)
  PROVE  /\ DOMAIN conns' \subseteq DOMAIN conns
         /\ \A id \in DOMAIN conns' :
              /\ conns'[id] \in Connection
              /\ conns'[id].peer = conns[id].peer /\ conns'[id].near = conns[id].near
              /\ conns'[id].far = IF conns[id].peer = p THEN "closed" ELSE conns[id].far
              /\ conns'[id].near # "gone" \/ conns'[id].far # "closed"
         /\ \A id \in DOMAIN conns : id \in DOMAIN conns' \/ conns[id].near = "gone"
<1> DEFINE cs == [id \in DOMAIN conns |->
       IF id \in ToServer(p) THEN [conns[id] EXCEPT !.far = "closed"] ELSE conns[id]]
<1>1. \A id \in DOMAIN conns :
        /\ cs[id] \in Connection
        /\ cs[id].peer = conns[id].peer /\ cs[id].near = conns[id].near
        /\ cs[id].far = IF conns[id].peer = p THEN "closed" ELSE conns[id].far
  BY DEF TypeOK, Connection, ToServer, Far
<1>2. conns' = [id \in {i \in DOMAIN cs : cs[i].near # "gone" \/ cs[i].far # "closed"} |-> cs[id]]
  BY DEF Hangup, Forgotten
<1>3. DOMAIN cs = DOMAIN conns
  OBVIOUS
<1> HIDE DEF cs
<1> QED
  BY <1>1, <1>2, <1>3

-----------------------------------------------------------------------------
(* There is a number for one more connection.                              *)

LEMMA IdsAreFinite == IsFiniteSet(Id) /\ Cardinality(Id) = Backlog + MaxClients + Cardinality(Peer)
<1>1. Cardinality(Peer) \in Nat
  BY ConnectionsAssumption, FS_CardinalityType DEF ConnectionsAssumption
<1>2. Backlog + MaxClients + Cardinality(Peer) \in Nat \ {0}
  BY <1>1, ConnectionsAssumption DEF ConnectionsAssumption
<1> QED
  BY <1>2, FS_Interval DEF Id

\* What waits is counted by the backlog, what is served by the limit, and what is half
\* closed by the clients, of which one has no connection at all.
LEMMA FreshId ==
  ASSUME TcpInv, NEW p \in Peer, client[p] # "connected", Listening, Len(backlog) < Backlog
  PROVE  \E id \in Id : id \notin DOMAIN conns
<1> DEFINE Q == {id \in DOMAIN conns : Near(id) = "queued"}
           T == join_set \cup aborted
           F == [id \in HalfClosed |-> conns[id].peer]
           P == Peer \ {p}
<1>0. IsFiniteSet(Peer) /\ Cardinality(Peer) \in Nat /\ Cardinality(P) = Cardinality(Peer) - 1
  BY ConnectionsAssumption, FS_CardinalityType, FS_RemoveElement DEF ConnectionsAssumption
<1>1. IsFiniteSet(Q) /\ Cardinality(Q) <= Len(backlog)
  <2>1. Q = {backlog[n] : n \in DOMAIN backlog} /\ Len(backlog) \in Nat
        /\ DOMAIN backlog = 1 .. Len(backlog)
    BY DEF TcpInv, TypeOK, BacklogOK
  <2>2. backlog \in Surjection(1 .. Len(backlog), Q)
    BY <2>1 DEF Surjection, TcpInv, BacklogOK
  <2>3. IsFiniteSet(1 .. Len(backlog)) /\ Cardinality(1 .. Len(backlog)) = Len(backlog)
    <3>1. 1 \in Int /\ Len(backlog) \in Int
      BY <2>1
    <3>2. /\ IsFiniteSet(1 .. Len(backlog))
          /\ Cardinality(1 .. Len(backlog))
               = IF 1 > Len(backlog) THEN 0 ELSE Len(backlog) - 1 + 1
      BY <3>1, FS_Interval, ZenonT(60)
    <3> QED
      BY <2>1, <3>2
  <2> QED
    BY <2>2, <2>3, FS_Surjection
<1>2. IsFiniteSet(HalfClosed) /\ Cardinality(HalfClosed) <= Cardinality(P)
  <2>1. F \in [HalfClosed -> P]
    <3>1. ASSUME NEW id \in HalfClosed PROVE conns[id].peer \in P
      <4>1. id \in DOMAIN conns /\ Far(id) = "open" /\ conns[id].peer \in Peer
        BY DEF TcpInv, TypeOK, Connection, HalfClosed, TasksOK
      <4>2. client[conns[id].peer] = "connected"
        BY <4>1 DEF TcpInv, OneEach
      <4> QED
        BY <4>1, <4>2
    <3> QED
      BY <3>1
  <2>2. \A i, j \in HalfClosed : F[i] = F[j] => i = j
    BY DEF TcpInv, HalfClosed, TasksOK, OneEach, Far
  <2>3. F \in Injection(HalfClosed, P)
    BY <2>1, <2>2 DEF Injection, IsInjective
  <2>4. IsFiniteSet(P)
    BY <1>0, FS_RemoveElement
  <2> QED
    BY <2>3, <2>4, FS_Injection
<1>3. IsFiniteSet(T) /\ Cardinality(T) <= MaxClients /\ Cardinality(T) \in Nat
  BY FS_CardinalityType DEF TcpInv, TasksOK
<1>4. DOMAIN conns \subseteq (Q \cup T) \cup HalfClosed
  BY DEF TcpInv, TypeOK, Connection, TasksOK, HalfClosed, Near
<1>5. /\ Cardinality(Q) \in Nat /\ Cardinality(HalfClosed) \in Nat
      /\ IsFiniteSet(Q \cup T) /\ Cardinality(Q \cup T) <= Cardinality(Q) + Cardinality(T)
  <2>1. Cardinality(Q \cup T) = Cardinality(Q) + Cardinality(T) - Cardinality(Q \cap T)
    BY <1>1, <1>3, FS_Union
  <2>2. Cardinality(Q \cap T) \in Nat
    BY <1>1, FS_Intersection, FS_CardinalityType
  <2> QED
    BY <1>1, <1>2, <1>3, <2>1, <2>2, FS_Union, FS_CardinalityType
<1>6. /\ IsFiniteSet((Q \cup T) \cup HalfClosed)
      /\ Cardinality((Q \cup T) \cup HalfClosed)
           <= Cardinality(Q) + Cardinality(T) + Cardinality(HalfClosed)
  <2>1. Cardinality((Q \cup T) \cup HalfClosed) = Cardinality(Q \cup T) + Cardinality(HalfClosed)
                                                   - Cardinality((Q \cup T) \cap HalfClosed)
    BY <1>2, <1>5, FS_Union
  <2>2. /\ Cardinality((Q \cup T) \cap HalfClosed) \in Nat /\ Cardinality(Q \cup T) \in Nat
    BY <1>5, FS_Intersection, FS_CardinalityType
  <2>3. IsFiniteSet((Q \cup T) \cup HalfClosed)
    BY <1>2, <1>5, FS_Union
  <2>4. Cardinality(Q) \in Nat /\ Cardinality(HalfClosed) \in Nat /\ Cardinality(T) \in Nat
    BY <1>3, <1>5
  <2> HIDE DEF Q, T
  <2> QED
    BY <1>5, <2>1, <2>2, <2>3, <2>4
<1>7. IsFiniteSet(DOMAIN conns) /\ Cardinality(DOMAIN conns) < Cardinality(Id)
  <2>1. /\ Cardinality(DOMAIN conns) <= Cardinality((Q \cup T) \cup HalfClosed)
        /\ IsFiniteSet(DOMAIN conns) /\ Cardinality(DOMAIN conns) \in Nat
    <3>1. DOMAIN conns \in SUBSET ((Q \cup T) \cup HalfClosed)
      BY <1>4
    <3> HIDE DEF Q, T
    <3> QED
      BY <3>1, <1>6, FS_Subset, FS_CardinalityType
  <2>2. Backlog \in Nat /\ MaxClients \in Nat /\ Len(backlog) \in Nat
    BY ConnectionsAssumption DEF ConnectionsAssumption, TcpInv, BacklogOK
  <2>3. /\ Cardinality((Q \cup T) \cup HalfClosed) \in Nat /\ Cardinality(P) \in Int
    BY <1>0, <1>6, FS_CardinalityType
  <2> HIDE DEF Q, T, P
  <2> QED
    BY <2>1, <2>2, <2>3, <1>0, <1>1, <1>2, <1>3, <1>5, <1>6, IdsAreFinite
<1>8. SUFFICES ASSUME \A id \in Id : id \in DOMAIN conns PROVE FALSE
  OBVIOUS
<1>9. Id \in SUBSET DOMAIN conns
  BY <1>8
<1>10. Cardinality(Id) <= Cardinality(DOMAIN conns)
  BY <1>7, <1>9, FS_Subset
<1>11. Cardinality(Id) \in Nat /\ Cardinality(DOMAIN conns) \in Nat
  BY <1>7, IdsAreFinite, FS_CardinalityType
<1> QED
  BY <1>7, <1>10, <1>11
-----------------------------------------------------------------------------
(* The steps that leave the connections alone.                             *)

LEMMA TcpInit == Init => TcpInv
<1> SUFFICES ASSUME Init PROVE TcpInv
  OBVIOUS
<1>1. DOMAIN conns = {} /\ HalfClosed = {} /\ Open = {}
  BY DEF Init, HalfClosed, Open
<1>2. TypeOK
  BY <1>1, ConnectionsAssumption DEF Init, TypeOK, Phase, ConnectionsAssumption
<1>3. ServerRuns /\ BacklogOK /\ OneEach
  BY <1>1, ConnectionsAssumption
  DEF Init, ServerRuns, BacklogOK, OneEach, ConnectionsAssumption
<1>4. TasksOK
  <2>1. join_set \cup aborted = {} /\ MaxClients \in Nat
    BY ConnectionsAssumption DEF Init, ConnectionsAssumption
  <2>2. IsFiniteSet(join_set \cup aborted) /\ Cardinality(join_set \cup aborted) = 0
    BY <2>1, FS_EmptySet
  <2> QED
    BY <1>1, <2>1, <2>2 DEF Init, TasksOK
<1> QED
  BY <1>2, <1>3, <1>4 DEF TcpInv

\* The server's own steps, with nothing to serve or to close.
LEMMA ServerMoves ==
  ASSUME TcpInv, Bind \/ BindFails \/ SeeCancelled \/ Backoff PROVE TcpInv'
<1>1. UNCHANGED <<cancelled, backlog, join_set, conns, client, errors>>
  BY DEF Bind, BindFails, SeeCancelled, Backoff
<1>2. UNCHANGED <<Open, HalfClosed, BacklogOK, OneEach>>
  BY <1>1 DEF Open, Near, Far, HalfClosed, BacklogOK, OneEach
<1>3. /\ phase' \in [{"server"} -> Phase]
      /\ server' \in {"binding", "select", "closing", "over"}
      /\ server' = "over" <=> phase'["server"] # "running"
      /\ server' \in {"binding", "over"} => server \in {"binding", "over"}
      /\ phase["server"] = "stopped" => phase'["server"] = "stopped"
      /\ aborted' \in {aborted, join_set \cap Open}
  BY DEF Bind, BindFails, SeeCancelled, Backoff, TaskEnds, BackoffEnds, StopWaiting, WakeUp,
         Move, TcpInv, TypeOK, ServerRuns, Phase
<1>4. TypeOK' /\ ServerRuns' /\ BacklogOK' /\ OneEach'
  BY <1>1, <1>2, <1>3 DEF TcpInv, TypeOK, ServerRuns, Near
<1>5. aborted' \cup join_set = aborted \cup join_set
  BY DEF Bind, BindFails, Backoff, SeeCancelled, TcpInv, TasksOK, ServerRuns
<1>6. TasksOK'
  BY <1>1, <1>2, <1>3, <1>5 DEF TcpInv, TasksOK, Near, Far
<1> QED
  BY <1>4, <1>6 DEF TcpInv

\* A client tries again, or in vain, or a token is cancelled.
LEMMA ClientMoves ==
  ASSUME TcpInv,
         \/ \E t \in {"server"} \cup Peer : Cancel(t)
         \/ \E p \in Peer : ConnectFails(p) \/ Retry(p)
  PROVE  TcpInv'
<1>1. /\ UNCHANGED <<phase, server, backlog, join_set, aborted, conns, errors>>
      /\ cancelled' \subseteq {"server"} \cup Peer
      /\ client' \in [Peer -> {"connecting", "connected", "backoff", "over"}]
      /\ \A p \in Peer : client[p] = "connected" => client'[p] = "connected"
  BY DEF Cancel, ConnectFails, Retry, TcpInv, TypeOK
<1>2. UNCHANGED <<Open, HalfClosed, BacklogOK, ServerRuns, TasksOK>>
  BY <1>1 DEF Open, Near, Far, HalfClosed, BacklogOK, ServerRuns, TasksOK
<1>3. TypeOK'
  BY <1>1, <1>2 DEF TcpInv, TypeOK, Near
<1>4. OneEach'
  BY <1>1 DEF TcpInv, TypeOK, Connection, OneEach, Far
<1> QED
  BY <1>2, <1>3, <1>4 DEF TcpInv

-----------------------------------------------------------------------------
(* The steps of the server that accept, join and close.                    *)

\* Connections whose near ends change keep to their clients.
LEMMA NearKeepsOneEach ==
  ASSUME TcpInv, NEW ids, NEW to \in {"open", "ended", "gone"}, conns' = SetNear(ids, to),
         UNCHANGED client
  PROVE  OneEach' /\ HalfClosed' \subseteq {id \in DOMAIN conns' : conns'[id].far = "open"}
<1>1. OneEach'
  BY NearChanges DEF TcpInv, OneEach, Far
<1>2. ASSUME NEW id \in HalfClosed' PROVE id \in DOMAIN conns' /\ conns'[id].far = "open"
  BY <1>2, NearChanges DEF TcpInv, HalfClosed, Near, Connection
<1> QED
  BY <1>1, <1>2

LEMMA AcceptKeeps == ASSUME TcpInv, Accept PROVE TcpInv'
<1> DEFINE id == Head(backlog)
           to == IF Full THEN "gone" ELSE "open"
<1>1. /\ server = "select" /\ backlog # <<>> /\ backlog' = Tail(backlog)
      /\ conns' = SetNear({id}, to)
      /\ join_set' = IF Full THEN join_set ELSE join_set \cup {id}
      /\ UNCHANGED <<phase, cancelled, server, aborted, client, errors>>
  BY DEF Accept
<1>2. /\ backlog \in Seq(Id) /\ Len(backlog) \in Nat \ {0} /\ id = backlog[1]
      /\ Len(backlog') = Len(backlog) - 1 /\ backlog' \in Seq(Id)
      /\ \A n \in 1 .. Len(backlog) - 1 : backlog'[n] = backlog[n + 1]
  BY <1>1 DEF TcpInv, BacklogOK
<1>3. /\ id \in DOMAIN conns /\ conns[id].near = "queued"
      /\ id \notin join_set /\ id \notin aborted
  BY <1>2 DEF TcpInv, TypeOK, Near, Open
<1>4. /\ BacklogOK'
      /\ \A m, n \in 1 .. Len(backlog) : backlog[m] = backlog[n] => m = n
  <2>1. \A m, n \in 1 .. Len(backlog) : backlog[m] = backlog[n] => m = n
    BY <1>2 DEF TcpInv, BacklogOK
  <2>2. DOMAIN backlog' = 1 .. Len(backlog) - 1
    BY <1>2
  <2>3. \A m, n \in DOMAIN backlog' : backlog'[m] = backlog'[n] => m = n
    <3> SUFFICES ASSUME NEW m \in 1 .. Len(backlog) - 1, NEW n \in 1 .. Len(backlog) - 1,
                        backlog'[m] = backlog'[n]
                 PROVE  m = n
      BY <2>2
    <3>1. m + 1 \in 1 .. Len(backlog) /\ n + 1 \in 1 .. Len(backlog)
      BY <1>2
    <3>2. m + 1 = n + 1
      BY <1>2, <2>1, <3>1
    <3> QED
      BY <3>2
  <2>4. Len(backlog') <= Backlog
    BY <1>2, ConnectionsAssumption DEF TcpInv, BacklogOK, ConnectionsAssumption
  <2> QED
    BY <1>2, <2>1, <2>3, <2>4 DEF BacklogOK
<1>5. OneEach' /\ HalfClosed' \subseteq {x \in DOMAIN conns' : conns'[x].far = "open"}
  BY <1>1, NearKeepsOneEach
<1>6. /\ DOMAIN conns' \subseteq DOMAIN conns
      /\ \A x \in DOMAIN conns' :
           /\ conns'[x] \in Connection
           /\ conns'[x].near = IF x = id THEN to ELSE conns[x].near
      /\ \A x \in DOMAIN conns :
           x \in DOMAIN conns' \/ (IF x = id THEN to ELSE conns[x].near) = "gone"
  <2>1. conns' = SetNear({id}, to) /\ to \in {"open", "ended", "gone"} /\ TypeOK
    BY <1>1 DEF TcpInv
  <2> HIDE DEF to, id
  <2>2. OneNear(id, to)
    BY <2>1, OneChanges
  <2> QED
    BY <2>2 DEF OneNear
<1>7. {backlog'[n] : n \in DOMAIN backlog'} = {x \in DOMAIN conns' : conns'[x].near = "queued"}
  <2>1. \A x : (\E n \in 1 .. Len(backlog) : backlog[n] = x)
                 <=> x \in DOMAIN conns /\ conns[x].near = "queued"
    <3>1. {backlog[n] : n \in DOMAIN backlog} = {x \in DOMAIN conns : conns[x].near = "queued"}
          /\ DOMAIN backlog = 1 .. Len(backlog)
      BY <1>2 DEF TcpInv, TypeOK, Near
    <3> QED
      BY <3>1
  <2>2. \A x : (\E n \in 1 .. Len(backlog') : backlog'[n] = x)
                 <=> x # id /\ \E n \in 1 .. Len(backlog) : backlog[n] = x
    <3> TAKE x
    <3>1. ASSUME NEW n \in 1 .. Len(backlog'), backlog'[n] = x
          PROVE  x # id /\ \E m \in 1 .. Len(backlog) : backlog[m] = x
      <4>1. n + 1 \in 1 .. Len(backlog) /\ 1 \in 1 .. Len(backlog) /\ n + 1 # 1
            /\ backlog[n + 1] = x
        BY <1>2, <3>1
      <4> QED
        BY <4>1, <1>2, <1>4
    <3>2. ASSUME NEW m \in 1 .. Len(backlog), backlog[m] = x, x # id
          PROVE  \E n \in 1 .. Len(backlog') : backlog'[n] = x
      <4>1. m - 1 \in 1 .. Len(backlog') /\ backlog'[m - 1] = backlog[(m - 1) + 1]
        BY <1>2, <3>2
      <4>2. (m - 1) + 1 = m
        OBVIOUS
      <4> QED
        BY <4>1, <4>2, <3>2
    <3> QED
      BY <3>1, <3>2
  <2>3. \A x : (\E n \in 1 .. Len(backlog') : backlog'[n] = x)
                 <=> x \in DOMAIN conns' /\ conns'[x].near = "queued"
    <3>1. to # "queued"
      OBVIOUS
    <3> HIDE DEF id, to
    <3>2. \A x : x \in DOMAIN conns' /\ conns'[x].near = "queued"
                   <=> x # id /\ x \in DOMAIN conns /\ conns[x].near = "queued"
      <4> TAKE x
      <4>1. ASSUME x \in DOMAIN conns', conns'[x].near = "queued"
            PROVE  x # id /\ x \in DOMAIN conns /\ conns[x].near = "queued"
        BY <3>1, <4>1, <1>6
      <4>2. ASSUME x # id, x \in DOMAIN conns, conns[x].near = "queued"
            PROVE  x \in DOMAIN conns' /\ conns'[x].near = "queued"
        BY <4>2, <1>6
      <4> QED
        BY <4>1, <4>2
    <3> QED
      BY <2>1, <2>2, <3>2
  <2> QED
    BY <2>3, <1>2
<1>8. /\ \A x \in join_set' : x \in DOMAIN conns' /\ conns'[x].near \in {"open", "ended"}
      /\ aborted \subseteq Open'
  BY <1>1, <1>3, <1>6 DEF TcpInv, TypeOK, Near, Open
<1>9. TypeOK' /\ ServerRuns'
  BY <1>1, <1>6, <1>7, <1>8 DEF TcpInv, TypeOK, ServerRuns, Near
<1>10. IsFiniteSet((join_set \cup aborted)') /\ Cardinality((join_set \cup aborted)') <= MaxClients
  <2>1. CASE Full
    BY <2>1, <1>1 DEF TcpInv, TasksOK
  <2>2. CASE ~Full
    <3>1. aborted \subseteq join_set
      BY <1>1 DEF TcpInv, TasksOK, ServerRuns
    <3>2. join_set \cup aborted = join_set /\ (join_set \cup aborted)' = join_set \cup {id}
      BY <3>1, <2>2, <1>1
    <3>3. IsFiniteSet(join_set) /\ Cardinality(join_set) < MaxClients /\ MaxClients \in Nat
          /\ Cardinality(join_set) \in Nat
      <4>1. IsFiniteSet(join_set) /\ MaxClients \in Nat
        BY <3>2, ConnectionsAssumption DEF TcpInv, TasksOK, ConnectionsAssumption
      <4>2. Cardinality(join_set) \in Nat /\ ~(Cardinality(join_set) >= MaxClients)
        BY <4>1, <2>2, FS_CardinalityType DEF Full
      <4> QED
        BY <4>1, <4>2
    <3> HIDE DEF id, to
    <3>4. IsFiniteSet(join_set \cup {id})
          /\ Cardinality(join_set \cup {id}) \in {Cardinality(join_set), Cardinality(join_set) + 1}
      <4>1. Cardinality(join_set \cup {id})
              = IF id \in join_set THEN Cardinality(join_set) ELSE Cardinality(join_set) + 1
        BY <3>3, FS_AddElement
      <4>2. IsFiniteSet(join_set \cup {id})
        BY <3>3, FS_AddElement
      <4> QED
        BY <4>1, <4>2
    <3>5. Cardinality(join_set \cup {id}) <= MaxClients
      BY <3>3, <3>4
    <3> QED
      BY <3>2, <3>4, <3>5
  <2> QED
    BY <2>1, <2>2
<1>11. TasksOK'
  BY <1>1, <1>3, <1>5, <1>6, <1>10 DEF TcpInv, TasksOK, ServerRuns, Near, Far
<1> QED
  BY <1>4, <1>5, <1>9, <1>11 DEF TcpInv

\* The task of a connection that is not waiting ends, and its number leaves or stays in
\* the JoinSet.
LEMMA TaskKeeps ==
  ASSUME TcpInv, NEW id \in DOMAIN conns, NEW to \in {"ended", "gone"},
         conns[id].near \in {"open", "ended"}, conns' = SetNear({id}, to),
         join_set' = IF to = "gone" THEN join_set \ {id} ELSE join_set,
         to = "ended" => id \in join_set,
         aborted' = aborted \ {id},
         errors' \in 0 .. MaxErrors,
         UNCHANGED <<phase, cancelled, server, backlog, client>>
  PROVE  TcpInv'
<1>1. OneEach' /\ HalfClosed' \subseteq {x \in DOMAIN conns' : conns'[x].far = "open"}
  BY NearKeepsOneEach
<1>2. /\ DOMAIN conns' \subseteq DOMAIN conns
      /\ \A x \in DOMAIN conns' :
           /\ conns'[x] \in Connection
           /\ conns'[x].near = IF x = id THEN to ELSE conns[x].near
      /\ \A x \in DOMAIN conns :
           x \in DOMAIN conns' \/ (IF x = id THEN to ELSE conns[x].near) = "gone"
  <2>1. OneNear(id, to)
    BY OneChanges DEF TcpInv
  <2> QED
    BY <2>1 DEF OneNear
<1>3. {x \in DOMAIN conns' : conns'[x].near = "queued"}
        = {x \in DOMAIN conns : conns[x].near = "queued"}
  BY <1>2
<1>4. /\ \A x \in join_set' : x \in DOMAIN conns' /\ conns'[x].near \in {"open", "ended"}
      /\ aborted' \subseteq Open'
  BY <1>2 DEF TcpInv, TypeOK, Near, Open
<1>5. TypeOK' /\ ServerRuns' /\ BacklogOK'
  <2>1. {backlog'[n] : n \in DOMAIN backlog'} = {x \in DOMAIN conns' : conns'[x].near = "queued"}
    <3>1. {backlog[n] : n \in DOMAIN backlog} = {x \in DOMAIN conns : conns[x].near = "queued"}
      BY DEF TcpInv, TypeOK, Near
    <3>2. {backlog'[n] : n \in DOMAIN backlog'} = {backlog[n] : n \in DOMAIN backlog}
      OBVIOUS
    <3> QED
      BY <3>1, <3>2, <1>3, Zenon
  <2>2. DOMAIN conns' \subseteq Id /\ join_set' \subseteq DOMAIN conns'
    BY <1>2, <1>4 DEF TcpInv, TypeOK
  <2>3. server' \in {"binding", "over"} => backlog' = <<>> /\ join_set' = {}
    BY DEF TcpInv, TypeOK
  <2>4. TypeOK'
    BY <1>2, <1>4, <2>1, <2>2, <2>3 DEF TcpInv, TypeOK, Near
  <2> QED
    BY <2>4 DEF TcpInv, ServerRuns, BacklogOK
<1>6. IsFiniteSet((join_set \cup aborted)') /\ Cardinality((join_set \cup aborted)') <= MaxClients
  <2>1. (join_set \cup aborted)' \in SUBSET (join_set \cup aborted)
    OBVIOUS
  <2>2. MaxClients \in Nat /\ IsFiniteSet(join_set \cup aborted)
        /\ Cardinality(join_set \cup aborted) <= MaxClients
    BY ConnectionsAssumption DEF TcpInv, TasksOK, ConnectionsAssumption
  <2> QED
    BY <2>1, <2>2, FS_Subset, FS_CardinalityType
<1>7. TasksOK'
  BY <1>1, <1>2, <1>6 DEF TcpInv, TasksOK, Near, Far
<1> QED
  BY <1>1, <1>5, <1>7 DEF TcpInv

LEMMA JoinAndEndKeep ==
  ASSUME TcpInv, JoinNext \/ \E id \in DOMAIN conns : LoopEnds(id) \/ LoopFails(id)
  PROVE  TcpInv'
<1>1. CASE JoinNext
  <2>1. PICK id \in join_set : Near(id) = "ended" /\ join_set' = join_set \ {id}
                               /\ conns' = SetNear({id}, "gone")
    BY <1>1 DEF JoinNext
  <2>2. /\ id \in DOMAIN conns /\ conns[id].near = "ended" /\ aborted' = aborted \ {id}
        /\ errors' \in 0 .. MaxErrors
        /\ UNCHANGED <<phase, cancelled, server, backlog, client>>
    BY <2>1, <1>1 DEF JoinNext, TcpInv, TypeOK, Open, Near
  <2> QED
    BY <2>1, <2>2, TaskKeeps
<1>2. ASSUME NEW id \in DOMAIN conns, LoopEnds(id) \/ LoopFails(id) PROVE TcpInv'
  <2> DEFINE to == IF id \in join_set THEN "ended" ELSE "gone"
  <2>1. /\ conns[id].near = "open" /\ conns' = SetNear({id}, to) /\ aborted' = aborted \ {id}
        /\ UNCHANGED <<phase, cancelled, server, backlog, join_set, client>>
    BY <1>2 DEF LoopEnds, LoopFails, EndTask, Near
  <2>2. errors' \in 0 .. MaxErrors
    BY <1>2, ConnectionsAssumption DEF LoopEnds, LoopFails, TcpInv, TypeOK, ConnectionsAssumption
  <2>3. join_set' = IF to = "gone" THEN join_set \ {id} ELSE join_set
    BY <2>1
  <2> QED
    BY <2>1, <2>2, <2>3, TaskKeeps
<1> QED
  BY <1>1, <1>2
\* The server is over, by itself or dropped by its supervisor.
LEMMA ServerOverKeeps == ASSUME TcpInv, Close \/ Drop PROVE TcpInv'
<1> DEFINE ids == {id \in DOMAIN conns : Near(id) \in {"queued", "ended"}}
<1>1. /\ server' = "over" /\ backlog' = <<>> /\ join_set' = {}
      /\ conns' = SetNear(ids, "gone")
      /\ UNCHANGED <<cancelled, client, errors>>
  BY DEF Close, Drop
<1>2. /\ \/ /\ phase["server"] = "running" /\ phase'["server"] = "waiting"
            /\ aborted' = {} /\ Open = {}
         \/ /\ phase'["server"] = "stopped" /\ aborted' = aborted \cup (join_set \cap Open)
      /\ phase' \in [{"server"} -> Phase]
  <2>1. CASE Close
    <3>1. /\ phase["server"] = "running" /\ phase' = [phase EXCEPT !["server"] = "waiting"]
          /\ \A id \in join_set : Near(id) = "ended"
          /\ aborted' = {}
      BY <2>1 DEF Close, TaskEnds, Move
    <3>2. aborted \subseteq join_set /\ aborted \subseteq Open
      BY <3>1 DEF TcpInv, TypeOK, TasksOK
    <3>3. Open = {}
      BY <3>1, <3>2 DEF TcpInv, TasksOK, Open
    <3> QED
      <4>1. phase \in [{"server"} -> Phase] /\ "waiting" \in Phase
        BY DEF TcpInv, TypeOK, Phase
      <4>2. phase' \in [{"server"} -> Phase] /\ phase'["server"] = "waiting"
        BY <4>1, <3>1
      <4>3. /\ phase["server"] = "running" /\ phase'["server"] = "waiting"
            /\ aborted' = {} /\ Open = {}
        BY <3>1, <3>3, <4>2
      <4> QED
        BY <4>2, <4>3, Zenon
  <2>2. CASE Drop
    BY <2>2 DEF Drop, DropTask, Move, TcpInv, TypeOK, Phase
  <2> QED
    BY <2>1, <2>2
<1>3. OneEach' /\ HalfClosed' \subseteq {x \in DOMAIN conns' : conns'[x].far = "open"}
  BY <1>1, NearKeepsOneEach
<1>4. /\ DOMAIN conns' \subseteq DOMAIN conns
      /\ \A x \in DOMAIN conns' :
           /\ conns'[x] \in Connection
           /\ conns'[x].near = IF x \in ids THEN "gone" ELSE conns[x].near
      /\ \A x \in DOMAIN conns :
           x \in DOMAIN conns' \/ (IF x \in ids THEN "gone" ELSE conns[x].near) = "gone"
  <2>1. TypeOK /\ conns' = SetNear(ids, "gone")
    BY <1>1 DEF TcpInv
  <2> HIDE DEF ids
  <2> QED
    BY <2>1, NearChanges
<1>5. \A x \in DOMAIN conns' : conns'[x].near \notin {"queued", "ended"}
  BY <1>4 DEF Near
<1>6. \A x \in Open : x \in DOMAIN conns' /\ conns'[x].near = "open"
  BY <1>4 DEF Open, Near
<1>7. /\ {backlog'[n] : n \in DOMAIN backlog'} = {x \in DOMAIN conns' : conns'[x].near = "queued"}
  BY <1>1, <1>5
<1>8. aborted' \subseteq Open'
  BY <1>2, <1>6 DEF Open, Near, TcpInv, TypeOK
<1>9. TypeOK' /\ ServerRuns' /\ BacklogOK'
  BY <1>1, <1>2, <1>4, <1>7, <1>8, ConnectionsAssumption
  DEF TcpInv, TypeOK, ServerRuns, BacklogOK, Near, ConnectionsAssumption
<1>10. IsFiniteSet((join_set \cup aborted)') /\ Cardinality((join_set \cup aborted)') <= MaxClients
  <2>1. (join_set \cup aborted)' \in SUBSET (join_set \cup aborted)
    BY <1>1, <1>2
  <2>2. MaxClients \in Nat /\ IsFiniteSet(join_set \cup aborted)
        /\ Cardinality(join_set \cup aborted) <= MaxClients
    BY ConnectionsAssumption DEF TcpInv, TasksOK, ConnectionsAssumption
  <2> QED
    BY <2>1, <2>2, FS_Subset, FS_CardinalityType
<1>11. \A x \in DOMAIN conns' : conns'[x].near = "open" => x \in aborted'
  <2> SUFFICES ASSUME NEW x \in DOMAIN conns', conns'[x].near = "open" PROVE x \in aborted'
    OBVIOUS
  <2>1. x \in Open
    BY <1>4 DEF Open, Near
  <2> QED
    BY <2>1, <1>2 DEF TcpInv, TasksOK, Open
<1>12. TasksOK'
  BY <1>1, <1>2, <1>3, <1>5, <1>10, <1>11 DEF TasksOK, Near, Far
<1> QED
  BY <1>3, <1>9, <1>12 DEF TcpInv

-----------------------------------------------------------------------------
(* The clients.                                                            *)

\* A client without a connection takes a free number.
LEMMA ConnectKeeps == ASSUME TcpInv, NEW p \in Peer, Connect(p) PROVE TcpInv'
<1> DEFINE id == CHOOSE i \in Id \ DOMAIN conns : TRUE
<1>1. /\ client[p] = "connecting" /\ Listening /\ Len(backlog) < Backlog
      /\ conns' = [i \in DOMAIN conns \cup {id} |->
                     IF i = id THEN [peer |-> p, near |-> "queued", far |-> "open"]
                     ELSE conns[i]]
      /\ backlog' = Append(backlog, id)
      /\ client' = [client EXCEPT ![p] = "connected"]
      /\ UNCHANGED <<phase, cancelled, server, join_set, aborted, errors>>
  BY DEF Connect
<1>2. id \in Id /\ id \notin DOMAIN conns
  BY <1>1, FreshId
<1> HIDE DEF id
<1>3. /\ DOMAIN conns' = DOMAIN conns \cup {id} /\ conns'[id] \in Connection
      /\ conns'[id].peer = p /\ conns'[id].near = "queued" /\ conns'[id].far = "open"
      /\ \A x \in DOMAIN conns : conns'[x] = conns[x]
  BY <1>1, <1>2 DEF Connection
<1>4. /\ backlog' \in Seq(Id) /\ Len(backlog') = Len(backlog) + 1 /\ Len(backlog) \in Nat
      /\ backlog'[Len(backlog) + 1] = id
      /\ \A n \in 1 .. Len(backlog) : backlog'[n] = backlog[n] /\ backlog[n] # id
  BY <1>1, <1>2 DEF TcpInv, BacklogOK, TypeOK
<1>5. BacklogOK'
  BY <1>1, <1>4, ConnectionsAssumption DEF TcpInv, BacklogOK, ConnectionsAssumption
<1>6. {backlog'[n] : n \in DOMAIN backlog'} = {x \in DOMAIN conns' : conns'[x].near = "queued"}
  <2>1. \A x : (\E n \in 1 .. Len(backlog) : backlog[n] = x)
                 <=> x \in DOMAIN conns /\ conns[x].near = "queued"
    BY DEF TcpInv, TypeOK, Near, BacklogOK
  <2>2. \A x : (\E n \in 1 .. Len(backlog') : backlog'[n] = x)
                 <=> x = id \/ \E n \in 1 .. Len(backlog) : backlog[n] = x
    BY <1>4
  <2> QED
    BY <2>1, <2>2, <1>3, <1>4
<1>7. Open' = Open /\ HalfClosed' = HalfClosed /\ Listening
  BY <1>1, <1>2, <1>3 DEF Open, HalfClosed, Near
<1>8. TypeOK' /\ ServerRuns'
  BY <1>1, <1>2, <1>3, <1>6, <1>7 DEF TcpInv, TypeOK, ServerRuns, Near, Listening
<1>9. OneEach'
  BY <1>1, <1>3 DEF TcpInv, OneEach, TypeOK, Connection, Far
<1>10. TasksOK'
  BY <1>1, <1>3, <1>7 DEF TcpInv, TasksOK, Near, Far, HalfClosed
<1> QED
  BY <1>5, <1>8, <1>9, <1>10 DEF TcpInv

LEMMA HangupKeeps ==
  ASSUME TcpInv, NEW p \in Peer, Disconnect(p) \/ Break(p) \/ ClientStops(p) PROVE TcpInv'
<1>1. PICK to \in {"backoff", "over"} :
        /\ Hangup(p, to)
        /\ errors' \in 0 .. MaxErrors
        /\ UNCHANGED <<phase, cancelled, server, backlog, join_set, aborted>>
  BY ConnectionsAssumption
  DEF Disconnect, Break, ClientStops, TcpInv, TypeOK, ConnectionsAssumption
<1>2. client' = [client EXCEPT ![p] = to]
  BY <1>1 DEF Hangup
<1>3. /\ DOMAIN conns' \subseteq DOMAIN conns
      /\ \A id \in DOMAIN conns' :
           /\ conns'[id] \in Connection
           /\ conns'[id].peer = conns[id].peer /\ conns'[id].near = conns[id].near
           /\ conns'[id].far = IF conns[id].peer = p THEN "closed" ELSE conns[id].far
           /\ conns'[id].near # "gone" \/ conns'[id].far # "closed"
      /\ \A id \in DOMAIN conns : id \in DOMAIN conns' \/ conns[id].near = "gone"
  BY <1>1, FarChanges DEF TcpInv
<1>4. /\ {id \in DOMAIN conns' : conns'[id].near = "queued"}
           = {id \in DOMAIN conns : conns[id].near = "queued"}
      /\ Open' = Open
  BY <1>3 DEF Open, Near
<1>5. \A id \in join_set : id \in DOMAIN conns' /\ conns'[id].near \in {"open", "ended"}
  BY <1>3 DEF TcpInv, TypeOK, Near
<1>6. TypeOK'
  BY <1>1, <1>2, <1>3, <1>4, <1>5 DEF TcpInv, TypeOK, Near
<1>7. ServerRuns' /\ BacklogOK'
  BY <1>1 DEF TcpInv, ServerRuns, BacklogOK
<1>8. OneEach'
  BY <1>2, <1>3 DEF TcpInv, OneEach, TypeOK, Connection, Far
<1>9. TasksOK'
  BY <1>1, <1>3 DEF TcpInv, TasksOK, HalfClosed, Near, Far, Connection
<1> QED
  BY <1>6, <1>7, <1>8, <1>9 DEF TcpInv

-----------------------------------------------------------------------------

LEMMA TcpNext == TcpInv /\ [Next]_vars => TcpInv'
<1> SUFFICES ASSUME TcpInv, [Next]_vars PROVE TcpInv'
  OBVIOUS
<1>1. CASE Server
  BY <1>1, ServerMoves, AcceptKeeps, JoinAndEndKeep, ServerOverKeeps DEF Server
<1>2. ASSUME NEW p \in Peer, Client(p) PROVE TcpInv'
  BY <1>2, ClientMoves, ConnectKeeps, HangupKeeps DEF Client
<1>3. CASE UNCHANGED vars
  BY <1>3
  DEF vars, TcpInv, TypeOK, ServerRuns, BacklogOK, OneEach, TasksOK, Near, Far, Open,
      HalfClosed
<1> QED
  BY <1>1, <1>2, <1>3, ClientMoves, JoinAndEndKeep DEF Next

LEMMA TcpInvariance == Spec => []TcpInv
BY TcpInit, TcpNext, PTL DEF Spec

\* The connections, the backlog and the JoinSet stay consistent with each other
\* (tcp.rs:61-128).
THEOREM ConnectionsTypeCorrect == Spec => []TypeOK
<1>1. TcpInv => TypeOK
  BY DEF TcpInv
<1> QED
  BY <1>1, TcpInvariance, PTL

\* No more connections are served than MAX_TCP_CLIENTS, although the test is on the
\* JoinSet, which also holds dead ones and not those that were aborted (tcp.rs:77-82).
THEOREM ClientsLimited == Spec => []AtMostMaxClients
<1>1. TcpInv => AtMostMaxClients
  <2> SUFFICES ASSUME TcpInv PROVE AtMostMaxClients
    OBVIOUS
  <2>1. Open \in SUBSET (join_set \cup aborted)
    BY DEF TcpInv, TasksOK, Open
  <2>2. MaxClients \in Nat /\ IsFiniteSet(join_set \cup aborted)
        /\ Cardinality(join_set \cup aborted) <= MaxClients
    BY ConnectionsAssumption DEF TcpInv, TasksOK, ConnectionsAssumption
  <2> QED
    BY <2>1, <2>2, FS_Subset, FS_CardinalityType DEF AtMostMaxClients
<1> QED
  BY <1>1, TcpInvariance, PTL

\* A task that serves a connection belongs to a running server or has been aborted, and a
\* server that returns by itself leaves none (tcp.rs:123, supervisor.rs:22-27).
THEOREM NoneOrphaned == Spec => []NoOrphans
<1>1. TcpInv => NoOrphans
  BY DEF TcpInv, TypeOK, TasksOK, ServerRuns, Open, NoOrphans
<1> QED
  BY <1>1, TcpInvariance, PTL

-----------------------------------------------------------------------------
(* The logger.                                                             *)

past == cursor["tlog"]
Logged == written \o buffered

\* What is in the files and in the buffer is in order, and the cursor is past it.
OrderOK == Increasing(Logged) /\ UpTo(Logged, past)

\* A run has been there for all that is beyond its cursor; when there is none, nobody has.
ReceivedOK ==
  /\ handled \subseteq 1 .. past
  /\ task # "over" => away \subseteq 1 .. past
  /\ task = "over" => (past + 1) .. Len(sent) \subseteq away

Accounted == handled \cup away

CountOK == bus_lagged = Cardinality(Lost(past, Accounted))

LogInv == Log!TypeOK /\ OrderOK /\ ReceivedOK /\ CountOK

-----------------------------------------------------------------------------
(* What the steps have in common.                                          *)

LEMMA LogTypes ==
  ASSUME LogInv
  PROVE  /\ Len(sent) \in Nat /\ past \in Nat /\ past <= Len(sent)
         /\ written \in Seq(Nat) /\ buffered \in Seq(Nat) /\ Logged \in Seq(Nat)
         /\ bus_lagged \in Nat
<1>1. Len(sent) \in Nat /\ bus_lagged \in Nat
  BY LenProperties DEF LogInv, Log!TypeOK
<1>2. Log!Position \subseteq Nat
  BY DEF Log!Position
<1>3. written \in Seq(Nat) /\ buffered \in Seq(Nat)
  BY <1>2, SeqMonotonic DEF LogInv, Log!TypeOK
<1>4. Logged \in Seq(Nat)
  BY <1>3, ConcatProperties DEF Logged
<1>5. past \in 0 .. Len(sent)
  BY DEF LogInv, Log!TypeOK, past
<1> QED
  BY <1>1, <1>3, <1>4, <1>5

\* What is written stays in order, whatever gets from the buffer into the file or is lost
\* in it.
LEMMA OldInOrder ==
  ASSUME LogInv, past' \in Nat, past <= past', Logged' = Logged \/ Logged' = written
  PROVE  OrderOK'
<1>1. written \in Seq(Nat) /\ buffered \in Seq(Nat) /\ Logged \in Seq(Nat) /\ past \in Nat
  BY LogTypes
<1>2. Increasing(Logged) /\ UpTo(Logged, past)
  BY DEF LogInv, OrderOK
<1>3. Increasing(written) /\ UpTo(written, past)
  BY <1>1, <1>2, WithoutBuffer DEF Logged
<1>4. Logged' \in Seq(Nat) /\ Increasing(Logged') /\ UpTo(Logged', past)
  BY <1>1, <1>2, <1>3
<1>5. UpTo(Logged', past')
  BY <1>1, <1>4, UpToMore
<1> QED
  BY <1>4, <1>5 DEF OrderOK

\* The cursor moves past what has been received, or was sent while nobody was there.
LEMMA NothingLost ==
  ASSUME LogInv, past' \in Nat, past <= past',
         \A p \in 1 .. past : p \in Accounted' <=> p \in Accounted,
         past + 1 .. past' \subseteq Accounted', bus_lagged' = bus_lagged
  PROVE  CountOK'
<1>1. past \in Nat
  BY LogTypes
<1>2. Lost(past', Accounted') = Lost(past, Accounted)
  BY <1>1, LostSame
<1>3. bus_lagged = Cardinality(Lost(past, Accounted))
  BY DEF LogInv, CountOK, Lost, Accounted, past
<1>4. bus_lagged' = Cardinality(Lost(past', Accounted'))
  BY <1>2, <1>3
<1> QED
  BY <1>4 DEF CountOK, Lost, Accounted, past

-----------------------------------------------------------------------------
(* The steps.                                                              *)

\* Nothing is sent, received or written.
LEMMA LogQuiet ==
  ASSUME LogInv, Log!Cancel \/ Log!OpenFile \/ Log!SeeCancelled \/ Log!Backoff \/ UNCHANGED Log!vars
  PROVE  LogInv'
<1>1. /\ UNCHANGED <<sent, cursor, buffered, written, bus_lagged, log_errors, handled, away>>
      /\ log_phase' \in [{"tlog"} -> Log!Phase] /\ log_cancelled' \in {{}, {"tlog"}}
      /\ task' \in {"opening", "select", "closing", "over"}
      /\ (task' = "over") <=> (task = "over")
      /\ task' = "opening" => task = "opening"
  BY DEF Log!Cancel, Log!OpenFile, Log!SeeCancelled, Log!Backoff, Log!BackoffEnds,
         Log!StopWaiting, Log!Move, Log!vars, LogInv, Log!TypeOK, Log!Phase
<1>2. log_phase'["tlog"] # "running" <=> log_phase["tlog"] # "running"
  BY DEF Log!Cancel, Log!OpenFile, Log!SeeCancelled, Log!Backoff, Log!BackoffEnds,
         Log!StopWaiting, Log!Move, Log!vars, LogInv, Log!TypeOK
<1>3. Log!TypeOK'
  BY <1>1, <1>2 DEF LogInv, Log!TypeOK, Log!Position
<1>4. OrderOK' /\ ReceivedOK' /\ CountOK'
  BY <1>1 DEF LogInv, OrderOK, ReceivedOK, CountOK, Lost, Accounted, Logged, past
<1> QED
  BY <1>3, <1>4 DEF LogInv

LEMMA LogPublishes == ASSUME LogInv, NEW m \in LogMessage, Log!Publish(m) PROVE LogInv'
<1>1. /\ sent' = Append(sent, m)
      /\ away' = IF task = "over" THEN away \cup {Len(sent) + 1} ELSE away
      /\ UNCHANGED <<cursor, log_phase, log_cancelled, task, buffered, written, bus_lagged,
                     log_errors, handled>>
  BY DEF Log!Publish
<1>2. sent' \in Seq(LogMessage) /\ Len(sent) \in Nat /\ Len(sent') = Len(sent) + 1
  BY <1>1, AppendProperties, LenProperties DEF LogInv, Log!TypeOK
<1>3. past \in Nat /\ past <= Len(sent) /\ past' = past /\ Logged' = Logged
  BY <1>1, LogTypes DEF past, Logged
<1>4. Log!TypeOK'
  <2>1. Log!Position' = Log!Position \cup {Len(sent) + 1} /\ Log!Position \subseteq Log!Position'
    BY <1>2 DEF Log!Position
  <2>2. buffered \in Seq(Log!Position') /\ written \in Seq(Log!Position')
    BY <2>1, SeqMonotonic DEF LogInv, Log!TypeOK
  <2>3. handled' \in SUBSET Log!Position' /\ away' \in SUBSET Log!Position'
    BY <1>1, <2>1 DEF LogInv, Log!TypeOK
  <2>4. cursor' \in [{"tlog"} -> 0 .. Len(sent')]
    <3>1. 0 .. Len(sent) \subseteq 0 .. Len(sent') /\ cursor \in [{"tlog"} -> 0 .. Len(sent)]
      BY <1>2 DEF LogInv, Log!TypeOK
    <3> QED
      BY <1>1, <3>1
  <2> QED
    BY <1>1, <1>2, <2>2, <2>3, <2>4 DEF LogInv, Log!TypeOK
<1>5. OrderOK'
  BY <1>3, OldInOrder
<1>6. ReceivedOK'
  <2>1. (past + 1) .. Len(sent') = ((past + 1) .. Len(sent)) \cup {Len(sent) + 1}
    BY <1>2, <1>3
  <2> QED
    BY <1>1, <1>3, <2>1 DEF LogInv, ReceivedOK
<1>7. CountOK'
  <2>1. \A p \in 1 .. past : p \in Accounted' <=> p \in Accounted
    BY <1>1, <1>2, <1>3 DEF Accounted
  <2>2. past + 1 .. past' \subseteq Accounted'
    BY <1>3
  <2> QED
    BY <1>1, <1>3, <2>1, <2>2, NothingLost
<1> QED
  BY <1>4, <1>5, <1>6, <1>7 DEF LogInv

LEMMA LogLags == ASSUME LogInv, Log!Lagged PROVE LogInv'
<1>1. /\ task = "select" /\ past < Log!Oldest
      /\ bus_lagged' = bus_lagged + (Log!Oldest - past)
      /\ cursor' = [cursor EXCEPT !["tlog"] = Log!Oldest]
      /\ UNCHANGED <<sent, log_phase, log_cancelled, task, buffered, written, log_errors,
                     handled, away>>
  BY DEF Log!Lagged, Log!HasLagged, Log!Missed, Log!SkipMissed, past
<1>2. /\ Len(sent) \in Nat /\ past \in Nat /\ bus_lagged \in Nat /\ Log!Oldest \in 0 .. Len(sent)
      /\ past <= Log!Oldest
  BY <1>1, LogTypes, SupervisedAssumption DEF Log!Oldest, SupervisedAssumption
<1>3. cursor' \in [{"tlog"} -> 0 .. Len(sent)] /\ past' = Log!Oldest
  BY <1>1, <1>2 DEF LogInv, Log!TypeOK, past
<1>4. bus_lagged' \in Nat
  BY <1>1, <1>2
<1>5. Log!TypeOK'
  BY <1>1, <1>3, <1>4 DEF LogInv, Log!TypeOK, Log!Position
<1>6. OrderOK'
  <2>1. Logged' = Logged /\ past' \in Nat /\ past <= past'
    BY <1>1, <1>2, <1>3 DEF Logged
  <2> QED
    BY <2>1, OldInOrder
<1>7. handled \subseteq 1 .. past /\ away \subseteq 1 .. past
  BY <1>1 DEF LogInv, ReceivedOK
<1>8. ReceivedOK'
  BY <1>1, <1>2, <1>3, <1>7 DEF ReceivedOK
<1>9. CountOK'
  <2>1. Accounted \cap (past + 1 .. Log!Oldest) = {} /\ Log!Oldest \in Nat
    BY <1>2, <1>7 DEF Accounted
  <2>2. Cardinality(Lost(Log!Oldest, Accounted))
          = Cardinality(Lost(past, Accounted)) + (Log!Oldest - past)
    BY <1>2, <2>1, LostMore
  <2>3. bus_lagged = Cardinality(Lost(past, Accounted))
    BY DEF LogInv, CountOK, Lost, Accounted, past
  <2>4. bus_lagged' = Cardinality(Lost(Log!Oldest, Accounted))
    BY <1>1, <2>2, <2>3
  <2> QED
    BY <1>1, <1>3, <2>4 DEF CountOK, Lost, Accounted, past
<1> QED
  BY <1>5, <1>6, <1>8, <1>9 DEF LogInv
LEMMA LogReceives == ASSUME LogInv, Log!Receive PROVE LogInv'
<1> DEFINE p == past + 1
<1>1. /\ task = "select" /\ Log!Oldest <= past /\ past < Len(sent)
      /\ cursor' = [cursor EXCEPT !["tlog"] = @ + 1]
      /\ handled' = handled \cup {p} /\ buffered' = Append(buffered, p)
      /\ UNCHANGED <<sent, log_phase, log_cancelled, task, written, bus_lagged, log_errors, away>>
  BY DEF Log!Receive, Log!CanReceive, Log!TakeNext, Log!NextPosition, past
<1>2. /\ Len(sent) \in Nat /\ past \in Nat /\ p \in 1 .. Len(sent) /\ p \in Nat /\ past < p
      /\ written \in Seq(Nat) /\ buffered \in Seq(Nat) /\ Logged \in Seq(Nat)
  BY <1>1, LogTypes
<1>3. cursor' \in [{"tlog"} -> 0 .. Len(sent)] /\ past' = p
  <2>1. cursor["tlog"] + 1 \in 0 .. Len(sent) /\ cursor \in [{"tlog"} -> 0 .. Len(sent)]
    BY <1>2 DEF LogInv, Log!TypeOK, past
  <2> QED
    BY <1>1, <2>1 DEF past
<1> HIDE DEF p
<1>4. Log!TypeOK'
  <2>1. buffered' \in Seq(Log!Position)
    <3>1. buffered \in Seq(Log!Position) /\ p \in Log!Position
      BY <1>2 DEF LogInv, Log!TypeOK, Log!Position
    <3> QED
      BY <1>1, <3>1, AppendProperties
  <2>2. handled' \in SUBSET Log!Position
    BY <1>1, <1>2 DEF LogInv, Log!TypeOK, Log!Position
  <2> QED
    BY <1>1, <1>3, <2>1, <2>2 DEF LogInv, Log!TypeOK, Log!Position
<1>5. OrderOK'
  <2>1. Logged' = Append(Logged, p)
    <3>1. \A v, b \in Seq(Nat), x \in Nat : v \o Append(b, x) = Append(v \o b, x)
      BY BufferMore
    <3>2. written \o Append(buffered, p) = Append(written \o buffered, p)
      BY <1>2, <3>1
    <3> QED
      BY <1>1, <3>2 DEF Logged
  <2>2. Increasing(Logged) /\ UpTo(Logged, past)
    BY DEF LogInv, OrderOK
  <2>3. Increasing(Append(Logged, p)) /\ UpTo(Append(Logged, p), p)
    BY <1>2, <2>2, OneMore
  <2> QED
    BY <1>3, <2>1, <2>3 DEF OrderOK
<1>6. p = past + 1 /\ handled \subseteq 1 .. past /\ away \subseteq 1 .. past
  BY <1>1 DEF LogInv, ReceivedOK, p
<1>7. ReceivedOK'
  BY <1>1, <1>2, <1>3, <1>6 DEF ReceivedOK
<1>8. CountOK'
  <2>1. \A q \in 1 .. past : q \in Accounted' <=> q \in Accounted
    BY <1>1, <1>2, <1>6 DEF Accounted
  <2>2. past + 1 .. past' \subseteq Accounted'
    BY <1>1, <1>2, <1>3, <1>6 DEF Accounted
  <2>3. past' \in Nat /\ past <= past'
    BY <1>2, <1>3
  <2> QED
    BY <1>1, <2>1, <2>2, <2>3, NothingLost
<1> QED
  BY <1>4, <1>5, <1>7, <1>8 DEF LogInv

\* Some of the buffer gets into the file, or all of it.
LEMMA LogFlushes == ASSUME LogInv, Log!Spill \/ Log!PeriodicFlush PROVE LogInv'
<1>1. /\ UNCHANGED <<sent, cursor, log_phase, log_cancelled, task, bus_lagged, log_errors,
                     handled, away>>
      /\ task \in {"select", "closing"}
  BY DEF Log!Spill, Log!PeriodicFlush
<1>2. written \in Seq(Log!Position) /\ buffered \in Seq(Log!Position) /\ past \in Nat
  BY LogTypes DEF LogInv, Log!TypeOK
<1>3. written' \in Seq(Log!Position) /\ buffered' \in Seq(Log!Position) /\ Logged' = Logged
  <2>1. CASE Log!PeriodicFlush
    <3>1. written' = written \o buffered /\ buffered' = <<>>
      BY <2>1 DEF Log!PeriodicFlush
    <3>2. written \o buffered \in Seq(Log!Position)
      BY <1>2, ConcatProperties
    <3>3. (written \o buffered) \o <<>> = written \o buffered
      BY <3>2, BufferNone
    <3> QED
      BY <3>1, <3>2, <3>3 DEF Logged
  <2>2. CASE Log!Spill
    <3>1. PICK n \in DOMAIN buffered :
            /\ written' = written \o SubSeq(buffered, 1, n)
            /\ buffered' = SubSeq(buffered, n + 1, Len(buffered))
      BY <2>2 DEF Log!Spill
    <3>2. /\ written \o SubSeq(buffered, 1, n) \in Seq(Log!Position)
          /\ SubSeq(buffered, n + 1, Len(buffered)) \in Seq(Log!Position)
          /\ (written \o SubSeq(buffered, 1, n)) \o SubSeq(buffered, n + 1, Len(buffered))
               = written \o buffered
      <4> DEFINE S == Log!Position
                 v == written
                 b == buffered
      <4>1. v \in Seq(S) /\ b \in Seq(S) /\ n \in DOMAIN b
        BY <1>2
      <4> HIDE DEF S, v, b
      <4>2. Spilled(S, v, b, SubSeq(b, 1, n), SubSeq(b, n + 1, Len(b)))
        BY <4>1, BufferLess
      <4> QED
        BY <4>2 DEF Spilled, S, v, b
    <3> QED
      BY <3>1, <3>2 DEF Logged
  <2> QED
    BY <2>1, <2>2
<1>4. Log!TypeOK'
  BY <1>1, <1>3 DEF LogInv, Log!TypeOK, Log!Position
<1>5. OrderOK' /\ ReceivedOK' /\ CountOK'
  BY <1>1, <1>3 DEF LogInv, OrderOK, ReceivedOK, CountOK, Lost, Accounted, past
<1> QED
  BY <1>4, <1>5 DEF LogInv

\* The run is over, with what is in its buffer or after a last flush, on its own or over a
\* message that it has just received.
LEMMA LogOver ==
  ASSUME LogInv, Log!Over(past'), UNCHANGED <<sent, log_cancelled, bus_lagged>>,
         log_phase' \in [{"tlog"} -> Log!Phase], log_phase'["tlog"] # "running",
         log_errors' \in Nat,
         written' = written \/ written' = written \o buffered,
         \/ UNCHANGED <<cursor, handled>>
         \/ /\ Log!CanReceive("tlog") /\ Log!TakeNext("tlog")
            /\ handled' = handled \cup {Log!NextPosition("tlog")},
         task # "over"
  PROVE  LogInv'
<1>1. task' = "over" /\ buffered' = <<>> /\ away' = away \cup ((past' + 1) .. Len(sent))
  BY DEF Log!Over
<1>2. /\ Len(sent) \in Nat /\ past \in Nat /\ past <= Len(sent)
      /\ written \in Seq(Nat) /\ buffered \in Seq(Nat) /\ Logged \in Seq(Nat)
  BY LogTypes
<1>3. /\ cursor' \in [{"tlog"} -> 0 .. Len(sent)]
      /\ \/ past' = past /\ handled' = handled
         \/ past' = past + 1 /\ past < Len(sent) /\ handled' = handled \cup {past + 1}
  <2>1. cursor \in [{"tlog"} -> 0 .. Len(sent)]
    BY DEF LogInv, Log!TypeOK
  <2>2. CASE UNCHANGED <<cursor, handled>>
    BY <2>1, <2>2 DEF past
  <2>3. CASE /\ Log!CanReceive("tlog") /\ Log!TakeNext("tlog")
             /\ handled' = handled \cup {Log!NextPosition("tlog")}
    <3>1. cursor' = [cursor EXCEPT !["tlog"] = @ + 1] /\ cursor["tlog"] + 1 \in 0 .. Len(sent)
          /\ past < Len(sent)
      BY <1>2, <2>3 DEF Log!CanReceive, Log!TakeNext, past
    <3> QED
      BY <2>1, <2>3, <3>1 DEF Log!NextPosition, past
  <2> QED
    BY <2>2, <2>3
<1>4. past' \in Nat /\ past <= past' /\ past' <= Len(sent)
  BY <1>2, <1>3
<1>5. handled \subseteq 1 .. past /\ away \subseteq 1 .. past
  BY DEF LogInv, ReceivedOK
<1>a. handled' \subseteq 1 .. past' /\ \A q \in 1 .. past : q \in handled' <=> q \in handled
  <2>1. CASE past' = past /\ handled' = handled
    BY <1>5, <2>1
  <2>2. CASE past' = past + 1 /\ handled' = handled \cup {past + 1}
    <3>1. \A q \in handled' : q \in 1 .. past'
      <4> SUFFICES ASSUME NEW q \in handled' PROVE q \in 1 .. past'
        OBVIOUS
      <4>1. q \in 1 .. past \/ q = past + 1
        BY <1>5, <2>2
      <4> QED
        BY <1>2, <2>2, <4>1
    <3>2. \A q \in 1 .. past : q # past + 1
      BY <1>2
    <3> QED
      BY <2>2, <3>1, <3>2
  <2> QED
    BY <1>3, <2>1, <2>2
<1>b. away' \subseteq 1 .. Len(sent) /\ \A q \in 1 .. past : q \in away' <=> q \in away
  <2>1. (past' + 1) .. Len(sent) \subseteq 1 .. Len(sent)
    BY <1>2, <1>4
  <2>2. 1 .. past \subseteq 1 .. Len(sent)
    BY <1>2
  <2>3. \A q \in 1 .. past : q \notin (past' + 1) .. Len(sent)
    <3>1. \A k, l \in Nat : k <= l => \A q \in 1 .. k : q \notin (l + 1) .. Len(sent)
      BY <1>2
    <3> QED
      BY <1>2, <1>4, <3>1
  <2> QED
    BY <1>1, <1>5, <2>1, <2>2, <2>3
<1>6. written' \in Seq(Log!Position)
  <2>1. written \in Seq(Log!Position) /\ buffered \in Seq(Log!Position)
    BY DEF LogInv, Log!TypeOK
  <2>2. written \o buffered \in Seq(Log!Position)
    BY <2>1, ConcatProperties
  <2> QED
    BY <2>1, <2>2
<1>7. Log!TypeOK'
  <2>1. handled' \in SUBSET Log!Position /\ away' \in SUBSET Log!Position
    <3>1. 1 .. past' \subseteq 1 .. Len(sent)
      BY <1>2, <1>4
    <3> QED
      BY <1>a, <1>b, <3>1 DEF Log!Position
  <2>2. buffered' \in Seq(Log!Position)
    BY <1>1
  <2> QED
    BY <1>1, <1>3, <1>6, <2>1, <2>2 DEF LogInv, Log!TypeOK, Log!Position
<1>8. OrderOK'
  <2>1. Logged' = Logged \/ Logged' = written
    <3>1. Logged' = written' \o <<>> /\ written' \in Seq(Log!Position)
      BY <1>1, <1>6 DEF Logged
    <3>2. Logged' = written'
      BY <3>1, BufferNone
    <3> QED
      BY <3>2 DEF Logged
  <2> QED
    BY <1>4, <2>1, OldInOrder
<1>9. ReceivedOK'
  BY <1>1, <1>a DEF ReceivedOK
<1>10. CountOK'
  <2>1. \A q \in 1 .. past : q \in Accounted' <=> q \in Accounted
    BY <1>a, <1>b DEF Accounted
  <2>2. past + 1 .. past' \subseteq Accounted'
    BY <1>2, <1>3 DEF Accounted
  <2> QED
    BY <1>4, <2>1, <2>2, NothingLost
<1> QED
  BY <1>7, <1>8, <1>9, <1>10 DEF LogInv

LEMMA LogEnds ==
  ASSUME LogInv,
         \/ Log!OpenFails \/ Log!WriteFails \/ Log!PeriodicFlushFails
         \/ Log!Close \/ Log!CloseFails \/ Log!Drop
  PROVE  LogInv'
<1>1. /\ UNCHANGED <<sent, log_cancelled, bus_lagged>>
      /\ written' = written \/ written' = written \o buffered
      /\ task # "over"
  BY DEF Log!OpenFails, Log!WriteFails, Log!PeriodicFlushFails, Log!Close, Log!CloseFails,
         Log!Drop, Log!DropTask, LogInv, Log!TypeOK
<1>2. log_phase' \in [{"tlog"} -> Log!Phase] /\ log_phase'["tlog"] # "running"
  <2>1. \/ log_phase' = [log_phase EXCEPT !["tlog"] = "waiting"]
        \/ log_phase' = [log_phase EXCEPT !["tlog"] = "stopped"]
    BY DEF Log!OpenFails, Log!WriteFails, Log!PeriodicFlushFails, Log!Close, Log!CloseFails,
           Log!Drop, Log!DropTask, Log!Fail, Log!TaskEnds, Log!Move
  <2>2. log_phase \in [{"tlog"} -> Log!Phase] /\ "tlog" \in {"tlog"}
    BY DEF LogInv, Log!TypeOK
  <2> QED
    BY <2>1, <2>2 DEF Log!Phase
<1>3. log_errors' \in Nat
  BY DEF Log!OpenFails, Log!WriteFails, Log!PeriodicFlushFails, Log!Close, Log!CloseFails,
         Log!Drop, Log!Fail, LogInv, Log!TypeOK
<1>4. CASE Log!WriteFails
  <2>1. /\ Log!CanReceive("tlog") /\ Log!TakeNext("tlog") /\ Log!Over(Log!NextPosition("tlog"))
        /\ handled' = handled \cup {Log!NextPosition("tlog")}
    BY <1>4 DEF Log!WriteFails, Log!Fail
  <2>2. past' = Log!NextPosition("tlog")
    BY <2>1 DEF Log!TakeNext, Log!NextPosition, past, LogInv, Log!TypeOK
  <2> QED
    BY <1>1, <1>2, <1>3, <2>1, <2>2, LogOver
<1>5. CASE Log!OpenFails \/ Log!PeriodicFlushFails \/ Log!Close \/ Log!CloseFails \/ Log!Drop
  <2>1. Log!Over(past) /\ UNCHANGED <<cursor, handled>>
    BY <1>5
    DEF Log!OpenFails, Log!PeriodicFlushFails, Log!Close, Log!CloseFails, Log!Drop, Log!Fail,
        past
  <2>2. past' = past
    BY <2>1 DEF past
  <2> QED
    BY <1>1, <1>2, <1>3, <2>1, <2>2, LogOver
<1> QED
  BY <1>4, <1>5

\* What was sent in between is behind the new cursor, and accounted for.
LEMMA LogRestarts == ASSUME LogInv, Log!Restart PROVE LogInv'
<1>1. /\ log_phase["tlog"] = "due" /\ log_phase' = [log_phase EXCEPT !["tlog"] = "running"]
      /\ cursor' = [cursor EXCEPT !["tlog"] = Len(sent)] /\ task' = "opening"
      /\ UNCHANGED <<sent, log_cancelled, buffered, written, bus_lagged, log_errors, handled, away>>
  BY DEF Log!Restart, Log!WakeUp, Log!Move, Log!Subscribe
<1>2. task = "over" /\ buffered = <<>>
  BY <1>1 DEF LogInv, Log!TypeOK
<1>3. Len(sent) \in Nat /\ past \in Nat /\ past <= Len(sent)
  BY LogTypes
<1>4. cursor' \in [{"tlog"} -> 0 .. Len(sent)] /\ past' = Len(sent)
  BY <1>1, <1>3 DEF LogInv, Log!TypeOK, past
<1>5. log_phase' \in [{"tlog"} -> Log!Phase] /\ log_phase'["tlog"] = "running"
  BY <1>1 DEF LogInv, Log!TypeOK, Log!Phase
<1>6. Log!TypeOK'
  BY <1>1, <1>2, <1>4, <1>5 DEF LogInv, Log!TypeOK, Log!Position
<1>7. OrderOK'
  <2>1. Logged' = Logged /\ past' \in Nat /\ past <= past'
    BY <1>1, <1>3, <1>4 DEF Logged
  <2> QED
    BY <2>1, OldInOrder
<1>8. ReceivedOK'
  BY <1>1, <1>4 DEF LogInv, Log!TypeOK, ReceivedOK, Log!Position
<1>9. CountOK'
  <2>1. Accounted' = Accounted /\ past + 1 .. past' \subseteq Accounted
    BY <1>1, <1>2, <1>4 DEF LogInv, ReceivedOK, Accounted
  <2> QED
    BY <1>1, <1>3, <1>4, <2>1, NothingLost
<1> QED
  BY <1>6, <1>7, <1>8, <1>9 DEF LogInv

-----------------------------------------------------------------------------

LEMMA LogInit == ASSUME Log!Init PROVE LogInv
<1>1. /\ sent = <<>> /\ cursor = [r \in {"tlog"} |-> 0] /\ task = "opening"
      /\ log_phase = [t \in {"tlog"} |-> "running"] /\ log_cancelled = {}
      /\ buffered = <<>> /\ written = <<>> /\ handled = {} /\ away = {}
      /\ bus_lagged = 0 /\ log_errors = 0
  BY DEF Log!Init
<1>2. past = 0 /\ Len(sent) = 0 /\ 0 \in 0 .. Len(sent)
  BY <1>1 DEF past
<1>3. Log!TypeOK
  BY <1>1, <1>2 DEF Log!TypeOK, Log!Phase
<1>4. OrderOK
  <2>1. Logged = <<>> \o <<>> /\ <<>> \in Seq(Nat)
    BY <1>1 DEF Logged
  <2>2. Logged = <<>>
    BY <2>1, BufferNone
  <2> QED
    BY <2>2 DEF OrderOK, Increasing, UpTo
<1>5. ReceivedOK
  BY <1>1, <1>2 DEF ReceivedOK
<1>6. CountOK
  <2>1. Lost(past, Accounted) = {}
    BY <1>2 DEF Lost
  <2> QED
    BY <1>1, <2>1, FS_EmptySet DEF CountOK
<1> QED
  BY <1>3, <1>4, <1>5, <1>6 DEF LogInv

LEMMA LogNext == ASSUME LogInv, [Log!Next]_(Log!vars) PROVE LogInv'
<1>1. ASSUME NEW m \in LogMessage, Log!Publish(m) PROVE LogInv'
  BY <1>1, LogPublishes
<1> QED
  BY <1>1, LogQuiet, LogLags, LogReceives, LogFlushes, LogEnds, LogRestarts DEF Log!Next

LEMMA LogInvariance == Log!Spec => []LogInv
<1>1. Log!Init => LogInv
  BY LogInit
<1>2. LogInv /\ [Log!Next]_(Log!vars) => LogInv'
  BY LogNext
<1> QED
  BY <1>1, <1>2, PTL DEF Log!Spec

-----------------------------------------------------------------------------
(* The serial endpoint.                                                    *)

LEMMA SerialInit == Serial!Init => Serial!TypeOK
<1>1. 1 % NumRates \in 0 .. NumRates - 1 /\ 1 \in 1 .. NumRates /\ 0 \in 0 .. MaxStuck
  BY SupervisedAssumption DEF SupervisedAssumption
<1> QED
  BY <1>1 DEF Serial!Init, Serial!TypeOK, Serial!Phase

LEMMA SerialNext ==
  ASSUME Serial!TypeOK, Serial!Next \/ UNCHANGED serialVars PROVE Serial!TypeOK'
<1>1. CASE Serial!Restart
  <2>1. /\ port' = "opening" /\ rate' = baud_index + 1 /\ baud_index' = (baud_index + 1) % NumRates
        /\ serial_phase' = [serial_phase EXCEPT !["serial"] = "running"]
        /\ UNCHANGED <<serial_cancelled, stuck>>
    BY <1>1 DEF Serial!Restart, Serial!WakeUp, Serial!Move, Serial!NextRate
  <2>2. baud_index' \in 0 .. NumRates - 1 /\ rate' \in 1 .. NumRates
    BY <2>1, SupervisedAssumption DEF SupervisedAssumption, Serial!TypeOK
  <2> QED
    BY <2>1, <2>2 DEF Serial!TypeOK, Serial!Phase
<1>2. CASE Serial!Cancel
  BY <1>2 DEF Serial!Cancel, Serial!TypeOK
<1>3. CASE Serial!Open
  BY <1>3 DEF Serial!Open, Serial!TypeOK
<1>4. CASE Serial!LateOpen
  <2>1. stuck' \in 0 .. MaxStuck
    BY <1>4, SupervisedAssumption DEF SupervisedAssumption, Serial!LateOpen, Serial!TypeOK
  <2> QED
    BY <1>4, <2>1 DEF Serial!LateOpen, Serial!TypeOK
<1>5. CASE Serial!Backoff
  <2>1. /\ serial_phase["serial"] \in {"waiting", "due"}
        /\ \/ serial_phase' = [serial_phase EXCEPT !["serial"] = "due"]
           \/ serial_phase' = [serial_phase EXCEPT !["serial"] = "stopped"]
        /\ UNCHANGED <<serial_cancelled, port, baud_index, rate, stuck>>
    BY <1>5 DEF Serial!Backoff, Serial!BackoffEnds, Serial!StopWaiting, Serial!Move
  <2>2. /\ serial_phase' \in [{"serial"} -> Serial!Phase] /\ serial_phase["serial"] # "running"
        /\ serial_phase'["serial"] # "running"
    BY <2>1 DEF Serial!TypeOK, Serial!Phase
  <2> QED
    BY <2>1, <2>2 DEF Serial!TypeOK
<1>6. CASE Serial!OpenFails \/ Serial!OpenTimesOut \/ Serial!LoopEnds \/ Serial!Drop
  <2>1. /\ \/ serial_phase' = [serial_phase EXCEPT !["serial"] = "waiting"]
           \/ serial_phase' = [serial_phase EXCEPT !["serial"] = "stopped"]
        /\ port' = "over" /\ UNCHANGED <<serial_cancelled, baud_index, rate>>
    BY <1>6
    DEF Serial!OpenFails, Serial!OpenTimesOut, Serial!LoopEnds, Serial!Drop, Serial!TaskEnds,
        Serial!DropTask, Serial!Move
  <2>2. serial_phase' \in [{"serial"} -> Serial!Phase] /\ serial_phase'["serial"] # "running"
    BY <2>1 DEF Serial!TypeOK, Serial!Phase
  <2>3. stuck' \in 0 .. MaxStuck
    BY <1>6, SupervisedAssumption
    DEF SupervisedAssumption, Serial!OpenFails, Serial!OpenTimesOut, Serial!LoopEnds,
        Serial!Drop, Serial!TypeOK
  <2> QED
    BY <2>1, <2>2, <2>3 DEF Serial!TypeOK
<1>7. CASE UNCHANGED serialVars
  BY <1>7 DEF serialVars, Serial!TypeOK
<1> QED
  BY <1>1, <1>2, <1>3, <1>4, <1>5, <1>6, <1>7 DEF Serial!Next

-----------------------------------------------------------------------------
(* The three together.  A part that has stopped satisfies its invariant,   *)
(* and takes no more steps.                                                *)

LEMMA TcpStoppedInv == ASSUME TcpStopped PROVE TcpInv
<1>1. /\ server = "over" /\ backlog = <<>> /\ join_set = {} /\ aborted = {}
      /\ DOMAIN conns = {} /\ phase = [t \in {"server"} |-> "stopped"] /\ errors = 0
      /\ cancelled = {"server"} \cup Peer /\ client = [p \in Peer |-> "over"]
  BY DEF TcpStopped
<1>2. HalfClosed = {} /\ Open = {}
  BY <1>1 DEF HalfClosed, Open
<1>3. TypeOK
  BY <1>1, <1>2, ConnectionsAssumption DEF TcpStopped, TypeOK, Phase, ConnectionsAssumption
<1>4. ServerRuns /\ BacklogOK /\ OneEach
  BY <1>1, ConnectionsAssumption DEF ServerRuns, BacklogOK, OneEach, ConnectionsAssumption
<1>5. TasksOK
  <2>1. join_set \cup aborted = {} /\ MaxClients \in Nat
    BY <1>1, ConnectionsAssumption DEF ConnectionsAssumption
  <2>2. IsFiniteSet(join_set \cup aborted) /\ Cardinality(join_set \cup aborted) = 0
    BY <2>1, FS_EmptySet
  <2> QED
    BY <1>1, <1>2, <2>1, <2>2 DEF TasksOK
<1> QED
  BY <1>3, <1>4, <1>5 DEF TcpInv

LEMMA LogStoppedInv == ASSUME LogStopped PROVE LogInv
<1>1. /\ sent = <<>> /\ cursor = [r \in {"tlog"} |-> 0] /\ task = "over"
      /\ log_phase = [t \in {"tlog"} |-> "stopped"] /\ log_cancelled = {"tlog"}
      /\ buffered = <<>> /\ written = <<>> /\ handled = {} /\ away = {}
      /\ bus_lagged = 0 /\ log_errors = 0
  BY DEF LogStopped
<1>2. past = 0 /\ Len(sent) = 0 /\ 0 \in 0 .. Len(sent)
  BY <1>1 DEF past
<1>3. Log!TypeOK
  BY <1>1, <1>2 DEF Log!TypeOK, Log!Phase
<1>4. OrderOK
  <2>1. Logged = <<>> \o <<>> /\ <<>> \in Seq(Nat)
    BY <1>1 DEF Logged
  <2>2. Logged = <<>>
    BY <2>1, BufferNone
  <2> QED
    BY <2>2 DEF OrderOK, Increasing, UpTo
<1>5. ReceivedOK
  BY <1>1, <1>2 DEF ReceivedOK
<1>6. CountOK
  <2>1. Lost(past, Accounted) = {}
    BY <1>2 DEF Lost
  <2> QED
    BY <1>1, <2>1, FS_EmptySet DEF CountOK
<1> QED
  BY <1>3, <1>4, <1>5, <1>6 DEF LogInv

LEMMA SerialStoppedOK == ASSUME SerialStopped PROVE Serial!TypeOK
<1>1. 1 % NumRates \in 0 .. NumRates - 1 /\ 1 \in 1 .. NumRates /\ 0 \in 0 .. MaxStuck
  BY SupervisedAssumption DEF SupervisedAssumption
<1> QED
  BY <1>1 DEF SerialStopped, Serial!TypeOK, Serial!Phase

PartsInv == TcpInv /\ LogInv /\ Serial!TypeOK

LEMMA TcpStays == ASSUME TcpInv, UNCHANGED tcpVars PROVE TcpInv'
BY TcpNext DEF tcpVars

LEMMA LogStays == ASSUME LogInv, UNCHANGED logVars PROVE LogInv'
BY LogQuiet DEF logVars, Log!vars

LEMMA SerialStays == ASSUME Serial!TypeOK, UNCHANGED serialVars PROVE Serial!TypeOK'
BY SerialNext

LEMMA PartsInvariance == PartsSpec => []PartsInv
<1>1. PartsInit => PartsInv
  <2>1. Init => TcpInv
    BY TcpInit
  <2>2. Log!Init => LogInv
    BY LogInit
  <2> QED
    BY <2>1, <2>2, SerialInit, TcpStoppedInv, LogStoppedInv, SerialStoppedOK
    DEF PartsInit, PartsInv
<1>2. PartsInv /\ [PartsNext]_<<part, tcpVars, logVars, serialVars>> => PartsInv'
  <2> SUFFICES ASSUME PartsInv, [PartsNext]_<<part, tcpVars, logVars, serialVars>> PROVE PartsInv'
    OBVIOUS
  <2>1. TcpInv'
    <3>1. Next \/ UNCHANGED tcpVars
      BY DEF PartsNext
    <3> QED
      BY <3>1, TcpNext, TcpStays DEF PartsInv
  <2>2. LogInv'
    <3>1. Log!Next \/ UNCHANGED logVars
      BY DEF PartsNext
    <3> QED
      BY <3>1, LogNext, LogStays DEF PartsInv
  <2>3. Serial!TypeOK'
    <3>1. Serial!Next \/ UNCHANGED serialVars
      BY DEF PartsNext
    <3> QED
      BY <3>1, SerialNext DEF PartsInv
  <2> QED
    BY <2>1, <2>2, <2>3 DEF PartsInv
<1> QED
  BY <1>1, <1>2, PTL DEF PartsSpec

-----------------------------------------------------------------------------

LEMMA LogInOrderHolds == LogInv => Log!LogInOrder
BY DEF LogInv, OrderOK, Increasing, Logged, Log!LogInOrder

LEMMA LagCountedHolds == LogInv => Log!LagCounted
<1>1. \A S : Log!Cardinality(S) = Cardinality(S)
  BY DEF Log!Cardinality, Cardinality
<1> QED
  BY <1>1 DEF LogInv, CountOK, Lost, Accounted, past, Log!LagCounted

\* The logger by itself, on any bus: the task runs as long as its supervisor says so and only
\* then has a buffer; its files are in the order of the bus; its lags are counted
\* (tlog.rs:93-141).
THEOREM LoggerKeepsOrder == Log!Spec => [](Log!TypeOK /\ Log!LogInOrder /\ Log!LagCounted)
<1>1. LogInv => Log!TypeOK
  BY DEF LogInv
<1> QED
  BY <1>1, LogInOrderHolds, LagCountedHolds, LogInvariance, PTL

\* Type correctness of the three endpoints: among others, a task, a port or a server is in use
\* as long as its supervisor says so, and the next baud rate is in the list
\* (supervisor.rs:14-62, orchestration.rs:311-315).
THEOREM TypeCorrect == PartsSpec => []TypesOK
<1>1. PartsInv => TypesOK
  BY DEF PartsInv, TcpInv, LogInv, TypesOK
<1> QED
  BY <1>1, PartsInvariance, PTL

\* The files hold the messages in the order of the bus, none twice (tlog.rs:101-116).
THEOREM OrderKept == PartsSpec => []LogInOrder
<1>1. PartsInv => LogInOrder
  BY LogInOrderHolds DEF PartsInv, LogInOrder
<1> QED
  BY <1>1, PartsInvariance, PTL

\* bus_lagged counts every message that the bus overran, over all runs (tlog.rs:117-121).
THEOREM LagIsCounted == PartsSpec => []LagCounted
<1>1. PartsInv => LagCounted
  BY LagCountedHolds DEF PartsInv, LagCounted
<1> QED
  BY <1>1, PartsInvariance, PTL
=============================================================================
