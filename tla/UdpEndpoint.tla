---------------------------- MODULE UdpEndpoint -----------------------------
(***************************************************************************)
(* A UDP endpoint (endpoints/udp.rs): one socket, and three loops in one   *)
(* task that share the map of clients and, in broadcast mode, the peer.    *)
(* The receiver notes who has sent a datagram.  The sender takes messages  *)
(* off the bus and sends each of them to every client (server mode), to    *)
(* the configured target (client mode), or to the peer as long as that is  *)
(* heard and to the broadcast address otherwise (broadcast mode); between  *)
(* two sends the other loops may run.  The cleaner drops silent clients.   *)
(***************************************************************************)
EXTENDS MessageBus, FiniteSets, SequencesExt

CONSTANTS
  Address,           \* whoever sends datagrams
  Target,            \* the configured address of the client and broadcast modes
  Modes,             \* the modes to look at
  CleanupInterval,   \* 60 s
  CleanupTtl,        \* cleanup_ttl_secs, which is routing_table_ttl_secs
  BroadcastTimeout,  \* broadcast_timeout_secs
  MaxTime,           \* bound: the clock stops here
  MaxSent,           \* bound: how many messages are published
  MaxErrors          \* bound: how many sends fail

ASSUME UdpAssumption ==
  /\ Receiver = {"udp"} /\ Message = {"own", "other"}
  /\ Target \notin Address
  /\ Modes \subseteq {"server", "client", "broadcast"}
  /\ CleanupInterval \in Nat \ {0}
  /\ CleanupTtl \in Nat /\ BroadcastTimeout \in Nat
  /\ MaxTime \in Nat /\ MaxSent \in Nat /\ MaxErrors \in Nat

VARIABLES
  mode,
  now,
  clients,      \* [address -> when it was last heard]
  peer,         \* [address -> when], of at most one address
  targets,      \* addresses the message in hand has still to be sent to
  nextCleanup,  \* when the cleaner's interval fires next
  msgs_out, bus_lagged, errors,   \* the EndpointStats
  stopped,      \* the token was cancelled and the loops were dropped
  heard,        \* history: [address ever heard -> when last]
  outbox,       \* history: [address -> positions sent to it]
  owed          \* history: <<address, position>> that were not yet tried

peers == <<clients, peer, nextCleanup>>
history == <<heard, outbox, owed>>
stats == <<msgs_out, bus_lagged, errors>>
vars  == <<sent, cursor, mode, now, peers, targets, stats, stopped, history>>

Destination == Address \cup {Target}

-----------------------------------------------------------------------------

Init ==
  /\ mode \in Modes
  /\ sent = <<>> /\ cursor = [r \in Receiver |-> 0]
  /\ now = 0
  /\ clients = [a \in {} |-> 0] /\ peer = [a \in {} |-> 0]
  /\ targets = <<>>
  /\ nextCleanup = 0                  \* the first tick is immediate
  /\ msgs_out = 0 /\ bus_lagged = 0 /\ errors = 0
  /\ stopped = FALSE
  /\ heard = [a \in {} |-> 0]
  /\ outbox = [a \in Destination |-> <<>>] /\ owed = {}

\* The frames of this endpoint, and those of others that it accepts, go onto the
\* bus.
Publish(m) == Len(sent) < MaxSent /\ sent' = Append(sent, m)

PublishOther ==
  /\ Publish("other")
  /\ UNCHANGED <<cursor, mode, now, peers, targets, stats, stopped, history>>

\* A datagram notes its sender, whether or not it holds a frame, and whether or
\* not that frame goes any further.  (Senders are unicast addresses.)
Hear(map, a) == [x \in DOMAIN map \cup {a} |-> IF x = a THEN now ELSE map[x]]

\* Mutant of HearPeer: the first peer stays until it times out.
HearFirstPeer(a) ==
  peer' = IF mode = "broadcast" /\ DOMAIN peer \subseteq {a}
            THEN [x \in {a} |-> now] ELSE peer
HearPeer(a) == peer' = IF mode = "broadcast" THEN [x \in {a} |-> now] ELSE peer

Receive(a) ==
  /\ ~stopped
  /\ clients' = Hear(clients, a) /\ heard' = Hear(heard, a)
  /\ HearPeer(a)
  /\ UNCHANGED sent \/ Publish("own")
  /\ UNCHANGED <<cursor, mode, now, nextCleanup, targets, stats, stopped, outbox, owed>>

-----------------------------------------------------------------------------
(* The sender.                                                             *)

Lagged ==
  /\ ~stopped /\ targets = <<>>
  /\ HasLagged("udp")
  /\ bus_lagged' = bus_lagged + Missed("udp")
  /\ SkipMissed("udp")
  /\ UNCHANGED <<sent, mode, now, peers, targets, msgs_out, errors, stopped, history>>

LivePeer == {a \in DOMAIN peer : now - peer[a] < BroadcastTimeout}

\* Mutant of Recipients: a peer is kept for ever.
RecipientsSticky ==
  CASE mode = "server"    -> DOMAIN clients
    [] mode = "client"    -> {Target}
    [] mode = "broadcast" -> IF peer = <<>> THEN {Target} ELSE DOMAIN peer

Recipients ==
  CASE mode = "server"    -> DOMAIN clients
    [] mode = "client"    -> {Target}
    [] mode = "broadcast" -> IF LivePeer = {} THEN {Target} ELSE LivePeer

\* The message in hand.
InHand == cursor["udp"]

\* Mutant of Take: targets is not cleared before it is filled again.
TakeUncleared ==
  /\ ~stopped /\ targets = <<>>
  /\ CanReceive("udp")
  /\ TakeNext("udp")
  /\ IF sent[NextPosition("udp")] = "own"
       THEN UNCHANGED <<targets, owed>>
       ELSE /\ \E before \in SetToSeqs({a \in Destination : outbox[a] # <<>>}),
                  fresh \in SetToSeqs(Recipients) : targets' = before \o fresh
            /\ owed' = owed \cup (Recipients \X {NextPosition("udp")})
  /\ UNCHANGED <<sent, mode, now, peers, stats, stopped, heard, outbox>>

\* A message of this endpoint's own is skipped; the clients are copied, in
\* whatever order the map has them.
Take ==
  /\ ~stopped /\ targets = <<>>
  /\ CanReceive("udp")
  /\ TakeNext("udp")
  /\ IF sent[NextPosition("udp")] = "own"
       THEN UNCHANGED <<targets, owed>>
       ELSE /\ targets' \in SetToSeqs(Recipients)
            /\ owed' = owed \cup (Recipients \X {NextPosition("udp")})
  /\ UNCHANGED <<sent, mode, now, peers, stats, stopped, heard, outbox>>

\* send_to, to the next of them.
SendNext ==
  /\ ~stopped /\ targets # <<>>
  /\ outbox' = [outbox EXCEPT ![Head(targets)] = Append(@, InHand)]
  /\ msgs_out' = msgs_out + 1
  /\ owed' = owed \ {<<Head(targets), InHand>>}
  /\ targets' = Tail(targets)
  /\ UNCHANGED <<sent, cursor, mode, now, peers, bus_lagged, errors, stopped, heard>>

\* Mutant of SendFails: the other clients are left out.
GiveUp ==
  /\ ~stopped /\ targets # <<>>
  /\ errors < MaxErrors /\ errors' = errors + 1
  /\ owed' = owed \ {<<Head(targets), InHand>>}
  /\ targets' = <<>>
  /\ UNCHANGED <<sent, cursor, mode, now, peers, msgs_out, bus_lagged, stopped, heard,
                 outbox>>

SendFails ==
  /\ ~stopped /\ targets # <<>>
  /\ errors < MaxErrors /\ errors' = errors + 1
  /\ owed' = owed \ {<<Head(targets), InHand>>}
  /\ targets' = Tail(targets)
  /\ UNCHANGED <<sent, cursor, mode, now, peers, msgs_out, bus_lagged, stopped, heard,
                 outbox>>

-----------------------------------------------------------------------------
(* The cleaner, and the environment.                                       *)

\* Mutant of Silent: the comparison is turned round.
Recent(a) == now - clients[a] < CleanupTtl
Silent(a) == now - clients[a] >= CleanupTtl

Cleanup ==
  /\ ~stopped /\ nextCleanup <= now
  /\ clients' = [a \in {x \in DOMAIN clients : ~Silent(x)} |-> clients[a]]
  /\ nextCleanup' = nextCleanup + CleanupInterval
  /\ UNCHANGED <<sent, cursor, mode, now, peer, targets, stats, stopped, history>>

Stop ==
  /\ ~stopped /\ stopped' = TRUE
  /\ UNCHANGED <<sent, cursor, mode, now, peers, targets, stats, history>>

\* The cleaner runs on time.
Tick ==
  /\ now < MaxTime
  /\ ~stopped /\ now < nextCleanup
  /\ now' = now + 1
  /\ UNCHANGED <<sent, cursor, mode, peers, targets, stats, stopped, history>>

Next ==
  \/ PublishOther
  \/ \E a \in Address : Receive(a)
  \/ Lagged \/ Take \/ SendNext \/ SendFails
  \/ Cleanup
  \/ Stop \/ Tick

Spec == Init /\ [][Next]_vars

-----------------------------------------------------------------------------
(* Correctness.                                                            *)

\* The sender's list has no address twice and fits the mode, the peer is one
\* address at most, and only the broadcast mode has one.
TypeOK ==
  /\ mode \in Modes /\ now \in Nat
  /\ sent \in Seq(Message) /\ cursor \in [Receiver -> 0 .. Len(sent)]
  /\ DOMAIN clients \subseteq Address /\ clients \in [DOMAIN clients -> Nat]
  /\ DOMAIN peer \subseteq Address /\ peer \in [DOMAIN peer -> Nat]
  /\ Cardinality(DOMAIN peer) <= 1 /\ (mode # "broadcast" => DOMAIN peer = {})
  /\ targets \in Seq(IF mode = "server" THEN Address ELSE Destination)
  /\ IsInjective(targets)
  /\ nextCleanup \in Nat
  /\ msgs_out \in Nat /\ bus_lagged \in Nat /\ errors \in Nat
  /\ stopped \in BOOLEAN
  /\ DOMAIN heard \subseteq Address /\ heard \in [DOMAIN heard -> Nat]
  /\ outbox \in [Destination -> Seq(1 .. Len(sent))]
  /\ owed \in SUBSET (Destination \X (1 .. Len(sent)))

\* A send that fails deprives no other client of the message: the sender is done with a
\* message only when it has tried every client that it copied (udp.rs:283-296).  And an
\* address gets the messages in the order of the bus, none of them twice and none that came
\* from this endpoint, however clients come and go and the bus overruns the sender.
EveryRecipientTried ==
  /\ owed = ToSet(targets) \X (IF targets = <<>> THEN {} ELSE {InHand})
  /\ \A a \in Destination :
       /\ \A i, j \in DOMAIN outbox[a] : i < j => outbox[a][i] < outbox[a][j]
       /\ \A i \in DOMAIN outbox[a] : sent[outbox[a][i]] = "other"

\* The map of clients implements a retention: a client that has been silent for
\* less than the TTL is there, and no client is there that has been silent for the
\* TTL plus a cleanup interval (or for an interval, when the TTL is zero).
Clients == INSTANCE Retention WITH
  Item <- Address,
  Renewable <- TRUE,
  remembered <- DOMAIN clients,
  since <- heard,
  MinWindow <- CleanupTtl,
  MaxWindow <- CleanupInterval + (IF CleanupTtl = 0 THEN 0 ELSE CleanupTtl - 1)

RetainsClients == Clients!Spec

\* "Once a unicast peer responds, it switches to sending directly to that peer.  If
\* the peer is silent for `broadcast_timeout_secs`, it reverts to broadcast."
\* (udp.rs:14-15)  With several peers, the one that was heard last counts.
RevertsToBroadcast ==
  [][mode = "broadcast" /\ targets = <<>> /\ targets' # <<>> =>
       LET to == Head(targets')
       IN IF \E a \in DOMAIN heard : now - heard[a] < BroadcastTimeout
            THEN to \in DOMAIN heard /\ \A a \in DOMAIN heard : heard[a] <= heard[to]
            ELSE to = Target
    ]_vars
=============================================================================
