------------------------- MODULE UdpEndpointProofs --------------------------
(***************************************************************************)
(* What a UDP endpoint sends to whom and how long it keeps its clients,    *)
(* for every set of addresses, mode, TTL, timeout and capacity of the bus. *)
(***************************************************************************)
EXTENDS UdpEndpoint, MessageBusProofs

\* What may be in the sender's list.
Allowed == IF mode = "server" THEN Address ELSE Destination

\* The sender's list is what is owed of the message in hand, and whatever was sent to an
\* address is behind that.
SenderOK ==
  /\ sent \in Seq(Message) /\ cursor \in [Receiver -> 0 .. Len(sent)]
  /\ targets \in Seq(Allowed) /\ IsInjective(targets)
  /\ outbox \in [Destination -> Seq(1 .. Len(sent))]
  /\ owed = ToSet(targets) \X {InHand}
  /\ targets # <<>> => InHand \in 1 .. Len(sent) /\ sent[InHand] = "other"
  /\ \A a \in Destination :
       /\ Increasing(outbox[a]) /\ UpTo(outbox[a], InHand)
       /\ a \in ToSet(targets) => UpTo(outbox[a], InHand - 1)
       /\ \A i \in DOMAIN outbox[a] : sent[outbox[a][i]] = "other"

\* The longest that a silent client is kept.
Window == CleanupInterval + (IF CleanupTtl = 0 THEN 0 ELSE CleanupTtl - 1)

\* The cleaner is on time, and will come for each client before its window ends.
ClientsOK ==
  /\ now \in Nat /\ nextCleanup \in Nat
  /\ now <= nextCleanup /\ nextCleanup <= now + CleanupInterval
  /\ DOMAIN heard \subseteq Address /\ heard \in [DOMAIN heard -> Nat]
  /\ \A a \in DOMAIN heard : heard[a] <= now
  /\ DOMAIN clients \subseteq DOMAIN heard /\ IsFiniteSet(DOMAIN clients)
  /\ clients = [a \in DOMAIN clients |-> heard[a]]
  /\ \A a \in DOMAIN clients : nextCleanup <= heard[a] + Window

\* The peer is the one that was heard last.
PeerOK ==
  IF mode = "broadcast" /\ DOMAIN heard # {}
    THEN \E a \in DOMAIN heard :
           /\ peer = [x \in {a} |-> heard[a]]
           /\ \A b \in DOMAIN heard : heard[b] <= heard[a]
    ELSE peer = [x \in {} |-> 0]

CountsOK ==
  /\ mode \in Modes /\ stopped \in BOOLEAN
  /\ msgs_out \in Nat /\ bus_lagged \in Nat /\ errors \in Nat

IInv == SenderOK /\ ClientsOK /\ PeerOK /\ CountsOK

-----------------------------------------------------------------------------
(* Lists without repetition.                                               *)

\* A list of a finite set's elements, each once, has all of them.
LEMMA AllOfThem ==
  ASSUME NEW S, IsFiniteSet(S), NEW t \in SetToSeqs(S)
  PROVE  t \in Seq(S) /\ IsInjective(t) /\ ToSet(t) = S
<1> DEFINE n == Cardinality(S)
<1>1. n \in Nat
  BY FS_CardinalityType
<1>2. t \in [1 .. n -> S] /\ \A i, j \in 1 .. n : i # j => t[i] # t[j]
  BY DEF SetToSeqs
<1>3. IsFiniteSet(1 .. n) /\ Cardinality(1 .. n) = n
  <2>1. \A m \in Nat : IsFiniteSet(1 .. m) /\ Cardinality(1 .. m) = IF 1 > m THEN 0 ELSE m - 1 + 1
    BY FS_Interval
  <2> HIDE DEF n
  <2> QED
    BY <1>1, <2>1
<1> HIDE DEF n
<1>4. ASSUME NEW x \in S, x \notin ToSet(t)
      PROVE  FALSE
  <2>1. IsFiniteSet(S \ {x}) /\ Cardinality(S \ {x}) = n - 1
    BY FS_RemoveElement DEF n
  <2>2. t \in [1 .. n -> S \ {x}]
    BY <1>2, <1>4 DEF ToSet
  <2>3. \E i, j \in 1 .. n : i # j /\ t[i] = t[j]
    <3>1. Cardinality(S \ {x}) < Cardinality(1 .. n)
      BY <1>1, <1>3, <2>1
    <3> QED
      BY <1>3, <2>1, <2>2, <3>1, FS_PigeonHole
  <2> QED
    BY <1>2, <2>3
<1>5. t \in Seq(S)
  BY <1>1, <1>2
<1>6. IsInjective(t) /\ ToSet(t) \subseteq S
  BY <1>2 DEF IsInjective, ToSet
<1> QED
  BY <1>4, <1>5, <1>6

\* Taking the head off.
LEMMA OneLess ==
  ASSUME NEW S, NEW t \in Seq(S), t # <<>>, IsInjective(t)
  PROVE  /\ Head(t) \in S /\ Head(t) \in ToSet(t)
         /\ Tail(t) \in Seq(S) /\ IsInjective(Tail(t))
         /\ ToSet(Tail(t)) = ToSet(t) \ {Head(t)}
<1>1. /\ Head(t) \in S /\ Tail(t) \in Seq(S) /\ Head(t) = t[1]
      /\ Len(t) \in Nat /\ Len(t) >= 1 /\ DOMAIN t = 1 .. Len(t)
      /\ DOMAIN Tail(t) = 1 .. Len(t) - 1
      /\ \A i \in 1 .. Len(t) - 1 : Tail(t)[i] = t[i + 1]
  BY HeadTailProperties, LenProperties, EmptySeq
<1>2. IsInjective(Tail(t))
  BY <1>1 DEF IsInjective
<1>3. ToSet(Tail(t)) = ToSet(t) \ {Head(t)}
  <2>1. \A i \in 1 .. Len(t) - 1 : i + 1 \in 1 .. Len(t) /\ i + 1 # 1
    BY <1>1
  <2>2. ToSet(Tail(t)) \subseteq ToSet(t) \ {Head(t)}
    <3> SUFFICES ASSUME NEW i \in 1 .. Len(t) - 1
                 PROVE  t[i + 1] \in ToSet(t) \ {t[1]}
      BY <1>1 DEF ToSet
    <3> QED
      BY <1>1, <2>1 DEF ToSet, IsInjective
  <2>3. ToSet(t) \ {Head(t)} \subseteq ToSet(Tail(t))
    <3> SUFFICES ASSUME NEW i \in 1 .. Len(t), t[i] # t[1]
                 PROVE  t[i] \in ToSet(Tail(t))
      BY <1>1 DEF ToSet
    <3>1. i - 1 \in 1 .. Len(t) - 1 /\ i - 1 + 1 = i
      BY <1>1
    <3>2. Tail(t)[i - 1] = t[i]
      BY <1>1, <3>1
    <3> QED
      BY <1>1, <3>1, <3>2 DEF ToSet
  <2> QED
    BY <2>2, <2>3
<1>4. Head(t) \in ToSet(t)
  BY <1>1 DEF ToSet
<1> QED
  BY <1>1, <1>2, <1>3, <1>4
-----------------------------------------------------------------------------
(* The sender.                                                             *)

LEMMA SenderTypes ==
  ASSUME IInv
  PROVE  /\ Len(sent) \in Nat /\ InHand \in Nat /\ InHand <= Len(sent) /\ "udp" \in Receiver
         /\ \A a \in Destination :
              outbox[a] \in Seq(Nat) /\ \A i \in DOMAIN outbox[a] : outbox[a][i] \in 1 .. Len(sent)
         /\ ToSet(targets) \subseteq Destination
<1>1. Len(sent) \in Nat /\ "udp" \in Receiver
  BY LenProperties, UdpAssumption DEF IInv, SenderOK, UdpAssumption
<1>2. InHand \in 0 .. Len(sent)
  BY <1>1 DEF IInv, SenderOK, InHand
<1>3. ASSUME NEW a \in Destination
      PROVE  outbox[a] \in Seq(Nat) /\ \A i \in DOMAIN outbox[a] : outbox[a][i] \in 1 .. Len(sent)
  <2>1. outbox[a] \in Seq(1 .. Len(sent))
    BY DEF IInv, SenderOK
  <2>2. \A i \in DOMAIN outbox[a] : outbox[a][i] \in 1 .. Len(sent)
    BY <2>1, LenProperties
  <2>3. 1 .. Len(sent) \subseteq Nat
    BY <1>1
  <2> QED
    BY <2>1, <2>2, <2>3, SeqMonotonic
<1>4. ToSet(targets) \subseteq Destination
  <2>1. Allowed \subseteq Destination
    BY DEF Allowed, Destination
  <2> QED
    BY <2>1, LenProperties DEF IInv, SenderOK, ToSet
<1> QED
  BY <1>1, <1>2, <1>3, <1>4

\* The bus grows, and the sender does nothing.
LEMMA SentMore ==
  ASSUME IInv, UNCHANGED <<cursor, mode, targets, outbox, owed>>,
         sent' = sent \/ \E m \in Message : sent' = Append(sent, m)
  PROVE  SenderOK'
<1>1. CASE sent' = sent
  BY <1>1 DEF IInv, SenderOK, Allowed, InHand
<1>2. ASSUME NEW m \in Message, sent' = Append(sent, m)
      PROVE  SenderOK'
  <2>1. /\ sent' \in Seq(Message) /\ Len(sent) \in Nat /\ Len(sent') = Len(sent) + 1
        /\ \A p \in 1 .. Len(sent) : sent'[p] = sent[p]
    BY <1>2, AppendProperties, LenProperties DEF IInv, SenderOK
  <2>2. 1 .. Len(sent) \subseteq 1 .. Len(sent') /\ 0 .. Len(sent) \subseteq 0 .. Len(sent')
    BY <2>1
  <2>3. outbox' \in [Destination -> Seq(1 .. Len(sent'))]
    <3>1. \A a \in Destination : outbox[a] \in Seq(1 .. Len(sent'))
      BY <2>2, SeqMonotonic DEF IInv, SenderOK
    <3> QED
      BY <3>1 DEF IInv, SenderOK
  <2>4. cursor' \in [Receiver -> 0 .. Len(sent')]
    BY <2>2 DEF IInv, SenderOK
  <2>5. \A a \in Destination : \A i \in DOMAIN outbox[a] : sent'[outbox[a][i]] = "other"
    BY <2>1, SenderTypes DEF IInv, SenderOK
  <2>6. targets # <<>> => InHand \in 1 .. Len(sent') /\ sent'[InHand] = "other"
    BY <2>1, <2>2 DEF IInv, SenderOK
  <2>7. /\ targets \in Seq(Allowed) /\ IsInjective(targets)
        /\ owed = ToSet(targets) \X {InHand}
        /\ \A a \in Destination :
             /\ Increasing(outbox[a]) /\ UpTo(outbox[a], InHand)
             /\ a \in ToSet(targets) => UpTo(outbox[a], InHand - 1)
    BY DEF IInv, SenderOK
  <2>8. Allowed' = Allowed /\ InHand' = InHand
    BY DEF Allowed, InHand
  <2> QED
    BY <2>1, <2>3, <2>4, <2>5, <2>6, <2>7, <2>8 DEF SenderOK
<1> QED
  BY <1>1, <1>2

\* The sender is overrun while its hands are empty.
LEMMA LaggedKeeps == ASSUME IInv, Lagged PROVE IInv'
<1>1. /\ targets = <<>> /\ HasLagged("udp")
      /\ bus_lagged' = bus_lagged + Missed("udp") /\ SkipMissed("udp")
      /\ UNCHANGED <<sent, mode, now, peers, targets, msgs_out, errors, stopped, history>>
  BY DEF Lagged
<1>2. /\ Len(sent) \in Nat /\ InHand \in Nat /\ InHand <= Len(sent) /\ "udp" \in Receiver
      /\ \A a \in Destination : outbox[a] \in Seq(Nat)
  BY SenderTypes
<1>3. Oldest \in 0 .. Len(sent) /\ InHand < Oldest
  BY <1>1, <1>2, BusAssumption DEF Oldest, BusAssumption, HasLagged, InHand
<1>4. InHand' = Oldest /\ cursor' \in [Receiver -> 0 .. Len(sent)]
  BY <1>1, <1>2, <1>3 DEF SkipMissed, IInv, SenderOK, InHand
<1>5. SenderOK'
  <2>1. ToSet(targets) = {}
    BY <1>1 DEF ToSet
  <2>2. \A a \in Destination : UpTo(outbox[a], InHand')
    BY <1>2, <1>3, <1>4, UpToMore DEF IInv, SenderOK
  <2>3. owed = ToSet(targets) \X {InHand'}
    BY <2>1 DEF IInv, SenderOK
  <2> QED
    BY <1>1, <1>4, <2>1, <2>2, <2>3 DEF IInv, SenderOK, Allowed, history
<1>6. CountsOK'
  BY <1>1, <1>2, <1>3 DEF IInv, CountsOK, Missed, InHand
<1>7. ClientsOK' /\ PeerOK'
  BY <1>1 DEF IInv, ClientsOK, PeerOK, peers, history
<1> QED
  BY <1>5, <1>6, <1>7 DEF IInv

\* The recipients are finitely many addresses that fit the mode.
LEMMA RecipientsType ==
  ASSUME IInv
  PROVE  IsFiniteSet(Recipients) /\ Recipients \subseteq Allowed
<1>1. mode \in {"server", "client", "broadcast"}
  BY UdpAssumption DEF IInv, CountsOK, UdpAssumption
<1>2. IsFiniteSet({Target}) /\ Target \in Destination
  BY FS_Singleton DEF Destination
<1>3. CASE mode = "server"
  BY <1>3 DEF Recipients, Allowed, IInv, ClientsOK
<1>4. CASE mode = "client"
  BY <1>2, <1>4 DEF Recipients, Allowed
<1>5. CASE mode = "broadcast"
  <2>1. IsFiniteSet(DOMAIN peer) /\ DOMAIN peer \subseteq Address
    <3>1. CASE DOMAIN heard = {}
      <4>1. DOMAIN peer = {}
        BY <3>1 DEF IInv, PeerOK
      <4> QED
        BY <4>1, FS_EmptySet
    <3>2. CASE DOMAIN heard # {}
      <4>1. PICK a \in DOMAIN heard : DOMAIN peer = {a}
        BY <1>5, <3>2 DEF IInv, PeerOK
      <4>2. a \in Address
        BY <4>1 DEF IInv, ClientsOK
      <4>3. IsFiniteSet({a})
        BY FS_Singleton
      <4> QED
        BY <4>1, <4>2, <4>3
    <3> QED
      BY <3>1, <3>2
  <2>2. LivePeer \in SUBSET (DOMAIN peer)
    BY DEF LivePeer
  <2>3. IsFiniteSet(LivePeer)
    BY <2>1, <2>2, FS_Subset
  <2>4. Recipients = {Target} \/ Recipients = LivePeer
    BY <1>5 DEF Recipients
  <2>5. LivePeer \subseteq Allowed /\ {Target} \subseteq Allowed
    BY <1>2, <1>5, <2>1, <2>2 DEF Allowed, Destination
  <2> QED
    BY <1>2, <2>3, <2>4, <2>5
<1> QED
  BY <1>1, <1>3, <1>4, <1>5

\* The message that is taken is owed to all recipients of that moment.
LEMMA TakeKeeps == ASSUME IInv, Take PROVE IInv'
<1> DEFINE p == NextPosition("udp")
<1>1. /\ targets = <<>> /\ CanReceive("udp") /\ TakeNext("udp")
      /\ UNCHANGED <<sent, mode, now, peers, stats, stopped, heard, outbox>>
      /\ \/ sent[p] = "own" /\ UNCHANGED <<targets, owed>>
         \/ /\ sent[p] # "own" /\ targets' \in SetToSeqs(Recipients)
            /\ owed' = owed \cup (Recipients \X {p})
  BY DEF Take
<1>2. /\ Len(sent) \in Nat /\ InHand \in Nat /\ "udp" \in Receiver
      /\ \A a \in Destination : outbox[a] \in Seq(Nat)
  BY SenderTypes
<1>3. p = InHand + 1 /\ p \in 1 .. Len(sent) /\ InHand < Len(sent)
  BY <1>1, <1>2 DEF CanReceive, NextPosition, InHand
<1>4. InHand' = p /\ cursor' \in [Receiver -> 0 .. Len(sent)]
  <2>1. cursor \in [Receiver -> 0 .. Len(sent)] /\ cursor' = [cursor EXCEPT !["udp"] = InHand + 1]
    BY <1>1 DEF TakeNext, IInv, SenderOK, InHand
  <2>2. InHand + 1 \in 0 .. Len(sent)
    BY <1>2, <1>3
  <2> QED
    BY <1>2, <1>3, <2>1, <2>2 DEF InHand
<1> HIDE DEF p
<1>5. ToSet(targets) = {} /\ owed = {}
  BY <1>1 DEF ToSet, IInv, SenderOK
<1>6. \A a \in Destination : UpTo(outbox[a], InHand) /\ UpTo(outbox[a], p) /\ p - 1 = InHand
  BY <1>2, <1>3, UpToMore DEF IInv, SenderOK
<1>7. /\ targets' \in Seq(Allowed) /\ IsInjective(targets') /\ owed' = ToSet(targets') \X {p}
      /\ targets' # <<>> => sent[p] = "other"
  <2>1. CASE sent[p] = "own"
    BY <1>1, <1>5, <2>1 DEF IInv, SenderOK
  <2>2. CASE sent[p] # "own"
    <3>1. targets' \in Seq(Recipients) /\ IsInjective(targets') /\ ToSet(targets') = Recipients
      BY <1>1, <2>2, RecipientsType, AllOfThem
    <3>2. targets' \in Seq(Allowed)
      BY <3>1, RecipientsType, SeqMonotonic
    <3>3. sent[p] \in {"own", "other"}
      BY <1>3, LenProperties, UdpAssumption DEF IInv, SenderOK, UdpAssumption
    <3> QED
      BY <1>1, <1>5, <2>2, <3>1, <3>2, <3>3
  <2> QED
    BY <2>1, <2>2
<1>8. SenderOK'
  BY <1>1, <1>3, <1>4, <1>6, <1>7 DEF IInv, SenderOK, Allowed
<1>9. ClientsOK' /\ PeerOK' /\ CountsOK'
  BY <1>1 DEF IInv, ClientsOK, PeerOK, CountsOK, peers, stats
<1> QED
  BY <1>8, <1>9 DEF IInv

\* One recipient less is owed the message, whether it has got it or not.
LEMMA SendKeeps == ASSUME IInv, SendNext \/ SendFails PROVE IInv'
<1> DEFINE to == Head(targets)
<1>1. /\ targets # <<>> /\ targets' = Tail(targets) /\ owed' = owed \ {<<to, InHand>>}
      /\ UNCHANGED <<sent, cursor, mode, now, peers, bus_lagged, stopped, heard>>
      /\ outbox' = outbox \/ outbox' = [outbox EXCEPT ![to] = Append(@, InHand)]
  BY DEF SendNext, SendFails
<1>2. targets \in Seq(Allowed) /\ IsInjective(targets) /\ owed = ToSet(targets) \X {InHand}
      /\ InHand \in 1 .. Len(sent) /\ sent[InHand] = "other"
  BY <1>1 DEF IInv, SenderOK
<1>3. /\ to \in ToSet(targets) /\ targets' \in Seq(Allowed) /\ IsInjective(targets')
      /\ ToSet(targets') = ToSet(targets) \ {to}
  BY <1>1, <1>2, OneLess
<1>4. /\ Len(sent) \in Nat /\ InHand \in Nat /\ ToSet(targets) \subseteq Destination
      /\ \A a \in Destination :
           outbox[a] \in Seq(Nat) /\ \A i \in DOMAIN outbox[a] : outbox[a][i] \in 1 .. Len(sent)
  BY SenderTypes
<1> HIDE DEF to
<1>5. owed' = ToSet(targets') \X {InHand}
  BY <1>1, <1>2, <1>3
<1>6. ASSUME NEW a \in Destination
      PROVE  /\ outbox'[a] \in Seq(1 .. Len(sent))
             /\ Increasing(outbox'[a]) /\ UpTo(outbox'[a], InHand)
             /\ a \in ToSet(targets') => UpTo(outbox'[a], InHand - 1)
             /\ \A i \in DOMAIN outbox'[a] : sent[outbox'[a][i]] = "other"
  <2>1. /\ outbox[a] \in Seq(1 .. Len(sent)) /\ outbox[a] \in Seq(Nat)
        /\ Increasing(outbox[a]) /\ UpTo(outbox[a], InHand)
        /\ a \in ToSet(targets) => UpTo(outbox[a], InHand - 1)
        /\ \A i \in DOMAIN outbox[a] : sent[outbox[a][i]] = "other"
        /\ outbox \in [Destination -> Seq(1 .. Len(sent))]
    BY <1>4 DEF IInv, SenderOK
  <2>2. CASE outbox'[a] = outbox[a]
    BY <1>3, <2>1, <2>2
  <2>3. CASE a = to /\ outbox'[a] = Append(outbox[a], InHand)
    <3>1. UpTo(outbox[a], InHand - 1) /\ InHand - 1 \in Nat /\ InHand - 1 < InHand
      BY <1>2, <1>3, <1>4, <2>1, <2>3
    <3>2. Increasing(outbox'[a]) /\ UpTo(outbox'[a], InHand)
      BY <1>4, <2>1, <2>3, <3>1, OneMore
    <3>3. /\ outbox'[a] \in Seq(1 .. Len(sent)) /\ DOMAIN outbox'[a] = 1 .. Len(outbox[a]) + 1
          /\ Len(outbox[a]) \in Nat /\ DOMAIN outbox[a] = 1 .. Len(outbox[a])
          /\ \A i \in 1 .. Len(outbox[a]) : outbox'[a][i] = outbox[a][i]
          /\ outbox'[a][Len(outbox[a]) + 1] = InHand
      BY <1>2, <2>1, <2>3, AppendProperties, LenProperties
    <3>4. \A i \in DOMAIN outbox'[a] : sent[outbox'[a][i]] = "other"
      <4> TAKE i \in DOMAIN outbox'[a]
      <4>1. i \in 1 .. Len(outbox[a]) \/ i = Len(outbox[a]) + 1
        BY <3>3
      <4>2. CASE i \in 1 .. Len(outbox[a])
        BY <2>1, <3>3, <4>2
      <4>3. CASE i = Len(outbox[a]) + 1
        BY <1>2, <3>3, <4>3
      <4> QED
        BY <4>1, <4>2, <4>3
    <3>5. a \notin ToSet(targets')
      BY <1>3, <2>3
    <3> QED
      BY <3>2, <3>3, <3>4, <3>5
  <2>4. outbox'[a] = outbox[a] \/ (a = to /\ outbox'[a] = Append(outbox[a], InHand))
    BY <1>1, <2>1
  <2> QED
    BY <2>2, <2>3, <2>4
<1>7. outbox' \in [Destination -> Seq(1 .. Len(sent))]
  <2>1. outbox' = [a \in Destination |-> outbox'[a]]
    BY <1>1 DEF IInv, SenderOK
  <2> QED
    BY <1>6, <2>1
<1>8. SenderOK'
  <2>1. InHand' = InHand /\ Allowed' = Allowed
    BY <1>1 DEF InHand, Allowed
  <2> QED
    BY <1>1, <1>2, <1>3, <1>5, <1>6, <1>7, <2>1 DEF IInv, SenderOK
<1>9. ClientsOK' /\ PeerOK' /\ CountsOK'
  <2>1. msgs_out' \in Nat /\ errors' \in Nat
    BY DEF SendNext, SendFails, IInv, CountsOK
  <2> QED
    BY <1>1, <2>1 DEF IInv, ClientsOK, PeerOK, CountsOK, peers
<1> QED
  BY <1>8, <1>9 DEF IInv
-----------------------------------------------------------------------------
(* The receiver, the cleaner and time.                                     *)

LEMMA PublishKeeps == ASSUME IInv, PublishOther PROVE IInv'
<1>1. UNCHANGED <<cursor, mode, now, peers, targets, stats, stopped, history>>
      /\ \E m \in Message : sent' = Append(sent, m)
  BY UdpAssumption DEF PublishOther, Publish, UdpAssumption
<1>2. SenderOK'
  BY <1>1, SentMore DEF history
<1>3. ClientsOK' /\ PeerOK' /\ CountsOK'
  BY <1>1 DEF IInv, ClientsOK, PeerOK, CountsOK, peers, history, stats
<1> QED
  BY <1>2, <1>3 DEF IInv

\* What the numbers of the windows come to.
LEMMA WindowTypes ==
  /\ CleanupInterval \in Nat \ {0} /\ CleanupTtl \in Nat /\ Window \in Nat
  /\ CleanupInterval <= Window
  /\ \A age \in Nat : age < CleanupTtl => age + CleanupInterval <= Window
BY UdpAssumption DEF UdpAssumption, Window

LEMMA ReceiveKeeps == ASSUME IInv, NEW a \in Address, Receive(a) PROVE IInv'
<1>1. /\ UNCHANGED <<cursor, mode, now, nextCleanup, targets, stats, stopped, outbox, owed>>
      /\ clients' = [x \in DOMAIN clients \cup {a} |-> IF x = a THEN now ELSE clients[x]]
      /\ heard' = [x \in DOMAIN heard \cup {a} |-> IF x = a THEN now ELSE heard[x]]
      /\ peer' = IF mode = "broadcast" THEN [x \in {a} |-> now] ELSE peer
      /\ sent' = sent \/ \E m \in Message : sent' = Append(sent, m)
  <2>1. sent' = sent \/ \E m \in Message : sent' = Append(sent, m)
    BY UdpAssumption DEF Receive, Publish, UdpAssumption
  <2>2. peer' = IF mode = "broadcast" THEN [x \in {a} |-> now] ELSE peer
    BY DEF Receive, HearPeer
  <2> QED
    BY <2>1, <2>2 DEF Receive, Hear
<1>2. SenderOK'
  BY <1>1, SentMore
<1>3. /\ now \in Nat /\ nextCleanup \in Nat /\ nextCleanup <= now + CleanupInterval
      /\ DOMAIN heard \subseteq Address /\ heard \in [DOMAIN heard -> Nat]
      /\ \A b \in DOMAIN heard : heard[b] <= now
      /\ DOMAIN clients \subseteq DOMAIN heard /\ IsFiniteSet(DOMAIN clients)
      /\ clients = [b \in DOMAIN clients |-> heard[b]]
      /\ \A b \in DOMAIN clients : nextCleanup <= heard[b] + Window
  BY DEF IInv, ClientsOK
<1>4. /\ DOMAIN heard' \subseteq Address /\ heard' \in [DOMAIN heard' -> Nat]
      /\ \A b \in DOMAIN heard' : heard'[b] <= now
  BY <1>1, <1>3
<1>5. DOMAIN clients' \subseteq DOMAIN heard' /\ IsFiniteSet(DOMAIN clients')
  <2>1. DOMAIN clients' = DOMAIN clients \cup {a} /\ DOMAIN heard' = DOMAIN heard \cup {a}
    BY <1>1
  <2>2. IsFiniteSet(DOMAIN clients \cup {a})
    BY <1>3, FS_AddElement
  <2> QED
    BY <1>3, <2>1, <2>2
<1>6. clients' = [b \in DOMAIN clients' |-> heard'[b]]
  BY <1>1, <1>3
<1>7. \A b \in DOMAIN clients' : nextCleanup <= heard'[b] + Window
  BY <1>1, <1>3, WindowTypes
<1>8. ClientsOK'
  BY <1>1, <1>4, <1>5, <1>6, <1>7 DEF IInv, ClientsOK, Window
<1>9. PeerOK'
  <2>1. a \in DOMAIN heard' /\ heard'[a] = now
    BY <1>1
  <2>2. CASE mode = "broadcast"
    <3>1. peer' = [x \in {a} |-> heard'[a]] /\ \A b \in DOMAIN heard' : heard'[b] <= heard'[a]
      BY <1>1, <1>4, <2>1, <2>2
    <3> QED
      BY <1>1, <2>1, <2>2, <3>1 DEF PeerOK
  <2>3. CASE mode # "broadcast"
    BY <1>1, <2>3 DEF IInv, PeerOK
  <2> QED
    BY <2>2, <2>3
<1>10. CountsOK'
  BY <1>1 DEF IInv, CountsOK, stats
<1> QED
  BY <1>2, <1>8, <1>9, <1>10 DEF IInv

LEMMA CleanupKeeps == ASSUME IInv, Cleanup PROVE IInv'
<1> DEFINE left == {x \in DOMAIN clients : ~Silent(x)}
<1>1. /\ nextCleanup <= now /\ nextCleanup' = nextCleanup + CleanupInterval
      /\ clients' = [x \in left |-> clients[x]]
      /\ UNCHANGED <<sent, cursor, mode, now, peer, targets, stats, stopped, history>>
  BY DEF Cleanup
<1>2. SenderOK' /\ PeerOK' /\ CountsOK'
  BY <1>1 DEF IInv, SenderOK, PeerOK, CountsOK, Allowed, InHand, stats, history
<1>3. /\ now \in Nat /\ nextCleanup \in Nat /\ now <= nextCleanup
      /\ DOMAIN clients \subseteq DOMAIN heard /\ IsFiniteSet(DOMAIN clients)
      /\ clients = [b \in DOMAIN clients |-> heard[b]]
      /\ \A b \in DOMAIN heard : heard[b] \in Nat /\ heard[b] <= now
  BY DEF IInv, ClientsOK
<1>4. nextCleanup' \in Nat /\ now <= nextCleanup' /\ nextCleanup' <= now + CleanupInterval
  BY <1>1, <1>3, WindowTypes
<1>5. IsFiniteSet(left) /\ left \subseteq DOMAIN heard
  BY <1>3, FS_Subset
<1>6. clients' = [x \in left |-> heard[x]]
  BY <1>1, <1>3
<1>7. \A b \in left : nextCleanup' <= heard[b] + Window
  <2> SUFFICES ASSUME NEW b \in left PROVE nextCleanup' <= heard[b] + Window
    OBVIOUS
  <2>1. heard[b] \in Nat /\ heard[b] <= now /\ now - heard[b] < CleanupTtl
    BY <1>3, WindowTypes DEF Silent
  <2>2. now - heard[b] \in Nat /\ (now - heard[b]) + CleanupInterval <= Window
    BY <1>3, <2>1, WindowTypes
  <2> QED
    BY <1>1, <1>3, <2>1, <2>2, WindowTypes
<1> HIDE DEF left
<1>8. ClientsOK'
  BY <1>1, <1>4, <1>5, <1>6, <1>7 DEF IInv, ClientsOK, Window, history
<1> QED
  BY <1>2, <1>8 DEF IInv

LEMMA EnvironmentKeeps == ASSUME IInv, Stop \/ Tick \/ UNCHANGED vars PROVE IInv'
<1>1. /\ UNCHANGED <<sent, cursor, mode, peers, targets, stats, history>> /\ stopped' \in BOOLEAN
      /\ now' = now \/ (now' = now + 1 /\ now < nextCleanup)
  BY DEF Stop, Tick, vars, IInv, CountsOK
<1>2. SenderOK' /\ PeerOK' /\ CountsOK'
  BY <1>1 DEF IInv, SenderOK, PeerOK, CountsOK, Allowed, InHand, stats, history, peers
<1>3. /\ now' \in Nat /\ now' <= nextCleanup /\ nextCleanup <= now' + CleanupInterval
      /\ \A a \in DOMAIN heard : heard[a] <= now'
  BY <1>1, WindowTypes DEF IInv, ClientsOK
<1>4. ClientsOK'
  BY <1>1, <1>3 DEF IInv, ClientsOK, Window, history, peers
<1> QED
  BY <1>2, <1>4 DEF IInv

-----------------------------------------------------------------------------
(* The theorems.                                                           *)

LEMMA InitIInv == Init => IInv
<1> SUFFICES ASSUME Init PROVE IInv
  OBVIOUS
<1>1. SenderOK
  <2>1. /\ sent \in Seq(Message) /\ targets \in Seq(Allowed) /\ Len(sent) = 0
        /\ \A a \in Destination : outbox[a] = <<>> /\ outbox[a] \in Seq(1 .. Len(sent))
    BY EmptySeq DEF Init
  <2>2. DOMAIN <<>> = {}
    BY EmptySeq
  <2>3. ToSet(targets) = {} /\ IsInjective(targets)
    BY <2>2 DEF Init, ToSet, IsInjective
  <2>4. cursor \in [Receiver -> 0 .. Len(sent)]
    BY <2>1 DEF Init
  <2>5. outbox \in [Destination -> Seq(1 .. Len(sent))]
    BY <2>1 DEF Init
  <2>6. \A a \in Destination :
          Increasing(outbox[a]) /\ \A c : UpTo(outbox[a], c)
    BY <2>1, <2>2 DEF Increasing, UpTo
  <2>7. owed = ToSet(targets) \X {InHand} /\ targets = <<>>
    BY <2>3 DEF Init
  <2> QED
    BY <2>1, <2>2, <2>3, <2>4, <2>5, <2>6, <2>7 DEF SenderOK
<1>2. ClientsOK
  BY FS_EmptySet, WindowTypes DEF Init, ClientsOK
<1>3. PeerOK /\ CountsOK
  BY DEF Init, PeerOK, CountsOK
<1> QED
  BY <1>1, <1>2, <1>3 DEF IInv

THEOREM Invariance == Spec => []IInv
<1>1. IInv /\ [Next]_vars => IInv'
  BY PublishKeeps, ReceiveKeeps, LaggedKeeps, TakeKeeps, SendKeeps, CleanupKeeps,
     EnvironmentKeeps DEF Next
<1> QED
  BY <1>1, InitIInv, PTL DEF Spec

\* The sender's list has no address twice and fits the mode; there is one peer at most,
\* and only in broadcast mode.
THEOREM TypeCorrect == Spec => []TypeOK
<1>1. ASSUME IInv
      PROVE  TypeOK
  <2>1. /\ mode \in Modes /\ now \in Nat /\ sent \in Seq(Message)
        /\ cursor \in [Receiver -> 0 .. Len(sent)]
        /\ targets \in Seq(IF mode = "server" THEN Address ELSE Destination)
        /\ IsInjective(targets) /\ nextCleanup \in Nat
        /\ msgs_out \in Nat /\ bus_lagged \in Nat /\ errors \in Nat /\ stopped \in BOOLEAN
        /\ DOMAIN heard \subseteq Address /\ heard \in [DOMAIN heard -> Nat]
        /\ outbox \in [Destination -> Seq(1 .. Len(sent))]
    BY <1>1 DEF IInv, SenderOK, ClientsOK, CountsOK, Allowed
  <2>2. DOMAIN clients \subseteq Address /\ clients \in [DOMAIN clients -> Nat]
    BY <1>1 DEF IInv, ClientsOK
  <2>3. /\ DOMAIN peer \subseteq Address /\ peer \in [DOMAIN peer -> Nat]
        /\ Cardinality(DOMAIN peer) <= 1 /\ (mode # "broadcast" => DOMAIN peer = {})
    <3>1. CASE mode = "broadcast" /\ DOMAIN heard # {}
      <4>1. PICK a \in DOMAIN heard : peer = [x \in {a} |-> heard[a]]
        BY <1>1, <3>1 DEF IInv, PeerOK
      <4>2. DOMAIN peer = {a} /\ a \in Address /\ heard[a] \in Nat
        BY <2>1, <4>1
      <4>3. Cardinality({a}) = 1
        BY FS_Singleton
      <4> QED
        BY <3>1, <4>1, <4>2, <4>3
    <3>2. CASE ~(mode = "broadcast" /\ DOMAIN heard # {})
      <4>1. peer = [x \in {} |-> 0]
        BY <1>1, <3>2 DEF IInv, PeerOK
      <4> QED
        BY <4>1, FS_EmptySet
    <3> QED
      BY <3>1, <3>2
  <2>4. owed \in SUBSET (Destination \X (1 .. Len(sent)))
    <3>1. ToSet(targets) \subseteq Destination
      BY <1>1, SenderTypes
    <3>2. targets = <<>> => ToSet(targets) = {}
      BY DEF ToSet
    <3>3. owed = ToSet(targets) \X {InHand} /\ (targets # <<>> => InHand \in 1 .. Len(sent))
      BY <1>1 DEF IInv, SenderOK
    <3> QED
      BY <3>1, <3>2, <3>3
  <2> QED
    BY <2>1, <2>2, <2>3, <2>4 DEF TypeOK
<1> QED
  BY <1>1, Invariance, PTL

\* A send that fails costs no other recipient the message, and every address gets the
\* messages of others in the order of the bus, none twice, whatever happens to the map of
\* clients between two sends.
THEOREM EveryoneTried == Spec => []EveryRecipientTried
<1>1. ASSUME IInv
      PROVE  EveryRecipientTried
  <2>1. owed = ToSet(targets) \X {InHand}
    BY <1>1 DEF IInv, SenderOK
  <2>2. targets = <<>> => ToSet(targets) = {}
    BY DEF ToSet
  <2>3. owed = ToSet(targets) \X (IF targets = <<>> THEN {} ELSE {InHand})
    BY <2>1, <2>2
  <2> QED
    BY <1>1, <2>3 DEF IInv, SenderOK, EveryRecipientTried, Increasing
<1> QED
  BY <1>1, Invariance, PTL
\* "Once a unicast peer responds, it switches to sending directly to that peer", the one
\* that was heard last, and back to broadcast when that one has been silent too long: the
\* single peer that the receiver keeps is enough to tell.
THEOREM FollowsThePeer == Spec => RevertsToBroadcast
<1> DEFINE Choice == LET to == Head(targets')
                     IN IF \E a \in DOMAIN heard : now - heard[a] < BroadcastTimeout
                          THEN to \in DOMAIN heard /\ \A a \in DOMAIN heard : heard[a] <= heard[to]
                          ELSE to = Target
           Chosen == mode = "broadcast" /\ targets = <<>> /\ targets' # <<>> => Choice
<1>1. ASSUME IInv, Next, mode = "broadcast", targets = <<>>, targets' # <<>>
      PROVE  Choice
  <2>1. Take
    BY <1>1 DEF Next, PublishOther, Receive, Lagged, SendNext, SendFails, Cleanup, Stop, Tick,
                history, peers, stats
  <2>2. targets' \in SetToSeqs(Recipients)
    BY <1>1, <2>1 DEF Take
  <2>3. Head(targets') \in Recipients
    <3>1. targets' \in Seq(Recipients)
      BY <1>1, <2>2, RecipientsType, AllOfThem
    <3> QED
      BY <1>1, <3>1, HeadTailProperties
  <2>4. Recipients = IF LivePeer = {} THEN {Target} ELSE LivePeer
    BY <1>1 DEF Recipients
  <2>5. now \in Nat /\ BroadcastTimeout \in Nat /\ \A a \in DOMAIN heard : heard[a] \in Nat
    BY <1>1, UdpAssumption DEF UdpAssumption, IInv, ClientsOK
  <2>6. CASE DOMAIN heard = {}
    <3>1. DOMAIN peer = {}
      BY <1>1, <2>6 DEF IInv, PeerOK
    <3>2. LivePeer = {}
      BY <3>1 DEF LivePeer
    <3> QED
      BY <2>3, <2>4, <2>6, <3>2
  <2>7. CASE DOMAIN heard # {}
    <3>1. PICK p \in DOMAIN heard :
            /\ peer = [x \in {p} |-> heard[p]]
            /\ \A b \in DOMAIN heard : heard[b] <= heard[p]
      BY <1>1, <2>7 DEF IInv, PeerOK
    <3>2. LivePeer = IF now - heard[p] < BroadcastTimeout THEN {p} ELSE {}
      BY <3>1 DEF LivePeer
    <3>3. (\E a \in DOMAIN heard : now - heard[a] < BroadcastTimeout)
            <=> now - heard[p] < BroadcastTimeout
      BY <2>5, <3>1
    <3>4. CASE now - heard[p] < BroadcastTimeout
      <4>1. Head(targets') = p
        BY <2>3, <2>4, <3>2, <3>4
      <4> QED
        BY <3>1, <3>3, <3>4, <4>1
    <3>5. CASE ~(now - heard[p] < BroadcastTimeout)
      BY <2>3, <2>4, <3>2, <3>3, <3>5
    <3> QED
      BY <3>4, <3>5
  <2> QED
    BY <2>6, <2>7
<1>2. IInv /\ [Next]_vars => [Chosen]_vars
  BY <1>1
<1> QED
  BY <1>2, Invariance, PTL DEF Spec, RevertsToBroadcast

-----------------------------------------------------------------------------
(* The map of clients implements a memory with a time limit.               *)

LEMMA ClientsStep ==
  ASSUME IInv, [Next]_vars
  PROVE  [Clients!Next]_<<now, DOMAIN clients, heard>>
<1>1. /\ clients = [b \in DOMAIN clients |-> heard[b]]
      /\ \A b \in DOMAIN clients : heard[b] \in Nat /\ nextCleanup <= heard[b] + Window
      /\ now \in Nat /\ nextCleanup \in Nat
  BY DEF IInv, ClientsOK
<1>2. ASSUME NEW a \in Address, Receive(a)
      PROVE  Clients!Note(a)
  BY <1>2 DEF Receive, Hear, Clients!Note
<1>3. CASE Cleanup
  <2> DEFINE gone == {x \in DOMAIN clients : Silent(x)}
  <2>1. DOMAIN clients' = DOMAIN clients \ gone /\ UNCHANGED <<now, heard>>
    BY <1>3 DEF Cleanup, history
  <2>2. \A x \in gone : now - heard[x] >= CleanupTtl
    BY <1>1 DEF Silent
  <2> HIDE DEF gone
  <2>3. gone \in SUBSET DOMAIN clients
    BY DEF gone
  <2>4. Clients!Forget
    BY <2>1, <2>2, <2>3 DEF Clients!Forget
  <2> QED
    BY <2>4 DEF Clients!Next
<1>4. CASE Tick
  <2>1. now' = now + 1 /\ now < nextCleanup /\ UNCHANGED <<clients, heard>>
    BY <1>4 DEF Tick, peers, history
  <2>2. \A b \in DOMAIN clients :
          now - heard[b] < CleanupInterval + (IF CleanupTtl = 0 THEN 0 ELSE CleanupTtl - 1)
    <3>1. \A b \in DOMAIN clients : now - heard[b] < Window
      BY <1>1, <2>1, WindowTypes
    <3> QED
      BY <3>1 DEF Window
  <2>3. Clients!Tick
    BY <2>1, <2>2 DEF Clients!Tick
  <2> QED
    BY <2>3 DEF Clients!Next
<1>5. CASE PublishOther \/ Lagged \/ Take \/ SendNext \/ SendFails \/ Stop \/ UNCHANGED vars
  BY <1>5 DEF PublishOther, Lagged, Take, SendNext, SendFails, Stop, vars, peers, history
<1> QED
  BY <1>2, <1>3, <1>4, <1>5 DEF Next, Clients!Next

\* A client that sends within the TTL stays in the map, and one that is silent is gone when
\* the TTL and one more cleanup are over, in whatever order datagrams, cleanups and sends
\* take their turns.
THEOREM ClientsAreRetained == Spec => RetainsClients
<1>1. Init => Clients!Init
  BY DEF Init, Clients!Init
<1> QED
  BY <1>1, ClientsStep, Invariance, PTL DEF Spec, RetainsClients, Clients!Spec, Clients!vars
=============================================================================
