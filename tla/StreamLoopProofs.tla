-------------------------- MODULE StreamLoopProofs ---------------------------
(***************************************************************************)
(* What a stream carries and what its counters say, for every number of    *)
(* endpoints, every capacity of the bus and size of the batches, and any   *)
(* history of lags, partial writes, errors, cancellations and restarts.    *)
(***************************************************************************)
EXTENDS StreamLoop, MessageBusProofs

Out(ep) == wire[ep] \o buffered[ep]

Domains ==
  /\ DOMAIN buffered = Endpoint /\ DOMAIN wire = Endpoint
  /\ DOMAIN handled = Endpoint /\ DOMAIN away = Endpoint

\* Only a batch has a buffer, and room in it for the rest of the batch.
BatchOK(ep) ==
  /\ writer[ep] # "batch" => buffered[ep] = <<>>
  /\ writer[ep] = "batch" => Len(buffered[ep]) + left[ep] <= BatchLimit + 1

\* What was written is in order, and the cursor is past it.
WrittenOK(ep) ==
  /\ Increasing(Out(ep)) /\ UpTo(Out(ep), cursor[ep])
  /\ \A i \in DOMAIN Out(ep) :
       sent[Out(ep)[i]].source # ep /\ <<ep, sent[Out(ep)[i]]>> \notin Filtered

\* A live receiver has been there for all that is beyond its cursor, a dropped one for
\* none of it.
ReceivedOK(ep) ==
  /\ handled[ep] \subseteq 1 .. cursor[ep]
  /\ writer[ep] # "down" => away[ep] \subseteq 1 .. cursor[ep]
  /\ writer[ep] = "down" => (cursor[ep] + 1) .. Len(sent) \subseteq away[ep]

Accounted(ep) == handled[ep] \cup away[ep]

CountedOK(ep) ==
  /\ bus_lagged[ep] = Cardinality(Lost(cursor[ep], Accounted(ep)))
  /\ Len(wire[ep]) + Len(buffered[ep]) <= msgs_out[ep]
  /\ msgs_out[ep] <= Cardinality(handled[ep])

LoopOK(ep) == BatchOK(ep) /\ WrittenOK(ep) /\ ReceivedOK(ep) /\ CountedOK(ep)

IInv == TypeOK /\ Domains /\ \A ep \in Endpoint : LoopOK(ep)
-----------------------------------------------------------------------------
(* What holds of one endpoint.                                             *)

\* The types of one endpoint's variables.
LEMMA TypesAt ==
  ASSUME IInv, NEW ep \in Endpoint
  PROVE  /\ Len(sent) \in Nat /\ cursor[ep] \in Nat /\ cursor[ep] <= Len(sent)
         /\ left[ep] \in 0 .. BatchLimit /\ BatchLimit \in Nat
         /\ wire[ep] \in Seq(Nat) /\ buffered[ep] \in Seq(Nat) /\ Out(ep) \in Seq(Nat)
         /\ Len(buffered[ep]) \in Nat /\ Len(wire[ep]) \in Nat
         /\ msgs_out[ep] \in Nat /\ bus_lagged[ep] \in Nat /\ errors[ep] \in Nat
<1>1. Len(sent) \in Nat
  BY LenProperties DEF IInv, TypeOK
<1>2. Position \subseteq Nat
  BY DEF Position
<1>3. wire[ep] \in Seq(Nat) /\ buffered[ep] \in Seq(Nat)
  BY <1>2, SeqMonotonic DEF IInv, TypeOK
<1>4. Out(ep) \in Seq(Nat)
  BY <1>3, ConcatProperties DEF Out
<1>5. Len(buffered[ep]) \in Nat /\ Len(wire[ep]) \in Nat
  BY <1>3, LenProperties
<1>6. cursor[ep] \in 0 .. Len(sent) /\ left[ep] \in 0 .. BatchLimit
      /\ msgs_out[ep] \in Nat /\ bus_lagged[ep] \in Nat /\ errors[ep] \in Nat
  BY DEF IInv, TypeOK
<1> QED
  BY <1>1, <1>3, <1>4, <1>5, <1>6, StreamAssumption DEF StreamAssumption

\* What is written stays in order, whatever gets from the buffer to the stream or is lost
\* in it.
LEMMA OldIsWritten ==
  ASSUME IInv, NEW ep \in Endpoint,
         sent' = sent \/ \E m \in Message : sent' = Append(sent, m),
         cursor'[ep] \in Nat, cursor[ep] <= cursor'[ep],
         Out(ep)' = Out(ep) \/ Out(ep)' = wire[ep]
  PROVE  WrittenOK(ep)'
<1>1. /\ wire[ep] \in Seq(Nat) /\ buffered[ep] \in Seq(Nat) /\ Out(ep) \in Seq(Nat)
      /\ cursor[ep] \in Nat /\ cursor[ep] <= Len(sent) /\ Len(sent) \in Nat
  BY TypesAt
<1>2. Increasing(Out(ep)) /\ UpTo(Out(ep), cursor[ep])
  BY DEF IInv, LoopOK, WrittenOK
<1>3. /\ DOMAIN wire[ep] \subseteq DOMAIN Out(ep)
      /\ \A i \in DOMAIN wire[ep] : wire[ep][i] = Out(ep)[i]
      /\ Increasing(wire[ep]) /\ UpTo(wire[ep], cursor[ep])
  BY <1>1, <1>2, WithoutBuffer DEF Out
<1>4. Out(ep)' \in Seq(Nat) /\ Increasing(Out(ep)') /\ UpTo(Out(ep)', cursor[ep])
  BY <1>1, <1>2, <1>3
<1>5. UpTo(Out(ep)', cursor'[ep])
  BY <1>1, <1>4, UpToMore
<1>6. \A i \in DOMAIN Out(ep) :
        /\ Out(ep)[i] \in 1 .. Len(sent)
        /\ sent[Out(ep)[i]].source # ep /\ <<ep, sent[Out(ep)[i]]>> \notin Filtered
  <2>1. wire[ep] \in Seq(Position) /\ buffered[ep] \in Seq(Position)
    BY DEF IInv, TypeOK
  <2>2. Out(ep) \in Seq(Position)
    BY <2>1, ConcatProperties DEF Out
  <2>3. \A i \in DOMAIN Out(ep) : Out(ep)[i] \in Position
    BY <2>2, LenProperties, ElementOfSeq
  <2> QED
    BY <2>3 DEF IInv, LoopOK, WrittenOK, Position
<1>7. \A p \in 1 .. Len(sent) : sent'[p] = sent[p]
  <2>1. sent \in Seq(Message)
    BY DEF IInv, TypeOK
  <2>2. ASSUME NEW m \in Message PROVE \A p \in 1 .. Len(sent) : Append(sent, m)[p] = sent[p]
    BY <2>1, AppendProperties
  <2> QED
    BY <2>2
<1>8. DOMAIN Out(ep)' \subseteq DOMAIN Out(ep) /\ \A i \in DOMAIN Out(ep)' : Out(ep)'[i] = Out(ep)[i]
  BY <1>3
<1>9. \A i \in DOMAIN Out(ep)' :
        sent'[Out(ep)'[i]].source # ep /\ <<ep, sent'[Out(ep)'[i]]>> \notin Filtered
  BY <1>6, <1>7, <1>8
<1> QED
  BY <1>4, <1>5, <1>9 DEF WrittenOK

LEMMA NewIsWritten ==
  ASSUME IInv, NEW ep \in Endpoint, sent' = sent, CanReceive(ep),
         CheckOutgoing(ep, sent[NextPosition(ep)]),
         wire'[ep] = wire[ep], buffered'[ep] = Append(buffered[ep], NextPosition(ep)),
         cursor'[ep] = cursor[ep] + 1
  PROVE  WrittenOK(ep)'
<1> DEFINE p == cursor[ep] + 1
<1>1. /\ wire[ep] \in Seq(Nat) /\ buffered[ep] \in Seq(Nat) /\ Out(ep) \in Seq(Nat)
      /\ cursor[ep] \in Nat /\ p \in Nat /\ cursor[ep] < p
  BY TypesAt
<1>2. Out(ep)' = Append(Out(ep), p)
  <2>1. buffered'[ep] = Append(buffered[ep], p)
    BY DEF NextPosition
  <2>2. wire[ep] \o Append(buffered[ep], p) = Append(wire[ep] \o buffered[ep], p)
    <3>1. \A v, b \in Seq(Nat), x \in Nat : v \o Append(b, x) = Append(v \o b, x)
      BY BufferMore
    <3> QED
      BY <1>1, <3>1
  <2> QED
    BY <2>1, <2>2 DEF Out
<1>3. Increasing(Out(ep)) /\ UpTo(Out(ep), cursor[ep])
  BY DEF IInv, LoopOK, WrittenOK
<1> HIDE DEF p
<1>4. Increasing(Out(ep)') /\ UpTo(Out(ep)', p)
  BY <1>1, <1>2, <1>3, OneMore
<1>5. \A i \in DOMAIN Out(ep)' : Out(ep)'[i] = p \/ (i \in DOMAIN Out(ep) /\ Out(ep)'[i] = Out(ep)[i])
  <2> DEFINE s == Out(ep)
  <2>1. /\ Append(s, p) \in Seq(Nat) /\ Len(Append(s, p)) = Len(s) + 1 /\ Len(s) \in Nat
        /\ Append(s, p)[Len(s) + 1] = p /\ \A i \in 1 .. Len(s) : Append(s, p)[i] = s[i]
        /\ DOMAIN s = 1 .. Len(s) /\ DOMAIN Append(s, p) = 1 .. Len(s) + 1
    BY <1>1, AppendProperties, LenProperties
  <2> HIDE DEF s
  <2>2. \A i \in DOMAIN Append(s, p) :
          Append(s, p)[i] = p \/ (i \in DOMAIN s /\ Append(s, p)[i] = s[i])
    BY <2>1
  <2> QED
    BY <2>2, <1>2 DEF s
<1>6. sent[p].source # ep /\ <<ep, sent[p]>> \notin Filtered
  BY DEF CheckOutgoing, NextPosition, p
<1>7. \A i \in DOMAIN Out(ep)' :
        sent[Out(ep)'[i]].source # ep /\ <<ep, sent[Out(ep)'[i]]>> \notin Filtered
  BY <1>5, <1>6 DEF IInv, LoopOK, WrittenOK
<1>8. cursor'[ep] = p
  BY DEF p
<1> QED
  BY <1>4, <1>7, <1>8 DEF WrittenOK

\* The cursor moves past what has been received, or was sent while nobody was there.
LEMMA NothingLost ==
  ASSUME IInv, NEW ep \in Endpoint, cursor'[ep] \in Nat, cursor[ep] <= cursor'[ep],
         \A p \in 1 .. cursor[ep] : p \in Accounted(ep)' <=> p \in Accounted(ep),
         cursor[ep] + 1 .. cursor'[ep] \subseteq Accounted(ep)',
         bus_lagged'[ep] = bus_lagged[ep]
  PROVE  bus_lagged'[ep] = Cardinality(Lost(cursor'[ep], Accounted(ep)'))
<1>1. cursor[ep] \in Nat
  BY TypesAt
<1>2. Lost(cursor'[ep], Accounted(ep)') = Lost(cursor[ep], Accounted(ep))
  BY <1>1, LostSame
<1> QED
  BY <1>2 DEF IInv, LoopOK, CountedOK

LEMMA HandledIsFinite ==
  ASSUME IInv, NEW ep \in Endpoint
  PROVE  IsFiniteSet(handled[ep]) /\ Cardinality(handled[ep]) \in Nat
<1>1. cursor[ep] \in Nat /\ handled[ep] \in SUBSET (1 .. cursor[ep])
  BY TypesAt DEF IInv, LoopOK, ReceivedOK
<1>2. IsFiniteSet(1 .. cursor[ep])
  BY <1>1, FS_Interval
<1> QED
  BY <1>1, <1>2, FS_Subset, FS_CardinalityType

\* One more has been received.
LEMMA OneReceived ==
  ASSUME IInv, NEW ep \in Endpoint, handled'[ep] = handled[ep] \cup {NextPosition(ep)}
  PROVE  /\ Cardinality(handled'[ep]) = Cardinality(handled[ep]) + 1
         /\ Cardinality(handled[ep]) \in Nat
<1>1. cursor[ep] \in Nat /\ handled[ep] \in SUBSET (1 .. cursor[ep])
  BY TypesAt DEF IInv, LoopOK, ReceivedOK
<1>2. NextPosition(ep) \notin handled[ep]
  BY <1>1 DEF NextPosition
<1>3. IsFiniteSet(handled[ep])
  BY HandledIsFinite
<1> QED
  BY <1>2, <1>3, FS_AddElement, FS_CardinalityType

-----------------------------------------------------------------------------
(* The other endpoints.                                                    *)

Same(e) ==
  /\ cursor'[e] = cursor[e]
  /\ writer'[e] = writer[e] /\ left'[e] = left[e]
  /\ buffered'[e] = buffered[e] /\ wire'[e] = wire[e]
  /\ msgs_out'[e] = msgs_out[e] /\ bus_lagged'[e] = bus_lagged[e]
  /\ handled'[e] = handled[e] /\ away'[e] = away[e]

LEMMA SameKeeps ==
  ASSUME IInv, sent' = sent, NEW e \in Endpoint, Same(e) PROVE LoopOK(e)'
<1>1. LoopOK(e)
  BY DEF IInv
<1>2. BatchOK(e)' /\ WrittenOK(e)'
  BY <1>1 DEF Same, LoopOK, BatchOK, WrittenOK, Out
<1>3. ReceivedOK(e)' /\ CountedOK(e)'
  BY <1>1 DEF Same, LoopOK, ReceivedOK, CountedOK, Accounted, Out
<1> QED
  BY <1>2, <1>3 DEF LoopOK

\* A step of one endpoint.
LEMMA StepKeeps ==
  ASSUME IInv, sent' = sent, Domains', NEW ep \in Endpoint, LoopOK(ep)',
         \A e \in Endpoint \ {ep} : Same(e),
         cursor' \in [Endpoint -> 0 .. Len(sent)],
         writer' \in [Endpoint -> {"recv", "batch", "down"}],
         left' \in [Endpoint -> 0 .. BatchLimit],
         wire'[ep] \in Seq(Position), buffered'[ep] \in Seq(Position),
         handled'[ep] \in SUBSET Position, away'[ep] \in SUBSET Position,
         msgs_out' \in [Endpoint -> Nat], bus_lagged' \in [Endpoint -> Nat],
         errors' \in [Endpoint -> Nat], UNCHANGED <<reach, cancelled>>
  PROVE  IInv'
<1>1. Len(buffered'[ep]) <= BatchLimit + 1
  <2>1. Len(buffered'[ep]) \in Nat /\ left'[ep] \in Nat /\ BatchLimit \in Nat
    <3>1. Len(buffered'[ep]) \in Nat
      BY LenProperties
    <3> QED
      BY <3>1, StreamAssumption DEF StreamAssumption
  <2>2. buffered'[ep] = <<>> => Len(buffered'[ep]) = 0
    OBVIOUS
  <2> QED
    BY <2>1, <2>2 DEF LoopOK, BatchOK
<1>2. ASSUME NEW e \in Endpoint \ {ep}
      PROVE  /\ buffered'[e] \in Seq(Position) /\ wire'[e] \in Seq(Position)
             /\ Len(buffered'[e]) <= BatchLimit + 1
             /\ handled'[e] \in SUBSET Position /\ away'[e] \in SUBSET Position
  BY DEF IInv, TypeOK, Same
<1>3. TypeOK'
  BY <1>1, <1>2 DEF IInv, TypeOK, Position
<1>4. \A e \in Endpoint \ {ep} : LoopOK(e)'
  BY SameKeeps
<1> QED
  BY <1>3, <1>4 DEF IInv

-----------------------------------------------------------------------------
(* The steps of a writer.                                                  *)

LEMMA ReceiveKeeps ==
  ASSUME IInv, NEW ep \in Endpoint, ReceiveFirst(ep) \/ ReceiveMore(ep) PROVE IInv'
<1> DEFINE p == NextPosition(ep)
<1>1. /\ CanReceive(ep) /\ sent' = sent
      /\ cursor' = [cursor EXCEPT ![ep] = @ + 1]
      /\ handled' = [handled EXCEPT ![ep] = @ \cup {p}]
      /\ UNCHANGED <<wire, bus_lagged, errors, reach, cancelled, away>>
  BY DEF ReceiveFirst, ReceiveMore, Receive, TakeNext
<1>2. /\ Len(sent) \in Nat /\ cursor[ep] \in Nat /\ p \in 1 .. Len(sent) /\ p = cursor[ep] + 1
      /\ left[ep] \in 0 .. BatchLimit /\ BatchLimit \in Nat
      /\ wire[ep] \in Seq(Position) /\ buffered[ep] \in Seq(Position)
      /\ Len(buffered[ep]) \in Nat /\ Len(wire[ep]) \in Nat /\ msgs_out[ep] \in Nat
  <2>1. /\ Len(sent) \in Nat /\ cursor[ep] \in Nat /\ left[ep] \in 0 .. BatchLimit
        /\ BatchLimit \in Nat /\ Len(buffered[ep]) \in Nat /\ Len(wire[ep]) \in Nat
        /\ msgs_out[ep] \in Nat
    BY TypesAt
  <2>2. p \in 1 .. Len(sent) /\ p = cursor[ep] + 1
    BY <1>1, <2>1 DEF CanReceive, NextPosition
  <2>3. wire[ep] \in Seq(Position) /\ buffered[ep] \in Seq(Position)
    BY DEF IInv, TypeOK
  <2> HIDE DEF p
  <2> QED
    BY <2>1, <2>2, <2>3
<1>3. \/ /\ CheckOutgoing(ep, sent[p])
         /\ buffered' = [buffered EXCEPT ![ep] = Append(@, p)]
         /\ msgs_out' = [msgs_out EXCEPT ![ep] = @ + 1]
      \/ UNCHANGED <<buffered, msgs_out>>
  BY DEF ReceiveFirst, ReceiveMore, Write
<1>4. /\ writer' \in [Endpoint -> {"recv", "batch", "down"}]
      /\ left' \in [Endpoint -> 0 .. BatchLimit]
      /\ writer[ep] # "down" /\ writer'[ep] # "down"
      /\ \A e \in Endpoint \ {ep} : writer'[e] = writer[e] /\ left'[e] = left[e]
  <2>1. writer \in [Endpoint -> {"recv", "batch", "down"}] /\ left \in [Endpoint -> 0 .. BatchLimit]
    BY DEF IInv, TypeOK
  <2>2. CASE ReceiveFirst(ep)
    <3>1. writer[ep] = "recv"
      BY <2>2 DEF ReceiveFirst
    <3>2. CASE UNCHANGED <<writer, left>>
      BY <2>1, <3>1, <3>2
    <3>3. CASE /\ writer' = [writer EXCEPT ![ep] = "batch"]
               /\ left' = [left EXCEPT ![ep] = BatchLimit]
      BY <1>2, <2>1, <3>1, <3>3
    <3> QED
      BY <2>2, <3>2, <3>3 DEF ReceiveFirst
  <2>3. CASE ReceiveMore(ep)
    <3>1. writer[ep] = "batch" /\ writer' = writer /\ left[ep] - 1 \in 0 .. BatchLimit
          /\ left' = [left EXCEPT ![ep] = @ - 1]
      BY <1>2, <2>3 DEF ReceiveMore
    <3> QED
      BY <2>1, <3>1
  <2> QED
    BY <2>2, <2>3
<1> HIDE DEF p
<1>5. \A e \in Endpoint \ {ep} : Same(e)
  BY <1>1, <1>3, <1>4 DEF IInv, TypeOK, Domains, Same
<1>6. /\ cursor'[ep] = cursor[ep] + 1 /\ handled'[ep] = handled[ep] \cup {p}
      /\ wire'[ep] = wire[ep] /\ bus_lagged'[ep] = bus_lagged[ep] /\ away'[ep] = away[ep]
      /\ \/ buffered'[ep] = Append(buffered[ep], p) /\ msgs_out'[ep] = msgs_out[ep] + 1
         \/ buffered'[ep] = buffered[ep] /\ msgs_out'[ep] = msgs_out[ep]
  BY <1>1, <1>3 DEF IInv, TypeOK, Domains
<1>7. Append(buffered[ep], p) \in Seq(Position)
      /\ Len(Append(buffered[ep], p)) = Len(buffered[ep]) + 1
  BY <1>2, AppendProperties DEF Position
<1>8. BatchOK(ep)'
  <2>1. CASE ReceiveFirst(ep)
    <3>1. writer[ep] = "recv" /\ buffered[ep] = <<>> /\ Len(buffered[ep]) = 0
      BY <2>1 DEF ReceiveFirst, IInv, LoopOK, BatchOK
    <3>2. CASE CheckOutgoing(ep, sent[p])
      <4>1. /\ buffered' = [buffered EXCEPT ![ep] = Append(@, p)]
            /\ writer' = [writer EXCEPT ![ep] = "batch"]
            /\ left' = [left EXCEPT ![ep] = BatchLimit]
        BY <2>1, <3>2 DEF ReceiveFirst, Write, p
      <4>2. /\ buffered'[ep] = Append(buffered[ep], p) /\ writer'[ep] = "batch"
            /\ left'[ep] = BatchLimit
        BY <4>1 DEF IInv, TypeOK, Domains
      <4>3. Len(buffered'[ep]) = 1
        BY <4>2, <3>1, <1>7
      <4> QED
        BY <4>2, <4>3, <1>2 DEF BatchOK
    <3>3. CASE ~CheckOutgoing(ep, sent[p])
      BY <2>1, <3>1, <3>3 DEF ReceiveFirst, BatchOK, p
    <3> QED
      BY <3>2, <3>3
  <2>2. CASE ReceiveMore(ep)
    <3>1. writer[ep] = "batch" /\ writer'[ep] = "batch" /\ left'[ep] = left[ep] - 1
      BY <2>2 DEF ReceiveMore, IInv, TypeOK
    <3>2. Len(buffered[ep]) + left[ep] <= BatchLimit + 1
      BY <3>1 DEF IInv, LoopOK, BatchOK
    <3>3. Len(buffered'[ep]) \in Nat /\ Len(buffered'[ep]) <= Len(buffered[ep]) + 1
      BY <1>2, <1>6, <1>7
    <3> QED
      BY <1>2, <3>1, <3>2, <3>3 DEF BatchOK
  <2> QED
    BY <2>1, <2>2
<1>9. WrittenOK(ep)'
  <2>1. CASE CheckOutgoing(ep, sent[p]) /\ buffered'[ep] = Append(buffered[ep], p)
    BY <1>1, <1>6, <2>1, NewIsWritten DEF p
  <2>2. CASE buffered'[ep] = buffered[ep]
    <3>1. Out(ep)' = Out(ep)
      BY <1>6, <2>2 DEF Out
    <3>2. cursor'[ep] \in Nat /\ cursor[ep] <= cursor'[ep]
      BY <1>2, <1>6
    <3> QED
      BY <1>1, <3>1, <3>2, OldIsWritten
  <2>3. \/ CheckOutgoing(ep, sent[p]) /\ buffered'[ep] = Append(buffered[ep], p)
        \/ buffered'[ep] = buffered[ep]
    BY <1>3 DEF IInv, Domains
  <2> QED
    BY <2>1, <2>2, <2>3
<1>10. ReceivedOK(ep)'
  BY <1>2, <1>4, <1>6 DEF IInv, LoopOK, ReceivedOK
<1>11. CountedOK(ep)'
  <2>1. bus_lagged'[ep] = Cardinality(Lost(cursor'[ep], Accounted(ep)'))
    <3>1. cursor'[ep] \in Nat /\ cursor[ep] <= cursor'[ep]
      BY <1>2, <1>6
    <3>2. /\ \A q \in 1 .. cursor[ep] : q \in Accounted(ep)' <=> q \in Accounted(ep)
          /\ cursor[ep] + 1 .. cursor'[ep] \subseteq Accounted(ep)'
      BY <1>2, <1>6 DEF Accounted
    <3> QED
      BY <1>6, <3>1, <3>2, NothingLost
  <2>2. Cardinality(handled'[ep]) = Cardinality(handled[ep]) + 1
        /\ Cardinality(handled[ep]) \in Nat
    BY <1>6, OneReceived DEF p
  <2>3. Len(wire[ep]) + Len(buffered[ep]) <= msgs_out[ep] /\ msgs_out[ep] <= Cardinality(handled[ep])
    BY DEF IInv, LoopOK, CountedOK
  <2>4. /\ Len(wire'[ep]) + Len(buffered'[ep]) <= msgs_out'[ep]
        /\ msgs_out'[ep] <= Cardinality(handled[ep]) + 1
    <3>1. Len(wire'[ep]) = Len(wire[ep])
      BY <1>6
    <3>2. \/ Len(buffered'[ep]) = Len(buffered[ep]) /\ msgs_out'[ep] = msgs_out[ep]
          \/ Len(buffered'[ep]) = Len(buffered[ep]) + 1 /\ msgs_out'[ep] = msgs_out[ep] + 1
      BY <1>6, <1>7
    <3>3. /\ Len(wire[ep]) \in Nat /\ Len(buffered[ep]) \in Nat /\ msgs_out[ep] \in Nat
          /\ Cardinality(handled[ep]) \in Nat
      BY <1>2, <2>2
    <3>4. Len(wire[ep]) + Len(buffered'[ep]) <= msgs_out'[ep]
      <4> DEFINE w == Len(wire[ep])
                 b == Len(buffered[ep])
                 c == Len(buffered'[ep])
                 m == msgs_out[ep]
                 n == msgs_out'[ep]
      <4>1. w \in Nat /\ b \in Nat /\ m \in Nat /\ w + b <= m
            /\ ((c = b /\ n = m) \/ (c = b + 1 /\ n = m + 1))
        BY <2>3, <3>2, <3>3
      <4> HIDE DEF w, b, c, m, n
      <4>2. w + c <= n
        BY <4>1
      <4> QED
        BY <4>2 DEF w, c, n
    <3>5. msgs_out'[ep] <= Cardinality(handled[ep]) + 1
      BY <2>3, <3>2, <3>3
    <3> QED
      BY <3>1, <3>4, <3>5
  <2> QED
    BY <2>1, <2>2, <2>4 DEF CountedOK
<1>12. Domains'
  BY <1>1, <1>3 DEF IInv, Domains
<1>13. cursor' \in [Endpoint -> 0 .. Len(sent)]
  <2>1. cursor[ep] + 1 \in 0 .. Len(sent) /\ cursor \in [Endpoint -> 0 .. Len(sent)]
    BY <1>2 DEF IInv, TypeOK
  <2> QED
    BY <1>1, <2>1
<1>14. msgs_out' \in [Endpoint -> Nat]
  <2>1. msgs_out[ep] + 1 \in Nat /\ msgs_out \in [Endpoint -> Nat]
    BY <1>2 DEF IInv, TypeOK
  <2> QED
    BY <1>3, <2>1
<1>15. /\ buffered'[ep] \in Seq(Position) /\ wire'[ep] \in Seq(Position)
       /\ handled'[ep] \in SUBSET Position /\ away'[ep] \in SUBSET Position
  BY <1>2, <1>6, <1>7 DEF IInv, TypeOK, Position
<1>16. bus_lagged' \in [Endpoint -> Nat] /\ errors' \in [Endpoint -> Nat]
  BY <1>1 DEF IInv, TypeOK
<1>17. LoopOK(ep)'
  BY <1>8, <1>9, <1>10, <1>11 DEF LoopOK
<1> QED
  BY <1>1, <1>4, <1>5, <1>12, <1>13, <1>14, <1>15, <1>16, <1>17, StepKeeps
LEMMA LaggedKeeps == ASSUME IInv, NEW ep \in Endpoint, ReceiveLagged(ep) PROVE IInv'
<1>1. /\ cursor[ep] < Oldest /\ sent' = sent
      /\ cursor' = [cursor EXCEPT ![ep] = Oldest]
      /\ bus_lagged' = [bus_lagged EXCEPT ![ep] = @ + (Oldest - cursor[ep])]
      /\ UNCHANGED <<writer, buffered, wire, msgs_out, errors, reach, cancelled, handled, away>>
  BY DEF ReceiveLagged, HasLagged, SkipMissed, CountLagged, Missed
<1>2. /\ cursor[ep] \in Nat /\ Len(sent) \in Nat /\ Oldest \in 0 .. Len(sent)
      /\ cursor[ep] < Oldest /\ left[ep] \in 0 .. BatchLimit /\ bus_lagged[ep] \in Nat
      /\ Len(buffered[ep]) \in Nat /\ BatchLimit \in Nat
  BY <1>1, TypesAt, BusAssumption DEF Oldest, BusAssumption
<1>3. /\ left' \in [Endpoint -> 0 .. BatchLimit] /\ writer[ep] # "down"
      /\ \A e \in Endpoint \ {ep} : left'[e] = left[e]
      /\ left'[ep] <= left[ep]
  <2>1. left \in [Endpoint -> 0 .. BatchLimit]
    BY DEF IInv, TypeOK
  <2>2. CASE left' = left /\ writer[ep] = "recv"
    BY <1>2, <2>1, <2>2
  <2>3. CASE /\ writer[ep] = "batch" /\ left[ep] > 0
             /\ left' = [left EXCEPT ![ep] = @ - 1]
    <3>1. left[ep] - 1 \in 0 .. BatchLimit
      BY <1>2, <2>3
    <3> QED
      BY <1>2, <2>1, <2>3, <3>1
  <2> QED
    BY <2>2, <2>3 DEF ReceiveLagged
<1>4. /\ cursor' \in [Endpoint -> 0 .. Len(sent)] /\ cursor'[ep] = Oldest
      /\ \A e \in Endpoint \ {ep} : cursor'[e] = cursor[e]
  BY <1>1, <1>2 DEF IInv, TypeOK
<1>5. /\ bus_lagged' \in [Endpoint -> Nat] /\ bus_lagged'[ep] = bus_lagged[ep] + (Oldest - cursor[ep])
      /\ \A e \in Endpoint \ {ep} : bus_lagged'[e] = bus_lagged[e]
  <2>1. bus_lagged[ep] + (Oldest - cursor[ep]) \in Nat /\ bus_lagged \in [Endpoint -> Nat]
    BY <1>2 DEF IInv, TypeOK
  <2> QED
    BY <1>1, <2>1
<1>6. \A e \in Endpoint \ {ep} : Same(e)
  BY <1>1, <1>3, <1>4, <1>5 DEF Same
<1>7. BatchOK(ep)'
  <2>1. left'[ep] \in Nat
    BY <1>2, <1>3
  <2> QED
    BY <1>1, <1>2, <1>3, <2>1 DEF BatchOK, IInv, LoopOK
<1>8. WrittenOK(ep)'
  <2>1. Out(ep)' = Out(ep) /\ cursor'[ep] \in Nat /\ cursor[ep] <= cursor'[ep]
    BY <1>1, <1>2, <1>4 DEF Out
  <2> QED
    BY <1>1, <2>1, OldIsWritten
<1>9. ReceivedOK(ep)'
  BY <1>1, <1>2, <1>3, <1>4 DEF IInv, LoopOK, ReceivedOK
<1>10. CountedOK(ep)'
  <2>1. Accounted(ep) \cap (cursor[ep] + 1 .. Oldest) = {} /\ Oldest \in Nat
    BY <1>2, <1>3 DEF IInv, LoopOK, ReceivedOK, Accounted
  <2>2. Cardinality(Lost(Oldest, Accounted(ep)))
          = Cardinality(Lost(cursor[ep], Accounted(ep))) + (Oldest - cursor[ep])
    BY <1>2, <2>1, LostMore
  <2>3. Accounted(ep)' = Accounted(ep)
    BY <1>1 DEF Accounted
  <2>4. bus_lagged'[ep] = Cardinality(Lost(cursor'[ep], Accounted(ep)'))
    BY <1>4, <1>5, <2>2, <2>3 DEF IInv, LoopOK, CountedOK
  <2> QED
    BY <1>1, <2>4 DEF IInv, LoopOK, CountedOK
<1>11. Domains' /\ LoopOK(ep)'
  BY <1>1, <1>7, <1>8, <1>9, <1>10 DEF IInv, Domains, LoopOK
<1>12. /\ writer' \in [Endpoint -> {"recv", "batch", "down"}]
       /\ msgs_out' \in [Endpoint -> Nat] /\ errors' \in [Endpoint -> Nat]
       /\ wire'[ep] \in Seq(Position) /\ buffered'[ep] \in Seq(Position)
       /\ handled'[ep] \in SUBSET Position /\ away'[ep] \in SUBSET Position
  BY <1>1 DEF IInv, TypeOK
<1> QED
  BY <1>1, <1>3, <1>4, <1>5, <1>6, <1>11, <1>12, StepKeeps

\* Some of the buffer gets onto the stream, or all of it at the end of a batch.
LEMMA FlushKeeps == ASSUME IInv, NEW ep \in Endpoint, FlushBatch(ep) \/ Spill(ep) PROVE IInv'
<1>1. /\ UNCHANGED <<sent, cursor, stats, reach, cancelled, handled, away>>
      /\ writer[ep] = "batch"
  BY DEF FlushBatch, Spill
<1>2. /\ wire[ep] \in Seq(Position) /\ buffered[ep] \in Seq(Position)
      /\ Len(buffered[ep]) \in Nat /\ Len(wire[ep]) \in Nat /\ left[ep] \in 0 .. BatchLimit
      /\ BatchLimit \in Nat /\ cursor[ep] \in Nat
  <2>1. wire[ep] \in Seq(Position) /\ buffered[ep] \in Seq(Position)
    BY DEF IInv, TypeOK
  <2> QED
    BY <2>1, TypesAt
<1>3. /\ wire'[ep] \in Seq(Position) /\ buffered'[ep] \in Seq(Position)
      /\ wire'[ep] \o buffered'[ep] = wire[ep] \o buffered[ep]
      /\ Len(wire'[ep]) + Len(buffered'[ep]) = Len(wire[ep]) + Len(buffered[ep])
      /\ Len(buffered'[ep]) <= Len(buffered[ep])
      /\ FlushBatch(ep) => buffered'[ep] = <<>>
      /\ DOMAIN wire' = Endpoint /\ DOMAIN buffered' = Endpoint
      /\ \A e \in Endpoint \ {ep} : wire'[e] = wire[e] /\ buffered'[e] = buffered[e]
  <2>1. CASE FlushBatch(ep)
    <3>1. /\ wire' = [wire EXCEPT ![ep] = @ \o buffered[ep]]
          /\ buffered' = [buffered EXCEPT ![ep] = <<>>]
      BY <2>1 DEF FlushBatch, ToTheWire
    <3>2. /\ wire'[ep] = wire[ep] \o buffered[ep] /\ buffered'[ep] = <<>>
          /\ DOMAIN wire' = Endpoint /\ DOMAIN buffered' = Endpoint
          /\ \A e \in Endpoint \ {ep} : wire'[e] = wire[e] /\ buffered'[e] = buffered[e]
      BY <3>1 DEF IInv, Domains
    <3>3. /\ wire[ep] \o buffered[ep] \in Seq(Position)
          /\ Len(wire[ep] \o buffered[ep]) = Len(wire[ep]) + Len(buffered[ep])
      BY <1>2, ConcatProperties
    <3>4. (wire[ep] \o buffered[ep]) \o <<>> = wire[ep] \o buffered[ep]
      BY <3>3, BufferNone
    <3>5. Len(buffered'[ep]) = 0 /\ buffered'[ep] \in Seq(Position)
      BY <3>2
    <3> QED
      BY <1>2, <3>2, <3>3, <3>4, <3>5
  <2>2. CASE ~FlushBatch(ep) /\ Spill(ep)
    <3>1. PICK n \in DOMAIN buffered[ep] :
            /\ wire' = [wire EXCEPT ![ep] = @ \o SubSeq(buffered[ep], 1, n)]
            /\ buffered' = [buffered EXCEPT ![ep] = SubSeq(@, n + 1, Len(@))]
      BY <2>2 DEF Spill
    <3>2. /\ wire'[ep] = wire[ep] \o SubSeq(buffered[ep], 1, n)
          /\ buffered'[ep] = SubSeq(buffered[ep], n + 1, Len(buffered[ep]))
          /\ DOMAIN wire' = Endpoint /\ DOMAIN buffered' = Endpoint
          /\ \A e \in Endpoint \ {ep} : wire'[e] = wire[e] /\ buffered'[e] = buffered[e]
      BY <3>1 DEF IInv, Domains
    <3> DEFINE v == wire[ep]
               b == buffered[ep]
    <3>3. v \in Seq(Position) /\ b \in Seq(Position) /\ n \in DOMAIN b
      BY <1>2
    <3>4. /\ wire'[ep] = v \o SubSeq(b, 1, n) /\ buffered'[ep] = SubSeq(b, n + 1, Len(b))
      BY <3>2
    <3> HIDE DEF v, b
    <3>5. /\ v \o SubSeq(b, 1, n) \in Seq(Position) /\ SubSeq(b, n + 1, Len(b)) \in Seq(Position)
          /\ Len(v \o SubSeq(b, 1, n)) + Len(SubSeq(b, n + 1, Len(b))) = Len(v) + Len(b)
          /\ Len(SubSeq(b, n + 1, Len(b))) <= Len(b)
          /\ (v \o SubSeq(b, 1, n)) \o SubSeq(b, n + 1, Len(b)) = v \o b
      <4> DEFINE S == Position
      <4>1. v \in Seq(S) /\ b \in Seq(S) /\ n \in DOMAIN b
        BY <3>3
      <4> HIDE DEF S
      <4>2. Spilled(S, v, b, SubSeq(b, 1, n), SubSeq(b, n + 1, Len(b)))
        BY <4>1, BufferLess
      <4> QED
        BY <4>2 DEF Spilled, S
    <3>6. /\ wire'[ep] \in Seq(Position) /\ buffered'[ep] \in Seq(Position)
          /\ Len(wire'[ep]) + Len(buffered'[ep]) = Len(v) + Len(b)
          /\ Len(buffered'[ep]) <= Len(b)
          /\ wire'[ep] \o buffered'[ep] = v \o b
      BY <3>4, <3>5
    <3> QED
      BY <2>2, <3>2, <3>6 DEF v, b
  <2> QED
    BY <2>1, <2>2
<1>4. /\ writer' \in [Endpoint -> {"recv", "batch", "down"}]
      /\ left' \in [Endpoint -> 0 .. BatchLimit]
      /\ writer'[ep] # "down" /\ (FlushBatch(ep) \/ (writer'[ep] = "batch" /\ left'[ep] = left[ep]))
      /\ FlushBatch(ep) => writer'[ep] = "recv"
      /\ \A e \in Endpoint \ {ep} : writer'[e] = writer[e] /\ left'[e] = left[e]
  <2>1. writer \in [Endpoint -> {"recv", "batch", "down"}] /\ left \in [Endpoint -> 0 .. BatchLimit]
    BY DEF IInv, TypeOK
  <2>2. CASE FlushBatch(ep)
    <3>1. writer' = [writer EXCEPT ![ep] = "recv"] /\ left' = [left EXCEPT ![ep] = 0]
      BY <2>2 DEF FlushBatch
    <3> QED
      BY <1>2, <2>1, <2>2, <3>1
  <2>3. CASE ~FlushBatch(ep)
    <3>1. UNCHANGED <<writer, left>>
      BY <2>3 DEF Spill
    <3> QED
      BY <1>1, <2>1, <2>3, <3>1
  <2> QED
    BY <2>2, <2>3
<1>5. \A e \in Endpoint \ {ep} : Same(e)
  BY <1>1, <1>3, <1>4 DEF Same, stats
<1>6. BatchOK(ep)'
  <2>1. CASE FlushBatch(ep)
    BY <1>3, <1>4, <2>1 DEF BatchOK
  <2>2. CASE ~FlushBatch(ep)
    <3>1. Len(buffered[ep]) + left[ep] <= BatchLimit + 1
      BY <1>1 DEF IInv, LoopOK, BatchOK
    <3>2. Len(buffered'[ep]) \in Nat
      BY <1>3, LenProperties
    <3> QED
      BY <1>2, <1>3, <1>4, <2>2, <3>1, <3>2 DEF BatchOK
  <2> QED
    BY <2>1, <2>2
<1>7. WrittenOK(ep)'
  <2>1. Out(ep)' = Out(ep) /\ cursor'[ep] \in Nat /\ cursor[ep] <= cursor'[ep]
    BY <1>1, <1>2, <1>3 DEF Out
  <2> QED
    BY <1>1, <2>1, OldIsWritten
<1>8. ReceivedOK(ep)' /\ CountedOK(ep)'
  BY <1>1, <1>3, <1>4 DEF IInv, LoopOK, ReceivedOK, CountedOK, Accounted, stats
<1>9. Domains' /\ LoopOK(ep)'
  BY <1>1, <1>3, <1>6, <1>7, <1>8 DEF IInv, Domains, LoopOK
<1>10. /\ cursor' \in [Endpoint -> 0 .. Len(sent)]
       /\ msgs_out' \in [Endpoint -> Nat] /\ errors' \in [Endpoint -> Nat]
       /\ bus_lagged' \in [Endpoint -> Nat]
       /\ handled'[ep] \in SUBSET Position /\ away'[ep] \in SUBSET Position
  BY <1>1 DEF IInv, TypeOK, stats
<1> QED
  BY <1>1, <1>3, <1>4, <1>5, <1>9, <1>10, StepKeeps
\* The loop ends, with what is in its buffer: on its own, or over a message that it has
\* just received.
LEMMA EndKeeps ==
  ASSUME IInv, NEW ep \in Endpoint, writer[ep] # "down", End(ep, cursor'[ep]),
         \/ UNCHANGED <<cursor, handled>>
         \/ /\ CanReceive(ep) /\ TakeNext(ep)
            /\ handled' = [handled EXCEPT ![ep] = @ \cup {NextPosition(ep)}],
         errors' \in [Endpoint -> Nat]
  PROVE  IInv'
<1>1. /\ writer' = [writer EXCEPT ![ep] = "down"] /\ left' = [left EXCEPT ![ep] = 0]
      /\ buffered' = [buffered EXCEPT ![ep] = <<>>]
      /\ away' = [away EXCEPT ![ep] = @ \cup ((cursor'[ep] + 1) .. Len(sent))]
      /\ UNCHANGED <<sent, wire, msgs_out, bus_lagged, reach, cancelled>>
  BY DEF End
<1>2. /\ Len(sent) \in Nat /\ cursor[ep] \in Nat /\ cursor[ep] <= Len(sent)
      /\ Len(buffered[ep]) \in Nat /\ Len(wire[ep]) \in Nat /\ msgs_out[ep] \in Nat
      /\ BatchLimit \in Nat /\ wire[ep] \in Seq(Nat)
  BY TypesAt
<1>3. /\ cursor' \in [Endpoint -> 0 .. Len(sent)]
      /\ cursor'[ep] = cursor[ep] \/ cursor'[ep] = cursor[ep] + 1
      /\ \A e \in Endpoint \ {ep} : cursor'[e] = cursor[e]
  <2>1. cursor \in [Endpoint -> 0 .. Len(sent)]
    BY DEF IInv, TypeOK
  <2>2. CASE UNCHANGED cursor
    BY <2>1, <2>2
  <2>3. CASE CanReceive(ep) /\ TakeNext(ep)
    <3>1. cursor[ep] + 1 \in 0 .. Len(sent) /\ cursor' = [cursor EXCEPT ![ep] = @ + 1]
      BY <1>2, <2>3 DEF CanReceive, TakeNext
    <3> QED
      BY <2>1, <3>1
  <2> QED
    BY <2>2, <2>3
<1>4. /\ DOMAIN handled' = Endpoint /\ \A e \in Endpoint \ {ep} : handled'[e] = handled[e]
      /\ \/ handled'[ep] = handled[ep] /\ cursor'[ep] = cursor[ep]
         \/ handled'[ep] = handled[ep] \cup {NextPosition(ep)} /\ cursor'[ep] = cursor[ep] + 1
  BY DEF IInv, TypeOK, Domains, TakeNext
<1>5. /\ writer' \in [Endpoint -> {"recv", "batch", "down"}] /\ writer'[ep] = "down"
      /\ left' \in [Endpoint -> 0 .. BatchLimit]
      /\ DOMAIN buffered' = Endpoint /\ buffered'[ep] = <<>>
      /\ DOMAIN away' = Endpoint /\ away'[ep] = away[ep] \cup ((cursor'[ep] + 1) .. Len(sent))
      /\ \A e \in Endpoint \ {ep} :
           /\ writer'[e] = writer[e] /\ left'[e] = left[e]
           /\ buffered'[e] = buffered[e] /\ away'[e] = away[e]
  <2>1. /\ writer \in [Endpoint -> {"recv", "batch", "down"}] /\ left \in [Endpoint -> 0 .. BatchLimit]
        /\ 0 \in 0 .. BatchLimit
    BY <1>2 DEF IInv, TypeOK
  <2> QED
    BY <1>1, <2>1 DEF IInv, Domains
<1>6. \A e \in Endpoint \ {ep} : Same(e)
  BY <1>1, <1>3, <1>4, <1>5 DEF Same
<1>7. cursor'[ep] \in Nat /\ cursor[ep] <= cursor'[ep] /\ cursor'[ep] <= Len(sent)
  BY <1>2, <1>3
<1>8. handled[ep] \in SUBSET (1 .. cursor[ep]) /\ away[ep] \subseteq 1 .. cursor[ep]
  BY DEF IInv, LoopOK, ReceivedOK
<1>9. BatchOK(ep)'
  BY <1>5 DEF BatchOK
<1>10. WrittenOK(ep)'
  <2>1. Out(ep)' = wire[ep]
    BY <1>1, <1>2, <1>5, BufferNone DEF Out
  <2> QED
    BY <1>1, <1>7, <2>1, OldIsWritten
<1>11. ReceivedOK(ep)'
  <2>1. handled'[ep] \subseteq 1 .. cursor'[ep]
    BY <1>2, <1>4, <1>8 DEF NextPosition
  <2> QED
    BY <1>1, <1>5, <2>1 DEF ReceivedOK
<1>12. CountedOK(ep)'
  <2>1. bus_lagged'[ep] = Cardinality(Lost(cursor'[ep], Accounted(ep)'))
    <3>1. \A q \in 1 .. cursor[ep] : q \in Accounted(ep)' <=> q \in Accounted(ep)
      <4> TAKE q \in 1 .. cursor[ep]
      <4>1. q \in handled'[ep] <=> q \in handled[ep]
        BY <1>2, <1>4 DEF NextPosition
      <4>2. q \in away'[ep] <=> q \in away[ep]
        BY <1>2, <1>5, <1>7
      <4> QED
        BY <4>1, <4>2 DEF Accounted
    <3>2. cursor[ep] + 1 .. cursor'[ep] \subseteq Accounted(ep)'
      BY <1>2, <1>4 DEF Accounted, NextPosition
    <3> QED
      BY <1>1, <1>7, <3>1, <3>2, NothingLost
  <2>2. Cardinality(handled[ep]) \in Nat /\ Cardinality(handled'[ep]) \in Nat
        /\ Cardinality(handled[ep]) <= Cardinality(handled'[ep])
    <3>1. handled'[ep] = handled[ep]
          \/ Cardinality(handled'[ep]) = Cardinality(handled[ep]) + 1
      BY <1>4, OneReceived
    <3>2. Cardinality(handled[ep]) \in Nat
      BY HandledIsFinite
    <3> QED
      BY <3>1, <3>2
  <2>3. Len(wire[ep]) + Len(buffered[ep]) <= msgs_out[ep] /\ msgs_out[ep] <= Cardinality(handled[ep])
    BY DEF IInv, LoopOK, CountedOK
  <2>4. Len(wire[ep]) + 0 <= msgs_out[ep] /\ msgs_out[ep] <= Cardinality(handled'[ep])
    <3> DEFINE w == Len(wire[ep])
               b == Len(buffered[ep])
               h == Cardinality(handled[ep])
               i == Cardinality(handled'[ep])
    <3>1. /\ w \in Nat /\ b \in Nat /\ msgs_out[ep] \in Nat /\ h \in Nat /\ i \in Nat /\ h <= i
          /\ w + b <= msgs_out[ep] /\ msgs_out[ep] <= h
      BY <1>2, <2>2, <2>3
    <3> HIDE DEF w, b, h, i
    <3>2. w + 0 <= msgs_out[ep] /\ msgs_out[ep] <= i
      BY <3>1
    <3> QED
      BY <3>2 DEF w, i
  <2>5. wire'[ep] = wire[ep] /\ Len(buffered'[ep]) = 0 /\ msgs_out'[ep] = msgs_out[ep]
    BY <1>1, <1>5
  <2> QED
    BY <2>1, <2>4, <2>5 DEF CountedOK
<1>13. Domains' /\ LoopOK(ep)'
  BY <1>1, <1>4, <1>5, <1>9, <1>10, <1>11, <1>12 DEF IInv, Domains, LoopOK
<1>14. /\ msgs_out' \in [Endpoint -> Nat] /\ bus_lagged' \in [Endpoint -> Nat]
       /\ wire'[ep] \in Seq(Position) /\ buffered'[ep] \in Seq(Position)
  BY <1>1, <1>5 DEF IInv, TypeOK
<1>15. handled'[ep] \in SUBSET Position /\ away'[ep] \in SUBSET Position
  BY <1>2, <1>3, <1>4, <1>5, <1>7, <1>8 DEF Position, NextPosition
<1> QED
  BY <1>1, <1>3, <1>5, <1>6, <1>13, <1>14, <1>15, StepKeeps

LEMMA EndsKeep ==
  ASSUME IInv, NEW ep \in Endpoint,
         WriteFails(ep) \/ FlushFails(ep) \/ ReadEnds(ep) \/ EndCancelled(ep)
  PROVE  IInv'
<1>1. errors' \in [Endpoint -> Nat]
  <2>1. errors \in [Endpoint -> Nat] /\ errors[ep] + 1 \in Nat
    BY DEF IInv, TypeOK
  <2>2. errors' = errors \/ errors' = [errors EXCEPT ![ep] = @ + 1]
    BY DEF WriteFails, FlushFails, ReadEnds, EndCancelled, CountError
  <2> QED
    BY <2>1, <2>2
<1>2. writer[ep] # "down"
  BY DEF WriteFails, FlushFails, ReadEnds, EndCancelled
<1>3. CASE WriteFails(ep)
  <2>1. /\ CanReceive(ep) /\ TakeNext(ep) /\ End(ep, NextPosition(ep))
        /\ handled' = [handled EXCEPT ![ep] = @ \cup {NextPosition(ep)}]
    BY <1>3 DEF WriteFails
  <2>2. cursor'[ep] = NextPosition(ep)
    BY <2>1 DEF TakeNext, NextPosition, IInv, TypeOK
  <2> QED
    BY <1>1, <1>2, <2>1, <2>2, EndKeeps
<1>4. CASE FlushFails(ep) \/ ReadEnds(ep) \/ EndCancelled(ep)
  <2>1. End(ep, cursor[ep]) /\ UNCHANGED <<cursor, handled>>
    BY <1>4 DEF FlushFails, ReadEnds, EndCancelled
  <2> QED
    BY <1>1, <1>2, <2>1, EndKeeps
<1> QED
  BY <1>3, <1>4
\* What was sent while the endpoint was away is behind the new cursor, and accounted for.
LEMMA RestartKeeps == ASSUME IInv, NEW ep \in Endpoint, Restart(ep) PROVE IInv'
<1>1. /\ writer[ep] = "down" /\ writer' = [writer EXCEPT ![ep] = "recv"]
      /\ cursor' = [cursor EXCEPT ![ep] = Len(sent)]
      /\ UNCHANGED <<sent, left, buffered, wire, msgs_out, bus_lagged, errors, reach, cancelled,
                     handled, away>>
  BY DEF Restart, Subscribe, stats
<1>2. /\ Len(sent) \in Nat /\ cursor[ep] \in Nat /\ cursor[ep] <= Len(sent)
  BY TypesAt
<1>3. /\ cursor' \in [Endpoint -> 0 .. Len(sent)] /\ cursor'[ep] = Len(sent)
      /\ \A e \in Endpoint \ {ep} : cursor'[e] = cursor[e]
  BY <1>1, <1>2 DEF IInv, TypeOK
<1>4. /\ writer' \in [Endpoint -> {"recv", "batch", "down"}] /\ writer'[ep] = "recv"
      /\ \A e \in Endpoint \ {ep} : writer'[e] = writer[e]
  BY <1>1 DEF IInv, TypeOK
<1>5. \A e \in Endpoint \ {ep} : Same(e)
  BY <1>1, <1>3, <1>4 DEF Same
<1>6. BatchOK(ep)'
  BY <1>1, <1>4 DEF IInv, LoopOK, BatchOK
<1>7. WrittenOK(ep)'
  <2>1. Out(ep)' = Out(ep) /\ cursor'[ep] \in Nat /\ cursor[ep] <= cursor'[ep]
    BY <1>1, <1>2, <1>3 DEF Out
  <2> QED
    BY <1>1, <2>1, OldIsWritten
<1>8. ReceivedOK(ep)'
  <2>1. handled[ep] \in SUBSET Position /\ away[ep] \in SUBSET Position
    BY DEF IInv, TypeOK
  <2> QED
    BY <1>1, <1>3, <1>4, <2>1 DEF ReceivedOK, Position
<1>9. CountedOK(ep)'
  <2>1. /\ Accounted(ep)' = Accounted(ep) /\ cursor[ep] + 1 .. cursor'[ep] \subseteq Accounted(ep)
        /\ cursor'[ep] \in Nat /\ cursor[ep] <= cursor'[ep]
    BY <1>1, <1>2, <1>3 DEF IInv, LoopOK, ReceivedOK, Accounted
  <2>2. bus_lagged'[ep] = Cardinality(Lost(cursor'[ep], Accounted(ep)'))
    BY <1>1, <2>1, NothingLost
  <2> QED
    BY <1>1, <2>2 DEF IInv, LoopOK, CountedOK
<1>10. Domains' /\ LoopOK(ep)'
  BY <1>1, <1>6, <1>7, <1>8, <1>9 DEF IInv, Domains, LoopOK
<1>11. /\ left' \in [Endpoint -> 0 .. BatchLimit] /\ msgs_out' \in [Endpoint -> Nat]
       /\ bus_lagged' \in [Endpoint -> Nat] /\ errors' \in [Endpoint -> Nat]
       /\ wire'[ep] \in Seq(Position) /\ buffered'[ep] \in Seq(Position)
       /\ handled'[ep] \in SUBSET Position /\ away'[ep] \in SUBSET Position
  BY <1>1 DEF IInv, TypeOK
<1> QED
  BY <1>1, <1>3, <1>4, <1>5, <1>10, <1>11, StepKeeps

-----------------------------------------------------------------------------
(* The steps that concern everyone.                                        *)

LEMMA PublishKeeps == ASSUME IInv, NEW m \in Message, Publish(m) PROVE IInv'
<1>1. /\ sent' = Append(sent, m)
      /\ away' = [ep \in Endpoint |->
                    IF writer[ep] = "down" THEN away[ep] \cup {Len(sent) + 1} ELSE away[ep]]
      /\ UNCHANGED <<cursor, writer, left, buffered, wire, msgs_out, bus_lagged, errors, reach,
                     cancelled, handled>>
  BY DEF Publish, loopVars, stats
<1>2. sent' \in Seq(Message) /\ Len(sent) \in Nat /\ Len(sent') = Len(sent) + 1
  BY <1>1, AppendProperties, LenProperties DEF IInv, TypeOK
<1>3. Position' = Position \cup {Len(sent) + 1} /\ Position \subseteq Position'
  BY <1>2 DEF Position
<1>4. ASSUME NEW ep \in Endpoint
      PROVE  /\ buffered'[ep] \in Seq(Position') /\ wire'[ep] \in Seq(Position')
             /\ Len(buffered'[ep]) <= BatchLimit + 1
             /\ handled'[ep] \in SUBSET Position' /\ away'[ep] \in SUBSET Position'
  <2>1. /\ buffered[ep] \in Seq(Position) /\ wire[ep] \in Seq(Position)
        /\ Len(buffered[ep]) <= BatchLimit + 1
        /\ handled[ep] \in SUBSET Position /\ away[ep] \in SUBSET Position
    BY DEF IInv, TypeOK
  <2>2. buffered[ep] \in Seq(Position') /\ wire[ep] \in Seq(Position')
    BY <1>3, <2>1, SeqMonotonic
  <2> QED
    BY <1>1, <1>3, <2>1, <2>2
<1>5. cursor' \in [Endpoint -> 0 .. Len(sent')]
  <2>1. 0 .. Len(sent) \subseteq 0 .. Len(sent') /\ cursor \in [Endpoint -> 0 .. Len(sent)]
    BY <1>2 DEF IInv, TypeOK
  <2> QED
    BY <1>1, <2>1
<1>6. TypeOK'
  BY <1>1, <1>2, <1>4, <1>5 DEF IInv, TypeOK
<1>7. Domains'
  BY <1>1 DEF IInv, Domains
<1>8. ASSUME NEW ep \in Endpoint PROVE LoopOK(ep)'
  <2>1. cursor[ep] \in Nat /\ cursor[ep] <= Len(sent) /\ cursor'[ep] = cursor[ep]
    BY <1>1, TypesAt
  <2>2. Out(ep)' = Out(ep)
    BY <1>1 DEF Out
  <2>3. BatchOK(ep)'
    BY <1>1 DEF IInv, LoopOK, BatchOK
  <2>4. WrittenOK(ep)'
    BY <1>1, <2>1, <2>2, OldIsWritten
  <2>5. away'[ep] = IF writer[ep] = "down" THEN away[ep] \cup {Len(sent) + 1} ELSE away[ep]
    BY <1>1
  <2>6. ReceivedOK(ep)'
    <3>1. /\ handled[ep] \subseteq 1 .. cursor[ep]
          /\ writer[ep] # "down" => away[ep] \subseteq 1 .. cursor[ep]
          /\ writer[ep] = "down" => (cursor[ep] + 1) .. Len(sent) \subseteq away[ep]
      BY DEF IInv, LoopOK, ReceivedOK
    <3>2. (cursor[ep] + 1) .. Len(sent') = ((cursor[ep] + 1) .. Len(sent)) \cup {Len(sent) + 1}
      BY <1>2, <2>1
    <3> QED
      BY <1>1, <2>1, <2>5, <3>1, <3>2 DEF ReceivedOK
  <2>7. CountedOK(ep)'
    <3>1. \A q \in 1 .. cursor[ep] : q \in Accounted(ep)' <=> q \in Accounted(ep)
      BY <1>1, <1>2, <2>1, <2>5 DEF Accounted
    <3>2. cursor[ep] + 1 .. cursor'[ep] \subseteq Accounted(ep)' /\ cursor[ep] <= cursor'[ep]
      BY <2>1
    <3>3. bus_lagged'[ep] = Cardinality(Lost(cursor'[ep], Accounted(ep)'))
      BY <1>1, <2>1, <3>1, <3>2, NothingLost
    <3> QED
      BY <1>1, <3>3 DEF IInv, LoopOK, CountedOK
  <2> QED
    BY <2>3, <2>4, <2>6, <2>7 DEF LoopOK
<1> QED
  BY <1>6, <1>7, <1>8 DEF IInv

LEMMA OthersKeep == ASSUME IInv, ChangeRoutes \/ Cancel \/ UNCHANGED vars PROVE IInv'
<1>1. /\ UNCHANGED <<sent, cursor, writer, left, buffered, wire, msgs_out, bus_lagged, errors,
                     handled, away>>
      /\ reach' \in SUBSET Endpoint /\ cancelled' \in BOOLEAN
  BY DEF ChangeRoutes, Cancel, vars, loopVars, stats, IInv, TypeOK
<1>2. TypeOK' /\ Domains'
  BY <1>1 DEF IInv, TypeOK, Domains, Position
<1>3. \A e \in Endpoint : LoopOK(e)'
  BY <1>1, SameKeeps DEF Same
<1> QED
  BY <1>2, <1>3 DEF IInv

-----------------------------------------------------------------------------

LEMMA InitIInv == Init => IInv
<1> SUFFICES ASSUME Init PROVE IInv
  OBVIOUS
<1>1. Len(sent) = 0 /\ sent \in Seq(Message) /\ BatchLimit \in Nat /\ Endpoint \subseteq Source
  BY StreamAssumption DEF Init, StreamAssumption
<1>2. ASSUME NEW ep \in Endpoint
      PROVE  /\ wire[ep] = <<>> /\ buffered[ep] = <<>> /\ writer[ep] = "recv"
             /\ cursor[ep] = 0 /\ left[ep] = 0 /\ handled[ep] = {} /\ away[ep] = {}
             /\ msgs_out[ep] = 0 /\ bus_lagged[ep] = 0
  BY DEF Init
<1>3. TypeOK /\ Domains
  <2>1. Domains
    BY DEF Init, Domains
  <2>2. /\ cursor \in [Endpoint -> 0 .. Len(sent)]
        /\ writer \in [Endpoint -> {"recv", "batch", "down"}]
        /\ left \in [Endpoint -> 0 .. BatchLimit]
        /\ msgs_out \in [Endpoint -> Nat] /\ bus_lagged \in [Endpoint -> Nat]
        /\ errors \in [Endpoint -> Nat] /\ reach \in SUBSET Endpoint /\ cancelled \in BOOLEAN
    <3>1. 0 \in 0 .. Len(sent) /\ 0 \in 0 .. BatchLimit
      BY <1>1
    <3> QED
      BY <3>1 DEF Init
  <2>3. \A ep \in Endpoint :
          /\ buffered[ep] \in Seq(Position) /\ wire[ep] \in Seq(Position)
          /\ Len(buffered[ep]) <= BatchLimit + 1
          /\ handled[ep] \in SUBSET Position /\ away[ep] \in SUBSET Position
    <3>1. <<>> \in Seq(Position) /\ Len(<<>>) = 0 /\ 0 <= BatchLimit + 1
      BY <1>1, EmptySeq
    <3> QED
      BY <1>2, <3>1
  <2> QED
    BY <1>1, <2>1, <2>2, <2>3 DEF TypeOK
<1>4. ASSUME NEW ep \in Endpoint PROVE LoopOK(ep)
  <2>1. Out(ep) = <<>> /\ DOMAIN Out(ep) = {} /\ Len(wire[ep]) = 0 /\ Len(buffered[ep]) = 0
    <3>1. Out(ep) = <<>> \o <<>> /\ <<>> \in Seq(Nat)
      BY <1>2 DEF Out
    <3>2. <<>> \o <<>> = <<>>
      BY <3>1, BufferNone
    <3> QED
      BY <1>2, <3>1, <3>2
  <2>2. Lost(cursor[ep], Accounted(ep)) = {}
    BY <1>2 DEF Lost
  <2>3. BatchOK(ep) /\ WrittenOK(ep) /\ ReceivedOK(ep)
    BY <1>1, <1>2, <2>1 DEF BatchOK, WrittenOK, ReceivedOK, Increasing, UpTo
  <2>4. CountedOK(ep)
    <3>1. Cardinality({}) = 0
      BY FS_EmptySet
    <3>2. bus_lagged[ep] = Cardinality(Lost(cursor[ep], Accounted(ep)))
      BY <1>2, <2>2, <3>1
    <3>3. Len(wire[ep]) + Len(buffered[ep]) <= msgs_out[ep]
      BY <1>2, <2>1
    <3>4. msgs_out[ep] <= Cardinality(handled[ep])
      <4>1. Cardinality(handled[ep]) = 0 /\ msgs_out[ep] = 0
        BY <1>2, <3>1
      <4> QED
        BY <4>1
    <3> QED
      BY <3>2, <3>3, <3>4 DEF CountedOK
  <2> QED
    BY <2>3, <2>4 DEF LoopOK
<1> QED
  BY <1>3, <1>4 DEF IInv

LEMMA NextIInv == IInv /\ [Next]_vars => IInv'
<1> SUFFICES ASSUME IInv, [Next]_vars PROVE IInv'
  OBVIOUS
<1>1. ASSUME NEW m \in Message, Publish(m) PROVE IInv'
  BY <1>1, PublishKeeps
<1>2. ASSUME NEW ep \in Endpoint, Writer(ep) \/ Spill(ep) \/ Restart(ep) PROVE IInv'
  BY <1>2, LaggedKeeps, ReceiveKeeps, FlushKeeps, RestartKeeps DEF Writer
<1>3. ASSUME NEW ep \in Endpoint,
             WriteFails(ep) \/ FlushFails(ep) \/ ReadEnds(ep) \/ EndCancelled(ep)
      PROVE  IInv'
  BY <1>3, EndsKeep
<1> QED
  BY <1>1, <1>2, <1>3, OthersKeep DEF Next

LEMMA Invariance == Spec => []IInv
BY InitIInv, NextIInv, PTL DEF Spec

\* A batch never exceeds BATCH_SIZE (stream_loop.rs:82), and the buffers and the streams
\* hold messages of the bus.
THEOREM TypeCorrect == Spec => []TypeOK
<1>1. IInv => TypeOK
  BY DEF IInv
<1> QED
  BY <1>1, Invariance, PTL

\* A stream carries the messages in the order of the bus, none twice, and none that check_outgoing
\* rejects for good, over lags, batches, partial writes and restarts.
THEOREM OrderKept == Spec => []InOrderOnce
<1>1. IInv => InOrderOnce
  BY DEF IInv, LoopOK, WrittenOK, Increasing, Out, InOrderOnce
<1> QED
  BY <1>1, Invariance, PTL

\* The statistics miss no message that the bus overran, and count none that was not written.
THEOREM EveryMessageCounted == Spec => []CountersAccount
<1>1. IInv => CountersAccount
  BY DEF IInv, LoopOK, CountedOK, Accounted, Lost, CountersAccount
<1> QED
  BY <1>1, Invariance, PTL

\* The writer flushes its buffer before it waits for the next message.
THEOREM BufferFlushed == Spec => []FlushedBeforeWaiting
<1>1. IInv => FlushedBeforeWaiting
  BY DEF IInv, LoopOK, BatchOK, FlushedBeforeWaiting
<1> QED
  BY <1>1, Invariance, PTL
=============================================================================
