----------------------------- MODULE StreamLoop -----------------------------
(***************************************************************************)
(* run_stream_loop (endpoint_core/stream_loop.rs), which serves every TCP  *)
(* connection and serial port: a reader that publishes what comes in and a *)
(* writer that takes messages from the bus, checks each of them, and       *)
(* writes the accepted ones through a buffer that it flushes at the end of *)
(* each batch.  A loop ends on end of file, on an I/O error or when it is  *)
(* cancelled, at whichever await its writer is; its supervisor then starts *)
(* another one, with a new subscription.                                   *)
(***************************************************************************)
EXTENDS MessageBus, FiniteSets, SequencesExt

CONSTANTS
  Endpoint,     \* endpoints served by a stream loop: the receivers
  Source,       \* all endpoints, those of other transports included
  BatchLimit,   \* BATCH_SIZE
  Filtered,     \* <<endpoint, message>>: dropped by the endpoint's out filters
  MaxSent,      \* bound: how many messages are published
  MaxErrors     \* bound: how often the writer of an endpoint fails

ASSUME StreamAssumption ==
  /\ Receiver = Endpoint
  /\ Endpoint \subseteq Source
  /\ Message \subseteq [source : Source, targeted : BOOLEAN]
  /\ BatchLimit \in Nat /\ MaxSent \in Nat /\ MaxErrors \in Nat

VARIABLES
  writer,     \* where each writer is; "down" while there is no loop
  left,       \* how many try_recv the batch has left
  buffered,   \* positions written into the BufWriter and not flushed
  wire,       \* positions that have reached the stream
  msgs_out, bus_lagged, errors,   \* the EndpointStats, kept over restarts
  reach,      \* endpoints should_send accepts for targeted messages just now
  cancelled,
  handled,    \* history: positions each endpoint has received from the bus
  away        \* history: positions sent while it had no receiver, or
              \* unread when its receiver was dropped

loopVars == <<writer, left, buffered, wire>>
stats    == <<msgs_out, bus_lagged, errors>>
vars     == <<sent, cursor, loopVars, stats, reach, cancelled, handled, away>>

Position == 1 .. Len(sent)

-----------------------------------------------------------------------------

Init ==
  /\ sent = <<>>
  /\ cursor = [ep \in Endpoint |-> 0]
  /\ writer = [ep \in Endpoint |-> "recv"]
  /\ left = [ep \in Endpoint |-> 0]
  /\ buffered = [ep \in Endpoint |-> <<>>]
  /\ wire = [ep \in Endpoint |-> <<>>]
  /\ msgs_out = [ep \in Endpoint |-> 0]
  /\ bus_lagged = [ep \in Endpoint |-> 0]
  /\ errors = [ep \in Endpoint |-> 0]
  /\ reach = {}
  /\ cancelled = FALSE
  /\ handled = [ep \in Endpoint |-> {}]
  /\ away = [ep \in Endpoint |-> {}]

\* A reader, or another transport, publishes a frame that has passed the filters
\* and the duplicate check.  (Endpoints hold receivers, so that send succeeds.)
Publish(m) ==
  /\ m.source \in Endpoint => writer[m.source] # "down"
  /\ Len(sent) < MaxSent
  /\ sent' = Append(sent, m)
  /\ away' = [ep \in Endpoint |->
                IF writer[ep] = "down" THEN away[ep] \cup {Len(sent) + 1} ELSE away[ep]]
  /\ UNCHANGED <<cursor, loopVars, stats, reach, cancelled, handled>>

\* EndpointCore::check_outgoing; should_send is answered by the routing table
\* as it is when the writer gets there.
CheckOutgoing(ep, m) ==
  /\ m.source # ep
  /\ <<ep, m>> \notin Filtered
  /\ m.targeted => ep \in reach

-----------------------------------------------------------------------------
(* The writer.                                                             *)

\* Mutant of CountLagged: one per report rather than the reported number.
CountReports(ep) == bus_lagged' = [bus_lagged EXCEPT ![ep] = @ + 1]
CountLagged(ep) == bus_lagged' = [bus_lagged EXCEPT ![ep] = @ + Missed(ep)]

\* recv() and try_recv() of a receiver that has lagged.
ReceiveLagged(ep) ==
  /\ HasLagged(ep)
  /\ CountLagged(ep)
  /\ SkipMissed(ep)
  /\ \/ writer[ep] = "recv" /\ UNCHANGED left
     \/ /\ writer[ep] = "batch" /\ left[ep] > 0
        /\ left' = [left EXCEPT ![ep] = @ - 1]
  /\ UNCHANGED <<sent, writer, buffered, wire, msgs_out, errors, reach, cancelled,
                 handled, away>>

\* Both take the next message, and write it if it is for this endpoint.
Write(ep) ==
  /\ buffered' = [buffered EXCEPT ![ep] = Append(@, NextPosition(ep))]
  /\ msgs_out' = [msgs_out EXCEPT ![ep] = @ + 1]

Receive(ep) ==
  /\ CanReceive(ep)
  /\ TakeNext(ep)
  /\ handled' = [handled EXCEPT ![ep] = @ \cup {NextPosition(ep)}]
  /\ UNCHANGED <<sent, wire, bus_lagged, errors, reach, cancelled, away>>

\* A first message that is not for this endpoint starts no batch.
ReceiveFirst(ep) ==
  /\ writer[ep] = "recv" /\ ~cancelled
  /\ Receive(ep)
  /\ IF CheckOutgoing(ep, sent[NextPosition(ep)])
       THEN /\ Write(ep)
            /\ writer' = [writer EXCEPT ![ep] = "batch"]
            /\ left' = [left EXCEPT ![ep] = BatchLimit]
       ELSE UNCHANGED <<writer, left, buffered, msgs_out>>

\* Mutant of ReceiveMore: the batch has no limit.
ReceiveUnlimited(ep) ==
  /\ writer[ep] = "batch"
  /\ Receive(ep)
  /\ UNCHANGED <<writer, left>>
  /\ IF CheckOutgoing(ep, sent[NextPosition(ep)])
       THEN Write(ep)
       ELSE UNCHANGED <<buffered, msgs_out>>

ReceiveMore(ep) ==
  /\ writer[ep] = "batch" /\ left[ep] > 0
  /\ Receive(ep)
  /\ left' = [left EXCEPT ![ep] = @ - 1]
  /\ UNCHANGED writer
  /\ IF CheckOutgoing(ep, sent[NextPosition(ep)])
       THEN Write(ep)
       ELSE UNCHANGED <<buffered, msgs_out>>

ToTheWire(ep) ==
  /\ wire' = [wire EXCEPT ![ep] = @ \o buffered[ep]]
  /\ buffered' = [buffered EXCEPT ![ep] = <<>>]

\* Mutant of FlushBatch: back to recv() without a flush.
ResumeUnflushed(ep) ==
  /\ writer[ep] = "batch" /\ (left[ep] = 0 \/ IsEmpty(ep))
  /\ writer' = [writer EXCEPT ![ep] = "recv"]
  /\ left' = [left EXCEPT ![ep] = 0]
  /\ UNCHANGED <<sent, cursor, buffered, wire, stats, reach, cancelled, handled, away>>

\* Mutant of FlushBatch: only a full batch is flushed.
FlushFullBatch(ep) ==
  /\ writer[ep] = "batch" /\ left[ep] = 0
  /\ ToTheWire(ep)
  /\ writer' = [writer EXCEPT ![ep] = "recv"]
  /\ UNCHANGED <<sent, cursor, left, stats, reach, cancelled, handled, away>>

FlushBatch(ep) ==
  /\ writer[ep] = "batch" /\ (left[ep] = 0 \/ IsEmpty(ep))
  /\ ToTheWire(ep)
  /\ writer' = [writer EXCEPT ![ep] = "recv"]
  /\ left' = [left EXCEPT ![ep] = 0]
  /\ UNCHANGED <<sent, cursor, stats, reach, cancelled, handled, away>>

\* The stream accepts some of what the BufWriter holds, when a frame does not
\* fit or while it is flushed.
Spill(ep) ==
  /\ writer[ep] = "batch"
  /\ \E n \in DOMAIN buffered[ep] :
       /\ wire' = [wire EXCEPT ![ep] = @ \o SubSeq(buffered[ep], 1, n)]
       /\ buffered' = [buffered EXCEPT ![ep] = SubSeq(@, n + 1, Len(@))]
  /\ UNCHANGED <<sent, cursor, writer, left, stats, reach, cancelled, handled, away>>

Writer(ep) ==
  ReceiveLagged(ep) \/ ReceiveFirst(ep) \/ ReceiveMore(ep) \/ FlushBatch(ep)

-----------------------------------------------------------------------------
(* The end of a loop: the receiver and the buffer are dropped.             *)

\* Mutant of End: the buffer outlives the loop.
EndKeepingBuffer(ep, past) ==
  /\ writer' = [writer EXCEPT ![ep] = "down"]
  /\ left' = [left EXCEPT ![ep] = 0]
  /\ away' = [away EXCEPT ![ep] = @ \cup ((past + 1) .. Len(sent))]
  /\ UNCHANGED <<sent, buffered, wire, msgs_out, bus_lagged, reach, cancelled>>

\* The loop of ep ends, its receiver past so many messages.
End(ep, past) ==
  /\ writer' = [writer EXCEPT ![ep] = "down"]
  /\ left' = [left EXCEPT ![ep] = 0]
  /\ buffered' = [buffered EXCEPT ![ep] = <<>>]
  /\ away' = [away EXCEPT ![ep] = @ \cup ((past + 1) .. Len(sent))]
  /\ UNCHANGED <<sent, wire, msgs_out, bus_lagged, reach, cancelled>>

CountError(ep) ==
  /\ errors[ep] < MaxErrors
  /\ errors' = [errors EXCEPT ![ep] = @ + 1]

\* write_all fails.  (The first frame of a batch fits the empty buffer, so only a
\* later one can meet the stream.)  That message is not counted as sent.
WriteFails(ep) ==
  /\ writer[ep] = "batch" /\ left[ep] > 0 /\ buffered[ep] # <<>>
  /\ CanReceive(ep)
  /\ CheckOutgoing(ep, sent[NextPosition(ep)])
  /\ TakeNext(ep)
  /\ handled' = [handled EXCEPT ![ep] = @ \cup {NextPosition(ep)}]
  /\ CountError(ep)
  /\ End(ep, NextPosition(ep))

FlushFails(ep) ==
  /\ writer[ep] = "batch" /\ (left[ep] = 0 \/ IsEmpty(ep))
  /\ CountError(ep)
  /\ End(ep, cursor[ep])
  /\ UNCHANGED <<cursor, handled>>

\* End of file, or an error of the reader, which is not counted.
ReadEnds(ep) ==
  /\ writer[ep] # "down"
  /\ End(ep, cursor[ep])
  /\ UNCHANGED <<cursor, errors, handled>>

\* The final select, or the check after recv().
EndCancelled(ep) ==
  /\ writer[ep] # "down" /\ cancelled
  /\ End(ep, cursor[ep])
  /\ UNCHANGED <<cursor, errors, handled>>

\* supervise, or the next connection: subscribe_bus gives a fresh receiver.
Restart(ep) ==
  /\ writer[ep] = "down" /\ ~cancelled
  /\ Subscribe(ep)
  /\ writer' = [writer EXCEPT ![ep] = "recv"]
  /\ UNCHANGED <<sent, left, buffered, wire, stats, reach, cancelled, handled, away>>

\* Routes are learned and forgotten while messages are under way.
ChangeRoutes ==
  /\ \E r \in SUBSET Endpoint : reach' = r
  /\ UNCHANGED <<sent, cursor, loopVars, stats, cancelled, handled, away>>

Cancel ==
  /\ ~cancelled /\ cancelled' = TRUE
  /\ UNCHANGED <<sent, cursor, loopVars, stats, reach, handled, away>>

Next ==
  \/ \E m \in Message : Publish(m)
  \/ \E ep \in Endpoint :
       \/ Writer(ep) \/ Spill(ep) \/ Restart(ep)
       \/ WriteFails(ep) \/ FlushFails(ep) \/ ReadEnds(ep) \/ EndCancelled(ep)
  \/ ChangeRoutes
  \/ Cancel

Spec == Init /\ [][Next]_vars

-----------------------------------------------------------------------------
(* Correctness.                                                            *)

\* The writers, the counters and the positions they deal in are well typed, and
\* a batch never exceeds its limit.
TypeOK ==
  /\ sent \in Seq(Message)
  /\ cursor \in [Endpoint -> 0 .. Len(sent)]
  /\ writer \in [Endpoint -> {"recv", "batch", "down"}]
  /\ left \in [Endpoint -> 0 .. BatchLimit]
  /\ \A ep \in Endpoint :
       /\ buffered[ep] \in Seq(Position) /\ wire[ep] \in Seq(Position)
       /\ Len(buffered[ep]) <= BatchLimit + 1
       /\ handled[ep] \in SUBSET Position /\ away[ep] \in SUBSET Position
  /\ msgs_out \in [Endpoint -> Nat] /\ bus_lagged \in [Endpoint -> Nat]
  /\ errors \in [Endpoint -> Nat]
  /\ reach \in SUBSET Endpoint
  /\ cancelled \in BOOLEAN

\* The counters account for every message, over all restarts: bus_lagged counts
\* exactly those that a live receiver was overrun by ("every transport's outgoing
\* path must surface them"), whether recv() or a batch's try_recv() reports them,
\* and msgs_out counts at least those that have been written.
CountersAccount ==
  \A ep \in Endpoint :
    /\ bus_lagged[ep] = Cardinality((1 .. cursor[ep]) \ (handled[ep] \cup away[ep]))
    /\ Len(wire[ep]) + Len(buffered[ep]) <= msgs_out[ep]
    /\ msgs_out[ep] <= Cardinality(handled[ep])

\* A stream carries the messages in the order of the bus and none of them twice,
\* over lags, batches, spills and restarts; none of them came from that endpoint
\* or is filtered there.
InOrderOnce ==
  \A ep \in Endpoint :
    LET out == wire[ep] \o buffered[ep]
    IN /\ \A i, j \in DOMAIN out : i < j => out[i] < out[j]
       /\ \A i \in DOMAIN out :
            sent[out[i]].source # ep /\ <<ep, sent[out[i]]>> \notin Filtered

\* No message waits in the buffer while the writer waits for the bus, where it
\* might stay until the next message comes.
FlushedBeforeWaiting ==
  \A ep \in Endpoint : writer[ep] # "batch" => buffered[ep] = <<>>

-----------------------------------------------------------------------------
(* Liveness.  A ready task is polled again, and the peer reads what it is  *)
(* sent (a stalled one blocks its writer, and the bus overruns it).        *)

Fairness ==
  \A ep \in Endpoint : WF_vars(Writer(ep)) /\ WF_vars(EndCancelled(ep))

LiveSpec == Spec /\ Fairness

\* Every message is settled for every endpoint: it was sent while the endpoint
\* was away, or it is past its cursor (received, or counted as missed) and not
\* left in its buffer.
EveryMessageSettled ==
  \A ep \in Endpoint, p \in 1 .. MaxSent :
    p \in Position ~>
      \/ p \in away[ep]
      \/ p <= cursor[ep] /\ p \notin ToSet(buffered[ep])
=============================================================================
