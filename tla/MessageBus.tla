----------------------------- MODULE MessageBus -----------------------------
(***************************************************************************)
(* The message bus: a tokio broadcast channel.  A message is known by its  *)
(* position in the order in which messages were sent.  The channel keeps   *)
(* the last BusCapacity messages; a receiver is a cursor, the number of    *)
(* messages it is past.  A receiver that has fallen behind what is kept is *)
(* told how many it missed, once, and goes on with the oldest kept.        *)
(***************************************************************************)
EXTENDS Integers, Sequences

CONSTANTS
  Receiver,     \* whoever may subscribe
  Message,      \* what is sent
  BusCapacity   \* messages the channel keeps (general.bus_capacity, rounded
                \* up to a power of two by the channel)

ASSUME BusAssumption == BusCapacity \in Nat \ {0}

VARIABLES
  sent,     \* every message sent, in order (the channel keeps a suffix)
  cursor    \* [Receiver -> how many of them it is past]

Oldest == IF Len(sent) > BusCapacity THEN Len(sent) - BusCapacity ELSE 0

IsEmpty(r) == cursor[r] = Len(sent)
HasLagged(r) == cursor[r] < Oldest
CanReceive(r) == Oldest <= cursor[r] /\ cursor[r] < Len(sent)

\* The position of the next message that r receives.
NextPosition(r) == cursor[r] + 1
Missed(r) == Oldest - cursor[r]

\* The three ways in which a cursor moves.
TakeNext(r) == cursor' = [cursor EXCEPT ![r] = @ + 1]
SkipMissed(r) == cursor' = [cursor EXCEPT ![r] = Oldest]
\* Mutant of Subscribe: what the channel still keeps is received again.
SubscribeReplaying(r) == cursor' = [cursor EXCEPT ![r] = Oldest]
Subscribe(r) == cursor' = [cursor EXCEPT ![r] = Len(sent)]
=============================================================================
