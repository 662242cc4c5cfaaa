------------------------------ MODULE Ingress -------------------------------
(***************************************************************************)
(* What comes in: the reader of a stream loop feeds a parser with what it  *)
(* reads, however the stream is cut; a UDP endpoint takes one frame of     *)
(* each datagram.  handle_incoming_frame (endpoint_core.rs) filters the    *)
(* frame, drops it if another link brought it before, tells the routing    *)
(* updater who sent it, and publishes it.  Links differ in their filters   *)
(* and share the memory of duplicates, which forgets after a while.        *)
(***************************************************************************)
EXTENDS Framing, FiniteSets

CONSTANTS
  Link, Datagrams,    \* the links, and those of them that are UDP endpoints
  Carries,            \* [Link -> the frames that its peers send]
  Sender,             \* [Frame -> [sys, comp]]
  MsgId,              \* [Frame -> message id]
  Target,             \* [Frame -> [fields, sys, comp]]: "both", "system" or "none"
  Filters,            \* [Link -> [allow_msg, block_msg, allow_comp, ...]]
  ReadSize,           \* how much one read returns at most, less than the buffer holds
  MaxSent, MaxLapses  \* bounds: frames sent, digests forgotten

\* Ids are bytes; the links are those of a configuration.
IngressAssumption ==
  /\ Version \in [Frame -> {1, 2}] /\ FalseStart \in [Frame -> 0 .. 2]
  /\ BufferMax \in Nat /\ ReadSize \in 1 .. BufferMax
  /\ IsFiniteSet(Link) /\ Datagrams \subseteq Link
  /\ Carries \in [Link -> SUBSET Frame]
  /\ Sender \in [Frame -> [sys : 0 .. 255, comp : 0 .. 255]]
  /\ Target \in [Frame -> [fields : {"both", "system", "none"}, sys : 0 .. 255, comp : 0 .. 255]]
  /\ MaxSent \in Nat /\ MaxLapses \in Nat

VARIABLES
  wire,        \* [Link -> what is on its way]
  buffer,      \* [Link -> the parser's buffer]
  pending,     \* [Link -> slices that it is about to publish, at most one]
  recent,      \* slices that the duplicate check remembers
  noted,       \* <<link, system, component>> told to the routing updater
  published,   \* messages on the bus
  total,       \* frames sent
  damaged,     \* links that have lost something
  read,        \* history: [Link -> all that it has read]
  slices,      \* history: [Link -> the raw bytes of what it has parsed]
  lapsed       \* history: slices that were forgotten

history == <<total, damaged, read, slices, lapsed>>
vars    == <<wire, buffer, pending, recent, noted, published, history>>

Idle(l) == pending[l] = {} /\ ~ParseNext(buffer[l]).found

-----------------------------------------------------------------------------
(* The stages of handle_incoming_frame.                                    *)

\* EndpointFilters::check: an empty list allows everything.
Listed(allow, block, x) == (allow = {} \/ x \in allow) /\ x \notin block

CheckFilters(fs, f) ==
  /\ Listed(fs.allow_msg, fs.block_msg, MsgId[f])
  /\ Listed(fs.allow_comp, fs.block_comp, Sender[f].comp)
  /\ Listed(fs.allow_sys, fs.block_sys, Sender[f].sys)

\* System 0 is a placeholder.
AcceptFrame(l, f) == Sender[f].sys # 0 /\ CheckFilters(Filters[l], f)

\* Of some messages both target fields are used, of some the system only; all others
\* are for everyone.
ExtractTarget(f) ==
  CASE Target[f].fields = "both"   -> <<Target[f].sys, Target[f].comp>>
    [] Target[f].fields = "system" -> <<Target[f].sys, 0>>
    [] OTHER                       -> <<0, 0>>

\* Mutant of Check: duplicates are looked for before the filter.
CheckBeforeFilter(l, raw) ==
  /\ recent' = recent \cup {raw}
  /\ pending' = [pending EXCEPT ![l] =
       IF raw \notin recent /\ AcceptFrame(l, Parsed(raw)) THEN {raw} ELSE {}]

\* Up to the duplicate check, which inserts what it has not seen.
Check(l, raw) ==
  LET accepted == AcceptFrame(l, Parsed(raw))
  IN /\ recent' = IF accepted THEN recent \cup {raw} ELSE recent
     /\ pending' = [pending EXCEPT ![l] =
          IF accepted /\ raw \notin recent THEN {raw} ELSE {}]

\* And from there: observe_route, then publish_frame.
Publish(l) ==
  \E raw \in pending[l] :
    LET f == Parsed(raw)
    IN /\ noted' = noted \cup {<<l, Sender[f]>>}
       /\ published' = Append(published,
            [source_id |-> l, serialized_bytes |-> raw, target |-> ExtractTarget(f)])
       /\ pending' = [pending EXCEPT ![l] = {}]
       /\ UNCHANGED <<wire, buffer, recent, history>>

-----------------------------------------------------------------------------
(* The links.                                                              *)

Init ==
  /\ wire = [l \in Link |-> <<>>] /\ buffer = [l \in Link |-> <<>>]
  /\ pending = [l \in Link |-> {}] /\ recent = {}
  /\ noted = {} /\ published = <<>>
  /\ total = 0 /\ damaged = {}
  /\ read = [l \in Link |-> <<>>] /\ slices = [l \in Link |-> <<>>]
  /\ lapsed = <<>>

Send(l, f) ==
  /\ l \notin Datagrams /\ f \in Carries[l]
  /\ total < MaxSent /\ total' = total + 1
  /\ wire' = [wire EXCEPT ![l] = @ \o Whole(f)]
  /\ UNCHANGED <<buffer, pending, recent, noted, published, damaged, read, slices, lapsed>>

\* A serial line loses the end of a frame.
Lose(l) ==
  /\ l \notin damaged /\ wire[l] # <<>> /\ Last(wire[l])[2] = "rest"
  /\ wire' = [wire EXCEPT ![l] = Front(@)]
  /\ damaged' = damaged \cup {l}
  /\ UNCHANGED <<buffer, pending, recent, noted, published, total, read, slices, lapsed>>

\* The parser has given all it can.
Read(l) ==
  /\ Idle(l)
  /\ \E n \in 1 .. ReadSize :
       /\ n <= Len(wire[l])
       /\ buffer' = [buffer EXCEPT ![l] = Push(@, SubSeq(wire[l], 1, n))]
       /\ wire' = [wire EXCEPT ![l] = Advance(@, n)]
       /\ read' = [read EXCEPT ![l] = @ \o SubSeq(wire[l], 1, n)]
       /\ damaged' = IF Len(buffer[l]) + n > BufferMax THEN damaged \cup {l} ELSE damaged
  /\ UNCHANGED <<pending, recent, noted, published, total, slices, lapsed>>

\* The parser finds a frame, and drops what is no frame before it.
HandleFrame(l) ==
  LET next == ParseNext(buffer[l])
  IN /\ pending[l] = {} /\ next.found
     /\ buffer' = [buffer EXCEPT ![l] = next.left]
     /\ slices' = [slices EXCEPT ![l] = Append(@, next.raw)]
     /\ Check(l, next.raw)
     /\ UNCHANGED <<wire, noted, published, total, damaged, read, lapsed>>

\* recv_from, with one frame or two in the datagram: what follows the first that can
\* be parsed is dropped.
HandleDatagram(l) ==
  /\ l \in Datagrams /\ pending[l] = {}
  /\ \E fs \in {<<f>> : f \in Carries[l]} \cup (Carries[l] \X Carries[l]) :
       LET buf == FlattenSeq([i \in DOMAIN fs |-> Whole(fs[i])])
           res == {m \in {ReadMsg(buf, 2)} : m.res = "ok"}
           any == IF res # {} THEN res ELSE {m \in {ReadV1(buf)} : m.res = "ok"}
       IN /\ total + Len(fs) <= MaxSent /\ total' = total + Len(fs)
          /\ \E m \in any :
               /\ slices' = [slices EXCEPT ![l] = Append(@, SubSeq(buf, 1, m.len))]
               /\ Check(l, SubSeq(buf, 1, m.len))
  /\ UNCHANGED <<wire, buffer, noted, published, damaged, read, lapsed>>

\* The time wheel turns.
Forget(raw) ==
  /\ Len(lapsed) < MaxLapses
  /\ recent' = recent \ {raw}
  /\ lapsed' = Append(lapsed, raw)
  /\ UNCHANGED <<wire, buffer, pending, noted, published, total, damaged, read, slices>>

Next ==
  \/ \E l \in Link :
       \/ \E f \in Frame : Send(l, f)
       \/ Lose(l) \/ Read(l) \/ HandleFrame(l) \/ HandleDatagram(l) \/ Publish(l)
  \/ \E raw \in recent : Forget(raw)

Spec == Init /\ [][Next]_vars

-----------------------------------------------------------------------------
(* Correctness.                                                            *)

\* The variables have their types, a parser's buffer keeps to its limit, and what is
\* pending is among what is remembered or forgotten.
TypeOK ==
  /\ \A l \in Link :
       /\ wire[l] \in Seq(Piece) /\ read[l] \in Seq(Piece)
       /\ buffer[l] \in Seq(Piece) /\ Len(buffer[l]) <= BufferMax
       /\ Cardinality(pending[l]) <= 1
       /\ pending[l] \subseteq recent \cup ToSet(lapsed)
  /\ noted \subseteq Link \X [sys : 0 .. 255, comp : 0 .. 255]
  /\ \A m \in ToSet(published) : m.source_id \in Link
  /\ total \in 0 .. MaxSent /\ damaged \subseteq Link

Intact(l) == /\ l \notin damaged \cup Datagrams
             /\ \A p \in ToSet(read[l]) : p[1] \notin Refused
SingleVersion(l) == \A f, g \in Carries[l] : Version[f] = Version[g]

\* "Handles partial packets" (framing.rs:34-36): however a stream is cut, nothing of it is
\* lost, repeated or out of order.  If it is of one version, every frame comes by itself
\* and at once, whatever start bytes it contains.
PassesThrough ==
  \A l \in Link : Intact(l) =>
    /\ FlattenSeq(slices[l]) \o buffer[l] = read[l]
    /\ SingleVersion(l) =>
         /\ \A i \in DOMAIN slices[l] : Len(slices[l][i]) = 2
         /\ Idle(l) => Len(buffer[l]) < 2

Times(s, x) == Cardinality({i \in DOMAIN s : s[i] = x})

\* A frame that some link accepts is published once for each time that it is remembered,
\* neither lost because a link that filters it saw it first, nor published by two
\* (endpoint_core.rs:106-119).  What is published has passed the filters of its link, and
\* by then the updater knows that its sender can be reached there.
AcceptedOnce ==
  /\ \A l \in Link : \A raw \in ToSet(slices[l]) :
       LET out == Times([i \in DOMAIN published |-> published[i].serialized_bytes], raw)
                    + Cardinality({k \in Link : raw \in pending[k]})
       IN AcceptFrame(l, Parsed(raw)) => out \in 1 .. (1 + Times(lapsed, raw))
  /\ \A m \in ToSet(published) :
       /\ AcceptFrame(m.source_id, Parsed(m.serialized_bytes))
       /\ <<m.source_id, Sender[Parsed(m.serialized_bytes)]>> \in noted

\* "If either parser returned UnexpectedEof, it means we need more data.  Otherwise, it's
\* a parse error, so we discard the current byte" (framing.rs:151-153): no parser waits for
\* more when its buffer begins with a whole frame.
MalformedSkipped ==
  \A l \in Link : Idle(l) => ~IsFrame(buffer[l])
=============================================================================
