------------------------------ MODULE Framing -------------------------------
(***************************************************************************)
(* StreamParser (framing.rs): the frames in a stream of bytes.  What is    *)
(* told apart of the bytes is where a frame begins and where it ends: a    *)
(* frame is two pieces, its start byte with what follows, and a rest in    *)
(* which a start byte may occur by chance.  Whatever looks like the start  *)
(* of a frame claims, by the length that seems to follow, two pieces.      *)
(***************************************************************************)
EXTENDS Naturals, Sequences, SequencesExt

CONSTANTS
  Frame,       \* the frames that peers send
  Version,     \* [Frame -> {1, 2}]
  FalseStart,  \* [Frame -> {0, 1, 2}]: the start byte in the rest of a frame, or 0
  Refused,     \* frames with a good checksum whose contents cannot be decoded
  BufferMax    \* MAX_BUFFER_SIZE, in pieces

Piece    == Frame \X {"head", "rest"}
Whole(f) == <<<<f, "head">>, <<f, "rest">>>>

\* The version that a piece announces: 0xFE is 1, 0xFD is 2.
Start(p) == IF p[2] = "head" THEN Version[p[1]] ELSE FalseStart[p[1]]

\* Is a frame whole at the front?
IsFrame(buf) == Len(buf) >= 2 /\ SubSeq(buf, 1, 2) = Whole(buf[1][1])

\* buffer.advance
Advance(buf, n) == SubSeq(buf, n + 1, Len(buf))

\* The oldest bytes make room.
Push(buf, data) ==
  LET overflow == Len(buf) + Len(data) - BufferMax
  IN (IF Len(buf) + Len(data) <= BufferMax THEN buf
      ELSE IF overflow <= Len(buf) THEN Advance(buf, overflow)
      ELSE <<>>) \o data

\* read_v1_msg and read_v2_msg skip to a start byte of their version and what it
\* claims; with a checksum that does not match they go on behind that.  They end
\* with a frame, with one that they cannot decode, or at the end of the bytes.
ReadMsg(buf, v) ==
  LET at[i \in 1 .. Len(buf) + 1] ==
        IF i > Len(buf) THEN [res |-> "eof", len |-> 0]
        ELSE IF Start(buf[i]) # v THEN at[i + 1]
        ELSE IF i = Len(buf) THEN [res |-> "eof", len |-> 0]
        ELSE IF ~IsFrame(Advance(buf, i - 1)) THEN at[i + 2]
        ELSE [res |-> IF buf[i][1] \in Refused THEN "parse" ELSE "ok", len |-> i + 1]
  IN at[1]

\* Mutant of ReadV1: the cursor is left where the v2 reader stopped.
ReadV1Onwards(buf) == ReadMsg(<<>>, 1)
ReadV1(buf) == ReadMsg(buf, 1)

Nothing(buf)   == [found |-> FALSE, raw |-> <<>>, left |-> buf]
SplitTo(buf, n) == [found |-> TRUE, raw |-> SubSeq(buf, 1, n), left |-> Advance(buf, n)]

\* parse_next: up to the first start byte, then v2, else v1 from the same place; if
\* neither has run out of bytes, past that start byte.
ParseNext(buf) ==
  LET from[i \in 1 .. Len(buf) + 1] ==
        LET rest == Advance(buf, i - 1)
            v2 == ReadMsg(rest, 2)
            v1 == ReadV1(rest)
        IN IF rest = <<>> THEN Nothing(rest)
           ELSE IF Start(rest[1]) = 0 THEN from[i + 1]
           ELSE IF v2.res = "ok" THEN SplitTo(rest, v2.len)
           ELSE IF v1.res = "ok" THEN SplitTo(rest, v1.len)
           ELSE IF "eof" \in {v1.res, v2.res} THEN Nothing(rest)
           ELSE from[i + 1]
  IN from[1]

\* header and message of what was parsed are those of the frame that it ends with.
Parsed(raw) == raw[Len(raw)][1]
=============================================================================
