----------------------------- MODULE PartsProofs -----------------------------
(***************************************************************************)
(* What the parts promise for every set of frames, links, filters and      *)
(* buffer sizes, every window and retention, and every number of           *)
(* fragments.  The parser, the frames' order and the merge are defined by  *)
(* recursion on the length of a sequence; that they are what they should   *)
(* be is proved by induction, as the absence of a least counterexample.    *)
(***************************************************************************)
EXTENDS Parts, UdpEndpointProofs, WellFoundedInduction

-----------------------------------------------------------------------------
(* Induction over an interval, in terms of the set of numbers that have    *)
(* been reached.                                                           *)

LEMMA NatMin == ASSUME NEW T \in SUBSET Nat, T # {} PROVE \E m \in T : \A k \in T : m <= k
<1> DEFINE R == OpToRel(<, Nat)
<1>1. IsWellFoundedOn(R, Nat)
  BY NatLessThanWellFounded
<1>2. \A x, y \in Nat : <<x, y>> \in R <=> x < y
  BY DEF OpToRel
<1> HIDE DEF R
<1>3. \E x \in T : \A y \in T : ~(<<y, x>> \in R)
  BY <1>1, WFMin
<1> QED
  <2>1. PICK m \in T : \A y \in T : ~(<<y, m>> \in R)
    BY <1>3
  <2>2. ASSUME NEW k \in T PROVE m <= k
    <3>1. k \in Nat /\ m \in Nat /\ ~(k < m)
      BY <1>2, <2>1
    <3> QED
      BY <3>1
  <2> QED
    BY <2>2

\* From below.
LEMMA Upward ==
  ASSUME NEW n \in Nat, NEW T, 0 \in T, \A k \in 1 .. n : k - 1 \in T => k \in T
  PROVE  \A k \in 0 .. n : k \in T
<1> SUFFICES ASSUME NEW x \in 0 .. n, x \notin T PROVE FALSE
  OBVIOUS
<1> DEFINE Bad == {k \in 0 .. n : k \notin T}
<1>1. Bad \in SUBSET Nat /\ x \in Bad
  OBVIOUS
<1> HIDE DEF Bad
<1>2. PICK m \in Bad : \A k \in Bad : m <= k
  BY <1>1, NatMin
<1>3. m \in 0 .. n /\ m \notin T /\ m # 0
  BY <1>2 DEF Bad
<1>4. m \in 1 .. n /\ m - 1 \in 0 .. n /\ ~(m <= m - 1)
  BY <1>3
<1>5. m - 1 \in T
  BY <1>2, <1>4 DEF Bad
<1> QED
  BY <1>3, <1>4, <1>5

\* From above, with all that is above.
LEMMA Downward ==
  ASSUME NEW n \in Nat, NEW T,
         \A k \in 1 .. n : (\A j \in k + 1 .. n : j \in T) => k \in T
  PROVE  \A k \in 1 .. n : k \in T
<1> DEFINE S == {m \in Nat : \A j \in n - m + 1 .. n : j >= 1 => j \in T}
<1>1. 0 \in S
  OBVIOUS
<1>2. ASSUME NEW m \in 1 .. n, m - 1 \in S
      PROVE  m \in S
  <2>1. n - m + 1 \in 1 .. n /\ m \in Nat
    OBVIOUS
  <2>2. \A j \in (n - m + 1) + 1 .. n : j \in T
    BY <1>2
  <2>3. n - m + 1 \in T
    BY <2>1, <2>2
  <2> QED
    BY <2>1, <2>2, <2>3
<1> HIDE DEF S
<1>3. n \in S
  BY <1>1, <1>2, Upward
<1> QED
  BY <1>3 DEF S

-----------------------------------------------------------------------------
(* Functions defined by recursion.                                         *)

\* A place either has a value or refers to a later one.
Walks(n, goes, val, f) == f = [i \in 1 .. n |-> IF goes[i] = 0 THEN val[i] ELSE f[goes[i]]]

LEMMA WalkExists ==
  ASSUME NEW n \in Nat, NEW goes, NEW val,
         \A i \in 1 .. n : goes[i] = 0 \/ goes[i] \in i + 1 .. n
  PROVE  \E f : Walks(n, goes, val, f)
<1> DEFINE Fits(f, k) ==
             f = [i \in k .. n |-> IF goes[i] = 0 THEN val[i] ELSE f[goes[i]]]
           T == {m \in Nat : \E f : Fits(f, n - m + 1)}
<1>1. 0 \in T
  <2>1. \A f : [i \in n - 0 + 1 .. n |-> IF goes[i] = 0 THEN val[i] ELSE f[goes[i]]]
               = [i \in {} |-> 0]
    OBVIOUS
  <2>2. Fits([i \in {} |-> 0], n - 0 + 1)
    BY <2>1
  <2> QED
    BY <2>2
<1>2. ASSUME NEW m \in 1 .. n, m - 1 \in T
      PROVE  m \in T
  <2> DEFINE k == n - m + 1
  <2>1. k \in 1 .. n /\ n - (m - 1) + 1 = k + 1 /\ m \in Nat
    OBVIOUS
  <2>2. PICK f : Fits(f, k + 1)
    BY <1>2, <2>1
  <2> HIDE DEF k
  <2> DEFINE g == [i \in k .. n |->
                     IF i = k THEN (IF goes[k] = 0 THEN val[k] ELSE f[goes[k]]) ELSE f[i]]
  <2>3. ASSUME NEW i \in k .. n
        PROVE  g[i] = IF goes[i] = 0 THEN val[i] ELSE g[goes[i]]
    <3>1. i \in 1 .. n /\ k \in Int
      BY <2>1
    <3>2. ASSUME goes[i] # 0 PROVE g[goes[i]] = f[goes[i]]
      <4>1. goes[i] \in i + 1 .. n
        BY <3>1, <3>2
      <4> QED
        BY <3>1, <4>1
    <3>3. CASE i = k
      BY <3>2, <3>3
    <3>4. CASE i # k
      <4>1. i \in k + 1 .. n
        BY <3>1, <3>4
      <4>2. f[i] = IF goes[i] = 0 THEN val[i] ELSE f[goes[i]]
        BY <2>2, <4>1
      <4>3. g[i] = f[i]
        BY <3>4
      <4> HIDE DEF g
      <4> QED
        BY <3>2, <4>2, <4>3
    <3> QED
      BY <3>3, <3>4
  <2>4. Fits(g, k)
    <3>1. DOMAIN g = k .. n /\ g = [i \in DOMAIN g |-> g[i]]
      OBVIOUS
    <3> HIDE DEF g
    <3> QED
      BY <2>3, <3>1
  <2> QED
    BY <2>1, <2>4 DEF k
<1>3. n \in T
  <2> HIDE DEF T
  <2> QED
    BY <1>1, <1>2, Upward
<1>4. PICK f : Fits(f, n - n + 1)
  BY <1>3
<1>5. n - n + 1 = 1
  OBVIOUS
<1> QED
  BY <1>4, <1>5 DEF Walks

-----------------------------------------------------------------------------
(* FlattenSeq.                                                             *)

\* f has the first n sequences of s one behind the other.
Joins(s, n, f) == f = [i \in 1 .. n |-> IF i = 1 THEN s[i] ELSE f[i - 1] \o s[i]]

LEMMA JoinExists == ASSUME NEW s, NEW n \in Nat PROVE \E f : Joins(s, n, f)
<1> DEFINE T == {m \in Nat : \E f : Joins(s, m, f)}
<1>1. 0 \in T
  <2>1. \A f : [i \in 1 .. 0 |-> IF i = 1 THEN s[i] ELSE f[i - 1] \o s[i]] = [i \in {} |-> 0]
    OBVIOUS
  <2>2. Joins(s, 0, [i \in {} |-> 0])
    BY <2>1 DEF Joins
  <2> QED
    BY <2>2
<1>2. ASSUME NEW m \in 1 .. n, m - 1 \in T
      PROVE  m \in T
  <2>1. PICK f : Joins(s, m - 1, f)
    BY <1>2
  <2> DEFINE g == [i \in 1 .. m |->
                     IF i = m THEN (IF m = 1 THEN s[m] ELSE f[m - 1] \o s[m]) ELSE f[i]]
  <2>2. ASSUME NEW i \in 1 .. m
        PROVE  g[i] = IF i = 1 THEN s[i] ELSE g[i - 1] \o s[i]
    <3>1. ASSUME i # 1 PROVE g[i - 1] = f[i - 1]
      BY <3>1
    <3>2. CASE i = m
      BY <3>1, <3>2
    <3>3. CASE i # m
      <4>1. i \in 1 .. m - 1
        BY <3>3
      <4>2. f[i] = IF i = 1 THEN s[i] ELSE f[i - 1] \o s[i]
        BY <2>1, <4>1 DEF Joins
      <4>3. g[i] = f[i]
        BY <3>3
      <4> HIDE DEF g
      <4> QED
        BY <3>1, <4>2, <4>3
    <3> QED
      BY <3>2, <3>3
  <2>3. Joins(s, m, g)
    <3>1. DOMAIN g = 1 .. m /\ g = [i \in DOMAIN g |-> g[i]]
      OBVIOUS
    <3> HIDE DEF g
    <3> QED
      BY <2>2, <3>1 DEF Joins
  <2> QED
    BY <2>3
<1> HIDE DEF T
<1>3. n \in T
  BY <1>1, <1>2, Upward
<1> QED
  BY <1>3 DEF T

LEMMA JoinType ==
  ASSUME NEW S, NEW s \in Seq(Seq(S)), NEW f, Joins(s, Len(s), f)
  PROVE  \A i \in 1 .. Len(s) : f[i] \in Seq(S)
<1> DEFINE T == {m \in Nat : m \in 1 .. Len(s) => f[m] \in Seq(S)}
<1>1. Len(s) \in Nat /\ \A i \in 1 .. Len(s) : s[i] \in Seq(S)
  BY LenProperties
<1>2. \A i \in 1 .. Len(s) : f[i] = IF i = 1 THEN s[i] ELSE f[i - 1] \o s[i]
  BY DEF Joins
<1>3. ASSUME NEW m \in 1 .. Len(s), m - 1 \in T
      PROVE  m \in T
  <2>1. CASE m = 1
    BY <1>1, <1>2, <2>1
  <2>2. CASE m # 1
    <3>1. m - 1 \in 1 .. Len(s) /\ m \in Nat
      BY <2>2
    <3>2. f[m - 1] \in Seq(S) /\ s[m] \in Seq(S)
      BY <1>1, <1>3, <3>1
    <3>3. f[m - 1] \o s[m] \in Seq(S)
      BY <3>2, ConcatProperties
    <3> QED
      BY <1>2, <2>2, <3>1, <3>3
  <2> QED
    BY <2>1, <2>2
<1>4. 0 \in T
  OBVIOUS
<1> HIDE DEF T
<1>5. \A k \in 0 .. Len(s) : k \in T
  BY <1>1, <1>3, <1>4, Upward
<1> QED
  BY <1>5 DEF T

SameUpTo(s, t, n) == \A i \in 1 .. n : s[i] = t[i]

LEMMA JoinUnique ==
  ASSUME NEW s, NEW t, NEW m \in Nat, NEW n \in 0 .. m, NEW f, NEW g,
         Joins(s, n, f), Joins(t, m, g), SameUpTo(s, t, n), NEW last \in 1 .. n
  PROVE  f[last] = g[last]
<1> DEFINE T == {k \in Nat : k \in 1 .. n => f[k] = g[k]}
<1>1. ASSUME NEW i \in 1 .. n
      PROVE  /\ f[i] = IF i = 1 THEN s[i] ELSE f[i - 1] \o s[i]
             /\ g[i] = IF i = 1 THEN s[i] ELSE g[i - 1] \o s[i]
  <2>1. i \in 1 .. m
    OBVIOUS
  <2>2. s[i] = t[i]
    BY DEF SameUpTo
  <2> QED
    BY <2>1, <2>2 DEF Joins
<1>2. ASSUME NEW k \in 1 .. n, k - 1 \in T
      PROVE  k \in T
  <2>1. k # 1 => f[k - 1] = g[k - 1]
    BY <1>2
  <2> QED
    BY <1>1, <2>1
<1>3. 0 \in T /\ n \in Nat
  OBVIOUS
<1> HIDE DEF T
<1>4. \A k \in 0 .. n : k \in T
  BY <1>2, <1>3, Upward
<1> QED
  BY <1>4 DEF T

LEMMA FlattenIs ==
  ASSUME NEW s, Len(s) \in Nat, Len(s) # 0
  PROVE  \E f : Joins(s, Len(s), f) /\ FlattenSeq(s) = f[Len(s)]
<1> DEFINE f == CHOOSE h : Joins(s, Len(s), h)
<1>1. Joins(s, Len(s), f)
  BY JoinExists
<1>2. FlattenSeq(s) = f[Len(s)]
  BY DEF FlattenSeq, Joins
<1> QED
  BY <1>1, <1>2

LEMMA FlattenNone == FlattenSeq(<<>>) = <<>>
BY DEF FlattenSeq

LEMMA FlattenType ==
  ASSUME NEW S, NEW s \in Seq(Seq(S))
  PROVE  FlattenSeq(s) \in Seq(S)
<1>1. CASE s = <<>>
  BY <1>1, FlattenNone, EmptySeq
<1>2. CASE s # <<>>
  <2>1. Len(s) \in Nat /\ Len(s) # 0
    BY <1>2, EmptySeq
  <2>2. PICK f : Joins(s, Len(s), f) /\ FlattenSeq(s) = f[Len(s)]
    BY <2>1, FlattenIs
  <2> QED
    BY <2>1, <2>2, JoinType
<1> QED
  BY <1>1, <1>2

LEMMA FlattenAppend ==
  ASSUME NEW S, NEW s \in Seq(Seq(S)), NEW x \in Seq(S)
  PROVE  FlattenSeq(Append(s, x)) = FlattenSeq(s) \o x
<1> DEFINE t == Append(s, x)
<1>1. /\ t \in Seq(Seq(S)) /\ Len(t) = Len(s) + 1 /\ Len(s) \in Nat
      /\ \A i \in 1 .. Len(s) : t[i] = s[i]
      /\ t[Len(t)] = x
  BY AppendProperties, LenProperties
<1> HIDE DEF t
<1>2. PICK g : Joins(t, Len(t), g) /\ FlattenSeq(t) = g[Len(t)]
  <2>1. Len(t) \in Nat /\ Len(t) # 0
    BY <1>1
  <2> QED
    BY <2>1, FlattenIs
<1>3. Len(t) \in 1 .. Len(t)
  BY <1>1
<1>4. g[Len(t)] = IF Len(t) = 1 THEN x ELSE g[Len(t) - 1] \o x
  BY <1>1, <1>2, <1>3 DEF Joins
<1>5. CASE s = <<>>
  <2>1. Len(t) = 1 /\ <<>> \o x = x
    BY <1>1, <1>5, EmptySeq, ConcatEmptySeq
  <2> QED
    BY <1>2, <1>4, <1>5, <2>1, FlattenNone DEF t
<1>6. CASE s # <<>>
  <2>1. Len(s) # 0
    BY <1>6, EmptySeq
  <2>2. PICK f : Joins(s, Len(s), f) /\ FlattenSeq(s) = f[Len(s)]
    BY <1>1, <2>1, FlattenIs
  <2>3. Len(t) \in Nat /\ Len(s) \in 0 .. Len(t) /\ Len(s) \in 1 .. Len(s)
    BY <1>1, <2>1
  <2>4. f[Len(s)] = g[Len(s)]
    <3>1. \A i \in 1 .. Len(s) : s[i] = t[i]
      BY <1>1
    <3>2. Joins(s, Len(s), f) /\ Joins(t, Len(t), g)
      BY <1>2, <2>2
    <3> DEFINE n == Len(s)
               m == Len(t)
    <3>3. /\ m \in Nat /\ n \in 0 .. m /\ n \in 1 .. n
          /\ Joins(s, n, f) /\ Joins(t, m, g) /\ SameUpTo(s, t, n)
      BY <3>1, <3>2, <2>3 DEF SameUpTo
    <3> HIDE DEF n, m
    <3>4. f[n] = g[n]
      BY <3>3, JoinUnique, SMTT(60)
    <3> QED
      BY <3>4 DEF n
  <2>5. Len(t) # 1 /\ Len(t) - 1 = Len(s)
    BY <1>1, <2>1
  <2> QED
    BY <1>2, <1>4, <2>2, <2>4, <2>5 DEF t
<1> QED
  BY <1>5, <1>6

-----------------------------------------------------------------------------
(* The parser: one of the two readers.                                     *)

Stream == Seq(In!Piece)
Raw    == Stream \ {<<>>}

\* A frame is whole at i.
FrameAt(buf, i) == buf[i + 1] = <<buf[i][1], "rest">> /\ buf[i] = <<buf[i][1], "head">>

LEMMA Pieces ==
  ASSUME NEW p \in In!Piece
  PROVE  p[1] \in Frame /\ p[2] \in {"head", "rest"} /\ p = <<p[1], p[2]>>
BY DEF In!Piece

LEMMA AdvanceType ==
  ASSUME NEW buf \in Stream, NEW n \in 0 .. Len(buf)
  PROVE  /\ In!Advance(buf, n) \in Stream
         /\ Len(In!Advance(buf, n)) = Len(buf) - n
         /\ \A i \in 1 .. Len(buf) - n : In!Advance(buf, n)[i] = buf[n + i]
<1>1. Len(buf) \in Nat /\ \A i \in 1 .. Len(buf) : buf[i] \in In!Piece
  BY LenProperties DEF Stream
<1>2. n + 1 \in Int /\ Len(buf) \in Int /\ \A i \in n + 1 .. Len(buf) : buf[i] \in In!Piece
  BY <1>1
<1>3. /\ SubSeq(buf, n + 1, Len(buf)) \in Stream
      /\ Len(SubSeq(buf, n + 1, Len(buf)))
           = IF n + 1 <= Len(buf) THEN Len(buf) - (n + 1) + 1 ELSE 0
      /\ \A i \in 1 .. Len(buf) - (n + 1) + 1 :
           SubSeq(buf, n + 1, Len(buf))[i] = buf[(n + 1) + i - 1]
  BY <1>2, SubSeqProperties DEF Stream
<1>4. \A i \in 1 .. Len(buf) - n : (n + 1) + i - 1 = n + i
  BY <1>1
<1>5. Len(buf) - (n + 1) + 1 = Len(buf) - n
  BY <1>1
<1>6. Len(SubSeq(buf, n + 1, Len(buf))) = Len(buf) - n
  BY <1>1, <1>3
<1>7. \A i \in 1 .. Len(buf) - n : SubSeq(buf, n + 1, Len(buf))[i] = buf[n + i]
  BY <1>3, <1>4, <1>5
<1> QED
  BY <1>3, <1>6, <1>7 DEF In!Advance

LEMMA IsFrameAt ==
  ASSUME NEW buf \in Stream, NEW i \in 1 .. Len(buf) - 1
  PROVE  In!IsFrame(In!Advance(buf, i - 1)) <=> FrameAt(buf, i)
<1> DEFINE a == In!Advance(buf, i - 1)
<1>1. Len(buf) \in Nat /\ \A j \in 1 .. Len(buf) : buf[j] \in In!Piece
  BY LenProperties DEF Stream
<1>2. /\ i - 1 \in 0 .. Len(buf) /\ Len(buf) - (i - 1) >= 2
      /\ 1 \in 1 .. Len(buf) - (i - 1) /\ 2 \in 1 .. Len(buf) - (i - 1)
      /\ (i - 1) + 1 = i /\ (i - 1) + 2 = i + 1
  BY <1>1
<1>3. a \in Stream /\ Len(a) >= 2 /\ a[1] = buf[i] /\ a[2] = buf[i + 1]
  BY <1>2, AdvanceType
<1> HIDE DEF a
<1>4. SubSeq(a, 1, 2) = <<buf[i], buf[i + 1]>>
  <2>1. Len(a) \in Nat /\ \A j \in 1 .. 2 : a[j] \in In!Piece
    BY <1>3, LenProperties DEF Stream
  <2>2. /\ SubSeq(a, 1, 2) \in Stream /\ Len(SubSeq(a, 1, 2)) = 2 - 1 + 1
        /\ \A j \in 1 .. 2 - 1 + 1 : SubSeq(a, 1, 2)[j] = a[1 + j - 1]
    BY <2>1, SubSeqProperties DEF Stream
  <2>3. Len(SubSeq(a, 1, 2)) = 2 /\ SubSeq(a, 1, 2)[1] = a[1] /\ SubSeq(a, 1, 2)[2] = a[2]
    BY <2>2
  <2> DEFINE t == <<a[1], a[2]>>
             u == SubSeq(a, 1, 2)
  <2>4. t \in Seq(In!Piece) /\ Len(t) = 2 /\ t[1] = a[1] /\ t[2] = a[2]
    BY <2>1
  <2>5. u = t
    <3>1. u \in Seq(In!Piece) /\ Len(u) = 2 /\ u[1] = a[1] /\ u[2] = a[2]
      BY <2>2, <2>3 DEF Stream
    <3> HIDE DEF t, u
    <3>2. Len(u) = Len(t) /\ \A k \in 1 .. Len(u) : u[k] = t[k]
      BY <2>4, <3>1
    <3> QED
      BY <2>4, <3>1, <3>2, SeqEqual
  <2> QED
    BY <1>3, <2>5
<1>5. In!IsFrame(a) <=> <<buf[i], buf[i + 1]>> = In!Whole(buf[i][1])
  BY <1>3, <1>4 DEF In!IsFrame
<1> QED
  BY <1>5 DEF In!Whole, FrameAt, a

Eof == [res |-> "eof", len |-> 0]
At(buf, i) == [res |-> IF buf[i][1] \in Refused THEN "parse" ELSE "ok", len |-> i + 1]

\* at is what a reader of version v finds from each place on.
Reads(buf, v, at) ==
  at = [i \in 1 .. Len(buf) + 1 |->
          IF i > Len(buf) THEN Eof
          ELSE IF In!Start(buf[i]) # v THEN at[i + 1]
          ELSE IF i = Len(buf) THEN Eof
          ELSE IF ~In!IsFrame(In!Advance(buf, i - 1)) THEN at[i + 2]
          ELSE At(buf, i)]

LEMMA ReadMsgIs ==
  ASSUME NEW buf \in Stream, NEW v
  PROVE  \E at : Reads(buf, v, at) /\ In!ReadMsg(buf, v) = at[1]
<1> DEFINE n == Len(buf) + 1
           goes == [i \in 1 .. n |->
                      IF i > Len(buf) THEN 0
                      ELSE IF In!Start(buf[i]) # v THEN i + 1
                      ELSE IF i = Len(buf) THEN 0
                      ELSE IF ~In!IsFrame(In!Advance(buf, i - 1)) THEN i + 2 ELSE 0]
           val == [i \in 1 .. n |-> IF i >= Len(buf) THEN Eof ELSE At(buf, i)]
<1>1. Len(buf) \in Nat /\ n \in Nat
  BY LenProperties DEF Stream
<1>2. \A i \in 1 .. n : goes[i] = 0 \/ goes[i] \in i + 1 .. n
  BY <1>1
<1>3. PICK f : Walks(n, goes, val, f)
  <2> HIDE DEF n, goes, val
  <2> QED
    BY <1>1, <1>2, WalkExists
<1>4. Reads(buf, v, f)
  <2>1. ASSUME NEW i \in 1 .. n
        PROVE  (IF goes[i] = 0 THEN val[i] ELSE f[goes[i]])
               = IF i > Len(buf) THEN Eof
                 ELSE IF In!Start(buf[i]) # v THEN f[i + 1]
                 ELSE IF i = Len(buf) THEN Eof
                 ELSE IF ~In!IsFrame(In!Advance(buf, i - 1)) THEN f[i + 2]
                 ELSE At(buf, i)
    BY <1>1
  <2> HIDE DEF goes, val
  <2> QED
    BY <1>3, <2>1 DEF Reads, Walks
<1> DEFINE g == CHOOSE h : Reads(buf, v, h)
<1>5. Reads(buf, v, g)
  BY <1>4
<1>6. In!ReadMsg(buf, v) = g[1]
  BY DEF In!ReadMsg, Reads, Eof, At
<1> QED
  BY <1>5, <1>6

\* A reader runs out of bytes, or ends with a frame of its version.
LEMMA ReadMsgResult ==
  ASSUME NEW buf \in Stream, NEW v
  PROVE  \/ In!ReadMsg(buf, v) = Eof
         \/ \E i \in 1 .. Len(buf) - 1 :
              /\ In!ReadMsg(buf, v) = At(buf, i)
              /\ In!Start(buf[i]) = v /\ FrameAt(buf, i)
<1>1. PICK at : Reads(buf, v, at) /\ In!ReadMsg(buf, v) = at[1]
  BY ReadMsgIs
<1> DEFINE n == Len(buf) + 1
           Good(x) == \/ x = Eof
                      \/ \E i \in 1 .. Len(buf) - 1 :
                           x = At(buf, i) /\ In!Start(buf[i]) = v /\ FrameAt(buf, i)
           T == {k \in 1 .. n : Good(at[k])}
<1>2. Len(buf) \in Nat /\ n \in Nat
  BY LenProperties DEF Stream
<1>3. ASSUME NEW k \in 1 .. n, \A j \in k + 1 .. n : j \in T
      PROVE  k \in T
  <2> SUFFICES Good(at[k])
    OBVIOUS
  <2>1. at[k] = IF k > Len(buf) THEN Eof
                ELSE IF In!Start(buf[k]) # v THEN at[k + 1]
                ELSE IF k = Len(buf) THEN Eof
                ELSE IF ~In!IsFrame(In!Advance(buf, k - 1)) THEN at[k + 2]
                ELSE At(buf, k)
    BY <1>1 DEF Reads
  <2>2. \A j \in k + 1 .. n : Good(at[j])
    BY <1>3
  <2> HIDE DEF Good
  <2>3. CASE k >= Len(buf) /\ at[k] = Eof
    BY <2>3 DEF Good
  <2>4. CASE k <= Len(buf) /\ at[k] = at[k + 1]
    <3>1. k + 1 \in k + 1 .. n
      BY <1>2, <2>4
    <3> QED
      BY <2>2, <2>4, <3>1
  <2>5. CASE k < Len(buf) /\ at[k] = at[k + 2]
    <3>1. k + 2 \in k + 1 .. n
      BY <1>2, <2>5
    <3> QED
      BY <2>2, <2>5, <3>1
  <2>6. CASE /\ k < Len(buf) /\ at[k] = At(buf, k)
             /\ In!Start(buf[k]) = v /\ In!IsFrame(In!Advance(buf, k - 1))
    <3>1. k \in 1 .. Len(buf) - 1
      BY <1>2, <2>6
    <3> QED
      BY <2>6, <3>1, IsFrameAt DEF Good
  <2> QED
    BY <1>2, <2>1, <2>3, <2>4, <2>5, <2>6
<1> HIDE DEF T
<1>4. \A k \in 1 .. n : k \in T
  BY <1>2, <1>3, Downward
<1> QED
  BY <1>1, <1>2, <1>4 DEF T

-----------------------------------------------------------------------------
(* The parser: both readers.                                               *)

LEMMA AdvanceNothing == ASSUME NEW buf \in Stream PROVE In!Advance(buf, 0) = buf
<1>1. Len(buf) \in Nat
  BY LenProperties DEF Stream
<1>2. SubSeq(buf, 1, Len(buf)) = buf
  BY SubSeqFull DEF Stream
<1> QED
  BY <1>1, <1>2 DEF In!Advance

\* What the parser makes of the bytes from a start byte on, if it does not go past it.
Value(rest) ==
  IF rest = <<>> THEN In!Nothing(rest)
  ELSE IF In!ReadMsg(rest, 2).res = "ok" THEN In!SplitTo(rest, In!ReadMsg(rest, 2).len)
  ELSE IF In!ReadMsg(rest, 1).res = "ok" THEN In!SplitTo(rest, In!ReadMsg(rest, 1).len)
  ELSE In!Nothing(rest)

Skips(rest) ==
  /\ rest # <<>>
  /\ \/ In!Start(rest[1]) = 0
     \/ /\ In!ReadMsg(rest, 2).res \notin {"ok", "eof"}
        /\ In!ReadMsg(rest, 1).res \notin {"ok", "eof"}

Parses(buf, from) ==
  from = [i \in 1 .. Len(buf) + 1 |->
            LET rest == In!Advance(buf, i - 1)
                v2 == In!ReadMsg(rest, 2)
                v1 == In!ReadV1(rest)
            IN IF rest = <<>> THEN In!Nothing(rest)
               ELSE IF In!Start(rest[1]) = 0 THEN from[i + 1]
               ELSE IF v2.res = "ok" THEN In!SplitTo(rest, v2.len)
               ELSE IF v1.res = "ok" THEN In!SplitTo(rest, v1.len)
               ELSE IF "eof" \in {v1.res, v2.res} THEN In!Nothing(rest)
               ELSE from[i + 1]]

LEMMA ParseNextIs ==
  ASSUME NEW buf \in Stream
  PROVE  \E from :
           /\ In!ParseNext(buf) = from[1]
           /\ \A i \in 1 .. Len(buf) + 1 :
                from[i] = IF Skips(In!Advance(buf, i - 1)) THEN from[i + 1]
                          ELSE Value(In!Advance(buf, i - 1))
<1> DEFINE n == Len(buf) + 1
           goes == [i \in 1 .. n |-> IF Skips(In!Advance(buf, i - 1)) THEN i + 1 ELSE 0]
           val == [i \in 1 .. n |-> Value(In!Advance(buf, i - 1))]
<1>1. Len(buf) \in Nat /\ n \in Nat
  BY LenProperties DEF Stream
<1>2. ASSUME NEW i \in 1 .. n
      PROVE  goes[i] = 0 \/ goes[i] \in i + 1 .. n
  <2>1. CASE i = n
    <3>1. i - 1 \in 0 .. Len(buf) /\ Len(buf) - (i - 1) = 0
      BY <1>1, <2>1
    <3>2. In!Advance(buf, i - 1) = <<>>
      BY <3>1, AdvanceType, EmptySeq DEF Stream
    <3> QED
      BY <3>2 DEF Skips
  <2>2. CASE i # n
    BY <1>1, <2>2
  <2> QED
    BY <2>1, <2>2
<1>3. PICK f : Walks(n, goes, val, f)
  <2> HIDE DEF n, goes, val
  <2> QED
    BY <1>1, <1>2, WalkExists
<1>4. ASSUME NEW h
      PROVE  Parses(buf, h) <=>
               h = [i \in 1 .. n |-> IF Skips(In!Advance(buf, i - 1)) THEN h[i + 1]
                                     ELSE Value(In!Advance(buf, i - 1))]
  BY DEF Parses, Skips, Value, In!ReadV1
<1>5. Parses(buf, f)
  <2>1. ASSUME NEW i \in 1 .. n
        PROVE  (IF goes[i] = 0 THEN val[i] ELSE f[goes[i]])
               = IF Skips(In!Advance(buf, i - 1)) THEN f[i + 1]
                 ELSE Value(In!Advance(buf, i - 1))
    BY <1>1
  <2>2. f = [i \in 1 .. n |-> IF Skips(In!Advance(buf, i - 1)) THEN f[i + 1]
                              ELSE Value(In!Advance(buf, i - 1))]
    <3> HIDE DEF goes, val
    <3> QED
      BY <1>3, <2>1 DEF Walks
  <2> QED
    BY <1>4, <2>2
<1> DEFINE g == CHOOSE h : Parses(buf, h)
<1>6. Parses(buf, g)
  BY <1>5
<1>7. In!ParseNext(buf) = g[1]
  BY DEF In!ParseNext, Parses
<1> HIDE DEF g
<1>8. g = [i \in 1 .. n |-> IF Skips(In!Advance(buf, i - 1)) THEN g[i + 1]
                            ELSE Value(In!Advance(buf, i - 1))]
  BY <1>4, <1>6
<1> QED
  BY <1>7, <1>8

\* Without anything to skip it is as the two readers say.
LEMMA ParseNextHere ==
  ASSUME NEW buf \in Stream, ~Skips(buf)
  PROVE  In!ParseNext(buf) = Value(buf)
<1>1. 1 \in 1 .. Len(buf) + 1 /\ In!Advance(buf, 1 - 1) = buf
  BY LenProperties, AdvanceNothing DEF Stream
<1> QED
  BY <1>1, ParseNextIs

\* What is found ends with a whole frame, and takes at least that from the buffer.
LEMMA SplitTypes ==
  ASSUME NEW rest \in Stream, Value(rest).found
  PROVE  \E n \in 2 .. Len(rest) :
           /\ Value(rest) = In!SplitTo(rest, n)
           /\ n - 1 \in 1 .. Len(rest) - 1 /\ FrameAt(rest, n - 1)
           /\ In!Start(rest[n - 1]) \in {1, 2}
<1>1. ASSUME NEW v \in {1, 2}, In!ReadMsg(rest, v).res = "ok"
      PROVE  \E n \in 2 .. Len(rest) :
               /\ In!ReadMsg(rest, v).len = n
               /\ n - 1 \in 1 .. Len(rest) - 1 /\ FrameAt(rest, n - 1)
               /\ In!Start(rest[n - 1]) \in {1, 2}
  <2>1. In!ReadMsg(rest, v) # Eof
    BY <1>1 DEF Eof
  <2>2. PICK i \in 1 .. Len(rest) - 1 :
          /\ In!ReadMsg(rest, v) = At(rest, i)
          /\ In!Start(rest[i]) = v /\ FrameAt(rest, i)
    BY <2>1, ReadMsgResult
  <2>3. In!ReadMsg(rest, v).len = i + 1
    BY <2>2 DEF At
  <2>4. i + 1 \in 2 .. Len(rest) /\ (i + 1) - 1 = i
    BY LenProperties DEF Stream
  <2> QED
    BY <2>2, <2>3, <2>4
<1>2. \/ In!ReadMsg(rest, 2).res = "ok" /\ Value(rest) = In!SplitTo(rest, In!ReadMsg(rest, 2).len)
      \/ In!ReadMsg(rest, 1).res = "ok" /\ Value(rest) = In!SplitTo(rest, In!ReadMsg(rest, 1).len)
  BY DEF Value, In!Nothing
<1> QED
  BY <1>1, <1>2

LEMMA SplitIs ==
  ASSUME NEW rest \in Stream, NEW n \in 2 .. Len(rest)
  PROVE  /\ In!SplitTo(rest, n).raw \in Raw /\ In!SplitTo(rest, n).left \in Stream
         /\ Len(In!SplitTo(rest, n).raw) = n
         /\ Len(In!SplitTo(rest, n).left) = Len(rest) - n
         /\ In!SplitTo(rest, n).raw \o In!SplitTo(rest, n).left = rest
         /\ \A i \in 1 .. n : In!SplitTo(rest, n).raw[i] = rest[i]
         /\ \A i \in 1 .. Len(rest) - n : In!SplitTo(rest, n).left[i] = rest[n + i]
<1>1. Len(rest) \in Nat /\ \A i \in 1 .. Len(rest) : rest[i] \in In!Piece
  BY LenProperties DEF Stream
<1>2. /\ In!SplitTo(rest, n).raw = SubSeq(rest, 1, n)
      /\ In!SplitTo(rest, n).left = SubSeq(rest, n + 1, Len(rest))
      /\ In!SplitTo(rest, n).left = In!Advance(rest, n)
  BY DEF In!SplitTo, In!Advance
<1>3. /\ SubSeq(rest, 1, n) \in Stream /\ Len(SubSeq(rest, 1, n)) = n
      /\ \A i \in 1 .. n : SubSeq(rest, 1, n)[i] = rest[i]
  <2>1. 1 \in Int /\ n \in Int /\ 1 <= n /\ n - 1 + 1 = n /\ \A i \in 1 .. n : rest[i] \in In!Piece
    BY <1>1
  <2>2. /\ SubSeq(rest, 1, n) \in Stream
        /\ Len(SubSeq(rest, 1, n)) = n - 1 + 1
        /\ \A i \in 1 .. n - 1 + 1 : SubSeq(rest, 1, n)[i] = rest[1 + i - 1]
    BY <2>1, SubSeqProperties DEF Stream
  <2>3. \A i \in 1 .. n : 1 + i - 1 = i
    OBVIOUS
  <2>4. \A i \in 1 .. n : SubSeq(rest, 1, n)[i] = rest[i]
    BY <2>1, <2>2, <2>3
  <2> QED
    BY <2>1, <2>2, <2>4
<1>4. SubSeq(rest, 1, n) # <<>>
  BY <1>3, EmptySeq
<1>5. SubSeq(rest, 1, n) \o SubSeq(rest, n + 1, Len(rest)) = rest
  <2>1. 1 \in 1 .. Len(rest) + 1 /\ n \in 1 - 1 .. Len(rest) /\ Len(rest) \in n .. Len(rest)
    BY <1>1
  <2>2. SubSeq(rest, 1, n) \o SubSeq(rest, n + 1, Len(rest)) = SubSeq(rest, 1, Len(rest))
    BY <2>1, ConcatAdjacentSubSeq DEF Stream
  <2> QED
    BY <2>2, SubSeqFull DEF Stream
<1>6. n \in 0 .. Len(rest)
  BY <1>1
<1> QED
  BY <1>2, <1>3, <1>4, <1>5, <1>6, AdvanceType DEF Raw

LEMMA ParseNextTypes ==
  ASSUME NEW buf \in Stream, In!ParseNext(buf).found
  PROVE  /\ In!ParseNext(buf).raw \in Raw
         /\ In!ParseNext(buf).left \in Stream
         /\ Len(In!ParseNext(buf).left) < Len(buf)
<1> DEFINE n == Len(buf) + 1
           Good(x) == x.found => x.raw \in Raw /\ x.left \in Stream /\ Len(x.left) < Len(buf)
<1>1. Len(buf) \in Nat /\ n \in Nat
  BY LenProperties DEF Stream
<1>2. PICK from :
        /\ In!ParseNext(buf) = from[1]
        /\ \A i \in 1 .. n :
             from[i] = IF Skips(In!Advance(buf, i - 1)) THEN from[i + 1]
                       ELSE Value(In!Advance(buf, i - 1))
  BY ParseNextIs
<1> DEFINE T == {k \in 1 .. n : Good(from[k])}
<1>3. ASSUME NEW k \in 1 .. n, \A j \in k + 1 .. n : j \in T
      PROVE  k \in T
  <2> DEFINE rest == In!Advance(buf, k - 1)
  <2>1. k - 1 \in 0 .. Len(buf)
    BY <1>1
  <2>2. rest \in Stream /\ Len(rest) = Len(buf) - (k - 1)
    BY <2>1, AdvanceType
  <2> HIDE DEF rest
  <2>3. CASE Skips(rest)
    <3>1. k # n
      <4>1. Len(rest) # 0
        BY <2>2, <2>3, EmptySeq DEF Skips, Stream
      <4> QED
        BY <1>1, <2>2, <4>1
    <3>2. k + 1 \in k + 1 .. n
      BY <1>1, <3>1
    <3>3. k + 1 \in T
      BY <1>3, <3>2
    <3>4. from[k] = from[k + 1]
      BY <1>2, <2>3 DEF rest
    <3> QED
      BY <3>3, <3>4
  <2>4. CASE ~Skips(rest)
    <3>1. from[k] = Value(rest)
      BY <1>2, <2>4 DEF rest
    <3>2. ASSUME Value(rest).found
          PROVE  /\ Value(rest).raw \in Raw /\ Value(rest).left \in Stream
                 /\ Len(Value(rest).left) < Len(buf)
      <4>1. PICK m \in 2 .. Len(rest) : Value(rest) = In!SplitTo(rest, m)
        BY <2>2, <3>2, SplitTypes
      <4> DEFINE x == In!SplitTo(rest, m)
      <4>a. x.raw \in Raw /\ x.left \in Stream /\ Len(x.left) = Len(rest) - m
        BY <2>2, SplitIs
      <4> HIDE DEF x
      <4>2. /\ Value(rest).raw \in Raw /\ Value(rest).left \in Stream
            /\ Len(Value(rest).left) = Len(rest) - m
        BY <4>1, <4>a DEF x
      <4>3. Len(rest) - m < Len(buf)
        BY <1>1, <2>2
      <4> QED
        BY <4>2, <4>3
    <3> QED
      BY <3>1, <3>2
  <2> QED
    BY <2>3, <2>4
<1> HIDE DEF T
<1>4. \A k \in 1 .. n : k \in T
  BY <1>1, <1>3, Downward
<1> QED
  BY <1>1, <1>2, <1>4 DEF T

-----------------------------------------------------------------------------
(* The links: how often something occurs.                                  *)

\* The operators of the library are the same in every module.
LEMMA InLibrary ==
  /\ \A S : In!Cardinality(S) = Cardinality(S) /\ In!IsFiniteSet(S) = IsFiniteSet(S)
  /\ \A s : In!ToSet(s) = ToSet(s) /\ In!FlattenSeq(s) = FlattenSeq(s)
<1>1. \A S : In!Cardinality(S) = Cardinality(S)
  BY DEF In!Cardinality, Cardinality
<1>2. \A S : In!IsFiniteSet(S) = IsFiniteSet(S)
  BY DEF In!IsFiniteSet, IsFiniteSet
<1>3. \A s : In!ToSet(s) = ToSet(s)
  BY DEF In!ToSet, ToSet
<1>4. \A s : In!FlattenSeq(s) = FlattenSeq(s)
  BY DEF In!FlattenSeq, FlattenSeq
<1> QED
  BY <1>1, <1>2, <1>3, <1>4

LEMMA PlacesFinite ==
  ASSUME NEW S, NEW s \in Seq(S), NEW x
  PROVE  IsFiniteSet({i \in DOMAIN s : s[i] = x})
<1>1. Len(s) \in Nat /\ DOMAIN s = 1 .. Len(s)
  BY LenProperties
<1>2. \A n \in Nat : IsFiniteSet(1 .. n)
  BY FS_Interval
<1> QED
  BY <1>1, <1>2, FS_Subset

LEMMA TimesType ==
  ASSUME NEW S, NEW s \in Seq(S), NEW x
  PROVE  In!Times(s, x) \in Nat
<1>1. IsFiniteSet({i \in DOMAIN s : s[i] = x})
  BY PlacesFinite
<1> QED
  BY <1>1, FS_CardinalityType, InLibrary DEF In!Times

LEMMA TimesAppend ==
  ASSUME NEW S, NEW s \in Seq(S), NEW y \in S, NEW x
  PROVE  In!Times(Append(s, y), x) = In!Times(s, x) + (IF x = y THEN 1 ELSE 0)
<1> DEFINE t == Append(s, y)
           A == {i \in DOMAIN s : s[i] = x}
           B == {i \in DOMAIN t : t[i] = x}
<1>1. /\ Len(s) \in Nat /\ DOMAIN s = 1 .. Len(s)
      /\ t \in Seq(S) /\ Len(t) = Len(s) + 1 /\ DOMAIN t = 1 .. Len(t)
      /\ \A i \in 1 .. Len(s) : t[i] = s[i]
      /\ t[Len(s) + 1] = y
  BY AppendProperties, LenProperties
<1> HIDE DEF t
<1>2. IsFiniteSet(A)
  BY PlacesFinite
<1>3. CASE x = y
  <2>1. B = A \cup {Len(s) + 1} /\ Len(s) + 1 \notin A
    BY <1>1, <1>3
  <2> HIDE DEF A, B
  <2>2. Cardinality(B) = Cardinality(A) + 1
    BY <1>2, <2>1, FS_AddElement
  <2> QED
    BY <1>3, <2>2, InLibrary DEF In!Times, A, B, t
<1>4. CASE x # y
  <2>1. B = A
    BY <1>1, <1>4
  <2>2. Cardinality(A) \in Nat
    BY <1>2, FS_CardinalityType
  <2>3. In!Times(Append(s, y), x) = Cardinality(B) /\ In!Times(s, x) = Cardinality(A)
    BY InLibrary DEF In!Times, t
  <2> HIDE DEF A, B
  <2> QED
    BY <1>4, <2>1, <2>2, <2>3
<1> QED
  BY <1>3, <1>4

Holders(x) == {k \in Link : x \in pending[k]}
Bytes == [i \in DOMAIN published |-> published[i].serialized_bytes]
Out(x) == In!Times(Bytes, x) + Cardinality(Holders(x))

-----------------------------------------------------------------------------
(* The links: types, and each accepted frame once.                         *)

OnBus == [source_id : Link, serialized_bytes : Raw, target : (0 .. 255) \X (0 .. 255)]

InTypes ==
  /\ wire \in [Link -> Stream] /\ read \in [Link -> Stream]
  /\ buffer \in [Link -> Stream] /\ \A l \in Link : Len(buffer[l]) <= BufferMax
  /\ slices \in [Link -> Seq(Raw)]
  /\ pending \in [Link -> SUBSET Raw]
  /\ \A l \in Link : pending[l] = {} \/ \E raw \in Raw : pending[l] = {raw}
  /\ \A l \in Link : pending[l] \subseteq recent \cup In!ToSet(lapsed)
  /\ recent \subseteq Raw /\ lapsed \in Seq(Raw)
  /\ noted \subseteq Link \X [sys : 0 .. 255, comp : 0 .. 255]
  /\ published \in Seq(OnBus)
  /\ total \in 0 .. MaxFrames /\ damaged \subseteq Link

\* What is remembered is on its way or published, no slice more often than it was forgotten,
\* and once more if it is remembered.
OnceOK ==
  /\ \A x \in Raw :
       /\ Out(x) <= In!Times(lapsed, x) + (IF x \in recent THEN 1 ELSE 0)
       /\ x \in recent => Out(x) >= 1
       /\ \A l \in Link : x \in In!ToSet(slices[l]) /\ In!AcceptFrame(l, In!Parsed(x))
                            => Out(x) >= 1
  /\ \A l \in Link : \A x \in pending[l] : In!AcceptFrame(l, In!Parsed(x))
  /\ \A m \in In!ToSet(published) :
       /\ In!AcceptFrame(m.source_id, In!Parsed(m.serialized_bytes))
       /\ <<m.source_id, Sender[In!Parsed(m.serialized_bytes)]>> \in noted

LEMMA InAssumed == In!IngressAssumption
BY PartsAssumption DEF PartsAssumption

LEMMA ParsedIsFrame == ASSUME NEW raw \in Raw PROVE In!Parsed(raw) \in Frame
<1>1. Len(raw) \in 1 .. Len(raw)
  BY EmptySeq, LenProperties DEF Raw, Stream
<1>2. raw[Len(raw)] \in In!Piece
  BY <1>1, ElementOfSeq DEF Raw, Stream
<1> QED
  BY <1>2, Pieces DEF In!Parsed

LEMMA BytesType ==
  ASSUME InTypes
  PROVE  Bytes \in Seq(Raw)
<1>1. Len(published) \in Nat /\ DOMAIN published = 1 .. Len(published)
      /\ \A i \in 1 .. Len(published) : published[i] \in OnBus
  BY LenProperties DEF InTypes
<1>2. \A i \in 1 .. Len(published) : published[i].serialized_bytes \in Raw
  BY <1>1 DEF OnBus
<1>3. Bytes \in [1 .. Len(published) -> Raw]
  BY <1>1, <1>2 DEF Bytes
<1> QED
  BY <1>1, <1>3

LEMMA OutType ==
  ASSUME InTypes, NEW x
  PROVE  /\ In!Times(Bytes, x) \in Nat /\ IsFiniteSet(Holders(x))
         /\ Cardinality(Holders(x)) \in Nat /\ In!Times(lapsed, x) \in Nat
<1>1. IsFiniteSet(Link)
  BY InAssumed, InLibrary DEF In!IngressAssumption
<1>2. IsFiniteSet(Holders(x))
  BY <1>1, FS_Subset DEF Holders
<1> QED
  BY <1>2, BytesType, TimesType, FS_CardinalityType DEF InTypes

\* A step that leaves alone what is published and on its way, and does not forget.
LEMMA OnceSame ==
  ASSUME OnceOK, UNCHANGED <<pending, recent, noted, published, slices, lapsed>>
  PROVE  OnceOK'
BY DEF OnceOK, Out, Holders, Bytes

\* pending of one link changes from nothing to at most one slice.
LEMMA HoldersMore ==
  ASSUME InTypes, NEW l \in Link, pending[l] = {}, NEW raw \in Raw,
         pending' = [pending EXCEPT ![l] = {raw}], NEW x
  PROVE  Cardinality(Holders(x)') = Cardinality(Holders(x)) + (IF x = raw THEN 1 ELSE 0)
<1>1. pending \in [Link -> SUBSET Raw]
  BY DEF InTypes
<1>2. IsFiniteSet(Holders(x)) /\ Cardinality(Holders(x)) \in Nat
  BY OutType
<1>3. CASE x = raw
  <2>1. Holders(x)' = Holders(x) \cup {l} /\ l \notin Holders(x)
    BY <1>1, <1>3 DEF Holders
  <2>2. Cardinality(Holders(x)') = Cardinality(Holders(x)) + 1
    BY <1>2, <2>1, FS_AddElement
  <2> QED
    BY <1>3, <2>2
<1>4. CASE x # raw
  <2>1. Holders(x)' = Holders(x)
    BY <1>1, <1>4 DEF Holders
  <2> QED
    BY <1>2, <1>4, <2>1
<1> QED
  BY <1>3, <1>4

LEMMA HoldersLess ==
  ASSUME InTypes, NEW l \in Link, NEW raw \in Raw, pending[l] = {raw},
         pending' = [pending EXCEPT ![l] = {}], NEW x
  PROVE  Cardinality(Holders(x)') = Cardinality(Holders(x)) - (IF x = raw THEN 1 ELSE 0)
<1>1. pending \in [Link -> SUBSET Raw]
  BY DEF InTypes
<1>2. IsFiniteSet(Holders(x)) /\ Cardinality(Holders(x)) \in Nat
  BY OutType
<1>3. CASE x = raw
  <2>1. Holders(x)' = Holders(x) \ {l} /\ l \in Holders(x)
    BY <1>1, <1>3 DEF Holders
  <2>2. Cardinality(Holders(x)') = Cardinality(Holders(x)) - 1
    BY <1>2, <2>1, FS_RemoveElement
  <2> QED
    BY <1>3, <2>2
<1>4. CASE x # raw
  <2>1. Holders(x)' = Holders(x)
    BY <1>1, <1>4 DEF Holders
  <2> QED
    BY <1>2, <1>4, <2>1
<1> QED
  BY <1>3, <1>4

\* What is in a sequence, and in a longer one.
LEMMA ToSetAppend ==
  ASSUME NEW S, NEW s \in Seq(S), NEW y \in S
  PROVE  In!ToSet(Append(s, y)) = In!ToSet(s) \cup {y}
<1> DEFINE t == Append(s, y)
<1>1. /\ Len(s) \in Nat /\ DOMAIN s = 1 .. Len(s)
      /\ DOMAIN t = 1 .. Len(s) + 1
      /\ \A i \in 1 .. Len(s) : t[i] = s[i]
      /\ t[Len(s) + 1] = y
  BY AppendProperties, LenProperties
<1> HIDE DEF t
<1>2. \A i \in 1 .. Len(s) + 1 : i \in 1 .. Len(s) \/ i = Len(s) + 1
  BY <1>1
<1>3. Len(s) + 1 \in 1 .. Len(s) + 1 /\ \A i \in 1 .. Len(s) : i \in 1 .. Len(s) + 1
  BY <1>1
<1>4. In!ToSet(t) \subseteq In!ToSet(s) \cup {y}
  BY <1>1, <1>2 DEF In!ToSet
<1>5. In!ToSet(s) \cup {y} \subseteq In!ToSet(t)
  BY <1>1, <1>3 DEF In!ToSet
<1> QED
  BY <1>4, <1>5 DEF t

\* A slice has been parsed, and is about to be published if it is new and passes.
LEMMA CheckTypes ==
  ASSUME InTypes, NEW l \in Link, pending[l] = {}, NEW raw \in Raw, In!Check(l, raw),
         slices' = [slices EXCEPT ![l] = Append(@, raw)], lapsed' = lapsed
  PROVE  /\ slices' \in [Link -> Seq(Raw)]
         /\ pending' \in [Link -> SUBSET Raw]
         /\ \A k \in Link : pending'[k] = {} \/ \E r \in Raw : pending'[k] = {r}
         /\ \A k \in Link : pending'[k] \subseteq recent' \cup In!ToSet(lapsed)'
         /\ recent' \subseteq Raw
<1>1. slices' \in [Link -> Seq(Raw)]
  <2>1. Append(slices[l], raw) \in Seq(Raw)
    BY AppendProperties DEF InTypes
  <2> QED
    BY <2>1 DEF InTypes
<1>2. /\ recent \subseteq recent' /\ recent' \subseteq recent \cup {raw}
      /\ \/ pending' = [pending EXCEPT ![l] = {raw}] /\ raw \in recent'
         \/ pending' = [pending EXCEPT ![l] = {}]
  BY DEF In!Check
<1>3. In!ToSet(lapsed)' = In!ToSet(lapsed)
  BY DEF In!ToSet
<1>4. CASE pending' = [pending EXCEPT ![l] = {raw}] /\ raw \in recent'
  <2>1. \A k \in Link : pending'[k] = IF k = l THEN {raw} ELSE pending[k]
    BY <1>4 DEF InTypes
  <2>2. pending' \in [Link -> SUBSET Raw] /\ recent' \subseteq Raw
    BY <1>2, <1>4 DEF InTypes
  <2>3. \A k \in Link : pending'[k] = {} \/ \E r \in Raw : pending'[k] = {r}
    BY <2>1 DEF InTypes
  <2>4. ASSUME NEW k \in Link PROVE pending'[k] \subseteq recent' \cup In!ToSet(lapsed)'
    <3>1. CASE k = l
      BY <1>4, <2>1, <3>1
    <3>2. CASE k # l
      BY <1>2, <1>3, <2>1, <3>2 DEF InTypes
    <3> QED
      BY <3>1, <3>2
  <2> QED
    BY <1>1, <2>2, <2>3, <2>4
<1>5. CASE pending' = [pending EXCEPT ![l] = {}]
  BY <1>1, <1>2, <1>3, <1>5 DEF InTypes
<1> QED
  BY <1>2, <1>4, <1>5

LEMMA CheckOnce ==
  ASSUME InTypes, OnceOK, NEW l \in Link, pending[l] = {}, NEW raw \in Raw, In!Check(l, raw),
         slices' = [slices EXCEPT ![l] = Append(@, raw)],
         UNCHANGED <<published, noted, lapsed>>
  PROVE  OnceOK'
<1>1. Bytes' = Bytes /\ In!ToSet(published)' = In!ToSet(published)
  BY DEF Bytes, In!ToSet
<1>2. \A x : In!Times(Bytes, x)' = In!Times(Bytes, x) /\ In!Times(lapsed, x)' = In!Times(lapsed, x)
  BY <1>1 DEF In!Times
<1>3. /\ slices[l] \in Seq(Raw) /\ slices' \in [Link -> Seq(Raw)]
      /\ pending \in [Link -> SUBSET Raw]
  BY CheckTypes DEF InTypes
<1>4. In!ToSet(slices[l])' = In!ToSet(slices[l]) \cup {raw}
  <2>1. slices'[l] = Append(slices[l], raw)
    BY DEF InTypes
  <2>2. In!ToSet(Append(slices[l], raw)) = In!ToSet(slices[l]) \cup {raw}
    BY <1>3, ToSetAppend
  <2> QED
    BY <2>1, <2>2 DEF In!ToSet
<1>5. \A k \in Link : k # l => In!ToSet(slices[k])' = In!ToSet(slices[k])
  BY DEF InTypes, In!ToSet
<1>6. \A k \in Link : \A x : In!AcceptFrame(k, In!Parsed(x))' = In!AcceptFrame(k, In!Parsed(x))
  BY DEF In!AcceptFrame, In!CheckFilters, In!Parsed
<1>7. CASE In!AcceptFrame(l, In!Parsed(raw)) /\ raw \notin recent
  <2>1. recent' = recent \cup {raw} /\ pending' = [pending EXCEPT ![l] = {raw}]
    BY <1>7 DEF In!Check
  <2>2. \A x : Out(x)' = Out(x) + (IF x = raw THEN 1 ELSE 0)
    <3> SUFFICES ASSUME NEW x PROVE Out(x)' = Out(x) + (IF x = raw THEN 1 ELSE 0)
      OBVIOUS
    <3>1. Cardinality(Holders(x)') = Cardinality(Holders(x)) + (IF x = raw THEN 1 ELSE 0)
      BY <2>1, HoldersMore
    <3>2. In!Times(Bytes, x) \in Nat /\ Cardinality(Holders(x)) \in Nat
      BY OutType
    <3>3. Out(x)' = In!Times(Bytes, x) + Cardinality(Holders(x)')
      BY <1>2 DEF Out
    <3> QED
      BY <3>1, <3>2, <3>3 DEF Out
  <2>3. \A x : Out(x) \in Nat /\ In!Times(lapsed, x) \in Nat
    BY OutType DEF Out
  <2>4. \A x \in Raw :
          /\ Out(x)' <= In!Times(lapsed, x) + (IF x \in recent' THEN 1 ELSE 0)
          /\ x \in recent' => Out(x)' >= 1
          /\ Out(x)' >= Out(x) /\ Out(raw)' >= 1
    BY <1>7, <2>1, <2>2, <2>3 DEF OnceOK
  <2>5. ASSUME NEW k \in Link, NEW x \in Raw, x \in In!ToSet(slices[k])',
               In!AcceptFrame(k, In!Parsed(x))
        PROVE  Out(x)' >= 1
    <3>1. CASE x = raw
      BY <2>4, <3>1
    <3>2. CASE x # raw
      <4>1. Out(x) >= 1
        BY <1>4, <1>5, <2>5, <3>2 DEF OnceOK
      <4> QED
        BY <2>2, <2>3, <2>4, <4>1
    <3> QED
      BY <3>1, <3>2
  <2>6. \A k \in Link : \A x \in pending'[k] : In!AcceptFrame(k, In!Parsed(x))
    BY <1>3, <1>7, <2>1 DEF OnceOK
  <2> QED
    BY <1>1, <1>2, <1>6, <2>4, <2>5, <2>6 DEF OnceOK
<1>8. CASE ~(In!AcceptFrame(l, In!Parsed(raw)) /\ raw \notin recent)
  <2>1. recent' = recent /\ pending' = [pending EXCEPT ![l] = {}]
    BY <1>8 DEF In!Check
  <2>2. pending' = pending
    BY <1>3, <2>1
  <2>3. \A x : Holders(x)' = Holders(x)
    BY <2>2 DEF Holders
  <2>4. \A x : Out(x)' = Out(x)
    BY <1>2, <2>3 DEF Out
  <2>5. ASSUME NEW k \in Link, NEW x \in Raw, x \in In!ToSet(slices[k])',
               In!AcceptFrame(k, In!Parsed(x))
        PROVE  Out(x) >= 1
    BY <1>4, <1>5, <1>8, <2>5 DEF OnceOK
  <2> QED
    BY <1>1, <1>2, <1>6, <2>1, <2>2, <2>4, <2>5 DEF OnceOK
<1> QED
  BY <1>7, <1>8

IngressInv == InTypes /\ OnceOK

LEMMA PublishFrameKeeps ==
  ASSUME IngressInv, NEW l \in Link, In!Publish(l)
  PROVE  IngressInv'
<1>1. PICK raw \in pending[l] :
        /\ noted' = noted \cup {<<l, Sender[In!Parsed(raw)]>>}
        /\ published' = Append(published,
             [source_id |-> l, serialized_bytes |-> raw,
              target |-> In!ExtractTarget(In!Parsed(raw))])
        /\ pending' = [pending EXCEPT ![l] = {}]
        /\ UNCHANGED <<wire, buffer, recent, total, damaged, read, slices, lapsed>>
  BY DEF In!Publish, In!history
<1> DEFINE f == In!Parsed(raw)
           m == [source_id |-> l, serialized_bytes |-> raw, target |-> In!ExtractTarget(f)]
<1>2. raw \in Raw /\ pending[l] = {raw} /\ pending \in [Link -> SUBSET Raw]
  BY DEF IngressInv, InTypes
<1>3. f \in Frame
  BY <1>2, ParsedIsFrame
<1> HIDE DEF f
<1>4. m \in OnBus
  <2>1. MsgTarget[f] \in [fields : {"both", "system", "none"}, sys : 0 .. 255, comp : 0 .. 255]
    BY <1>3, InAssumed DEF In!IngressAssumption
  <2>2. In!ExtractTarget(f) \in (0 .. 255) \X (0 .. 255)
    BY <2>1, SMTT(30) DEF In!ExtractTarget
  <2> QED
    BY <1>2, <2>2 DEF OnBus
<1>5. Sender[f] \in [sys : 0 .. 255, comp : 0 .. 255]
  BY <1>3, InAssumed DEF In!IngressAssumption
<1>6. published' = Append(published, m) /\ published \in Seq(OnBus)
  BY <1>1 DEF f, IngressInv, InTypes
<1> HIDE DEF m
<1>7. published' \in Seq(OnBus) /\ In!ToSet(published)' = In!ToSet(published) \cup {m}
  <2>1. In!ToSet(published)' = In!ToSet(published')
    BY DEF In!ToSet
  <2> QED
    BY <1>4, <1>6, <2>1, AppendProperties, ToSetAppend
<1>8. InTypes'
  <2>1. pending' \in [Link -> SUBSET Raw]
    BY <1>1, <1>2
  <2>2. \A k \in Link : pending'[k] \subseteq pending[k]
    BY <1>1, <1>2
  <2>3. \A k \in Link : pending'[k] = {} \/ \E r \in Raw : pending'[k] = {r}
    BY <1>1, <1>2 DEF IngressInv, InTypes
  <2>4. noted' \subseteq Link \X [sys : 0 .. 255, comp : 0 .. 255]
    <3>1. noted' = noted \cup {<<l, Sender[f]>>}
      BY <1>1 DEF f
    <3>2. noted \subseteq Link \X [sys : 0 .. 255, comp : 0 .. 255]
      BY DEF IngressInv, InTypes
    <3> QED
      BY <1>5, <3>1, <3>2
  <2>5. In!ToSet(lapsed)' = In!ToSet(lapsed)
    BY <1>1 DEF In!ToSet
  <2> QED
    BY <1>1, <1>7, <2>1, <2>2, <2>3, <2>4, <2>5 DEF IngressInv, InTypes
<1>9. OnceOK'
  <2>1. Bytes \in Seq(Raw) /\ InTypes
    BY BytesType DEF IngressInv
  <2>2. Bytes' = Append(Bytes, raw)
    <3>1. /\ Len(published) \in Nat /\ DOMAIN published = 1 .. Len(published)
          /\ DOMAIN published' = 1 .. Len(published) + 1
          /\ \A i \in 1 .. Len(published) : published'[i] = published[i]
          /\ published'[Len(published) + 1] = m
      BY <1>4, <1>6, AppendProperties, LenProperties
    <3>2. Bytes' = [i \in 1 .. Len(published) + 1 |-> published'[i].serialized_bytes]
      BY <3>1 DEF Bytes
    <3>3. Bytes = [i \in 1 .. Len(published) |-> published[i].serialized_bytes]
      BY <3>1 DEF Bytes
    <3>4. Len(Bytes) = Len(published)
      BY <2>1, <3>1, <3>3, LenProperties
    <3> DEFINE t == Append(Bytes, raw)
    <3>5. /\ t \in Seq(Raw) /\ Len(t) = Len(published) + 1
          /\ \A i \in 1 .. Len(published) : t[i] = published[i].serialized_bytes
          /\ t[Len(published) + 1] = raw
      BY <1>2, <2>1, <3>3, <3>4, AppendProperties
    <3>6. t \in [1 .. Len(published) + 1 -> Raw]
      BY <3>5, LenProperties
    <3>7. m.serialized_bytes = raw
      BY DEF m
    <3>8. \A i \in 1 .. Len(published) + 1 : Bytes'[i] = t[i]
      <4>1. \A i \in 1 .. Len(published) + 1 : i \in 1 .. Len(published) \/ i = Len(published) + 1
        BY <3>1
      <4> QED
        BY <3>1, <3>2, <3>5, <3>7, <4>1
    <3> HIDE DEF t
    <3>9. Bytes' = t
      BY <3>2, <3>6, <3>8
    <3> QED
      BY <3>9 DEF t
  <2>3. \A x : Out(x)' = Out(x)
    <3> SUFFICES ASSUME NEW x PROVE Out(x)' = Out(x)
      OBVIOUS
    <3>1. Cardinality(Holders(x)') = Cardinality(Holders(x)) - (IF x = raw THEN 1 ELSE 0)
      BY <1>1, <1>2, <2>1, HoldersLess
    <3>2. In!Times(Bytes', x) = In!Times(Bytes, x) + (IF x = raw THEN 1 ELSE 0)
      BY <1>2, <2>1, <2>2, TimesAppend
    <3>3. In!Times(Bytes, x) \in Nat /\ Cardinality(Holders(x)) \in Nat
      BY <2>1, OutType
    <3>4. Out(x)' = In!Times(Bytes', x) + Cardinality(Holders(x)')
      BY DEF Out, In!Times
    <3>5. Out(x) = In!Times(Bytes, x) + Cardinality(Holders(x))
      BY DEF Out
    <3> HIDE DEF Out
    <3> QED
      BY <3>1, <3>2, <3>3, <3>4, <3>5
  <2>4. \A k \in Link : \A x : In!AcceptFrame(k, In!Parsed(x))' = In!AcceptFrame(k, In!Parsed(x))
    BY DEF In!AcceptFrame, In!CheckFilters, In!Parsed
  <2>5. \A x : In!Times(lapsed, x)' = In!Times(lapsed, x)
    BY <1>1 DEF In!Times
  <2>6. In!AcceptFrame(l, f)
    BY <1>2 DEF f, IngressInv, OnceOK
  <2>7. ASSUME NEW q \in In!ToSet(published)'
        PROVE  /\ In!AcceptFrame(q.source_id, In!Parsed(q.serialized_bytes))
               /\ <<q.source_id, Sender[In!Parsed(q.serialized_bytes)]>> \in noted'
    <3>1. CASE q = m
      BY <1>1, <2>6, <3>1 DEF m, f
    <3>2. CASE q \in In!ToSet(published)
      BY <1>1, <3>2 DEF IngressInv, OnceOK
    <3> QED
      BY <1>7, <3>1, <3>2
  <2>8. \A k \in Link : \A x \in pending'[k] : x \in pending[k]
    BY <1>1, <1>2
  <2>9. \A k \in Link : In!ToSet(slices[k])' = In!ToSet(slices[k])
    BY <1>1 DEF In!ToSet
  <2>10. \A x \in Raw :
           /\ Out(x)' <= In!Times(lapsed, x)' + (IF x \in recent' THEN 1 ELSE 0)
           /\ x \in recent' => Out(x)' >= 1
           /\ \A k \in Link : x \in In!ToSet(slices[k])' /\ In!AcceptFrame(k, In!Parsed(x))
                                => Out(x)' >= 1
    <3> HIDE DEF Out
    <3> QED
      BY <1>1, <2>3, <2>5, <2>9 DEF IngressInv, OnceOK
  <2>11. \A k \in Link : \A x \in pending'[k] : In!AcceptFrame(k, In!Parsed(x))
    BY <2>8 DEF IngressInv, OnceOK
  <2>12. \A q \in In!ToSet(published)' :
           /\ In!AcceptFrame(q.source_id, In!Parsed(q.serialized_bytes))'
           /\ <<q.source_id, Sender[In!Parsed(q.serialized_bytes)]>> \in noted'
    <3>1. \A q : In!AcceptFrame(q.source_id, In!Parsed(q.serialized_bytes))'
                 = In!AcceptFrame(q.source_id, In!Parsed(q.serialized_bytes))
      BY DEF In!AcceptFrame, In!CheckFilters, In!Parsed
    <3> QED
      BY <2>7, <3>1
  <2> QED
    BY <2>4, <2>10, <2>11, <2>12 DEF OnceOK
<1> QED
  BY <1>8, <1>9 DEF IngressInv

\* A frame is forgotten: it may come once more.
LEMMA ForgetKeeps ==
  ASSUME IngressInv, NEW raw \in recent, In!Forget(raw)
  PROVE  IngressInv'
<1>1. /\ recent' = recent \ {raw} /\ lapsed' = Append(lapsed, raw)
      /\ UNCHANGED <<wire, buffer, pending, noted, published, total, damaged, read, slices>>
  BY DEF In!Forget
<1>2. raw \in Raw /\ lapsed \in Seq(Raw) /\ InTypes
  BY DEF IngressInv, InTypes
<1>3. lapsed' \in Seq(Raw) /\ In!ToSet(lapsed') = In!ToSet(lapsed) \cup {raw}
  BY <1>1, <1>2, AppendProperties, ToSetAppend
<1>4. InTypes'
  <2>1. recent' \cup In!ToSet(lapsed') = recent \cup In!ToSet(lapsed)
    BY <1>1, <1>3
  <2>2. In!ToSet(lapsed)' = In!ToSet(lapsed')
    BY DEF In!ToSet
  <2> QED
    BY <1>1, <1>2, <1>3, <2>1, <2>2 DEF InTypes
<1>5. \A x : Out(x)' = Out(x)
  BY <1>1 DEF Out, Holders, Bytes, In!Times
<1>6. \A x : In!Times(lapsed, x)' = In!Times(lapsed, x) + (IF x = raw THEN 1 ELSE 0)
  <2>1. \A x : In!Times(lapsed, x)' = In!Times(lapsed', x)
    BY DEF In!Times
  <2> QED
    BY <1>1, <1>2, <2>1, TimesAppend
<1>7. \A x : In!Times(lapsed, x) \in Nat /\ Out(x) \in Nat
  BY <1>2, OutType DEF Out
<1>8. \A k \in Link : \A x : In!AcceptFrame(k, In!Parsed(x))' = In!AcceptFrame(k, In!Parsed(x))
  BY DEF In!AcceptFrame, In!CheckFilters, In!Parsed
<1>9. /\ In!ToSet(published)' = In!ToSet(published)
      /\ \A k \in Link : In!ToSet(slices[k])' = In!ToSet(slices[k])
  BY <1>1 DEF In!ToSet
<1>10. ASSUME NEW x \in Raw
       PROVE  /\ Out(x)' <= In!Times(lapsed, x)' + (IF x \in recent' THEN 1 ELSE 0)
              /\ x \in recent' => Out(x)' >= 1
              /\ \A l \in Link : x \in In!ToSet(slices[l])' /\ In!AcceptFrame(l, In!Parsed(x))'
                                   => Out(x)' >= 1
  <2>1. Out(x) <= In!Times(lapsed, x) + (IF x \in recent THEN 1 ELSE 0)
    BY DEF IngressInv, OnceOK
  <2>2. In!Times(lapsed, x) + (IF x \in recent THEN 1 ELSE 0)
          <= In!Times(lapsed, x)' + (IF x \in recent' THEN 1 ELSE 0)
    BY <1>1, <1>6, <1>7
  <2> HIDE DEF Out
  <2>3. Out(x)' <= In!Times(lapsed, x)' + (IF x \in recent' THEN 1 ELSE 0)
    BY <1>5, <1>6, <1>7, <2>1, <2>2
  <2> QED
    BY <1>1, <1>5, <1>8, <1>9, <2>3 DEF IngressInv, OnceOK
<1>11. \A k \in Link : \A x \in pending'[k] : In!AcceptFrame(k, In!Parsed(x))'
  BY <1>1, <1>8 DEF IngressInv, OnceOK
<1>12. \A m \in In!ToSet(published)' :
         /\ In!AcceptFrame(m.source_id, In!Parsed(m.serialized_bytes))'
         /\ <<m.source_id, Sender[In!Parsed(m.serialized_bytes)]>> \in noted'
  <2>1. \A m : In!AcceptFrame(m.source_id, In!Parsed(m.serialized_bytes))'
               = In!AcceptFrame(m.source_id, In!Parsed(m.serialized_bytes))
    BY DEF In!AcceptFrame, In!CheckFilters, In!Parsed
  <2> QED
    BY <1>1, <1>9, <2>1 DEF IngressInv, OnceOK
<1>13. OnceOK'
  BY <1>10, <1>11, <1>12 DEF OnceOK
<1> QED
  BY <1>4, <1>13 DEF IngressInv

\* A step that neither parses, publishes nor forgets.
LEMMA OthersSame ==
  ASSUME IngressInv, UNCHANGED <<pending, recent, noted, published, slices, lapsed>>,
         wire' \in [Link -> Stream], read' \in [Link -> Stream],
         buffer' \in [Link -> Stream], \A l \in Link : Len(buffer'[l]) <= BufferMax,
         total' \in 0 .. MaxFrames, damaged' \subseteq Link
  PROVE  IngressInv'
<1>1. In!ToSet(lapsed)' = In!ToSet(lapsed)
  BY DEF In!ToSet
<1>2. InTypes'
  BY <1>1 DEF IngressInv, InTypes
<1>3. /\ \A k \in Link : \A x : In!AcceptFrame(k, In!Parsed(x))' = In!AcceptFrame(k, In!Parsed(x))
      /\ \A m : In!AcceptFrame(m.source_id, In!Parsed(m.serialized_bytes))'
                = In!AcceptFrame(m.source_id, In!Parsed(m.serialized_bytes))
      /\ In!ToSet(published)' = In!ToSet(published)
      /\ \A k \in Link : In!ToSet(slices[k])' = In!ToSet(slices[k])
      /\ \A x : Out(x)' = Out(x) /\ In!Times(lapsed, x)' = In!Times(lapsed, x)
  BY DEF In!AcceptFrame, In!CheckFilters, In!Parsed, In!ToSet, Out, Holders, Bytes, In!Times
<1>4. OnceOK'
  <2> HIDE DEF Out
  <2> QED
    BY <1>3 DEF IngressInv, OnceOK
<1> QED
  BY <1>2, <1>4 DEF IngressInv

LEMMA SendFrameKeeps ==
  ASSUME IngressInv, NEW l \in Link, NEW f \in Frame, In!Send(l, f)
  PROVE  IngressInv'
<1>1. /\ total < MaxFrames /\ total' = total + 1
      /\ wire' = [wire EXCEPT ![l] = @ \o In!Whole(f)]
      /\ UNCHANGED <<buffer, pending, recent, noted, published, damaged, read, slices, lapsed>>
  BY DEF In!Send
<1>2. wire[l] \in Stream /\ In!Whole(f) \in Stream
  BY DEF IngressInv, InTypes, In!Whole, Stream, In!Piece
<1>3. wire[l] \o In!Whole(f) \in Stream
  BY <1>2, ConcatProperties, SMTT(30) DEF Stream
<1>4. wire' \in [Link -> Stream]
  BY <1>1, <1>3 DEF IngressInv, InTypes
<1>5. total' \in 0 .. MaxFrames
  BY <1>1, InAssumed DEF In!IngressAssumption, IngressInv, InTypes
<1> QED
  BY <1>1, <1>4, <1>5, OthersSame DEF IngressInv, InTypes

LEMMA LoseKeeps ==
  ASSUME IngressInv, NEW l \in Link, In!Lose(l)
  PROVE  IngressInv'
<1>1. /\ wire[l] # <<>> /\ wire' = [wire EXCEPT ![l] = In!Front(@)]
      /\ damaged' = damaged \cup {l}
      /\ UNCHANGED <<buffer, pending, recent, noted, published, total, read, slices, lapsed>>
  BY DEF In!Lose
<1>2. wire[l] \in Stream
  BY DEF IngressInv, InTypes
<1>3. In!Front(wire[l]) \in Stream
  <2>1. Len(wire[l]) \in Nat /\ \A i \in 1 .. Len(wire[l]) : wire[l][i] \in In!Piece
    BY <1>2, LenProperties DEF Stream
  <2>2. \A i \in 1 .. Len(wire[l]) - 1 : wire[l][i] \in In!Piece
    BY <2>1
  <2>3. 1 \in Int /\ Len(wire[l]) - 1 \in Int
    BY <2>1
  <2> QED
    BY <2>2, <2>3, SubSeqProperties DEF In!Front, Stream
<1>4. wire' \in [Link -> Stream]
  BY <1>1, <1>3 DEF IngressInv, InTypes
<1> QED
  BY <1>1, <1>4, OthersSame DEF IngressInv, InTypes

\* What one read returns, and what it leaves in the buffer.
LEMMA PushTypes ==
  ASSUME NEW buf \in Stream, Len(buf) <= BufferMax,
         NEW data \in Stream, Len(data) <= BufferMax
  PROVE  /\ In!Push(buf, data) \in Stream /\ Len(In!Push(buf, data)) <= BufferMax
         /\ Len(buf) + Len(data) <= BufferMax => In!Push(buf, data) = buf \o data
<1> DEFINE over == Len(buf) + Len(data) - BufferMax
           kept == IF Len(buf) + Len(data) <= BufferMax THEN buf
                   ELSE IF over <= Len(buf) THEN In!Advance(buf, over)
                   ELSE <<>>
<1>1. Len(buf) \in Nat /\ Len(data) \in Nat /\ BufferMax \in Nat
  BY LenProperties, InAssumed DEF Stream, In!IngressAssumption
<1>2. kept \in Stream /\ Len(kept) + Len(data) <= BufferMax
  <2>1. CASE Len(buf) + Len(data) <= BufferMax
    BY <2>1
  <2>2. CASE Len(buf) + Len(data) > BufferMax /\ over <= Len(buf)
    <3>1. over \in 0 .. Len(buf) /\ kept = In!Advance(buf, over)
      BY <1>1, <2>2
    <3> HIDE DEF kept
    <3>2. kept \in Stream /\ Len(kept) = Len(buf) - over
      BY <3>1, AdvanceType
    <3>3. Len(kept) + Len(data) = BufferMax
      BY <1>1, <3>2
    <3> QED
      BY <1>1, <3>2, <3>3
  <2>3. CASE Len(buf) + Len(data) > BufferMax /\ over > Len(buf)
    <3>1. kept = <<>>
      BY <1>1, <2>3
    <3>2. <<>> \in Stream /\ Len(<<>>) = 0
      BY EmptySeq DEF Stream
    <3> HIDE DEF kept
    <3> QED
      BY <1>1, <3>1, <3>2
  <2> QED
    BY <1>1, <2>1, <2>2, <2>3
<1>3. In!Push(buf, data) = kept \o data
  BY <1>1 DEF In!Push
<1>4. Len(buf) + Len(data) <= BufferMax => kept = buf
  OBVIOUS
<1> HIDE DEF kept
<1>5. kept \o data \in Stream /\ Len(kept \o data) = Len(kept) + Len(data)
  BY <1>2, ConcatProperties DEF Stream
<1> QED
  BY <1>2, <1>3, <1>4, <1>5

LEMMA ReadTypes ==
  ASSUME InTypes, NEW l \in Link, NEW n \in 1 .. ReadSize, n <= Len(wire[l])
  PROVE  /\ SubSeq(wire[l], 1, n) \in Stream /\ Len(SubSeq(wire[l], 1, n)) = n
         /\ n <= BufferMax /\ n \in Nat
         /\ In!Advance(wire[l], n) \in Stream
         /\ SubSeq(wire[l], 1, n) \o In!Advance(wire[l], n) = wire[l]
<1>1. wire[l] \in Stream /\ Len(wire[l]) \in Nat
  BY LenProperties DEF InTypes, Stream
<1>2. n \in Nat /\ n <= BufferMax /\ n \in 0 .. Len(wire[l])
  BY <1>1, InAssumed DEF In!IngressAssumption
<1>3. SubSeq(wire[l], 1, n) \in Stream /\ Len(SubSeq(wire[l], 1, n)) = n
  <2>1. \A i \in 1 .. n : wire[l][i] \in In!Piece
    BY <1>1, <1>2, LenProperties DEF Stream
  <2>2. 1 \in Int /\ n \in Int /\ 1 <= n /\ n - 1 + 1 = n
    BY <1>2
  <2> QED
    BY <2>1, <2>2, SubSeqProperties DEF Stream
<1>4. SubSeq(wire[l], 1, n) \o SubSeq(wire[l], n + 1, Len(wire[l])) = wire[l]
  <2>1. /\ 1 \in 1 .. Len(wire[l]) + 1 /\ n \in 1 - 1 .. Len(wire[l])
        /\ Len(wire[l]) \in n .. Len(wire[l])
    BY <1>1, <1>2
  <2> QED
    BY <1>1, <2>1, ConcatAdjacentSubSeq, SubSeqFull DEF Stream
<1> QED
  BY <1>1, <1>2, <1>3, <1>4, AdvanceType DEF In!Advance

LEMMA ReadKeeps ==
  ASSUME IngressInv, NEW l \in Link, In!Read(l)
  PROVE  IngressInv'
<1>1. PICK n \in 1 .. ReadSize :
        /\ n <= Len(wire[l])
        /\ buffer' = [buffer EXCEPT ![l] = In!Push(@, SubSeq(wire[l], 1, n))]
        /\ wire' = [wire EXCEPT ![l] = In!Advance(@, n)]
        /\ read' = [read EXCEPT ![l] = @ \o SubSeq(wire[l], 1, n)]
        /\ damaged' = IF Len(buffer[l]) + n > BufferMax THEN damaged \cup {l} ELSE damaged
  BY DEF In!Read
<1>2. UNCHANGED <<pending, recent, noted, published, total, slices, lapsed>>
  BY DEF In!Read
<1> DEFINE data == SubSeq(wire[l], 1, n)
<1>3. /\ data \in Stream /\ Len(data) <= BufferMax /\ In!Advance(wire[l], n) \in Stream
  BY <1>1, ReadTypes DEF IngressInv
<1> HIDE DEF data
<1>4. In!Push(buffer[l], data) \in Stream /\ Len(In!Push(buffer[l], data)) <= BufferMax
  BY <1>3, PushTypes DEF IngressInv, InTypes
<1>5. read[l] \o data \in Stream
  BY <1>3, ConcatProperties DEF IngressInv, InTypes, Stream
<1>6. /\ wire' \in [Link -> Stream] /\ read' \in [Link -> Stream]
      /\ buffer' \in [Link -> Stream] /\ \A k \in Link : Len(buffer'[k]) <= BufferMax
      /\ damaged' \subseteq Link
  BY <1>1, <1>3, <1>4, <1>5 DEF data, IngressInv, InTypes
<1> QED
  BY <1>2, <1>6, OthersSame DEF IngressInv, InTypes

LEMMA HandleFrameKeeps ==
  ASSUME IngressInv, NEW l \in Link, In!HandleFrame(l)
  PROVE  IngressInv'
<1> DEFINE next == In!ParseNext(buffer[l])
           raw == next.raw
<1>1. /\ pending[l] = {} /\ next.found
      /\ buffer' = [buffer EXCEPT ![l] = next.left]
      /\ slices' = [slices EXCEPT ![l] = Append(@, raw)]
      /\ In!Check(l, raw)
      /\ UNCHANGED <<wire, noted, published, total, damaged, read, lapsed>>
  BY DEF In!HandleFrame
<1>2. buffer[l] \in Stream /\ Len(buffer[l]) <= BufferMax
  BY DEF IngressInv, InTypes
<1>3. raw \in Raw /\ next.left \in Stream /\ Len(next.left) < Len(buffer[l])
  BY <1>1, <1>2, ParseNextTypes
<1> HIDE DEF next
<1>4. Len(next.left) <= BufferMax
  BY <1>2, <1>3, LenProperties, InAssumed DEF Stream, In!IngressAssumption
<1>5. buffer' \in [Link -> Stream] /\ \A k \in Link : Len(buffer'[k]) <= BufferMax
  BY <1>1, <1>3, <1>4 DEF IngressInv, InTypes
<1> HIDE DEF raw
<1>6. /\ slices' \in [Link -> Seq(Raw)]
      /\ pending' \in [Link -> SUBSET Raw]
      /\ \A k \in Link : pending'[k] = {} \/ \E r \in Raw : pending'[k] = {r}
      /\ \A k \in Link : pending'[k] \subseteq recent' \cup In!ToSet(lapsed)'
      /\ recent' \subseteq Raw
  BY <1>1, <1>3, CheckTypes DEF IngressInv
<1>7. OnceOK'
  BY <1>1, <1>3, CheckOnce DEF IngressInv
<1>8. InTypes'
  BY <1>1, <1>5, <1>6 DEF IngressInv, InTypes
<1> QED
  BY <1>7, <1>8 DEF IngressInv

\* The frames of a datagram.
LEMMA DatagramTypes ==
  ASSUME NEW l \in Link, NEW fs \in {<<f>> : f \in Carries[l]} \cup (Carries[l] \X Carries[l])
  PROVE  /\ Len(fs) \in {1, 2}
         /\ In!FlattenSeq([i \in DOMAIN fs |-> In!Whole(fs[i])]) \in Stream
<1>1. Carries[l] \subseteq Frame
  BY InAssumed DEF In!IngressAssumption
<1>2. fs \in Seq(Frame) /\ Len(fs) \in {1, 2}
  <2>1. CASE fs \in {<<f>> : f \in Carries[l]}
    BY <1>1, <2>1
  <2>2. CASE fs \in Carries[l] \X Carries[l]
    <3>1. PICK f \in Carries[l], g \in Carries[l] : fs = <<f, g>>
      BY <2>2
    <3> QED
      BY <1>1, <3>1
  <2> QED
    BY <2>1, <2>2
<1>3. Len(fs) \in Nat /\ DOMAIN fs = 1 .. Len(fs) /\ \A i \in 1 .. Len(fs) : fs[i] \in Frame
  BY <1>2, LenProperties
<1>4. \A f \in Frame : In!Whole(f) \in Stream
  BY DEF In!Whole, Stream, In!Piece
<1> DEFINE s == [i \in DOMAIN fs |-> In!Whole(fs[i])]
<1>5. s \in [1 .. Len(fs) -> Stream]
  BY <1>3, <1>4
<1>6. s \in Seq(Seq(In!Piece))
  BY <1>3, <1>5 DEF Stream
<1> HIDE DEF s
<1>7. FlattenSeq(s) \in Stream
  BY <1>6, FlattenType DEF Stream
<1> QED
  BY <1>2, <1>7, InLibrary DEF s

LEMMA HandleDatagramKeeps ==
  ASSUME IngressInv, NEW l \in Link, In!HandleDatagram(l)
  PROVE  IngressInv'
<1>1. PICK fs \in {<<f>> : f \in Carries[l]} \cup (Carries[l] \X Carries[l]) :
        LET buf == In!FlattenSeq([i \in DOMAIN fs |-> In!Whole(fs[i])])
            res == {m \in {In!ReadMsg(buf, 2)} : m.res = "ok"}
            any == IF res # {} THEN res ELSE {m \in {In!ReadV1(buf)} : m.res = "ok"}
        IN /\ total + Len(fs) <= MaxFrames /\ total' = total + Len(fs)
           /\ \E m \in any :
                /\ slices' = [slices EXCEPT ![l] = Append(@, SubSeq(buf, 1, m.len))]
                /\ In!Check(l, SubSeq(buf, 1, m.len))
  BY DEF In!HandleDatagram
<1> DEFINE buf == In!FlattenSeq([i \in DOMAIN fs |-> In!Whole(fs[i])])
<1>2. Len(fs) \in {1, 2} /\ buf \in Stream
  BY DatagramTypes
<1>3. total' = total + Len(fs) /\ total + Len(fs) <= MaxFrames
  BY <1>1
<1>4. \E v \in {1, 2} :
        LET m == In!ReadMsg(buf, v)
        IN /\ m.res = "ok"
           /\ slices' = [slices EXCEPT ![l] = Append(@, SubSeq(buf, 1, m.len))]
           /\ In!Check(l, SubSeq(buf, 1, m.len))
  <2> HIDE DEF buf
  <2> QED
    BY <1>1 DEF In!ReadV1, buf
<1> HIDE DEF buf
<1>5. PICK v \in {1, 2} :
        /\ In!ReadMsg(buf, v).res = "ok"
        /\ slices' = [slices EXCEPT ![l] = Append(@, SubSeq(buf, 1, In!ReadMsg(buf, v).len))]
        /\ In!Check(l, SubSeq(buf, 1, In!ReadMsg(buf, v).len))
  BY <1>4
<1> DEFINE raw == SubSeq(buf, 1, In!ReadMsg(buf, v).len)
<1>6. raw \in Raw
  <2>1. In!ReadMsg(buf, v) # Eof
    BY <1>5 DEF Eof
  <2>2. PICK i \in 1 .. Len(buf) - 1 : In!ReadMsg(buf, v) = At(buf, i)
    BY <1>2, <2>1, ReadMsgResult
  <2>3. In!ReadMsg(buf, v).len = i + 1 /\ i + 1 \in 2 .. Len(buf)
    BY <1>2, <2>2, LenProperties DEF At, Stream
  <2>4. In!SplitTo(buf, i + 1).raw \in Raw
    BY <1>2, <2>3, SplitIs
  <2> QED
    BY <2>3, <2>4 DEF In!SplitTo
<1>7. /\ pending[l] = {} /\ slices' = [slices EXCEPT ![l] = Append(@, raw)]
      /\ In!Check(l, raw)
      /\ UNCHANGED <<wire, buffer, noted, published, damaged, read, lapsed>>
  BY <1>5 DEF In!HandleDatagram
<1> HIDE DEF raw
<1>8. /\ slices' \in [Link -> Seq(Raw)]
      /\ pending' \in [Link -> SUBSET Raw]
      /\ \A k \in Link : pending'[k] = {} \/ \E r \in Raw : pending'[k] = {r}
      /\ \A k \in Link : pending'[k] \subseteq recent' \cup In!ToSet(lapsed)'
      /\ recent' \subseteq Raw
  BY <1>6, <1>7, CheckTypes DEF IngressInv
<1>9. OnceOK'
  BY <1>6, <1>7, CheckOnce DEF IngressInv
<1>10. total' \in 0 .. MaxFrames
  BY <1>2, <1>3, InAssumed DEF In!IngressAssumption, IngressInv, InTypes
<1>11. InTypes'
  BY <1>7, <1>8, <1>10 DEF IngressInv, InTypes
<1> QED
  BY <1>9, <1>11 DEF IngressInv

LEMMA IngressInit == In!Init => IngressInv
<1> SUFFICES ASSUME In!Init PROVE IngressInv
  OBVIOUS
<1>1. /\ wire = [l \in Link |-> <<>>] /\ buffer = [l \in Link |-> <<>>]
      /\ pending = [l \in Link |-> {}] /\ recent = {}
      /\ noted = {} /\ published = <<>> /\ total = 0 /\ damaged = {}
      /\ read = [l \in Link |-> <<>>] /\ slices = [l \in Link |-> <<>>]
      /\ lapsed = <<>>
  BY DEF In!Init
<1>2. BufferMax \in Nat /\ MaxFrames \in Nat
  BY InAssumed DEF In!IngressAssumption
<1>3. /\ <<>> \in Stream /\ Len(<<>>) = 0 /\ <<>> \in Seq(Raw) /\ <<>> \in Seq(OnBus)
      /\ In!ToSet(<<>>) = {}
  BY EmptySeq DEF Stream, In!ToSet
<1>4. InTypes
  BY <1>1, <1>2, <1>3 DEF InTypes
<1>5. \A x : Out(x) = 0 /\ In!Times(lapsed, x) = 0
  <2>1. Cardinality({}) = 0
    BY FS_EmptySet
  <2>2. \A x : In!Times(<<>>, x) = 0
    BY <2>1, InLibrary DEF In!Times
  <2>3. Bytes = <<>> /\ \A x : Holders(x) = {}
    BY <1>1 DEF Bytes, Holders
  <2>4. \A x : In!Times(Bytes, x) = 0 /\ Cardinality(Holders(x)) = 0
    BY <2>1, <2>2, <2>3
  <2>5. \A x : Out(x) = 0
    BY <2>4 DEF Out
  <2> QED
    BY <1>1, <2>2, <2>5
<1>6. \A l \in Link : In!ToSet(slices[l]) = {} /\ pending[l] = {}
  BY <1>1, <1>3
<1>7. In!ToSet(published) = {}
  BY <1>1, <1>3
<1> HIDE DEF Out
<1>8. OnceOK
  BY <1>1, <1>5, <1>6, <1>7 DEF OnceOK
<1> QED
  BY <1>4, <1>8 DEF IngressInv

LEMMA IngressNext == IngressInv /\ [In!Next]_In!vars => IngressInv'
<1> SUFFICES ASSUME IngressInv, [In!Next]_In!vars PROVE IngressInv'
  OBVIOUS
<1>1. ASSUME NEW l \in Link, NEW f \in Frame, In!Send(l, f) PROVE IngressInv'
  BY <1>1, SendFrameKeeps
<1>2. ASSUME NEW l \in Link, In!Lose(l) PROVE IngressInv'
  BY <1>2, LoseKeeps
<1>3. ASSUME NEW l \in Link, In!Read(l) PROVE IngressInv'
  BY <1>3, ReadKeeps
<1>4. ASSUME NEW l \in Link, In!HandleFrame(l) PROVE IngressInv'
  BY <1>4, HandleFrameKeeps
<1>5. ASSUME NEW l \in Link, In!HandleDatagram(l) PROVE IngressInv'
  BY <1>5, HandleDatagramKeeps
<1>6. ASSUME NEW l \in Link, In!Publish(l) PROVE IngressInv'
  BY <1>6, PublishFrameKeeps
<1>7. ASSUME NEW raw \in recent, In!Forget(raw) PROVE IngressInv'
  BY <1>7, ForgetKeeps
<1>8. CASE UNCHANGED In!vars
  BY <1>8, OthersSame DEF In!vars, In!history, IngressInv, InTypes
<1> QED
  BY <1>1, <1>2, <1>3, <1>4, <1>5, <1>6, <1>7, <1>8 DEF In!Next

\* What is known to a reader as types: those of the module, and what the slices are.
LEMMA IngressInvariance == In!Spec => []IngressInv
<1> QED
  BY IngressInit, IngressNext, PTL DEF In!Spec

LEMMA IngressTypes == IngressInv => In!TypeOK
<1> SUFFICES ASSUME IngressInv PROVE In!TypeOK
  OBVIOUS
<1>1. \A l \in Link : In!Cardinality(pending[l]) <= 1
  <2> SUFFICES ASSUME NEW l \in Link PROVE Cardinality(pending[l]) <= 1
    BY InLibrary
  <2>1. Cardinality({}) = 0 /\ \A r \in Raw : Cardinality({r}) = 1
    BY FS_EmptySet, FS_Singleton
  <2>2. pending[l] = {} \/ \E r \in Raw : pending[l] = {r}
    BY DEF IngressInv, InTypes
  <2>3. Cardinality(pending[l]) = 0 \/ Cardinality(pending[l]) = 1
    BY <2>1, <2>2
  <2> QED
    BY <2>3
<1>2. \A m \in In!ToSet(published) : m.source_id \in Link
  <2>1. \A i \in DOMAIN published : published[i] \in OnBus
    BY ElementOfSeq, LenProperties DEF IngressInv, InTypes
  <2> QED
    BY <2>1 DEF In!ToSet, OnBus
<1>3. \A l \in Link : /\ wire[l] \in Seq(In!Piece) /\ read[l] \in Seq(In!Piece)
                      /\ buffer[l] \in Seq(In!Piece) /\ Len(buffer[l]) <= BufferMax
                      /\ pending[l] \subseteq recent \cup In!ToSet(lapsed)
  BY DEF IngressInv, InTypes, Stream
<1> QED
  BY <1>1, <1>2, <1>3 DEF In!TypeOK, IngressInv, InTypes

\* Whatever the filters of the links and in whatever order they see it: an accepted frame is
\* published once for each time that it is remembered, after its sender was noted
\* (endpoint_core.rs:106-149).
THEOREM AcceptedFramesOnce == In!Spec => []AcceptedOnce
<1>1. IngressInv => AcceptedOnce
  <2> SUFFICES ASSUME IngressInv PROVE AcceptedOnce
    OBVIOUS
  <2>1. ASSUME NEW l \in Link, NEW raw \in In!ToSet(slices[l]),
               In!AcceptFrame(l, In!Parsed(raw))
        PROVE  In!Times([i \in DOMAIN published |-> published[i].serialized_bytes], raw)
                 + In!Cardinality({k \in Link : raw \in pending[k]})
                 \in 1 .. (1 + In!Times(lapsed, raw))
    <3>1. raw \in Raw
      <4>1. slices[l] \in Seq(Raw)
        BY DEF IngressInv, InTypes
      <4> QED
        BY <4>1, ElementOfSeq, LenProperties DEF In!ToSet
    <3>2. Out(raw) \in Nat /\ In!Times(lapsed, raw) \in Nat
      BY OutType DEF IngressInv, Out
    <3>3. /\ Out(raw) <= In!Times(lapsed, raw) + (IF raw \in recent THEN 1 ELSE 0)
          /\ Out(raw) >= 1
      <4> HIDE DEF Out
      <4> QED
        BY <2>1, <3>1 DEF IngressInv, OnceOK
    <3>4. Out(raw) = In!Times([i \in DOMAIN published |-> published[i].serialized_bytes], raw)
                     + In!Cardinality({k \in Link : raw \in pending[k]})
      BY InLibrary DEF Out, Bytes, Holders
    <3> HIDE DEF Out
    <3>5. Out(raw) \in 1 .. (1 + In!Times(lapsed, raw))
      BY <3>2, <3>3
    <3> QED
      BY <3>4, <3>5
  <2>2. \A m \in In!ToSet(published) :
          /\ In!AcceptFrame(m.source_id, In!Parsed(m.serialized_bytes))
          /\ <<m.source_id, Sender[In!Parsed(m.serialized_bytes)]>> \in noted
    BY DEF IngressInv, OnceOK
  <2> QED
    BY <2>1, <2>2 DEF AcceptedOnce, In!AcceptedOnce
<1> QED
  BY <1>1, IngressInvariance, PTL

-----------------------------------------------------------------------------
(* The links: a stream comes out as it went in.                            *)

\* s is a sequence of whole frames that the link carries.
Aligned(l, s) ==
  \E n \in Nat :
    /\ Len(s) = 2 * n
    /\ \A k \in 1 .. n : s[2 * k - 1][1] \in Carries[l] /\ FrameAt(s, 2 * k - 1)

\* And buf is the beginning of one.
Begins(l, buf) ==
  \A i \in 1 .. Len(buf) :
    \/ /\ buf[i][2] = "head" /\ buf[i][1] \in Carries[l]
       /\ \E k \in Nat \ {0} : i = 2 * k - 1
       /\ i < Len(buf) => FrameAt(buf, i)
    \/ /\ buf[i][2] = "rest"
       /\ \E k \in Nat \ {0} : i = 2 * k

Unrefused(buf) == \A i \in 1 .. Len(buf) : buf[i][1] \notin Refused

Flows(l) ==
  In!Intact(l) =>
    /\ FlattenSeq(slices[l]) \o buffer[l] = read[l]
    /\ Aligned(l, buffer[l] \o wire[l])
    /\ In!SingleVersion(l) => \A i \in DOMAIN slices[l] : Len(slices[l][i]) = 2

LEMMA Halves == \A i \in Nat \ {0} : \E k \in Nat \ {0} : i = 2 * k - 1 \/ i = 2 * k
<1> SUFFICES ASSUME NEW i \in Nat \ {0}
             PROVE  \E k \in Nat \ {0} : i = 2 * k - 1 \/ i = 2 * k
  OBVIOUS
<1> DEFINE h == (i + 1) \div 2
<1>1. h \in Nat \ {0}
  OBVIOUS
<1>2. i = 2 * h - 1 \/ i = 2 * h
  OBVIOUS
<1> HIDE DEF h
<1>3. h \in Nat \ {0} /\ (i = 2 * h - 1 \/ i = 2 * h)
  BY <1>1, <1>2
<1> WITNESS h \in Nat \ {0}
<1> QED
  BY <1>3

LEMMA AlignedBegins ==
  ASSUME NEW l \in Link, NEW buf \in Stream, NEW w \in Stream, Aligned(l, buf \o w)
  PROVE  Begins(l, buf)
<1> DEFINE s == buf \o w
<1>1. /\ Len(buf) \in Nat /\ Len(w) \in Nat /\ s \in Stream /\ Len(s) = Len(buf) + Len(w)
      /\ \A i \in 1 .. Len(buf) : s[i] = buf[i]
  <2>1. /\ Len(buf) \in Nat /\ Len(w) \in Nat /\ s \in Stream /\ Len(s) = Len(buf) + Len(w)
        /\ \A i \in 1 .. Len(buf) + Len(w) :
             s[i] = IF i <= Len(buf) THEN buf[i] ELSE w[i - Len(buf)]
    BY ConcatProperties, LenProperties DEF Stream
  <2> HIDE DEF s
  <2>2. \A i \in 1 .. Len(buf) : i \in 1 .. Len(buf) + Len(w) /\ i <= Len(buf)
    BY <2>1
  <2> QED
    BY <2>1, <2>2
<1>2. PICK n \in Nat :
        /\ Len(s) = 2 * n
        /\ \A k \in 1 .. n : s[2 * k - 1][1] \in Carries[l] /\ FrameAt(s, 2 * k - 1)
  BY DEF Aligned
<1> HIDE DEF s
<1> SUFFICES ASSUME NEW i \in 1 .. Len(buf)
             PROVE  \/ /\ buf[i][2] = "head" /\ buf[i][1] \in Carries[l]
                       /\ \E k \in Nat \ {0} : i = 2 * k - 1
                       /\ i < Len(buf) => FrameAt(buf, i)
                    \/ /\ buf[i][2] = "rest"
                       /\ \E k \in Nat \ {0} : i = 2 * k
  BY DEF Begins
<1>3. PICK k \in Nat \ {0} : i = 2 * k - 1 \/ i = 2 * k
  <2>1. i \in Nat \ {0}
    BY <1>1
  <2> QED
    BY <2>1, Halves, Zenon
<1>4. k \in 1 .. n /\ i <= Len(buf)
  BY <1>1, <1>2, <1>3
<1>5. s[2 * k - 1][1] \in Carries[l] /\ FrameAt(s, 2 * k - 1)
  BY <1>2, <1>4
<1>6. (2 * k - 1) + 1 = 2 * k /\ (2 * k - 1) \in Int
  OBVIOUS
<1>7. s[2 * k] = <<s[2 * k - 1][1], "rest">> /\ s[2 * k - 1] = <<s[2 * k - 1][1], "head">>
  BY <1>5, <1>6 DEF FrameAt
<1>8. CASE i = 2 * k - 1
  <2>1. buf[i] = s[2 * k - 1] /\ buf[i][1] \in Carries[l] /\ buf[i] = <<buf[i][1], "head">>
    BY <1>1, <1>5, <1>7, <1>8
  <2>2. buf[i][2] = "head"
    BY <2>1
  <2>3. ASSUME i < Len(buf) PROVE FrameAt(buf, i)
    <3>1. i + 1 \in 1 .. Len(buf) /\ i + 1 = 2 * k
      BY <1>1, <1>8, <2>3
    <3>2. buf[i + 1] = s[2 * k]
      BY <1>1, <3>1
    <3> QED
      BY <1>7, <2>1, <3>2 DEF FrameAt
  <2> QED
    BY <1>8, <2>1, <2>2, <2>3
<1>9. CASE i = 2 * k
  <2>1. buf[i] = <<s[2 * k - 1][1], "rest">>
    BY <1>1, <1>7, <1>9
  <2> QED
    BY <1>9, <2>1
<1> QED
  BY <1>3, <1>8, <1>9

\* On such a stream the parser never goes past a start byte, and splits it between frames.
LEMMA ReadsThrough ==
  ASSUME NEW buf \in Stream, Unrefused(buf), NEW v
  PROVE  In!ReadMsg(buf, v).res \in {"ok", "eof"}
BY ReadMsgResult, LenProperties DEF Eof, At, Unrefused, Stream

LEMMA StartsHere ==
  ASSUME NEW l \in Link, NEW buf \in Stream, buf # <<>>, Begins(l, buf)
  PROVE  /\ 1 \in 1 .. Len(buf) /\ Len(buf) \in Nat
         /\ buf[1][1] \in Carries[l] /\ buf[1][1] \in Frame
         /\ In!Start(buf[1]) = Version[buf[1][1]] /\ Version[buf[1][1]] \in {1, 2}
         /\ Len(buf) > 1 => FrameAt(buf, 1)
<1>1. 1 \in 1 .. Len(buf) /\ Len(buf) \in Nat
  BY EmptySeq, LenProperties DEF Stream
<1>2. \A k \in Nat \ {0} : 1 # 2 * k
  OBVIOUS
<1>3. /\ buf[1][2] = "head" /\ buf[1][1] \in Carries[l]
      /\ Len(buf) > 1 => FrameAt(buf, 1)
  BY <1>1, <1>2 DEF Begins
<1>4. buf[1][1] \in Frame /\ Version[buf[1][1]] \in {1, 2}
  BY <1>3, InAssumed DEF In!IngressAssumption
<1> QED
  BY <1>1, <1>3, <1>4 DEF In!Start

LEMMA AlignedParse ==
  ASSUME NEW l \in Link, NEW buf \in Stream, Begins(l, buf), Unrefused(buf)
  PROVE  /\ In!ParseNext(buf) = Value(buf)
         /\ Value(buf).found => buf # <<>>
<1>1. CASE buf = <<>>
  <2>1. ~Skips(buf) /\ ~Value(buf).found
    BY <1>1 DEF Skips, Value, In!Nothing
  <2> QED
    BY <2>1, ParseNextHere
<1>2. CASE buf # <<>>
  <2>1. In!Start(buf[1]) # 0
    BY <1>2, StartsHere
  <2>2. ~Skips(buf)
    BY <2>1, ReadsThrough DEF Skips
  <2> QED
    BY <1>2, <2>2, ParseNextHere
<1> QED
  BY <1>1, <1>2

LEMMA AlignedSplit ==
  ASSUME NEW l \in Link, NEW buf \in Stream, Begins(l, buf), Unrefused(buf),
         In!ParseNext(buf).found
  PROVE  \E k \in Nat \ {0} : 2 * k \in 2 .. Len(buf) /\ In!ParseNext(buf) = In!SplitTo(buf, 2 * k)
<1>1. In!ParseNext(buf) = Value(buf) /\ Value(buf).found
  BY AlignedParse
<1>2. PICK n \in 2 .. Len(buf) :
        /\ Value(buf) = In!SplitTo(buf, n)
        /\ n - 1 \in 1 .. Len(buf) - 1 /\ FrameAt(buf, n - 1)
  BY <1>1, SplitTypes
<1>3. n - 1 \in 1 .. Len(buf) /\ Len(buf) \in Nat
  BY <1>2, LenProperties DEF Stream
<1>4. buf[n - 1][2] = "head"
  BY <1>2 DEF FrameAt
<1>5. PICK k \in Nat \ {0} : n - 1 = 2 * k - 1
  BY <1>3, <1>4 DEF Begins
<1>6. n = 2 * k
  BY <1>5
<1> QED
  BY <1>1, <1>2, <1>6

\* A link of one version: frame by frame, and at once.
LEMMA SingleSplit ==
  ASSUME NEW l \in Link, NEW buf \in Stream, Begins(l, buf), Unrefused(buf),
         In!SingleVersion(l), Len(buf) >= 2
  PROVE  In!ParseNext(buf) = In!SplitTo(buf, 2)
<1>1. Len(buf) \in Nat /\ buf # <<>> /\ Len(buf) > 1 /\ 1 \in 1 .. Len(buf) - 1
  BY LenProperties, EmptySeq DEF Stream
<1> DEFINE f == buf[1][1]
<1>2. /\ f \in Carries[l] /\ f \in Frame /\ In!Start(buf[1]) = Version[f]
      /\ Version[f] \in {1, 2} /\ FrameAt(buf, 1)
  BY <1>1, StartsHere
<1> HIDE DEF f
<1>3. In!ReadMsg(buf, Version[f]).res = "ok" /\ In!ReadMsg(buf, Version[f]).len = 2
  <2>1. PICK at : Reads(buf, Version[f], at) /\ In!ReadMsg(buf, Version[f]) = at[1]
    BY ReadMsgIs
  <2>2. In!IsFrame(In!Advance(buf, 1 - 1))
    BY <1>1, <1>2, IsFrameAt
  <2>3. 1 \in 1 .. Len(buf) + 1 /\ ~(1 > Len(buf)) /\ 1 # Len(buf)
    <3>1. \A n \in Nat : n > 1 => 1 \in 1 .. n + 1 /\ ~(1 > n) /\ 1 # n
      OBVIOUS
    <3> QED
      BY <1>1, <3>1
  <2>4. at[1] = At(buf, 1)
    BY <1>2, <2>1, <2>2, <2>3 DEF Reads
  <2>5. buf[1][1] \notin Refused
    BY <1>1 DEF Unrefused
  <2> QED
    BY <2>1, <2>4, <2>5 DEF At
<1>4. ASSUME NEW v \in {1, 2}, v # Version[f]
      PROVE  In!ReadMsg(buf, v).res # "ok"
  <2> SUFFICES ASSUME In!ReadMsg(buf, v).res = "ok" PROVE FALSE
    OBVIOUS
  <2>1. In!ReadMsg(buf, v) # Eof
    BY DEF Eof
  <2>2. PICK i \in 1 .. Len(buf) - 1 : In!Start(buf[i]) = v /\ FrameAt(buf, i)
    BY <2>1, ReadMsgResult
  <2>3. i \in 1 .. Len(buf)
    BY <1>1
  <2>4. buf[i][2] = "head"
    BY <2>2 DEF FrameAt
  <2>5. buf[i][1] \in Carries[l]
    BY <2>3, <2>4 DEF Begins
  <2>6. In!Start(buf[i]) = Version[buf[i][1]]
    BY <2>4 DEF In!Start
  <2>7. Version[buf[i][1]] = Version[f]
    BY <1>2, <2>5 DEF In!SingleVersion
  <2> QED
    BY <1>4, <2>2, <2>6, <2>7
<1>5. Value(buf) = In!SplitTo(buf, 2)
  <2>1. CASE Version[f] = 2
    BY <1>1, <1>3, <2>1 DEF Value
  <2>2. CASE Version[f] = 1
    BY <1>1, <1>3, <1>4, <2>2 DEF Value
  <2> QED
    BY <1>2, <2>1, <2>2
<1> QED
  BY <1>5, AlignedParse

LEMMA TwoMore ==
  ASSUME NEW S, NEW s \in Seq(S), NEW x \in S, NEW y \in S
  PROVE  /\ Len(s \o <<x, y>>) = Len(s) + 2
         /\ \A i \in 1 .. Len(s) : (s \o <<x, y>>)[i] = s[i]
         /\ (s \o <<x, y>>)[Len(s) + 1] = x /\ (s \o <<x, y>>)[Len(s) + 2] = y
<1> DEFINE t == Append(s, x)
           u == Append(t, y)
<1>1. /\ t \in Seq(S) /\ Len(t) = Len(s) + 1 /\ Len(s) \in Nat
      /\ \A i \in 1 .. Len(s) : t[i] = s[i]
      /\ t[Len(s) + 1] = x
  BY AppendProperties, LenProperties
<1>2. t = s \o <<x>> /\ <<x>> \in Seq(S) /\ <<y>> \in Seq(S) /\ <<x>> \o <<y>> = <<x, y>>
  <2>1. t = s \o <<x>>
    BY AppendIsConcat
  <2>2. <<x>> \in Seq(S) /\ <<y>> \in Seq(S) /\ Append(<<x>>, y) = <<x, y>>
    <3>1. <<x>> \in Seq(S) /\ <<y>> \in Seq(S) /\ <<x, y>> \in Seq(S)
      OBVIOUS
    <3>2. Len(<<x>>) = 1 /\ <<x>>[1] = x /\ Len(<<x, y>>) = 2 /\ <<x, y>>[1] = x
          /\ <<x, y>>[2] = y
      OBVIOUS
    <3>3. /\ Append(<<x>>, y) \in Seq(S) /\ Len(Append(<<x>>, y)) = 2
          /\ Append(<<x>>, y)[1] = x /\ Append(<<x>>, y)[2] = y
      BY <3>1, <3>2, AppendProperties
    <3>4. \A i \in 1 .. 2 : i = 1 \/ i = 2
      OBVIOUS
    <3> QED
      BY <3>1, <3>2, <3>3, <3>4, SeqEqual
  <2>3. Append(<<x>>, y) = <<x>> \o <<y>>
    BY <2>2, AppendIsConcat
  <2> QED
    BY <2>1, <2>2, <2>3
<1> HIDE DEF t
<1>3. /\ u \in Seq(S) /\ Len(u) = Len(t) + 1
      /\ \A i \in 1 .. Len(t) : u[i] = t[i]
      /\ u[Len(t) + 1] = y /\ u = t \o <<y>>
  BY <1>1, AppendProperties, AppendIsConcat
<1> HIDE DEF u
<1>4. u = s \o <<x, y>>
  <2>1. (s \o <<x>>) \o <<y>> = s \o (<<x>> \o <<y>>)
    BY <1>2, ConcatAssociative
  <2> QED
    BY <1>2, <1>3, <2>1
<1>5. Len(u) = Len(s) + 2 /\ Len(t) + 1 = Len(s) + 2 /\ Len(s) + 1 \in 1 .. Len(t)
      /\ \A i \in 1 .. Len(s) : i \in 1 .. Len(t)
  BY <1>1, <1>3
<1>6. /\ \A i \in 1 .. Len(s) : u[i] = s[i]
      /\ u[Len(s) + 1] = x /\ u[Len(s) + 2] = y
  BY <1>1, <1>3, <1>5
<1> QED
  BY <1>4, <1>5, <1>6

LEMMA AlignedMore ==
  ASSUME NEW l \in Link, NEW s \in Stream, Aligned(l, s), NEW f \in Carries[l]
  PROVE  Aligned(l, s \o In!Whole(f))
<1>1. f \in Frame
  BY InAssumed DEF In!IngressAssumption
<1>2. /\ In!Whole(f) \in Stream /\ Len(In!Whole(f)) = 2
      /\ In!Whole(f)[1] = <<f, "head">> /\ In!Whole(f)[2] = <<f, "rest">>
  BY <1>1 DEF In!Whole, Stream, In!Piece
<1> DEFINE w == In!Whole(f)
           t == s \o w
<1>3. PICK n \in Nat :
        /\ Len(s) = 2 * n
        /\ \A k \in 1 .. n : s[2 * k - 1][1] \in Carries[l] /\ FrameAt(s, 2 * k - 1)
  BY DEF Aligned
<1>4. /\ Len(t) = 2 * n + 2
      /\ \A i \in 1 .. 2 * n : t[i] = s[i]
      /\ t[2 * n + 1] = <<f, "head">> /\ t[2 * n + 2] = <<f, "rest">>
  <2>1. <<f, "head">> \in In!Piece /\ <<f, "rest">> \in In!Piece /\ s \in Seq(In!Piece)
    BY <1>1 DEF In!Piece, Stream
  <2>2. /\ Len(t) = Len(s) + 2
        /\ \A i \in 1 .. Len(s) : t[i] = s[i]
        /\ t[Len(s) + 1] = <<f, "head">> /\ t[Len(s) + 2] = <<f, "rest">>
    BY <2>1, TwoMore DEF In!Whole
  <2> HIDE DEF t
  <2> QED
    BY <1>3, <2>2
<1> HIDE DEF t
<1>5. ASSUME NEW k \in 1 .. n + 1
      PROVE  t[2 * k - 1][1] \in Carries[l] /\ FrameAt(t, 2 * k - 1)
  <2>1. CASE k = n + 1
    <3>1. 2 * k - 1 = 2 * n + 1 /\ (2 * k - 1) + 1 = 2 * n + 2
      BY <2>1
    <3> QED
      BY <1>4, <3>1 DEF FrameAt
  <2>2. CASE k # n + 1
    <3>1. /\ k \in 1 .. n /\ 2 * k - 1 \in 1 .. 2 * n /\ (2 * k - 1) + 1 \in 1 .. 2 * n
      BY <2>2
    <3>2. t[2 * k - 1] = s[2 * k - 1] /\ t[(2 * k - 1) + 1] = s[(2 * k - 1) + 1]
      BY <1>4, <3>1
    <3> QED
      BY <1>3, <3>1, <3>2 DEF FrameAt
  <2> QED
    BY <2>1, <2>2
<1>6. Len(t) = 2 * (n + 1) /\ n + 1 \in Nat
  BY <1>4
<1> QED
  BY <1>5, <1>6 DEF Aligned, t

LEMMA AlignedRest ==
  ASSUME NEW l \in Link, NEW raw \in Stream, NEW t \in Stream, Aligned(l, raw \o t),
         NEW m \in Nat, Len(raw) = 2 * m
  PROVE  Aligned(l, t)
<1> DEFINE s == raw \o t
<1>1. PICK n \in Nat :
        /\ Len(s) = 2 * n
        /\ \A k \in 1 .. n : s[2 * k - 1][1] \in Carries[l] /\ FrameAt(s, 2 * k - 1)
  BY DEF Aligned
<1>2. /\ Len(s) = Len(raw) + Len(t) /\ Len(t) \in Nat
      /\ \A i \in 1 .. Len(raw) + Len(t) : s[i] = IF i <= Len(raw) THEN raw[i] ELSE t[i - Len(raw)]
  BY ConcatProperties, LenProperties DEF Stream
<1> HIDE DEF s
<1>3. Len(t) = 2 * (n - m) /\ n - m \in Nat
  BY <1>1, <1>2
<1>4. \A j \in 1 .. Len(t) : t[j] = s[2 * m + j]
  <2> SUFFICES ASSUME NEW j \in 1 .. Len(t) PROVE t[j] = s[2 * m + j]
    OBVIOUS
  <2> DEFINE b == 2 * m
  <2>1. b \in Nat /\ Len(raw) = b
    OBVIOUS
  <2> HIDE DEF b
  <2>2. b + j \in 1 .. b + Len(t) /\ ~(b + j <= b) /\ b + j - b = j
    BY <1>2, <2>1
  <2>3. s[b + j] = t[j]
    BY <1>2, <2>1, <2>2
  <2> QED
    BY <2>3 DEF b
<1>5. ASSUME NEW k \in 1 .. n - m
      PROVE  t[2 * k - 1][1] \in Carries[l] /\ FrameAt(t, 2 * k - 1)
  <2>1. /\ m + k \in 1 .. n /\ 2 * (m + k) - 1 = 2 * m + (2 * k - 1)
        /\ (2 * (m + k) - 1) + 1 = 2 * m + 2 * k /\ (2 * k - 1) + 1 = 2 * k
        /\ 2 * k - 1 \in 1 .. Len(t) /\ 2 * k \in 1 .. Len(t)
    BY <1>3
  <2>2. s[2 * (m + k) - 1][1] \in Carries[l] /\ FrameAt(s, 2 * (m + k) - 1)
    BY <1>1, <2>1
  <2>3. t[2 * k - 1] = s[2 * m + (2 * k - 1)] /\ t[2 * k] = s[2 * m + 2 * k]
    BY <1>4, <2>1
  <2> QED
    BY <2>1, <2>2, <2>3 DEF FrameAt
<1> QED
  BY <1>3, <1>5 DEF Aligned

LEMMA Regroup ==
  ASSUME NEW s \in Stream, NEW t \in Stream, NEW u \in Stream
  PROVE  (s \o t) \o u = s \o (t \o u)
BY ConcatAssociative, SMTT(60) DEF Stream

LEMMA FlowTypes ==
  ASSUME IngressInv, NEW l \in Link
  PROVE  /\ wire[l] \in Stream /\ buffer[l] \in Stream /\ read[l] \in Stream
         /\ slices[l] \in Seq(Raw) /\ slices[l] \in Seq(Stream)
         /\ FlattenSeq(slices[l]) \in Stream
<1>1. slices[l] \in Seq(Raw)
  BY DEF IngressInv, InTypes
<1>2. slices[l] \in Seq(Stream)
  <2>1. Raw \subseteq Stream
    BY DEF Raw
  <2> QED
    BY <1>1, <2>1, SeqMonotonic
<1>3. FlattenSeq(slices[l]) \in Stream
  BY <1>2, FlattenType DEF Stream
<1> QED
  BY <1>1, <1>2, <1>3 DEF IngressInv, InTypes

\* What is in the buffer has been read.
LEMMA BufferUnrefused ==
  ASSUME IngressInv, NEW l \in Link, In!Intact(l), FlattenSeq(slices[l]) \o buffer[l] = read[l]
  PROVE  Unrefused(buffer[l])
<1> DEFINE a == FlattenSeq(slices[l])
           b == buffer[l]
<1>1. a \in Stream /\ b \in Stream
  BY FlowTypes
<1> HIDE DEF a, b
<1>2. /\ Len(a) \in Nat /\ Len(b) \in Nat /\ a \o b \in Stream
      /\ Len(a \o b) = Len(a) + Len(b)
      /\ \A i \in 1 .. Len(a) + Len(b) : (a \o b)[i] = IF i <= Len(a) THEN a[i] ELSE b[i - Len(a)]
  BY <1>1, ConcatProperties, LenProperties DEF Stream
<1>3. DOMAIN (a \o b) = 1 .. Len(a) + Len(b)
  BY <1>2, LenProperties DEF Stream
<1>4. ASSUME NEW i \in 1 .. Len(b) PROVE b[i][1] \notin Refused
  <2>1. Len(a) + i \in 1 .. Len(a) + Len(b) /\ ~(Len(a) + i <= Len(a)) /\ Len(a) + i - Len(a) = i
    BY <1>2
  <2>2. (a \o b)[Len(a) + i] = b[i]
    BY <1>2, <2>1
  <2>3. b[i] \in In!ToSet(a \o b)
    BY <1>3, <2>1, <2>2 DEF In!ToSet
  <2>4. \A p \in In!ToSet(a \o b) : p[1] \notin Refused
    BY DEF In!Intact, a, b
  <2> QED
    BY <2>3, <2>4
<1> QED
  BY <1>4 DEF Unrefused, b

\* A step that does not touch a link.
LEMMA FlowSame ==
  ASSUME NEW l \in Link, Flows(l), wire'[l] = wire[l], buffer'[l] = buffer[l],
         slices'[l] = slices[l], read'[l] = read[l], damaged \subseteq damaged'
  PROVE  Flows(l)'
<1>1. In!Intact(l)' => In!Intact(l)
  BY DEF In!Intact, In!ToSet
<1>2. In!SingleVersion(l)' = In!SingleVersion(l)
  BY DEF In!SingleVersion
<1>3. FlattenSeq(slices[l])' = FlattenSeq(slices[l])
  BY DEF FlattenSeq
<1>4. Aligned(l, buffer[l] \o wire[l])' = Aligned(l, buffer[l] \o wire[l])
  BY DEF Aligned, FrameAt
<1> QED
  BY <1>1, <1>2, <1>3, <1>4 DEF Flows

LEMMA FlowSend ==
  ASSUME IngressInv, NEW l \in Link, NEW f \in Frame, In!Send(l, f), Flows(l)
  PROVE  Flows(l)'
<1>1. /\ f \in Carries[l] /\ wire' = [wire EXCEPT ![l] = @ \o In!Whole(f)]
      /\ UNCHANGED <<buffer, read, slices, damaged>>
  BY DEF In!Send
<1>2. wire[l] \in Stream /\ buffer[l] \in Stream
  BY FlowTypes
<1>3. In!Whole(f) \in Stream
  BY DEF In!Whole, Stream, In!Piece
<1>4. wire'[l] = wire[l] \o In!Whole(f)
  BY <1>1 DEF IngressInv, InTypes
<1>5. In!Intact(l)' = In!Intact(l) /\ In!SingleVersion(l)' = In!SingleVersion(l)
      /\ FlattenSeq(slices[l])' = FlattenSeq(slices[l])
  BY <1>1 DEF In!Intact, In!ToSet, In!SingleVersion, FlattenSeq
<1>6. ASSUME Aligned(l, buffer[l] \o wire[l])
      PROVE  Aligned(l, buffer[l] \o wire[l])'
  <2>1. buffer[l] \o wire[l] \in Stream
    BY <1>2, ConcatProperties DEF Stream
  <2>2. (buffer[l] \o wire[l]) \o In!Whole(f) = buffer[l] \o wire'[l]
    <3> DEFINE w == In!Whole(f)
    <3>1. w \in Stream
      BY <1>3
    <3> HIDE DEF w
    <3>2. (buffer[l] \o wire[l]) \o w = buffer[l] \o (wire[l] \o w)
      BY <1>2, <3>1, Regroup, ZenonT(60)
    <3> QED
      BY <1>4, <3>2 DEF w
  <2>3. Aligned(l, buffer[l] \o wire'[l])
    BY <1>1, <1>6, <2>1, <2>2, AlignedMore
  <2> QED
    BY <1>1, <2>3 DEF Aligned, FrameAt
<1> QED
  BY <1>1, <1>5, <1>6 DEF Flows

LEMMA FlowRead ==
  ASSUME IngressInv, NEW l \in Link, In!Read(l), Flows(l)
  PROVE  Flows(l)'
<1> SUFFICES ASSUME In!Intact(l)' PROVE Flows(l)'
  BY DEF Flows
<1>1. PICK n \in 1 .. ReadSize :
        /\ n <= Len(wire[l])
        /\ buffer' = [buffer EXCEPT ![l] = In!Push(@, SubSeq(wire[l], 1, n))]
        /\ wire' = [wire EXCEPT ![l] = In!Advance(@, n)]
        /\ read' = [read EXCEPT ![l] = @ \o SubSeq(wire[l], 1, n)]
        /\ damaged' = IF Len(buffer[l]) + n > BufferMax THEN damaged \cup {l} ELSE damaged
  BY DEF In!Read
<1>2. slices' = slices
  BY DEF In!Read
<1> DEFINE data == SubSeq(wire[l], 1, n)
           rest == In!Advance(wire[l], n)
           b == buffer[l]
           a == FlattenSeq(slices[l])
<1>3. /\ b \in Stream /\ Len(b) <= BufferMax /\ a \in Stream /\ wire[l] \in Stream
      /\ read[l] \in Stream
  <2>1. b \in Stream /\ a \in Stream /\ wire[l] \in Stream /\ read[l] \in Stream
    BY FlowTypes
  <2>2. Len(b) <= BufferMax
    BY DEF IngressInv, InTypes
  <2> QED
    BY <2>1, <2>2
<1>4. /\ data \in Stream /\ Len(data) = n /\ n <= BufferMax /\ n \in Nat
      /\ rest \in Stream /\ data \o rest = wire[l]
  BY <1>1, ReadTypes DEF IngressInv
<1>5. Len(b) + n <= BufferMax
  <2>1. l \notin damaged'
    BY DEF In!Intact
  <2>2. ~(Len(b) + n > BufferMax)
    BY <1>1, <2>1
  <2>3. Len(b) \in Nat /\ BufferMax \in Nat
    BY <1>3, LenProperties, InAssumed DEF Stream, In!IngressAssumption
  <2> HIDE DEF b
  <2> QED
    BY <1>4, <2>2, <2>3
<1>6. /\ buffer'[l] = In!Push(b, data) /\ wire'[l] = rest /\ read'[l] = read[l] \o data
  BY <1>1 DEF IngressInv, InTypes
<1> HIDE DEF data, rest, a, b
<1>7. buffer'[l] = b \o data
  BY <1>3, <1>4, <1>5, <1>6, PushTypes
<1>8. In!Intact(l)
  <2>1. In!ToSet(read[l]) \subseteq In!ToSet(read'[l])
    <3>1. /\ Len(read[l]) \in Nat /\ DOMAIN read[l] = 1 .. Len(read[l])
          /\ DOMAIN (read[l] \o data) = 1 .. Len(read[l]) + Len(data) /\ Len(data) \in Nat
          /\ \A i \in 1 .. Len(read[l]) + Len(data) :
               (read[l] \o data)[i] = IF i <= Len(read[l]) THEN read[l][i]
                                      ELSE data[i - Len(read[l])]
      BY <1>3, <1>4, ConcatProperties, LenProperties DEF Stream
    <3>2. \A i \in 1 .. Len(read[l]) :
            i \in 1 .. Len(read[l]) + Len(data) /\ i <= Len(read[l])
      BY <3>1
    <3>3. \A i \in 1 .. Len(read[l]) : (read[l] \o data)[i] = read[l][i]
      BY <3>1, <3>2
    <3> QED
      BY <1>6, <3>1, <3>2, <3>3 DEF In!ToSet
  <2>2. damaged \subseteq damaged'
    BY <1>1
  <2>3. \A p \in In!ToSet(read'[l]) : p[1] \notin Refused
    BY DEF In!Intact, In!ToSet
  <2>4. l \notin damaged' /\ l \notin Datagrams
    BY DEF In!Intact
  <2> QED
    BY <2>1, <2>2, <2>3, <2>4 DEF In!Intact
<1>9. /\ a \o b = read[l] /\ Aligned(l, b \o wire[l])
      /\ In!SingleVersion(l) => \A i \in DOMAIN slices[l] : Len(slices[l][i]) = 2
  BY <1>8 DEF Flows, a, b
<1>10. a \o buffer'[l] = read'[l]
  <2>1. (a \o b) \o data = a \o (b \o data)
    BY <1>3, <1>4, Regroup, ZenonT(60)
  <2> QED
    BY <1>6, <1>7, <1>9, <2>1
<1>11. buffer'[l] \o wire'[l] = b \o wire[l]
  <2>1. (b \o data) \o rest = b \o (data \o rest)
    BY <1>3, <1>4, Regroup, ZenonT(60)
  <2> QED
    BY <1>4, <1>6, <1>7, <2>1
<1>12. /\ FlattenSeq(slices[l])' = a
       /\ In!SingleVersion(l)' = In!SingleVersion(l)
       /\ Aligned(l, buffer[l] \o wire[l])' = Aligned(l, buffer'[l] \o wire'[l])
  BY <1>2 DEF a, FlattenSeq, In!SingleVersion, Aligned, FrameAt
<1> QED
  BY <1>2, <1>9, <1>10, <1>11, <1>12 DEF Flows

LEMMA FlowFrame ==
  ASSUME IngressInv, NEW l \in Link, In!HandleFrame(l), Flows(l)
  PROVE  Flows(l)'
<1> SUFFICES ASSUME In!Intact(l)' PROVE Flows(l)'
  BY DEF Flows
<1> DEFINE b == buffer[l]
           a == FlattenSeq(slices[l])
           next == In!ParseNext(b)
<1>1. /\ next.found /\ buffer' = [buffer EXCEPT ![l] = next.left]
      /\ slices' = [slices EXCEPT ![l] = Append(@, next.raw)]
      /\ UNCHANGED <<wire, damaged, read>>
  BY DEF In!HandleFrame
<1>2. In!Intact(l)
  BY <1>1 DEF In!Intact, In!ToSet
<1>3. /\ b \in Stream /\ a \in Stream /\ wire[l] \in Stream
      /\ slices[l] \in Seq(Stream) /\ slices[l] \in Seq(Raw)
  BY FlowTypes
<1>4. /\ buffer'[l] = next.left /\ slices'[l] = Append(slices[l], next.raw)
      /\ wire'[l] = wire[l] /\ read'[l] = read[l]
  BY <1>1 DEF IngressInv, InTypes
<1>5. /\ a \o b = read[l] /\ Aligned(l, b \o wire[l])
      /\ In!SingleVersion(l) => \A i \in DOMAIN slices[l] : Len(slices[l][i]) = 2
  BY <1>2 DEF Flows
<1>6. Unrefused(b) /\ Begins(l, b)
  BY <1>2, <1>3, <1>5, BufferUnrefused, AlignedBegins
<1>7. PICK k \in Nat \ {0} : 2 * k \in 2 .. Len(b) /\ next = In!SplitTo(b, 2 * k)
  BY <1>1, <1>3, <1>6, AlignedSplit
<1> DEFINE raw == next.raw
           left == next.left
<1>8. /\ raw \in Raw /\ left \in Stream /\ Len(raw) = 2 * k /\ raw \o left = b
  <2> HIDE DEF next
  <2> DEFINE m == 2 * k
             x == In!SplitTo(b, m)
  <2>1. x.raw \in Raw /\ x.left \in Stream /\ Len(x.raw) = m /\ x.raw \o x.left = b
    <3>1. m \in 2 .. Len(b)
      BY <1>7
    <3> HIDE DEF m
    <3> QED
      BY <1>3, <3>1, SplitIs
  <2>2. next = x
    BY <1>7
  <2> HIDE DEF x
  <2> QED
    BY <2>1, <2>2
<1>9. ASSUME In!SingleVersion(l) PROVE Len(raw) = 2
  <2>1. Len(b) \in Nat /\ 2 <= 2 * k /\ 2 * k <= Len(b)
    BY <1>3, <1>7, LenProperties DEF Stream
  <2>2. Len(b) >= 2 /\ 2 \in 2 .. Len(b)
    BY <2>1
  <2>3. next = In!SplitTo(b, 2)
    BY <1>3, <1>6, <1>9, <2>2, SingleSplit
  <2>4. Len(In!SplitTo(b, 2).raw) = 2
    BY <1>3, <2>2, SplitIs
  <2> HIDE DEF next
  <2> QED
    BY <2>3, <2>4
<1> HIDE DEF raw, left, next
<1>10. raw \in Stream
  BY <1>8 DEF Raw
<1>11. FlattenSeq(slices'[l]) = a \o raw
  BY <1>3, <1>4, <1>10, FlattenAppend DEF raw, Stream
<1> HIDE DEF a, b
<1>12. (a \o raw) \o left = read'[l]
  <2>1. (a \o raw) \o left = a \o (raw \o left)
    BY <1>3, <1>8, <1>10, Regroup, ZenonT(60)
  <2> QED
    BY <1>4, <1>5, <1>8, <2>1
<1>13. Aligned(l, left \o wire'[l])
  <2>1. raw \o (left \o wire[l]) = b \o wire[l]
    <3>1. (raw \o left) \o wire[l] = raw \o (left \o wire[l])
      BY <1>3, <1>8, <1>10, Regroup, ZenonT(60)
    <3> QED
      BY <1>8, <3>1
  <2>2. left \o wire[l] \in Stream
    BY <1>3, <1>8, ConcatProperties DEF Stream
  <2>3. Aligned(l, raw \o (left \o wire[l])) /\ k \in Nat
    BY <1>5, <2>1
  <2>4. Aligned(l, left \o wire[l])
    BY <1>8, <1>10, <2>2, <2>3, AlignedRest
  <2> QED
    BY <1>4, <2>4
<1>14. ASSUME In!SingleVersion(l)
       PROVE  \A i \in DOMAIN slices'[l] : Len(slices'[l][i]) = 2
  <2>1. /\ Len(slices[l]) \in Nat /\ DOMAIN slices[l] = 1 .. Len(slices[l])
        /\ DOMAIN slices'[l] = 1 .. Len(slices[l]) + 1
        /\ \A i \in 1 .. Len(slices[l]) : slices'[l][i] = slices[l][i]
        /\ slices'[l][Len(slices[l]) + 1] = raw
    BY <1>3, <1>4, <1>8, AppendProperties, LenProperties DEF raw
  <2>2. \A i \in 1 .. Len(slices[l]) + 1 : i \in 1 .. Len(slices[l]) \/ i = Len(slices[l]) + 1
    BY <2>1
  <2> QED
    BY <1>5, <1>9, <1>14, <2>1, <2>2
<1>15. /\ FlattenSeq(slices[l])' = FlattenSeq(slices'[l])
       /\ In!SingleVersion(l)' = In!SingleVersion(l)
       /\ Aligned(l, buffer[l] \o wire[l])' = Aligned(l, buffer'[l] \o wire'[l])
       /\ buffer'[l] = left
  BY <1>4 DEF FlattenSeq, In!SingleVersion, Aligned, FrameAt, left
<1> QED
  BY <1>11, <1>12, <1>13, <1>14, <1>15 DEF Flows

\* A step of one link leaves the streams of the others alone.
LEMMA FlowOther ==
  ASSUME IngressInv, NEW k \in Link, NEW l \in Link, k # l, Flows(l),
         \/ \E f \in Frame : In!Send(k, f)
         \/ In!Lose(k) \/ In!Read(k) \/ In!HandleFrame(k) \/ In!HandleDatagram(k)
  PROVE  Flows(l)'
<1>1. /\ wire'[l] = wire[l] /\ buffer'[l] = buffer[l]
      /\ slices'[l] = slices[l] /\ read'[l] = read[l] /\ damaged \subseteq damaged'
  <2> USE DEF IngressInv, InTypes
  <2>1. CASE \E f \in Frame : In!Send(k, f)
    BY <2>1 DEF In!Send
  <2>2. CASE In!Lose(k)
    BY <2>2 DEF In!Lose
  <2>3. CASE In!Read(k)
    BY <2>3 DEF In!Read
  <2>4. CASE In!HandleFrame(k)
    BY <2>4 DEF In!HandleFrame
  <2>5. CASE In!HandleDatagram(k)
    <3>1. UNCHANGED <<wire, buffer, damaged, read>>
      BY <2>5 DEF In!HandleDatagram
    <3>2. \E x : slices' = [slices EXCEPT ![k] = Append(@, x)]
      BY <2>5, Zenon DEF In!HandleDatagram
    <3> QED
      BY <3>1, <3>2
  <2> QED
    BY <2>1, <2>2, <2>3, <2>4, <2>5
<1> QED
  BY <1>1, FlowSame

LEMMA FlowNext ==
  ASSUME IngressInv, \A l \in Link : Flows(l), [In!Next]_In!vars
  PROVE  (\A l \in Link : Flows(l))'
<1> SUFFICES ASSUME NEW l \in Link PROVE Flows(l)'
  OBVIOUS
<1>1. ASSUME NEW k \in Link,
             \/ \E f \in Frame : In!Send(k, f)
             \/ In!Lose(k) \/ In!Read(k) \/ In!HandleFrame(k) \/ In!HandleDatagram(k)
      PROVE  Flows(l)'
  <2>1. CASE k # l
    BY <1>1, <2>1, FlowOther
  <2>2. CASE k = l
    <3>1. CASE \E f \in Frame : In!Send(l, f)
      BY <3>1, FlowSend
    <3>2. CASE In!Lose(l)
      <4>1. l \in damaged'
        BY <3>2 DEF In!Lose
      <4> QED
        BY <4>1 DEF Flows, In!Intact
    <3>3. CASE In!Read(l)
      BY <3>3, FlowRead
    <3>4. CASE In!HandleFrame(l)
      BY <3>4, FlowFrame
    <3>5. CASE In!HandleDatagram(l)
      <4>1. l \in Datagrams
        BY <3>5 DEF In!HandleDatagram
      <4> QED
        BY <4>1 DEF Flows, In!Intact
    <3> QED
      BY <1>1, <2>2, <3>1, <3>2, <3>3, <3>4, <3>5
  <2> QED
    BY <2>1, <2>2
<1>2. ASSUME \/ \E k \in Link : In!Publish(k)
             \/ \E raw \in recent : In!Forget(raw)
             \/ UNCHANGED In!vars
      PROVE  Flows(l)'
  <2>1. UNCHANGED <<wire, buffer, slices, read, damaged>>
    <3>1. CASE \E k \in Link : In!Publish(k)
      BY <3>1 DEF In!Publish, In!history
    <3>2. CASE \E raw \in recent : In!Forget(raw)
      BY <3>2 DEF In!Forget
    <3>3. CASE UNCHANGED In!vars
      BY <3>3 DEF In!vars, In!history
    <3> QED
      BY <1>2, <3>1, <3>2, <3>3
  <2> QED
    BY <2>1, FlowSame
<1> QED
  BY <1>1, <1>2 DEF In!Next

LEMMA FlowInit == In!Init => \A l \in Link : Flows(l)
<1> SUFFICES ASSUME In!Init, NEW l \in Link PROVE Flows(l)
  OBVIOUS
<1>1. wire[l] = <<>> /\ buffer[l] = <<>> /\ read[l] = <<>> /\ slices[l] = <<>>
  BY DEF In!Init
<1>2. <<>> \o <<>> = <<>>
  OBVIOUS
<1>3. Aligned(l, <<>>)
  <2>1. Len(<<>>) = 2 * 0 /\ 0 \in Nat /\ 1 .. 0 = {}
    OBVIOUS
  <2> QED
    BY <2>1 DEF Aligned
<1>4. DOMAIN slices[l] = {}
  BY <1>1
<1> QED
  BY <1>1, <1>2, <1>3, <1>4, FlattenNone DEF Flows

\* However what a link sends is cut into reads: unless something of it is lost, is
\* refused or overflows the buffer, it comes out of the parser whole and in order, and
\* frame by frame and at once if it is of one version (framing.rs:34-161).
THEOREM StreamsPassThrough == In!Spec => []PassesThrough
<1>1. IngressInv /\ (\A l \in Link : Flows(l)) => PassesThrough
  <2> SUFFICES ASSUME IngressInv, \A k \in Link : Flows(k), NEW l \in Link, In!Intact(l)
               PROVE  /\ FlattenSeq(slices[l]) \o buffer[l] = read[l]
                      /\ In!SingleVersion(l) =>
                           /\ \A i \in DOMAIN slices[l] : Len(slices[l][i]) = 2
                           /\ In!Idle(l) => Len(buffer[l]) < 2
    BY InLibrary DEF PassesThrough, In!PassesThrough
  <2>1. /\ FlattenSeq(slices[l]) \o buffer[l] = read[l]
        /\ Aligned(l, buffer[l] \o wire[l])
        /\ In!SingleVersion(l) => \A i \in DOMAIN slices[l] : Len(slices[l][i]) = 2
    BY DEF Flows
  <2>2. ASSUME In!SingleVersion(l), In!Idle(l) PROVE Len(buffer[l]) < 2
    <3>1. buffer[l] \in Stream /\ wire[l] \in Stream
      BY FlowTypes
    <3>2. Len(buffer[l]) \in Nat
      BY <3>1, LenProperties DEF Stream
    <3>3. Unrefused(buffer[l]) /\ Begins(l, buffer[l])
      BY <2>1, <3>1, BufferUnrefused, AlignedBegins
    <3>4. ASSUME Len(buffer[l]) >= 2 PROVE FALSE
      <4>1. In!ParseNext(buffer[l]) = In!SplitTo(buffer[l], 2)
        BY <2>2, <3>1, <3>3, <3>4, SingleSplit
      <4>2. In!SplitTo(buffer[l], 2).found
        BY DEF In!SplitTo
      <4> QED
        BY <2>2, <4>1, <4>2 DEF In!Idle
    <3> QED
      BY <3>2, <3>4
  <2> QED
    BY <2>1, <2>2
<1>2. In!Spec => [](\A l \in Link : Flows(l))
  BY IngressInvariance, FlowInit, FlowNext, PTL DEF In!Spec
<1> QED
  BY <1>1, <1>2, IngressInvariance, PTL

-----------------------------------------------------------------------------
(* The statistics.  The history is the end of the samples taken; what a    *)
(* report says of its windows stays with the samples that it was made from.*)

Time == 0 .. MaxClock

LEMMA StatsAssumed == Stats!StatsAssumption
BY PartsAssumption DEF PartsAssumption

LEMMA MinusIs ==
  ASSUME NEW a \in Nat, NEW b \in Nat
  PROVE  /\ Stats!Minus(a, b) \in Nat /\ Stats!Minus(a, b) <= a
         /\ \A x \in Nat : x < Stats!Minus(a, b) <=> x + b < a
BY DEF Stats!Minus

\* The history is cleaned up to the first sample that is not too old; the latest is not.
LEMMA CleanUpIs ==
  ASSUME NEW s \in Seq(Time), s # <<>>
  PROVE  \E first \in 1 .. Len(s) :
           /\ Stats!CleanUp(s) = SubSeq(s, first, Len(s))
           /\ s[first] >= Stats!Minus(s[Len(s)], StatsRetention)
<1> DEFINE cutoff == Stats!Minus(s[Len(s)], StatsRetention)
           Kept == {i \in DOMAIN s : s[i] >= cutoff}
<1>1. /\ DOMAIN s = 1 .. Len(s) /\ Len(s) \in Nat \ {0} /\ MaxClock \in Nat
      /\ StatsRetention \in Nat
  BY LenProperties, EmptySeq, StatsAssumed DEF Stats!StatsAssumption
<1>2. Len(s) \in Kept
  <2>1. Len(s) \in 1 .. Len(s)
    BY <1>1
  <2>2. s[Len(s)] \in Time
    BY <2>1, ElementOfSeq
  <2>3. s[Len(s)] \in Nat
    BY <1>1, <2>2 DEF Time
  <2>4. cutoff \in Nat /\ cutoff <= s[Len(s)]
    BY <1>1, <2>3, MinusIs
  <2> HIDE DEF cutoff
  <2>5. s[Len(s)] >= cutoff
    BY <2>3, <2>4
  <2> QED
    BY <1>1, <2>1, <2>5
<1>3. \E m \in Kept : \A k \in Kept : m <= k
  <2>1. Kept \in SUBSET Nat
    BY <1>1
  <2> HIDE DEF Kept
  <2> QED
    BY <1>2, <2>1, NatMin
<1> DEFINE first == CHOOSE i \in Kept : \A j \in Kept : i <= j
<1>4. first \in Kept
  <2> HIDE DEF Kept
  <2> QED
    BY <1>3
<1>5. Stats!CleanUp(s) = SubSeq(s, first, Len(s))
  BY DEF Stats!CleanUp, Stats!Latest
<1>6. first \in 1 .. Len(s) /\ s[first] >= cutoff
  BY <1>1, <1>4
<1> HIDE DEF first
<1> QED
  BY <1>5, <1>6

StatsTypes ==
  /\ clock \in Time /\ reporter \in {"running", "over"} /\ token \in BOOLEAN
  /\ taken \in Seq(Time) /\ cleaned \in 0 .. Len(taken)
  /\ samples = SubSeq(taken, cleaned + 1, Len(taken))
  /\ last_log_time \in Time
  /\ reported \in Seq(Time) /\ DOMAIN report \subseteq Windows
  /\ report \in [DOMAIN report -> 0 .. Len(reported)]

\* What AggregatesWindow says of the report, and why nothing too old stays in front.
ReportOK ==
  \A w \in DOMAIN report :
    LET Within(i) == Stats!Latest(reported) <= reported[i] + w
    IN /\ report[w] \in DOMAIN reported
       /\ (\A i, j \in DOMAIN reported : i < j => reported[i] <= reported[j]) =>
            \A i \in DOMAIN reported : Within(i) <=> i >= report[w]

FrontKept == samples # <<>> =>
               samples[1] >= Stats!Minus(samples[Len(samples)], StatsRetention)

StatsInv == StatsTypes /\ ReportOK /\ FrontKept

\* What is left of the samples is a sequence of times.
LEMMA SamplesType ==
  ASSUME StatsTypes
  PROVE  samples \in Seq(Time) /\ Len(samples) = Len(taken) - cleaned
<1>1. Len(taken) \in Nat /\ cleaned \in Nat /\ cleaned <= Len(taken)
  BY LenProperties DEF StatsTypes
<1>2. \A i \in cleaned + 1 .. Len(taken) : taken[i] \in Time
  <2>1. \A i \in cleaned + 1 .. Len(taken) : i \in 1 .. Len(taken)
    BY <1>1
  <2> QED
    BY <2>1, ElementOfSeq DEF StatsTypes
<1>3. /\ SubSeq(taken, cleaned + 1, Len(taken)) \in Seq(Time)
      /\ Len(SubSeq(taken, cleaned + 1, Len(taken)))
           = IF cleaned + 1 <= Len(taken) THEN Len(taken) - (cleaned + 1) + 1 ELSE 0
  BY <1>1, <1>2, SubSeqProperties
<1> QED
  BY <1>1, <1>3 DEF StatsTypes

\* A report made of s says what it should.
LEMMA ReportIs ==
  ASSUME NEW s \in Seq(Time), s # <<>>, NEW r \in Stats!Reports(s)
  PROVE  /\ r \in [Windows -> 0 .. Len(s)]
         /\ \A w \in Windows :
              /\ r[w] \in 1 .. Len(s)
              /\ (\A i, j \in 1 .. Len(s) : i < j => s[i] <= s[j]) =>
                   \A i \in 1 .. Len(s) : s[Len(s)] <= s[i] + w <=> i >= r[w]
<1>1. /\ Len(s) \in Nat \ {0} /\ MaxClock \in Nat /\ Windows \subseteq Nat
  BY EmptySeq, StatsAssumed DEF Stats!StatsAssumption
<1>2. \A i \in 1 .. Len(s) : s[i] \in Nat
  <2>1. \A i \in 1 .. Len(s) : s[i] \in Time
    BY ElementOfSeq
  <2> QED
    BY <1>1, <2>1 DEF Time
<1> DEFINE last == s[Len(s)]
<1>3. last \in Nat /\ Len(s) \in 1 .. Len(s)
  BY <1>1, <1>2
<1>4. r \in [Windows -> 0 .. Len(s)]
  BY DEF Stats!Reports
<1>5. SUFFICES ASSUME NEW w \in Windows
               PROVE  /\ r[w] \in 1 .. Len(s)
                      /\ (\A i, j \in 1 .. Len(s) : i < j => s[i] <= s[j]) =>
                           \A i \in 1 .. Len(s) : last <= s[i] + w <=> i >= r[w]
  BY <1>4
<1> HIDE DEF last
<1>6. w \in Nat
  BY <1>1
<1> DEFINE cut == Stats!Minus(last, w)
<1>7. cut \in Nat /\ cut <= last /\ \A i \in 1 .. Len(s) : s[i] < cut <=> s[i] + w < last
  BY <1>2, <1>3, <1>6, MinusIs
<1> HIDE DEF cut
<1>8. \/ r[w] \in Stats!StartIndex(s, w)
      \/ r[w] = 0 /\ Len(s) + 1 \in Stats!StartIndex(s, w)
  BY DEF Stats!Reports
<1>9. \A i \in Stats!StartIndex(s, w) :
        /\ i \in 1 .. Len(s) + 1
        /\ i > 1 => s[i - 1] < cut
        /\ i <= Len(s) => ~(s[i] < cut)
  BY DEF Stats!StartIndex, Stats!Latest, cut, last
<1>10. Len(s) + 1 \notin Stats!StartIndex(s, w)
  <2> SUFFICES ASSUME Len(s) + 1 \in Stats!StartIndex(s, w) PROVE FALSE
    OBVIOUS
  <2>1. Len(s) + 1 > 1 /\ (Len(s) + 1) - 1 = Len(s)
    BY <1>1
  <2>2. s[Len(s)] < cut
    BY <1>9, <2>1
  <2>3. last < cut
    BY <2>2 DEF last
  <2> QED
    BY <1>3, <1>7, <2>3
<1> DEFINE k == r[w]
<1>11. k \in 1 .. Len(s) /\ (k > 1 => s[k - 1] < cut) /\ ~(s[k] < cut)
  <2>1. k \in Stats!StartIndex(s, w) /\ k \in 0 .. Len(s)
    BY <1>4, <1>5, <1>8, <1>10
  <2> HIDE DEF k
  <2>2. k \in 1 .. Len(s) + 1 /\ k <= Len(s)
    BY <1>1, <1>9, <2>1
  <2> QED
    BY <1>9, <2>1, <2>2
<1> HIDE DEF k
<1>12. ASSUME \A i, j \in 1 .. Len(s) : i < j => s[i] <= s[j], NEW i \in 1 .. Len(s)
       PROVE  last <= s[i] + w <=> i >= k
  <2>1. s[i] \in Nat /\ (s[i] < cut <=> s[i] + w < last)
    BY <1>2, <1>7
  <2>2. CASE i >= k
    <3>1. s[k] \in Nat /\ s[k] <= s[i]
      BY <1>2, <1>11, <1>12, <2>1, <2>2
    <3>2. ~(s[i] < cut)
      BY <1>7, <1>11, <2>1, <3>1
    <3> QED
      BY <1>3, <1>6, <2>1, <2>2, <3>2
  <2>3. CASE i < k
    <3>1. k > 1 /\ k - 1 \in 1 .. Len(s) /\ (i < k - 1 \/ i = k - 1)
      BY <1>1, <1>11, <2>3
    <3>2. s[k - 1] \in Nat /\ s[i] <= s[k - 1]
      BY <1>2, <1>12, <2>1, <3>1
    <3>3. s[i] < cut
      BY <1>7, <1>11, <2>1, <3>1, <3>2
    <3> QED
      BY <1>3, <1>6, <1>11, <2>1, <2>3, <3>3
  <2> QED
    BY <1>11, <2>2, <2>3
<1> QED
  BY <1>11, <1>12 DEF k, last

LEMMA StatsInit == Stats!Init => StatsInv
<1> SUFFICES ASSUME Stats!Init PROVE StatsInv
  OBVIOUS
<1>1. /\ clock \in Time /\ reporter = "running" /\ token = FALSE
      /\ samples = <<>> /\ last_log_time = 0
      /\ report = [w \in {} |-> 0] /\ reported = <<>>
      /\ taken = <<>> /\ cleaned = 0
  BY DEF Stats!Init, Time
<1>2. Len(taken) = 0 /\ taken \in Seq(Time) /\ reported \in Seq(Time)
  BY <1>1
<1>3. samples = SubSeq(taken, cleaned + 1, Len(taken))
  BY <1>1, <1>2, SubSeqEmpty
<1>4. 0 \in Time
  BY StatsAssumed DEF Stats!StatsAssumption, Time
<1>5. DOMAIN report = {} /\ report \in [DOMAIN report -> 0 .. Len(reported)]
  BY <1>1
<1>6. StatsTypes
  <2>1. cleaned \in 0 .. Len(taken)
    BY <1>1, <1>2
  <2>2. reporter \in {"running", "over"} /\ token \in BOOLEAN /\ DOMAIN report \subseteq Windows
    BY <1>1, <1>5
  <2> QED
    BY <1>1, <1>2, <1>3, <1>4, <1>5, <2>1, <2>2 DEF StatsTypes
<1>7. ReportOK
  BY <1>5 DEF ReportOK
<1> QED
  BY <1>1, <1>6, <1>7 DEF StatsInv, FrontKept

LEMMA SampleKeeps ==
  ASSUME StatsInv, Stats!Sample
  PROVE  StatsInv'
<1>1. /\ samples \in Seq(Time) /\ Len(samples) = Len(taken) - cleaned /\ clock \in Time
      /\ taken \in Seq(Time) /\ cleaned \in 0 .. Len(taken) /\ Len(taken) \in Nat
      /\ samples = SubSeq(taken, cleaned + 1, Len(taken))
  BY SamplesType, LenProperties DEF StatsInv, StatsTypes
<1> DEFINE s == Append(samples, clock)
           t == Append(taken, clock)
<1>2. /\ s \in Seq(Time) /\ s # <<>> /\ Len(s) = Len(taken) - cleaned + 1
      /\ \A i \in 1 .. Len(samples) : s[i] = samples[i]
      /\ s[Len(samples) + 1] = clock
  <2>1. samples \in Seq(Time) /\ clock \in Time
    BY <1>1
  <2>2. /\ s \in Seq(Time) /\ s # <<>> /\ Len(s) = Len(samples) + 1
        /\ \A i \in 1 .. Len(samples) : s[i] = samples[i]
        /\ s[Len(samples) + 1] = clock
    BY <2>1, AppendProperties
  <2> HIDE DEF s
  <2> QED
    BY <1>1, <2>2
<1>3. /\ t \in Seq(Time) /\ Len(t) = Len(taken) + 1
      /\ \A i \in 1 .. Len(taken) : t[i] = taken[i]
      /\ t[Len(taken) + 1] = clock
  BY <1>1, AppendProperties
<1>4. /\ taken' = t /\ samples' = Stats!CleanUp(s)
      /\ cleaned' = cleaned + Len(samples) + 1 - Len(samples')
      /\ UNCHANGED <<clock, reporter, token>>
      /\ \/ report' \in Stats!Reports(samples') /\ reported' = samples' /\ last_log_time' = clock
         \/ UNCHANGED <<report, reported, last_log_time>>
  BY DEF Stats!Sample
<1> HIDE DEF s, t
<1>5. PICK first \in 1 .. Len(s) :
        /\ Stats!CleanUp(s) = SubSeq(s, first, Len(s))
        /\ s[first] >= Stats!Minus(s[Len(s)], StatsRetention)
  BY <1>2, CleanUpIs
<1>6. \A i \in 1 .. Len(s) : s[i] = t[cleaned + i]
  <2>1. ASSUME NEW i \in 1 .. Len(samples) PROVE s[i] = t[cleaned + i]
    <3>1. samples[i] = taken[cleaned + i]
      <4>1. \A k \in cleaned + 1 .. Len(taken) : taken[k] \in Time
        <5>1. \A k \in cleaned + 1 .. Len(taken) : k \in 1 .. Len(taken)
          BY <1>1
        <5> QED
          BY <1>1, <5>1, ElementOfSeq
      <4>2. \A k \in 1 .. Len(taken) - (cleaned + 1) + 1 :
              SubSeq(taken, cleaned + 1, Len(taken))[k] = taken[cleaned + 1 + k - 1]
        BY <1>1, <4>1, SubSeqProperties
      <4>3. i \in 1 .. Len(taken) - (cleaned + 1) + 1 /\ cleaned + 1 + i - 1 = cleaned + i
        BY <1>1
      <4> QED
        BY <1>1, <4>2, <4>3
    <3>2. cleaned + i \in 1 .. Len(taken)
      BY <1>1
    <3> QED
      BY <1>2, <1>3, <3>1, <3>2
  <2>2. s[Len(samples) + 1] = t[cleaned + (Len(samples) + 1)]
    <3>1. cleaned + (Len(samples) + 1) = Len(taken) + 1
      BY <1>1
    <3> QED
      BY <1>2, <1>3, <3>1
  <2>3. \A i \in 1 .. Len(s) : i \in 1 .. Len(samples) \/ i = Len(samples) + 1
    BY <1>1, <1>2
  <2> QED
    BY <2>1, <2>2, <2>3
<1>7. /\ samples' \in Seq(Time) /\ Len(samples') = Len(s) - first + 1
      /\ \A i \in 1 .. Len(s) - first + 1 : samples'[i] = s[first + i - 1]
  <2>1. \A i \in first .. Len(s) : s[i] \in Time
    <3>1. \A i \in first .. Len(s) : i \in 1 .. Len(s)
      OBVIOUS
    <3> QED
      BY <1>2, <3>1, ElementOfSeq
  <2>2. first \in Int /\ Len(s) \in Int /\ first <= Len(s)
    BY <1>1, <1>2
  <2>3. /\ SubSeq(s, first, Len(s)) \in Seq(Time)
        /\ Len(SubSeq(s, first, Len(s))) = IF first <= Len(s) THEN Len(s) - first + 1 ELSE 0
        /\ \A i \in 1 .. Len(s) - first + 1 : SubSeq(s, first, Len(s))[i] = s[first + i - 1]
    BY <2>1, <2>2, SubSeqProperties
  <2> QED
    BY <1>4, <1>5, <2>2, <2>3
<1>8. cleaned' = cleaned + first - 1 /\ cleaned' \in 0 .. Len(taken')
  <2> DEFINE n == Len(taken)
             m == Len(samples')
  <2>1. /\ cleaned \in 0 .. n /\ n \in Nat /\ first \in 1 .. n - cleaned + 1
        /\ m = n - cleaned + 1 - first + 1 /\ cleaned' = cleaned + (n - cleaned) + 1 - m
    <3>1. cleaned \in 0 .. n /\ n \in Nat
      BY <1>1
    <3>2. Len(s) = n - cleaned + 1 /\ Len(samples) = n - cleaned
      BY <1>1, <1>2
    <3>3. first \in 1 .. n - cleaned + 1
      BY <3>2
    <3>4. m = n - cleaned + 1 - first + 1
      BY <1>7, <3>2
    <3>5. cleaned' = cleaned + (n - cleaned) + 1 - m
      BY <1>4, <3>2
    <3> QED
      BY <3>1, <3>3, <3>4, <3>5
  <2>2. Len(taken') = n + 1
    BY <1>3, <1>4
  <2> HIDE DEF n, m
  <2>3. cleaned' = cleaned + first - 1
    BY <2>1
  <2>4. cleaned + first - 1 \in 0 .. n + 1
    BY <2>1
  <2> QED
    BY <2>2, <2>3, <2>4
<1>9. samples' = SubSeq(taken', cleaned' + 1, Len(taken'))
  <2> DEFINE u == SubSeq(t, cleaned + first, Len(t))
  <2>1. \A i \in cleaned + first .. Len(t) : t[i] \in Time
    <3>1. \A i \in cleaned + first .. Len(t) : i \in 1 .. Len(t)
      BY <1>1
    <3> QED
      BY <1>3, <3>1, ElementOfSeq
  <2>2. cleaned + first \in Int /\ Len(t) \in Int /\ cleaned + first <= Len(t)
        /\ Len(t) - (cleaned + first) + 1 = Len(s) - first + 1
    BY <1>1, <1>2, <1>3
  <2>3. /\ u \in Seq(Time) /\ Len(u) = Len(s) - first + 1
        /\ \A i \in 1 .. Len(s) - first + 1 : u[i] = t[cleaned + first + i - 1]
    <3>1. /\ u \in Seq(Time)
          /\ Len(u) = IF cleaned + first <= Len(t) THEN Len(t) - (cleaned + first) + 1 ELSE 0
          /\ \A i \in 1 .. Len(t) - (cleaned + first) + 1 : u[i] = t[cleaned + first + i - 1]
      BY <2>1, <2>2, SubSeqProperties
    <3> HIDE DEF u
    <3> QED
      BY <2>2, <3>1
  <2> HIDE DEF u
  <2>4. ASSUME NEW i \in 1 .. Len(s) - first + 1 PROVE samples'[i] = u[i]
    <3>1. first + i - 1 \in 1 .. Len(s) /\ cleaned + (first + i - 1) = cleaned + first + i - 1
      BY <1>1, <1>2
    <3> QED
      BY <1>6, <1>7, <2>3, <3>1
  <2>5. samples' = u
    BY <1>7, <2>3, <2>4, SeqEqual
  <2>6. cleaned' + 1 = cleaned + first
    BY <1>1, <1>8
  <2> QED
    BY <1>4, <2>5, <2>6 DEF u
<1>10. samples' # <<>> /\ FrontKept'
  <2>1. /\ Len(samples') \in Nat \ {0} /\ 1 \in 1 .. Len(s) - first + 1
        /\ Len(samples') \in 1 .. Len(s) - first + 1
        /\ first + 1 - 1 = first /\ first + Len(samples') - 1 = Len(s)
    BY <1>1, <1>2, <1>7
  <2>2. samples'[1] = s[first] /\ samples'[Len(samples')] = s[Len(s)]
    BY <1>7, <2>1
  <2> QED
    BY <1>5, <2>1, <2>2, EmptySeq DEF FrontKept, Stats!Minus
<1>11. /\ last_log_time' \in Time /\ reported' \in Seq(Time) /\ DOMAIN report' \subseteq Windows
       /\ report' \in [DOMAIN report' -> 0 .. Len(reported')]
       /\ ReportOK'
  <2>1. CASE UNCHANGED <<report, reported, last_log_time>>
    BY <2>1 DEF StatsInv, StatsTypes, ReportOK, Stats!Latest
  <2>2. CASE report' \in Stats!Reports(samples') /\ reported' = samples' /\ last_log_time' = clock
    <3>1. /\ report' \in [Windows -> 0 .. Len(samples')]
          /\ \A w \in Windows :
               /\ report'[w] \in 1 .. Len(samples')
               /\ (\A i, j \in 1 .. Len(samples') : i < j => samples'[i] <= samples'[j]) =>
                    \A i \in 1 .. Len(samples') :
                      samples'[Len(samples')] <= samples'[i] + w <=> i >= report'[w]
      BY <1>7, <1>10, <2>2, ReportIs
    <3>2. DOMAIN report' = Windows /\ DOMAIN samples' = 1 .. Len(samples')
      BY <1>7, <3>1, LenProperties
    <3> QED
      BY <1>1, <1>7, <2>2, <3>1, <3>2 DEF ReportOK, Stats!Latest
  <2> QED
    BY <1>4, <2>1, <2>2
<1> QED
  BY <1>1, <1>3, <1>4, <1>8, <1>9, <1>10, <1>11 DEF StatsInv, StatsTypes

LEMMA StatsNext == StatsInv /\ [Stats!Next]_Stats!vars => StatsInv'
<1> SUFFICES ASSUME StatsInv, [Stats!Next]_Stats!vars PROVE StatsInv'
  OBVIOUS
<1>1. CASE Stats!Sample
  BY <1>1, SampleKeeps
<1>2. CASE Stats!SetClock \/ Stats!Cancel \/ Stats!SeeCancelled \/ UNCHANGED Stats!vars
  <2>1. /\ clock' \in Time /\ reporter' \in {"running", "over"} /\ token' \in BOOLEAN
        /\ UNCHANGED <<samples, last_log_time, report, reported, taken, cleaned>>
    BY <1>2 DEF StatsInv, StatsTypes, Stats!SetClock, Stats!Cancel, Stats!SeeCancelled,
         Stats!vars, Time
  <2> QED
    BY <2>1 DEF StatsInv, StatsTypes, ReportOK, FrontKept, Stats!Latest, Stats!Minus
<1> QED
  BY <1>1, <1>2 DEF Stats!Next

LEMMA StatsInvariance == Stats!Spec => []StatsInv
<1> QED
  BY StatsInit, StatsNext, PTL DEF Stats!Spec

LEMMA StatsTypeOK == StatsInv => Stats!TypeOK
BY DEF StatsInv, StatsTypes, Stats!TypeOK, Time

\* Whatever the clock does: a report has the latest sample in each window, and in a
\* history whose times do not decrease the samples of the window and no other; what is
\* too old stays only behind a sample that is not (stats_history.rs:33-80).
THEOREM ReportsAggregateTheirWindows == Stats!Spec => []AggregatesWindow
<1>1. StatsInv => AggregatesWindow
  <2> SUFFICES ASSUME StatsInv PROVE AggregatesWindow
    OBVIOUS
  <2>1. StatsTypes /\ ReportOK /\ FrontKept
    BY DEF StatsInv
  <2>2. ASSUME NEW i \in DOMAIN samples,
               samples[i] + StatsRetention < Stats!Latest(samples)
        PROVE  \E j \in 1 .. i - 1 : ~(samples[j] + StatsRetention < Stats!Latest(samples))
    <3>1. /\ samples \in Seq(Time) /\ DOMAIN samples = 1 .. Len(samples)
          /\ Len(samples) \in Nat /\ MaxClock \in Nat /\ StatsRetention \in Nat
      BY <2>1, SamplesType, LenProperties, StatsAssumed DEF Stats!StatsAssumption
    <3>2. i \in 1 .. Len(samples) /\ 1 \in 1 .. Len(samples) /\ Len(samples) \in 1 .. Len(samples)
      BY <2>2, <3>1
    <3>3. samples[1] \in Nat /\ samples[Len(samples)] \in Nat /\ samples # <<>>
      <4>1. samples[1] \in Time /\ samples[Len(samples)] \in Time
        BY <3>1, <3>2, ElementOfSeq
      <4>2. samples # <<>>
        BY <3>1, <3>2, EmptySeq
      <4> QED
        BY <3>1, <4>1, <4>2 DEF Time
    <3>4. ~(samples[1] + StatsRetention < samples[Len(samples)])
      <4> DEFINE x == samples[1]
                 y == samples[Len(samples)]
                 c == Stats!Minus(y, StatsRetention)
      <4>1. c \in Nat /\ (x < c <=> x + StatsRetention < y) /\ x >= c
        BY <2>1, <3>1, <3>3, MinusIs DEF FrontKept
      <4>2. x \in Nat
        BY <3>3
      <4> HIDE DEF x, y, c
      <4>3. ~(x + StatsRetention < y)
        BY <4>1, <4>2
      <4> QED
        BY <4>3 DEF x, y
    <3>5. i # 1
      BY <2>2, <3>4 DEF Stats!Latest
    <3>6. 1 \in 1 .. i - 1
      BY <3>1, <3>2, <3>5
    <3> QED
      BY <3>4, <3>6 DEF Stats!Latest
  <2> QED
    BY <2>1, <2>2, Zenon DEF AggregatesWindow, Stats!AggregatesWindow, ReportOK
<1> QED
  BY <1>1, StatsInvariance, PTL

-----------------------------------------------------------------------------
(* The configuration.                                                      *)

Loaded == [tcp_port : Conf!Port, general : {"default", "set", "bad"}, endpoint : Seq(Conf!Endpoint)]
Loading == (0 .. NumFragments) \X Conf!Contents

LEMMA ConfAssumed == Conf!ConfigurationAssumption
BY PartsAssumption DEF PartsAssumption

\* Configuration has the library operators under its own name.
LEMMA ConfLibrary ==
  /\ \A S : Conf!Cardinality(S) = Cardinality(S)
  /\ \A s : Conf!ToSet(s) = ToSet(s) /\ Conf!FlattenSeq(s) = FlattenSeq(s)
  /\ \A s : Conf!IsInjective(s) = IsInjective(s)
<1>1. \A S : Conf!Cardinality(S) = Cardinality(S)
  BY DEF Conf!Cardinality, Cardinality
<1>2. \A s : Conf!ToSet(s) = ToSet(s)
  BY DEF Conf!ToSet, ToSet
<1>3. \A s : Conf!FlattenSeq(s) = FlattenSeq(s)
  BY DEF Conf!FlattenSeq, FlattenSeq
<1>4. \A s : Conf!IsInjective(s) = IsInjective(s)
  BY DEF Conf!IsInjective, IsInjective
<1> QED
  BY <1>1, <1>2, <1>3, <1>4

LEMMA SetsOfSeqs == \A S : Conf!SetToSeqs(S) = SetToSeqs(S)
BY ConfLibrary DEF Conf!SetToSeqs, SetToSeqs

\* What can be read is a content or is no TOML.
LEMMA ContentIs ==
  ASSUME NEW c \in FileContents \cup FragmentContents \cup {Conf!Missing, Conf!Garbage}, c.toml
  PROVE  c \in Conf!Contents
<1>1. ~Conf!Missing.toml /\ ~Conf!Garbage.toml
  BY DEF Conf!Missing, Conf!Garbage
<1> QED
  BY <1>1, ConfAssumed DEF Conf!ConfigurationAssumption

LEMMA FieldsIs ==
  ASSUME NEW c \in Conf!Contents
  PROVE  /\ Conf!Fields(c) \in Loaded
         /\ Conf!Fields(c).tcp_port = c.tcp_port
         /\ Conf!Fields(c).general = c.general
         /\ Conf!Fields(c).endpoint = c.endpoint
         /\ c.toml
<1>1. DOMAIN Conf!Default = {"tcp_port", "general", "endpoint"}
  BY DEF Conf!Default
<1>2. /\ c.tcp_port \in Conf!Port /\ c.general \in {"default", "set", "bad"}
      /\ c.endpoint \in Seq(Conf!Endpoint) /\ c.toml
  <2>1. c.toml \in Conf!Yes
    BY DEF Conf!Contents
  <2>2. c.toml
    BY <2>1, Zenon DEF Conf!Yes
  <2>3. /\ c.tcp_port \in Conf!Port /\ c.general \in {"default", "set", "bad"}
        /\ c.endpoint \in Seq(Conf!Endpoint)
    BY DEF Conf!Contents
  <2> QED
    BY <2>2, <2>3
<1>3. Conf!Fields(c) = [tcp_port |-> c.tcp_port, general |-> c.general, endpoint |-> c.endpoint]
  BY <1>1 DEF Conf!Fields
<1> QED
  BY <1>2, <1>3 DEF Loaded

LEMMA DefaultIs == Conf!Default \in Loaded
<1>1. 0 \in Conf!Port /\ <<>> \in Seq(Conf!Endpoint)
  BY DEF Conf!Port
<1> QED
  BY <1>1 DEF Conf!Default, Loaded

LEMMA MergeIs ==
  ASSUME NEW c \in Loaded, NEW d \in Loaded
  PROVE  /\ Conf!Merge(c, d) \in Loaded
         /\ Conf!Merge(c, d).tcp_port = IF d.tcp_port # 0 THEN d.tcp_port ELSE c.tcp_port
         /\ Conf!Merge(c, d).general = d.general
         /\ Conf!Merge(c, d).endpoint = c.endpoint \o d.endpoint
<1>1. c.endpoint \in Seq(Conf!Endpoint) /\ d.endpoint \in Seq(Conf!Endpoint)
  BY DEF Loaded
<1>2. c.endpoint \o d.endpoint \in Seq(Conf!Endpoint)
  BY <1>1, ConcatProperties
<1> QED
  BY <1>2 DEF Conf!Merge, Loaded

\* Any set of names can be sorted.
LEMMA SortExists ==
  ASSUME NEW n \in Nat, NEW S \in SUBSET (1 .. n)
  PROVE  \E s \in SetToSeqs(S) : Increasing(s)
<1> DEFINE T == {m \in Nat : \A R \in SUBSET (1 .. m) :
                   IsFiniteSet(R) /\ \E s \in SetToSeqs(R) : Increasing(s)}
<1>1. 0 \in T
  <2>1. \A R \in SUBSET (1 .. 0) : R = {}
    OBVIOUS
  <2>2. IsFiniteSet({}) /\ Cardinality({}) = 0
    BY FS_EmptySet
  <2>3. <<>> \in SetToSeqs({})
    <3>1. 1 .. 0 = {} /\ <<>> \in [{} -> {}]
      OBVIOUS
    <3> QED
      BY <2>2, <3>1 DEF SetToSeqs
  <2>4. Increasing(<<>>)
    BY DEF Increasing
  <2> QED
    BY <2>1, <2>2, <2>3, <2>4
<1>2. ASSUME NEW m \in 1 .. n, m - 1 \in T
      PROVE  m \in T
  <2> SUFFICES ASSUME NEW R \in SUBSET (1 .. m)
               PROVE  IsFiniteSet(R) /\ \E s \in SetToSeqs(R) : Increasing(s)
    OBVIOUS
  <2> DEFINE Q == R \ {m}
  <2>1. Q \in SUBSET (1 .. m - 1)
    OBVIOUS
  <2>2. PICK s \in SetToSeqs(Q) : Increasing(s)
    BY <1>2, <2>1
  <2>3. IsFiniteSet(Q)
    BY <1>2, <2>1
  <2>4. CASE m \notin R
    <3>1. Q = R
      BY <2>4
    <3> QED
      BY <2>2, <2>3, <3>1
  <2>5. CASE m \in R
    <3> DEFINE k == Cardinality(Q)
    <3>1. R = Q \cup {m} /\ m \notin Q
      BY <2>5
    <3> HIDE DEF Q
    <3>2. k \in Nat /\ IsFiniteSet(R) /\ Cardinality(R) = k + 1
      BY <2>3, <3>1, FS_CardinalityType, FS_AddElement
    <3>3. s \in [1 .. k -> Q] /\ \A i, j \in 1 .. k : i # j => s[i] # s[j]
      BY <2>2 DEF SetToSeqs
    <3> HIDE DEF k
    <3> DEFINE g == [i \in 1 .. k + 1 |-> IF i <= k THEN s[i] ELSE m]
    <3>4. \A i \in 1 .. k : i \in 1 .. k + 1 /\ g[i] = s[i] /\ s[i] \in Q
      BY <3>2, <3>3
    <3>5. k + 1 \in 1 .. k + 1 /\ g[k + 1] = m
      BY <3>2
    <3>6. \A i \in 1 .. k + 1 : i \in 1 .. k \/ i = k + 1
      BY <3>2
    <3>7. g \in [1 .. k + 1 -> R]
      <4>1. \A i \in 1 .. k + 1 : g[i] \in R
        BY <3>1, <3>4, <3>5, <3>6
      <4> QED
        BY <4>1
    <3>8. DOMAIN g = 1 .. k + 1 /\ DOMAIN s = 1 .. k
      BY <3>3
    <3> HIDE DEF g
    <3>9. \A i, j \in 1 .. k + 1 : i # j => g[i] # g[j]
      BY <3>1, <3>3, <3>4, <3>5, <3>6
    <3>10. Increasing(g)
      <4> SUFFICES ASSUME NEW i \in 1 .. k + 1, NEW j \in 1 .. k + 1, i < j
                   PROVE  g[i] < g[j]
        BY <3>8 DEF Increasing
      <4>1. i \in 1 .. k
        BY <3>2
      <4>2. CASE j \in 1 .. k
        BY <2>2, <3>4, <3>8, <4>1, <4>2 DEF Increasing
      <4>3. CASE j = k + 1
        <5>1. g[i] \in 1 .. m - 1
          BY <2>1, <3>4, <4>1
        <5> QED
          BY <3>5, <4>3, <5>1
      <4> QED
        BY <3>6, <4>2, <4>3
    <3>11. g \in SetToSeqs(R)
      BY <3>2, <3>7, <3>9 DEF SetToSeqs
    <3> QED
      BY <3>2, <3>10, <3>11
  <2> QED
    BY <2>4, <2>5
<1> HIDE DEF T
<1>3. n \in T
  BY <1>1, <1>2, Upward
<1> QED
  BY <1>3 DEF T

\* The names of the fragments come in order, whatever order read_dir has.
LEMMA SortedIs ==
  ASSUME NEW S \in SUBSET Conf!Name, NEW names \in Conf!SetToSeqs(S)
  PROVE  Conf!Sorted(names) \in Seq(Conf!Name) /\ Increasing(Conf!Sorted(names))
<1>1. NumFragments \in Nat /\ S \in SUBSET (1 .. NumFragments)
  BY ConfAssumed DEF Conf!ConfigurationAssumption, Conf!Name
<1>2. IsFiniteSet(S)
  <2>1. IsFiniteSet(1 .. NumFragments)
    BY <1>1, FS_Interval
  <2> QED
    BY <1>1, <2>1, FS_Subset
<1>3. Conf!ToSet(names) = S
  BY <1>2, AllOfThem, ConfLibrary, SetsOfSeqs
<1>4. \E s \in SetToSeqs(S) : Increasing(s)
  BY <1>1, SortExists
<1> DEFINE t == CHOOSE s \in SetToSeqs(S) : \A i, j \in DOMAIN s : i < j => s[i] < s[j]
<1>5. Conf!Sorted(names) = t
  BY <1>3, SetsOfSeqs DEF Conf!Sorted
<1>6. t \in SetToSeqs(S) /\ Increasing(t)
  BY <1>4 DEF Increasing
<1> HIDE DEF t
<1>7. t \in Seq(S)
  BY <1>2, <1>6, AllOfThem
<1>8. t \in Seq(Conf!Name)
  BY <1>7, SeqMonotonic
<1> QED
  BY <1>5, <1>6, <1>8

-----------------------------------------------------------------------------
(* What has been read and what came of it.  Until the directory is done    *)
(* the configuration is in two parts; whole is what they make together.    *)

EndpointsOf(s) == [i \in DOMAIN s |-> s[i][2].endpoint]

NoFragment == seen = <<>> \/ seen[Len(seen)][1] = 0
LastGeneral == IF seen = <<>> THEN "default" ELSE seen[Len(seen)][2].general

\* p is the last port that is set in s, or is not set as none is.
LastPort(s, p) ==
  \/ p = 0 /\ \A i \in DOMAIN s : s[i][2].tcp_port = 0
  \/ \E i \in DOMAIN s :
       /\ p = s[i][2].tcp_port /\ p # 0
       /\ \A j \in DOMAIN s : j > i => s[j][2].tcp_port = 0

ConfTypes ==
  /\ asked \subseteq {"file", "dir"}
  /\ file \in FileContents \cup {Conf!Missing, Conf!Garbage}
  /\ dir \in [Conf!Name -> FragmentContents \cup {Conf!Missing, Conf!Garbage}]
  /\ stage \in {"file", "dir", "fragments", "loaded", "failed"}
  /\ config \in Loaded /\ merged \in Loaded
  /\ toml_files \in Seq(Conf!Name) /\ edits \in 0 .. MaxEdits
  /\ seen \in Seq(Loading)

\* The file comes first, then the fragments by their names.
NamesOK ==
  /\ \A i, j \in DOMAIN seen : i < j => seen[i][1] < seen[j][1]
  /\ Increasing(toml_files)
  /\ stage = "fragments" =>
       \A i \in DOMAIN seen, j \in DOMAIN toml_files : seen[i][1] < toml_files[j]
  /\ stage \in {"file", "dir"} => \A i \in DOMAIN seen : seen[i][1] = 0

StageOK ==
  /\ stage = "file" => seen = <<>> /\ config = Conf!Default
  /\ stage \in {"file", "dir"} => merged = Conf!Default
  /\ stage = "dir" => Conf!Validate(config) /\ config.general = LastGeneral
  /\ stage = "fragments" =>
       /\ "dir" \in asked
       /\ merged.general = IF NoFragment THEN "default" ELSE LastGeneral
  /\ stage = "loaded" =>
       /\ Conf!Validate(config)
       /\ config.general = IF "dir" \in asked /\ NoFragment THEN "default" ELSE LastGeneral

WholeOK ==
  LET whole == Conf!Merge(config, merged)
  IN /\ stage \in {"file", "dir", "fragments"} =>
          /\ LastPort(seen, whole.tcp_port)
          /\ FlattenSeq(EndpointsOf(seen)) = whole.endpoint
     /\ stage = "loaded" =>
          /\ LastPort(seen, config.tcp_port)
          /\ FlattenSeq(EndpointsOf(seen)) = config.endpoint

ConfInv == ConfTypes /\ NamesOK /\ StageOK /\ WholeOK

LEMMA DefaultValid == Conf!Validate(Conf!Default)
<1>1. Conf!Default.endpoint = <<>> /\ Conf!Default.general = "default" /\ DOMAIN <<>> = {}
  BY DEF Conf!Default
<1> QED
  BY <1>1 DEF Conf!Validate

LEMMA SeenIs ==
  ASSUME NEW s \in Seq(Loading)
  PROVE  /\ DOMAIN s = 1 .. Len(s) /\ Len(s) \in Nat
         /\ \A i \in DOMAIN s : /\ s[i][1] \in 0 .. NumFragments /\ s[i][2] \in Conf!Contents
                                /\ s[i][2].endpoint \in Seq(Conf!Endpoint)
                                /\ s[i][2].tcp_port \in Conf!Port
         /\ EndpointsOf(s) \in Seq(Seq(Conf!Endpoint))
<1>1. DOMAIN s = 1 .. Len(s) /\ Len(s) \in Nat
  BY LenProperties
<1>2. \A i \in DOMAIN s : s[i][1] \in 0 .. NumFragments /\ s[i][2] \in Conf!Contents
  <2>1. \A i \in DOMAIN s : s[i] \in Loading
    BY <1>1, ElementOfSeq
  <2> QED
    BY <2>1 DEF Loading
<1>3. \A c \in Conf!Contents : c.endpoint \in Seq(Conf!Endpoint) /\ c.tcp_port \in Conf!Port
  <2> SUFFICES ASSUME NEW c \in Conf!Contents
               PROVE  c.endpoint \in Seq(Conf!Endpoint) /\ c.tcp_port \in Conf!Port
    OBVIOUS
  <2> QED
    BY DEF Conf!Contents
<1>4. EndpointsOf(s) \in Seq(Seq(Conf!Endpoint))
  <2> DEFINE S == Seq(Conf!Endpoint)
             n == Len(s)
             e == EndpointsOf(s)
  <2>1. e \in [1 .. n -> S] /\ n \in Nat
    BY <1>1, <1>2, <1>3 DEF EndpointsOf
  <2> HIDE DEF S, e, n
  <2>2. e \in Seq(S)
    BY <2>1
  <2> QED
    BY <2>2 DEF S, e
<1> QED
  BY <1>1, <1>2, <1>3, <1>4

\* One content more.
More(s, n, c, t) == t = Append(s, <<n, c>>)

LEMMA SeenMore ==
  ASSUME NEW s \in Seq(Loading), NEW n \in 0 .. NumFragments, NEW c \in Conf!Contents,
         NEW t, More(s, n, c, t)
  PROVE  /\ t \in Seq(Loading) /\ Len(t) = Len(s) + 1 /\ Len(s) \in Nat
         /\ \A i \in 1 .. Len(s) : t[i] = s[i]
         /\ t[Len(s) + 1][1] = n /\ t[Len(s) + 1][2] = c
         /\ FlattenSeq(EndpointsOf(t)) = FlattenSeq(EndpointsOf(s)) \o c.endpoint
         /\ \A p : LastPort(s, p) => LastPort(t, IF c.tcp_port # 0 THEN c.tcp_port ELSE p)
<1> DEFINE x == <<n, c>>
<1>1. x \in Loading /\ x[1] = n /\ x[2] = c
  BY DEF Loading
<1>2. /\ t \in Seq(Loading) /\ Len(t) = Len(s) + 1 /\ Len(s) \in Nat
      /\ DOMAIN s = 1 .. Len(s) /\ DOMAIN t = 1 .. Len(s) + 1
      /\ \A i \in 1 .. Len(s) : t[i] = s[i]
      /\ t[Len(s) + 1] = x
  BY <1>1, AppendProperties, LenProperties DEF More
<1> HIDE DEF x
<1>3. FlattenSeq(EndpointsOf(t)) = FlattenSeq(EndpointsOf(s)) \o c.endpoint
  <2> DEFINE e == EndpointsOf(s)
             f == EndpointsOf(t)
             g == Append(e, c.endpoint)
             S == Conf!Endpoint
  <2>1. e \in Seq(Seq(S)) /\ f \in Seq(Seq(S)) /\ c.endpoint \in Seq(S)
    <3>1. t[Len(s) + 1][2].endpoint \in Seq(S)
      BY <1>2, SeenIs
    <3> QED
      BY <1>1, <1>2, <3>1, SeenIs
  <2>2. /\ DOMAIN e = 1 .. Len(s) /\ DOMAIN f = 1 .. Len(s) + 1
        /\ \A i \in 1 .. Len(s) : e[i] = s[i][2].endpoint
        /\ \A i \in 1 .. Len(s) + 1 : f[i] = t[i][2].endpoint
    BY <1>2 DEF EndpointsOf
  <2> HIDE DEF e, f
  <2>3. Len(e) = Len(s) /\ Len(f) = Len(s) + 1
    <3>1. /\ DOMAIN e = 1 .. Len(e) /\ Len(e) \in Nat
          /\ DOMAIN f = 1 .. Len(f) /\ Len(f) \in Nat
      BY <2>1, LenProperties
    <3> QED
      BY <1>2, <2>2, <3>1
  <2>4. /\ g \in Seq(Seq(S)) /\ Len(g) = Len(e) + 1
        /\ \A i \in 1 .. Len(e) : g[i] = e[i]
        /\ g[Len(e) + 1] = c.endpoint
    BY <2>1, AppendProperties
  <2> HIDE DEF g
  <2>5. \A i \in 1 .. Len(s) + 1 : f[i] = g[i]
    <3>1. \A i \in 1 .. Len(s) + 1 : i \in 1 .. Len(s) \/ i = Len(s) + 1
      BY <1>2
    <3> QED
      BY <1>1, <1>2, <2>2, <2>3, <2>4, <3>1
  <2>6. f = g
    BY <2>1, <2>3, <2>4, <2>5, SeqEqual
  <2>7. FlattenSeq(g) = FlattenSeq(e) \o c.endpoint
    BY <2>1, FlattenAppend DEF g
  <2> QED
    BY <2>6, <2>7 DEF e, f
<1>4. ASSUME NEW p, LastPort(s, p)
      PROVE  LastPort(t, IF c.tcp_port # 0 THEN c.tcp_port ELSE p)
  <2>1. Len(s) + 1 \in DOMAIN t /\ \A i \in DOMAIN t : i \in DOMAIN s \/ i = Len(s) + 1
    BY <1>2
  <2>2. CASE c.tcp_port # 0
    <3>1. \A j \in DOMAIN t : ~(j > Len(s) + 1)
      BY <1>2
    <3> QED
      BY <1>1, <1>2, <2>1, <2>2, <3>1 DEF LastPort
  <2>3. CASE c.tcp_port = 0
    <3>1. t[Len(s) + 1][2].tcp_port = 0
      BY <1>1, <1>2, <2>3
    <3>2. CASE p = 0 /\ \A i \in DOMAIN s : s[i][2].tcp_port = 0
      BY <1>2, <2>1, <2>3, <3>1, <3>2 DEF LastPort
    <3>3. CASE \E i \in DOMAIN s : /\ p = s[i][2].tcp_port /\ p # 0
                                   /\ \A j \in DOMAIN s : j > i => s[j][2].tcp_port = 0
      <4>1. PICK i \in DOMAIN s : /\ p = s[i][2].tcp_port /\ p # 0
                                  /\ \A j \in DOMAIN s : j > i => s[j][2].tcp_port = 0
        BY <3>3
      <4>2. i \in DOMAIN t /\ t[i] = s[i]
        BY <1>2
      <4>3. \A j \in DOMAIN t : j > i => t[j][2].tcp_port = 0
        BY <1>2, <2>1, <3>1, <4>1
      <4> QED
        BY <2>3, <4>1, <4>2, <4>3 DEF LastPort
    <3> QED
      BY <1>4, <3>2, <3>3 DEF LastPort
  <2> QED
    BY <2>2, <2>3
<1> QED
  BY <1>1, <1>2, <1>3, <1>4

LEMMA NothingSeen ==
  /\ FlattenSeq(EndpointsOf(<<>>)) = <<>> /\ LastPort(<<>>, 0) /\ <<>> \in Seq(Loading)
  /\ Conf!Default.tcp_port = 0 /\ Conf!Default.general = "default"
  /\ Conf!Default.endpoint = <<>>
<1>1. EndpointsOf(<<>>) = <<>>
  BY DEF EndpointsOf
<1>2. DOMAIN <<>> = {}
  OBVIOUS
<1> QED
  BY <1>1, <1>2, FlattenNone DEF LastPort, Conf!Default

LEMMA ConfInit == Conf!Init => ConfInv
<1> SUFFICES ASSUME Conf!Init PROVE ConfInv
  OBVIOUS
<1>1. /\ asked \subseteq {"file", "dir"}
      /\ file \in FileContents \cup {Conf!Missing, Conf!Garbage}
      /\ dir \in [Conf!Name -> FragmentContents \cup {Conf!Missing, Conf!Garbage}]
      /\ stage = "file" /\ config = Conf!Default /\ merged = Conf!Default
      /\ toml_files = <<>> /\ edits = 0 /\ seen = <<>>
  BY DEF Conf!Init
<1>2. ConfTypes
  <2>1. edits \in 0 .. MaxEdits
    BY <1>1, ConfAssumed DEF Conf!ConfigurationAssumption
  <2>2. toml_files \in Seq(Conf!Name) /\ seen \in Seq(Loading)
    BY <1>1, NothingSeen
  <2> QED
    BY <1>1, <2>1, <2>2, DefaultIs DEF ConfTypes
<1>3. NamesOK
  <2>1. DOMAIN seen = {} /\ DOMAIN toml_files = {}
    BY <1>1
  <2> QED
    BY <1>1, <2>1 DEF NamesOK, Increasing
<1>4. StageOK
  BY <1>1 DEF StageOK
<1>5. WholeOK
  <2> DEFINE w == Conf!Merge(config, merged)
  <2>1. w.tcp_port = 0 /\ w.endpoint = <<>> \o <<>> /\ <<>> \o <<>> = <<>>
    <3>1. /\ w.tcp_port = IF Conf!Default.tcp_port # 0 THEN Conf!Default.tcp_port
                          ELSE Conf!Default.tcp_port
          /\ w.endpoint = Conf!Default.endpoint \o Conf!Default.endpoint
      BY <1>1, DefaultIs, MergeIs
    <3>2. <<>> \o <<>> = <<>>
      OBVIOUS
    <3> HIDE DEF w
    <3> QED
      BY <3>1, <3>2, NothingSeen
  <2> HIDE DEF w
  <2>2. LastPort(seen, w.tcp_port) /\ FlattenSeq(EndpointsOf(seen)) = w.endpoint
    BY <1>1, <2>1, NothingSeen
  <2> QED
    BY <1>1, <2>2 DEF WholeOK, w
<1> QED
  BY <1>2, <1>3, <1>4, <1>5 DEF ConfInv

LEMMA LoadFileKeeps ==
  ASSUME ConfInv, Conf!LoadFile
  PROVE  ConfInv'
<1>1. /\ stage = "file" /\ seen = <<>> /\ config = Conf!Default /\ merged = Conf!Default
      /\ UNCHANGED <<asked, file, dir, merged, toml_files, edits>>
  BY DEF ConfInv, StageOK, Conf!LoadFile
<1>2. /\ file \in FileContents \cup {Conf!Missing, Conf!Garbage}
      /\ config \in Loaded /\ merged \in Loaded /\ DOMAIN seen = {}
  BY <1>1 DEF ConfInv, ConfTypes
<1>3. CASE stage' = "dir" /\ UNCHANGED <<config, seen>>
  <2>1. ConfTypes'
    BY <1>1, <1>3 DEF ConfInv, ConfTypes
  <2>2. NamesOK'
    BY <1>1, <1>2, <1>3 DEF ConfInv, NamesOK, Increasing
  <2>3. StageOK'
    BY <1>1, <1>3, DefaultValid, NothingSeen DEF StageOK, LastGeneral, Conf!Validate,
       Conf!SamePort
  <2>4. WholeOK'
    BY <1>1, <1>3 DEF ConfInv, WholeOK, LastPort, FlattenSeq, EndpointsOf, Conf!Merge
  <2> QED
    BY <2>1, <2>2, <2>3, <2>4 DEF ConfInv
<1>4. CASE stage' = "failed" /\ UNCHANGED <<config, seen>>
  <2>1. ConfTypes'
    BY <1>1, <1>4 DEF ConfInv, ConfTypes
  <2>2. NamesOK'
    BY <1>1, <1>2, <1>4 DEF ConfInv, NamesOK, Increasing
  <2>3. StageOK' /\ WholeOK'
    BY <1>4 DEF StageOK, WholeOK
  <2> QED
    BY <2>1, <2>2, <2>3 DEF ConfInv
<1>5. CASE /\ file.toml /\ Conf!Validate(Conf!Fields(file)) /\ stage' = "dir"
           /\ config' = Conf!Fields(file) /\ seen' = Append(seen, <<0, file>>)
  <2>1. file \in Conf!Contents
    BY <1>2, <1>5, ContentIs
  <2>2. /\ config' \in Loaded /\ config'.tcp_port = file.tcp_port
        /\ config'.general = file.general /\ config'.endpoint = file.endpoint
        /\ file.endpoint \in Seq(Conf!Endpoint)
    BY <1>5, <2>1, FieldsIs DEF Loaded
  <2>3. 0 \in 0 .. NumFragments
    BY ConfAssumed DEF Conf!ConfigurationAssumption
  <2>4. /\ seen' \in Seq(Loading) /\ Len(seen') = 1
        /\ seen'[1][1] = 0 /\ seen'[1][2] = file
        /\ FlattenSeq(EndpointsOf(seen')) = <<>> \o file.endpoint
        /\ LastPort(seen', file.tcp_port)
    <3> DEFINE s == <<>>
               t == seen'
    <3>1. s \in Seq(Loading) /\ More(s, 0, file, t)
      BY <1>1, <1>5, NothingSeen DEF More
    <3>4. LastPort(s, 0) /\ Len(s) = 0 /\ FlattenSeq(EndpointsOf(s)) = <<>>
      BY NothingSeen
    <3> HIDE DEF s, t
    <3>2. /\ t \in Seq(Loading) /\ Len(t) = Len(s) + 1
          /\ t[Len(s) + 1][1] = 0 /\ t[Len(s) + 1][2] = file
          /\ FlattenSeq(EndpointsOf(t)) = FlattenSeq(EndpointsOf(s)) \o file.endpoint
          /\ LastPort(t, IF file.tcp_port # 0 THEN file.tcp_port ELSE 0)
      <4>1. /\ t \in Seq(Loading) /\ Len(t) = Len(s) + 1
            /\ t[Len(s) + 1][1] = 0 /\ t[Len(s) + 1][2] = file
            /\ FlattenSeq(EndpointsOf(t)) = FlattenSeq(EndpointsOf(s)) \o file.endpoint
        BY <2>1, <2>3, <3>1, SeenMore
      <4>2. \A p : LastPort(s, p) =>
                     LastPort(t, IF file.tcp_port # 0 THEN file.tcp_port ELSE p)
        BY <2>1, <2>3, <3>1, SeenMore
      <4> QED
        BY <3>4, <4>1, <4>2
    <3>3. Len(s) + 1 = 1
          /\ (IF file.tcp_port # 0 THEN file.tcp_port ELSE 0) = file.tcp_port
      BY <3>4
    <3> QED
      BY <3>2, <3>3, <3>4 DEF t
  <2>5. DOMAIN seen' = 1 .. 1 /\ seen' # <<>> /\ \A i \in 1 .. 1 : i = 1
    <3>1. seen' \in Seq(Loading) /\ Len(seen') = 1
      BY <2>4
    <3>2. DOMAIN seen' = 1 .. Len(seen')
      BY <3>1, LenProperties
    <3>3. seen' # <<>>
      BY <3>1, EmptySeq
    <3> QED
      BY <3>1, <3>2, <3>3
  <2>6. ConfTypes'
    BY <1>1, <1>5, <2>2, <2>4 DEF ConfInv, ConfTypes
  <2>7. NamesOK'
    <3>1. Increasing(toml_files)'
      BY <1>1 DEF ConfInv, NamesOK, Increasing
    <3>2. \A i, j \in DOMAIN seen' : ~(i < j)
      BY <2>5
    <3> QED
      BY <1>5, <2>4, <2>5, <3>1, <3>2 DEF NamesOK
  <2>8. StageOK'
    <3>1. Conf!Validate(config)' = Conf!Validate(config')
      BY DEF Conf!Validate, Conf!SamePort
    <3> QED
      BY <1>1, <1>5, <2>2, <2>4, <2>5, <3>1 DEF StageOK, LastGeneral
  <2>9. WholeOK'
    <3> DEFINE w == Conf!Merge(config', Conf!Default)
    <3>1. w.tcp_port = file.tcp_port /\ w.endpoint = file.endpoint \o <<>>
      <4>1. /\ w.tcp_port = IF Conf!Default.tcp_port # 0 THEN Conf!Default.tcp_port
                            ELSE config'.tcp_port
            /\ w.endpoint = config'.endpoint \o Conf!Default.endpoint
        BY <2>2, DefaultIs, MergeIs
      <4> HIDE DEF w
      <4> QED
        BY <2>2, <4>1, NothingSeen
    <3> HIDE DEF w
    <3>2. file.endpoint \o <<>> = file.endpoint /\ <<>> \o file.endpoint = file.endpoint
      BY <2>2, ConcatEmptySeq
    <3>3. LastPort(seen', w.tcp_port) /\ FlattenSeq(EndpointsOf(seen')) = w.endpoint
      BY <2>4, <3>1, <3>2
    <3>4. /\ LastPort(seen, Conf!Merge(config, merged).tcp_port)' = LastPort(seen', w.tcp_port)
          /\ FlattenSeq(EndpointsOf(seen))' = FlattenSeq(EndpointsOf(seen'))
          /\ Conf!Merge(config, merged).endpoint' = w.endpoint
      BY <1>1 DEF w, LastPort, FlattenSeq, EndpointsOf, Conf!Merge
    <3> QED
      BY <1>5, <3>3, <3>4 DEF WholeOK
  <2> QED
    BY <2>6, <2>7, <2>8, <2>9 DEF ConfInv
<1> QED
  BY <1>3, <1>4, <1>5 DEF Conf!LoadFile

LEMMA EditKeeps ==
  ASSUME ConfInv, Conf!Edit
  PROVE  ConfInv'
<1>1. /\ UNCHANGED <<asked, stage, config, merged, toml_files, seen>>
      /\ edits' \in 0 .. MaxEdits
      /\ file' \in FileContents \cup {Conf!Missing, Conf!Garbage}
      /\ dir' \in [Conf!Name -> FragmentContents \cup {Conf!Missing, Conf!Garbage}]
  <2>1. edits < MaxEdits /\ edits' = edits + 1 /\ edits \in 0 .. MaxEdits /\ MaxEdits \in Nat
    BY ConfAssumed DEF Conf!Edit, ConfInv, ConfTypes, Conf!ConfigurationAssumption
  <2>2. edits' \in 0 .. MaxEdits
    BY <2>1
  <2> QED
    BY <2>2 DEF Conf!Edit, ConfInv, ConfTypes
<1>2. ConfTypes'
  BY <1>1 DEF ConfInv, ConfTypes
<1>3. NamesOK'
  BY <1>1 DEF ConfInv, NamesOK, Increasing
<1>4. StageOK'
  BY <1>1 DEF ConfInv, StageOK, NoFragment, LastGeneral, Conf!Validate, Conf!SamePort
<1>5. WholeOK'
  <2>1. /\ LastPort(seen, Conf!Merge(config, merged).tcp_port)'
             = LastPort(seen, Conf!Merge(config, merged).tcp_port)
        /\ FlattenSeq(EndpointsOf(seen))' = FlattenSeq(EndpointsOf(seen))
        /\ Conf!Merge(config, merged).endpoint' = Conf!Merge(config, merged).endpoint
        /\ LastPort(seen, config.tcp_port)' = LastPort(seen, config.tcp_port)
    BY <1>1 DEF LastPort, FlattenSeq, EndpointsOf, Conf!Merge
  <2> QED
    BY <1>1, <2>1 DEF ConfInv, WholeOK
<1> QED
  BY <1>2, <1>3, <1>4, <1>5 DEF ConfInv

LEMMA ListDirKeeps ==
  ASSUME ConfInv, Conf!ListDir
  PROVE  ConfInv'
<1>1. /\ stage = "dir" /\ UNCHANGED <<asked, file, dir, config, merged, edits, seen>>
      /\ merged = Conf!Default /\ Conf!Validate(config) /\ config.general = LastGeneral
      /\ \A i \in DOMAIN seen : seen[i][1] = 0
  BY DEF Conf!ListDir, ConfInv, StageOK, NamesOK
<1>2. /\ config \in Loaded /\ merged \in Loaded /\ config.endpoint \in Seq(Conf!Endpoint)
      /\ seen \in Seq(Loading)
  BY DEF ConfInv, ConfTypes, Loaded
<1> DEFINE w == Conf!Merge(config, merged)
<1>3. /\ LastPort(seen, w.tcp_port) /\ FlattenSeq(EndpointsOf(seen)) = w.endpoint
  BY <1>1 DEF ConfInv, WholeOK
<1>4. w.tcp_port = config.tcp_port /\ w.endpoint = config.endpoint
  <2>1. /\ w.tcp_port = IF merged.tcp_port # 0 THEN merged.tcp_port ELSE config.tcp_port
        /\ w.endpoint = config.endpoint \o merged.endpoint
    BY <1>2, MergeIs
  <2>2. config.endpoint \o <<>> = config.endpoint
    BY <1>2, ConcatEmptySeq
  <2> HIDE DEF w
  <2> QED
    BY <1>1, <2>1, <2>2, NothingSeen
<1>5. /\ LastPort(seen, Conf!Merge(config, merged).tcp_port)' = LastPort(seen, w.tcp_port)
      /\ FlattenSeq(EndpointsOf(seen))' = FlattenSeq(EndpointsOf(seen))
      /\ Conf!Merge(config, merged).endpoint' = w.endpoint
      /\ LastPort(seen, config.tcp_port)' = LastPort(seen, config.tcp_port)
      /\ Conf!Validate(config)' = Conf!Validate(config)
      /\ NoFragment' = NoFragment /\ LastGeneral' = LastGeneral
  BY <1>1 DEF LastPort, FlattenSeq, EndpointsOf, Conf!Merge, Conf!Validate, Conf!SamePort,
       NoFragment, LastGeneral
<1> HIDE DEF w
<1>6. NoFragment
  <2>1. seen = <<>> \/ Len(seen) \in DOMAIN seen
    BY <1>2, LenProperties, EmptySeq
  <2> QED
    BY <1>1, <2>1 DEF NoFragment
<1>7. CASE "dir" \notin asked /\ stage' = "loaded" /\ UNCHANGED toml_files
  <2>1. ConfTypes'
    BY <1>1, <1>7 DEF ConfInv, ConfTypes
  <2>2. NamesOK'
    BY <1>1, <1>7 DEF ConfInv, NamesOK, Increasing
  <2>3. StageOK'
    BY <1>1, <1>5, <1>7 DEF StageOK
  <2>4. WholeOK'
    BY <1>1, <1>3, <1>4, <1>5, <1>7 DEF WholeOK
  <2> QED
    BY <2>1, <2>2, <2>3, <2>4 DEF ConfInv
<1>8. CASE stage' = "failed" /\ UNCHANGED toml_files
  <2>1. ConfTypes'
    BY <1>1, <1>8 DEF ConfInv, ConfTypes
  <2>2. NamesOK'
    BY <1>1, <1>8 DEF ConfInv, NamesOK, Increasing
  <2>3. StageOK' /\ WholeOK'
    BY <1>8 DEF StageOK, WholeOK
  <2> QED
    BY <2>1, <2>2, <2>3 DEF ConfInv
<1>9. ASSUME "dir" \in asked, stage' = "fragments",
             NEW names \in Conf!SetToSeqs({n \in Conf!Name : dir[n].there}),
             toml_files' = Conf!Sorted(names)
      PROVE  ConfInv'
  <2>1. toml_files' \in Seq(Conf!Name) /\ Increasing(toml_files')
    <3>1. {n \in Conf!Name : dir[n].there} \in SUBSET Conf!Name
      OBVIOUS
    <3> QED
      BY <1>9, <3>1, SortedIs
  <2>2. ConfTypes'
    BY <1>1, <1>9, <2>1 DEF ConfInv, ConfTypes
  <2>3. NamesOK'
    <3>1. \A i \in DOMAIN toml_files' : toml_files'[i] \in Nat \ {0}
      <4>1. \A i \in DOMAIN toml_files' : toml_files'[i] \in Conf!Name
        BY <2>1, ElementOfSeq, LenProperties
      <4>2. \A n \in Conf!Name : n \in Nat \ {0}
        BY ConfAssumed DEF Conf!Name, Conf!ConfigurationAssumption
      <4> QED
        BY <4>1, <4>2
    <3>2. \A i \in DOMAIN seen', j \in DOMAIN toml_files' : seen'[i][1] < toml_files'[j]
      BY <1>1, <3>1
    <3>3. \A i, j \in DOMAIN seen' : i < j => seen'[i][1] < seen'[j][1]
      BY <1>1 DEF ConfInv, NamesOK
    <3>4. Increasing(toml_files)' = Increasing(toml_files')
      BY DEF Increasing
    <3> QED
      BY <1>9, <2>1, <3>2, <3>3, <3>4 DEF NamesOK
  <2>4. StageOK'
    <3>1. merged'.general = "default" /\ NoFragment'
      BY <1>1, <1>5, <1>6, NothingSeen
    <3> QED
      BY <1>1, <1>9, <3>1 DEF StageOK
  <2>5. WholeOK'
    BY <1>3, <1>5, <1>9 DEF WholeOK
  <2> QED
    BY <2>2, <2>3, <2>4, <2>5 DEF ConfInv
<1> QED
  BY <1>7, <1>8, <1>9 DEF Conf!ListDir

LEMMA LoadFragmentKeeps ==
  ASSUME ConfInv, Conf!LoadFragment
  PROVE  ConfInv'
<1> DEFINE n == Head(toml_files)
           c == dir[n]
<1>1. /\ stage = "fragments" /\ toml_files # <<>> /\ toml_files' = Tail(toml_files)
      /\ UNCHANGED <<asked, file, dir, config, edits>>
      /\ \/ /\ c.toml /\ merged' = Conf!Merge(merged, Conf!Fields(c))
            /\ seen' = Append(seen, <<n, c>>) /\ stage' = stage
         \/ stage' = "failed" /\ UNCHANGED <<merged, seen>>
  BY DEF Conf!LoadFragment
<1>2. /\ seen \in Seq(Loading) /\ toml_files \in Seq(Conf!Name)
      /\ dir \in [Conf!Name -> FragmentContents \cup {Conf!Missing, Conf!Garbage}]
      /\ config \in Loaded /\ merged \in Loaded
      /\ NumFragments \in Nat
  BY ConfAssumed DEF ConfInv, ConfTypes, Conf!ConfigurationAssumption
<1>3. /\ n \in Conf!Name /\ n \in 0 .. NumFragments /\ n = toml_files[1]
      /\ toml_files' \in Seq(Conf!Name)
      /\ DOMAIN toml_files = 1 .. Len(toml_files) /\ Len(toml_files) \in Nat \ {0}
      /\ DOMAIN toml_files' = 1 .. Len(toml_files) - 1
      /\ \A i \in DOMAIN toml_files' : toml_files'[i] = toml_files[i + 1]
                                       /\ i + 1 \in DOMAIN toml_files /\ 1 < i + 1
  <2>1. /\ Tail(toml_files) \in Seq(Conf!Name) /\ Len(Tail(toml_files)) = Len(toml_files) - 1
        /\ \A i \in 1 .. Len(Tail(toml_files)) : Tail(toml_files)[i] = toml_files[i + 1]
        /\ n \in Conf!Name
    BY <1>1, <1>2, HeadTailProperties
  <2>2. /\ DOMAIN toml_files = 1 .. Len(toml_files) /\ Len(toml_files) \in Nat \ {0}
        /\ DOMAIN Tail(toml_files) = 1 .. Len(Tail(toml_files))
    BY <1>1, <1>2, <2>1, LenProperties, EmptySeq
  <2>3. n = toml_files[1] /\ n \in 0 .. NumFragments
    BY <1>1, <1>2, <2>1 DEF Conf!Name
  <2>4. \A i \in 1 .. Len(toml_files) - 1 : i + 1 \in 1 .. Len(toml_files) /\ 1 < i + 1
    BY <2>2
  <2> QED
    BY <1>1, <2>1, <2>2, <2>3, <2>4
<1>4. Increasing(toml_files) /\ Increasing(toml_files')
  <2>1. Increasing(toml_files)
    BY DEF ConfInv, NamesOK
  <2>2. \A i, j \in DOMAIN toml_files' : i < j => i + 1 < j + 1
    BY <1>3
  <2>3. \A i, j \in DOMAIN toml_files' : i < j => toml_files'[i] < toml_files'[j]
    BY <1>3, <2>1, <2>2 DEF Increasing
  <2> QED
    BY <2>1, <2>3 DEF Increasing
<1>5. CASE stage' = "failed" /\ UNCHANGED <<merged, seen>>
  <2>1. ConfTypes'
    BY <1>1, <1>3, <1>5 DEF ConfInv, ConfTypes
  <2>2. NamesOK'
    <3>1. Increasing(toml_files)' = Increasing(toml_files')
      BY DEF Increasing
    <3> QED
      BY <1>4, <1>5, <3>1 DEF ConfInv, NamesOK
  <2>3. StageOK' /\ WholeOK'
    BY <1>5 DEF StageOK, WholeOK
  <2> QED
    BY <2>1, <2>2, <2>3 DEF ConfInv
<1>6. CASE /\ c.toml /\ merged' = Conf!Merge(merged, Conf!Fields(c))
           /\ seen' = Append(seen, <<n, c>>) /\ stage' = stage
  <2>1. c \in Conf!Contents
    <3>1. c \in FileContents \cup FragmentContents \cup {Conf!Missing, Conf!Garbage}
      BY <1>2, <1>3
    <3> HIDE DEF c
    <3> QED
      BY <1>6, <3>1, ContentIs
  <2> DEFINE s == seen
             t == seen'
  <2>2. s \in Seq(Loading) /\ More(s, n, c, t)
    BY <1>2, <1>6 DEF More
  <2>3. n \in 0 .. NumFragments
    BY <1>3
  <2> HIDE DEF n, c, s, t
  <2>4. /\ t \in Seq(Loading) /\ Len(t) = Len(s) + 1 /\ Len(s) \in Nat
        /\ \A i \in 1 .. Len(s) : t[i] = s[i]
        /\ t[Len(s) + 1][1] = n /\ t[Len(s) + 1][2] = c
        /\ FlattenSeq(EndpointsOf(t)) = FlattenSeq(EndpointsOf(s)) \o c.endpoint
    BY <2>1, <2>2, <2>3, SeenMore
  <2>5. \A p : LastPort(s, p) => LastPort(t, IF c.tcp_port # 0 THEN c.tcp_port ELSE p)
    BY <2>1, <2>2, <2>3, SeenMore
  <2> DEFINE d == Conf!Fields(c)
  <2>6. /\ d \in Loaded /\ d.tcp_port = c.tcp_port /\ d.general = c.general
        /\ d.endpoint = c.endpoint /\ c.endpoint \in Seq(Conf!Endpoint)
        /\ config.endpoint \in Seq(Conf!Endpoint) /\ merged.endpoint \in Seq(Conf!Endpoint)
    <3>1. /\ d \in Loaded /\ d.tcp_port = c.tcp_port /\ d.general = c.general
          /\ d.endpoint = c.endpoint
      BY <2>1, FieldsIs
    <3> HIDE DEF d
    <3> QED
      BY <1>2, <3>1 DEF Loaded
  <2> HIDE DEF d
  <2>7. /\ merged' = Conf!Merge(merged, d) /\ merged' \in Loaded
        /\ merged'.tcp_port = IF d.tcp_port # 0 THEN d.tcp_port ELSE merged.tcp_port
        /\ merged'.general = d.general /\ merged'.endpoint = merged.endpoint \o d.endpoint
    <3>1. merged' = Conf!Merge(merged, d)
      BY <1>6 DEF d
    <3> QED
      BY <1>2, <2>6, <3>1, MergeIs
  <2>8. ConfTypes'
    BY <1>1, <1>3, <1>6, <2>4, <2>7 DEF ConfInv, ConfTypes, t
  <2>9. DOMAIN s = 1 .. Len(s) /\ DOMAIN t = 1 .. Len(s) + 1
        /\ \A i \in DOMAIN t : i \in DOMAIN s \/ i = Len(s) + 1
    <3>1. DOMAIN s = 1 .. Len(s) /\ DOMAIN t = 1 .. Len(t)
      BY <2>2, <2>4, LenProperties
    <3> QED
      BY <2>4, <3>1
  <2>10. /\ \A i \in DOMAIN s, j \in DOMAIN toml_files : s[i][1] < toml_files[j]
         /\ \A i, j \in DOMAIN s : i < j => s[i][1] < s[j][1]
    BY <1>1 DEF ConfInv, NamesOK, s
  <2>11. NamesOK'
    <3>1. \A i \in DOMAIN s : s[i][1] < n
      <4>1. 1 \in DOMAIN toml_files
        BY <1>3
      <4> QED
        BY <1>3, <2>10, <4>1
    <3>2. \A i, j \in DOMAIN t : i < j => t[i][1] < t[j][1]
      <4> SUFFICES ASSUME NEW i \in DOMAIN t, NEW j \in DOMAIN t, i < j
                   PROVE  t[i][1] < t[j][1]
        OBVIOUS
      <4>1. i \in DOMAIN s
        BY <2>4, <2>9
      <4>2. CASE j \in DOMAIN s
        BY <2>4, <2>9, <2>10, <4>1, <4>2
      <4>3. CASE j = Len(s) + 1
        BY <2>4, <2>9, <3>1, <4>1, <4>3
      <4> QED
        BY <2>9, <4>2, <4>3
    <3>3. ASSUME NEW i \in DOMAIN t, NEW j \in DOMAIN toml_files'
          PROVE  t[i][1] < toml_files'[j]
      <4>1. toml_files'[j] = toml_files[j + 1] /\ j + 1 \in DOMAIN toml_files /\ 1 < j + 1
            /\ 1 \in DOMAIN toml_files
        BY <1>3, <3>3
      <4>2. CASE i \in DOMAIN s
        BY <2>4, <2>9, <2>10, <4>1, <4>2
      <4>3. CASE i = Len(s) + 1
        <5>1. toml_files[1] < toml_files[j + 1]
          BY <1>4, <4>1 DEF Increasing
        <5> QED
          BY <1>3, <2>4, <4>1, <4>3, <5>1
      <4> QED
        BY <2>9, <4>2, <4>3
    <3>4. Increasing(toml_files)' = Increasing(toml_files')
      BY DEF Increasing
    <3> QED
      BY <1>1, <1>4, <1>6, <3>2, <3>3, <3>4 DEF NamesOK, t
  <2>12. StageOK'
    <3>1. t # <<>> /\ Len(t) = Len(s) + 1 /\ n # 0
      <4>1. n \in 1 .. NumFragments
        BY <1>3 DEF Conf!Name
      <4>2. Len(s) + 1 \in DOMAIN t
        BY <2>4, <2>9
      <4> QED
        BY <1>2, <2>4, <4>1, <4>2
    <3>2. ~NoFragment' /\ LastGeneral' = c.general
      <4>1. NoFragment' = (t = <<>> \/ t[Len(t)][1] = 0)
        BY DEF NoFragment, t
      <4>2. LastGeneral' = IF t = <<>> THEN "default" ELSE t[Len(t)][2].general
        BY DEF LastGeneral, t
      <4> QED
        BY <2>4, <3>1, <4>1, <4>2
    <3>3. "dir" \in asked'
      BY <1>1 DEF ConfInv, StageOK
    <3> QED
      BY <1>1, <1>6, <2>6, <2>7, <3>2, <3>3 DEF StageOK
  <2>13. WholeOK'
    <3> DEFINE v == Conf!Merge(config, merged)
               w == Conf!Merge(config, merged')
    <3>1. /\ LastPort(s, v.tcp_port) /\ FlattenSeq(EndpointsOf(s)) = v.endpoint
      BY <1>1 DEF ConfInv, WholeOK, s
    <3>2. /\ v.tcp_port = IF merged.tcp_port # 0 THEN merged.tcp_port ELSE config.tcp_port
          /\ v.endpoint = config.endpoint \o merged.endpoint
      BY <1>2, MergeIs
    <3>3. /\ w.tcp_port = IF merged'.tcp_port # 0 THEN merged'.tcp_port ELSE config.tcp_port
          /\ w.endpoint = config.endpoint \o merged'.endpoint
      BY <1>2, <2>7, MergeIs
    <3>4. /\ LastPort(seen, Conf!Merge(config, merged).tcp_port)' = LastPort(t, w.tcp_port)
          /\ FlattenSeq(EndpointsOf(seen))' = FlattenSeq(EndpointsOf(t))
          /\ Conf!Merge(config, merged).endpoint' = w.endpoint
      BY <1>1 DEF LastPort, FlattenSeq, EndpointsOf, Conf!Merge, t
    <3> HIDE DEF v, w
    <3>5. LastPort(t, w.tcp_port)
      <4>1. w.tcp_port = IF c.tcp_port # 0 THEN c.tcp_port ELSE v.tcp_port
        BY <2>6, <2>7, <3>2, <3>3
      <4> QED
        BY <2>5, <3>1, <4>1
    <3>6. FlattenSeq(EndpointsOf(t)) = w.endpoint
      <4> DEFINE a == config.endpoint
                 b == merged.endpoint
                 e == c.endpoint
      <4>1. a \in Seq(Conf!Endpoint) /\ b \in Seq(Conf!Endpoint) /\ e \in Seq(Conf!Endpoint)
        BY <2>6
      <4>2. w.endpoint = a \o (b \o e) /\ v.endpoint = a \o b
        BY <2>6, <2>7, <3>2, <3>3
      <4> HIDE DEF a, b
      <4>3. FlattenSeq(EndpointsOf(t)) = (a \o b) \o e
        BY <2>4, <3>1, <4>2
      <4> HIDE DEF e
      <4>4. (a \o b) \o e = a \o (b \o e)
        BY <4>1, ConcatAssociative
      <4> QED
        BY <4>2, <4>3, <4>4
    <3> QED
      BY <1>1, <1>6, <3>4, <3>5, <3>6 DEF WholeOK
  <2> QED
    BY <2>8, <2>11, <2>12, <2>13 DEF ConfInv
<1> QED
  BY <1>1, <1>5, <1>6

LEMMA FinishKeeps ==
  ASSUME ConfInv, Conf!Finish
  PROVE  ConfInv'
<1> DEFINE w == Conf!Merge(config, merged)
<1>1. /\ stage = "fragments" /\ config' = w
      /\ stage' = (IF Conf!Validate(merged) /\ Conf!Validate(config') THEN "loaded" ELSE "failed")
      /\ UNCHANGED <<asked, file, dir, merged, toml_files, edits, seen>>
  BY DEF Conf!Finish
<1>2. config \in Loaded /\ merged \in Loaded
  BY DEF ConfInv, ConfTypes
<1>3. w \in Loaded /\ w.general = merged.general
  BY <1>2, MergeIs
<1>4. /\ LastPort(seen, w.tcp_port) /\ FlattenSeq(EndpointsOf(seen)) = w.endpoint
      /\ "dir" \in asked
      /\ merged.general = IF NoFragment THEN "default" ELSE LastGeneral
  BY <1>1 DEF ConfInv, WholeOK, StageOK
<1> HIDE DEF w
<1>5. /\ LastPort(seen, config.tcp_port)' = LastPort(seen, w.tcp_port)
      /\ FlattenSeq(EndpointsOf(seen))' = FlattenSeq(EndpointsOf(seen))
      /\ Conf!Validate(config)' = Conf!Validate(config')
      /\ NoFragment' = NoFragment /\ LastGeneral' = LastGeneral
  BY <1>1 DEF LastPort, FlattenSeq, EndpointsOf, Conf!Validate, Conf!SamePort, NoFragment,
       LastGeneral
<1>6. stage' \in {"loaded", "failed"} /\ (stage' = "loaded" => Conf!Validate(config'))
  BY <1>1
<1>7. ConfTypes'
  BY <1>1, <1>3, <1>6 DEF ConfInv, ConfTypes
<1>8. NamesOK'
  BY <1>1, <1>6 DEF ConfInv, NamesOK, Increasing
<1>9. StageOK'
  BY <1>1, <1>3, <1>4, <1>5, <1>6 DEF StageOK
<1>10. WholeOK'
  BY <1>1, <1>4, <1>5, <1>6 DEF WholeOK
<1> QED
  BY <1>7, <1>8, <1>9, <1>10 DEF ConfInv

LEMMA ConfNext == ConfInv /\ [Conf!Next]_Conf!vars => ConfInv'
<1> SUFFICES ASSUME ConfInv, [Conf!Next]_Conf!vars PROVE ConfInv'
  OBVIOUS
<1>1. CASE UNCHANGED Conf!vars
  <2>1. UNCHANGED <<asked, file, dir, stage, config, merged, toml_files, edits, seen>>
    BY <1>1 DEF Conf!vars
  <2>2. /\ LastPort(seen, Conf!Merge(config, merged).tcp_port)'
             = LastPort(seen, Conf!Merge(config, merged).tcp_port)
        /\ FlattenSeq(EndpointsOf(seen))' = FlattenSeq(EndpointsOf(seen))
        /\ Conf!Merge(config, merged).endpoint' = Conf!Merge(config, merged).endpoint
        /\ LastPort(seen, config.tcp_port)' = LastPort(seen, config.tcp_port)
    BY <2>1 DEF LastPort, FlattenSeq, EndpointsOf, Conf!Merge
  <2>3. ConfTypes' /\ NamesOK'
    BY <2>1 DEF ConfInv, ConfTypes, NamesOK, Increasing
  <2>4. StageOK'
    BY <2>1 DEF ConfInv, StageOK, NoFragment, LastGeneral, Conf!Validate, Conf!SamePort
  <2>5. WholeOK'
    BY <2>1, <2>2 DEF ConfInv, WholeOK
  <2> QED
    BY <2>3, <2>4, <2>5 DEF ConfInv
<1> QED
  BY <1>1, EditKeeps, LoadFileKeeps, ListDirKeeps, LoadFragmentKeeps, FinishKeeps
     DEF Conf!Next

LEMMA ConfInvariance == Conf!Spec => []ConfInv
<1> QED
  BY ConfInit, ConfNext, PTL DEF Conf!Spec

LEMMA ConfTypeOK == ConfInv => Conf!TypeOK
<1> SUFFICES ASSUME ConfInv PROVE Conf!TypeOK
  OBVIOUS
<1>1. \A c \in Loaded : DOMAIN c = DOMAIN Conf!Default
  BY DEF Loaded, Conf!Default
<1>2. \A i \in DOMAIN seen : seen[i][1] \in {0} \cup Conf!Name /\ seen[i][2].toml
  <2> SUFFICES ASSUME NEW i \in DOMAIN seen
               PROVE  seen[i][1] \in {0} \cup Conf!Name /\ seen[i][2].toml
    OBVIOUS
  <2>1. seen[i][1] \in 0 .. NumFragments /\ seen[i][2] \in Conf!Contents
    BY SeenIs DEF ConfInv, ConfTypes
  <2>2. seen[i][2].toml
    BY <2>1, FieldsIs
  <2>3. NumFragments \in Nat
    BY ConfAssumed DEF Conf!ConfigurationAssumption
  <2> QED
    BY <2>1, <2>2, <2>3 DEF Conf!Name
<1> QED
  BY <1>1, <1>2 DEF ConfInv, ConfTypes, Conf!TypeOK

\* However the file and the directory are edited while they are read: the configuration
\* that is loaded follows from what was read by the rules of the merge, the fragments in
\* alphabetical order, and no two of its endpoints need the same port (config.rs:119-176,
\* config/merge.rs, config/validate.rs).
THEOREM ConfigurationLoadsByTheRules == Conf!Spec => []LoadsByTheRules
<1>1. ConfInv => LoadsByTheRules
  <2> SUFFICES ASSUME ConfInv, stage = "loaded" PROVE LoadsByTheRules
    BY DEF LoadsByTheRules, Conf!LoadsByTheRules
  <2> DEFINE contents == [i \in DOMAIN seen |-> seen[i][2]]
             fragments == {i \in DOMAIN seen : seen[i][1] # 0}
             endpoints == FlattenSeq([i \in DOMAIN seen |-> contents[i].endpoint])
  <2>1. /\ DOMAIN seen = 1 .. Len(seen) /\ Len(seen) \in Nat
        /\ \A i \in DOMAIN seen : seen[i][1] \in 0 .. NumFragments
        /\ DOMAIN contents = DOMAIN seen
        /\ \A i \in DOMAIN seen : contents[i] = seen[i][2]
    BY SeenIs DEF ConfInv, ConfTypes
  <2>2. /\ Conf!Validate(config) /\ LastPort(seen, config.tcp_port)
        /\ FlattenSeq(EndpointsOf(seen)) = config.endpoint
        /\ config.general = IF "dir" \in asked /\ NoFragment THEN "default" ELSE LastGeneral
        /\ \A i, j \in DOMAIN seen : i < j => seen[i][1] < seen[j][1]
        /\ config.endpoint \in Seq(Conf!Endpoint)
    BY DEF ConfInv, ConfTypes, StageOK, WholeOK, NamesOK, Loaded
  <2>3. endpoints = config.endpoint
    <3>1. [i \in DOMAIN seen |-> contents[i].endpoint] = EndpointsOf(seen)
      BY DEF EndpointsOf
    <3> QED
      BY <2>2, <3>1
  <2>4. config.tcp_port = Conf!LastWith(contents, LAMBDA c : c.tcp_port # 0).tcp_port
    <3> DEFINE found == {i \in DOMAIN contents : contents[i].tcp_port # 0}
               last == CHOOSE i \in found : \A j \in found : j <= i
    <3>1. Conf!LastWith(contents, LAMBDA c : c.tcp_port # 0)
            = IF found = {} THEN Conf!Default ELSE contents[last]
      BY DEF Conf!LastWith
    <3> HIDE DEF contents
    <3>2. CASE config.tcp_port = 0 /\ \A i \in DOMAIN seen : seen[i][2].tcp_port = 0
      <4>1. found = {}
        BY <2>1, <3>2
      <4> QED
        BY <3>1, <3>2, <4>1, NothingSeen
    <3>3. CASE \E i \in DOMAIN seen :
                 /\ config.tcp_port = seen[i][2].tcp_port /\ config.tcp_port # 0
                 /\ \A j \in DOMAIN seen : j > i => seen[j][2].tcp_port = 0
      <4>1. PICK i \in DOMAIN seen :
                 /\ config.tcp_port = seen[i][2].tcp_port /\ config.tcp_port # 0
                 /\ \A j \in DOMAIN seen : j > i => seen[j][2].tcp_port = 0
        BY <3>3
      <4>2. i \in found /\ \A j \in found : j <= i
        BY <2>1, <4>1
      <4>3. found \subseteq Nat
        BY <2>1
      <4> HIDE DEF found
      <4>4. last \in found /\ \A j \in found : j <= last
        BY <4>2
      <4> HIDE DEF last
      <4>5. last = i
        BY <4>2, <4>3, <4>4
      <4> QED
        BY <2>1, <3>1, <4>1, <4>2, <4>5
    <3> QED
      BY <2>2, <3>2, <3>3 DEF LastPort
  <2>5. NoFragment <=> fragments = {}
    <3>1. CASE seen = <<>>
      BY <3>1 DEF NoFragment
    <3>2. CASE seen # <<>>
      <4> DEFINE n == Len(seen)
      <4>1. n \in DOMAIN seen /\ n # 0 /\ \A i \in DOMAIN seen : i < n \/ i = n
        BY <2>1, <3>2, EmptySeq DEF ConfInv, ConfTypes
      <4>2. \A i \in DOMAIN seen : seen[i][1] # 0 => seen[n][1] # 0
        <5> SUFFICES ASSUME NEW i \in DOMAIN seen, seen[i][1] # 0, i < n
                     PROVE  seen[n][1] # 0
          BY <4>1
        <5>1. seen[i][1] < seen[n][1] /\ seen[i][1] \in 0 .. NumFragments
          BY <2>1, <2>2, <4>1
        <5> QED
          BY <5>1
      <4>3. NoFragment <=> seen[n][1] = 0
        BY <3>2 DEF NoFragment
      <4> HIDE DEF n
      <4> QED
        BY <4>1, <4>2, <4>3
    <3> QED
      BY <3>1, <3>2
  <2>6. config.general =
          IF "dir" \in asked /\ fragments = {} THEN Conf!Default.general
          ELSE Conf!LastWith(contents, LAMBDA c : TRUE).general
    <3> DEFINE found == {i \in DOMAIN contents : TRUE}
               last == CHOOSE i \in found : \A j \in found : j <= i
    <3>1. Conf!LastWith(contents, LAMBDA c : TRUE)
            = IF found = {} THEN Conf!Default ELSE contents[last]
      BY DEF Conf!LastWith
    <3> HIDE DEF contents
    <3>2. found = 1 .. Len(seen)
      BY <2>1
    <3> HIDE DEF found
    <3>3. Conf!LastWith(contents, LAMBDA c : TRUE).general = LastGeneral
      <4>1. CASE seen = <<>>
        <5>1. found = {}
          BY <3>2, <4>1
        <5> QED
          BY <3>1, <4>1, <5>1, NothingSeen DEF LastGeneral
      <4>2. CASE seen # <<>>
        <5>1. Len(seen) \in found /\ \A j \in found : j <= Len(seen)
          BY <2>1, <3>2, <4>2, EmptySeq DEF ConfInv, ConfTypes
        <5>2. last \in found /\ \A j \in found : j <= last
          BY <5>1
        <5> HIDE DEF last
        <5>3. last = Len(seen)
          <6> DEFINE n == Len(seen)
          <6>1. last \in 1 .. n /\ n <= last
            BY <3>2, <5>1, <5>2
          <6>2. n \in Nat
            BY <2>1
          <6> HIDE DEF n
          <6>3. last = n
            BY <6>1, <6>2
          <6> QED
            BY <6>3 DEF n
        <5> QED
          BY <2>1, <3>1, <3>2, <4>2, <5>1, <5>3 DEF LastGeneral
      <4> QED
        BY <4>1, <4>2
    <3> QED
      BY <2>2, <2>5, <3>3, NothingSeen
  <2>7. ASSUME NEW proto \in {"tcp", "udp"}
        PROVE  LET ports == [i \in {j \in DOMAIN endpoints : endpoints[j].proto = proto}
                               |-> endpoints[i].port]
               IN /\ Conf!IsInjective(ports)
                  /\ proto = "tcp" => config.tcp_port \notin {ports[i] : i \in DOMAIN ports}
    <3> DEFINE e == config.endpoint
               D == {j \in DOMAIN e : e[j].proto = proto}
               ports == [i \in D |-> e[i].port]
    <3>1. /\ DOMAIN e = 1 .. Len(e) /\ Len(e) \in Nat
      BY <2>2, LenProperties
    <3>2. \A i \in DOMAIN e :
            /\ ~Conf!SamePort(e[i], [proto |-> "tcp", port |-> config.tcp_port])
            /\ \A j \in 1 .. i - 1 : ~Conf!SamePort(e[i], e[j])
      BY <2>2 DEF Conf!Validate
    <3> HIDE DEF e
    <3>3. \A i, j \in D : e[i].port = e[j].port => i = j
      <4>1. ASSUME NEW i \in D, NEW j \in D, j < i PROVE e[i].port # e[j].port
        <5>1. j \in 1 .. i - 1
          BY <3>1, <4>1
        <5>2. ~Conf!SamePort(e[i], e[j])
          BY <3>2, <5>1
        <5> QED
          BY <5>2 DEF Conf!SamePort
      <4>2. \A i, j \in D : i < j \/ j < i \/ i = j
        BY <3>1
      <4> HIDE DEF D
      <4> QED
        BY <4>1, <4>2
    <3>4. proto = "tcp" => \A i \in D : e[i].port # config.tcp_port
      BY <3>2 DEF Conf!SamePort
    <3>5. DOMAIN ports = D /\ \A i \in D : ports[i] = e[i].port
      OBVIOUS
    <3>6. ports = [i \in {j \in DOMAIN endpoints : endpoints[j].proto = proto}
                     |-> endpoints[i].port]
      BY <2>3 DEF e
    <3> HIDE DEF ports, D
    <3>7. Conf!IsInjective(ports)
      BY <3>3, <3>5 DEF Conf!IsInjective
    <3>8. proto = "tcp" => config.tcp_port \notin {ports[i] : i \in DOMAIN ports}
      BY <3>4, <3>5
    <3> HIDE DEF endpoints
    <3> QED
      BY <3>6, <3>7, <3>8
  <2>8. \A i, j \in fragments : i < j => seen[i][1] < seen[j][1]
    BY <2>2
  <2>9. Conf!FlattenSeq([i \in DOMAIN seen |-> contents[i].endpoint]) = endpoints
    BY ConfLibrary
  <2> HIDE DEF fragments
  <2> QED
    BY <2>3, <2>4, <2>6, <2>7, <2>8, <2>9 DEF LoadsByTheRules, Conf!LoadsByTheRules, fragments
<1> QED
  BY <1>1, ConfInvariance, PTL

-----------------------------------------------------------------------------
(* All four in one: a behaviour of the whole is one of each part.          *)

LEMMA PartSteps ==
  ASSUME [PartsNext]_<<part, udpVars, inVars, statsVars, confVars>>
  PROVE  [Next]_vars /\ [In!Next]_In!vars /\ [Stats!Next]_Stats!vars /\ [Conf!Next]_Conf!vars
<1>1. (UNCHANGED inVars) => UNCHANGED In!vars
  BY DEF inVars, In!vars, In!history
<1>2. (UNCHANGED udpVars) => UNCHANGED vars
  BY DEF udpVars
<1>3. (UNCHANGED statsVars) => UNCHANGED Stats!vars
  BY DEF statsVars, Stats!vars
<1>4. (UNCHANGED confVars) => UNCHANGED Conf!vars
  BY DEF confVars, Conf!vars
<1>5. CASE UNCHANGED <<part, udpVars, inVars, statsVars, confVars>>
  BY <1>1, <1>2, <1>3, <1>4, <1>5
<1>6. CASE PartsNext
  <2>1. CASE Next /\ UNCHANGED <<inVars, statsVars, confVars>>
    BY <1>1, <1>3, <1>4, <2>1
  <2>2. CASE In!Next /\ UNCHANGED <<udpVars, statsVars, confVars>>
    BY <1>2, <1>3, <1>4, <2>2
  <2>3. CASE Stats!Next /\ UNCHANGED <<udpVars, inVars, confVars>>
    BY <1>1, <1>2, <1>4, <2>3
  <2>4. CASE Conf!Next /\ UNCHANGED <<udpVars, inVars, statsVars>>
    BY <1>1, <1>2, <1>3, <2>4
  <2> QED
    BY <1>6, <2>1, <2>2, <2>3, <2>4 DEF PartsNext
<1> QED
  BY <1>5, <1>6

LEMMA PartsAreBehaviours == PartsSpec => Spec /\ In!Spec /\ Stats!Spec /\ Conf!Spec
<1>1. PartsInit => Init /\ In!Init /\ Stats!Init /\ Conf!Init
  BY DEF PartsInit
<1>2. [PartsNext]_<<part, udpVars, inVars, statsVars, confVars>>
        => [Next]_vars /\ [In!Next]_In!vars /\ [Stats!Next]_Stats!vars /\ [Conf!Next]_Conf!vars
  BY PartSteps
<1> QED
  BY <1>1, <1>2, PTL DEF PartsSpec, Spec, In!Spec, Stats!Spec, Conf!Spec

\* Every variable of the four parts has its type throughout, a parser's buffer keeps to
\* its limit, and a UDP endpoint's queue and clients fit its mode.
THEOREM PartsTypeCorrect == PartsSpec => []TypesOK
<1>1. TypeOK /\ IngressInv /\ StatsInv /\ ConfInv => TypesOK
  BY IngressTypes, StatsTypeOK, ConfTypeOK DEF TypesOK
<1> QED
  BY <1>1, PartsAreBehaviours, TypeCorrect, IngressInvariance, StatsInvariance,
     ConfInvariance, PTL

\* What the parts promise one by one, of a router that has all of them.
THEOREM PartsKeepTheirPromises ==
  PartsSpec => [](PassesThrough /\ AcceptedOnce /\ AggregatesWindow /\ LoadsByTheRules)
BY PartsAreBehaviours, StreamsPassThrough, AcceptedFramesOnce, ReportsAggregateTheirWindows,
   ConfigurationLoadsByTheRules, PTL
=============================================================================
