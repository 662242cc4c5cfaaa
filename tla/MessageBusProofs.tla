-------------------------- MODULE MessageBusProofs ---------------------------
(***************************************************************************)
(* What the proofs about the receivers of the bus share: how the records   *)
(* of what a receiver wrote stay in order, and how what it received and    *)
(* what it missed add up.                                                  *)
(***************************************************************************)
EXTENDS Integers, FiniteSetTheorems, SequenceTheorems, TLAPS

\* The order of the bus.
Increasing(s) == \A i, j \in DOMAIN s : i < j => s[i] < s[j]

\* No position in s is beyond c.
UpTo(s, c) == \A i \in DOMAIN s : s[i] <= c

-----------------------------------------------------------------------------
(* A buffer b in front of what has left it, v.                             *)

LEMMA BufferMore ==
  ASSUME NEW S, NEW v \in Seq(S), NEW b \in Seq(S), NEW x \in S
  PROVE  v \o Append(b, x) = Append(v \o b, x)
<1>1. /\ v \o b \in Seq(S) /\ Append(b, x) = b \o <<x>> /\ <<x>> \in Seq(S)
      /\ Append(v \o b, x) = (v \o b) \o <<x>>
  BY ConcatProperties, AppendIsConcat
<1> QED
  BY <1>1, ConcatAssociative

LEMMA BufferNone == ASSUME NEW S, NEW v \in Seq(S) PROVE v \o <<>> = v
BY ConcatEmptySeq

LEMMA Regroups ==
  ASSUME NEW S, NEW s \in Seq(S), NEW t \in Seq(S), NEW u \in Seq(S)
  PROVE  (s \o t) \o u = s \o (t \o u)
BY ConcatAssociative, SMTT(60)

\* A buffer b gives its first elements to v and keeps the rest: nothing is lost or moved.
Spilled(S, v, b, first, rest) ==
  /\ v \o first \in Seq(S) /\ rest \in Seq(S)
  /\ Len(v \o first) + Len(rest) = Len(v) + Len(b) /\ Len(rest) <= Len(b)
  /\ (v \o first) \o rest = v \o b

\* It lets go of its first n.
LEMMA BufferLess ==
  ASSUME NEW S, NEW v \in Seq(S), NEW b \in Seq(S), NEW n \in DOMAIN b
  PROVE  Spilled(S, v, b, SubSeq(b, 1, n), SubSeq(b, n + 1, Len(b)))
<1> DEFINE first == SubSeq(b, 1, n)
           rest == SubSeq(b, n + 1, Len(b))
<1>1. Len(b) \in Nat /\ n \in 1 .. Len(b) /\ \A i \in 1 .. Len(b) : b[i] \in S
  BY LenProperties
<1>2. first \in Seq(S) /\ Len(first) = n
  <2>1. \A i \in 1 .. n : b[i] \in S
    BY <1>1
  <2>2. n \in Int /\ 1 <= n
    BY <1>1
  <2>3. n - 1 + 1 = n
    BY <2>2
  <2> QED
    BY <2>1, <2>2, <2>3, SubSeqProperties
<1>3. rest \in Seq(S) /\ Len(rest) = Len(b) - n
  <2>1. \A i \in n + 1 .. Len(b) : b[i] \in S
    BY <1>1
  <2>2. n + 1 \in Int /\ Len(b) \in Int /\ n <= Len(b)
    BY <1>1
  <2>3. rest \in Seq(S) /\ Len(rest) = IF n + 1 <= Len(b) THEN Len(b) - (n + 1) + 1 ELSE 0
    BY <2>1, <2>2, SubSeqProperties
  <2> QED
    BY <2>2, <2>3
<1>4. first \o rest = b
  <2>1. 1 \in 1 .. Len(b) + 1 /\ n \in 1 - 1 .. Len(b) /\ Len(b) \in n .. Len(b)
    BY <1>1
  <2>2. first \o rest = SubSeq(b, 1, Len(b))
    BY <2>1, ConcatAdjacentSubSeq
  <2> QED
    BY <2>2, SubSeqFull
<1> HIDE DEF first, rest
<1>5. v \o first \in Seq(S) /\ Len(v \o first) = Len(v) + n
  BY <1>2, ConcatProperties
<1>6. (v \o first) \o rest = v \o (first \o rest)
  <2>1. first \in Seq(S) /\ rest \in Seq(S)
    BY <1>2, <1>3
  <2> QED
    BY <2>1, Regroups, SMTT(60)
<1>7. Len(v) \in Nat /\ Len(b) \in Nat /\ n \in Nat /\ 1 <= n
  BY <1>1, LenProperties
<1>8. Len(v \o first) + Len(rest) = Len(v) + Len(b) /\ Len(rest) <= Len(b)
  BY <1>3, <1>5, <1>7
<1>9. (v \o first) \o rest = v \o b
  BY <1>4, <1>6
<1> QED
  BY <1>3, <1>5, <1>8, <1>9 DEF Spilled, first, rest

\* What has left it is in order when all of it is.
LEMMA WithoutBuffer ==
  ASSUME NEW v \in Seq(Nat), NEW b \in Seq(Nat)
  PROVE  /\ DOMAIN v \subseteq DOMAIN (v \o b) /\ \A i \in DOMAIN v : v[i] = (v \o b)[i]
         /\ Increasing(v \o b) => Increasing(v)
         /\ \A c : UpTo(v \o b, c) => UpTo(v, c)
<1>1. /\ Len(v) \in Nat /\ Len(b) \in Nat /\ DOMAIN v = 1 .. Len(v)
      /\ DOMAIN (v \o b) = 1 .. Len(v) + Len(b)
      /\ \A i \in 1 .. Len(v) + Len(b) : i <= Len(v) => (v \o b)[i] = v[i]
  BY LenProperties, ConcatProperties
<1>2. DOMAIN v \subseteq DOMAIN (v \o b) /\ \A i \in DOMAIN v : v[i] = (v \o b)[i]
  BY <1>1
<1> QED
  BY <1>2 DEF Increasing, UpTo

LEMMA OneMore ==
  ASSUME NEW s \in Seq(Nat), Increasing(s), NEW c \in Nat, UpTo(s, c), NEW p \in Nat, c < p
  PROVE  Append(s, p) \in Seq(Nat) /\ Increasing(Append(s, p)) /\ UpTo(Append(s, p), p)
<1>1. /\ Append(s, p) \in Seq(Nat) /\ Len(s) \in Nat
      /\ DOMAIN s = 1 .. Len(s) /\ DOMAIN Append(s, p) = 1 .. Len(s) + 1
      /\ \A i \in 1 .. Len(s) : Append(s, p)[i] = s[i] /\ s[i] \in Nat
      /\ Append(s, p)[Len(s) + 1] = p
  BY AppendProperties, LenProperties
<1>2. \A i \in 1 .. Len(s) : s[i] <= c
  BY <1>1 DEF UpTo
<1>3. Increasing(Append(s, p))
  <2> SUFFICES ASSUME NEW i \in 1 .. Len(s) + 1, NEW j \in 1 .. Len(s) + 1, i < j
               PROVE  Append(s, p)[i] < Append(s, p)[j]
    BY <1>1 DEF Increasing
  <2>1. i \in 1 .. Len(s)
    BY <1>1
  <2>2. CASE j \in 1 .. Len(s)
    BY <1>1, <2>1, <2>2 DEF Increasing
  <2>3. CASE j = Len(s) + 1
    BY <1>1, <1>2, <2>1, <2>3
  <2> QED
    BY <1>1, <2>2, <2>3
<1>4. UpTo(Append(s, p), p)
  BY <1>1, <1>2 DEF UpTo
<1> QED
  BY <1>1, <1>3, <1>4

LEMMA UpToMore ==
  ASSUME NEW s \in Seq(Nat), NEW c \in Nat, NEW d \in Nat, c <= d, UpTo(s, c)
  PROVE  UpTo(s, d)
BY LenProperties DEF UpTo

-----------------------------------------------------------------------------
(* What a receiver that is past c messages has accounted for, X.           *)

\* Those that it was overrun by.
Lost(c, X) == (1 .. c) \ X

LEMMA LostIsFinite ==
  ASSUME NEW c \in Nat, NEW X PROVE IsFiniteSet(Lost(c, X)) /\ Cardinality(Lost(c, X)) \in Nat
<1>1. IsFiniteSet(1 .. c) /\ Lost(c, X) \in SUBSET (1 .. c)
  BY FS_Interval DEF Lost
<1> QED
  BY <1>1, FS_Subset, FS_CardinalityType

\* It goes on at d, where what is between is not accounted for.
LEMMA LostMore ==
  ASSUME NEW c \in Nat, NEW d \in Nat, c <= d, NEW X, X \cap (c + 1 .. d) = {}
  PROVE  Cardinality(Lost(d, X)) = Cardinality(Lost(c, X)) + (d - c)
<1> DEFINE L == Lost(c, X)
           M == c + 1 .. d
<1>1. Lost(d, X) = L \cup M /\ L \cap M = {}
  BY DEF Lost
<1>2. IsFiniteSet(L) /\ Cardinality(L) \in Nat
  BY LostIsFinite
<1>3. IsFiniteSet(M) /\ Cardinality(M) = d - c
  <2>1. Cardinality(M) = IF c + 1 > d THEN 0 ELSE d - (c + 1) + 1
    BY FS_Interval
  <2>2. IsFiniteSet(M)
    BY FS_Interval
  <2> HIDE DEF M
  <2> QED
    BY <2>1, <2>2
<1> HIDE DEF L, M
<1>4. Cardinality(L \cup M) = Cardinality(L) + Cardinality(M) - Cardinality(L \cap M)
  BY <1>2, <1>3, FS_Union
<1>5. Cardinality(L \cap M) = 0
  BY <1>1, FS_EmptySet
<1> QED
  BY <1>1, <1>2, <1>3, <1>4, <1>5 DEF L

\* It goes on at d, where all that is between is accounted for.
LEMMA LostSame ==
  ASSUME NEW c \in Nat, NEW d \in Nat, c <= d, NEW X, NEW Y,
         \A p \in 1 .. c : p \in X <=> p \in Y, c + 1 .. d \subseteq Y
  PROVE  Lost(d, Y) = Lost(c, X)
BY DEF Lost
=============================================================================
