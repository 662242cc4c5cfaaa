---------------------------- MODULE DedupProofs -----------------------------
(***************************************************************************)
(* The time wheel remembers what was let through for exactly one round,    *)
(* for every number of shards and buckets, every hash, every traffic and   *)
(* every schedule of the rotator.                                          *)
(***************************************************************************)
EXTENDS Dedup, TLAPS

n == NumBuckets

\* How many turns ago bucket b was the current one, when c is.
Age(c, b) == IF b <= c THEN c - b ELSE c - b + n

\* A digest is in that bucket of its wheel that was current when it was let
\* through, and in no other.
InItsBucket ==
  \A d \in Digest : \A b \in Bucket :
    d \in wheels[WheelOf(d)].buckets[b] <=>
      /\ d \in DOMAIN passed
      /\ turns[WheelOf(d)] - passed[d].turn = Age(wheels[WheelOf(d)].current, b)

PassedBefore == \A d \in DOMAIN passed : passed[d].turn <= turns[WheelOf(d)]

IInv == TypeOK /\ InItsBucket /\ PassedBefore

-----------------------------------------------------------------------------
(* Arithmetic of the ring.                                                 *)

LEMMA NumBucketsType == n \in Nat /\ ((n = 0) <=> (Period = 0))
<1>1. Period \div BucketInterval \in Int
  BY DedupAssumption DEF DedupAssumption
<1> QED
  BY <1>1, DedupAssumption DEF DedupAssumption, n, NumBuckets

LEMMA WheelOfType == \A d \in Digest : d \in Nat /\ WheelOf(d) \in DedupShard
BY DedupAssumption DEF DedupAssumption, Digest, WheelOf, DedupShard

\* The bucket after c, and the ages of the buckets once it is the current one.
LEMMA NextBucket ==
  ASSUME NEW c \in Bucket
  PROVE  /\ (c + 1) % n = IF c + 1 = n THEN 0 ELSE c + 1
         /\ (c + 1) % n \in Bucket
         /\ Age((c + 1) % n, (c + 1) % n) = 0
         /\ \A b \in Bucket :
              b # (c + 1) % n => Age((c + 1) % n, b) = Age(c, b) + 1
<1>1. n \in Nat /\ n > 0 /\ c \in 0 .. (n - 1)
  BY NumBucketsType DEF Bucket, n
<1>2. (c + 1) % n = IF c + 1 = n THEN 0 ELSE c + 1
  <2>1. CASE c + 1 = n
    BY <2>1, <1>1
  <2>2. CASE c + 1 < n
    BY <2>2, <1>1
  <2> QED
    BY <2>1, <2>2, <1>1
<1>3. (c + 1) % n \in Bucket
  BY <1>1, <1>2 DEF Bucket, n
<1> QED
  BY <1>1, <1>2, <1>3 DEF Age, Bucket, n

\* Ages are below n, all of them occur, and each is that of one bucket.
LEMMA AgeRange ==
  ASSUME NEW c \in Bucket
  PROVE  /\ \A b \in Bucket : Age(c, b) \in 0 .. (n - 1)
         /\ \A k \in 0 .. (n - 1) : \E b \in Bucket : Age(c, b) = k
<1>1. n \in Nat /\ n > 0 /\ c \in 0 .. (n - 1)
  BY NumBucketsType DEF Bucket, n
<1>2. ASSUME NEW k \in 0 .. (n - 1) PROVE \E b \in Bucket : Age(c, b) = k
  <2>1. CASE k <= c
    <3>1. c - k \in Bucket /\ Age(c, c - k) = k
      BY <2>1, <1>1 DEF Age, Bucket, n
    <3> QED
      BY <3>1
  <2>2. CASE c < k
    <3>1. c - k + n \in Bucket /\ Age(c, c - k + n) = k
      BY <2>2, <1>1 DEF Age, Bucket, n
    <3> QED
      BY <3>1
  <2> QED
    BY <2>1, <2>2, <1>1
<1> QED
  BY <1>1, <1>2 DEF Age, Bucket, n

LEMMA AgeInjective ==
  ASSUME NEW c \in Bucket, NEW a \in Bucket, NEW b \in Bucket
  PROVE  /\ Age(c, a) = Age(c, b) => a = b
         /\ (Age(c, a) = 0) <=> (a = c)
BY NumBucketsType DEF Age, Bucket, n

-----------------------------------------------------------------------------
(* The steps.                                                              *)

LEMMA InitIInv == Init => IInv
<1> SUFFICES ASSUME Init PROVE IInv
  OBVIOUS
<1>1. TypeOK
  BY NumBucketsType, DedupAssumption
  DEF Init, TypeOK, Bucket, n, DedupShard, DedupAssumption
<1>2. InItsBucket /\ PassedBefore
  BY WheelOfType DEF Init, InItsBucket, PassedBefore
<1> QED
  BY <1>1, <1>2 DEF IInv

\* The lock of one shard: what is let through enters the current bucket.
LEMMA CheckKeeps ==
  ASSUME IInv, NEW f \in Frame, Check(f) PROVE IInv'
<1> DEFINE d == Hash[f]
           s == WheelOf(d)
<1>1. d \in Digest /\ d \in Nat /\ s \in DedupShard
  BY WheelOfType DEF Digest
<1>2. CASE Seen(d)
  BY <1>2 DEF Check, rotatorVars, IInv, TypeOK, InItsBucket, PassedBefore
<1>3. CASE ~Seen(d)
  <2>1. /\ wheels' = [wheels EXCEPT ![s] = Inserted(@, d)]
        /\ passed' = [x \in DOMAIN passed \cup {d} |->
                       IF x = d THEN [at |-> now, turn |-> turns[s]] ELSE passed[x]]
        /\ UNCHANGED <<now, rotator, rotateAt, nextTick, turns>>
    BY <1>3 DEF Check, rotatorVars
  <2> USE NumBucketsType DEF n
  <2>2. CASE NumBuckets = 0
    <3>1. wheels' = wheels /\ Bucket = {}
      BY <2>1, <2>2, <1>1 DEF Inserted, IInv, TypeOK, Bucket
    <3>2. TypeOK' /\ InItsBucket'
      BY <3>1, <2>1, <2>2, <1>1 DEF IInv, TypeOK, InItsBucket
    <3>3. PassedBefore'
      BY <2>1, <1>1 DEF IInv, TypeOK, PassedBefore
    <3> QED
      BY <3>2, <3>3 DEF IInv
  <2>3. CASE NumBuckets > 0
    <3> DEFINE c == wheels[s].current
    <3>1. c \in Bucket /\ wheels[s].buckets \in [Bucket -> SUBSET Digest]
      BY <1>1, <2>3 DEF IInv, TypeOK
    <3>2. wheels' = [wheels EXCEPT ![s] =
                       [buckets |-> [wheels[s].buckets EXCEPT ![c] = @ \cup {d}],
                        current |-> c]]
      <4>1. wheels[s] = [buckets |-> wheels[s].buckets, current |-> c]
        BY <1>1 DEF IInv, TypeOK
      <4>2. Inserted(wheels[s], d) = [wheels[s] EXCEPT !.buckets[c] = @ \cup {d}]
        BY <2>3 DEF Inserted
      <4>3. Inserted(wheels[s], d) =
              [buckets |-> [wheels[s].buckets EXCEPT ![c] = @ \cup {d}], current |-> c]
        BY <4>1, <4>2
      <4> QED
        BY <4>3, <2>1
    <3>3. TypeOK'
      BY <3>2, <3>1, <2>1, <1>1 DEF IInv, TypeOK
    <3>4. PassedBefore'
      BY <2>1, <1>1 DEF IInv, TypeOK, PassedBefore
    <3>5. ASSUME NEW x \in Digest, NEW b \in Bucket
          PROVE  x \in wheels'[WheelOf(x)].buckets[b] <=>
                   /\ x \in DOMAIN passed'
                   /\ turns'[WheelOf(x)] - passed'[x].turn
                        = Age(wheels'[WheelOf(x)].current, b)
      <4>1. WheelOf(x) \in DedupShard
        BY WheelOfType
      <4>2. wheels'[WheelOf(x)].current = wheels[WheelOf(x)].current
        BY <3>2, <4>1, <1>1, <3>1 DEF IInv, TypeOK
      <4>3. CASE x # d
        <5>1. x \in wheels'[WheelOf(x)].buckets[b] <=> x \in wheels[WheelOf(x)].buckets[b]
          BY <4>3, <3>2, <4>1, <1>1, <3>1 DEF IInv, TypeOK
        <5>2. /\ x \in DOMAIN passed' <=> x \in DOMAIN passed
              /\ x \in DOMAIN passed => passed'[x] = passed[x]
          BY <4>3, <2>1
        <5> QED
          BY <5>1, <5>2, <4>2, <2>1 DEF IInv, InItsBucket
      <4>4. CASE x = d
        <5>1. x \in wheels'[s].buckets[b] <=> b = c
          BY <4>4, <1>3, <3>2, <3>1, <1>1 DEF Seen, IInv, TypeOK
        <5>2. x \in DOMAIN passed' /\ passed'[x].turn = turns[s] /\ turns[s] \in Nat
          BY <4>4, <2>1, <1>1 DEF IInv, TypeOK
        <5>3. (Age(c, b) = 0) <=> (b = c)
          BY <3>1, AgeInjective
        <5> QED
          BY <5>1, <5>2, <5>3, <4>4, <4>2, <2>1
      <4> QED
        BY <4>3, <4>4
    <3>6. InItsBucket'
      BY <3>5 DEF InItsBucket, Bucket
    <3> QED
      BY <3>3, <3>4, <3>6 DEF IInv
  <2> QED
    BY <2>2, <2>3
<1> QED
  BY <1>2, <1>3

\* The lock of one shard: its buckets are one turn older, and the bucket that is
\* entered has lost what was a round old.
LEMMA TurnKeeps ==
  ASSUME IInv, TurnNextShard PROVE IInv'
<1> DEFINE s == rotateAt
           c == wheels[s].current
           e == (c + 1) % NumBuckets
<1>1. s \in DedupShard /\ NumBuckets > 0
  BY NumBucketsType DEF IInv, TypeOK, TurnNextShard, n
<1>2. c \in Bucket /\ wheels[s].buckets \in [Bucket -> SUBSET Digest]
  BY <1>1 DEF IInv, TypeOK
<1>3. /\ e \in Bucket
      /\ Age(e, e) = 0
      /\ \A b \in Bucket : b # e => Age(e, b) = Age(c, b) + 1
  BY <1>2, NextBucket DEF n
<1>4. wheels' = [wheels EXCEPT ![s] =
                   [buckets |-> [wheels[s].buckets EXCEPT ![e] = {}], current |-> e]]
  <2>1. wheels[s] = [buckets |-> wheels[s].buckets, current |-> c]
    BY <1>1 DEF IInv, TypeOK
  <2>2. Rotated(wheels[s]) = [buckets |-> [wheels[s].buckets EXCEPT ![e] = {}],
                              current |-> e]
    <3>1. Rotated(wheels[s]) = [wheels[s] EXCEPT !.current = e, !.buckets[e] = {}]
      BY DEF Rotated
    <3> QED
      BY <3>1, <2>1
  <2> QED
    BY <2>2 DEF TurnNextShard
<1>5. turns' = [turns EXCEPT ![s] = @ + 1] /\ UNCHANGED <<now, nextTick, passed>>
  BY DEF TurnNextShard
<1>6. rotator' \in {"waiting", "turning"} /\ rotateAt' \in DedupShard
  <2>1. DedupShards \in Nat \ {0}
    BY DedupAssumption DEF DedupAssumption
  <2> QED
    BY <2>1, <1>1 DEF TurnNextShard, IInv, TypeOK, DedupShard
<1>7. TypeOK'
  <2>1. wheels' \in [DedupShard -> [buckets : [Bucket -> SUBSET Digest], current : Nat]]
    BY <1>1, <1>2, <1>3, <1>4 DEF IInv, TypeOK, Bucket
  <2>2. \A i \in DedupShard :
          /\ \A b \in Bucket : \A d \in wheels'[i].buckets[b] : WheelOf(d) = i
          /\ NumBuckets > 0 => wheels'[i].current \in Bucket
    BY <1>1, <1>2, <1>3, <1>4 DEF IInv, TypeOK
  <2>3. turns' \in [DedupShard -> Nat]
    BY <1>1, <1>5 DEF IInv, TypeOK
  <2> QED
    BY <2>1, <2>2, <2>3, <1>1, <1>5, <1>6, NumBucketsType DEF IInv, TypeOK, Bucket, n
<1>8. PassedBefore'
  BY <1>1, <1>5, WheelOfType DEF IInv, TypeOK, PassedBefore
<1>9. ASSUME NEW x \in Digest, NEW b \in Bucket
      PROVE  x \in wheels'[WheelOf(x)].buckets[b] <=>
               /\ x \in DOMAIN passed
               /\ turns'[WheelOf(x)] - passed[x].turn = Age(wheels'[WheelOf(x)].current, b)
  <2>1. WheelOf(x) \in DedupShard
    BY WheelOfType
  <2>2. x \in DOMAIN passed => passed[x].turn \in Nat /\ passed[x].turn <= turns[WheelOf(x)]
    BY DEF IInv, TypeOK, PassedBefore
  <2>3. x \in wheels[WheelOf(x)].buckets[b] <=>
          /\ x \in DOMAIN passed
          /\ turns[WheelOf(x)] - passed[x].turn = Age(wheels[WheelOf(x)].current, b)
    BY DEF IInv, InItsBucket
  <2>4. CASE WheelOf(x) # s
    BY <2>4, <2>1, <2>3, <1>4, <1>5 DEF IInv, TypeOK
  <2>5. CASE WheelOf(x) = s
    <3>1. /\ wheels'[s].current = e /\ turns'[s] = turns[s] + 1 /\ turns[s] \in Nat
          /\ wheels'[s].buckets = [wheels[s].buckets EXCEPT ![e] = {}]
      BY <1>1, <1>4, <1>5 DEF IInv, TypeOK
    <3>2. CASE b = e
      BY <3>1, <3>2, <2>2, <2>5, <1>2, <1>3
    <3>3. CASE b # e
      <4>1. Age(e, b) = Age(c, b) + 1
        BY <3>3, <1>3
      <4>2. x \in wheels'[s].buckets[b] <=> x \in wheels[s].buckets[b]
        BY <3>1, <3>3, <1>2
      <4>3. Age(c, b) \in Int
        BY <1>2, NumBucketsType DEF Age, Bucket, n
      <4>4. x \in wheels'[s].buckets[b] <=>
              x \in DOMAIN passed /\ turns[s] - passed[x].turn = Age(c, b)
        BY <4>2, <2>3, <2>5
      <4>5. x \in DOMAIN passed =>
              ((turns[s] - passed[x].turn = Age(c, b)) <=>
               (turns'[s] - passed[x].turn = Age(e, b)))
        BY <4>1, <4>3, <3>1, <2>2
      <4> QED
        BY <4>4, <4>5, <3>1, <2>5, Zenon
    <3> QED
      BY <3>2, <3>3
  <2> QED
    BY <2>4, <2>5
<1>10. InItsBucket'
  BY <1>9, <1>5 DEF InItsBucket, Bucket
<1> QED
  BY <1>7, <1>8, <1>10 DEF IInv

LEMMA NextIInv == IInv /\ [Next]_vars => IInv'
<1> SUFFICES ASSUME IInv, [Next]_vars PROVE IInv'
  OBVIOUS
<1>1. ASSUME NEW f \in Frame, Check(f) PROVE IInv'
  BY <1>1, CheckKeeps
<1>2. CASE TurnNextShard
  BY <1>2, TurnKeeps
<1>3. CASE StartRotation
  <2>1. TypeOK'
    BY <1>3, NumBucketsType, DedupAssumption, SMTT(30)
    DEF StartRotation, DedupAssumption, DedupShard, n, IInv, TypeOK
  <2>2. InItsBucket' /\ PassedBefore'
    BY <1>3 DEF StartRotation, IInv, TypeOK, InItsBucket, PassedBefore, DedupShard
  <2> QED
    BY <2>1, <2>2 DEF IInv
<1>4. CASE StopRotator
  BY <1>4, NumBucketsType DEF StopRotator, n, IInv, TypeOK, InItsBucket, PassedBefore
<1>5. CASE Tick
  BY <1>5 DEF Tick, rotatorVars, IInv, TypeOK, InItsBucket, PassedBefore
<1>6. CASE UNCHANGED vars
  BY <1>6 DEF vars, IInv, TypeOK, InItsBucket, PassedBefore
<1> QED
  BY <1>1, <1>2, <1>3, <1>4, <1>5, <1>6 DEF Next

\* The invariant says what is remembered.
LEMMA Remembered == IInv => RemembersForOneRound
<1> SUFFICES ASSUME IInv, NEW d \in Digest
             PROVE  Seen(d) <=> /\ d \in DOMAIN passed
                                /\ turns[WheelOf(d)] - passed[d].turn < NumBuckets
  BY DEF RemembersForOneRound
<1> DEFINE s == WheelOf(d)
           c == wheels[s].current
<1>1. s \in DedupShard /\ turns[s] \in Nat
  BY WheelOfType DEF IInv, TypeOK
<1>2. d \in DOMAIN passed =>
        /\ passed[d].turn \in Nat /\ passed[d].turn <= turns[s]
  BY DEF IInv, TypeOK, PassedBefore
<1>3. CASE NumBuckets = 0
  BY <1>1, <1>2, <1>3 DEF Seen, Bucket
<1>4. CASE NumBuckets > 0
  <2>1. c \in Bucket
    BY <1>1, <1>4 DEF IInv, TypeOK
  <2>2. \A b \in Bucket : d \in wheels[s].buckets[b] <=>
          d \in DOMAIN passed /\ turns[s] - passed[d].turn = Age(c, b)
    BY DEF IInv, InItsBucket
  <2>3. ASSUME Seen(d)
        PROVE  d \in DOMAIN passed /\ turns[s] - passed[d].turn < NumBuckets
    BY <2>1, <2>2, <2>3, AgeRange, NumBucketsType DEF Seen, n
  <2>4. ASSUME d \in DOMAIN passed, turns[s] - passed[d].turn < NumBuckets
        PROVE  Seen(d)
    <3>1. turns[s] - passed[d].turn \in 0 .. (n - 1)
      BY <1>1, <1>2, <2>4, NumBucketsType DEF n
    <3>2. PICK b \in Bucket : Age(c, b) = turns[s] - passed[d].turn
      BY <3>1, <2>1, AgeRange
    <3> QED
      BY <3>2, <2>2, <2>4 DEF Seen
  <2> QED
    BY <2>3, <2>4
<1> QED
  BY <1>3, <1>4, NumBucketsType DEF n

-----------------------------------------------------------------------------
(* The theorems.                                                           *)

\* Every reachable state satisfies the inductive invariant, whether or not the
\* rotator is on time (dedup.rs, orchestration.rs:156-167).
THEOREM Invariance == Spec => []IInv
BY InitIInv, NextIInv, PTL DEF Spec

\* The wheels are rings of NumBuckets buckets, each digest in the shard that its
\* low bits select.
THEOREM TypeCorrect == Spec => []TypeOK
<1>1. IInv => TypeOK
  BY DEF IInv
<1> QED
  BY Invariance, <1>1, PTL

\* A digest let through is suppressed until its shard has been turned NumBuckets
\* times, and no longer (check_and_insert_with_hash, rotate_bucket).
THEOREM OneRound == Spec => []RemembersForOneRound
BY Invariance, Remembered, PTL

\* A digest is in one bucket of its ring, so that clearing that bucket forgets it.
THEOREM OneBucket == Spec => []InOneBucket
<1>1. IInv => InOneBucket
  <2> SUFFICES ASSUME IInv, NEW s \in DedupShard, NEW a \in Bucket, NEW b \in Bucket,
                      NEW d \in wheels[s].buckets[a], d \in wheels[s].buckets[b]
               PROVE  a = b
    BY DEF InOneBucket
  <2>1. d \in Digest /\ WheelOf(d) = s
    BY DEF IInv, TypeOK
  <2>2. wheels[s].current \in Bucket
    BY NumBucketsType DEF IInv, TypeOK, Bucket, n
  <2> QED
    <3> DEFINE c == wheels[s].current
    <3>1. /\ turns[s] - passed[d].turn = Age(c, a)
          /\ turns[s] - passed[d].turn = Age(c, b)
      BY <2>1 DEF IInv, InItsBucket
    <3> QED
      BY <3>1, <2>2, AgeInjective
<1> QED
  BY Invariance, <1>1, PTL

-----------------------------------------------------------------------------
(* The window in time.  Turn k of a shard takes place at time Time(k - 1). *)

Time(k) == k * BucketInterval

\* The clock, the timer and the turns of a rotator that is on time; and what was
\* let through at turn p was let through between turns p and p + 1.
ClockOK ==
  /\ rotator # "absent"
  /\ now <= nextTick
  /\ rotator = "turning" => now = nextTick - BucketInterval
  /\ nextTick - BucketInterval <= now
  /\ \A s \in DedupShard :
       Time(turns[s]) = IF rotator = "turning" /\ s >= rotateAt
                          THEN nextTick - BucketInterval ELSE nextTick

PassedInTime ==
  \A d \in DOMAIN passed :
    Time(passed[d].turn - 1) <= passed[d].at /\ passed[d].at <= Time(passed[d].turn)

TInv == IInv /\ ClockOK /\ PassedInTime

TimelyNext == Next /\ (now' # now => OnTime)

LEMMA TimeFacts ==
  /\ \A k \in Int : Time(k) \in Int /\ Time(k + 1) = Time(k) + BucketInterval
                     /\ Time(k - 1) = Time(k) - BucketInterval
  /\ \A j, k \in Int : j <= k => Time(j) <= Time(k)
  /\ \A j, k \in Int : Time(j - k) = Time(j) - Time(k)
  /\ Time(0) = 0
<1>1. BucketInterval \in Nat
  BY DedupAssumption DEF DedupAssumption
<1>2. ASSUME NEW k \in Int
      PROVE  /\ Time(k) \in Int /\ Time(k + 1) = Time(k) + BucketInterval
             /\ Time(k - 1) = Time(k) - BucketInterval
  BY <1>1 DEF Time
<1>3. ASSUME NEW j \in Int, NEW k \in Int, j <= k PROVE Time(j) <= Time(k)
  BY <1>1, <1>3 DEF Time
<1>4. ASSUME NEW j \in Int, NEW k \in Int PROVE Time(j - k) = Time(j) - Time(k)
  BY <1>1 DEF Time
<1> QED
  BY <1>1, <1>2, <1>3, <1>4 DEF Time

LEMMA Apart ==
  ASSUME NEW j \in Int, NEW k \in Int, NEW m \in Int, j <= k - m
  PROVE  /\ Time(j) \in Int /\ Time(k) \in Int /\ Time(m) \in Int
         /\ Time(j) <= Time(k) - Time(m)
<1>1. Time(j) <= Time(k - m) /\ Time(k - m) = Time(k) - Time(m)
  <2>1. k - m \in Int
    OBVIOUS
  <2>2. Time(j) <= Time(k - m)
    BY <2>1, TimeFacts
  <2> QED
    BY <2>2, TimeFacts
<1>2. Time(j) \in Int /\ Time(k) \in Int /\ Time(m) \in Int
  BY TimeFacts
<1> QED
  BY <1>1, <1>2

LEMMA InitTInv == Period > 0 /\ Init => TInv
<1> SUFFICES ASSUME Period > 0, Init PROVE TInv
  OBVIOUS
<1>1. IInv
  BY InitIInv
<1>2. ClockOK
  BY TimeFacts, DedupAssumption DEF DedupAssumption, Init, ClockOK
<1>3. PassedInTime
  BY DEF Init, PassedInTime
<1> QED
  BY <1>1, <1>2, <1>3 DEF TInv

\* What is let through now is let through in time.
LEMMA NowInTime ==
  ASSUME TInv, NEW s \in DedupShard
  PROVE  Time(turns[s] - 1) <= now /\ now <= Time(turns[s])
<1>1. turns[s] \in Int /\ now \in Int /\ nextTick \in Int /\ BucketInterval \in Nat
  BY DedupAssumption DEF DedupAssumption, TInv, IInv, TypeOK
<1>2. Time(turns[s] - 1) = Time(turns[s]) - BucketInterval /\ Time(turns[s]) \in Int
  BY <1>1, TimeFacts
<1> QED
  BY <1>1, <1>2 DEF TInv, ClockOK

LEMMA NextTInv == TInv /\ [TimelyNext]_vars => TInv'
<1> SUFFICES ASSUME TInv, [TimelyNext]_vars PROVE TInv'
  OBVIOUS
<1>1. IInv'
  BY NextIInv DEF TInv, TimelyNext
<1>2. /\ now \in Int /\ nextTick \in Int /\ BucketInterval \in Nat \ {0}
      /\ turns \in [DedupShard -> Nat] /\ rotateAt \in DedupShard
      /\ DedupShard = 0 .. (DedupShards - 1) /\ DedupShards \in Nat \ {0}
  BY DedupAssumption DEF DedupAssumption, TInv, IInv, TypeOK, DedupShard
<1>3. ASSUME NEW f \in Frame, Check(f) PROVE ClockOK' /\ PassedInTime'
  <2>1. ClockOK'
    BY <1>3 DEF Check, rotatorVars, TInv, ClockOK
  <2>2. PassedInTime'
    <3>1. Hash[f] \in Digest /\ WheelOf(Hash[f]) \in DedupShard
      BY WheelOfType DEF Digest
    <3>2. /\ Time(turns[WheelOf(Hash[f])] - 1) <= now
          /\ now <= Time(turns[WheelOf(Hash[f])])
      BY <3>1, NowInTime
    <3>3. CASE passed' = passed
      BY <3>3 DEF TInv, PassedInTime
    <3>4. CASE passed' = [x \in DOMAIN passed \cup {Hash[f]} |->
                            IF x = Hash[f]
                              THEN [at |-> now, turn |-> turns[WheelOf(Hash[f])]]
                              ELSE passed[x]]
      <4> SUFFICES ASSUME NEW x \in DOMAIN passed'
                   PROVE  /\ Time(passed'[x].turn - 1) <= passed'[x].at
                          /\ passed'[x].at <= Time(passed'[x].turn)
        BY DEF PassedInTime
      <4>1. CASE x = Hash[f]
        <5>1. passed'[x] = [at |-> now, turn |-> turns[WheelOf(Hash[f])]]
          BY <3>4, <4>1
        <5> QED
          BY <5>1, <3>2
      <4>2. CASE x # Hash[f]
        <5>1. x \in DOMAIN passed /\ passed'[x] = passed[x]
          BY <3>4, <4>2
        <5> QED
          BY <5>1 DEF TInv, PassedInTime
      <4> QED
        BY <4>1, <4>2
    <3> QED
      BY <1>3, <3>3, <3>4 DEF Check
  <2> QED
    BY <2>1, <2>2
<1>4. ASSUME TurnNextShard PROVE ClockOK' /\ PassedInTime'
  <2>1. /\ turns' = [turns EXCEPT ![rotateAt] = @ + 1]
        /\ rotator = "turning" /\ UNCHANGED <<now, nextTick, passed>>
    BY <1>4 DEF TurnNextShard
  <2>2. ASSUME NEW s \in DedupShard
        PROVE  Time(turns'[s]) = IF s > rotateAt THEN nextTick - BucketInterval ELSE nextTick
    <3>1. Time(turns[s]) = IF s >= rotateAt THEN nextTick - BucketInterval ELSE nextTick
      BY <2>1 DEF TInv, ClockOK
    <3>2. CASE s = rotateAt
      <4>1. turns'[s] = turns[s] + 1 /\ turns[s] \in Int
        BY <2>1, <3>2, <1>2
      <4>2. Time(turns'[s]) = Time(turns[s]) + BucketInterval
        BY <4>1, TimeFacts
      <4> QED
        BY <4>2, <3>1, <3>2, <1>2
    <3>3. CASE s # rotateAt
      <4>1. turns'[s] = turns[s]
        BY <2>1, <3>3, <1>2
      <4> QED
        BY <4>1, <3>1, <3>3, <1>2
    <3> QED
      BY <3>2, <3>3
  <2>3. ClockOK'
    BY <2>1, <2>2, <1>2, <1>4 DEF TurnNextShard, TInv, ClockOK
  <2>4. PassedInTime'
    BY <2>1 DEF TInv, PassedInTime
  <2> QED
    BY <2>3, <2>4
<1>5. ASSUME StartRotation PROVE ClockOK' /\ PassedInTime'
  <2>1. /\ rotator = "waiting" /\ rotator' = "turning" /\ rotateAt' = 0
        /\ nextTick' = nextTick + BucketInterval /\ UNCHANGED <<now, turns, passed>>
        /\ nextTick = now
    BY <1>5, <1>2 DEF StartRotation, TInv, ClockOK
  <2>2. \A s \in DedupShard : Time(turns'[s]) = now /\ s >= 0
    BY <2>1, <1>2 DEF TInv, ClockOK
  <2>3. ClockOK'
    BY <2>1, <2>2, <1>2 DEF ClockOK, DedupShard, Time
  <2>4. PassedInTime'
    BY <2>1 DEF TInv, PassedInTime
  <2> QED
    BY <2>3, <2>4
<1>6. ASSUME StopRotator PROVE ClockOK' /\ PassedInTime'
  BY <1>6, <1>2 DEF StopRotator, TInv, ClockOK, PassedInTime
<1>7. ASSUME Tick, now' # now => OnTime PROVE ClockOK' /\ PassedInTime'
  BY <1>7, <1>2 DEF Tick, rotatorVars, OnTime, TInv, ClockOK, PassedInTime
<1>8. ASSUME UNCHANGED vars PROVE ClockOK' /\ PassedInTime'
  BY <1>8 DEF vars, TInv, ClockOK, PassedInTime
<1> QED
  BY <1>1, <1>3, <1>4, <1>5, <1>6, <1>7, <1>8 DEF TimelyNext, Next, TInv

-----------------------------------------------------------------------------
(* The refinement.                                                         *)

\* What the window remembers, in terms of the turns.
Kept == {d \in DOMAIN passed : turns[WheelOf(d)] - passed[d].turn < n}

LEMMA SuppressedIsKept == IInv => Suppressed = Kept
<1> SUFFICES ASSUME IInv PROVE Suppressed = Kept
  OBVIOUS
<1>1. RemembersForOneRound
  BY Remembered
<1>2. DOMAIN passed \subseteq Digest
  BY DEF IInv, TypeOK
<1> QED
  BY <1>1, <1>2 DEF RemembersForOneRound, Suppressed, Kept, n

\* A frame that is let through is noted.
LEMMA NotesCheck ==
  ASSUME TInv, Suppressed = Kept, Suppressed' = Kept', Period > 0,
         NEW f \in Frame, Check(f), ~Seen(Hash[f])
  PROVE  Window!Note(Hash[f])
<1> DEFINE d == Hash[f]
           s == WheelOf(d)
<1>1. d \in Digest /\ s \in DedupShard
  BY WheelOfType DEF Digest
<1>2. n \in Nat /\ n > 0 /\ turns[s] \in Nat
  BY <1>1, NumBucketsType DEF TInv, IInv, TypeOK
<1>3. /\ passed' = [x \in DOMAIN passed \cup {d} |->
                      IF x = d THEN [at |-> now, turn |-> turns[s]] ELSE passed[x]]
      /\ UNCHANGED <<now, turns>>
  BY DEF Check, rotatorVars
<1>4. d \notin Suppressed
  BY DEF Suppressed
<1>5. Kept' = Kept \cup {d}
  <2>1. Kept' = {x \in DOMAIN passed' : turns[WheelOf(x)] - passed'[x].turn < n}
    BY <1>3 DEF Kept, n, NumBuckets, WheelOf
  <2>2. passed'[d].turn = turns[s] /\ turns[s] - turns[s] < n
    BY <1>2, <1>3
  <2>3. \A x \in DOMAIN passed : x # d => passed'[x] = passed[x]
    BY <1>3
  <2>4. DOMAIN passed' = DOMAIN passed \cup {d}
    BY <1>3
  <2> QED
    BY <2>1, <2>2, <2>3, <2>4 DEF Kept
<1>6. PassedAt' = [x \in DOMAIN PassedAt \cup {d} |-> IF x = d THEN now ELSE PassedAt[x]]
  <2>1. /\ DOMAIN passed' = DOMAIN passed \cup {d}
        /\ \A x \in DOMAIN passed \cup {d} :
             passed'[x].at = IF x = d THEN now ELSE passed[x].at
    BY <1>3
  <2>2. PassedAt' = [x \in DOMAIN passed \cup {d} |-> IF x = d THEN now ELSE passed[x].at]
    BY <2>1 DEF PassedAt
  <2> QED
    BY <2>2 DEF PassedAt
<1> QED
  BY <1>3, <1>4, <1>5, <1>6 DEF Window!Note

\* A turn of a shard forgets only what was let through at least n - 1 intervals ago.
LEMMA ForgetsTurn ==
  ASSUME TInv, Suppressed = Kept, Suppressed' = Kept', Period > 0, TurnNextShard
  PROVE  Window!Forget
<1>1. /\ turns' = [turns EXCEPT ![rotateAt] = @ + 1]
      /\ rotator = "turning" /\ UNCHANGED <<now, nextTick, passed>>
  BY DEF TurnNextShard
<1>2. /\ turns \in [DedupShard -> Nat] /\ rotateAt \in DedupShard
      /\ now \in Int /\ nextTick \in Int /\ BucketInterval \in Nat
      /\ n \in Nat /\ n > 0
      /\ \A d \in DOMAIN passed : /\ d \in Digest
                                  /\ passed[d].turn \in Nat /\ passed[d].at \in Nat
  BY NumBucketsType, DedupAssumption DEF DedupAssumption, TInv, IInv, TypeOK
<1>3. \A d \in DOMAIN passed : WheelOf(d) \in DedupShard
  BY <1>2, WheelOfType
<1>4. Kept' = {d \in DOMAIN passed : turns'[WheelOf(d)] - passed[d].turn < n}
  BY <1>1 DEF Kept, n, NumBuckets, WheelOf
<1>5. Kept' \subseteq Kept
  <2> SUFFICES ASSUME NEW d \in DOMAIN passed, turns'[WheelOf(d)] - passed[d].turn < n
               PROVE  turns[WheelOf(d)] - passed[d].turn < n
    BY <1>4 DEF Kept
  <2>1. turns'[WheelOf(d)] >= turns[WheelOf(d)] /\ turns'[WheelOf(d)] \in Int
    BY <1>1, <1>2, <1>3
  <2> QED
    BY <2>1, <1>2, <1>3
<1>6. ASSUME NEW d \in Kept \ Kept'
      PROVE  now - PassedAt[d] >= (n - 1) * BucketInterval
  <2> DEFINE t == turns[rotateAt]
             p == passed[d].turn
  <2>1. d \in DOMAIN passed /\ ~(turns'[WheelOf(d)] - p < n)
    BY <1>4, <1>6 DEF Kept
  <2>2. turns[WheelOf(d)] - p < n
    BY <1>6 DEF Kept
  <2>3. WheelOf(d) = rotateAt
    BY <2>1, <2>2, <1>1, <1>2, <1>3
  <2>4. p \in Int /\ t \in Int /\ n - 1 \in Int /\ p <= t - (n - 1)
    BY <2>1, <2>3, <1>1, <1>2
  <2>5. /\ Time(p) \in Int /\ Time(t) \in Int /\ Time(n - 1) \in Int
        /\ Time(p) <= Time(t) - Time(n - 1)
    BY <2>4, Apart
  <2>6. passed[d].at <= Time(p)
    BY <2>1 DEF TInv, PassedInTime
  <2>7. Time(t) = now
    BY <1>1, <1>2 DEF TInv, ClockOK, DedupShard
  <2>8. now - passed[d].at >= Time(n - 1)
    BY <2>1, <2>5, <2>6, <2>7, <1>2
  <2> QED
    BY <2>1, <2>8 DEF PassedAt, Time
<1>7. /\ Kept \ Kept' \in SUBSET Kept
      /\ Kept' = Kept \ (Kept \ Kept')
  BY <1>5
<1>8. UNCHANGED <<now, PassedAt>>
  BY <1>1 DEF PassedAt
<1>9. \E gone \in SUBSET Suppressed :
        /\ \A d \in gone : now - PassedAt[d] >= (NumBuckets - 1) * BucketInterval
        /\ Suppressed' = Suppressed \ gone
  BY <1>6, <1>7 DEF n
<1> QED
  BY <1>8, <1>9 DEF Window!Forget

\* The clock of a rotator that is on time waits for what would become too old.
LEMMA WaitsTick ==
  ASSUME TInv, Suppressed = Kept, Suppressed' = Kept', Period > 0, Tick, OnTime
  PROVE  Window!Tick
<1>1. /\ now' = now + 1 /\ UNCHANGED <<turns, passed>>
  BY DEF Tick, rotatorVars
<1>2. ASSUME NEW d \in Kept
      PROVE  now - PassedAt[d] < n * BucketInterval
  <2> DEFINE t == turns[WheelOf(d)]
             p == passed[d].turn
  <2>1. /\ d \in DOMAIN passed /\ d \in Digest /\ t - p < n
        /\ p \in Int /\ passed[d].at \in Int
    BY <1>2 DEF Kept, TInv, IInv, TypeOK
  <2>2. /\ t \in Int /\ n \in Int /\ now \in Int /\ WheelOf(d) \in DedupShard
    BY <2>1, WheelOfType, NumBucketsType DEF TInv, IInv, TypeOK
  <2>3. t - n \in Int /\ p - 1 \in Int /\ t - n <= p - 1
    BY <2>1, <2>2
  <2>4. Time(t) - Time(n) <= Time(p - 1)
    <3>1. Time(t - n) <= Time(p - 1)
      BY <2>3, TimeFacts
    <3>2. Time(t - n) = Time(t) - Time(n)
      BY <2>2, TimeFacts
    <3> QED
      BY <3>1, <3>2
  <2>5. Time(p - 1) <= passed[d].at
    BY <2>1 DEF TInv, PassedInTime
  <2>6. now < Time(t)
    <3>1. Time(t) = nextTick
      BY <2>2 DEF TInv, ClockOK, OnTime
    <3> QED
      BY <3>1 DEF OnTime
  <2>7. Time(p - 1) \in Int /\ Time(t) \in Int /\ Time(n) \in Int
    BY <2>2, <2>3, TimeFacts
  <2>8. now - passed[d].at < Time(n)
    BY <2>1, <2>2, <2>4, <2>5, <2>6, <2>7
  <2> QED
    BY <2>1, <2>8 DEF PassedAt, Time
<1>3. UNCHANGED <<Kept, PassedAt>>
  BY <1>1 DEF Kept, PassedAt, n, NumBuckets, WheelOf
<1> QED
  BY <1>1, <1>2, <1>3 DEF Window!Tick, n

\* Every step of a wheel whose rotator is on time is one of the window, or none.
LEMMA WindowStep ==
  ASSUME TInv, Suppressed = Kept, Suppressed' = Kept', Period > 0, [TimelyNext]_vars
  PROVE  [Window!Next]_(Window!vars)
<1>1. ASSUME NEW f \in Frame, Check(f), Seen(Hash[f])
      PROVE  UNCHANGED <<now, Suppressed, PassedAt>>
  BY <1>1 DEF Check, rotatorVars, Suppressed, PassedAt, Seen
<1>2. ASSUME NEW f \in Frame, Check(f), ~Seen(Hash[f]) PROVE Window!Next
  <2>1. Hash[f] \in Digest
    BY DEF Digest
  <2> QED
    BY <1>2, <2>1, NotesCheck DEF Window!Next
<1>3. ASSUME TurnNextShard PROVE Window!Next
  BY <1>3, ForgetsTurn DEF Window!Next
<1>4. ASSUME StartRotation \/ StopRotator
      PROVE  UNCHANGED <<now, Suppressed, PassedAt>>
  BY <1>4 DEF StartRotation, StopRotator, Suppressed, PassedAt, Seen
<1>5. ASSUME Tick, now' # now => OnTime PROVE Window!Next
  <2>1. now \in Nat /\ now' = now + 1
    BY <1>5 DEF Tick, TInv, IInv, TypeOK
  <2>2. OnTime
    BY <1>5, <2>1
  <2> QED
    BY <1>5, <2>2, WaitsTick DEF Window!Next
<1>6. ASSUME UNCHANGED vars PROVE UNCHANGED <<now, Suppressed, PassedAt>>
  BY <1>6 DEF vars, Suppressed, PassedAt, Seen
<1> QED
  BY <1>1, <1>2, <1>3, <1>4, <1>5, <1>6 DEF TimelyNext, Next, Window!vars

\* With a rotator on time, what a frame's digest meets is a window of NumBuckets - 1
\* to NumBuckets intervals (Dedup::new, check_and_insert_with_hash, rotate_bucket).
THEOREM WheelIsWindow == ASSUME Period > 0 PROVE TimelySpec => ImplementsWindow
<1>1. Init => Window!Init
  BY WheelOfType DEF Init, Window!Init, Suppressed, PassedAt, Seen
<1>2. TInv /\ Suppressed = Kept /\ (Suppressed = Kept)' /\ [TimelyNext]_vars
        => [Window!Next]_(Window!vars)
  BY WindowStep
<1>3. Init => TInv
  BY InitTInv
<1>4. TInv /\ [TimelyNext]_vars => TInv'
  BY NextTInv
<1>5. TInv => Suppressed = Kept
  BY SuppressedIsKept DEF TInv
<1> QED
  BY <1>1, <1>2, <1>3, <1>4, <1>5, PTL
  DEF TimelySpec, TimelyNext, ImplementsWindow, Window!Spec
=============================================================================
