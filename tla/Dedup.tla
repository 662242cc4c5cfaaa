------------------------------- MODULE Dedup --------------------------------
(***************************************************************************)
(* The sharded time wheel that suppresses duplicate frames (src/dedup.rs)  *)
(* and the task that turns it (orchestration.rs).  Every shard is a ring   *)
(* of buckets of digests.  Endpoints check and insert under the lock of    *)
(* one shard; the rotator visits the shards one after the other, so that   *)
(* checks fall between the turns of two shards.                            *)
(***************************************************************************)
EXTENDS Integers

CONSTANTS
  Frame,           \* raw frames, as bytes on the wire
  Hash,            \* ahash_hash: [Frame -> Nat]; frames may collide
  DedupShards,     \* NUM_SHARDS
  Period,          \* dedup_period
  BucketInterval,  \* bucket_interval (100 ms)
  MaxTime          \* bound: the clock stops here

ASSUME DedupAssumption ==
  /\ Hash \in [Frame -> Nat]
  /\ DedupShards \in Nat \ {0}
  /\ Period \in Nat /\ BucketInterval \in Nat \ {0}
  /\ MaxTime \in Nat

VARIABLES
  now,       \* the monotonic clock
  wheels,    \* shards: the ring and the current bucket of each
  rotator,   \* where the rotator task is
  rotateAt,  \* the next shard to turn, while turning
  nextTick,  \* when the rotator's interval fires next
  turns,     \* history: how often each shard has been turned
  passed     \* history: when, and at which turn, a digest was last let through

vars == <<now, wheels, rotator, rotateAt, nextTick, turns, passed>>

rotatorVars == <<rotator, rotateAt, nextTick, turns>>

-----------------------------------------------------------------------------

DedupShard == 0 .. (DedupShards - 1)

\* A period shorter than two intervals still takes two buckets; a period of
\* zero disables deduplication.
NumBuckets ==
  IF Period = 0 THEN 0
  ELSE IF Period \div BucketInterval < 2 THEN 2 ELSE Period \div BucketInterval

Bucket == 0 .. (NumBuckets - 1)

Digest == {Hash[f] : f \in Frame}

\* The low bits of the hash, with NUM_SHARDS a power of two.
WheelOf(d) == d % DedupShards

\* Mutant of Seen: only the current bucket is searched.
SeenNow(d) == d \in wheels[WheelOf(d)].buckets[wheels[WheelOf(d)].current]
Seen(d) == \E b \in Bucket : d \in wheels[WheelOf(d)].buckets[b]

Inserted(wheel, d) ==
  IF NumBuckets = 0 THEN wheel
  ELSE [wheel EXCEPT !.buckets[wheel.current] = @ \cup {d}]

\* Mutants of Rotated: the ring is not closed; the old bucket is not cleared;
\* the bucket left behind is cleared.
RotatedPastEnd(wheel) ==
  [wheel EXCEPT !.current = @ + 1,
     !.buckets = [b \in Bucket |-> IF b = wheel.current + 1 THEN {} ELSE @[b]]]
RotatedUncleared(wheel) == [wheel EXCEPT !.current = (@ + 1) % NumBuckets]
RotatedClearingLast(wheel) ==
  [wheel EXCEPT !.current = (@ + 1) % NumBuckets, !.buckets[wheel.current] = {}]

\* Dedup::rotate_bucket
Rotated(wheel) ==
  LET next == (wheel.current + 1) % NumBuckets
  IN [wheel EXCEPT !.current = next, !.buckets[next] = {}]

-----------------------------------------------------------------------------

Init ==
  /\ now = 0
  /\ wheels = [s \in DedupShard |-> [buckets |-> [b \in Bucket |-> {}], current |-> 0]]
  /\ rotator = IF Period = 0 THEN "absent" ELSE "waiting"
  /\ rotateAt = 0
  /\ nextTick = 0                     \* the first tick is immediate
  /\ turns = [s \in DedupShard |-> 0]
  /\ passed = [d \in {} |-> 0]

\* check_and_insert, by any endpoint.  A duplicate is not inserted again, nor
\* is its bucket changed.
Check(f) ==
  LET d == Hash[f]
      s == WheelOf(d)
  IN /\ IF Seen(d)
          THEN UNCHANGED <<wheels, passed>>
          ELSE /\ wheels' = [wheels EXCEPT ![s] = Inserted(@, d)]
               /\ passed' = [x \in DOMAIN passed \cup {d} |->
                               IF x = d THEN [at |-> now, turn |-> turns[s]]
                               ELSE passed[x]]
     /\ UNCHANGED <<now, rotatorVars>>

\* The interval keeps its schedule; late ticks are caught up one by one.
StartRotation ==
  /\ rotator = "waiting" /\ nextTick <= now
  /\ rotator' = "turning" /\ rotateAt' = 0
  /\ nextTick' = nextTick + BucketInterval
  /\ UNCHANGED <<now, wheels, turns, passed>>

\* Mutant of TurnNextShard: the loop ends after the first shard.
TurnFirstShard ==
  /\ rotator = "turning"
  /\ wheels' = [wheels EXCEPT ![rotateAt] = Rotated(@)]
  /\ turns' = [turns EXCEPT ![rotateAt] = @ + 1]
  /\ rotator' = "waiting" /\ rotateAt' = 0
  /\ UNCHANGED <<now, nextTick, passed>>

TurnNextShard ==
  /\ rotator = "turning"
  /\ wheels' = [wheels EXCEPT ![rotateAt] = Rotated(@)]
  /\ turns' = [turns EXCEPT ![rotateAt] = @ + 1]
  /\ IF rotateAt = DedupShards - 1
       THEN rotator' = "waiting" /\ rotateAt' = 0
       ELSE UNCHANGED rotator /\ rotateAt' = rotateAt + 1
  /\ UNCHANGED <<now, nextTick, passed>>

\* The rotator sees its token cancelled; the endpoints may still run for a while.
StopRotator ==
  /\ rotator = "waiting"
  /\ rotator' = "stopped"
  /\ UNCHANGED <<now, wheels, rotateAt, nextTick, turns, passed>>

Tick ==
  /\ now < MaxTime
  /\ now' = now + 1
  /\ UNCHANGED <<wheels, rotatorVars, passed>>

Next ==
  \/ \E f \in Frame : Check(f)
  \/ StartRotation \/ TurnNextShard \/ StopRotator
  \/ Tick

Spec == Init /\ [][Next]_vars

-----------------------------------------------------------------------------
(* Correctness, whatever the schedule.                                     *)

\* The wheels are rings of NumBuckets sets of digests, each digest in the shard
\* its low bits select, and the current bucket is one of them.
TypeOK ==
  /\ now \in Nat
  /\ wheels \in [DedupShard -> [buckets : [Bucket -> SUBSET Digest], current : Nat]]
  /\ \A s \in DedupShard :
       /\ \A b \in Bucket : \A d \in wheels[s].buckets[b] : WheelOf(d) = s
       /\ NumBuckets > 0 => wheels[s].current \in Bucket
  /\ rotator \in {"absent", "waiting", "turning", "stopped"}
  /\ (rotator = "absent") <=> (NumBuckets = 0)
  /\ rotateAt \in DedupShard
  /\ nextTick \in Nat
  /\ turns \in [DedupShard -> Nat]
  /\ DOMAIN passed \subseteq Digest
  /\ passed \in [DOMAIN passed -> [at : Nat, turn : Nat]]

\* The wheel remembers exactly: a digest that was let through is suppressed
\* until its own shard has been turned NumBuckets times since, and from then on
\* it is not, however checks and turns of the shards interleave and however
\* often duplicates of it arrive.  (rotate_bucket clears the bucket it enters;
\* check_and_insert_with_hash does not insert a duplicate.)
RemembersForOneRound ==
  \A d \in Digest :
    Seen(d) <=> d \in DOMAIN passed
                  /\ turns[WheelOf(d)] - passed[d].turn < NumBuckets

\* No digest is in two buckets of its ring: clearing one bucket forgets it.
InOneBucket ==
  \A s \in DedupShard : \A b, c \in Bucket :
    b # c => wheels[s].buckets[b] \cap wheels[s].buckets[c] = {}

-----------------------------------------------------------------------------
(* Correctness when the rotator runs on time.                              *)

OnTime == rotator = "waiting" /\ now < nextTick

TimelySpec == Init /\ [][Next /\ (now' # now => OnTime)]_vars

Suppressed == {d \in Digest : Seen(d)}
PassedAt == [d \in DOMAIN passed |-> passed[d].at]

\* The time wheel implements a window: a frame let through is suppressed for at
\* least NumBuckets - 1 intervals and at most NumBuckets, on every shard.
Window == INSTANCE Retention WITH
  Item <- Digest,
  Renewable <- FALSE,
  remembered <- Suppressed,
  since <- PassedAt,
  MinWindow <- (NumBuckets - 1) * BucketInterval,
  MaxWindow <- NumBuckets * BucketInterval

ImplementsWindow == Window!Spec
=============================================================================
