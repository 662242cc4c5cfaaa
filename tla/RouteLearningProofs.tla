------------------------ MODULE RouteLearningProofs -------------------------
(***************************************************************************)
(* What the routing table holds and forgets, whatever the tasks do, for    *)
(* every value of the constants: first the operations on one shard, which  *)
(* the table runs under one lock, then the tasks that use them.            *)
(***************************************************************************)
EXTENDS RouteLearning, FiniteSetTheorems, SequenceTheorems, TLAPS

-----------------------------------------------------------------------------
(* The operations keep a shard a shard.                                    *)

RouteKeys == SysId \X CompId

\* The maps of w are those of sh without the keys in gone and goneSys.
Retains(w, sh, gone, goneSys) ==
  /\ w.routes = Restrict(sh.routes, DOMAIN sh.routes \ gone)
  /\ w.sys_routes = Restrict(sh.sys_routes, DOMAIN sh.sys_routes \ goneSys)

\* There are finitely many keys: ids are bytes.
LEMMA FiniteKeys ==
  IsFiniteSet(SysId) /\ IsFiniteSet(CompId) /\ IsFiniteSet(RouteKeys)
<1>1. SysId \in SUBSET Nat /\ \A s \in SysId : s <= 255
  BY TableAssumption DEF TableAssumption
<1>2. CompId \in SUBSET Nat /\ \A c \in CompId : c <= 255
  BY TableAssumption DEF TableAssumption
<1>3. IsFiniteSet(SysId) /\ IsFiniteSet(CompId)
  BY <1>1, <1>2, 255 \in Nat, FS_BoundedSetOfNaturals
<1> QED
  BY <1>3, FS_Product DEF RouteKeys

\* The id that selects a shard selects an existing one.
LEMMA ShardOfIndex == \A sys \in SysId : ShardOf(sys) \in ShardIndex
  BY TableAssumption DEF TableAssumption, ShardOf, ShardIndex

\* How often an endpoint occurs under finitely many keys is a number.
LEMMA OccurrencesType ==
  ASSUME NEW map, NEW Keys, IsFiniteSet(Keys), NEW ep
  PROVE  Occurrences(map, Keys, ep) \in Nat
<1>1. {k \in Keys : Knows(map, k, ep)} \in SUBSET Keys
  OBVIOUS
<1> QED
  BY <1>1, FS_Subset, FS_CardinalityType DEF Occurrences

\* Restricting a map leaves a map.
LEMMA RestrictMap ==
  ASSUME NEW f, NEW Keys, NEW Values, IsMap(f, Keys, Values),
         NEW S, S \subseteq DOMAIN f
  PROVE  /\ IsMap(Restrict(f, S), Keys, Values)
         /\ DOMAIN Restrict(f, S) = S
         /\ \A k \in S : Restrict(f, S)[k] = f[k]
  BY DEF IsMap, Restrict

\* Forgetting entries keeps a shard a shard, and what is left is unchanged.
LEMMA WithoutShard ==
  ASSUME NEW i \in ShardIndex, NEW sh, IsShard(sh, i),
         NEW gone \in SUBSET RouteKeys, NEW goneSys \in SUBSET SysId
  PROVE  /\ IsShard(Without(sh, gone, goneSys), i)
         /\ Retains(Without(sh, gone, goneSys), sh, gone, goneSys)
<1> DEFINE lost(ep) == Occurrences(sh.routes, gone, ep)
                         + Occurrences(sh.sys_routes, goneSys, ep)
           left(ep) == SaturatingSub(sh.endpoint_counts[ep], lost(ep))
           kept == {e \in DOMAIN sh.endpoint_counts : lost(e) = 0 \/ left(e) > 0}
           counts == [ep \in kept |-> left(ep)]
<1>1. IsFiniteSet(gone) /\ IsFiniteSet(goneSys)
  BY FiniteKeys, FS_Subset
<1>2. ASSUME NEW ep \in DOMAIN sh.endpoint_counts
      PROVE  left(ep) \in Nat
  <2>1. lost(ep) \in Nat
    BY <1>1, OccurrencesType
  <2>2. sh.endpoint_counts[ep] \in Nat
    BY DEF IsShard, IsMap
  <2> HIDE DEF lost
  <2> QED
    BY <2>1, <2>2 DEF SaturatingSub
<1>3. IsMap(counts, EndpointId, Nat)
  <2>1. kept \subseteq EndpointId
    BY DEF IsShard, IsMap
  <2>2. \A ep \in kept : left(ep) \in Nat
    BY <1>2
  <2> HIDE DEF left, kept
  <2> QED
    BY <2>1, <2>2 DEF IsMap
<1>4. Without(sh, gone, goneSys) =
          [routes |-> Restrict(sh.routes, DOMAIN sh.routes \ gone),
           sys_routes |-> Restrict(sh.sys_routes, DOMAIN sh.sys_routes \ goneSys),
           endpoint_counts |-> counts]
  BY DEF Without
<1>5. /\ IsMap(Restrict(sh.routes, DOMAIN sh.routes \ gone),
               SystemsOf(i) \X CompId, RouteEntry)
      /\ IsMap(Restrict(sh.sys_routes, DOMAIN sh.sys_routes \ goneSys),
               SystemsOf(i), RouteEntry)
  BY RestrictMap DEF IsShard
<1> HIDE DEF counts
<1> QED
  BY <1>3, <1>4, <1>5 DEF IsShard, Retains

\* Pruning forgets exactly what has expired.
LEMMA PruneShard ==
  ASSUME NEW i \in ShardIndex, NEW sh, IsShard(sh, i), NEW t, NEW age
  PROVE  /\ IsShard(ShardPrune(sh, t, age), i)
         /\ Retains(ShardPrune(sh, t, age), sh,
                    Expired(sh.routes, t, age), Expired(sh.sys_routes, t, age))
<1>1. /\ Expired(sh.routes, t, age) \in SUBSET RouteKeys
      /\ Expired(sh.sys_routes, t, age) \in SUBSET SysId
  BY DEF Expired, IsShard, IsMap, SystemsOf, RouteKeys
<1> QED
  BY <1>1, WithoutShard DEF ShardPrune

\* Evicting a system forgets its entry and those of its components.
LEMMA RemoveSystemShard ==
  ASSUME NEW i \in ShardIndex, NEW sh, IsShard(sh, i),
         NEW sys \in DOMAIN sh.sys_routes
  PROVE  /\ IsShard(RemoveSystem(sh, sys), i)
         /\ Retains(RemoveSystem(sh, sys), sh,
                    {k \in DOMAIN sh.routes : k[1] = sys}, {sys})
<1>1. /\ {k \in DOMAIN sh.routes : k[1] = sys} \in SUBSET RouteKeys
      /\ {sys} \in SUBSET SysId
  BY DEF IsShard, IsMap, SystemsOf, RouteKeys
<1> QED
  BY <1>1, WithoutShard DEF RemoveSystem

\* Touching a key leaves a map with that key fresh and every other unchanged.
LEMMA TouchMap ==
  ASSUME NEW map, NEW Keys, IsMap(map, Keys, RouteEntry),
         NEW key \in Keys, NEW ep \in EndpointId, NEW t \in Nat
  PROVE  LET m == Touch(map, key, ep, t)
         IN /\ IsMap(m, Keys, RouteEntry)
            /\ DOMAIN m = DOMAIN map \cup {key}
            /\ m[key].last_seen = t
            /\ ep \in m[key].endpoints
            /\ key \in DOMAIN map => m[key].endpoints = map[key].endpoints \cup {ep}
            /\ key \notin DOMAIN map => m[key].endpoints = {ep}
            /\ \A k \in DOMAIN map \ {key} : m[k] = map[k]
  BY DEF Touch, IsMap, RouteEntry, Instant

\* Counting keeps the counts a map to numbers.
LEMMA CountIfNewMap ==
  ASSUME NEW counts, IsMap(counts, EndpointId, Nat),
         NEW map, NEW key, NEW ep \in EndpointId
  PROVE  IsMap(CountIfNew(counts, map, key, ep), EndpointId, Nat)
<1>1. \A e \in DOMAIN counts \cup {ep} :
        CountOf(counts, e) + (IF e = ep THEN 1 ELSE 0) \in Nat
  BY DEF IsMap, CountOf
<1>2. IsMap(CountUp(counts, ep), EndpointId, Nat)
  BY <1>1 DEF IsMap, CountUp
<1> QED
  BY <1>2 DEF CountIfNew

\* Learning an update of the shard's own systems leaves a shard.
LEMMA LearnShard ==
  ASSUME NEW i \in ShardIndex, NEW sh, IsShard(sh, i),
         NEW u \in RouteUpdate, ShardOf(u.sys_id) = i
  PROVE  LET n == Learn(sh, u)
         IN /\ IsShard(n, i)
            /\ n.routes = Touch(sh.routes, <<u.sys_id, u.comp_id>>, u.endpoint_id, u.now)
            /\ n.sys_routes = Touch(sh.sys_routes, u.sys_id, u.endpoint_id, u.now)
<1> DEFINE key == <<u.sys_id, u.comp_id>>
           counts == CountIfNew(sh.endpoint_counts, sh.routes, key, u.endpoint_id)
           all == CountIfNew(counts, sh.sys_routes, u.sys_id, u.endpoint_id)
<1>1. /\ u.endpoint_id \in EndpointId /\ u.now \in Nat
      /\ u.sys_id \in SystemsOf(i) /\ key \in SystemsOf(i) \X CompId
  BY DEF RouteUpdate, SystemsOf, Instant
<1>2. IsMap(all, EndpointId, Nat)
  <2> HIDE DEF key
  <2>1. IsMap(counts, EndpointId, Nat)
    BY <1>1, CountIfNewMap DEF IsShard
  <2> HIDE DEF counts
  <2> QED
    BY <1>1, <2>1, CountIfNewMap
<1>3. IsMap(Touch(sh.routes, key, u.endpoint_id, u.now), SystemsOf(i) \X CompId, RouteEntry)
  <2> HIDE DEF key
  <2> QED
    BY <1>1, TouchMap DEF IsShard
<1>4. IsMap(Touch(sh.sys_routes, u.sys_id, u.endpoint_id, u.now), SystemsOf(i), RouteEntry)
  BY <1>1, TouchMap DEF IsShard
<1>5. Learn(sh, u) =
        [routes |-> Touch(sh.routes, key, u.endpoint_id, u.now),
         sys_routes |-> Touch(sh.sys_routes, u.sys_id, u.endpoint_id, u.now),
         endpoint_counts |-> all]
  BY DEF Learn
<1> HIDE DEF key, all
<1>6. IsShard(Learn(sh, u), i)
  BY <1>2, <1>3, <1>4, <1>5 DEF IsShard
<1> QED
  BY <1>5, <1>6 DEF key

-----------------------------------------------------------------------------
(* The two maps stay backed and coupled.                                   *)

\* An entry that has not expired keeps its backing: the two have one time.
LEMMA PruneBacked ==
  ASSUME NEW i \in ShardIndex, NEW sh, IsShard(sh, i), Backed(sh),
         NEW t, NEW age
  PROVE  Backed(ShardPrune(sh, t, age))
<1> DEFINE p == ShardPrune(sh, t, age)
<1>1. Retains(p, sh, Expired(sh.routes, t, age), Expired(sh.sys_routes, t, age))
  BY PruneShard
<1>2. /\ p.routes = Restrict(sh.routes, DOMAIN sh.routes \ Expired(sh.routes, t, age))
      /\ p.sys_routes = Restrict(sh.sys_routes,
                           DOMAIN sh.sys_routes \ Expired(sh.sys_routes, t, age))
  BY <1>1 DEF Retains
<1> HIDE DEF p
<1>3. Backed(p)
  BY <1>2 DEF Backed, Restrict, Expired
<1> QED
  BY <1>3 DEF p

\* A component entry that has not expired keeps its system: it is no younger.
LEMMA PruneCoupled ==
  ASSUME NEW i \in ShardIndex, NEW sh, IsShard(sh, i), NEW late,
         Coupled(sh, late), NEW t \in Nat, NEW age \in Nat
  PROVE  Coupled(ShardPrune(sh, t, age), late)
<1> DEFINE p == ShardPrune(sh, t, age)
<1>1. Retains(p, sh, Expired(sh.routes, t, age), Expired(sh.sys_routes, t, age))
  BY PruneShard
<1>2. /\ p.routes = Restrict(sh.routes, DOMAIN sh.routes \ Expired(sh.routes, t, age))
      /\ p.sys_routes = Restrict(sh.sys_routes,
                           DOMAIN sh.sys_routes \ Expired(sh.sys_routes, t, age))
  BY <1>1 DEF Retains
<1> HIDE DEF p
<1>3. SUFFICES ASSUME NEW k \in DOMAIN p.routes, k[1] \notin late
               PROVE  /\ k[1] \in DOMAIN p.sys_routes
                      /\ p.routes[k].endpoints \subseteq p.sys_routes[k[1]].endpoints
                      /\ p.routes[k].last_seen <= p.sys_routes[k[1]].last_seen
  BY DEF Coupled, p
<1>4. k \in DOMAIN sh.routes /\ p.routes[k] = sh.routes[k]
      /\ ~(Elapsed(t, sh.routes[k].last_seen) > age)
  BY <1>2, <1>3 DEF Restrict, Expired
<1>5. /\ k[1] \in DOMAIN sh.sys_routes
      /\ sh.routes[k].endpoints \subseteq sh.sys_routes[k[1]].endpoints
      /\ sh.routes[k].last_seen <= sh.sys_routes[k[1]].last_seen
  BY <1>3, <1>4 DEF Coupled
<1>6. sh.routes[k].last_seen \in Nat /\ sh.sys_routes[k[1]].last_seen \in Nat
  BY <1>4, <1>5 DEF IsShard, IsMap, RouteEntry, Instant
<1>7. ~(Elapsed(t, sh.sys_routes[k[1]].last_seen) > age)
  BY <1>4, <1>5, <1>6 DEF Elapsed
<1>8. k[1] \in DOMAIN p.sys_routes /\ p.sys_routes[k[1]] = sh.sys_routes[k[1]]
  BY <1>2, <1>5, <1>7 DEF Restrict, Expired
<1> QED
  BY <1>4, <1>5, <1>8

\* Evicting a system with all its components leaves the others as they were.
LEMMA RemoveSystemKeeps ==
  ASSUME NEW i \in ShardIndex, NEW sh, IsShard(sh, i), NEW late,
         Backed(sh), Coupled(sh, late), NEW sys \in DOMAIN sh.sys_routes
  PROVE  Backed(RemoveSystem(sh, sys)) /\ Coupled(RemoveSystem(sh, sys), late)
<1> DEFINE r == RemoveSystem(sh, sys)
<1>1. Retains(r, sh, {k \in DOMAIN sh.routes : k[1] = sys}, {sys})
  BY RemoveSystemShard
<1>2. /\ DOMAIN r.routes = {k \in DOMAIN sh.routes : k[1] # sys}
      /\ \A k \in DOMAIN r.routes : r.routes[k] = sh.routes[k]
      /\ DOMAIN r.sys_routes = DOMAIN sh.sys_routes \ {sys}
      /\ \A s \in DOMAIN r.sys_routes : r.sys_routes[s] = sh.sys_routes[s]
  BY <1>1 DEF Retains, Restrict
<1> HIDE DEF r
<1>3. Backed(r)
  <2> SUFFICES ASSUME NEW s \in DOMAIN r.sys_routes
               PROVE  \E c \in CompId :
                        /\ <<s, c>> \in DOMAIN r.routes
                        /\ r.routes[<<s, c>>].last_seen = r.sys_routes[s].last_seen
    BY DEF Backed
  <2>1. PICK c \in CompId :
          /\ <<s, c>> \in DOMAIN sh.routes
          /\ sh.routes[<<s, c>>].last_seen = sh.sys_routes[s].last_seen
    BY <1>2 DEF Backed
  <2>2. <<s, c>> \in DOMAIN r.routes
    BY <1>2, <2>1
  <2> QED
    BY <1>2, <2>1, <2>2
<1>4. Coupled(r, late)
  BY <1>2 DEF Coupled
<1> QED
  BY <1>3, <1>4 DEF r

\* Making room keeps a shard in order, and leaves no system entry newer.
LEMMA MakeRoomKeeps ==
  ASSUME NEW i \in ShardIndex, NEW sh, IsShard(sh, i), NEW late,
         Backed(sh), Coupled(sh, late), NEW t \in Nat,
         NEW r \in MakeRoom(sh, t)
  PROVE  /\ IsShard(r, i) /\ Backed(r) /\ Coupled(r, late)
         /\ \A u : OutOfOrder(r, u) => OutOfOrder(sh, u)
<1> DEFINE pruned == IF AtRouteCapacity(sh)
                       THEN ShardPrune(sh, t, CapacityPruneAge) ELSE sh
           Earlier(a, b) == \A s \in DOMAIN a.sys_routes :
                              /\ s \in DOMAIN b.sys_routes
                              /\ a.sys_routes[s] = b.sys_routes[s]
<1>1. CapacityPruneAge \in Nat
  BY TableAssumption DEF TableAssumption
<1>2. IsShard(pruned, i) /\ Backed(pruned) /\ Coupled(pruned, late)
  BY <1>1, PruneShard, PruneBacked, PruneCoupled
<1>3. Earlier(pruned, sh)
  <2>1. CASE AtRouteCapacity(sh)
    <3>1. pruned = ShardPrune(sh, t, CapacityPruneAge)
      BY <2>1
    <3> HIDE DEF pruned, Earlier
    <3>2. Retains(pruned, sh, Expired(sh.routes, t, CapacityPruneAge),
                  Expired(sh.sys_routes, t, CapacityPruneAge))
      BY <3>1, PruneShard
    <3>3. pruned.sys_routes = Restrict(sh.sys_routes,
            DOMAIN sh.sys_routes \ Expired(sh.sys_routes, t, CapacityPruneAge))
      BY <3>2 DEF Retains
    <3> QED
      BY <3>3 DEF Restrict, Earlier
  <2>2. CASE ~AtRouteCapacity(sh)
    BY <2>2
  <2> QED
    BY <2>1, <2>2
<1>4. \/ r = pruned
      \/ \E s \in DOMAIN pruned.sys_routes : r = RemoveSystem(pruned, s)
  BY DEF MakeRoom, OldestSystems
<1> HIDE DEF pruned
<1>5. IsShard(r, i) /\ Backed(r) /\ Coupled(r, late)
  BY <1>2, <1>4, RemoveSystemShard, RemoveSystemKeeps
<1>6. Earlier(r, pruned)
  <2>1. ASSUME NEW s \in DOMAIN pruned.sys_routes, r = RemoveSystem(pruned, s)
        PROVE  Earlier(r, pruned)
    <3>1. r.sys_routes = Restrict(pruned.sys_routes, DOMAIN pruned.sys_routes \ {s})
      BY <1>2, <2>1, RemoveSystemShard DEF Retains
    <3> QED
      BY <3>1 DEF Restrict
  <2> QED
    BY <1>4, <2>1
<1>7. Earlier(r, sh)
  BY <1>3, <1>6
<1>8. \A u : OutOfOrder(r, u) => OutOfOrder(sh, u)
  BY <1>7 DEF OutOfOrder
<1> QED
  BY <1>5, <1>8

\* Learning backs the system it touches with the component it touches.
LEMMA LearnBacked ==
  ASSUME NEW i \in ShardIndex, NEW sh, IsShard(sh, i), Backed(sh),
         NEW u \in RouteUpdate, ShardOf(u.sys_id) = i
  PROVE  Backed(Learn(sh, u))
<1> DEFINE n == Learn(sh, u)
           key == <<u.sys_id, u.comp_id>>
<1>1. /\ n.routes = Touch(sh.routes, key, u.endpoint_id, u.now)
      /\ n.sys_routes = Touch(sh.sys_routes, u.sys_id, u.endpoint_id, u.now)
  BY LearnShard
<1> HIDE DEF n
<1> SUFFICES ASSUME NEW s \in DOMAIN n.sys_routes
             PROVE  \E c \in CompId :
                      /\ <<s, c>> \in DOMAIN n.routes
                      /\ n.routes[<<s, c>>].last_seen = n.sys_routes[s].last_seen
  BY DEF Backed, n
<1>2. CASE s = u.sys_id
  BY <1>1, <1>2 DEF Touch, RouteUpdate
<1>3. CASE s # u.sys_id
  <2>1. s \in DOMAIN sh.sys_routes /\ n.sys_routes[s] = sh.sys_routes[s]
    BY <1>1, <1>3 DEF Touch
  <2>2. PICK c \in CompId :
          /\ <<s, c>> \in DOMAIN sh.routes
          /\ sh.routes[<<s, c>>].last_seen = sh.sys_routes[s].last_seen
    BY <2>1 DEF Backed
  <2>3. <<s, c>> \in DOMAIN n.routes /\ n.routes[<<s, c>>] = sh.routes[<<s, c>>]
    BY <1>1, <1>3, <2>2 DEF Touch
  <2> QED
    BY <2>1, <2>2, <2>3
<1> QED
  BY <1>2, <1>3

\* Learning in time order keeps every component covered by its system; learning
\* out of order may only spoil the system it is about.
LEMMA LearnCoupled ==
  ASSUME NEW i \in ShardIndex, NEW sh, IsShard(sh, i), NEW late,
         Coupled(sh, late), NEW u \in RouteUpdate, ShardOf(u.sys_id) = i,
         NEW late2, late \subseteq late2,
         OutOfOrder(sh, u) => u.sys_id \in late2
  PROVE  Coupled(Learn(sh, u), late2)
<1> DEFINE n == Learn(sh, u)
           key == <<u.sys_id, u.comp_id>>
           sys == u.sys_id
<1>1. /\ n.routes = Touch(sh.routes, key, u.endpoint_id, u.now)
      /\ n.sys_routes = Touch(sh.sys_routes, sys, u.endpoint_id, u.now)
  BY LearnShard
<1>2. u.now \in Nat /\ key \in RouteKeys /\ key[1] = sys
  BY DEF RouteUpdate, Instant, RouteKeys
<1> HIDE DEF n
<1> SUFFICES ASSUME NEW k \in DOMAIN n.routes, k[1] \notin late2
             PROVE  /\ k[1] \in DOMAIN n.sys_routes
                    /\ n.routes[k].endpoints \subseteq n.sys_routes[k[1]].endpoints
                    /\ n.routes[k].last_seen <= n.sys_routes[k[1]].last_seen
  BY DEF Coupled, n
<1>3. k \in DOMAIN sh.routes =>
        /\ k[1] \in DOMAIN sh.sys_routes
        /\ sh.routes[k].endpoints \subseteq sh.sys_routes[k[1]].endpoints
        /\ sh.routes[k].last_seen <= sh.sys_routes[k[1]].last_seen
        /\ sh.routes[k].last_seen \in Nat
        /\ sh.sys_routes[k[1]].last_seen \in Nat
  BY DEF Coupled, IsShard, IsMap, RouteEntry, Instant
<1>4. CASE k[1] # sys
  <2>1. k # key /\ k \in DOMAIN sh.routes /\ n.routes[k] = sh.routes[k]
    BY <1>1, <1>2, <1>4 DEF Touch
  <2>2. k[1] \in DOMAIN n.sys_routes /\ n.sys_routes[k[1]] = sh.sys_routes[k[1]]
    BY <1>1, <1>3, <1>4, <2>1 DEF Touch
  <2> QED
    BY <1>3, <2>1, <2>2
<1>5. CASE k[1] = sys
  <2>1. /\ sys \in DOMAIN n.sys_routes
        /\ n.sys_routes[sys].last_seen = u.now
        /\ u.endpoint_id \in n.sys_routes[sys].endpoints
        /\ sys \in DOMAIN sh.sys_routes =>
             sh.sys_routes[sys].endpoints \subseteq n.sys_routes[sys].endpoints
    BY <1>1 DEF Touch
  <2>2. ~OutOfOrder(sh, u)
    BY <1>5
  <2>3. CASE k = key
    <3>1. /\ n.routes[k].last_seen = u.now
          /\ n.routes[k].endpoints = {u.endpoint_id} \cup
               (IF key \in DOMAIN sh.routes THEN sh.routes[key].endpoints ELSE {})
      BY <1>1, <2>3 DEF Touch
    <3> QED
      BY <1>2, <1>3, <1>5, <2>1, <2>3, <3>1
  <2>4. CASE k # key
    <3>1. k \in DOMAIN sh.routes /\ n.routes[k] = sh.routes[k]
      BY <1>1, <2>4 DEF Touch
    <3>2. sh.sys_routes[sys].last_seen <= u.now
      BY <1>2, <1>3, <1>5, <2>2, <3>1 DEF OutOfOrder
    <3> QED
      BY <1>2, <1>3, <1>5, <2>1, <3>1, <3>2
  <2> QED
    BY <2>3, <2>4
<1> QED
  BY <1>4, <1>5

\* RoutingTable::update as a whole.
LEMMA UpdatedKeeps ==
  ASSUME NEW i \in ShardIndex, NEW sh, IsShard(sh, i), NEW late,
         Backed(sh), Coupled(sh, late), NEW t \in Nat,
         NEW u \in RouteUpdate, ShardOf(u.sys_id) = i,
         NEW n \in Updated(sh, u, t)
  PROVE  /\ IsShard(n, i) /\ Backed(n)
         /\ Coupled(n, IF OutOfOrder(sh, u) THEN late \cup {u.sys_id} ELSE late)
<1>1. PICK r \in MakeRoom(sh, t) : n = Learn(r, u)
  BY DEF Updated
<1>2. IsShard(r, i) /\ Backed(r) /\ Coupled(r, late)
      /\ (OutOfOrder(r, u) => OutOfOrder(sh, u))
  BY MakeRoomKeeps
<1>3. IsShard(n, i) /\ Backed(n)
  BY <1>1, <1>2, LearnShard, LearnBacked
<1> DEFINE late2 == IF OutOfOrder(sh, u) THEN late \cup {u.sys_id} ELSE late
<1>4. late \subseteq late2 /\ (OutOfOrder(r, u) => u.sys_id \in late2)
  BY <1>2
<1> HIDE DEF late2
<1>5. Coupled(n, late2)
  BY <1>1, <1>2, <1>4, LearnCoupled
<1> QED
  BY <1>3, <1>5 DEF late2
-----------------------------------------------------------------------------
(* The counts stay exact.                                                  *)

\* In how many entries of the shard an endpoint occurs.
Entries(sh, ep) == Occurrences(sh.routes, DOMAIN sh.routes, ep)
                     + Occurrences(sh.sys_routes, DOMAIN sh.sys_routes, ep)

\* What endpoint_counts says of an endpoint.
Counted(counts, ep, n) == CountOf(counts, ep) = n /\ (ep \in DOMAIN counts <=> n > 0)

Exact(sh) == \A ep \in EndpointId : Counted(sh.endpoint_counts, ep, Entries(sh, ep))

\* A shard has finitely many entries.
LEMMA FiniteShard ==
  ASSUME NEW i \in ShardIndex, NEW sh, IsShard(sh, i)
  PROVE  IsFiniteSet(DOMAIN sh.routes) /\ IsFiniteSet(DOMAIN sh.sys_routes)
<1>1. DOMAIN sh.routes \subseteq RouteKeys /\ DOMAIN sh.sys_routes \subseteq SysId
  BY DEF IsShard, IsMap, SystemsOf, RouteKeys
<1> QED
  BY <1>1, FiniteKeys, FS_Subset

\* The entries that are forgotten and those that are left are all there were.
LEMMA OccurrencesSplit ==
  ASSUME NEW map, IsFiniteSet(DOMAIN map), NEW gone, NEW ep
  PROVE  LET rest == Restrict(map, DOMAIN map \ gone)
             forgotten == gone \cap DOMAIN map
         IN /\ Occurrences(map, DOMAIN map, ep)
                 = Occurrences(rest, DOMAIN rest, ep) + Occurrences(map, forgotten, ep)
            /\ Occurrences(rest, DOMAIN rest, ep) \in Nat
            /\ Occurrences(map, forgotten, ep) \in Nat
<1> DEFINE rest == Restrict(map, DOMAIN map \ gone)
           forgotten == gone \cap DOMAIN map
           A == {k \in DOMAIN rest : Knows(rest, k, ep)}
           B == {k \in forgotten : Knows(map, k, ep)}
<1>1. DOMAIN rest = DOMAIN map \ gone /\ \A k \in DOMAIN rest : rest[k] = map[k]
  BY DEF Restrict
<1>2. {k \in DOMAIN map : Knows(map, k, ep)} = A \cup B /\ A \cap B = {}
  BY <1>1 DEF Knows
<1>3. IsFiniteSet(A) /\ IsFiniteSet(B) /\ A \cap B = {}
  <2>1. A \subseteq DOMAIN map /\ B \subseteq DOMAIN map
    BY <1>1
  <2> HIDE DEF A, B
  <2> QED
    BY <1>2, <2>1, FS_Subset
<1>4. /\ Occurrences(map, DOMAIN map, ep) = Cardinality(A \cup B)
      /\ Occurrences(rest, DOMAIN rest, ep) = Cardinality(A)
      /\ Occurrences(map, forgotten, ep) = Cardinality(B)
  BY <1>2 DEF Occurrences
<1> HIDE DEF A, B, rest, forgotten
<1>5. Cardinality(A \cup B) = Cardinality(A) + Cardinality(B)
      /\ Cardinality(A) \in Nat /\ Cardinality(B) \in Nat
  <2>1. Cardinality(A \cup B) = Cardinality(A) + Cardinality(B) - Cardinality({})
    BY <1>3, FS_Union
  <2>2. Cardinality(A) \in Nat /\ Cardinality(B) \in Nat
    BY <1>3, FS_CardinalityType
  <2> QED
    BY <2>1, <2>2, FS_EmptySet
<1>6. /\ Occurrences(map, DOMAIN map, ep)
           = Occurrences(rest, DOMAIN rest, ep) + Occurrences(map, forgotten, ep)
      /\ Occurrences(rest, DOMAIN rest, ep) \in Nat
      /\ Occurrences(map, forgotten, ep) \in Nat
  BY <1>4, <1>5
<1> QED
  BY <1>6 DEF rest, forgotten

\* Forgetting entries takes them off the counts, and the endpoints that no other entry
\* names with them.
LEMMA WithoutExact ==
  ASSUME NEW i \in ShardIndex, NEW sh, IsShard(sh, i), Exact(sh),
         NEW gone \in SUBSET DOMAIN sh.routes, NEW goneSys \in SUBSET DOMAIN sh.sys_routes
  PROVE  Exact(Without(sh, gone, goneSys))
<1> DEFINE w == Without(sh, gone, goneSys)
           a(ep) == Occurrences(sh.routes, gone, ep)
           b(ep) == Occurrences(sh.sys_routes, goneSys, ep)
           left(ep) == SaturatingSub(sh.endpoint_counts[ep], a(ep) + b(ep))
           kept == {e \in DOMAIN sh.endpoint_counts : a(e) + b(e) = 0 \/ left(e) > 0}
<1>1. /\ w.routes = Restrict(sh.routes, DOMAIN sh.routes \ gone)
      /\ w.sys_routes = Restrict(sh.sys_routes, DOMAIN sh.sys_routes \ goneSys)
      /\ w.endpoint_counts = [ep \in kept |-> left(ep)]
  BY DEF Without
<1>2. gone \cap DOMAIN sh.routes = gone /\ goneSys \cap DOMAIN sh.sys_routes = goneSys
  OBVIOUS
<1> HIDE DEF w
<1>3. SUFFICES ASSUME NEW ep \in EndpointId
               PROVE  Counted(w.endpoint_counts, ep, Entries(w, ep))
  BY DEF Exact, w
<1> DEFINE r == Occurrences(w.routes, DOMAIN w.routes, ep)
           s == Occurrences(w.sys_routes, DOMAIN w.sys_routes, ep)
<1>4. /\ Occurrences(sh.routes, DOMAIN sh.routes, ep) = r + a(ep)
      /\ r \in Nat /\ a(ep) \in Nat
  <2>1. IsFiniteSet(DOMAIN sh.routes)
    BY FiniteShard
  <2>2. LET rest == Restrict(sh.routes, DOMAIN sh.routes \ gone)
            forgotten == gone \cap DOMAIN sh.routes
        IN /\ Occurrences(sh.routes, DOMAIN sh.routes, ep)
                = Occurrences(rest, DOMAIN rest, ep) + Occurrences(sh.routes, forgotten, ep)
           /\ Occurrences(rest, DOMAIN rest, ep) \in Nat
           /\ Occurrences(sh.routes, forgotten, ep) \in Nat
    BY <2>1, OccurrencesSplit
  <2> QED
    BY <1>1, <1>2, <2>2
<1>5. /\ Occurrences(sh.sys_routes, DOMAIN sh.sys_routes, ep) = s + b(ep)
      /\ s \in Nat /\ b(ep) \in Nat
  <2>1. IsFiniteSet(DOMAIN sh.sys_routes)
    BY FiniteShard
  <2>2. LET rest == Restrict(sh.sys_routes, DOMAIN sh.sys_routes \ goneSys)
            forgotten == goneSys \cap DOMAIN sh.sys_routes
        IN /\ Occurrences(sh.sys_routes, DOMAIN sh.sys_routes, ep)
                = Occurrences(rest, DOMAIN rest, ep) + Occurrences(sh.sys_routes, forgotten, ep)
           /\ Occurrences(rest, DOMAIN rest, ep) \in Nat
           /\ Occurrences(sh.sys_routes, forgotten, ep) \in Nat
    BY <2>1, OccurrencesSplit
  <2> QED
    BY <1>1, <1>2, <2>2
<1>6. Counted(sh.endpoint_counts, ep, r + a(ep) + (s + b(ep)))
  BY <1>4, <1>5 DEF Exact, Entries
<1>7. Entries(w, ep) = r + s
  BY DEF Entries
<1> HIDE DEF r, s, a, b
<1>8. CASE ep \in DOMAIN sh.endpoint_counts
  <2>1. sh.endpoint_counts[ep] = r + a(ep) + (s + b(ep)) /\ r + a(ep) + (s + b(ep)) > 0
    BY <1>6, <1>8 DEF Counted, CountOf
  <2>2. left(ep) = r + s
    BY <1>4, <1>5, <2>1 DEF SaturatingSub
  <2>3. ep \in kept <=> r + s > 0
    BY <1>4, <1>5, <1>8, <2>1, <2>2
  <2> HIDE DEF kept, left
  <2>4. CountOf(w.endpoint_counts, ep) = IF ep \in kept THEN left(ep) ELSE 0
    BY <1>1 DEF CountOf
  <2> QED
    BY <1>1, <1>4, <1>5, <1>7, <2>2, <2>3, <2>4 DEF Counted
<1>9. CASE ep \notin DOMAIN sh.endpoint_counts
  <2>1. r + a(ep) + (s + b(ep)) = 0
    BY <1>6, <1>9 DEF Counted, CountOf
  <2>2. r + s = 0
    BY <1>4, <1>5, <2>1
  <2>3. ep \notin DOMAIN w.endpoint_counts
    BY <1>1, <1>9
  <2> QED
    BY <1>7, <2>2, <2>3 DEF Counted, CountOf
<1> QED
  BY <1>8, <1>9

\* One more endpoint in one entry, new or not.
LEMMA OccurrencesTouch ==
  ASSUME NEW map, IsFiniteSet(DOMAIN map), NEW key, NEW new, NEW t, NEW ep
  PROVE  LET m == Touch(map, key, new, t)
         IN /\ Occurrences(m, DOMAIN m, ep) = Occurrences(map, DOMAIN map, ep)
                 + (IF ep = new /\ ~Knows(map, key, new) THEN 1 ELSE 0)
            /\ Occurrences(map, DOMAIN map, ep) \in Nat
<1> DEFINE m == Touch(map, key, new, t)
           A == {k \in DOMAIN map : Knows(map, k, ep)}
           B == {k \in DOMAIN m : Knows(m, k, ep)}
<1>1. \A k : Knows(m, k, ep) <=> Knows(map, k, ep) \/ (k = key /\ ep = new)
  BY DEF Touch, Knows
<1>2. B = IF ep = new THEN A \cup {key} ELSE A
  BY <1>1 DEF Knows, Touch
<1>3. IsFiniteSet(A)
  BY FS_Subset
<1>4. key \in A <=> Knows(map, key, ep)
  BY DEF Knows
<1>5. Occurrences(map, DOMAIN map, ep) = Cardinality(A)
      /\ Occurrences(m, DOMAIN m, ep) = Cardinality(B)
  BY DEF Occurrences
<1> HIDE DEF A, B, m
<1>6. /\ Cardinality(A) \in Nat
      /\ Cardinality(A \cup {key}) = IF key \in A THEN Cardinality(A) ELSE Cardinality(A) + 1
  BY <1>3, FS_AddElement, FS_CardinalityType
<1>7. /\ Occurrences(m, DOMAIN m, ep) = Occurrences(map, DOMAIN map, ep)
           + (IF ep = new /\ ~Knows(map, key, new) THEN 1 ELSE 0)
      /\ Occurrences(map, DOMAIN map, ep) \in Nat
  BY <1>2, <1>4, <1>5, <1>6
<1> QED
  BY <1>7 DEF m

LEMMA CountIfNewCounted ==
  ASSUME NEW counts, NEW map, NEW key, NEW new, NEW ep, NEW n \in Nat, Counted(counts, ep, n)
  PROVE  Counted(CountIfNew(counts, map, key, new), ep,
                 n + (IF ep = new /\ ~Knows(map, key, new) THEN 1 ELSE 0))
<1>1. CASE Knows(map, key, new)
  BY <1>1 DEF CountIfNew, Counted
<1>2. CASE ~Knows(map, key, new)
  <2>1. CountIfNew(counts, map, key, new) = CountUp(counts, new)
    BY <1>2 DEF CountIfNew
  <2>2. ep \in DOMAIN CountUp(counts, new) <=> ep \in DOMAIN counts \/ ep = new
    BY DEF CountUp
  <2>3. CountOf(CountUp(counts, new), ep) = CountOf(counts, ep) + (IF ep = new THEN 1 ELSE 0)
    BY DEF CountUp, CountOf, Counted
  <2> QED
    BY <1>2, <2>1, <2>2, <2>3 DEF Counted
<1> QED
  BY <1>1, <1>2

\* Learning counts an endpoint once for each entry it joins.
LEMMA LearnExact ==
  ASSUME NEW i \in ShardIndex, NEW sh, IsShard(sh, i), Exact(sh),
         NEW u \in RouteUpdate, ShardOf(u.sys_id) = i
  PROVE  Exact(Learn(sh, u))
<1> DEFINE key == <<u.sys_id, u.comp_id>>
           new == u.endpoint_id
           counts == CountIfNew(sh.endpoint_counts, sh.routes, key, new)
           n == Learn(sh, u)
<1>1. /\ n.routes = Touch(sh.routes, key, new, u.now)
      /\ n.sys_routes = Touch(sh.sys_routes, u.sys_id, new, u.now)
      /\ n.endpoint_counts = CountIfNew(counts, sh.sys_routes, u.sys_id, new)
  BY DEF Learn
<1> HIDE DEF n
<1>2. SUFFICES ASSUME NEW ep \in EndpointId
               PROVE  Counted(n.endpoint_counts, ep, Entries(n, ep))
  BY DEF Exact, n
<1> DEFINE r == Occurrences(sh.routes, DOMAIN sh.routes, ep)
           s == Occurrences(sh.sys_routes, DOMAIN sh.sys_routes, ep)
           dr == IF ep = new /\ ~Knows(sh.routes, key, new) THEN 1 ELSE 0
           ds == IF ep = new /\ ~Knows(sh.sys_routes, u.sys_id, new) THEN 1 ELSE 0
<1>3. Occurrences(n.routes, DOMAIN n.routes, ep) = r + dr /\ r \in Nat
  <2> HIDE DEF key, new
  <2> QED
    BY <1>1, FiniteShard, OccurrencesTouch
<1>4. Occurrences(n.sys_routes, DOMAIN n.sys_routes, ep) = s + ds /\ s \in Nat
  <2> HIDE DEF new
  <2> QED
    BY <1>1, FiniteShard, OccurrencesTouch
<1>5. dr \in Nat /\ ds \in Nat
  OBVIOUS
<1>6. Counted(sh.endpoint_counts, ep, r + s) /\ r + s \in Nat
  BY <1>3, <1>4 DEF Exact, Entries
<1>7. Counted(counts, ep, (r + s) + dr)
  <2> HIDE DEF r, s, key, new
  <2> QED
    BY <1>6, CountIfNewCounted
<1>8. Counted(n.endpoint_counts, ep, ((r + s) + dr) + ds)
  <2>1. (r + s) + dr \in Nat
    BY <1>5, <1>6
  <2> HIDE DEF r, s, dr, counts, new
  <2> QED
    BY <1>1, <1>7, <2>1, CountIfNewCounted
<1>9. Entries(n, ep) = ((r + s) + dr) + ds
  <2>1. Entries(n, ep) = (r + dr) + (s + ds)
    BY <1>3, <1>4 DEF Entries
  <2> HIDE DEF r, s, dr, ds
  <2> QED
    BY <1>3, <1>4, <1>5, <2>1
<1> QED
  BY <1>8, <1>9

LEMMA PruneExact ==
  ASSUME NEW i \in ShardIndex, NEW sh, IsShard(sh, i), Exact(sh), NEW t, NEW age
  PROVE  Exact(ShardPrune(sh, t, age))
<1>1. /\ Expired(sh.routes, t, age) \in SUBSET DOMAIN sh.routes
      /\ Expired(sh.sys_routes, t, age) \in SUBSET DOMAIN sh.sys_routes
  BY DEF Expired
<1> QED
  BY <1>1, WithoutExact DEF ShardPrune

\* RoutingTable::update as a whole.
LEMMA UpdatedExact ==
  ASSUME NEW i \in ShardIndex, NEW sh, IsShard(sh, i), Exact(sh), NEW t \in Nat,
         NEW u \in RouteUpdate, ShardOf(u.sys_id) = i, NEW n \in Updated(sh, u, t)
  PROVE  Exact(n)
<1> DEFINE pruned == IF AtRouteCapacity(sh)
                       THEN ShardPrune(sh, t, CapacityPruneAge) ELSE sh
<1>1. PICK r \in MakeRoom(sh, t) : n = Learn(r, u)
  BY DEF Updated
<1>2. IsShard(pruned, i) /\ Exact(pruned)
  BY PruneShard, PruneExact
<1>3. r = pruned \/ \E s \in DOMAIN pruned.sys_routes : r = RemoveSystem(pruned, s)
  BY DEF MakeRoom, OldestSystems
<1> HIDE DEF pruned
<1>4. ASSUME NEW s \in DOMAIN pruned.sys_routes
      PROVE  IsShard(RemoveSystem(pruned, s), i) /\ Exact(RemoveSystem(pruned, s))
  <2>1. /\ {k \in DOMAIN pruned.routes : k[1] = s} \in SUBSET DOMAIN pruned.routes
        /\ {s} \in SUBSET DOMAIN pruned.sys_routes
    OBVIOUS
  <2> QED
    BY <1>2, <2>1, RemoveSystemShard, WithoutExact DEF RemoveSystem
<1> QED
  BY <1>1, <1>2, <1>3, <1>4, LearnExact
-----------------------------------------------------------------------------
(* What is forgotten, and what may be said of every entry.                 *)

\* The entries of r are entries of sh, unchanged.
Fewer(r, sh) ==
  /\ DOMAIN r.routes \subseteq DOMAIN sh.routes
  /\ \A k \in DOMAIN r.routes : r.routes[k] = sh.routes[k]
  /\ DOMAIN r.sys_routes \subseteq DOMAIN sh.sys_routes
  /\ \A s \in DOMAIN r.sys_routes : r.sys_routes[s] = sh.sys_routes[s]

LEMMA PruneFewer ==
  ASSUME NEW i \in ShardIndex, NEW sh, IsShard(sh, i), NEW t, NEW age
  PROVE  /\ Fewer(ShardPrune(sh, t, age), sh)
         /\ \A k \in DOMAIN sh.routes :
              k \notin DOMAIN ShardPrune(sh, t, age).routes
                <=> Elapsed(t, sh.routes[k].last_seen) > age
         /\ \A s \in DOMAIN sh.sys_routes :
              s \notin DOMAIN ShardPrune(sh, t, age).sys_routes
                <=> Elapsed(t, sh.sys_routes[s].last_seen) > age
<1> DEFINE p == ShardPrune(sh, t, age)
<1>1. Retains(p, sh, Expired(sh.routes, t, age), Expired(sh.sys_routes, t, age))
  BY PruneShard
<1> HIDE DEF p
<1>2. /\ p.routes = Restrict(sh.routes, DOMAIN sh.routes \ Expired(sh.routes, t, age))
      /\ p.sys_routes = Restrict(sh.sys_routes,
                           DOMAIN sh.sys_routes \ Expired(sh.sys_routes, t, age))
  BY <1>1 DEF Retains
<1>3. Fewer(p, sh)
  BY <1>2 DEF Fewer, Restrict
<1>4. /\ \A k \in DOMAIN sh.routes :
           k \notin DOMAIN p.routes <=> Elapsed(t, sh.routes[k].last_seen) > age
      /\ \A s \in DOMAIN sh.sys_routes :
           s \notin DOMAIN p.sys_routes <=> Elapsed(t, sh.sys_routes[s].last_seen) > age
  BY <1>2 DEF Restrict, Expired
<1> QED
  BY <1>3, <1>4 DEF p

LEMMA RemoveSystemFewer ==
  ASSUME NEW i \in ShardIndex, NEW sh, IsShard(sh, i), NEW sys \in DOMAIN sh.sys_routes
  PROVE  /\ Fewer(RemoveSystem(sh, sys), sh)
         /\ DOMAIN RemoveSystem(sh, sys).routes = {k \in DOMAIN sh.routes : k[1] # sys}
         /\ DOMAIN RemoveSystem(sh, sys).sys_routes = DOMAIN sh.sys_routes \ {sys}
<1> DEFINE r == RemoveSystem(sh, sys)
<1>1. Retains(r, sh, {k \in DOMAIN sh.routes : k[1] = sys}, {sys})
  BY RemoveSystemShard
<1> HIDE DEF r
<1>2. /\ r.routes = Restrict(sh.routes, {k \in DOMAIN sh.routes : k[1] # sys})
      /\ r.sys_routes = Restrict(sh.sys_routes, DOMAIN sh.sys_routes \ {sys})
  <2>1. DOMAIN sh.routes \ {k \in DOMAIN sh.routes : k[1] = sys}
          = {k \in DOMAIN sh.routes : k[1] # sys}
    OBVIOUS
  <2> QED
    BY <1>1, <2>1 DEF Retains
<1>3. /\ Fewer(r, sh)
      /\ DOMAIN r.routes = {k \in DOMAIN sh.routes : k[1] # sys}
      /\ DOMAIN r.sys_routes = DOMAIN sh.sys_routes \ {sys}
  BY <1>2 DEF Fewer, Restrict
<1> QED
  BY <1>3 DEF r

\* What may go when room is made at time t.
MayGo(sh, r, t, k) ==
  \/ AtRouteCapacity(sh) /\ Elapsed(t, sh.routes[k].last_seen) > CapacityPruneAge
  \/ /\ AtSystemCapacity(sh)
     /\ k[1] \in DOMAIN sh.sys_routes
     /\ \A s \in DOMAIN r.sys_routes :
          sh.sys_routes[k[1]].last_seen <= sh.sys_routes[s].last_seen

\* Making room forgets nothing but what has expired, or a system that is as old as any.
LEMMA MakeRoomForgets ==
  ASSUME NEW i \in ShardIndex, NEW sh, IsShard(sh, i), NEW t \in Nat, NEW r \in MakeRoom(sh, t)
  PROVE  /\ Fewer(r, sh)
         /\ \A k \in DOMAIN sh.routes \ DOMAIN r.routes : MayGo(sh, r, t, k)
<1> DEFINE pruned == IF AtRouteCapacity(sh)
                       THEN ShardPrune(sh, t, CapacityPruneAge) ELSE sh
<1>1. /\ IsShard(pruned, i) /\ Fewer(pruned, sh)
      /\ \A k \in DOMAIN sh.routes \ DOMAIN pruned.routes :
           AtRouteCapacity(sh) /\ Elapsed(t, sh.routes[k].last_seen) > CapacityPruneAge
  <2>1. CASE AtRouteCapacity(sh)
    BY <2>1, PruneShard, PruneFewer
  <2>2. CASE ~AtRouteCapacity(sh)
    BY <2>2 DEF Fewer
  <2> QED
    BY <2>1, <2>2
<1>2. \/ r = pruned
      \/ /\ AtSystemCapacity(pruned)
         /\ \E s \in OldestSystems(pruned) : r = RemoveSystem(pruned, s)
  BY DEF MakeRoom
<1> HIDE DEF pruned
<1>3. CASE r = pruned
  BY <1>1, <1>3 DEF MayGo
<1>4. ASSUME AtSystemCapacity(pruned),
             NEW s \in OldestSystems(pruned), r = RemoveSystem(pruned, s)
      PROVE  /\ Fewer(r, sh)
             /\ \A k \in DOMAIN sh.routes \ DOMAIN r.routes : MayGo(sh, r, t, k)
  <2>1. /\ s \in DOMAIN pruned.sys_routes
        /\ \A o \in DOMAIN pruned.sys_routes :
             pruned.sys_routes[s].last_seen <= pruned.sys_routes[o].last_seen
    BY DEF OldestSystems
  <2>2. /\ Fewer(r, pruned)
        /\ DOMAIN r.routes = {k \in DOMAIN pruned.routes : k[1] # s}
        /\ DOMAIN r.sys_routes = DOMAIN pruned.sys_routes \ {s}
    BY <1>1, <1>4, <2>1, RemoveSystemFewer
  <2>3. Fewer(r, sh)
    BY <1>1, <2>2 DEF Fewer
  <2>4. AtSystemCapacity(sh)
    <3>1. DOMAIN pruned.sys_routes \subseteq DOMAIN sh.sys_routes
      BY <1>1 DEF Fewer
    <3>2. IsFiniteSet(DOMAIN sh.sys_routes)
      BY FiniteShard
    <3>3. /\ Cardinality(DOMAIN pruned.sys_routes) <= Cardinality(DOMAIN sh.sys_routes)
          /\ IsFiniteSet(DOMAIN pruned.sys_routes)
      BY <3>1, <3>2, FS_Subset
    <3>4. /\ Cardinality(DOMAIN pruned.sys_routes) \in Nat
          /\ Cardinality(DOMAIN sh.sys_routes) \in Nat
      BY <3>2, <3>3, FS_CardinalityType
    <3> QED
      BY <1>4, <3>3, <3>4, TableAssumption DEF AtSystemCapacity, TableAssumption
  <2>5. ASSUME NEW k \in DOMAIN sh.routes \ DOMAIN r.routes
        PROVE  MayGo(sh, r, t, k)
    <3>1. CASE k \notin DOMAIN pruned.routes
      BY <1>1, <3>1 DEF MayGo
    <3>2. CASE k \in DOMAIN pruned.routes
      <4>1. k[1] = s
        BY <2>2, <3>2
      <4>2. s \in DOMAIN sh.sys_routes
            /\ \A o \in DOMAIN r.sys_routes :
                 sh.sys_routes[s].last_seen <= sh.sys_routes[o].last_seen
        BY <1>1, <2>1, <2>2 DEF Fewer
      <4> QED
        BY <2>4, <4>1, <4>2 DEF MayGo
    <3> QED
      BY <3>1, <3>2
  <2> QED
    BY <2>3, <2>5
<1> QED
  BY <1>2, <1>3, <1>4

\* Every endpoint in an entry is there for an observation in T.
From(sh, T) ==
  /\ \A k \in DOMAIN sh.routes : \A ep \in sh.routes[k].endpoints : <<ep, k[1], k[2]>> \in T
  /\ \A s \in DOMAIN sh.sys_routes : \A ep \in sh.sys_routes[s].endpoints :
       \E c \in CompId : <<ep, s, c>> \in T

\* Every entry has been seen at or after b, and none after t.
SeenWithin(sh, b, t) ==
  /\ \A k \in DOMAIN sh.routes : b <= sh.routes[k].last_seen /\ sh.routes[k].last_seen <= t
  /\ \A s \in DOMAIN sh.sys_routes :
       b <= sh.sys_routes[s].last_seen /\ sh.sys_routes[s].last_seen <= t

LEMMA UpdatedFrom ==
  ASSUME NEW i \in ShardIndex, NEW sh, IsShard(sh, i), NEW t \in Nat,
         NEW u \in RouteUpdate, ShardOf(u.sys_id) = i, NEW n \in Updated(sh, u, t),
         NEW T, From(sh, T), <<u.endpoint_id, u.sys_id, u.comp_id>> \in T
  PROVE  From(n, T)
<1>1. PICK r \in MakeRoom(sh, t) : n = Learn(r, u)
  BY DEF Updated
<1>2. From(r, T)
  <2>1. Fewer(r, sh)
    BY MakeRoomForgets
  <2>2. \A k \in DOMAIN r.routes : \A ep \in r.routes[k].endpoints : <<ep, k[1], k[2]>> \in T
    BY <2>1 DEF Fewer, From
  <2>3. \A s \in DOMAIN r.sys_routes : \A ep \in r.sys_routes[s].endpoints :
          \E c \in CompId : <<ep, s, c>> \in T
    BY <2>1 DEF Fewer, From
  <2> QED
    BY <2>2, <2>3 DEF From
<1> DEFINE key == <<u.sys_id, u.comp_id>>
<1>3. /\ n.routes = Touch(r.routes, key, u.endpoint_id, u.now)
      /\ n.sys_routes = Touch(r.sys_routes, u.sys_id, u.endpoint_id, u.now)
  BY <1>1 DEF Learn
<1>4. \A k \in DOMAIN n.routes : \A ep \in n.routes[k].endpoints : <<ep, k[1], k[2]>> \in T
  <2>1. <<u.endpoint_id, key[1], key[2]>> \in T
    OBVIOUS
  <2> HIDE DEF key
  <2> SUFFICES ASSUME NEW k \in DOMAIN n.routes, NEW ep \in n.routes[k].endpoints
               PROVE  <<ep, k[1], k[2]>> \in T
    OBVIOUS
  <2>2. \/ k = key /\ ep = u.endpoint_id
        \/ k \in DOMAIN r.routes /\ ep \in r.routes[k].endpoints
    BY <1>3 DEF Touch
  <2> QED
    BY <1>2, <2>1, <2>2 DEF From
<1>5. \A s \in DOMAIN n.sys_routes : \A ep \in n.sys_routes[s].endpoints :
        \E c \in CompId : <<ep, s, c>> \in T
  <2>1. u.comp_id \in CompId
    BY DEF RouteUpdate
  <2> QED
    BY <1>2, <1>3, <2>1 DEF Touch, From
<1> QED
  BY <1>4, <1>5 DEF From

LEMMA UpdatedSeen ==
  ASSUME NEW i \in ShardIndex, NEW sh, IsShard(sh, i), NEW t \in Nat,
         NEW u \in RouteUpdate, ShardOf(u.sys_id) = i, NEW n \in Updated(sh, u, t),
         NEW b \in Int, SeenWithin(sh, b, t), b <= u.now, u.now <= t
  PROVE  SeenWithin(n, b, t)
<1>1. PICK r \in MakeRoom(sh, t) : n = Learn(r, u)
  BY DEF Updated
<1>2. SeenWithin(r, b, t)
  BY MakeRoomForgets DEF Fewer, SeenWithin
<1> DEFINE key == <<u.sys_id, u.comp_id>>
<1>3. /\ n.routes = Touch(r.routes, key, u.endpoint_id, u.now)
      /\ n.sys_routes = Touch(r.sys_routes, u.sys_id, u.endpoint_id, u.now)
  BY <1>1 DEF Learn
<1> HIDE DEF key
<1> QED
  BY <1>2, <1>3 DEF Touch, SeenWithin

\* Pruning leaves nothing that is older than age.
LEMMA PruneSeen ==
  ASSUME NEW i \in ShardIndex, NEW sh, IsShard(sh, i), NEW t \in Nat, NEW age \in Nat,
         NEW b \in Int, SeenWithin(sh, b, t)
  PROVE  SeenWithin(ShardPrune(sh, t, age), t - age, t)
<1> DEFINE p == ShardPrune(sh, t, age)
<1>1. /\ Fewer(p, sh)
      /\ \A k \in DOMAIN sh.routes :
           k \notin DOMAIN p.routes <=> Elapsed(t, sh.routes[k].last_seen) > age
      /\ \A s \in DOMAIN sh.sys_routes :
           s \notin DOMAIN p.sys_routes <=> Elapsed(t, sh.sys_routes[s].last_seen) > age
  BY PruneFewer
<1> HIDE DEF p
<1>2. ASSUME NEW k \in DOMAIN p.routes
      PROVE  t - age <= p.routes[k].last_seen /\ p.routes[k].last_seen <= t
  <2>1. /\ k \in DOMAIN sh.routes /\ p.routes[k] = sh.routes[k]
        /\ ~(Elapsed(t, sh.routes[k].last_seen) > age)
    BY <1>1 DEF Fewer
  <2>2. sh.routes[k].last_seen \in Nat /\ sh.routes[k].last_seen <= t
    BY <2>1 DEF IsShard, IsMap, RouteEntry, Instant, SeenWithin
  <2> QED
    BY <2>1, <2>2 DEF Elapsed
<1>3. ASSUME NEW s \in DOMAIN p.sys_routes
      PROVE  t - age <= p.sys_routes[s].last_seen /\ p.sys_routes[s].last_seen <= t
  <2>1. /\ s \in DOMAIN sh.sys_routes /\ p.sys_routes[s] = sh.sys_routes[s]
        /\ ~(Elapsed(t, sh.sys_routes[s].last_seen) > age)
    BY <1>1 DEF Fewer
  <2>2. sh.sys_routes[s].last_seen \in Nat /\ sh.sys_routes[s].last_seen <= t
    BY <2>1 DEF IsShard, IsMap, RouteEntry, Instant, SeenWithin
  <2> QED
    BY <2>1, <2>2 DEF Elapsed
<1> QED
  BY <1>2, <1>3 DEF SeenWithin, p

-----------------------------------------------------------------------------
(* The tasks.                                                              *)

\* The conjuncts of TypeOK that are not about the shards.
TasksOK ==
  /\ now \in Instant
  /\ queue \in Seq(RouteUpdate) /\ Len(queue) <= QueueCapacity
  /\ stage \in [EndpointId -> {"idle", "check", "send"}]
  /\ obs \in [EndpointId -> RouteUpdate \cup {NoUpdate}]
  /\ \A ep \in EndpointId : stage[ep] # "idle" => obs[ep] \in RouteUpdate
  /\ updater \in {"select", "draining", "applying", "pruning", "exited"}
  /\ batch \in Seq(RouteUpdate) /\ Len(batch) <= BatchSize
  /\ (batch # <<>>) <=> updater \in {"draining", "applying"}
  /\ pruneAt \in ShardIndex
  /\ nextPrune \in Nat
  /\ cancelled \in BOOLEAN
  /\ reordered \subseteq SysId

ShardsOK ==
  /\ shards = [i \in ShardIndex |-> shards[i]]
  /\ \A i \in ShardIndex : IsShard(shards[i], i)

\* The inductive invariant: the types, and how the maps of a shard relate.
IInv ==
  /\ TasksOK
  /\ ShardsOK
  /\ SystemBackedByComponent
  /\ EntriesCoupled

-----------------------------------------------------------------------------

\* The router starts with an empty table and idle tasks.
LEMMA InitIInv == Init => IInv
<1> SUFFICES ASSUME Init PROVE IInv
  OBVIOUS
<1>1. ASSUME NEW i \in ShardIndex
      PROVE  IsShard(EmptyShard, i) /\ Backed(EmptyShard) /\ Coupled(EmptyShard, {})
  BY DEF IsShard, IsMap, EmptyShard, EmptyMap, Backed, Coupled
<1>2. 0 \in ShardIndex
  BY TableAssumption DEF TableAssumption, ShardIndex
<1>3. TasksOK
  <2>1. queue \in Seq(RouteUpdate) /\ Len(queue) <= QueueCapacity
    BY EmptySeq, LearningAssumption DEF Init, LearningAssumption
  <2>2. batch \in Seq(RouteUpdate) /\ Len(batch) <= BatchSize
    BY EmptySeq, LearningAssumption DEF Init, LearningAssumption
  <2> QED
    BY <1>2, <2>1, <2>2, LearningAssumption
    DEF Init, TasksOK, Instant, LearningAssumption
<1>4. ShardsOK /\ SystemBackedByComponent /\ EntriesCoupled
  BY <1>1 DEF Init, ShardsOK, SystemBackedByComponent, EntriesCoupled
<1> QED
  BY <1>3, <1>4 DEF IInv

\* A step that leaves the table and the order history alone keeps what is said
\* of them.
LEMMA TableUnchanged ==
  ASSUME IInv, UNCHANGED <<shards, reordered>>
  PROVE  (ShardsOK /\ SystemBackedByComponent /\ EntriesCoupled)'
  BY DEF IInv, ShardsOK, SystemBackedByComponent, EntriesCoupled

\* Replacing one shard by a good one.
LEMMA ShardReplaced ==
  ASSUME IInv, NEW i \in ShardIndex, NEW n, shards' = [shards EXCEPT ![i] = n],
         reordered \subseteq reordered',
         IsShard(n, i), Backed(n), Coupled(n, reordered')
  PROVE  (ShardsOK /\ SystemBackedByComponent /\ EntriesCoupled)'
<1>1. /\ shards' = [j \in ShardIndex |-> shards'[j]]
      /\ shards'[i] = n
      /\ \A j \in ShardIndex : j # i => shards'[j] = shards[j]
  BY DEF IInv, ShardsOK
<1>2. \A j \in ShardIndex :
        IsShard(shards'[j], j) /\ Backed(shards'[j]) /\ Coupled(shards'[j], reordered')
  <2> SUFFICES ASSUME NEW j \in ShardIndex
               PROVE  IsShard(shards'[j], j) /\ Backed(shards'[j])
                        /\ Coupled(shards'[j], reordered')
    OBVIOUS
  <2>1. CASE j = i
    BY <1>1, <2>1
  <2>2. CASE j # i
    <3>1. IsShard(shards[j], j) /\ Backed(shards[j]) /\ Coupled(shards[j], reordered)
      BY DEF IInv, ShardsOK, SystemBackedByComponent, EntriesCoupled
    <3>2. Coupled(shards[j], reordered')
      BY <3>1 DEF Coupled
    <3> QED
      BY <1>1, <2>2, <3>1, <3>2
  <2> QED
    BY <2>1, <2>2
<1> QED
  BY <1>1, <1>2 DEF ShardsOK, SystemBackedByComponent, EntriesCoupled

-----------------------------------------------------------------------------
(* One lemma for each task.                                                *)

\* The steps of observe_route.
LEMMA IngressStep ==
  ASSUME IInv, NEW ep \in EndpointId, Ingress(ep)
  PROVE  IInv'
<1> USE DEF IInv, TasksOK, ingressVars, updaterVars
<1>1. ASSUME NEW sys \in SysId, NEW comp \in CompId, Observe(ep, sys, comp)
      PROVE  IInv'
  <2>1. TasksOK'
    <3>1. [endpoint_id |-> ep, sys_id |-> sys, comp_id |-> comp, now |-> now]
            \in RouteUpdate
      BY DEF RouteUpdate
    <3> QED
      BY <1>1, <3>1 DEF Observe
  <2> QED
    BY <1>1, <2>1, TableUnchanged DEF Observe
<1>2. ASSUME CheckNeeded(ep)
      PROVE  IInv'
  <2>1. TasksOK'
    BY <1>2 DEF CheckNeeded
  <2> QED
    BY <1>2, <2>1, TableUnchanged DEF CheckNeeded
<1>3. ASSUME Post(ep)
      PROVE  IInv'
  <2>1. obs[ep] \in RouteUpdate
    BY <1>3 DEF Post
  <2>2. queue' \in Seq(RouteUpdate) /\ Len(queue') <= QueueCapacity
    BY <1>3, <2>1, LearningAssumption DEF Post, CanPost, LearningAssumption
  <2>3. TasksOK'
    BY <1>3, <2>2 DEF Post, Return
  <2> QED
    BY <1>3, <2>3, TableUnchanged DEF Post
<1>4. ASSUME DropObservation(ep)
      PROVE  IInv'
  <2>1. TasksOK'
    BY <1>4 DEF DropObservation, Return
  <2> QED
    BY <1>4, <2>1, TableUnchanged DEF DropObservation
<1> QED
  BY <1>1, <1>2, <1>3, <1>4 DEF Ingress

\* Draining moves the head of the queue to the end of the batch.
LEMMA DrainStep ==
  ASSUME IInv, Drain
  PROVE  IInv'
<1> USE DEF IInv, TasksOK, ingressVars
<1>1. queue \in Seq(RouteUpdate) /\ queue # <<>>
  BY DEF Drain, CanDrain
<1>2. /\ Head(queue) \in RouteUpdate
      /\ Tail(queue) \in Seq(RouteUpdate)
      /\ Len(Tail(queue)) = Len(queue) - 1
      /\ Len(queue) \in Nat
  BY <1>1, HeadTailProperties
<1>3. Len(batch) < BatchSize
  BY LearningAssumption DEF Drain, CanDrain, LearningAssumption
<1>4. /\ batch' \in Seq(RouteUpdate) /\ Len(batch') <= BatchSize
      /\ batch' # <<>>
  BY <1>2, <1>3, LearningAssumption DEF Drain, LearningAssumption
<1>5. queue' \in Seq(RouteUpdate) /\ Len(queue') <= QueueCapacity
  BY <1>2, LearningAssumption DEF Drain, LearningAssumption
<1>6. TasksOK'
  BY <1>4, <1>5 DEF Drain
<1> QED
  BY <1>6, TableUnchanged DEF Drain

\* Applying an update replaces the shard of its system by an updated one.
LEMMA ApplyUpdateStep ==
  ASSUME IInv, ApplyUpdate
  PROVE  IInv'
<1> DEFINE u == Head(batch)
           i == ShardOf(u.sys_id)
<1>1. batch \in Seq(RouteUpdate) /\ batch # <<>> /\ reordered \subseteq SysId /\ now \in Nat
  BY DEF ApplyUpdate, IInv, TasksOK, Instant
<1>2. /\ u \in RouteUpdate
      /\ batch' \in Seq(RouteUpdate)
      /\ Len(batch') = Len(batch) - 1
      /\ Len(batch) \in Nat
      /\ (batch' = <<>> <=> Len(batch) = 1)
  <2>1. batch' = Tail(batch)
    BY DEF ApplyUpdate
  <2>2. /\ u \in RouteUpdate
        /\ batch' \in Seq(RouteUpdate)
        /\ Len(batch') = Len(batch) - 1
        /\ Len(batch) \in Nat
    BY <1>1, <2>1, HeadTailProperties, LenProperties
  <2>3. batch' = <<>> <=> Len(batch') = 0
    BY <2>2, EmptySeq
  <2> QED
    BY <2>2, <2>3
<1>3. u.sys_id \in SysId /\ i \in ShardIndex
  BY <1>2, ShardOfIndex DEF RouteUpdate
<1>4. PICK n \in Updated(shards[i], u, now) : shards' = [shards EXCEPT ![i] = n]
  BY DEF ApplyUpdate
<1>5. reordered' = IF OutOfOrder(shards[i], u) THEN reordered \cup {u.sys_id} ELSE reordered
  BY DEF ApplyUpdate
<1> HIDE DEF u
<1>6. IsShard(shards[i], i) /\ Backed(shards[i]) /\ Coupled(shards[i], reordered)
  BY <1>3 DEF IInv, ShardsOK, SystemBackedByComponent, EntriesCoupled
<1>7. ShardOf(u.sys_id) = i
  OBVIOUS
<1> HIDE DEF i
<1>8. IsShard(n, i) /\ Backed(n) /\ Coupled(n, reordered')
  BY <1>1, <1>2, <1>3, <1>4, <1>5, <1>6, <1>7, UpdatedKeeps
<1>9. reordered \subseteq reordered' /\ reordered' \subseteq SysId
  BY <1>1, <1>3, <1>5
<1>10. (ShardsOK /\ SystemBackedByComponent /\ EntriesCoupled)'
  BY <1>3, <1>4, <1>8, <1>9, ShardReplaced
<1>11. TasksOK'
  <2>1. Len(batch') <= BatchSize
    BY <1>2, LearningAssumption DEF IInv, TasksOK, LearningAssumption
  <2>2. updater' = (IF Len(batch) = 1 THEN "select" ELSE "applying")
        /\ UNCHANGED <<now, queue, stage, obs, pruneAt, nextPrune, cancelled>>
    BY DEF ApplyUpdate, ingressVars
  <2>3. (batch' # <<>>) <=> updater' \in {"draining", "applying"}
    BY <1>2, <2>2
  <2> QED
    BY <1>2, <1>9, <2>1, <2>2, <2>3 DEF IInv, TasksOK
<1> QED
  BY <1>10, <1>11 DEF IInv

\* Pruning a shard replaces it by the pruned one.
LEMMA PruneNextShardStep ==
  ASSUME IInv, PruneNextShard
  PROVE  IInv'
<1>1. pruneAt \in ShardIndex /\ now \in Nat /\ PruneTtl \in Nat
  BY LearningAssumption DEF IInv, TasksOK, Instant, LearningAssumption
<1>2. /\ IsShard(shards[pruneAt], pruneAt)
      /\ Backed(shards[pruneAt]) /\ Coupled(shards[pruneAt], reordered)
  BY <1>1 DEF IInv, ShardsOK, SystemBackedByComponent, EntriesCoupled
<1> DEFINE n == ShardPrune(shards[pruneAt], now, PruneTtl)
<1>3. IsShard(n, pruneAt) /\ Backed(n) /\ Coupled(n, reordered)
  BY <1>1, <1>2, PruneShard, PruneBacked, PruneCoupled
<1>4. shards' = [shards EXCEPT ![pruneAt] = n] /\ reordered' = reordered
  BY DEF PruneNextShard
<1> HIDE DEF n
<1>5. (ShardsOK /\ SystemBackedByComponent /\ EntriesCoupled)'
  BY <1>1, <1>3, <1>4, ShardReplaced
<1>6. TasksOK'
  <2>1. pruneAt' \in ShardIndex
    BY <1>1, TableAssumption DEF PruneNextShard, ShardIndex, TableAssumption
  <2> QED
    BY <2>1 DEF PruneNextShard, IInv, TasksOK, ingressVars
<1> QED
  BY <1>5, <1>6 DEF IInv

\* The updater's steps.
LEMMA UpdaterStep ==
  ASSUME IInv, Updater
  PROVE  IInv'
<1>1. ASSUME UpdaterExit
      PROVE  IInv'
  <2>1. queue' \in Seq(RouteUpdate) /\ Len(queue') <= QueueCapacity
    BY <1>1, EmptySeq, LearningAssumption DEF UpdaterExit, LearningAssumption
  <2>2. TasksOK'
    BY <1>1, <2>1 DEF UpdaterExit, IInv, TasksOK, ingressVars
  <2> QED
    BY <1>1, <2>2, TableUnchanged DEF UpdaterExit, IInv
<1>2. ASSUME StartPrune
      PROVE  IInv'
  <2>1. pruneAt' \in ShardIndex /\ nextPrune' \in Nat
    BY <1>2, TableAssumption, LearningAssumption
    DEF StartPrune, IInv, TasksOK, ShardIndex, TableAssumption, LearningAssumption
  <2>2. TasksOK'
    BY <1>2, <2>1 DEF StartPrune, IInv, TasksOK, ingressVars
  <2> QED
    BY <1>2, <2>2, TableUnchanged DEF StartPrune, IInv
<1> QED
  BY <1>1, <1>2, DrainStep, ApplyUpdateStep, PruneNextShardStep DEF Updater

\* Time passes, the router is told to stop, or nothing happens.
LEMMA EnvironmentStep ==
  ASSUME IInv, Tick \/ Cancel \/ UNCHANGED vars
  PROVE  IInv'
<1> USE DEF ingressVars, updaterVars
<1>1. now' \in Instant
  BY DEF Tick, Cancel, vars, Instant, IInv, TasksOK
<1>2. UNCHANGED <<shards, reordered, queue, stage, obs, updater, batch, pruneAt, nextPrune>>
      /\ cancelled' \in BOOLEAN
  BY DEF Tick, Cancel, vars, IInv, TasksOK
<1>3. TasksOK'
  BY <1>1, <1>2 DEF IInv, TasksOK
<1> QED
  BY <1>2, <1>3, TableUnchanged DEF IInv

-----------------------------------------------------------------------------
(* The theorems.                                                           *)

\* Whatever the tasks do and in whatever order, the routing table, the update
\* channel and the updater's batch stay in the states that IInv describes.
THEOREM Invariance == Spec => []IInv
<1>1. IInv /\ [Next]_vars => IInv'
  BY IngressStep, UpdaterStep, EnvironmentStep DEF Next
<1> QED
  BY <1>1, InitIInv, PTL DEF Spec

\* The routing table, the tasks and the channel are always well typed: the
\* channel and the batch keep to their capacities, and no entry is in a shard
\* that shard_for would not look in.
THEOREM TypeCorrect == Spec => []TypeOK
<1>1. IInv => TypeOK
  BY DEF IInv, TasksOK, ShardsOK, TypeOK
<1> QED
  BY <1>1, Invariance, PTL

\* A system's entry never outlives all of its components' entries: update,
\* shard_prune and shard_remove_oldest_system keep the two maps in step.
THEOREM NoPhantomSystem == Spec => []SystemBackedByComponent
<1>1. IInv => SystemBackedByComponent
  BY DEF IInv
<1> QED
  BY <1>1, Invariance, PTL

\* The entry of a system covers those of its components, unless one of its
\* updates was applied after a later one.
THEOREM SystemCovers == Spec => []EntriesCoupled
<1>1. IInv => EntriesCoupled
  BY DEF IInv
<1> QED
  BY <1>1, Invariance, PTL

\* A route in the table works: should_send says yes to every endpoint the route
\* reaches, for its component and for its whole system.
THEOREM LearnedRoutesForward == Spec => []LearnedRouteForwards
<1>1. ASSUME IInv
      PROVE  LearnedRouteForwards
  <2> SUFFICES ASSUME NEW i \in ShardIndex, NEW k \in DOMAIN shards[i].routes,
                      k[1] \notin reordered,
                      NEW ep \in EndpointId, Reaches(shards[i].routes[k], ep)
               PROVE  ShouldSend(shards, ep, k[1], k[2]) /\ ShouldSend(shards, ep, k[1], 0)
    BY DEF LearnedRouteForwards
  <2> DEFINE sh == shards[i]
  <2>1. IsShard(sh, i) /\ Coupled(sh, reordered)
    BY <1>1 DEF IInv, ShardsOK, EntriesCoupled
  <2>2. k[1] \in SystemsOf(i) /\ k = <<k[1], k[2]>>
    BY <2>1 DEF IsShard, IsMap
  <2>3. ShardOf(k[1]) = i
    BY <2>2 DEF SystemsOf
  <2>4. /\ k[1] \in DOMAIN sh.sys_routes
        /\ sh.routes[k].endpoints \subseteq sh.sys_routes[k[1]].endpoints
    BY <2>1 DEF Coupled
  <2>5. Reaches(sh.sys_routes[k[1]], ep)
    BY <2>4 DEF Reaches, AnyInSameGroup
  <2> QED
    BY <2>2, <2>3, <2>4, <2>5 DEF ShouldSend
<1> QED
  BY <1>1, Invariance, PTL
-----------------------------------------------------------------------------
(* The caps that the code sets.                                            *)

\* SHARD_COUNT, and the caps per shard that are derived from it (shard.rs:29-39).
SizesOfTheCode ==
  ShardCount = 16 /\ MaxSystems = 1000 \div 16 /\ MaxRoutes = 100000 \div 16

\* Of the ids, which are bytes, every sixteenth is of one shard.
LEMMA SixteenSystems ==
  ASSUME ShardCount = 16, NEW i \in ShardIndex
  PROVE  IsFiniteSet(SystemsOf(i)) /\ Cardinality(SystemsOf(i)) <= 16
<1> DEFINE f == [j \in 0 .. 15 |-> 16 * j + i]
           T == {f[j] : j \in 0 .. 15}
<1>1. IsFiniteSet(0 .. 15) /\ Cardinality(0 .. 15) = 16
  <2>1. /\ IsFiniteSet(0 .. 15)
        /\ Cardinality(0 .. 15) = IF 0 > 15 THEN 0 ELSE 15 - 0 + 1
    BY 0 \in Int, 15 \in Int, FS_Interval, Zenon
  <2> QED
    BY <2>1
<1>2. f \in Surjection(0 .. 15, T)
  BY DEF Surjection
<1>3. IsFiniteSet(T) /\ Cardinality(T) <= 16
  <2> HIDE DEF f, T
  <2> QED
    BY <1>1, <1>2, FS_Surjection
<1>4. SystemsOf(i) \in SUBSET T
  <2> SUFFICES ASSUME NEW s \in SystemsOf(i) PROVE s \in T
    OBVIOUS
  <2>1. s \in 1 .. 255 /\ s % 16 = i
    BY TableAssumption DEF TableAssumption, SystemsOf, ShardOf
  <2>2. s \div 16 \in 0 .. 15 /\ s = 16 * (s \div 16) + i
    BY <2>1, SMT
  <2> QED
    BY <2>2
<1> HIDE DEF T
<1>5. IsFiniteSet(SystemsOf(i)) /\ Cardinality(SystemsOf(i)) <= Cardinality(T)
  BY <1>3, <1>4, FS_Subset
<1> QED
  BY <1>3, <1>5, FS_CardinalityType

\* With the sizes of the code neither cap of a shard is ever reached, so that update()
\* never prunes early nor evicts a system (table.rs:162-175): a shard has sixteen ids.
THEOREM CapsOutOfReach ==
  ASSUME SizesOfTheCode
  PROVE  Spec => [](\A i \in ShardIndex :
                      ~AtRouteCapacity(shards[i]) /\ ~AtSystemCapacity(shards[i]))
<1>1. IInv => \A i \in ShardIndex :
                ~AtRouteCapacity(shards[i]) /\ ~AtSystemCapacity(shards[i])
  <2> SUFFICES ASSUME IInv, NEW i \in ShardIndex
               PROVE  ~AtRouteCapacity(shards[i]) /\ ~AtSystemCapacity(shards[i])
    OBVIOUS
  <2>1. PICK S, R : S = DOMAIN shards[i].sys_routes /\ R = DOMAIN shards[i].routes
    OBVIOUS
  <2>2. S \in SUBSET SystemsOf(i) /\ R \in SUBSET (SystemsOf(i) \X CompId)
    BY <2>1 DEF IInv, ShardsOK, IsShard, IsMap
  <2>3. PICK m \in 0 .. 16 : IsFiniteSet(SystemsOf(i)) /\ Cardinality(SystemsOf(i)) = m
    BY SixteenSystems, FS_CardinalityType DEF SizesOfTheCode
  <2>4. PICK n \in 0 .. 256 : IsFiniteSet(CompId) /\ Cardinality(CompId) = n
    <3>1. CompId \in SUBSET Nat /\ \A c \in CompId : c <= 255
      BY TableAssumption DEF TableAssumption
    <3>2. IsFiniteSet(CompId) /\ Cardinality(CompId) <= 255 + 1
      BY <3>1, 255 \in Nat, FS_BoundedSetOfNaturals
    <3>3. Cardinality(CompId) \in Nat
      BY <3>2, FS_CardinalityType
    <3> QED
      BY <3>2, <3>3
  <2>5. m * n \in Nat /\ m * n <= 4096
    OBVIOUS
  <2>6. IsFiniteSet(SystemsOf(i) \X CompId) /\ Cardinality(SystemsOf(i) \X CompId) = m * n
    BY <2>3, <2>4, FS_Product, Zenon
  <2>7. Cardinality(S) \in Nat /\ Cardinality(S) <= m
    BY <2>2, <2>3, FS_Subset, FS_CardinalityType, Zenon
  <2>8. Cardinality(R) \in Nat /\ Cardinality(R) <= m * n
    <3>1. IsFiniteSet(R) /\ Cardinality(R) <= Cardinality(SystemsOf(i) \X CompId)
      BY <2>2, <2>6, FS_Subset, Zenon
    <3>2. Cardinality(R) \in Nat
      BY <3>1, FS_CardinalityType
    <3> QED
      BY <2>6, <3>1, <3>2, Zenon
  <2>9. MaxSystems = 62 /\ MaxRoutes = 6250
    BY DEF SizesOfTheCode
  <2>10. ~(Cardinality(S) >= MaxSystems)
    BY <2>7, <2>9
  <2>11. ~(Cardinality(R) >= MaxRoutes)
    <3> DEFINE p == m * n
    <3>1. p \in Nat /\ p <= 4096 /\ Cardinality(R) <= p
      BY <2>5, <2>8
    <3> HIDE DEF p
    <3> QED
      BY <2>8, <2>9, <3>1
  <2> QED
    BY <2>1, <2>10, <2>11 DEF AtRouteCapacity, AtSystemCapacity
<1> QED
  BY <1>1, Invariance, PTL
-----------------------------------------------------------------------------
(* What more can be said of each shard and of the updates on their way.    *)

\* One step changes a shard only by updating or by pruning it.
LEMMA ShardSteps ==
  ASSUME IInv, [Next]_vars, NEW i \in ShardIndex
  PROVE  \/ shards'[i] = shards[i]
         \/ /\ ApplyUpdate
            /\ Head(batch) \in RouteUpdate /\ ShardOf(Head(batch).sys_id) = i
            /\ shards'[i] \in Updated(shards[i], Head(batch), now)
         \/ /\ PruneNextShard /\ i = pruneAt
            /\ shards'[i] = ShardPrune(shards[i], now, PruneTtl)
<1>1. shards = [j \in ShardIndex |-> shards[j]]
  BY DEF IInv, ShardsOK
<1>2. CASE ApplyUpdate
  <2> DEFINE u == Head(batch)
  <2>1. u \in RouteUpdate
    BY <1>2, HeadTailProperties DEF ApplyUpdate, IInv, TasksOK
  <2>2. PICK n \in Updated(shards[ShardOf(u.sys_id)], u, now) :
          shards' = [shards EXCEPT ![ShardOf(u.sys_id)] = n]
    BY <1>2 DEF ApplyUpdate
  <2> HIDE DEF u
  <2>3. CASE ShardOf(u.sys_id) = i
    <3>1. shards'[i] = n /\ n \in Updated(shards[i], u, now)
      BY <1>1, <2>2, <2>3
    <3> QED
      BY <1>2, <2>1, <2>3, <3>1 DEF u
  <2>4. CASE ShardOf(u.sys_id) # i
    BY <1>1, <2>2, <2>4
  <2> QED
    BY <2>3, <2>4
<1>3. CASE PruneNextShard
  <2>1. shards' = [shards EXCEPT ![pruneAt] = ShardPrune(shards[pruneAt], now, PruneTtl)]
    BY <1>3 DEF PruneNextShard
  <2> QED
    BY <1>1, <1>3, <2>1
<1>4. CASE (\E ep \in EndpointId : Ingress(ep)) \/ Tick \/ Cancel \/ UNCHANGED vars
  BY <1>4 DEF Ingress, Observe, CheckNeeded, Post, DropObservation, Tick, Cancel, vars
<1>5. CASE UpdaterExit \/ Drain \/ StartPrune
  BY <1>5 DEF UpdaterExit, Drain, StartPrune
<1> QED
  BY <1>2, <1>3, <1>4, <1>5 DEF Next, Updater

\* The updates that the tasks and the channel carry are all in S.
CarryOnly(S) ==
  /\ \A ep \in EndpointId : stage[ep] # "idle" => obs[ep] \in S
  /\ queue \in Seq(S) /\ batch \in Seq(S)

\* No task makes an update up: it comes from an observation.
LEMMA Carried ==
  ASSUME IInv, [Next]_vars, NEW S, CarryOnly(S),
         \A t \in Traffic :
           [endpoint_id |-> t[1], sys_id |-> t[2], comp_id |-> t[3], now |-> now] \in S
  PROVE  CarryOnly(S)'
<1> USE DEF CarryOnly, ingressVars, updaterVars
<1>1. ASSUME NEW ep \in EndpointId, Ingress(ep)
      PROVE  CarryOnly(S)'
  <2>1. ASSUME NEW sys \in SysId, NEW comp \in CompId,
               <<ep, sys, comp>> \in Traffic, Observe(ep, sys, comp)
        PROVE  CarryOnly(S)'
    <3>1. [endpoint_id |-> ep, sys_id |-> sys, comp_id |-> comp, now |-> now] \in S
      BY <2>1
    <3> QED
      BY <2>1, <3>1 DEF Observe, IInv, TasksOK
  <2>2. CASE CheckNeeded(ep)
    BY <2>2 DEF CheckNeeded, IInv, TasksOK
  <2>3. CASE Post(ep)
    <3>1. obs[ep] \in S
      BY <2>3 DEF Post
    <3>2. queue' \in Seq(S)
      BY <2>3, <3>1, AppendProperties DEF Post
    <3> QED
      BY <2>3, <3>2 DEF Post, Return, IInv, TasksOK
  <2>4. CASE DropObservation(ep)
    BY <2>4 DEF DropObservation, Return, IInv, TasksOK
  <2> QED
    BY <1>1, <2>1, <2>2, <2>3, <2>4 DEF Ingress
<1>2. CASE Drain
  <2>1. Head(queue) \in S /\ Tail(queue) \in Seq(S)
    BY <1>2, HeadTailProperties DEF Drain, CanDrain
  <2>2. batch' \in Seq(S) /\ queue' \in Seq(S)
    BY <1>2, <2>1, AppendProperties DEF Drain
  <2> QED
    BY <1>2, <2>2 DEF Drain
<1>3. CASE ApplyUpdate
  <2>1. Tail(batch) \in Seq(S)
    BY <1>3, HeadTailProperties DEF ApplyUpdate
  <2> QED
    BY <1>3, <2>1 DEF ApplyUpdate
<1>4. CASE UpdaterExit
  BY <1>4, EmptySeq DEF UpdaterExit
<1>5. CASE StartPrune \/ PruneNextShard \/ Tick \/ Cancel \/ UNCHANGED vars
  BY <1>5 DEF StartPrune, PruneNextShard, Tick, Cancel, vars
<1> QED
  BY <1>1, <1>2, <1>3, <1>4, <1>5 DEF Next, Updater

-----------------------------------------------------------------------------
(* The counts.                                                             *)

\* The endpoint_counts that each operation updates by as much as it changes agree with
\* the entries after any mix of learning, pruning and eviction, so that the statistics
\* know exactly the endpoints that some entry names.
THEOREM CountsAgree == Spec => []CountsExact
<1> DEFINE E == \A i \in ShardIndex : Exact(shards[i])
<1>1. Init => E
  <2>1. Exact(EmptyShard)
    <3>1. ASSUME NEW ep \in EndpointId
          PROVE  Entries(EmptyShard, ep) = 0
      <4>1. \A m : m = EmptyMap => {k \in DOMAIN m : Knows(m, k, ep)} = {}
        BY DEF EmptyMap
      <4>2. Occurrences(EmptyMap, DOMAIN EmptyMap, ep) = 0
        BY <4>1, FS_EmptySet DEF Occurrences
      <4> QED
        BY <4>2 DEF Entries, EmptyShard
    <3> QED
      BY <3>1 DEF Exact, Counted, CountOf, EmptyShard, EmptyMap
  <2> QED
    BY <2>1 DEF Init
<1>2. IInv /\ E /\ [Next]_vars => E'
  <2> SUFFICES ASSUME IInv, E, [Next]_vars, NEW i \in ShardIndex
               PROVE  Exact(shards'[i])
    OBVIOUS
  <2>1. IsShard(shards[i], i) /\ Exact(shards[i]) /\ now \in Nat
    BY DEF IInv, ShardsOK, TasksOK, Instant
  <2> QED
    BY <2>1, ShardSteps, UpdatedExact, PruneExact
<1>3. E => CountsExact
  BY DEF CountsExact, Exact, Counted, Entries
<1> QED
  BY <1>1, <1>2, <1>3, Invariance, PTL DEF Spec

-----------------------------------------------------------------------------
(* Where the entries come from.                                            *)

\* The updates of what some endpoint may hear.
Heard == {u \in RouteUpdate : <<u.endpoint_id, u.sys_id, u.comp_id>> \in Traffic}

LearnedFromTraffic ==
  /\ CarryOnly(Heard)
  /\ \A i \in ShardIndex : From(shards[i], Traffic)

LEMMA LearnedStep ==
  ASSUME IInv, LearnedFromTraffic, [Next]_vars
  PROVE  LearnedFromTraffic'
<1>1. CarryOnly(Heard)'
  <2>1. \A t \in Traffic :
          [endpoint_id |-> t[1], sys_id |-> t[2], comp_id |-> t[3], now |-> now] \in Heard
    <3> TAKE t \in Traffic
    <3> DEFINE u == [endpoint_id |-> t[1], sys_id |-> t[2], comp_id |-> t[3], now |-> now]
    <3>1. t[1] \in EndpointId /\ t[2] \in SysId /\ t[3] \in CompId
          /\ t = <<t[1], t[2], t[3]>> /\ now \in Instant
      BY LearningAssumption DEF LearningAssumption, IInv, TasksOK
    <3>2. u \in RouteUpdate
      BY <3>1 DEF RouteUpdate
    <3>3. <<u.endpoint_id, u.sys_id, u.comp_id>> \in Traffic
      BY <3>1
    <3> QED
      BY <3>2, <3>3 DEF Heard
  <2> QED
    BY <2>1, Carried DEF LearnedFromTraffic
<1>2. ASSUME NEW i \in ShardIndex
      PROVE  From(shards'[i], Traffic)
  <2>1. IsShard(shards[i], i) /\ From(shards[i], Traffic) /\ now \in Nat
    BY DEF IInv, ShardsOK, TasksOK, Instant, LearnedFromTraffic
  <2>2. CASE shards'[i] = shards[i]
    BY <2>1, <2>2
  <2>3. CASE /\ ApplyUpdate
             /\ Head(batch) \in RouteUpdate /\ ShardOf(Head(batch).sys_id) = i
             /\ shards'[i] \in Updated(shards[i], Head(batch), now)
    <3>1. Head(batch) \in Heard
      BY <2>3, HeadTailProperties DEF ApplyUpdate, LearnedFromTraffic, CarryOnly
    <3> QED
      BY <2>1, <2>3, <3>1, UpdatedFrom DEF Heard
  <2>4. CASE shards'[i] = ShardPrune(shards[i], now, PruneTtl)
    <3>1. Fewer(shards'[i], shards[i])
      BY <2>1, <2>4, PruneFewer
    <3> QED
      BY <2>1, <3>1 DEF Fewer, From
  <2> QED
    BY <2>2, <2>3, <2>4, ShardSteps
<1> QED
  BY <1>1, <1>2 DEF LearnedFromTraffic

\* No frame goes where nobody asked for it: should_send says yes to an endpoint only for a
\* system that it, or one of its group, may have heard, or when it may have heard a sniffer;
\* no update, pruning or eviction, in whatever order, puts an endpoint into an entry of
\* another system.
THEOREM OnlyToHearers == Spec => []ForwardsOnlyToHearers
<1>1. Init => LearnedFromTraffic
  <2>1. Init => CarryOnly(Heard)
    BY EmptySeq DEF Init, CarryOnly
  <2>2. From(EmptyShard, Traffic)
    BY DEF From, EmptyShard, EmptyMap
  <2> QED
    BY <2>1, <2>2 DEF Init, LearnedFromTraffic
<1>2. IInv /\ LearnedFromTraffic => ForwardsOnlyToHearers
  <2> SUFFICES ASSUME IInv, LearnedFromTraffic,
                      NEW ep \in EndpointId, NEW sys \in SysId, NEW comp \in CompId \cup {0},
                      ShouldSend(shards, ep, sys, comp)
               PROVE  \/ \E t \in Traffic : t[1] = ep /\ t[2] \in SnifferSysids
                      \/ \E t \in Traffic :
                           /\ t[2] = sys
                           /\ t[1] = ep \/ ({t[1], ep} \subseteq DOMAIN Group
                                              /\ Group[t[1]] = Group[ep])
    BY DEF ForwardsOnlyToHearers
  <2>1. \A s \in 0 .. 255 : ShardOf(s) \in ShardIndex
    BY TableAssumption DEF TableAssumption, ShardOf, ShardIndex
  <2>2. CASE IsSniffer(shards, ep)
    <3>1. PICK s \in SnifferSysids : Knows(shards[ShardOf(s)].sys_routes, s, ep)
      BY <2>2 DEF IsSniffer
    <3>2. ShardOf(s) \in ShardIndex
      BY <2>1, TableAssumption DEF TableAssumption
    <3>3. \E c \in CompId : <<ep, s, c>> \in Traffic
      BY <3>1, <3>2 DEF Knows, LearnedFromTraffic, From
    <3> QED
      BY <3>3
  <2>3. CASE ~IsSniffer(shards, ep)
    <3> DEFINE sh == shards[ShardOf(sys)]
    <3>1. From(sh, Traffic) /\ sys # 0
      BY <2>1, TableAssumption DEF TableAssumption, LearnedFromTraffic
    <3>2. \/ /\ sys \in DOMAIN sh.sys_routes /\ Reaches(sh.sys_routes[sys], ep)
          \/ <<sys, comp>> \in DOMAIN sh.routes /\ Reaches(sh.routes[<<sys, comp>>], ep)
      BY <2>3, <3>1 DEF ShouldSend
    <3> HIDE DEF sh
    <3>3. PICK o : /\ \E t \in Traffic : t[1] = o /\ t[2] = sys
                   /\ o = ep \/ ({o, ep} \subseteq DOMAIN Group /\ Group[o] = Group[ep])
      <4>1. ASSUME NEW entry, Reaches(entry, ep),
                   \A o \in entry.endpoints : \E t \in Traffic : t[1] = o /\ t[2] = sys
            PROVE  \E o : /\ \E t \in Traffic : t[1] = o /\ t[2] = sys
                          /\ o = ep \/ ({o, ep} \subseteq DOMAIN Group /\ Group[o] = Group[ep])
        BY <4>1 DEF Reaches, AnyInSameGroup
      <4>2. CASE sys \in DOMAIN sh.sys_routes /\ Reaches(sh.sys_routes[sys], ep)
        <5>1. \A o \in sh.sys_routes[sys].endpoints : \E t \in Traffic : t[1] = o /\ t[2] = sys
          BY <3>1, <4>2 DEF From
        <5> QED
          BY <4>1, <4>2, <5>1
      <4>3. CASE <<sys, comp>> \in DOMAIN sh.routes /\ Reaches(sh.routes[<<sys, comp>>], ep)
        <5>1. \A o \in sh.routes[<<sys, comp>>].endpoints :
                \E t \in Traffic : t[1] = o /\ t[2] = sys
          BY <3>1, <4>3 DEF From
        <5> QED
          BY <4>1, <4>3, <5>1
      <4> QED
        BY <3>2, <4>2, <4>3
    <3> QED
      BY <3>3
  <2> QED
    BY <2>2, <2>3
<1> QED
  BY <1>1, <1>2, LearnedStep, Invariance, PTL DEF Spec
-----------------------------------------------------------------------------
(* What a step may forget.                                                 *)

\* The reason for which the entry k of shard i is gone after the step.
MayForget(i, k) ==
  LET sh  == shards[i]
      age == Elapsed(now, sh.routes[k].last_seen)
  IN \/ updater = "pruning" /\ age > PruneTtl
     \/ AtRouteCapacity(sh) /\ age > CapacityPruneAge
     \/ /\ AtSystemCapacity(sh)
        /\ \A s \in DOMAIN sh.sys_routes \cap DOMAIN shards'[i].sys_routes :
             \/ s = Head(batch).sys_id
             \/ k[1] \in DOMAIN sh.sys_routes
                  /\ sh.sys_routes[k[1]].last_seen <= sh.sys_routes[s].last_seen

\* A route is forgotten only because its time is up, or because its shard is full and it
\* is past the shorter time that then applies, or belongs to a system that is as old as
\* any: an update or a pruning never takes a route along that has none of these reasons.
THEOREM ForgottenForAReason == Spec => ForgetsOnlyWhatItMay
<1>1. ASSUME IInv, [Next]_vars, NEW i \in ShardIndex,
             NEW k \in DOMAIN shards[i].routes \ DOMAIN shards'[i].routes
      PROVE  MayForget(i, k)
  <2>1. IsShard(shards[i], i) /\ now \in Nat
    BY <1>1 DEF IInv, ShardsOK, TasksOK, Instant
  <2>2. CASE shards'[i] = shards[i]
    BY <2>2
  <2>3. CASE /\ ApplyUpdate
             /\ Head(batch) \in RouteUpdate /\ ShardOf(Head(batch).sys_id) = i
             /\ shards'[i] \in Updated(shards[i], Head(batch), now)
    <3> DEFINE sh == shards[i]
               n == shards'[i]
               u == Head(batch)
    <3>1. PICK r \in MakeRoom(sh, now) : n = Learn(r, u)
      BY <2>3 DEF Updated
    <3>2. Fewer(r, sh) /\ \A q \in DOMAIN sh.routes \ DOMAIN r.routes : MayGo(sh, r, now, q)
      BY <2>1, MakeRoomForgets
    <3>3. /\ DOMAIN n.routes = DOMAIN r.routes \cup {<<u.sys_id, u.comp_id>>}
          /\ DOMAIN n.sys_routes = DOMAIN r.sys_routes \cup {u.sys_id}
      <4> HIDE DEF sh, n, u
      <4> QED
        BY <3>1 DEF Learn, Touch
    <3>4. MayGo(sh, r, now, k)
      BY <3>2, <3>3
    <3> HIDE DEF sh, n, u
    <3>5. \/ AtRouteCapacity(sh) /\ Elapsed(now, sh.routes[k].last_seen) > CapacityPruneAge
          \/ /\ AtSystemCapacity(sh)
             /\ \A s \in DOMAIN sh.sys_routes \cap DOMAIN n.sys_routes :
                  \/ s = u.sys_id
                  \/ k[1] \in DOMAIN sh.sys_routes
                       /\ sh.sys_routes[k[1]].last_seen <= sh.sys_routes[s].last_seen
      BY <3>3, <3>4 DEF MayGo
    <3> QED
      BY <3>5 DEF MayForget, sh, n, u
  <2>4. CASE /\ PruneNextShard
             /\ shards'[i] = ShardPrune(shards[i], now, PruneTtl)
    <3>1. Elapsed(now, shards[i].routes[k].last_seen) > PruneTtl
      BY <2>1, <2>4, PruneFewer
    <3> QED
      BY <2>4, <3>1 DEF PruneNextShard, MayForget
  <2> QED
    BY <1>1, <2>2, <2>3, <2>4, ShardSteps
<1> DEFINE Forgets == \A i \in ShardIndex :
                        \A k \in DOMAIN shards[i].routes \ DOMAIN shards'[i].routes :
                          MayForget(i, k)
<1>2. IInv /\ [Next]_vars => [Forgets]_vars
  BY <1>1
<1>3. Forgets <=> \A i \in ShardIndex :
       \A k \in DOMAIN shards[i].routes \ DOMAIN shards'[i].routes :
         LET sh  == shards[i]
             age == Elapsed(now, sh.routes[k].last_seen)
         IN \/ updater = "pruning" /\ age > PruneTtl
            \/ AtRouteCapacity(sh) /\ age > CapacityPruneAge
            \/ /\ AtSystemCapacity(sh)
               /\ \A s \in DOMAIN sh.sys_routes \cap DOMAIN shards'[i].sys_routes :
                    \/ s = Head(batch).sys_id
                    \/ k[1] \in DOMAIN sh.sys_routes
                         /\ sh.sys_routes[k[1]].last_seen <= sh.sys_routes[s].last_seen
  BY DEF MayForget
<1> HIDE DEF Forgets
<1> QED
  BY <1>2, <1>3, Invariance, PTL DEF Spec, ForgetsOnlyWhatItMay

-----------------------------------------------------------------------------
(* How old an entry gets when the tasks finish before the clock moves on.  *)

UpdatesAt(t) == {u \in RouteUpdate : u.now = t}

\* Nothing in shard i was last seen before this: it has been pruned since, if it has
\* been its turn in the pruning that is under way.
SeenSince(i) ==
  (nextPrune - PruneInterval) - PruneTtl
    - (IF updater = "pruning" /\ pruneAt <= i THEN PruneInterval ELSE 0)

\* While the updater is there, it is never late to prune, and whatever is on its way has
\* been observed now.
OnTime ==
  updater # "exited" =>
    /\ now <= nextPrune /\ nextPrune <= now + PruneInterval
    /\ updater = "pruning" => nextPrune = now + PruneInterval
    /\ CarryOnly(UpdatesAt(now))
    /\ \A i \in ShardIndex : SeenWithin(shards[i], SeenSince(i), now)

LEMMA TimelyKeeps ==
  ASSUME IInv, OnTime, Next /\ (now' # now => Quiet)
  PROVE  OnTime'
<1> SUFFICES ASSUME updater' # "exited"
             PROVE  /\ now' <= nextPrune' /\ nextPrune' <= now' + PruneInterval
                    /\ updater' = "pruning" => nextPrune' = now' + PruneInterval
                    /\ CarryOnly(UpdatesAt(now))'
                    /\ \A i \in ShardIndex : SeenWithin(shards[i], SeenSince(i), now)'
  BY DEF OnTime
<1> USE DEF ingressVars, updaterVars
<1>1. /\ now \in Nat /\ nextPrune \in Nat /\ PruneInterval \in Nat \ {0} /\ PruneTtl \in Nat
      /\ pruneAt \in Nat
  BY LearningAssumption, TableAssumption
  DEF LearningAssumption, TableAssumption, IInv, TasksOK, Instant, ShardIndex
<1>2. updater # "exited"
  BY DEF Next, Ingress, Observe, CheckNeeded, Post, DropObservation, Updater, UpdaterExit,
         Drain, ApplyUpdate, StartPrune, PruneNextShard, Tick, Cancel, CanDrain, IInv, TasksOK
<1>3. /\ now <= nextPrune /\ nextPrune <= now + PruneInterval
      /\ updater = "pruning" => nextPrune = now + PruneInterval
      /\ CarryOnly(UpdatesAt(now))
      /\ \A i \in ShardIndex : SeenWithin(shards[i], SeenSince(i), now)
  BY <1>2 DEF OnTime
<1>4. CASE Tick
  <2>1. /\ queue = <<>> /\ batch = <<>> /\ updater = "select" /\ now < nextPrune
        /\ \A ep \in EndpointId : stage[ep] = "idle"
        /\ now' = now + 1 /\ UNCHANGED <<shards, queue, stage, obs, updater, batch, pruneAt, nextPrune>>
    BY <1>1, <1>2, <1>4 DEF Tick, Quiet
  <2>2. CarryOnly(UpdatesAt(now))'
    BY <2>1, EmptySeq DEF CarryOnly
  <2>3. \A i \in ShardIndex : SeenWithin(shards[i], SeenSince(i), now)'
    <3>1. \A i \in ShardIndex : SeenSince(i)' = SeenSince(i)
      BY <2>1 DEF SeenSince
    <3>2. \A i \in ShardIndex : SeenWithin(shards[i], SeenSince(i), now + 1)
      <4> SUFFICES ASSUME NEW i \in ShardIndex
                   PROVE  SeenWithin(shards[i], SeenSince(i), now + 1)
        OBVIOUS
      <4>1. IsShard(shards[i], i) /\ SeenWithin(shards[i], SeenSince(i), now)
        BY <1>3 DEF IInv, ShardsOK
      <4>2. /\ \A k \in DOMAIN shards[i].routes : shards[i].routes[k].last_seen \in Nat
            /\ \A s \in DOMAIN shards[i].sys_routes : shards[i].sys_routes[s].last_seen \in Nat
        BY <4>1 DEF IsShard, IsMap, RouteEntry, Instant
      <4> QED
        BY <1>1, <4>1, <4>2 DEF SeenWithin
    <3> QED
      BY <2>1, <3>1, <3>2
  <2> QED
    BY <1>1, <1>3, <2>1, <2>2, <2>3
<1>5. CASE now' = now
  <2>1. CarryOnly(UpdatesAt(now))'
    <3>1. \A t \in Traffic :
            [endpoint_id |-> t[1], sys_id |-> t[2], comp_id |-> t[3], now |-> now]
              \in UpdatesAt(now)
      BY LearningAssumption DEF LearningAssumption, UpdatesAt, RouteUpdate, IInv, TasksOK
    <3> DEFINE S == UpdatesAt(now)
    <3>2. CarryOnly(S) /\ \A t \in Traffic :
            [endpoint_id |-> t[1], sys_id |-> t[2], comp_id |-> t[3], now |-> now] \in S
      BY <1>3, <3>1
    <3>3. S' = S
      BY <1>5 DEF UpdatesAt
    <3> QED
      BY <3>2, <3>3, Carried DEF CarryOnly
  <2>2. \A i \in ShardIndex : SeenSince(i) \in Int
    BY <1>1 DEF SeenSince
  <2>3. CASE StartPrune
    <3>1. /\ updater # "pruning" /\ updater' = "pruning" /\ pruneAt' = 0
          /\ nextPrune = now /\ nextPrune' = nextPrune + PruneInterval /\ shards' = shards
      BY <1>1, <1>3, <2>3 DEF StartPrune
    <3>2. \A i \in ShardIndex : SeenSince(i)' = SeenSince(i)
      <4>1. \A i \in ShardIndex : 0 <= i
        BY DEF ShardIndex
      <4> QED
        BY <1>1, <3>1, <4>1 DEF SeenSince
    <3> QED
      BY <1>1, <1>3, <1>5, <2>1, <3>1, <3>2
  <2>4. CASE PruneNextShard
    <3>1. /\ updater = "pruning" /\ nextPrune' = nextPrune
          /\ shards' = [shards EXCEPT ![pruneAt] = ShardPrune(shards[pruneAt], now, PruneTtl)]
          /\ \/ pruneAt = ShardCount - 1 /\ updater' = "select"
             \/ updater' = "pruning" /\ pruneAt' = pruneAt + 1
      BY <2>4 DEF PruneNextShard
    <3>2. \A i \in ShardIndex : SeenWithin(shards'[i], SeenSince(i)', now)
      <4> SUFFICES ASSUME NEW i \in ShardIndex
                   PROVE  SeenWithin(shards'[i], SeenSince(i)', now)
        OBVIOUS
      <4>1. IsShard(shards[i], i) /\ SeenWithin(shards[i], SeenSince(i), now)
            /\ shards = [j \in ShardIndex |-> shards[j]] /\ pruneAt \in ShardIndex
        BY <1>3 DEF IInv, ShardsOK, TasksOK
      <4>2. i \in Nat /\ i <= ShardCount - 1 /\ ShardCount \in Nat
        BY TableAssumption DEF TableAssumption, ShardIndex
      <4>3. CASE i = pruneAt
        <5>1. shards'[i] = ShardPrune(shards[i], now, PruneTtl)
          BY <3>1, <4>1, <4>3
        <5>2. SeenWithin(shards'[i], now - PruneTtl, now)
          BY <1>1, <2>2, <4>1, <5>1, PruneSeen
        <5>3. SeenSince(i)' = now - PruneTtl
          BY <1>1, <1>3, <3>1, <4>3 DEF SeenSince
        <5> QED
          BY <5>2, <5>3
      <4>4. CASE i # pruneAt
        <5>1. shards'[i] = shards[i]
          BY <3>1, <4>1, <4>4
        <5>2. SeenSince(i)' = SeenSince(i)
          BY <1>1, <3>1, <4>2, <4>4 DEF SeenSince
        <5> QED
          BY <4>1, <5>1, <5>2
      <4> QED
        BY <4>3, <4>4
    <3> QED
      BY <1>1, <1>3, <1>5, <2>1, <3>1, <3>2
  <2>5. CASE ~StartPrune /\ ~PruneNextShard
    <3>1. /\ nextPrune' = nextPrune /\ pruneAt' = pruneAt
          /\ (updater' = "pruning") <=> (updater = "pruning")
      BY <2>5 DEF Next, Ingress, Observe, CheckNeeded, Post, DropObservation, Updater,
                  UpdaterExit, Drain, ApplyUpdate, CanDrain, Tick, Cancel, IInv, TasksOK
    <3>2. \A i \in ShardIndex : SeenSince(i)' = SeenSince(i)
      BY <3>1 DEF SeenSince
    <3>3. ASSUME NEW i \in ShardIndex
          PROVE  SeenWithin(shards'[i], SeenSince(i), now)
      <4>1. IsShard(shards[i], i) /\ SeenWithin(shards[i], SeenSince(i), now)
        BY <1>3 DEF IInv, ShardsOK
      <4>2. CASE shards'[i] = shards[i]
        BY <4>1, <4>2
      <4>3. CASE /\ ApplyUpdate
                 /\ Head(batch) \in RouteUpdate /\ ShardOf(Head(batch).sys_id) = i
                 /\ shards'[i] \in Updated(shards[i], Head(batch), now)
        <5>1. Head(batch) \in UpdatesAt(now)
          BY <1>3, <4>3, HeadTailProperties DEF ApplyUpdate, CarryOnly
        <5>2. Head(batch).now = now
          BY <5>1 DEF UpdatesAt
        <5>3. SeenSince(i) <= now
          BY <1>1, <1>3 DEF SeenSince
        <5> QED
          BY <1>1, <2>2, <4>1, <4>3, <5>2, <5>3, UpdatedSeen
      <4> QED
        BY <2>5, <4>2, <4>3, ShardSteps
    <3> QED
      BY <1>3, <1>5, <2>1, <3>1, <3>2, <3>3
  <2> QED
    BY <2>3, <2>4, <2>5
<1>6. Tick \/ now' = now
  BY DEF Next, Ingress, Observe, CheckNeeded, Post, DropObservation, Updater, UpdaterExit,
         Drain, ApplyUpdate, StartPrune, PruneNextShard, Cancel
<1> QED
  BY <1>4, <1>5, <1>6

\* While the tasks keep up with the clock, no route and no system is ever older than the
\* TTL plus one prune interval, in any shard: the pruning comes round to every shard.
THEOREM EntriesExpire == TimelySpec => []StaleBound
<1>1. Init => OnTime
  <2> SUFFICES ASSUME Init PROVE OnTime
    OBVIOUS
  <2>1. \A i \in ShardIndex : SeenWithin(shards[i], SeenSince(i), now)
    BY DEF Init, SeenWithin, EmptyShard, EmptyMap
  <2>2. CarryOnly(UpdatesAt(now))
    BY EmptySeq DEF Init, CarryOnly
  <2> QED
    BY <2>1, <2>2, LearningAssumption DEF Init, OnTime, LearningAssumption
<1>2. IInv /\ OnTime /\ [Next /\ (now' # now => Quiet)]_vars => IInv' /\ OnTime'
  <2> SUFFICES ASSUME IInv, OnTime, [Next /\ (now' # now => Quiet)]_vars
               PROVE  IInv' /\ OnTime'
    OBVIOUS
  <2>1. IInv'
    BY IngressStep, UpdaterStep, EnvironmentStep DEF Next
  <2>2. CASE UNCHANGED vars
    <3>1. OnTime'
      BY <2>2 DEF vars, OnTime, CarryOnly, UpdatesAt, SeenSince
    <3> QED
      BY <2>1, <3>1
  <2> QED
    BY <2>1, <2>2, TimelyKeeps
<1>3. IInv /\ OnTime => StaleBound
  <2> SUFFICES ASSUME IInv, OnTime, updater # "exited", NEW i \in ShardIndex
               PROVE  /\ \A k \in DOMAIN shards[i].routes :
                           Elapsed(now, shards[i].routes[k].last_seen)
                             <= PruneTtl + PruneInterval
                      /\ \A s \in DOMAIN shards[i].sys_routes :
                           Elapsed(now, shards[i].sys_routes[s].last_seen)
                             <= PruneTtl + PruneInterval
    BY DEF StaleBound
  <2>1. /\ now \in Nat /\ nextPrune \in Nat /\ PruneInterval \in Nat /\ PruneTtl \in Nat
    BY LearningAssumption DEF LearningAssumption, IInv, TasksOK, Instant
  <2>2. now <= SeenSince(i) + (PruneTtl + PruneInterval) /\ SeenSince(i) \in Int
    BY <2>1 DEF OnTime, SeenSince
  <2>3. IsShard(shards[i], i) /\ SeenWithin(shards[i], SeenSince(i), now)
    BY DEF IInv, ShardsOK, OnTime
  <2>4. /\ \A k \in DOMAIN shards[i].routes : shards[i].routes[k].last_seen \in Nat
        /\ \A s \in DOMAIN shards[i].sys_routes : shards[i].sys_routes[s].last_seen \in Nat
    BY <2>3 DEF IsShard, IsMap, RouteEntry, Instant
  <2> QED
    BY <2>1, <2>2, <2>3, <2>4 DEF SeenWithin, Elapsed
<1> QED
  BY <1>1, <1>2, <1>3, InitIInv, PTL DEF TimelySpec
=============================================================================
