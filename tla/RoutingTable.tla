---------------------------- MODULE RoutingTable ----------------------------
(***************************************************************************)
(* The sharded routing table of src/routing as a value and the operations  *)
(* on it.  A shard is a record of three maps (functions on the keys that   *)
(* are present); every operation that the code runs under one shard's      *)
(* write lock is one operator on such a record.  There is no state here:   *)
(* RouteLearning holds the shards and decides who calls what, and when.    *)
(***************************************************************************)
EXTENDS Integers, FiniteSets, Functions

CONSTANTS
  EndpointId,        \* endpoints, TCP client connections included
  SysId,             \* system ids that send (0 is a placeholder, never learned)
  CompId,            \* component ids
  ShardCount,        \* SHARD_COUNT
  MaxRoutes,         \* MAX_ROUTES_PER_SHARD
  MaxSystems,        \* MAX_SYSTEMS_PER_SHARD
  RefreshAge,        \* age from which a known route is reported again (1 s)
  CapacityPruneAge,  \* age pruned when a shard is full (60 s)
  Group,             \* [configured endpoint -> group name], only the grouped ones
  SnifferSysids      \* GroupConfig.sniffer_sysids

ASSUME TableAssumption ==
  /\ SysId \subseteq 1..255
  /\ CompId \subseteq 0..255
  /\ ShardCount \in Nat \ {0}
  /\ MaxRoutes \in Nat \ {0} /\ MaxSystems \in Nat \ {0}
  /\ RefreshAge \in Nat /\ CapacityPruneAge \in Nat
  /\ DOMAIN Group \subseteq EndpointId
  /\ SnifferSysids \subseteq 0..255

ShardIndex == 0 .. (ShardCount - 1)

\* sys_id & SHARD_MASK, with SHARD_COUNT a power of two.
ShardOf(sys) == sys % ShardCount

-----------------------------------------------------------------------------
(* The types.  A map holds exactly the keys of its domain.                 *)

Instant == Nat

RouteEntry == [endpoints : SUBSET EndpointId, last_seen : Instant]

RouteUpdate ==
  [endpoint_id : EndpointId, sys_id : SysId, comp_id : CompId, now : Instant]

IsMap(f, Keys, Values) ==
  /\ f = [k \in DOMAIN f |-> f[k]]
  /\ DOMAIN f \subseteq Keys
  /\ \A k \in DOMAIN f : f[k] \in Values

\* A key lives in the shard its system id selects, and only there.
SystemsOf(i) == {s \in SysId : ShardOf(s) = i}

IsShard(sh, i) ==
  /\ sh = [routes |-> sh.routes, sys_routes |-> sh.sys_routes,
           endpoint_counts |-> sh.endpoint_counts]
  /\ IsMap(sh.routes, SystemsOf(i) \X CompId, RouteEntry)
  /\ IsMap(sh.sys_routes, SystemsOf(i), RouteEntry)
  /\ IsMap(sh.endpoint_counts, EndpointId, Nat)

EmptyMap == [k \in {} |-> {}]

EmptyShard ==
  [routes |-> EmptyMap, sys_routes |-> EmptyMap, endpoint_counts |-> EmptyMap]

-----------------------------------------------------------------------------
(* Instants.  duration_since is zero when the other instant is later.      *)

Elapsed(now, since) == IF since <= now THEN now - since ELSE 0

Expired(map, now, age) == {k \in DOMAIN map : Elapsed(now, map[k].last_seen) > age}

Knows(map, key, ep) == key \in DOMAIN map /\ ep \in map[key].endpoints

-----------------------------------------------------------------------------
(* endpoint_counts: in how many entries of the shard an endpoint occurs.   *)

\* The number of entries with a key in Keys that name ep.
Occurrences(map, Keys, ep) == Cardinality({k \in Keys : Knows(map, k, ep)})

CountOf(counts, ep) == IF ep \in DOMAIN counts THEN counts[ep] ELSE 0

CountUp(counts, ep) ==
  [e \in DOMAIN counts \cup {ep} |->
     CountOf(counts, e) + (IF e = ep THEN 1 ELSE 0)]

SaturatingSub(a, b) == IF b <= a THEN a - b ELSE 0

\* Forget the entries of sh with a key in gone (component routes) or goneSys.
\* An endpoint whose count reaches zero leaves the counts.
Without(sh, gone, goneSys) ==
  LET lost(ep) == Occurrences(sh.routes, gone, ep)
                    + Occurrences(sh.sys_routes, goneSys, ep)
      left(ep) == SaturatingSub(sh.endpoint_counts[ep], lost(ep))
  IN [routes          |-> Restrict(sh.routes, DOMAIN sh.routes \ gone),
      sys_routes      |-> Restrict(sh.sys_routes, DOMAIN sh.sys_routes \ goneSys),
      endpoint_counts |->
        [ep \in {e \in DOMAIN sh.endpoint_counts : lost(e) = 0 \/ left(e) > 0}
            |-> left(ep)]]

-----------------------------------------------------------------------------
(* Expiry and eviction.                                                    *)

\* Mutant of ShardPrune: the component routes expire one unit earlier.
ShardPruneUneven(sh, now, maxAge) ==
  Without(sh, Expired(sh.routes, now + 1, maxAge), Expired(sh.sys_routes, now, maxAge))

ShardPrune(sh, now, maxAge) ==
  Without(sh, Expired(sh.routes, now, maxAge), Expired(sh.sys_routes, now, maxAge))

\* Mutant of OldestSystems: takes the greatest last_seen.
NewestSystems(sh) ==
  {s \in DOMAIN sh.sys_routes :
     \A o \in DOMAIN sh.sys_routes :
        sh.sys_routes[s].last_seen >= sh.sys_routes[o].last_seen}

\* Systems with the least last_seen: ties are broken by hash-map order.
OldestSystems(sh) ==
  {s \in DOMAIN sh.sys_routes :
     \A o \in DOMAIN sh.sys_routes :
        sh.sys_routes[s].last_seen <= sh.sys_routes[o].last_seen}

\* Mutant of RemoveSystem: the component routes leave uncounted.
RemoveSystemUncounted(sh, sys) ==
  [Without(sh, {}, {sys}) EXCEPT
     !.routes = Restrict(@, {k \in DOMAIN @ : k[1] # sys})]

RemoveSystem(sh, sys) ==
  Without(sh, {k \in DOMAIN sh.routes : k[1] = sys}, {sys})

AtRouteCapacity(sh) == Cardinality(DOMAIN sh.routes) >= MaxRoutes

AtSystemCapacity(sh) == Cardinality(DOMAIN sh.sys_routes) >= MaxSystems

\* The shards that can result from making room before an insertion.
MakeRoom(sh, now) ==
  LET pruned == IF AtRouteCapacity(sh)
                  THEN ShardPrune(sh, now, CapacityPruneAge) ELSE sh
  IN IF AtSystemCapacity(pruned)
       THEN {RemoveSystem(pruned, s) : s \in OldestSystems(pruned)}
       ELSE {pruned}

-----------------------------------------------------------------------------
(* Learning.                                                               *)

\* entry(key).and_modify(..).or_insert_with(..): the endpoint joins the
\* entry, and last_seen becomes t, which may be earlier than it was.
Touch(map, key, ep, t) ==
  [k \in DOMAIN map \cup {key} |->
     IF k = key
       THEN [endpoints |-> {ep} \cup (IF key \in DOMAIN map
                                        THEN map[key].endpoints ELSE {}),
             last_seen |-> t]
       ELSE map[k]]

CountIfNew(counts, map, key, ep) ==
  IF Knows(map, key, ep) THEN counts ELSE CountUp(counts, ep)

\* Mutant of Learn: a known system is not refreshed.
LearnSystemOnce(sh, u) ==
  LET key == <<u.sys_id, u.comp_id>>
  IN [routes          |-> Touch(sh.routes, key, u.endpoint_id, u.now),
      sys_routes      |-> IF Knows(sh.sys_routes, u.sys_id, u.endpoint_id)
                            THEN sh.sys_routes
                            ELSE Touch(sh.sys_routes, u.sys_id, u.endpoint_id, u.now),
      endpoint_counts |-> sh.endpoint_counts]

Learn(sh, u) ==
  LET key    == <<u.sys_id, u.comp_id>>
      counts == CountIfNew(sh.endpoint_counts, sh.routes, key, u.endpoint_id)
  IN [routes     |-> Touch(sh.routes, key, u.endpoint_id, u.now),
      sys_routes |-> Touch(sh.sys_routes, u.sys_id, u.endpoint_id, u.now),
      endpoint_counts |->
        CountIfNew(counts, sh.sys_routes, u.sys_id, u.endpoint_id)]

\* RoutingTable::update: the shards it may leave when it runs at time now.
Updated(sh, u, now) == {Learn(roomy, u) : roomy \in MakeRoom(sh, now)}

\* Mutant of Stale: whoever has refreshed the entry, it is no news.
StaleEntry(map, key, ep, now) ==
  \/ key \notin DOMAIN map
  \/ Elapsed(now, map[key].last_seen) >= RefreshAge

\* RoutingTable::needs_update_for_endpoint, for one of the two maps.
Stale(map, key, ep, now) ==
  \/ ~Knows(map, key, ep)
  \/ Elapsed(now, map[key].last_seen) >= RefreshAge

NeedsUpdate(sh, u) ==
  \/ Stale(sh.routes, <<u.sys_id, u.comp_id>>, u.endpoint_id, u.now)
  \/ Stale(sh.sys_routes, u.sys_id, u.endpoint_id, u.now)

-----------------------------------------------------------------------------
(* How the two maps of a shard relate.                                     *)

\* Does u reach its system's entry after an update with a later time?
OutOfOrder(sh, u) ==
  /\ u.sys_id \in DOMAIN sh.sys_routes
  /\ u.now < sh.sys_routes[u.sys_id].last_seen

\* Every system entry has the time of one of the system's components.
Backed(sh) ==
  \A s \in DOMAIN sh.sys_routes :
    \E c \in CompId :
      /\ <<s, c>> \in DOMAIN sh.routes
      /\ sh.routes[<<s, c>>].last_seen = sh.sys_routes[s].last_seen

\* Every component entry, but for those of the systems in late, is covered by
\* its system's entry.
Coupled(sh, late) ==
  \A k \in DOMAIN sh.routes :
    \/ k[1] \in late
    \/ /\ k[1] \in DOMAIN sh.sys_routes
       /\ sh.routes[k].endpoints \subseteq sh.sys_routes[k[1]].endpoints
       /\ sh.routes[k].last_seen <= sh.sys_routes[k[1]].last_seen

-----------------------------------------------------------------------------
(* Forwarding.  The group and sniffer configuration is written at start    *)
(* only, so it is a constant.  endpoint_groups is Group, and group_members *)
(* is its inverse.                                                         *)

\* Mutant of AnyInSameGroup: being in some group is enough.
AnyInAGroup(endpoints, ep) ==
  ep \in DOMAIN Group /\ \E o \in endpoints : o \in DOMAIN Group

AnyInSameGroup(endpoints, ep) ==
  /\ ep \in DOMAIN Group
  /\ \E o \in endpoints : o \in DOMAIN Group /\ Group[o] = Group[ep]

Reaches(entry, ep) ==
  ep \in entry.endpoints \/ AnyInSameGroup(entry.endpoints, ep)

\* shards: the whole table, [ShardIndex -> shard].
IsSniffer(shards, ep) ==
  \E s \in SnifferSysids : Knows(shards[ShardOf(s)].sys_routes, s, ep)

\* RoutingTable::should_send, for a frame to component comp of system sys; 0
\* is "all systems" and "all components".
ShouldSend(shards, ep, sys, comp) ==
  LET sh == shards[ShardOf(sys)]
  IN \/ IsSniffer(shards, ep)
     \/ sys = 0
     \/ /\ sys \in DOMAIN sh.sys_routes
        /\ IF comp # 0 /\ <<sys, comp>> \in DOMAIN sh.routes
             THEN Reaches(sh.routes[<<sys, comp>>], ep)
             ELSE Reaches(sh.sys_routes[sys], ep)
=============================================================================
