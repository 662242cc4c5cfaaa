--------------------------- MODULE RouteLearning ----------------------------
(***************************************************************************)
(* How routes are learned and forgotten.  Every endpoint's ingress task    *)
(* runs observe_route: it takes the time, reads one shard to see whether   *)
(* the observation is news, and posts a RouteUpdate with try_send on a     *)
(* bounded queue.  One updater task drains the queue in batches, applies   *)
(* the updates in queue order, and prunes the shards one after the other   *)
(* when its timer fires.  The three steps of an ingress task interleave    *)
(* with everything else, so an update may be posted, and applied, after    *)
(* one that carries a later time.                                          *)
(***************************************************************************)
EXTENDS RoutingTable, Sequences

CONSTANTS
  Traffic,        \* <<endpoint, sys, comp>>: who may be heard where
  QueueCapacity,  \* ROUTE_UPDATE_QUEUE_CAPACITY
  BatchSize,      \* ROUTE_UPDATE_BATCH_SIZE
  PruneTtl,       \* routing_table_ttl_secs
  PruneInterval,  \* routing_table_prune_interval_secs, validated to be > 0
  MaxTime         \* bound: the clock stops here

ASSUME LearningAssumption ==
  /\ Traffic \subseteq EndpointId \X SysId \X CompId
  /\ QueueCapacity \in Nat \ {0} /\ BatchSize \in Nat \ {0}
  /\ PruneTtl \in Nat /\ PruneInterval \in Nat \ {0}
  /\ MaxTime \in Nat

VARIABLES
  now,         \* the monotonic clock all tasks read
  shards,      \* the routing table
  queue,       \* the update channel
  stage,       \* where each ingress task is inside observe_route
  obs,         \* the observation it carries there
  updater,     \* where the updater task is
  batch,       \* updates drained and not yet applied
  pruneAt,     \* the next shard to prune, while pruning
  nextPrune,   \* when the prune timer fires next
  cancelled,   \* the cancellation token
  reordered    \* history: systems an update has been applied to out of time order

vars == <<now, shards, queue, stage, obs, updater, batch, pruneAt, nextPrune,
          cancelled, reordered>>

ingressVars == <<stage, obs>>
updaterVars == <<updater, batch, pruneAt, nextPrune>>

\* obs[ep] while the ingress task of ep is outside observe_route.
NoUpdate == [endpoint_id |-> 0, sys_id |-> 0, comp_id |-> 0, now |-> 0]

-----------------------------------------------------------------------------

Init ==
  /\ now = 0
  /\ shards = [i \in ShardIndex |-> EmptyShard]
  /\ queue = <<>>
  /\ stage = [ep \in EndpointId |-> "idle"]
  /\ obs = [ep \in EndpointId |-> NoUpdate]
  /\ updater = "select" /\ batch = <<>> /\ pruneAt = 0
  /\ nextPrune = PruneInterval       \* the immediate first tick is skipped
  /\ cancelled = FALSE
  /\ reordered = {}

(* Ingress: observe_route on a frame that passed the filter and the        *)
(* duplicate check.  The source system of such a frame is not 0.           *)

Observe(ep, sys, comp) ==
  /\ stage[ep] = "idle"
  /\ stage' = [stage EXCEPT ![ep] = "check"]
  /\ obs' = [obs EXCEPT ![ep] =
               [endpoint_id |-> ep, sys_id |-> sys, comp_id |-> comp, now |-> now]]
  /\ UNCHANGED <<now, shards, queue, updaterVars, cancelled, reordered>>

\* The read of the shard: an observation that is no news ends here.
CheckNeeded(ep) ==
  /\ stage[ep] = "check"
  /\ IF NeedsUpdate(shards[ShardOf(obs[ep].sys_id)], obs[ep])
       THEN stage' = [stage EXCEPT ![ep] = "send"] /\ UNCHANGED obs
       ELSE /\ stage' = [stage EXCEPT ![ep] = "idle"]
            /\ obs' = [obs EXCEPT ![ep] = NoUpdate]
  /\ UNCHANGED <<now, shards, queue, updaterVars, cancelled, reordered>>

\* try_send: into the queue, or dropped when it is full or its receiver gone.
PostUnbounded == updater # "exited"                    \* mutant of CanPost
CanPost == updater # "exited" /\ Len(queue) < QueueCapacity

Return(ep) ==
  /\ stage' = [stage EXCEPT ![ep] = "idle"]
  /\ obs' = [obs EXCEPT ![ep] = NoUpdate]

Post(ep) ==
  /\ stage[ep] = "send" /\ CanPost
  /\ queue' = Append(queue, obs[ep])
  /\ Return(ep)
  /\ UNCHANGED <<now, shards, updaterVars, cancelled, reordered>>

DropObservation(ep) ==
  /\ stage[ep] = "send" /\ ~CanPost
  /\ Return(ep)
  /\ UNCHANGED <<now, shards, queue, updaterVars, cancelled, reordered>>

-----------------------------------------------------------------------------
(* The updater's biased select: cancellation, then the queue, then the     *)
(* prune timer.                                                            *)

UpdaterExit ==
  /\ updater = "select" /\ cancelled
  /\ updater' = "exited"
  /\ queue' = <<>>                    \* the receiver is dropped with its queue
  /\ UNCHANGED <<now, shards, ingressVars, batch, pruneAt, nextPrune, cancelled,
                 reordered>>

\* recv(), which starts a batch, and try_recv(), which extends it.
CanDrain ==
  /\ queue # <<>>
  /\ \/ updater = "select" /\ ~cancelled
     \/ updater = "draining" /\ Len(batch) < BatchSize

Drain ==
  /\ CanDrain
  /\ batch' = Append(batch, Head(queue))
  /\ queue' = Tail(queue)
  /\ updater' = "draining"
  /\ UNCHANGED <<now, shards, ingressVars, pruneAt, nextPrune, cancelled, reordered>>

ApplyUpdate ==
  /\ batch # <<>>
  /\ ~CanDrain
  /\ LET u == Head(batch)
         i == ShardOf(u.sys_id)
     IN /\ \E sh \in Updated(shards[i], u, now) : shards' = [shards EXCEPT ![i] = sh]
        /\ reordered' = IF OutOfOrder(shards[i], u)
                          THEN reordered \cup {u.sys_id} ELSE reordered
  /\ batch' = Tail(batch)
  /\ updater' = IF Len(batch) = 1 THEN "select" ELSE "applying"
  /\ UNCHANGED <<now, queue, ingressVars, pruneAt, nextPrune, cancelled>>

\* tick(): the interval keeps its schedule, late ticks are caught up.
StartPrune ==
  /\ updater = "select" /\ ~cancelled
  /\ queue = <<>>
  /\ nextPrune <= now
  /\ updater' = "pruning" /\ pruneAt' = 0
  /\ nextPrune' = nextPrune + PruneInterval
  /\ UNCHANGED <<now, shards, queue, ingressVars, batch, cancelled, reordered>>

\* Mutant of PruneNextShard: stops after the first shard.
PruneFirstShard ==
  /\ updater = "pruning"
  /\ shards' = [shards EXCEPT ![pruneAt] = ShardPrune(@, now, PruneTtl)]
  /\ updater' = "select" /\ pruneAt' = 0
  /\ UNCHANGED <<now, queue, ingressVars, batch, nextPrune, cancelled, reordered>>

\* One shard, under its own lock and at its own time.
PruneNextShard ==
  /\ updater = "pruning"
  /\ shards' = [shards EXCEPT ![pruneAt] = ShardPrune(@, now, PruneTtl)]
  /\ IF pruneAt = ShardCount - 1
       THEN updater' = "select" /\ pruneAt' = 0
       ELSE UNCHANGED updater /\ pruneAt' = pruneAt + 1
  /\ UNCHANGED <<now, queue, ingressVars, batch, nextPrune, cancelled, reordered>>

-----------------------------------------------------------------------------
(* The environment: time passes, and the router is told to stop.           *)

Tick ==
  /\ now < MaxTime
  /\ now' = now + 1
  /\ UNCHANGED <<shards, queue, ingressVars, updaterVars, cancelled, reordered>>

Cancel ==
  /\ ~cancelled
  /\ cancelled' = TRUE
  /\ UNCHANGED <<now, shards, queue, ingressVars, updaterVars, reordered>>

Ingress(ep) ==
  \/ \E sys \in SysId, comp \in CompId :
       <<ep, sys, comp>> \in Traffic /\ Observe(ep, sys, comp)
  \/ CheckNeeded(ep)
  \/ Post(ep)
  \/ DropObservation(ep)

Updater == UpdaterExit \/ Drain \/ ApplyUpdate \/ StartPrune \/ PruneNextShard

Next == (\E ep \in EndpointId : Ingress(ep)) \/ Updater \/ Tick \/ Cancel

Spec == Init /\ [][Next]_vars

-----------------------------------------------------------------------------
(* Correctness.                                                            *)

\* The table, the channel and the tasks hold well-typed values; the queue and
\* the batch keep to their capacities; a key is only ever in its own shard.
TypeOK ==
  /\ now \in Instant
  /\ shards = [i \in ShardIndex |-> shards[i]]
  /\ \A i \in ShardIndex : IsShard(shards[i], i)
  /\ queue \in Seq(RouteUpdate) /\ Len(queue) <= QueueCapacity
  /\ stage \in [EndpointId -> {"idle", "check", "send"}]
  /\ obs \in [EndpointId -> RouteUpdate \cup {NoUpdate}]
  /\ \A ep \in EndpointId : stage[ep] # "idle" => obs[ep] \in RouteUpdate
  /\ updater \in {"select", "draining", "applying", "pruning", "exited"}
  /\ batch \in Seq(RouteUpdate) /\ Len(batch) <= BatchSize
  /\ (batch # <<>>) <=> updater \in {"draining", "applying"}
  /\ pruneAt \in ShardIndex
  /\ nextPrune \in Nat
  /\ cancelled \in BOOLEAN
  /\ reordered \subseteq SysId

\* A route that is in the table works: an endpoint that a component's entry
\* names, and every endpoint of its group, is sent the frames for that
\* component and those for its whole system.  should_send gives up when the
\* system has no entry of its own, and the two entries expire by their own
\* last_seen, so this needs that every pruning and eviction keeps the system's
\* entry as long as any of its components'.  It may fail only for a system one
\* of whose updates was applied after a later one.
LearnedRouteForwards ==
  \A i \in ShardIndex : \A k \in DOMAIN shards[i].routes :
    \/ k[1] \in reordered
    \/ \A ep \in EndpointId :
         Reaches(shards[i].routes[k], ep) =>
           ShouldSend(shards, ep, k[1], k[2]) /\ ShouldSend(shards, ep, k[1], 0)

\* No phantom system: whatever the order of updates, a system's entry is as old
\* as one of its components' entries, so that it never outlives all of them (the
\* fallback of should_send would keep forwarding to a system nobody has heard).
SystemBackedByComponent == \A i \in ShardIndex : Backed(shards[i])

\* Why a route in the table works, as an inductive invariant: the entry of the
\* system is there, names at least the endpoints of each of its components'
\* entries, and is never older than one of them.
EntriesCoupled == \A i \in ShardIndex : Coupled(shards[i], reordered)

\* The incremental endpoint_counts, from which the statistics take the known
\* endpoints, agree with the entries after any mix of learning, pruning and
\* eviction: each endpoint's count is the number of entries that name it, and
\* an endpoint that no entry names is gone.
CountsExact ==
  \A i \in ShardIndex : \A ep \in EndpointId :
    LET sh == shards[i]
        n  == Occurrences(sh.routes, DOMAIN sh.routes, ep)
                + Occurrences(sh.sys_routes, DOMAIN sh.sys_routes, ep)
    IN /\ CountOf(sh.endpoint_counts, ep) = n
       /\ ep \in DOMAIN sh.endpoint_counts <=> n > 0

\* A step forgets a component route only because it has outlived the TTL, or
\* because its shard is full: then it has outlived CapacityPruneAge or belongs
\* to a system that no other system of the shard is older than.
ForgetsOnlyWhatItMay ==
  [][\A i \in ShardIndex :
       \A k \in DOMAIN shards[i].routes \ DOMAIN shards'[i].routes :
         LET sh  == shards[i]
             age == Elapsed(now, sh.routes[k].last_seen)
         IN \/ updater = "pruning" /\ age > PruneTtl
            \/ AtRouteCapacity(sh) /\ age > CapacityPruneAge
            \/ /\ AtSystemCapacity(sh)
               /\ \A s \in DOMAIN sh.sys_routes \cap DOMAIN shards'[i].sys_routes :
                    \/ s = Head(batch).sys_id
                    \/ k[1] \in DOMAIN sh.sys_routes
                         /\ sh.sys_routes[k[1]].last_seen <= sh.sys_routes[s].last_seen
    ]_vars

\* No frame goes where nobody asked for it: an endpoint is sent frames for a
\* system only if it, or an endpoint of its group, may have heard that system,
\* or it may have heard a sniffer; whatever the table has been through.
ForwardsOnlyToHearers ==
  \A ep \in EndpointId, sys \in SysId, comp \in CompId \cup {0} :
    ShouldSend(shards, ep, sys, comp) =>
      \/ \E t \in Traffic : t[1] = ep /\ t[2] \in SnifferSysids
      \/ \E t \in Traffic :
           /\ t[2] = sys
           /\ t[1] = ep \/ ({t[1], ep} \subseteq DOMAIN Group /\ Group[t[1]] = Group[ep])

-----------------------------------------------------------------------------
(* Time.  When the tasks finish what they have to do before the clock moves *)
(* on, the age of what the table holds is bounded.                         *)

Quiet ==
  /\ queue = <<>> /\ batch = <<>>
  /\ \A ep \in EndpointId : stage[ep] = "idle"
  /\ updater = "exited" \/ (updater = "select" /\ ~cancelled /\ now < nextPrune)

TimelySpec == Init /\ [][Next /\ (now' # now => Quiet)]_vars

\* While the updater runs on time, no entry of either map, in any shard, is
\* ever older than the TTL plus one prune interval.
StaleBound ==
  updater # "exited" =>
    \A i \in ShardIndex :
      LET sh == shards[i]
      IN /\ \A k \in DOMAIN sh.routes :
              Elapsed(now, sh.routes[k].last_seen) <= PruneTtl + PruneInterval
         /\ \A s \in DOMAIN sh.sys_routes :
              Elapsed(now, sh.sys_routes[s].last_seen) <= PruneTtl + PruneInterval

-----------------------------------------------------------------------------
(* Liveness.  The runtime polls a ready task again and again; a component  *)
(* that is alive keeps sending; and the queue, which the updater keeps     *)
(* draining, is not full at each and every attempt of one endpoint.        *)

Fairness ==
  /\ WF_vars(Updater)
  /\ \A ep \in EndpointId :
       /\ WF_vars(CheckNeeded(ep))
       /\ WF_vars(DropObservation(ep))
       /\ SF_vars(Post(ep))
  /\ \A t \in Traffic : SF_vars(Observe(t[1], t[2], t[3]))

LiveSpec == Spec /\ Fairness

\* Lost observations heal: as long as the router runs, an endpoint that keeps
\* hearing a component is again and again sent the frames for it and for its whole
\* system, whatever was dropped at a full queue, applied late or out of order, or
\* pruned, and whoever else keeps the same entries fresh.
Relearns ==
  \A t \in Traffic :
    []<>(cancelled \/ (/\ ShouldSend(shards, t[1], t[2], t[3])
                      /\ ShouldSend(shards, t[1], t[2], 0)))
=============================================================================
