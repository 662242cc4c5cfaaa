-------------------------- MODULE MCRouteLearning ---------------------------
(***************************************************************************)
(* Small instances of RouteLearning for TLC.  The endpoints are e1 .. e4;  *)
(* an endpoint that hears nothing only receives.                           *)
(***************************************************************************)
EXTENDS RouteLearning

CONSTANTS e1, e2, e3, e4

NoGroup == [ep \in {} |-> "none"]

\* Three systems of one shard, one of them with a component on either endpoint;
\* e3 is the redundant link of e1.
TwoHearers == {<<e1, 1, 1>>, <<e1, 2, 1>>, <<e2, 1, 2>>, <<e2, 3, 1>>}
RedundantLink == [ep \in {e1, e3} |-> "radio"]

\* Two systems in two shards and a sniffer; e1 and e3 back each other up, and
\* so do e2 and e4.
TwoShards == {<<e1, 1, 1>>, <<e2, 2, 1>>, <<e2, 1, 1>>}
TwoGroups == [ep \in {e1, e2, e3, e4} |-> IF ep \in {e1, e3} THEN "a" ELSE "b"]

\* One component heard over two links.
SameComponent == {<<e1, 1, 1>>, <<e2, 1, 1>>, <<e2, 1, 2>>}

-----------------------------------------------------------------------------
(* A group with a TCP server in it.  e1 is the endpoint of the server, e2  *)
(* a connection it has accepted, with an id of its own, and e3 a serial    *)
(* endpoint of the same group.  Only configured endpoints are registered   *)
(* with their group.                                                       *)

ConfiguredAs == [ep \in {e1, e2, e3} |-> IF ep = e2 THEN e1 ELSE ep]
ServerGroup == [ep \in {e1, e3} |-> "gcs"]
HeardByClient == {<<e2, 1, 1>>, <<e3, 1, 1>>}

\* "Endpoints in the same group share routing knowledge"
\* (config/endpoint.rs:115-116, on the group of a TCP endpoint): what one
\* endpoint of a group has learned, over whichever of its connections, makes
\* the others of the group forward too.
GroupSharesKnowledge ==
  \A i \in ShardIndex : \A k \in DOMAIN shards[i].routes :
    \A ep \in shards[i].routes[k].endpoints, other \in DOMAIN Group :
      Group[ConfiguredAs[ep]] = Group[other] =>
        ShouldSend(shards, other, k[1], k[2])

-----------------------------------------------------------------------------
(* Two links hear different components of one system.                      *)

OneEach == {<<e1, 1, 1>>, <<e2, 1, 2>>}

\* "The last time this entry was updated or a message was seen from this
\* entity" (routing/shard.rs:46), on the last_seen of an entry: a system is
\* last seen no earlier than any of its components.
SystemSeenLast ==
  \A i \in ShardIndex : \A k \in DOMAIN shards[i].routes :
    k[1] \in DOMAIN shards[i].sys_routes =>
      shards[i].routes[k].last_seen <= shards[i].sys_routes[k[1]].last_seen
=============================================================================
