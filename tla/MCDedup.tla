------------------------------ MODULE MCDedup -------------------------------
(***************************************************************************)
(* Small instances of Dedup for TLC.  Frames f1 and f2 have one digest, f3 *)
(* shares their shard, and f4 is in the other shard.                       *)
(***************************************************************************)
EXTENDS Dedup

CONSTANTS f1, f2, f3, f4

Hashes == [f \in {f1, f2, f3, f4} |-> CASE f \in {f1, f2} -> 0 [] f = f3 -> 2 [] f = f4 -> 1]
=============================================================================
