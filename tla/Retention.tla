----------------------------- MODULE Retention ------------------------------
(***************************************************************************)
(* What a memory with a time limit promises, however it is organised: what *)
(* was noted is remembered for at least MinWindow and at most MaxWindow    *)
(* since it was last noted.                                                *)
(***************************************************************************)
EXTENDS Integers

CONSTANTS
  Item,
  MinWindow, MaxWindow,
  Renewable   \* may an item be noted again while it is remembered?

VARIABLES
  now,
  remembered,
  since        \* [item ever noted -> when it was last noted]

vars == <<now, remembered, since>>

Init == now = 0 /\ remembered = {} /\ since = [d \in {} |-> 0]

Note(d) ==
  /\ Renewable \/ d \notin remembered
  /\ remembered' = remembered \cup {d}
  /\ since' = [x \in DOMAIN since \cup {d} |-> IF x = d THEN now ELSE since[x]]
  /\ UNCHANGED now

Forget ==
  /\ \E gone \in SUBSET remembered :
       /\ \A d \in gone : now - since[d] >= MinWindow
       /\ remembered' = remembered \ gone
  /\ UNCHANGED <<now, since>>

Tick ==
  /\ \A d \in remembered : now - since[d] < MaxWindow
  /\ now' = now + 1
  /\ UNCHANGED <<remembered, since>>

Next == (\E d \in Item : Note(d)) \/ Forget \/ Tick

Spec == Init /\ [][Next]_vars
=============================================================================
