---------------------------- MODULE MCStreamLoop ----------------------------
(***************************************************************************)
(* A small instance of StreamLoop for TLC: the stream endpoint e1, and a   *)
(* UDP endpoint u that sends messages to everyone, to one system, and some *)
(* that e1 filters.  (Stream endpoints share nothing but the bus.)         *)
(***************************************************************************)
EXTENDS StreamLoop

CONSTANTS e1, u, hidden

ToAll(ep) == [source |-> ep, targeted |-> FALSE]
ToOne(ep) == [source |-> ep, targeted |-> TRUE]

Traffic == {ToAll(e1), ToAll(u), ToOne(u), ToAll(hidden)}
FilteredAtE1 == {<<e1, ToAll(hidden)>>}
=============================================================================
