------------------------------- MODULE MCParts -------------------------------
(***************************************************************************)
(* Small instances of the parts: a UDP endpoint in each of its modes, four *)
(* links, a clock of seven seconds, and a file with two fragments.         *)
(***************************************************************************)
EXTENDS Parts, TLC

CONSTANTS
  a1, a2, configured,   \* the addresses of the UDP endpoint
  h, k, g, r1, r2       \* the frames that come in

-----------------------------------------------------------------------------
(* Four links.  a is of version 1, and blocks the messages of k; b is      *)
(* mixed, carries frames that cannot be decoded, and takes no system but   *)
(* 1; c is of version 2; u is a UDP endpoint.  h has the start byte of     *)
(* version 2 in its rest, and g that of version 1.                         *)

Sent == {h, k, g, r1, r2}
SentVersion == [f \in Sent |-> IF f \in {h, k, r1} THEN 1 ELSE 2]
SentFalseStart == [f \in Sent |-> IF f = h THEN 2 ELSE IF f = g THEN 1 ELSE 0]
SentSender == [f \in Sent |-> [sys |-> IF f = g THEN 2 ELSE 1, comp |-> 1]]
SentId == [f \in Sent |-> f]
SentTarget ==
  [f \in Sent |-> [fields |-> IF f = h THEN "none" ELSE IF f = g THEN "both" ELSE "system",
                   sys |-> 3, comp |-> 1]]

LinkCarries == ("a" :> {h, k}) @@ ("b" :> {k, g, r1, r2}) @@ ("c" :> {g}) @@ ("u" :> {k, g})

AllowAll == [allow_msg |-> {}, block_msg |-> {}, allow_comp |-> {}, block_comp |-> {},
             allow_sys |-> {}, block_sys |-> {}]
LinkFilters == ("a" :> [AllowAll EXCEPT !.block_msg = {k}])
               @@ ("b" :> [AllowAll EXCEPT !.allow_sys = {1}])
               @@ ("c" :> AllowAll) @@ ("u" :> AllowAll)

-----------------------------------------------------------------------------
(* A file and two fragments: a port that two of them claim, a port that    *)
(* only one of them knows, options that one sets and another does not.     *)

Content(tcp_port, general, endpoint) ==
  [toml |-> TRUE, there |-> TRUE, tcp_port |-> tcp_port, general |-> general,
   endpoint |-> endpoint]
Ep(proto, port, sound) == [proto |-> proto, port |-> port, sound |-> sound]

Files == {Content(1, "set", <<Ep("tcp", 2, TRUE)>>),
          Content(2, "default", <<Ep("tcp", 2, TRUE)>>),
          Content(0, "bad", <<>>)}
Fragments == {Content(0, "default", <<Ep("udp", 2, TRUE), Ep("serial", 0, TRUE)>>),
              Content(2, "set", <<Ep("serial", 0, TRUE)>>),
              Content(3, "default", <<>>),
              Content(0, "set", <<Ep("tcp", 3, FALSE)>>),
              Content(0, "bad", <<>>)}
=============================================================================
