-------------------------- MODULE MCNekoHandshake --------------------------
(* Model-checking instance of NekoHandshake: two clients, one a window     *)
(* ahead of the server and one a window behind (both within Span = 1),    *)
(* and one connection more than there are clients, so that a captured    *)
(* record can be replayed while its window is still a candidate.  The     *)
(* inbound listens on two addresses in MCNekoHandshake.cfg: connections 1  *)
(* and 2 reach the first listener, 3 the second.  The other runs use one.  *)
EXTENDS NekoHandshake

MCClients == {1, 2}
MCSkew == [c \in MCClients |-> IF c = 1 THEN 1 ELSE -1]

MCListenerOf == [k \in {1, 2, 3} |-> IF k = 3 THEN "b" ELSE "a"]

MCOneListener == [k \in {1, 2, 3} |-> "a"]
=============================================================================
