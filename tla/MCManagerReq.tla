---------------------------- MODULE MCManagerReq ----------------------------
(* TLC instance of ManagerReq: a program and two channels, any of them      *)
(* registered; a configuration to load besides the last one; and two        *)
(* requesters.                                                              *)
EXTENDS ManagerReq

CONSTANTS r1, r2
Requesters == {r1, r2}
Symmetry   == Permutations(Requesters)

Configs     == {"default", "last_config"}
SomeRosters == SUBSET {"player", "cmd", "ref"}
AsShipped   == [n \in {"default"} |-> {"cmd", "ref"}]
=============================================================================
