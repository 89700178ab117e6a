---------------------------- MODULE MCWaypoints ----------------------------
(* TLC instance of Waypoints: two joints, and maps of one of them, of both  *)
(* in another order, and of the index that is one too many.                 *)
EXTENDS Waypoints

Positions == {0, 5}
SomeMaps  == {<<0>>, <<1, 0>>, <<2>>}
=============================================================================
