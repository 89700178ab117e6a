------------------------------ MODULE MCDaemon ------------------------------
(* TLC instance of Daemon: three launches of two programs, with two ids, so *)
(* that a later daemon may get the id of an earlier one.                    *)
EXTENDS Daemon

Pids     == {11, 12}
Launches == 1 .. 3
Programs == [i \in Launches |-> IF i = 3 THEN "relay" ELSE "player"]
=============================================================================
