----------------------------- MODULE MCCanCycle -----------------------------
(* TLC instances of CanCycle.                                               *)
EXTENDS CanCycle

CONSTANTS c1, c2

(* Board 1 on a channel of its own.                                         *)
OwnChannels == [b \in Board |-> IF b = 1 THEN c1 ELSE c2]

OneOrAll == {{1}, Board}

(* Late, exactly at the deadline, early.                                    *)
StartTimes == {-1, 0, 4}
=============================================================================
