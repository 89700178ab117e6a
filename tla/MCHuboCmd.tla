------------------------------ MODULE MCHuboCmd ------------------------------
(* Small instances of HuboCmd for TLC. *)
EXTENDS HuboCmd

(* Two processes; the second one's pid only fits 16 bits after truncation   *)
(* (PidModulus is scaled down to 4).                                        *)
TwoClients == {"a", "b"}
TwoPids    == [c \in TwoClients |-> IF c = "a" THEN 1 ELSE 6]

(* One process, for the runs about many joints. *)
OneClient == {"a"}
OnePid    == [c \in OneClient |-> 1]

(* Bound: the interface is left out, on which the aggregator and its clients *)
(* do not depend.                                                            *)
NoInterface == final = AllIdle
=============================================================================
