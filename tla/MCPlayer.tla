------------------------------ MODULE MCPlayer ------------------------------
(* TLC instances of Player.                                                 *)
EXTENDS Player, TLC

(* No definition tells one joint from another.                              *)
JointSymmetry == Permutations(Joint)
=============================================================================
