--------------------------- MODULE MCAuxCommands ---------------------------
(* TLC instance of AuxCommands: up to two joints, boards and sensors.       *)
EXTENDS AuxCommands

Names == {"", "a"}
=============================================================================
