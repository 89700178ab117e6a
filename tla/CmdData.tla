------------------------------ MODULE CmdData ------------------------------
(***************************************************************************)
(* The joint-command message of HuboCmd/src/hubo_cmd_c.c: a header whose   *)
(* bitmap says which joints the message commands, and one command per      *)
(* joint.  A process fills an uncompressed message (one slot per joint of  *)
(* the robot) and sends a compressed one (only the slots of the joints     *)
(* whose bit is set, in index order).                                      *)
(*                                                                         *)
(* A bitmap is the set of its 1 bits.  A joint command is abstracted to    *)
(* its mode: position, torque and gains travel with it unchanged.  RIGID   *)
(* stands for the three modes that drive a joint (RIGID, COMPLIANT and     *)
(* HYBRID), which this layer never tells apart.                            *)
(***************************************************************************)
EXTENDS Integers, FiniteSets

CONSTANTS
    NumJoints,   \* total_num_joints of the header
    IntWidth,    \* bits of C's int, the type of the literal 0x01 (32)
    MapWidth     \* bits of header.bitmap, a uint64_t (64)

ASSUME WidthsAssumption ==
    /\ NumJoints \in Nat \ {0}
    /\ IntWidth \in Nat \ {0}
    /\ MapWidth \in Nat
    /\ NumJoints <= MapWidth
    /\ IntWidth <= MapWidth

Joint == 0 .. NumJoints - 1
Bit   == 0 .. MapWidth - 1
Mode  == {"IGNORE", "RIGID", "CLAIM", "RELEASE"}

(* The joints fit in an int shifted by their index: no aliasing. *)
IntHoldsJoints == NumJoints <= IntWidth

(* The joints whose bit is theirs alone: where not all fit in an int, those *)
(* below its sign bit.                                                      *)
Unaliased(i) == IntHoldsJoints \/ i < IntWidth - 1

-----------------------------------------------------------------------------
(* Mutant: the shift is off by one. *)
IntShiftOffByOne(i) == {(i + 1) % IntWidth}

(* The bits of (0x01 << i), an int, once it is converted to uint64_t.  The *)
(* shift counts modulo the width of an int (what the x86 build does; C     *)
(* leaves it undefined), and a 1 in the sign bit is extended upwards.      *)
IntShift(i) ==
    LET k == i % IntWidth
    IN  IF k = IntWidth - 1 THEN k .. MapWidth - 1 ELSE {k}

EmptyData == [bitmap |-> {}, cmds |-> [i \in Joint |-> "IGNORE"]]

RegisterJoint(d, i) == [d EXCEPT !.bitmap = @ \cup IntShift(i)]

(* The joints check_if_joint_is_set answers 1 for. *)
JointsSet(d) == d.bitmap \cap Joint

(* Commands in mode RELEASE go back to IGNORE and their bits are cleared. *)
Released(d) == {i \in Joint : d.cmds[i] = "RELEASE"}

UnregisterReleased(d) ==
    [bitmap |-> d.bitmap \ UNION {IntShift(i) : i \in Released(d)},
     cmds   |-> [i \in Joint |-> IF i \in Released(d) THEN "IGNORE"
                                                      ELSE d.cmds[i]]]

(* How many set bits precede bit i: the slot of joint i when compressed. *)
Rank(bitmap, i) == Cardinality({k \in bitmap : k < i})

(* Mutant: the compressor keeps the slot of every joint it skips. *)
CompressKeepingGaps(d) ==
    [bitmap |-> d.bitmap,
     slots  |-> [n \in 1 .. NumJoints |-> d.cmds[n - 1]]]

Compress(d) ==
    [bitmap |-> d.bitmap,
     slots  |-> [n \in 1 .. Cardinality(JointsSet(d)) |->
                   d.cmds[CHOOSE i \in JointsSet(d) : Rank(d.bitmap, i) = n - 1]]]

(* hubo_cmd_data_get_joint_cmd on a compressed message whose bit i is set. *)
GetJointCmd(f, i) == f.slots[Rank(f.bitmap, i) + 1]
=============================================================================
