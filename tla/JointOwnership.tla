--------------------------- MODULE JointOwnership ---------------------------
(***************************************************************************)
(* What the command aggregator promises about joint ownership, without     *)
(* messages, bitmaps, channels or client memories.                         *)
(*                                                                         *)
(* Every joint has at most one owner and one command that is passed to the *)
(* motors.  A process acts on any set of joints at once, and on each of    *)
(* them independently:                                                     *)
(*   - a joint nobody owns can be taken by anybody;                        *)
(*   - a joint somebody owns changes hands only by preemption, and then    *)
(*     the new owner starts from IGNORE, never from a driving command;     *)
(*   - only the owner commands a joint or gives it up, and giving it up    *)
(*     leaves it in IGNORE.                                                *)
(* The aggregator itself may be restarted, which frees every joint.        *)
(***************************************************************************)
EXTENDS Naturals

CONSTANTS
    Joints,      \* the robot's joints
    Processes,   \* identities that can own a joint
    Nobody       \* the owner of a joint that is free

VARIABLES
    owner,       \* who owns each joint
    output       \* the command of each joint, and whose it is

vars == <<owner, output>>

Idle(p)     == [mode |-> "IGNORE", from |-> p]
Commands(p) == [mode : {"IGNORE", "RIGID"}, from : {p}]

Untouched(j, own, out) == own = owner[j] /\ out = output[j]

Take(p, j, own, out) ==
    /\ owner[j] = Nobody
    /\ own = p
    /\ out \in Commands(p)

Preempt(p, j, own, out) ==
    /\ owner[j] \notin {Nobody, p}
    /\ own = p
    /\ out = Idle(p)

Command(p, j, own, out) ==
    /\ owner[j] = p
    /\ own = p
    /\ out \in Commands(p)

GiveUp(p, j, own, out) ==
    /\ owner[j] = p
    /\ own = Nobody
    /\ out = Idle(p)

(* What process p may do to joint j. *)
Allowed(p, j, own, out) ==
    \/ Untouched(j, own, out)
    \/ Take(p, j, own, out)
    \/ Preempt(p, j, own, out)
    \/ Command(p, j, own, out)
    \/ GiveUp(p, j, own, out)

Act(p) ==
    /\ \A j \in Joints : Allowed(p, j, owner'[j], output'[j])
    /\ owner' = [j \in Joints |-> owner'[j]]
    /\ output' = [j \in Joints |-> output'[j]]

AllFree ==
    /\ owner = [j \in Joints |-> Nobody]
    /\ output = [j \in Joints |-> Idle(Nobody)]

Init == AllFree

Next == (\E p \in Processes : Act(p)) \/ AllFree'

Spec == Init /\ [][Next]_vars
=============================================================================
