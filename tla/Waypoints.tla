------------------------------ MODULE Waypoints ------------------------------
(***************************************************************************)
(* How a program makes a trajectory (HuboPath/): the Operator turns the    *)
(* waypoints it is given into a trajectory when one is asked for, and      *)
(* keeps it; the Trajectory can be interpolated before it is sent.  What   *)
(* becomes of one that is sent is in PathTransfer and Player.              *)
(*                                                                         *)
(* Positions are counted in units in which the limits are whole numbers    *)
(* per period of the trajectory's frequency, or per period squared; a      *)
(* fraction of a unit is dropped where the code scales a movement.  The    *)
(* limits come from the description: the custom ones are left out.         *)
(***************************************************************************)
EXTENDS Integers, SequencesExt

CONSTANTS
    NumJoints,     \* joints of the description
    Position,      \* what the references and the waypoints may be
    MaxSpeed,      \* limits of all joints
    MaxAccel,
    Mappings,      \* the index maps a program sets, none of them empty
    MaxLen,        \* bound: waypoints that are added
    MaxCalls       \* bound: calls of the program

Joint == 0 .. NumJoints - 1
Slot  == 0 .. NumJoints          \* elements have room for more than the joints

ASSUME WaypointsAssumption ==
    /\ NumJoints \in Nat \ {0} /\ Position \subseteq Int
    /\ MaxSpeed \in Nat \ {0} /\ MaxAccel \in Nat
    /\ Mappings \subseteq Seq(Nat) \ {<<>>}
    /\ MaxLen \in Nat /\ MaxCalls \in Nat

VARIABLES
    described,     \* whether the Operator has a description
    map,           \* _index_map; Unset until setJointIndices() has accepted one
    path,          \* _input_path
    mode,          \* params.interp
    constructed,   \* _constructed
    traj,          \* _trajectory
    loop,          \* the locals of saturate()
    broken,        \* whether memory was read that is not there
    kept,          \* history: whether the trajectory may be older than the waypoints
    calls          \* history: calls so far

operatorVars == <<described, map, path, mode, constructed>>
vars == <<operatorVars, traj, loop, broken, kept, calls>>

Unset  == <<>>
Modes  == {"RAW", "SATURATE", "OPTIMAL", "SPLINE", "DENSIFY"}
Point  == [Slot -> Int]
Traj   == [interp : Modes, active : SUBSET Slot, points : Seq(Point), raw : BOOLEAN]
NoTraj == [interp |-> "RAW", active |-> {}, points |-> <<>>, raw |-> TRUE]
Resting == [up |-> 0, last |-> 0, target |-> 0, next |-> 0, out |-> <<>>]

Init ==
    /\ described \in BOOLEAN
    /\ map = Unset /\ path = <<>> /\ mode = "RAW" /\ constructed = FALSE
    /\ traj = NoTraj /\ loop = Resting
    /\ broken = FALSE /\ kept = FALSE /\ calls = 0

Call ==
    /\ ~broken /\ loop = Resting
    /\ calls < MaxCalls /\ calls' = calls + 1

-----------------------------------------------------------------------------
(* The waypoints. *)

LoadDescription ==
    /\ Call /\ described' = TRUE
    /\ UNCHANGED <<map, path, mode, constructed, traj, loop, broken, kept>>

(* Both of setJointIndices(): the one for names refuses what is no joint,   *)
(* for which getJointIndex returns InvalidIndex; the one for indices lets   *)
(* one number too many pass.                                                *)
InvalidIndex == -1
JointIndex(name)    == IF name \in Joint THEN name ELSE InvalidIndex
JointIndices(names) == [i \in DOMAIN names |-> JointIndex(names[i])]

ValidNames(names)     == InvalidIndex \notin Range(JointIndices(names))
ValidIndices(indices) == Range(indices) \subseteq Slot

Valid(indices, byName) == IF byName THEN ValidNames(indices) ELSE ValidIndices(indices)

SetJointIndices(indices, byName) ==
    /\ Call
    /\ IF described
       THEN /\ constructed' = FALSE
            /\ map' = IF Valid(indices, byName) THEN indices ELSE Unset
       ELSE UNCHANGED <<constructed, map>>
    /\ UNCHANGED <<described, path, mode, traj, loop, broken, kept>>

(* Mutant: the trajectory made before is kept. *)
AddWaypointsKeeping(points) ==
    /\ Call
    /\ path' = IF map = Unset THEN path ELSE path \o points
    /\ UNCHANGED <<described, map, mode, constructed, traj, loop, broken, kept>>

(* addWaypoint() and addWaypoints(), which stops at the first that does not *)
(* fit the map.                                                             *)
AddWaypoints(points) ==
    /\ Call
    /\ IF map # Unset
       THEN /\ constructed' = FALSE
            /\ \E n \in 0 .. Len(points) :
                  /\ \A i \in 1 .. n : Len(points[i]) = Len(map)
                  /\ n < Len(points) => Len(points[n + 1]) # Len(map)
                  /\ path' = path \o SubSeq(points, 1, n)
       ELSE UNCHANGED <<constructed, path>>
    /\ UNCHANGED <<described, map, mode, traj, loop, broken, kept>>

(* removeLast() and clearWaypoints() leave the trajectory as it is, ...     *)
RemoveWaypoints(n) ==
    /\ Call
    /\ path' = SubSeq(path, 1, n)
    /\ kept' = (kept \/ constructed)
    /\ UNCHANGED <<described, map, mode, constructed, traj, loop, broken>>

(* ... and so does setInterpolationMode().                                  *)
SetInterpolationMode(m) ==
    /\ Call
    /\ mode' = m
    /\ kept' = (kept \/ constructed)
    /\ UNCHANGED <<described, map, path, constructed, traj, loop, broken>>

-----------------------------------------------------------------------------
(* _construct_trajectory *)

(* A waypoint fits the map that is set when the trajectory is made, which   *)
(* need not be the one it was added under, unless it is too short.          *)
Fit == \A i \in DOMAIN path : Len(path[i]) >= Len(map)

(* The element that follows elem: the joints of the map move, the last      *)
(* entry for a joint counts, and the others stay.                           *)
Moved(elem, waypoint) ==
    [s \in Slot |->
        IF s \in Range(map)
        THEN LET last == CHOOSE i \in DOMAIN map :
                             map[i] = s /\ \A k \in DOMAIN map : map[k] = s => k <= i
             IN  waypoint[last]
        ELSE elem[s]]

Elements(start) ==
    [i \in 1 .. Len(path) + 1 |->
        IF i = 1 THEN start ELSE Moved(start, path[i - 1])]

Built(start) ==
    [interp |-> mode, active |-> Range(map), points |-> Elements(start), raw |-> TRUE]

(* It begins with the references in the state, zeroes before there is one.  *)
Starts ==
    {s \in [Slot -> Position \cup {0}] :
        /\ s[NumJoints] = 0
        /\ ~described => \A j \in Joint : s[j] = 0}

(* The trajectory a call works on, and what it leaves of the history.       *)
Candidates == IF constructed THEN {traj} ELSE {Built(start) : start \in Starts}
Overreads  == ~constructed /\ ~Fit

Breaks ==
    /\ broken' = TRUE
    /\ UNCHANGED <<operatorVars, traj, loop, kept>>

Constructs ==
    /\ ~Overreads
    /\ kept' = (kept /\ constructed)
    /\ UNCHANGED <<described, map, path, mode, broken>>

(* getCurrentTrajectory()                                                   *)
GetTrajectory ==
    /\ Call /\ Constructs
    /\ traj' \in Candidates
    /\ constructed' = TRUE
    /\ UNCHANGED loop

(* sendNewTrajectory() sends traj', or refuses to; either way the next call  *)
(* makes a new one.                                                         *)
Send ==
    /\ Call /\ Constructs
    /\ traj' \in Candidates
    /\ constructed' = FALSE
    /\ UNCHANGED loop

Refuses(t) == map = Unset \/ Len(t.points) < 2

(* Any of the calls that make the trajectory.                               *)
Overread == Call /\ Overreads /\ Breaks

-----------------------------------------------------------------------------
(* Trajectory::interpolate *)

NothingToDo(t) == Len(t.points) < 2 \/ t.interp = "RAW"

(* The limits are looked up by index, also of the slot that is no joint.    *)
Unlimited(t) == t.active \ Joint # {}

(* What the interpolation library makes of the points: samples that begin   *)
(* where they do and end short of the last, if the way takes any time, or   *)
(* nothing usable.                                                          *)
Samples(points) == {<<>>, Front(points)}

(* The spline leaves nothing in the slots of the other joints.              *)
Splined(t) == [i \in DOMAIN t.points |->
                  [s \in Slot |-> IF s \in t.active THEN t.points[i][s] ELSE 0]]

Interpolated(t) ==
    IF NothingToDo(t) \/ ~described THEN {t}
    ELSE CASE t.interp = "OPTIMAL" ->
                  {t} \cup {[t EXCEPT !.interp = "RAW", !.points = p, !.raw = FALSE] :
                               p \in Samples(t.points)}
           [] t.interp = "SPLINE" ->
                  {t, [t EXCEPT !.interp = "RAW", !.points = Splined(t), !.raw = FALSE]}
           [] OTHER -> {t}                       \* "DENSIFY" is yet to be written

Saturates(t) == ~NothingToDo(t) /\ described /\ t.interp = "SATURATE"

(* saturate(), up to its loop.                                              *)
Entered(points) ==
    [up |-> 1, last |-> points[1], target |-> points[1], next |-> points[1], out |-> <<>>]

Interpolate ==
    /\ Call /\ Constructs
    /\ constructed' = TRUE
    /\ \E t \in Candidates :
          /\ NothingToDo(t) \/ ~described \/ ~Unlimited(t)
          /\ IF Saturates(t) THEN traj' = t /\ loop' = Entered(t.points)
                             ELSE traj' \in Interpolated(t) /\ UNCHANGED loop

InterpolateUnlimited ==
    /\ Call /\ ~Overreads /\ Breaks
    /\ \E t \in Candidates : ~NothingToDo(t) /\ described /\ Unlimited(t)

Abs(x) == IF x < 0 THEN -x ELSE x

Scaled(x, num, den) == IF x < 0 THEN -((-x * num) \div den) ELSE (x * num) \div den

(* Mutant: a joint that moves backwards is not looked at. *)
GreatestForwards(f) == Max({0} \cup {f[j] : j \in traj.active})

Greatest(f) == Max({0} \cup {Abs(f[j]) : j \in traj.active})

(* A change of the active joints, scaled down to have no component above    *)
(* the limit; of the other joints, as it is.                                *)
Limited(change, limit) ==
    LET most == Greatest(change)
    IN  [s \in Slot |-> IF s \in traj.active /\ most > limit
                        THEN Scaled(change[s], limit, most) ELSE change[s]]

Plus(p, q)  == [s \in Slot |-> p[s] + q[s]]
Minus(p, q) == [s \in Slot |-> p[s] - q[s]]

(* One round of the loop: the target is brought within reach of the last    *)
(* element and put out; unless it was, and the next one is out of reach,    *)
(* too, the next is that of the trajectory; which is brought to where the   *)
(* acceleration allows it to be.                                            *)
Round ==
    LET n      == Len(traj.points)
        way    == Minus(loop.target, loop.last)
        target == Plus(loop.last, Limited(way, MaxSpeed))
        slowed == Greatest(way) > MaxSpeed
        skip   == ~slowed \/ Greatest(Minus(loop.next, target)) <= MaxSpeed
        wanted == IF ~skip THEN loop.next
                  ELSE traj.points[IF loop.up < n THEN loop.up + 1 ELSE n]
        coming == Plus(target, Minus(target, loop.last))
        next   == Plus(coming, Limited(Minus(wanted, coming), MaxAccel))
    IN  [up |-> IF skip THEN loop.up + 1 ELSE loop.up, last |-> target,
         target |-> next, next |-> next, out |-> Append(loop.out, target)]

(* Mutant: one round too many. *)
SaturateRoundMore ==
    /\ loop # Resting
    /\ IF loop.up <= Len(traj.points) + 1
       THEN loop' = Round /\ UNCHANGED traj
       ELSE loop' = Resting /\ traj' = [traj EXCEPT !.points = loop.out, !.raw = FALSE]
    /\ UNCHANGED <<operatorVars, broken, kept, calls>>

SaturateRound ==
    /\ loop # Resting
    /\ IF loop.up <= Len(traj.points)
       THEN loop' = Round /\ UNCHANGED traj
       ELSE loop' = Resting /\ traj' = [traj EXCEPT !.points = loop.out, !.raw = FALSE]
    /\ UNCHANGED <<operatorVars, broken, kept, calls>>

-----------------------------------------------------------------------------
Waypoint == UNION {[1 .. Len(m) -> Position] : m \in Mappings}

Next ==
    \/ LoadDescription
    \/ \E indices \in Mappings, byName \in BOOLEAN : SetJointIndices(indices, byName)
    \/ \E p \in Waypoint : Len(path) < MaxLen /\ AddWaypoints(<<p>>)
    \/ \E p, q \in Waypoint : Len(path) + 1 < MaxLen /\ AddWaypoints(<<p, q>>)
    \/ \E n \in {0, Len(path) - 1} \cap Nat : RemoveWaypoints(n)
    \/ \E m \in Modes : SetInterpolationMode(m)
    \/ GetTrajectory \/ Interpolate \/ Send
    \/ Overread \/ InterpolateUnlimited
    \/ SaturateRound

Spec == Init /\ [][Next]_vars

-----------------------------------------------------------------------------
(* Properties. *)

TypeOK ==
    /\ described \in BOOLEAN /\ constructed \in BOOLEAN
    /\ broken \in BOOLEAN /\ kept \in BOOLEAN
    /\ map \in Mappings \cup {Unset} /\ path \in Seq(Waypoint) /\ mode \in Modes
    /\ traj \in Traj
    /\ loop.up \in 0 .. Len(traj.points) + 1 /\ loop.out \in Seq(Point)
    /\ calls \in 0 .. MaxCalls

(* What is sent is what the waypoints are: made of all of them, under the   *)
(* mapping and in the mode that are set now, unless it was interpolated, or *)
(* a waypoint was taken away or the mode set after it was made.             *)
SentIsAsked ==
    [][Send /\ ~Refuses(traj') /\ traj'.raw /\ ~kept' =>
           traj' = Built(traj'.points[1])]_vars

(* Saturation begins where the trajectory does, and no step it makes is     *)
(* longer than the speed limit allows.  Nor does it change the speed of a   *)
(* joint faster than the acceleration limit allows, unless one of several   *)
(* joints is at the speed limit: all of them are slowed down with it then,  *)
(* however much that is.                                                    *)
SaturatedIsSlow ==
    LET out     == loop.out
        step(i) == Minus(out[i], out[i - 1])
    IN  /\ out # <<>> => out[1] = traj.points[1]
        /\ \A j \in traj.active, i \in 2 .. Len(out) : Abs(step(i)[j]) <= MaxSpeed
        /\ \A i \in 3 .. Len(out) :
               \/ Cardinality(traj.active) = 1
               \/ \A j \in traj.active : Abs(step(i)[j]) < MaxSpeed
               => \A j \in traj.active : Abs(step(i)[j] - step(i - 1)[j]) <= MaxAccel

(* It ends: every round puts an element out, and however it wavers between  *)
(* the two limits, it goes on to the next waypoint after so many of them.   *)
PerWaypoint ==
    IF MaxAccel <= MaxSpeed THEN 1 ELSE (MaxAccel + MaxSpeed - 1) \div MaxSpeed

SaturationEnds ==
    loop # Resting => Len(loop.out) <= (loop.up - 1) * PerWaypoint

(* Saturation keeps to the limits as far as that, and does not go on for    *)
(* ever for it.                                                             *)
SaturationIsSafe == SaturatedIsSlow /\ SaturationEnds

(* It does not dawdle: it puts out no more elements than the steps that     *)
(* full speed takes from each waypoint to the next, though what it aims at  *)
(* in between is not the waypoint but what the acceleration limit allows.   *)
SaturationKeepsPace ==
    loop # Resting =>
        LET p        == traj.points
            steps(i) == 1 + Greatest(Minus(p[i], p[i - 1])) \div MaxSpeed
        IN  Len(loop.out) <= 1 + FoldFunction(+, 0, [i \in 2 .. Len(p) |-> steps(i)])
=============================================================================
