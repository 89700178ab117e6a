------------------------------- MODULE Player -------------------------------
(***************************************************************************)
(* The trajectory player as a client of the aggregator: which joints it    *)
(* claims, what it commands, and what it gives up (HuboPath/src/Player.cpp *)
(* over HuboCmd/src/Commander.cpp).                                        *)
(*                                                                         *)
(* How a trajectory arrives is PathTransfer's business: here a reception   *)
(* is one step with one of its outcomes.  The other processes act on the   *)
(* joints as JointOwnership allows, which is what HuboCmd implements.  A    *)
(* message of the player takes effect when it is put: the aggregator takes *)
(* messages in the order they were put, and the player never waits for it. *)
(*                                                                         *)
(* The joints of a trajectory all follow the same references, and these    *)
(* are small integers; a speed is the distance of neighbouring references. *)
(* A trajectory may have one element, and none at all when interpolating   *)
(* leaves none.                                                            *)
(***************************************************************************)
EXTENDS Integers, Sequences

CONSTANTS
    Joint,        \* the robot's joints
    Reach,        \* references are -Reach .. Reach
    Limit,        \* info.limits: of position,
    MaxSpeed,     \* and of speed
    MaxLen        \* bound: elements of a trajectory

ASSUME LimitsAssumption ==
    /\ Reach \in Nat
    /\ Limit \in Nat
    /\ MaxSpeed \in Nat
    /\ MaxLen \in Nat

VARIABLES
    status,       \* of the player process
    current,      \* _current_cmd
    incoming,     \* _incoming_cmd
    trajectory,   \* _trajectory
    fresh,        \* _new_trajectory
    index,        \* _current_index
    registered,   \* the bitmap of cmd_data
    cmds,         \* its joint commands
    owner,        \* the aggregator's _pids
    output,       \* its _output_data
    named         \* history: the joints of the trajectories that were
                  \* accepted since it last released its joints

playerVars == <<current, incoming, trajectory, fresh, index>>
cmdVars    == <<registered, cmds>>
aggVars    == <<owner, output>>
vars == <<status, playerVars, cmdVars, aggVars, named>>

Nothing     == "nothing"
Instruction == {"QUIT", "RUN", "PAUSE", "REVERSE"}
Loading     == {"LOAD", "LOAD_N_GO"}
Position    == -Reach .. Reach
Mode        == {"IGNORE", "RIGID", "CLAIM", "RELEASE"}

Trajectory == [joints : SUBSET Joint,
               elements : UNION {[1 .. n -> Position] : n \in 0 .. MaxLen}]
None == [joints |-> {}, elements |-> <<>>]
Size(t) == Len(t.elements)

Abs(x) == IF x < 0 THEN -x ELSE x

Ownership == INSTANCE JointOwnership
    WITH Joints <- Joint, Processes <- {"player", "other"}, Nobody <- "nobody"

-----------------------------------------------------------------------------
(* The Commander part: the command message and its effect.                  *)

Registering(J, m) ==
    /\ registered' = registered \cup J
    /\ cmds' = [j \in Joint |-> IF j \in J THEN [cmds[j] EXCEPT !.mode = m]
                                           ELSE cmds[j]]

(* Mutant: sending forgets every joint, not only the released ones. *)
StillRegisteredNone(J, c) == {}

(* What is left of the bitmap J once a message with commands c was sent. *)
StillRegistered(J, c) == {j \in J : c[j].mode # "RELEASE"}

(* send_commands, with joints J registered and commands c.  The aggregator *)
(* accepts a joint's command if the joint is free, the player's, or claimed.*)
Send(J, c) ==
    LET Accepted == {j \in J : owner[j] \in {"player", "nobody"} \/ c[j].mode = "CLAIM"}
        GivenUp  == {j \in Accepted : owner[j] = "player" /\ c[j].mode = "RELEASE"}
    IN  /\ owner' = [j \in Joint |-> IF j \in GivenUp THEN "nobody"
                                     ELSE IF j \in Accepted THEN "player"
                                     ELSE owner[j]]
        /\ output' = [j \in Joint |->
               IF j \in Accepted
               THEN [mode |-> IF c[j].mode = "RIGID" THEN "RIGID" ELSE "IGNORE",
                     from |-> "player"]
               ELSE output[j]]
        /\ registered' = StillRegistered(J, c)
        /\ cmds' = [j \in Joint |-> IF c[j].mode = "RELEASE"
                                    THEN [c[j] EXCEPT !.mode = "IGNORE"] ELSE c[j]]

-----------------------------------------------------------------------------
(* One step of the player: an instruction comes, or Nothing new does.       *)
(* _current_elem and _last_elem need no variables: outside of a step both   *)
(* are the element at _current_index.                                       *)

Element(n) == trajectory.elements[n + 1]

Obeyed(i) == IF i = Nothing THEN incoming ELSE i

Steps == status = "running" /\ UNCHANGED status

Tries(i) == \/ i \in Loading
            \/ current = "QUIT" /\ Obeyed(i) # "QUIT"

(* Every joint of the trajectory within its limits of position and speed.   *)
(* The accelerations are computed too, but a violation is only reported.    *)
WithinLimits(t) ==
    /\ \A n \in DOMAIN t.elements : Abs(t.elements[n]) <= Limit
    /\ \A n \in 2 .. Size(t) : Abs(t.elements[n] - t.elements[n - 1]) <= MaxSpeed

Cleared(i) ==
    /\ trajectory' = None
    /\ current' = "QUIT"
    /\ incoming' = IF i \in Loading THEN "QUIT" ELSE Obeyed(i)
    /\ UNCHANGED <<fresh, index, aggVars, named>>

(* The transfer fails, or the starting values are not those of the joints.  *)
ReceiveNothing(i) ==
    /\ Steps
    /\ Tries(i)
    /\ Cleared(i)
    /\ UNCHANGED cmdVars

(* The joints J of the trajectory are claimed before it turns out that it   *)
(* cannot be interpolated or is outside of its limits.                      *)
Reject(i, J) ==
    /\ Steps
    /\ Tries(i)
    /\ Cleared(i)
    /\ Registering(J, "CLAIM")

(* Mutant: a loading instruction is kept. *)
AfterLoadKept(i) == Obeyed(i)

AfterLoad(i) ==
    IF i = "LOAD" THEN "PAUSE" ELSE IF i = "LOAD_N_GO" THEN "RUN" ELSE Obeyed(i)

Accept(i, t) ==
    /\ Steps
    /\ Tries(i)
    /\ WithinLimits(t)
    /\ Send(registered \cup t.joints,
            [j \in Joint |-> IF j \in t.joints THEN [cmds[j] EXCEPT !.mode = "CLAIM"]
                                               ELSE cmds[j]])
    /\ trajectory' = t
    /\ fresh' = TRUE
    /\ index' = 0
    /\ current' = AfterLoad(i)
    /\ incoming' = current'
    /\ named' = named \cup t.joints

(* Mutant: the joints of the trajectory keep their commands. *)
QuitKeeping(i) ==
    /\ Steps
    /\ Obeyed(i) = "QUIT"
    /\ current # "QUIT"
    /\ trajectory' = None
    /\ current' = "QUIT"
    /\ incoming' = "QUIT"
    /\ named' = {}
    /\ UNCHANGED <<fresh, index, cmdVars, aggVars>>

(* The releases are registered, but not sent.                               *)
Quit(i) ==
    /\ Steps
    /\ Obeyed(i) = "QUIT"
    /\ current # "QUIT"
    /\ Registering(registered, "RELEASE")
    /\ trajectory' = None
    /\ current' = "QUIT"
    /\ incoming' = "QUIT"
    /\ named' = {}
    /\ UNCHANGED <<fresh, index, aggVars>>

StayQuit(i) ==
    /\ Steps
    /\ i \in {"QUIT", Nothing}
    /\ Obeyed(i) = "QUIT"
    /\ current = "QUIT"
    /\ incoming' = "QUIT"
    /\ UNCHANGED <<current, trajectory, fresh, index, cmdVars, aggVars, named>>

(* Mutant: the trajectory starts over when it has come to its end. *)
AdvancedRound(i, n, size) ==
    IF i = "RUN" THEN (n + 1) % size
    ELSE IF i = "REVERSE" /\ n > 0 THEN n - 1
    ELSE n

(* The index moves by one and stops at both ends.                           *)
Advanced(i, n, size) ==
    IF i = "RUN" THEN IF n + 1 >= size THEN size - 1 ELSE n + 1
    ELSE IF i = "REVERSE" /\ n > 0 THEN n - 1
    ELSE n

Goes(i) ==
    /\ Steps
    /\ i \notin Loading
    /\ Obeyed(i) # "QUIT"
    /\ current # "QUIT"
    /\ current' = Obeyed(i)
    /\ incoming' = Obeyed(i)
    /\ UNCHANGED <<trajectory, named>>

(* A trajectory without elements is not played, and nothing is sent.        *)
PlayNothing(i) ==
    /\ Goes(i)
    /\ Size(trajectory) = 0
    /\ UNCHANGED <<fresh, index, cmdVars, aggVars>>

Play(i) ==
    LET n == Advanced(Obeyed(i), IF fresh THEN 0 ELSE index, Size(trajectory))
    IN  /\ Goes(i)
        /\ Size(trajectory) > 0
        /\ index' = n
        /\ fresh' = FALSE
        /\ Send(registered \cup trajectory.joints,
                [j \in Joint |-> IF j \in trajectory.joints
                                 THEN [mode |-> "RIGID", ref |-> Element(n)] ELSE cmds[j]])

(* update() fails, or the daemon is told to stop: the Commander's destructor *)
(* releases what is registered and sends it.                                 *)
Exit ==
    /\ status = "running"
    /\ status' = "exited"
    /\ Send(registered, [j \in Joint |-> IF j \in registered
                                         THEN [cmds[j] EXCEPT !.mode = "RELEASE"]
                                         ELSE cmds[j]])
    /\ UNCHANGED <<playerVars, named>>

-----------------------------------------------------------------------------
(* The other processes and the aggregator daemon. *)

OthersAct(j) ==
    /\ \E own \in {"player", "other", "nobody"}, m \in {"IGNORE", "RIGID"} :
          LET out == [mode |-> m, from |-> "other"]
          IN  /\ Ownership!Allowed("other", j, own, out)
              /\ owner' = [owner EXCEPT ![j] = own]
              /\ output' = [output EXCEPT ![j] = out]
    /\ UNCHANGED <<status, playerVars, cmdVars, named>>

AggregatorRestart ==
    /\ owner' = [j \in Joint |-> "nobody"]
    /\ output' = [j \in Joint |-> [mode |-> "IGNORE", from |-> "nobody"]]
    /\ UNCHANGED <<status, playerVars, cmdVars, named>>

-----------------------------------------------------------------------------
Init ==
    /\ status = "running"
    /\ current = "QUIT"
    /\ incoming = "QUIT"
    /\ trajectory = None
    /\ fresh = FALSE
    /\ index = 0
    /\ registered = {}
    /\ cmds = [j \in Joint |-> [mode |-> "IGNORE", ref |-> 0]]
    /\ owner = [j \in Joint |-> "nobody"]
    /\ output = [j \in Joint |-> [mode |-> "IGNORE", from |-> "nobody"]]
    /\ named = {}

Step(i) ==
    \/ ReceiveNothing(i)
    \/ \E J \in SUBSET Joint : Reject(i, J)
    \/ \E t \in Trajectory : Accept(i, t)
    \/ Quit(i)
    \/ StayQuit(i)
    \/ PlayNothing(i)
    \/ Play(i)

Next ==
    \/ \E i \in Instruction \cup Loading \cup {Nothing} : Step(i)
    \/ Exit
    \/ \E j \in Joint : OthersAct(j)
    \/ AggregatorRestart

Spec == Init /\ [][Next]_vars

-----------------------------------------------------------------------------
TypeOK ==
    /\ status \in {"running", "exited"}
    /\ current \in Instruction
    /\ incoming \in Instruction
    /\ trajectory \in Trajectory
    /\ fresh \in BOOLEAN
    /\ index \in 0 .. MaxLen
    /\ registered \subseteq Joint
    /\ cmds \in [Joint -> [mode : Mode, ref : Position]]
    /\ owner \in [Joint -> {"player", "other", "nobody"}]
    /\ output \in [Joint -> [mode : {"IGNORE", "RIGID"},
                             from : {"player", "other", "nobody"}]]
    /\ named \subseteq Joint

(* Every message drives only joints named by trajectories that were accepted *)
(* since the player last released its joints, with references within the     *)
(* limits: a rejected or half-received trajectory leaves no driving command  *)
(* behind in the message that is sent again and again, nor does one that a   *)
(* QUIT has ended.  One that a failed loading has ended does: the joints are *)
(* not released then, nor by a QUIT that comes after it.                     *)
DrivesOnlyNamedJoints ==
    \A j \in registered : cmds[j].mode = "RIGID" =>
        /\ j \in named
        /\ Abs(cmds[j].ref) <= Limit

(* From one step to the next the references of a trajectory differ by no     *)
(* more than the speed that was checked, however it is run, paused, reversed *)
(* and clamped at its ends; a new one goes on from its first element.        *)
MovesWithinSpeed ==
    [][\A i \in Instruction \cup {Nothing} : Play(i) =>
         Abs(Element(index') - Element(IF fresh THEN 0 ELSE index)) <= MaxSpeed]_vars

(* When the player exits none of its commands goes on driving a joint,       *)
(* whatever it had rejected, quit or lost to other processes before.         *)
ExitStopsTheJoints ==
    status = "exited" =>
        \A j \in Joint : ~(output[j].mode = "RIGID" /\ output[j].from = "player")
=============================================================================
