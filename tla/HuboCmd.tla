------------------------------- MODULE HuboCmd -------------------------------
(***************************************************************************)
(* Joint commands from the client processes to the motors (HuboCmd/).      *)
(*                                                                         *)
(* Client processes each hold a Commander: they write modes and references *)
(* into their own command message and send it over the "hubo_cmd" channel. *)
(* The aggregator daemon takes the messages one at a time, decides joint   *)
(* by joint whether the sender may command it, and publishes the merged    *)
(* commands on "hubo_agg".  The hardware interface reads the newest of     *)
(* those every cycle.                                                      *)
(*                                                                         *)
(* A joint's position, torque and gains are abstracted to the process they *)
(* came from.                                                              *)
(***************************************************************************)
EXTENDS CmdData, Ach

CONSTANTS
    Client,       \* processes that hold a Commander
    PidOf,        \* their process ids
    PidModulus,   \* 2^16: header.pid is a uint16_t
    Depth,        \* frames the hubo_cmd ring holds
    Overruns,     \* whether the clients may lap the aggregator
    Failures      \* whether processes may crash and the daemons restart

ASSUME PidAssumption ==
    /\ PidModulus \in Nat \ {0}
    /\ PidOf \in [Client -> Nat]
    /\ \A c \in Client : PidOf[c] % PidModulus # 0

ASSUME ChannelAssumption == Depth \in Nat \ {0}

ASSUME SwitchAssumption == Overruns \in BOOLEAN /\ Failures \in BOOLEAN

VARIABLES
    status,       \* of each client process
    data,         \* its cmd_data
    commanded,    \* history: the joints it has named in a call
    cmdChan,      \* hubo_cmd, as the aggregator reads it
    aggUp,        \* whether the aggregator daemon runs
    owner,        \* its _pids
    output,       \* its _output_data
    aggChan,      \* newest frame of hubo_agg since the interface opened it
    final         \* the interface's _aggregated_cmds

clientVars == <<status, data, commanded>>
aggVars    == <<aggUp, owner, output>>
vars == <<clientVars, cmdChan, aggVars, aggChan, final>>

WirePid(c) == PidOf[c] % PidModulus
WirePids   == {WirePid(c) : c \in Client}
Unclaimed  == 0            \* the value of _pids for a joint without owner

OutputMode == {"IGNORE", "RIGID"}
JointOut   == [mode : OutputMode, from : WirePids \cup {Unclaimed}]
Idle       == [mode |-> "IGNORE", from |-> Unclaimed]
AllIdle    == [j \in Joint |-> Idle]
NoFrame    == <<>>

Slots == UNION {[1 .. n -> Mode] : n \in 0 .. NumJoints}
Frame == [pid : WirePids, valid : BOOLEAN, bitmap : SUBSET Bit, slots : Slots]
Data  == [bitmap : SUBSET Bit, cmds : [Joint -> Mode]]

-----------------------------------------------------------------------------
(* Client processes: the Commander. *)

Running(c) == status[c] = "running"

(* Writing a joint's mode also sets its bit. *)
WithMode(d, j, m) == RegisterJoint([d EXCEPT !.cmds[j] = m], j)

Write(c, j, m) ==
    /\ Running(c)
    /\ data' = [data EXCEPT ![c] = WithMode(@, j, m)]
    /\ commanded' = [commanded EXCEPT ![c] = @ \cup {j}]
    /\ UNCHANGED <<status, cmdChan, aggVars, aggChan, final>>

SetMode(c, j, m) == Write(c, j, m)

ClaimJoint(c, j) == Write(c, j, "CLAIM")

(* set_position and set_base_torque: the mode stays what it was. *)
SetReference(c, j) == Write(c, j, data[c].cmds[j])

(* release_joint refuses a joint whose bit is not set. *)
ReleaseJoint(c, j) ==
    /\ j \in JointsSet(data[c])
    /\ Write(c, j, "RELEASE")

(* release_joints() goes over the joints in index order; a joint released   *)
(* early may set the bits of later ones (see IntShift), which then count.   *)
ReleasedByAll(d) ==
    {i \in Joint : \/ i \in d.bitmap
                   \/ \E k \in JointsSet(d) : k < i /\ i \in IntShift(k)}

WithAllReleased(d) ==
    [bitmap |-> d.bitmap \cup UNION {IntShift(i) : i \in ReleasedByAll(d)},
     cmds   |-> [i \in Joint |-> IF i \in ReleasedByAll(d) THEN "RELEASE"
                                                           ELSE d.cmds[i]]]

ReleaseJoints(c) ==
    /\ Running(c)
    /\ data' = [data EXCEPT ![c] = WithAllReleased(@)]
    /\ UNCHANGED <<status, commanded, cmdChan, aggVars, aggChan, final>>

FrameOf(c, d) ==
    LET z == Compress(d)
    IN  [pid |-> WirePid(c), valid |-> TRUE, bitmap |-> z.bitmap, slots |-> z.slots]

(* A message whose header or size the aggregator does not accept. *)
StrayFrame(c) == [pid |-> WirePid(c), valid |-> FALSE, bitmap |-> {}, slots |-> <<>>]

(* A frame put while no aggregator runs is flushed by the next one. *)
PutCommand(f) ==
    /\ Overruns \/ Len(cmdChan.unread) < Depth
    /\ cmdChan' = IF aggUp THEN Put(cmdChan, Depth, f) ELSE cmdChan

SendCommands(c) ==
    /\ Running(c)
    /\ PutCommand(FrameOf(c, data[c]))
    /\ data' = [data EXCEPT ![c] = UnregisterReleased(@)]
    /\ UNCHANGED <<status, commanded, aggVars, aggChan, final>>

(* The destructor releases what is registered and sends it. *)
Exit(c) ==
    /\ Running(c)
    /\ PutCommand(FrameOf(c, WithAllReleased(data[c])))
    /\ status' = [status EXCEPT ![c] = "exited"]
    /\ data' = [data EXCEPT ![c] = EmptyData]
    /\ UNCHANGED <<commanded, aggVars, aggChan, final>>

(* A process built against another version of the message, or killed.       *)
SendStray(c) ==
    /\ Failures
    /\ Running(c)
    /\ PutCommand(StrayFrame(c))
    /\ UNCHANGED <<clientVars, aggVars, aggChan, final>>

Crash(c) ==
    /\ Failures
    /\ Running(c)
    /\ status' = [status EXCEPT ![c] = "crashed"]
    /\ data' = [data EXCEPT ![c] = EmptyData]
    /\ UNCHANGED <<commanded, cmdChan, aggVars, aggChan, final>>

-----------------------------------------------------------------------------
(* The aggregator daemon: one pass of its loop per frame. *)

(* Mutant: the control modes are stored as they came. *)
AcceptedModeKept(m) == m

AcceptedMode(m) == IF m \in {"CLAIM", "RELEASE"} THEN "IGNORE" ELSE m

(* Mutants: nobody is turned away; a claim is not looked at. *)
AcceptsAnyone(f, j) == TRUE
AcceptsNoClaim(f, j) == owner[j] \in {Unclaimed, f.pid}

(* _resolve_ownership answers true: the joint is free, the sender's, or     *)
(* claimed by the sender.                                                   *)
Accepts(f, j) == \/ owner[j] \in {Unclaimed, f.pid}
                 \/ GetJointCmd(f, j) = "CLAIM"

(* Mutant: taking a free joint does not record the new owner. *)
OwnerAfterUnrecorded(f, j) ==
    IF owner[j] = Unclaimed \/ GetJointCmd(f, j) = "RELEASE" THEN Unclaimed ELSE f.pid

(* The owner _resolve_ownership leaves behind when it accepts.              *)
OwnerAfter(f, j) ==
    IF owner[j] = f.pid /\ GetJointCmd(f, j) = "RELEASE" THEN Unclaimed ELSE f.pid

Collated(f) == {j \in JointsSet(f) : Accepts(f, j)}

AggCollate ==
    /\ aggUp
    /\ HasFrame(cmdChan)
    /\ ~cmdChan.lapped
    /\ LET f == Next1(cmdChan)
       IN  /\ f.valid
           /\ owner' = [j \in Joint |-> IF j \in Collated(f) THEN OwnerAfter(f, j)
                                                            ELSE owner[j]]
           /\ output' = [j \in Joint |->
                IF j \in Collated(f)
                THEN [mode |-> AcceptedMode(GetJointCmd(f, j)), from |-> f.pid]
                ELSE output[j]]
    /\ aggChan' = output'
    /\ cmdChan' = AfterGet(cmdChan)
    /\ UNCHANGED <<clientVars, aggUp, final>>

(* Every result but ACH_OK skips the frame, ACH_MISSED_FRAME included; so   *)
(* do a malformed header and a wrong size.                                  *)
AggDiscard ==
    /\ aggUp
    /\ HasFrame(cmdChan)
    /\ cmdChan.lapped \/ ~Next1(cmdChan).valid
    /\ cmdChan' = AfterGet(cmdChan)
    /\ UNCHANGED <<clientVars, aggVars, aggChan, final>>

(* The daemon stops or dies; _pids and _output_data go with it. *)
AggStop ==
    /\ Failures
    /\ aggUp
    /\ aggUp' = FALSE
    /\ owner' = [j \in Joint |-> Unclaimed]
    /\ output' = AllIdle
    /\ cmdChan' = Flushed
    /\ UNCHANGED <<clientVars, aggChan, final>>

-----------------------------------------------------------------------------
(* The hardware interface. *)

(* Mutant: IGNORE is taken for "no command". *)
InterfaceUpdateSkippingIgnore ==
    /\ aggChan # NoFrame
    /\ final' = [j \in Joint |-> IF aggChan[j].mode = "IGNORE" THEN final[j]
                                                              ELSE aggChan[j]]
    /\ UNCHANGED <<clientVars, cmdChan, aggVars, aggChan>>

(* update: ACH_O_LAST; without a new frame the previous one is copied again. *)
InterfaceUpdate ==
    /\ aggChan # NoFrame
    /\ final' = aggChan
    /\ UNCHANGED <<clientVars, cmdChan, aggVars, aggChan>>

(* The interface is restarted: it flushes hubo_agg, starts from zeroed       *)
(* commands, and launches an aggregator unless one still runs.               *)
InterfaceRestart ==
    /\ Failures
    /\ final' = AllIdle
    /\ aggChan' = NoFrame
    /\ aggUp' = TRUE
    /\ UNCHANGED <<clientVars, cmdChan, owner, output>>

-----------------------------------------------------------------------------
Init ==
    /\ status = [c \in Client |-> "running"]
    /\ data = [c \in Client |-> EmptyData]
    /\ commanded = [c \in Client |-> {}]
    /\ cmdChan = Flushed
    /\ aggUp = TRUE
    /\ owner = [j \in Joint |-> Unclaimed]
    /\ output = AllIdle
    /\ aggChan = NoFrame
    /\ final = AllIdle

ClientStep(c) ==
    \/ \E j \in Joint :
          \/ \E m \in Mode : SetMode(c, j, m)
          \/ ClaimJoint(c, j)
          \/ SetReference(c, j)
          \/ ReleaseJoint(c, j)
    \/ ReleaseJoints(c)
    \/ SendCommands(c)
    \/ Exit(c)
    \/ SendStray(c)
    \/ Crash(c)

AggregatorStep == AggCollate \/ AggDiscard

Next ==
    \/ \E c \in Client : ClientStep(c)
    \/ AggregatorStep
    \/ AggStop
    \/ InterfaceUpdate
    \/ InterfaceRestart

Spec == Init /\ [][Next]_vars

(* The daemon blocks in ach_get until a frame comes and the interface calls  *)
(* update every cycle; clients may stop at any time.                         *)
FairSpec == Spec /\ WF_vars(AggregatorStep) /\ WF_vars(InterfaceUpdate)

-----------------------------------------------------------------------------
TypeOK ==
    /\ status \in [Client -> {"running", "exited", "crashed"}]
    /\ data \in [Client -> Data]
    /\ commanded \in [Client -> SUBSET Joint]
    /\ cmdChan \in ChannelOf(Frame, Depth)
    /\ aggUp \in BOOLEAN
    /\ owner \in [Joint -> WirePids \cup {Unclaimed}]
    /\ output \in [Joint -> JointOut]
    /\ aggChan \in [Joint -> JointOut] \cup {NoFrame}
    /\ final \in [Joint -> JointOut]

(* A joint is driven only by a command of the process that owns it: handing *)
(* a joint over, releasing it or losing it to another process always takes  *)
(* the old command away first, and a rejected command changes nothing.      *)
OutputMatchesOwner ==
    \A j \in Joint : output[j].mode # "IGNORE" =>
        /\ owner[j] # Unclaimed
        /\ output[j].from = owner[j]

(* A process owns only joints it named in a call, through all the shifts,   *)
(* compressions and releases, on a robot with any number of joints; unless  *)
(* it named a joint whose bit the int has no place of its own for, which    *)
(* sets the bits of others, too: of such a process nothing is said.         *)
MayOwn(c) == IF \A k \in commanded[c] : Unaliased(k) THEN commanded[c] ELSE Joint

OwnsOnlyWhatItCommanded ==
    \A j \in Joint : owner[j] # Unclaimed =>
        \E c \in Client : WirePid(c) = owner[j] /\ j \in MayOwn(c)

(* A message says of every joint it commands exactly what the sender wrote: *)
(* leaving out the other joints' slots shifts no command to another joint.  *)
FramesCarryWhatWasWritten ==
    [][\A c \in Client : SendCommands(c) /\ aggUp =>
         \A j \in JointsSet(data[c]) :
            GetJointCmd(Newest(cmdChan'), j) = data[c].cmds[j]]_vars

(* The promise of the aggregator: ownership of every joint moves only as    *)
(* JointOwnership allows, whatever the interleaving, losses and restarts.   *)
Ownership == INSTANCE JointOwnership
    WITH Joints <- Joint, Processes <- WirePids, Nobody <- Unclaimed
ImplementsOwnership == Ownership!Spec

(* A claim that reached the channel is honoured: its sender gets the joint, *)
(* if only until the next claim.                                            *)
ClaimPending(c, j) ==
    \E f \in FramesIn(cmdChan) :
        /\ f.valid /\ f.pid = WirePid(c)
        /\ j \in JointsSet(f) /\ GetJointCmd(f, j) = "CLAIM"
ClaimIsHonoured ==
    \A c \in Client, j \in Joint : ClaimPending(c, j) ~> owner[j] = WirePid(c)

(* The motors follow the aggregator: a merged command that stands reaches   *)
(* the interface, so a released joint does not stay driven.                 *)
HardwareFollowsOutput ==
    \A j \in Joint : \A v \in JointOut :
        output[j] = v ~> (final[j] = v \/ output[j] # v)
=============================================================================
