# HuboCan in TLA+

HuboCan runs a Hubo robot: a set of real-time processes that exchange fixed-size
messages over Ach (shared-memory ring buffers) and CAN. This directory holds TLA+
models of its protocols, the TLC configurations that check them on small instances,
and proofs, checked by TLAPS, of the properties that matter most.

Paths below are relative to the repository's root (`src/` in `PROJECT.json`).

## 1. The system

| Component | State | Operations | Talks to |
|---|---|---|---|
| Joint command message (`HuboCmd/src/hubo_cmd_c.c`) | header with pid and bitmap, a command per joint | register, unregister, compress, read | Commander, Aggregator |
| Commander (`HuboCmd/src/Commander.cpp`) | one command message, `_has_been_updated` | set mode or reference, claim, release, send; the destructor releases | Aggregator, over `hubo_cmd`; State |
| Aggregator (`HuboCmd/src/Aggregator.cpp`) | owner of each joint (`_pids`), merged commands | daemon loop: accept or refuse joint by joint; interface side: `update` | Commanders; hardware interface, over `hubo_agg` |
| Trajectory transfer (`HuboPath/src/hubo_path.cpp`) | chunk counters | `send_trajectory`, `receive_trajectory` | Operators and Player, over three channels |
| Operator (`HuboPath/src/Operator.cpp`) | waypoints, joint mapping | build, send trajectory, send instruction | Player |
| Player (`HuboPath/src/Player.cpp`) | current and incoming instruction, trajectory, index | `step` | Operators; it is a Commander |
| Trajectory (`HuboPath/src/Trajectory.cpp`) | elements, parameters | interpolate, check limits | Player, Operator |
| State (`HuboState/`) | joints, IMUs, force-torque data | publish, update | every client, over three channels |
| CAN pump (`HuboCan/src/*Pump.cpp`) | per-channel frame queues, expected replies | `pump`, `add_frame` | CAN, joint motor controllers, sensors |
| Motor controllers and sensors (`HuboCan/src/*Jmc.cpp`, `HuboSensor.cpp`) | cycle counters, pending auxiliary commands | `update`, `decode` | CAN pump, Aggregator, State |
| Auxiliary commands (`HuboCmd/src/Aux*.cpp`) | - | send, receive and dispatch | controllers and sensors |
| Description (`HuboCan/src/HuboDescription.cpp`, `DdParser.cpp`, `hubo_info_c.c`) | devices of the robot | parse, broadcast, receive | everybody |
| Manager (`HuboRT/src/Manager*.cpp`) | rosters of processes and channels | run, stop, kill, register, configure | request and reply channels, the file system |
| Daemonizer (`HuboRT/src/Daemonizer*`) | lock file, signal flags | daemonize, check in | every daemon |
| Log relay, Qt front end, main programs | - | - | - |

**How they interact.** A client writes commands into its own message and puts it on
`hubo_cmd`; the aggregator daemon takes the messages one by one and publishes what it
merged; once per cycle the hardware interface takes the newest merged commands, has the
controllers turn them into CAN frames, and publishes what the boards answered. The
player is such a client. It gets trajectories from operators by a handshake over
instruction, input and feedback channels that all operators share. Nothing blocks a
writer: a slow reader is *lapped* and loses messages.

**What is hard.**

* Messages of several processes for one joint, in any order, some overwritten; processes
  that exit, crash or restart while they own joints.
* A handshake without session numbers: stale acknowledgements, chunks left behind by a
  transfer that timed out, several operators at once, a player that is restarted.
* A trajectory that breaks off or is rejected after part of its effects took place.
* Bit manipulation at the width of an `int`, and slots whose position depends on the bitmap.
* A real-time cycle whose input, output and replies belong to different cycles.
* Daemons: lock files whose owners die, process ids that are used again, signals that come too
  early, rosters on disk that are replaced step by step.
* A robot that is described twice over, in a file and in a message, and named by three numberings.

`PROJECT.json` lists these as hazards, each at its line.

**What makes each component correct.**

* Message: what is read for a joint is what was written for it, and nothing else is claimed with it.
* Aggregator: one owner at a time; only the owner's commands reach the motors; a joint that
  changes hands starts from IGNORE.
* Transfer: only whole trajectories are played; an OKAY is true; nobody waits for ever.
* Player: drives joints only on account of trajectories accepted since it let go of them, within
  their limits, and lets go when it ends.
* State: a reading is not torn backwards; what is found under a device's name came from it, if the
  robot that is running has the device there.
* Description: what the parser accepts is a robot; a client's description is a whole one.
* Auxiliary commands: they reach the joint or sensor they name, and no other if none shares its address.
* Operator: what is sent is what was asked for; saturation keeps to its limits, as far as it goes, and ends.
* CAN pump and controllers: what the state shows as a board's reference is what the board was
  sent; a cycle that has time sends all it has; every reply and every dropped reading is counted
  once.
* Daemonizer: a lock file keeps a second daemon out, names the first, and is not left behind.
* Manager: loading loses no entry before the next load begins; a requester gets the answer to its request.

## 2. Modules

| Module | What it is |
|---|---|
| `Ach` | a channel as one reader sees it (external; taken from how the code calls it) |
| `CmdData` | the command message: bitmap, compressed slots, the `int` shift |
| `JointOwnership` | **abstract**: what the aggregator promises about ownership |
| `HuboCmd` | Commanders, aggregator, hardware interface; implements `JointOwnership` |
| `TrajectoryDelivery` | **abstract**: what sending a trajectory promises |
| `PathTransfer` | operators and player exchanging trajectories; implements `TrajectoryDelivery` |
| `Player` | the player's step as a client of the aggregator, with `JointOwnership` as what the other processes may do |
| `CanCycle` | the interface's cycle: pump, boards of motor controllers, main loop |
| `HuboData` | an array of sensor values and what sending and receiving do to it |
| `StateSync` | the interface publishing description and state, a client receiving both |
| `Daemon` | launching, stopping and killing daemons by their lock files |
| `Manager` | the manager: rosters, configurations, channels, requests |
| `ManagerReq` | `Manager` composed with the processes that ask it |
| `Description` | parsing device files into a robot |
| `AuxCommands` | `Description` composed with the sender, the receiver and the handlers of auxiliary commands |
| `Waypoints` | the Operator building trajectories, and their saturation |
| `MC*` | instances for TLC |
| `HuboCmdProofs` (with those of `CmdData`), `PathTransferProofs`, `PlayerProofs`, `InterfaceProofs` (about `CanCycle` and `AuxCommands`), `StateSyncProofs`, `DaemonProofs`, `ManagerReqProofs`, `WaypointsProofs` | theorems |

The modules meet where the components do: `HuboCmd` and `Player` both rest on `JointOwnership`, the one
implementing it and the other taking it as what the rest of the system may do; `PathTransfer` implements
`TrajectoryDelivery`, which says what an operator may rely on without a word of chunks, rings and feedback; `PathTransfer` and
`Player` are the two halves of a player's step, transfer and playing, and `Waypoints` makes what is
transferred; `ManagerReq` and `AuxCommands` extend what they are composed with; `HuboCmd`, `PathTransfer`,
`Manager` and `AuxCommands` share `Ach`. The operators that are named as mutants in their comments are
variants that the runs refute; nothing else uses them.

### HuboCmd

`data[c]` is a client's `cmd_data`, `cmdChan` the `hubo_cmd` ring as the daemon reads it,
`owner` and `output` the daemon's `_pids` and `_output_data`, `aggChan` the newest frame of
`hubo_agg`, `final` the interface's `_aggregated_cmds`. One action per Commander call
(`SetMode`, `ClaimJoint`, `SetReference`, `ReleaseJoint`, `ReleaseJoints`, `SendCommands`,
`Exit` for the destructor); `AggCollate` is one pass of the daemon's loop with
`_collate_input`, `_resolve_ownership`, `_accept_command` and `_send_output`; `AggDiscard`
is a pass that skips its frame (malformed, or delivered with `ACH_MISSED_FRAME`). `Crash`,
`SendStray`, `AggStop` and `InterfaceRestart` are the failures. References, torques and gains
are abstracted to whose they are; RIGID stands for the three driving modes. Pids are truncated
by `PidModulus`, the 2^16 of `header.pid`; a pid that truncates to 0, "no owner", is excluded
by `PidAssumption`.

### PathTransfer

`op[o]` is where an operator is in `sendNewTrajectory`/`send_trajectory`, `pc` where the player
is (between steps, about to announce, listening). Only the newest unread instruction and
feedback count (`ACH_O_LAST`), so one value each is enough; the input channel is a ring. A
timeout may fire whenever there is nothing to read. What the player says of a chunk it never
received (`TIMEOUT` before the first chunk: the structure is not initialised) is any chunk
number. LOAD stands for LOAD and LOAD_N_GO, RUN for RUN, PAUSE and REVERSE. The branch for
`PATH_TX_CANCEL` is left out, because nothing in the repository sends it; a chunk with a wrong
header is only reported and then used, so the header is left out too.

The trajectories of `TrajectoryDelivery` are numbered by the calls that send them, as `sends` numbers those of
`PathTransfer`. `Calls` is what of an operator its caller sees: whether it is inside of a call, and what that
returned; `Playing` is whose trajectory an idle player has. `received` (the calls whose trajectories were taken whole),
`overlapped` and `outOfTurn` (a chunk was put to a player that did not listen, or without a READ_READY) are
history variables of both.
`StartSend` is then a `Begin`, the end of a call a `Return`, the chunk that completes a trajectory a `Deliver`, or
a `PlayMixture` if it completes one of several calls, and whatever ends the playing a `Stop`.

### Player

A step takes at most one instruction; a reception is one step with one of its outcomes
(`ReceiveNothing`, `Reject`, `Accept`). `Play` is the rest of a step; of a trajectory without elements
nothing is played (`PlayNothing`: `send_trajectory` sends no such thing, but the step has a branch for it), of one
with a single element that one. `Send` is `send_commands` together with what the
aggregator makes of the message: the player never waits for it, and messages take effect in
the order in which they were put. Lost messages are HuboCmd's subject, not this module's, and
so are joints beyond the width of an `int`. `OthersAct` lets another process do to a joint
whatever `JointOwnership` allows, which `HuboCmd` is proved to implement. References are small
integers, and all joints of a trajectory follow the same ones. Interpolation and the comparison
of the starting values only have an outcome. The first step, which does nothing because no time
has passed, is left out.

### CanCycle

`request`, `command`, `expect` and `lost` are the members of `ChannelHandle`; `left` is the
distance from the pump's own clock (`time` in `pump()`) to `_deadline`, `dt` is `frame_dt`.
`pump()` is split where something else may come in between: `SkipCycle` or `StartCycle` up to the
devices' `update()`, then one action per board (`UpdateBoard`, or `BeginAux` and `ProcessAux` for
each auxiliary command), `StartSending`, `SendNextFrames` once per turn of the loop, `EndCycle`.
While the pump waits, `DecodeReply` and `DecodeForeign` are frames that come in. The main loop's
other calls are `TakeAux` (any number of commands, for one board or all) and `FetchCommands`.
Publishing the state only reads what is modelled. `SendNextFrames` takes the channels that fail;
then `pump()` returns false and the process ends, as for `Quit`. A wait that fails or ends early
is a wait in which nothing more is read.

`joint[b]` are the counters of a joint of board b; the joints of a board are asked and answered
together, and `agg[b]` is their command if any of them is RIGID. That a RIGID joint's neighbour is
sent its position as well is therefore not visible here (it is in the list of hazards). The board is
`Hubo2PlusBasicJmc`; a board with more than two joints, at which the code reports an error, is left
out, and so are the variants: `Hubo2Plus5chJmc` and `DrcHubo3chJmc` decode frames of
their own and send no references yet (a TODO in the code).
A board without references (`Driven` leaves it out) behaves towards the pump as a
sensor does.

Seconds in a `double` are exact nanoseconds here. The code's difference of two clocks is off by
less than a nanosecond while the uptime is below 2^23 s, and then the truncated quotient never
exceeds the exact one, which is what `CycleDrains` rests on.

### StateSync, HuboData

A description is the sequence of device names of each kind, and of the motor controllers', which count in its
size; the value of a device is the device it came from, so that a value under a wrong name shows. `HuboData` has one
operator per member function of the template that the programs use: `Initialize`, `SetComponent`, `ReceiveResult` with `Received`,
`Stamped` for `send_data`. In `StateSync` the interface's steps are `Start` (a new process, whose first
outward step is the meta message), `BroadcastData`, `DecodeJoint` and `DecodeSensor` (a device
answers while `pump()` runs), `BeginPublish` and one `Publish` per channel, force-torque data first. The
client's are `LoadDescription`, `ReceiveNothing`, `ReceiveMeta` and `ReceiveData` (the two channels of
`receiveInfo`, between which the interface may have been restarted), and one `Read` per channel, joints
first. Ach refuses a frame that is longer than the reader's array, so a client of an older, smaller robot
does not read the new one's; it does read a shorter frame, and keeps its names.

Nothing in a frame says which description it belongs to, and the interface may be restarted with any robot. A
client that has not received the description again then reads one device under the name of another, wherever the
two robots disagree; and when the new robot is smaller, its frame makes the client's array as short as itself,
while the names stay (`operator[]` of a name past the end is a null pointer), and frames of the old length are
refused from then on. `sentBy` and `readFrom` keep whose a frame is, so that `NamedReadingIsTheDevices` can say
what does hold: where the robot that published has the device at the position at which the client looks for it,
there is a component, and it is the device's.

### Daemon

`pc[i]` is how far a launch has come in `hubo_rt_daemonize`, `waiter[i]` the launcher that waits for its
child, `lock[n]` the lock file of a name. `CreateLock` and `LockExists` are the two outcomes of the
exclusive open; `Fork`, `SignalLauncher`, `ForkDaemon`, `RedirectSignals`, `WriteId`, `RedirectLogs` the
steps in between, with the failures `ForkFails`, `SetupFails` (the lock file is removed) and
`RedirectLogsFails` (it is not). The child in the middle waits in the same way for the daemon, which signals
it once the id is written; it holds nothing, has nobody left to tell, and is left out. `ReadLock`, `Stop`,
`Kill` and `RemoveLock` are the manager's `_stop_process_raw` and `_kill_process_raw`, split where other
processes may come in: between reading the id and the signal the daemon may have ended and its id may be
somebody else's. A process that has not installed its handlers, or never does because init started it, is ended
by the signal of `Stop` at once (`StopEnds`). `Crash`, `ManagerDies` and `StartedByInit` (a program with parent 1
takes itself for a daemon already, and has no lock file, but removes the one of its name when it ends) complete it.

Two history variables say what the properties except, name by name: `faulty`, the names under which a process
crashed, was killed or ended by a signal for another or failed to fork, or logs could not be redirected, and
`torn`, the names whose lock file was removed from a live daemon. Priority, memory locking and the flags of
SIGUSR1 and SIGUSR2, which no program reads, are left out.

### Manager, ManagerReq

`roster` stands for the files of the two roster directories, `configs` for the files of configurations,
`open` for the channels that exist. The daemon takes one request at a time (`Takes`), and there is an
action for every request with its error replies: `List`, `Run`, `Signal`, `CreateChannel`,
`CreateAllChannels`, `CloseChannel`, `CloseAllChannels`, `StartUp`, `ShutDown`, `Register`, `Unregister`,
`SaveConfig`, `DeleteConfig`, `LoadNothing`, `Load`, and `Overrun` and `TooFewParts` for what it drops.
Replies go out one by one (`PutReply`). `load_config` is split: the rosters are saved (`OpenLast`,
`SaveLast`), their files listed and removed one by one (`ListProcs`, `ListChans`, `Clear`), the configuration read
(`ReadConfig`) and its files written one by one (`Fill`, `Finish`),
because the manager may die between any two files, and because `hubocan_set_default_config` runs the same
code in a process of its own (`ToolLoads`, `ToolLoadsNothing`), whose reply goes to the channel all the same.
Configuration files are well formed: what `load_config` does with a malformed one is not modelled. A requester flushes, sends and collects (`Send`, `Receive`,
`TimeOut`); its timeout may expire whenever there is nothing to read. Which programs have a lock file at a
given moment is free: that is `Daemon`'s.

What stands in the files of entries is left out, and so is a lock directory of its own for the manager
(`/opt/hubo/mgr/lock`), because of which SHUT_DOWN does not stop the manager itself.

### Description, AuxCommands

A file is whatever its next line may be. `LoadFile`, `Include`, `UnreadableLine` and `EndOfIncluded` are
`DdParser::load_file`; `BeginDevice`, `EndDevice`, `BareKeyword`, `EndFile` are `next_line`, called by `parseFile` and
by the function for the device that is being read (`pc`); `Component` and `FaultyComponent` are the
parameters that tie devices together or to the bus, and those that are refused; `FinishJoint`, `FinishJmc`,
`FinishSensor`, `FinishMeta` what those functions do at their end; `PostParse` the numbering of the joints,
`addJoint` and `sortJoints`. The CAN channel of a board or sensor and its hardware index there are one
`address`, for which nothing is checked.

`AuxCommands` has every call of `AuxSender` (`Send`), the receiver's opening and update (`OpenChannels`,
`Receive`), and the handlers of boards and sensors (`Process`), as the joints and sensors they then act on. Its
specification is `AuxSpec`, since the proofs extend it together with `CanCycle`, the same program's cycle.
A frame is heard by every device at its address that is of the kind it is for (`OnBus`).
Sender and receiver have the same description here; that a client gets a whole one is `StateSync`'s. What
is sent before the receiver opens its channel is flushed.

### Waypoints

One action for each call of the Operator: `LoadDescription`, `SetJointIndices` (by name or by index),
`AddWaypoints`, `RemoveWaypoints`, `SetInterpolationMode`, `GetTrajectory`, `Interpolate`, `Send`. Positions
are integers in units in which the limits are whole numbers per period, and what is scaled is truncated.
`SaturateRound` is one round of the loop of `saturate()`, with its locals in `loop`. The optimal and the
spline interpolation have the outcomes the rest of the code can tell apart (`Samples`, `Splined`).
`broken` says that memory was read that is not there, which happens for a waypoint that is shorter than the
mapping that was set later (`Overread`) and for the one index too many that `setJointIndices` accepts
(`InterpolateUnlimited`); nothing is said of what the program does after that. Custom limits are left out,
all joints have the same limits, and so are empty mappings.

## 3. Runs

| Run | Checks | Shows |
|---|---|---|
| `cmd_safety` | `TypeOK`, `OutputMatchesOwner`, `ImplementsOwnership` | two processes, overruns, crashes, restarts: one owner per joint, only its commands pass |
| `cmd_bitmap` | `OwnsOnlyWhatItCommanded`, `FramesCarryWhatWasWritten` | with more joints than an `int` has bits, messages carry exactly what was written, and only who names a joint without a bit of its own claims others |
| `cmd_liveness` | `ClaimIsHonoured`, `HardwareFollowsOutput` | a claim that was put is granted; what was merged reaches the hardware |
| `path_transfer` | `TypeOK`, `PlaysOnlyWholeTrajectories`, `ImplementsDelivery`, `EveryTransferReturns` | no fragment is played; trajectories arrive once, in order and unmixed, an OKAY is true; neither side waits for ever |
| `player_safety` | `TypeOK`, `DrivesOnlyNamedJoints`, `ExitStopsTheJoints`, `MovesWithinSpeed` | what the player drives, how fast, and that it stops |
| `can_safety` | `TypeOK`, `AccountsAddUp`, `CycleDrains`, `ReportedReferenceWasSent`, `AuxInOrder` | late, exact and early cycles: replies add up, early cycles send everything, the order of frames is right |
| `state_sync` | `TypeOK`, `PartsNotOlder`, `NamedReadingIsTheDevices`, `DescriptionIsWhole`, `OkayMeansNewer` | readings across three channels and across restarts with another robot |
| `describe_twice` | `DescriptionIsReplaced` (**violated**) | a description that is received again does not replace the first, as `State.hpp:98-100` says it does, but is put behind it |
| `daemon` | `TypeOK`, `LockGuardsItsName`, `StaleLockNeedsFault`, `LauncherReturns`, `QuitReleasesTheName` | lock files through forks, failures, reused ids, stops and kills |
| `manager` | `TypeOK`, `LoadingLosesNothing`, `AloneGetsTheAnswer` | rosters through deaths and two loaders; answers on a shared channel |
| `description` | `AuxTypeOK`, `AcceptedIsARobot`, `CommandsReachWhatTheyName` | any device file, and auxiliary commands to the robot it describes |
| `waypoints` | `TypeOK`, `SentIsAsked`, `SaturationIsSafe`, `SaturationKeepsPace` | calls of the Operator in any order; saturation round by round |

What `TrajectoryDelivery` promises of order and mixing it promises as long as transfers do not overlap in
time (`overlapped`), and that OKAY is true as long as, besides, every chunk was put to a listening player by a
sender that saw READ_READY (`astray`). Without these conditions it fails, as the code does: no message says which transfer it
belongs to. Transfers one after another, with whatever the earlier ones left behind after a timeout, are
covered. That a trajectory is handed over at most once it promises without conditions, whatever is lost, left
over or restarted. `OneSendPerTrajectory` and `OkayMeansReceived`, which say
some of this of `PathTransfer` itself, are stated for the proofs, where they come first; the run checks the whole.

`ReportedReferenceWasSent` and `AuxInOrder` stop at the first cycle that finds frames of an earlier
one (`carried`). That takes a cycle that starts exactly at its deadline: its frames are queued, none
is sent, and since queues are emptied from the back they go out after those of the next cycle, so
that a board may keep the older reference. Late cycles are no exception: they are skipped before
anything is queued.

The other exceptions that are part of a property:

* `OwnsOnlyWhatItCommanded` leaves out what a process owns that named a joint without a bit of its own: with
  more joints than an `int` has bits, one at or above the sign bit.
* `NamedReadingIsTheDevices` leaves out positions at which the running robot has another device than the
  client's description, and `DescriptionIsWhole` descriptions that are received by a client that has one.
* `OkayMeansNewer` leaves out the first frame after the arrays were made anew, which may be one that was read before.
* `PartsNotOlder` leaves out a description that was received twice: its names are repeated, so
  `initialize` gives the arrays anew but does not open the channels again, and times start from 0 while
  frames that were read before stay read.
* `LockGuardsItsName` leaves out `torn` names. A lock file is removed from a live daemon by a program that
  init started under its name, or by the manager killing the daemon's predecessor.
* `LoadingLosesNothing` leaves out that the tool and the manager change files at the same time, and ends at the
  next load: this saves the rosters as it finds them over the only copy of what a load that was cut short took away.
* `DrivesOnlyNamedJoints` counts a trajectory as accepted until the player lets go of its joints. A loading that
  fails ends a trajectory without that, and a QUIT that follows does not do it either.
* `AcceptedIsARobot` leaves out errors in a file without boards, `CommandsReachWhatTheyName` what devices at one
  address do besides, and which sensors `initialize_all_imus` initializes, unless the first sensor is the one IMU.
* `SaturationIsSafe` leaves out the acceleration in steps in which one of several joints is at the speed limit, and
  `SentIsAsked` what is sent after a waypoint was taken away or the mode set (`kept`).
* `AloneGetsTheAnswer` is about a requester with nothing else going on, and as many replies as the field
  that counts them can say; a list of 256 entries is announced as 0 and taken for complete after its first.

### Seen while modelling

What the code does that one would not expect, from its documents, messages or names:

* **Ownership.** `_resolve_ownership` records the sender as the owner of a free joint before it looks at the
  mode, so a RELEASE takes the joint (`Aggregator.cpp:309`), although `Commander.cpp:161` says that releasing
  a joint one does not own "will not do anything". A process that only set a joint to IGNORE and exits
  remains its owner.
* **Bitmap.** The bit of a joint is computed as an `int` (`hubo_cmd_c.c:249`) although the bitmap has 64
  bits: joint 31 sets bits 31 to 63 and joint 32 bit 0, so that commanding one of them claims others. The
  shipped robots have such joints (`devices/Hubo2Plus.dd:11`). `Trajectory::claim_joint` has the same shift.
* **Transfer.** After "We will NOT send off the trajectory!" (`hubo_path.cpp:75`) it is sent.
* **Player.** Joints are claimed before the limits are checked (`Player.cpp:202`); the claims of a trajectory
  that "we will ignore" (`Player.cpp:231`) go out with the next accepted one. `check_limits` does not enforce
  accelerations unless asked to (`Trajectory.hpp:114`), and the player does not ask, while
  `hubo_path_c.h:85-86` says that paths are rejected for them. A failed LOAD clears the trajectory without
  releasing its joints (`Player.cpp:289-294`), and a QUIT after that does nothing (`Player.cpp:322-326`), so the
  next trajectory that is accepted goes on driving them at their last references.
* **State.** A description that is received again is put behind the first (`HuboDescription.cpp:142-148`), though
  `State.hpp:98-100` says that it replaces it: `describe_twice`. The arrays then have no names at all.
* **Cycle.** A frame is given `diff / frame_count` seconds, but `increment_clock` truncates to nanoseconds
  (`CanPump.cpp:118`): if a cycle starts with fewer nanoseconds left than it has frames, the clock never moves
  and `pump()` never returns. `CycleDrains` is about cycles that end.
* **Boards.** When one joint of a board is RIGID the other one is sent the position the aggregator holds for
  it, also if it is in mode IGNORE (`Hubo2PlusBasicJmc.cpp:135-147`). `Hubo2Plus5chJmc` does not count
  `received_replies`, and takes fingers 4 and 5 from the bytes 6 to 9 of a frame of 4
  (`Hubo2Plus5chJmc.cpp:85-89`); `DrcHubo3chJmc` reports references it does not send (`DrcHubo3chJmc.cpp:51`).
* **Sensors.** `initialize_all_imus` sends INIT_SENSOR for the first sensor, of whatever kind
  (`AuxSender.cpp:191-196`), although there is INIT_ALL_IMUS, which the receiver and the IMUs know.
  `Hubo2PlusFt::decode` sets `force[0]` twice and `force[1]` never.
* **Operator.** `setJointIndices` with indices accepts one that is too great by one. `removeLast`,
  `clearWaypoints` and `setInterpolationMode` do not have the trajectory built again, so what is sent next may
  have more waypoints, or another mode, than the Operator has (`kept` in `SentIsAsked`).
* **Saturation.** `hubo_path_c.h:81` says "Upsample the trajectory just enough to respect joint limits". The
  loop replaces the upcoming waypoint by one the acceleration limit allows and goes on to the next, so a
  trajectory that needs more elements than it has waypoints may stop short of its end, or overshoot. When the
  acceleration limit is not above the speed limit, per period, it never puts an element in
  (`NeverUpsamplesHolds`); this is so for every joint of the descriptions in `devices/`: at their 200 Hz,
  the limit of 200 per second squared lets the speed change by 1 per second in a period, less than the least
  speed limit, 6. With
  several joints the acceleration limit is not kept while one of them is at the speed limit, though the same line
  says that limits are respected: all joints are slowed down with that one, however fast they were. With a speed
  limit of 0 saturation does not end.
* **Manager.** The reply to RESET_ROSTERS names LOAD_CONFIG, so whoever sends it is told
  MGR_RACE_CONDITION. Loading "last_config" overwrites it first, and every
  load overwrites what the one before saved there, also if that never finished. `run_process` reports NO_ERROR for
  an entry
  it cannot run. SHUT_DOWN closes only channels that are still registered.
* **Daemonizer.** Reading the SIGUSR1 flag resets that of SIGUSR2 (`Daemonizer.cpp:125`); no program reads
  either. A launcher is told of success after the first fork, whatever becomes of the daemon.
* **Description.** The last line of a file is dropped, so a file may end within a device; an error is noted but
  does not have the file refused if it describes no board, so `parseFile` does not return true "if and only if
  there were no errors" (`HuboDescription.hpp:60`); a file that is included twice is reported as a loop. Two boards, or two
  sensors, may have one `can_channel` and `hardware_index` (`HuboDescription.cpp:510-517`): nothing compares them,
  and what is sent to the one reaches the other.

### Bounds

* `cmd_safety`: one joint (joints are decided independently of each other; several joints in one
  message are `cmd_bitmap`'s), two processes, a ring of two frames: the second frame of one
  process overtakes, or overwrites, the other's. `PidModulus` 4 with pids 1 and 6 makes the
  truncation happen.
* `cmd_bitmap`: an `int` of two bits and three joints, so that joint 1 sits in the sign bit, whose extension sets
  the bit of joint 2, and joint 2 shares the bit of joint 0. One process, a ring of one frame, no lost frames, and
  without the interface (`NoInterface`), on which aggregator and clients do not depend.
* `path_transfer`: two operators and two transfers, so that one may meet or follow another; two chunks (first
  and last differ); a ring of two; one attempt for readiness. The proofs have any number of each.
* `player_safety`: one joint (a trajectory may or may not name it; nothing in a step relates two
  joints), up to three elements (none, one, both ends and a middle), references -2 .. 2 with a limit of 1 and a
  speed of 1, so that both limits reject something.
* `can_safety`: two channels with a board each, so that one channel has more frames than the other;
  two references and two auxiliary commands, so that old and new differ; three cycles: one that
  leaves something behind, one that meets it, one after it. A cycle has -1, 0 or 4 nanoseconds for at
  most three or four frames, so that the division leaves a remainder.
* `state_sync` and `describe_twice`: a robot with a joint and a force-torque sensor, and one with another joint in
  the first one's place, that one behind it, and no sensor: arrays grow and shrink, names move, and a board that
  both have counts in the size. Two
  cycles, so that there is an older and a newer publication on each channel; two joints in a client's
  description, so that it may have received one twice.
* `daemon`: three launches of two daemons with two ids. The second launch of a daemon meets the first one's
  lock file; the other daemon may get an id that stands in it.
* `manager`: a program and two channels, any of them registered, and a shipped configuration of the channels,
  so that what is lost in loading shows; one configuration besides "last_config", so that one may be rewritten
  while it is loaded. A request ring of one and a reply ring of two frames, so that both overflow; two
  requesters (interchangeable, hence symmetric) with two requests, or loads by the tool, between them, so that the
  answer to the first may come after the second. `ReplyNumbers` is 3 instead of 256.
* `description`: two files, one of which may include the other; two names and two indices, so that devices
  may or may not agree in each, nor in their addresses; up to four devices, so that there may be two joints and two boards, or a board
  without a joint; two calls on a ring of one frame, which the second may overwrite.
* `waypoints`: two joints, mapped singly or both in another order, and the index that is one too many; up to
  two waypoints; positions 0 and 5 with a speed of 2 and an acceleration of 3, so that a step is divided
  unevenly, the two limits pull apart (reversing from full speed takes 4), and elements are put in, which takes an
  acceleration limit above the speed limit (`NeverUpsamplesHolds`); six calls.

`Depth`, `MaxChunks`, `MaxSends`, `MaxWait`, `MaxLen`, `MaxCycles`, `MaxAux`, `MaxForeign`, `MaxTime`,
`MaxEntries`, `MaxRequests`, `MaxCalls`, `MaxIndex`, `MaxDevices`, `ReqDepth`, `ReplyDepth` and `ReplyNumbers` are
the named bounds; where there are theorems they hold for all their values. In `HuboCmd` the system may really
stop (all clients have exited and the daemon has read everything), so its runs do not check for deadlock, and
neither do those of `CanCycle`, where a process that was told to stop has stopped, of `Daemon`, where all
launches may have ended, of `AuxCommands`, where a file may be rejected, and of `Waypoints`, where the calls are
bounded. The others do.

### Fairness

* `HuboCmd`: weak fairness of the daemon's loop, which blocks in `ach_get` until a frame comes,
  and of the interface's `update`, which its main loop calls every cycle. None for the clients.
* `PathTransfer`: weak fairness of the player's step, which its main loop repeats, and of an
  operator that is inside `send_trajectory`, which is a call that runs. Nobody has to begin a
  transfer. Timeouts are steps of their own, so the fairness of the step includes the clock.
* `Daemon`: weak fairness of each process of a launch (`Program`: the scheduler runs it, and its main loop
  asks `good()` in every turn), of the launcher, whose alarm the kernel delivers, and of the manager carrying on
  with a request it has begun. None for launches, signals, crashes or returning from `main()`.
* The other modules state safety only.

## 4. Proofs

| Theorem | Statement |
|---|---|
| `HuboCmdProofs!CompressRoundTrip`, `CompressType` | a compressed message gives back for every joint what was written; it has one slot per joint |
| `HuboCmdProofs!TypeOKHolds` | types |
| `HuboCmdProofs!OutputMatchesOwnerHolds` | only the owner's commands are passed on |
| `HuboCmdProofs!RefinesOwnership` | `HuboCmd` implements `JointOwnership` |
| `HuboCmdProofs!OwnsOnlyHolds` | a process owns only joints it named, unless it named one whose bit is not its own; for any widths and number of joints |
| `HuboCmdProofs!FramesCarryHolds` | each message says what its sender wrote |
| `PathTransferProofs!TypeOKHolds`, `WholeTrajectoriesHold` | types; only whole trajectories are played |
| `PathTransferProofs!RefinesDelivery` | `PathTransfer` implements `TrajectoryDelivery` |
| `PathTransferProofs!OneSendHolds`, `OkayHolds` | without overlapping transfers a trajectory, also one that is not complete yet, is of one call; without senders out of turn either, OKAY means received |
| `PlayerProofs!TypeOKHolds`, `DrivesOnlyNamedHolds`, `MovesWithinSpeedHolds`, `ExitStopsHolds` | the four properties of `player_safety` |
| `InterfaceProofs!TypeOKHolds`, `AccountsAddUpHolds`, `CycleDrainsHolds`, `ReportedReferenceWasSentHolds`, `AuxInOrderHolds` | the properties of `can_safety`, for any number of boards, channels and cycles |
| `InterfaceProofs!AuxTypesHold`, `AcceptedIsARobotHolds`, `CommandsReachHolds` | the properties of `description`, for any files, names and number of calls |
| `StateSyncProofs!TypeOKHolds`, `NamedReadingHolds`, `WholeDescriptionHolds`, `PartsNotOlderHolds`, `OkayMeansNewerHolds` | the five properties of `state_sync`, for any robots, also such that disagree at every position, and any number of cycles |
| `DaemonProofs!TypeOKHolds`, `LockGuardsHolds`, `StaleLockHolds` | the safety properties of `daemon`, for any number of launches, names and ids |
| `ManagerReqProofs!TypeOKHolds`, `LoadingLosesNothingHolds`, `AloneGetsTheAnswerHolds` | the properties of `manager`, for any names, requesters and ring depths |
| `WaypointsProofs!TypeOKHolds`, `SentIsAskedHolds` | types; what is sent is what was asked for, unless a waypoint was taken away or the mode set since it was built |
| `WaypointsProofs!SaturatedIsSlowHolds` | what saturation puts out keeps to the speed limit, and to the acceleration limit but when one of several joints is at the speed limit, whatever they are (the first part of `SaturationIsSafe`) |
| `WaypointsProofs!SaturationIsSafeHolds` | so it does, and it ends: it puts out at most `PerWaypoint` elements for each waypoint, for any limits |
| `WaypointsProofs!NeverUpsamplesHolds` | with an acceleration limit that is not above the speed limit, saturation puts out one element per waypoint, however far apart they are |

Assumptions are those on the constants (`WidthsAssumption`, `PidAssumption`, `ChannelAssumption`,
`SwitchAssumption`, `BoundsAssumption`, `LimitsAssumption`, `BoardsAssumption`, `TimeAssumption`,
`CycleBoundsAssumption`, `RobotsAssumption`, `StateBoundsAssumption`, `LaunchAssumption`,
`WaypointsAssumption`, `ManagerAssumption`, `RequestAssumption`, `DescriptionAssumption`, `AuxAssumption`); every run
evaluates them. That the names of processes, channels and configurations
are finitely many, which `ManagerAssumption` says, is what lets an answer be a finite sequence.

The arguments:

* **Round trip.** The slot of a joint is the number of set bits below it. That rank is strictly
  monotonic on the set joints (`RankMonotonic`), hence injective, and below the number of set
  joints, so compressing is a bijection on slots and reading inverts it.
* **Commands.** `TypeInv` adds to the types that every unread valid frame has a slot for each joint
  of its bitmap (`FramesFit`): without it, reading a frame could be an application outside of a
  domain, and the mode it yields would be unknown. `OutputMatchesOwner` is then inductive: the
  aggregator alone changes owner and output, and `CollateIsAct` shows that one pass is one `Act` of
  the abstract process with the frame's pid.
* **Owning only what was named** needs the joints of unread frames and of client messages to be ones their
  process may own (`NamedInv`); the frames are what carries the fact over to the aggregator. `MayOwn` is what was
  named, if the bit of each of these is its own (`Unaliased`: then `IntShift` gives it no other, `IntShiftExact`),
  and grows with every call (`MayOwnGrows`).
* **Whole trajectories.** While the player listens its trajectory is the chunks 0 .. `chunkId`
  (`TakenSoFar`); the last chunk completes it, everything else that ends the reception clears it.
  The types need that an operator in mid-transfer has a chunk below its total and attempts left
  (`SendersFit`).
* **Player.** While it is not quit its trajectory is an accepted one and the index is inside, or 0 if there is no
  element to be inside of (`PlaysAccepted`), so an index that moves by at most one stays on checked pairs of elements.
  Exit needs that every joint the player drives is registered in its message and its own
  (`DrivenIsRegistered`), through all sends, refusals and preemptions.
* **Cycle.** The accounts of replies and of dropped readings are inductive given the types, which
  need that a board in the middle of its auxiliary commands has one (`AuxPending`) and that boards are
  only updated while there is time (`TimeLeft`). That a cycle drains needs `Budget`: in an early cycle
  the frames a channel still has, times `dt`, fit in what is left, and something is left as long as
  there are any. It is established because the truncated quotient times the greatest number of
  frames is at most what there was.

* **State.** Every array and frame has a component for each device of the robot it is from, and only their values
  or zero (`Of`, `Readings`); that robot is the one in `sentBy` and `readFrom`, and an array that was made anew holds
  only zeroes, one for each of its names. The newest joints are never newer than the newest IMUs, nor those than the
  force-torque data (`Times`), so that what a client has read in a turn bounds what it goes on to read from below
  (`Reading`).
* **Daemons.** `LockGuardsItsName` is inductive given the types: a launch gets the file only if there is none, and
  then nobody holds the name (`HolderHasLock`); each other step either leaves holders and files alone, or removes
  a file, and then it was its own or the name is `torn`. `StaleLockNeedsFault` needs it, to know that the file a
  closing daemon removes was the last word about its name.
* **One transfer.** Without overlaps there is at most one operator that is sending (`OneSender`), the frames the
  player has taken and those in the ring are of one sender from each chunk 0 on (`Lined`), and the newest is of the
  operator that has put one (`LatestIsOwn`): what an abandoned transfer left in the ring is flushed, or taken and
  rejected, before the next is.
* **Told OKAY.** A player that says READ_READY has just emptied its ring (`ReadyIsEmpty`), so what it finds there
  afterwards is from the operator it invited (`InvitedAlone`), and a FINISHED an operator can still read in its call
  is about that call (`FinishedIsReceived`).
* **Delivery.** That each call is handed over at most once comes from its first chunk, without which nothing is
  complete, and which is put once: the first chunks in the ring and the one the player has are of different calls
  (`FirstsDiffer`) that were not handed over yet (`FirstsAreNew`, `HeadIsNew`), and a call that has put none yet
  (`NotPutYet`) is none of them; that a call owns its number (`OwnNumber`) is why what it puts is new. Without
  overlaps, all that is on its way is of a later call than all that was handed over (`OrderInv`). The rest is above: a
  mixture needs an overlap by `OneSendHolds`, and OKAY is true by the invariant of `OkayHolds`. Then there is one
  lemma for each kind of step (`StartIsBegin`, `PutIsStray`, `WaitIsReturn`, `LastIsDeliver`, `PlayerIsDelivery`).
* **References and auxiliary commands.** A frame is in the queue of its board's channel (`Placed`); the newest
  reference of a board is the one it reports, and is on its way or sent (`Newest`, `SentOrQueued`); of a board's
  auxiliary commands those in the list ascend, those in the queue, which is emptied from its end, descend, and all are
  later than the one that was sent (`Ascending`, `Descending`, `PutAfter`, `SentBefore`).
* **Description.** Until a description is accepted its boards are empty and the names of its joints differ (`Reading`);
  then every slot holds a joint that names this board and this slot (`InPlace`), and every joint is in one
  (`HasPlace`), so that boards and slots number the joints one to one (`Assembled`, `NamesDiffer`).
* **Auxiliary commands.** That one-to-one numbering is why what a message makes its receivers do is what the call
  meant (`AskedIsMeant`, for each of the ten calls; `Reaches` is the one sensor for the call that goes astray). A
  device does what it is told (`OwnFrame`), and if it has its address for itself nobody else does (`OnlyFrame`). What is on the channel and in the devices' queues was asked for
  and is for the device that has it (`ForWhomItIs`), so no device does more; and a call is on the channel, in the
  queue of each device it is for, or done (`AllFollowed`), unless the ring was overwritten or flushed.
* **Manager.** While a configuration is loaded the daemon answers nobody (`OneAtATime`), and as long as an agent
  has files to remove, all they name is saved; when it has emptied "last_config", that is empty until it saves
  (`SavedFirst`). Of a requester that is alone, what it has heard, what is
  in its ring and what the manager still has to say are together the answer (`HearsAll`), and a request that is not
  answered yet is its own (`AloneWithManager`).
* **Waypoints.** While the trajectory is kept and nothing was taken away, an uninterpolated one is what the
  waypoints, the mapping and the mode give (`KeptIsCurrent`). The types need that the mapping fits the waypoints
  (`MapFits`). While it saturates, what it compares with is the element it put out last (`LastIsOut`), and the target
  of a joint that moves alone is where the acceleration limit lets it be (`AheadIsAllowed`); cutting off the speed
  keeps it there (`CutOff`), and when no joint reaches the speed limit nothing is cut off. That it ends needs how far it is off: a target that was just aimed at the next
  waypoint is at most the speed and the acceleration limit, S + A, away from the last element, and each round that
  does not go on brings it at least S nearer (`Wavered`, in `PaceInv`). A round cuts off at most S of the way and what
  it leaves is within A (`LimitedRest`, `LimitedBetween`), so that after A / S rounds the way that is left is
  within the speed limit and it goes on; rounded, this is `PerWaypoint` (`PerWaypointBound`). `NeverUpsamples` is the
  case in which this is 1. That the slowest joint exists, the greatest element of a finite set, is shown by
  well-founded minimality (`GreatestExists`).

The proof of the types of `Waypoints` corrected them: they used to bound the counter of `_saturate` by the longest
path of waypoints, which is wrong for limits the run does not have, since a trajectory that was saturated keeps its
mode and may be saturated again when it has grown. The bound is now the length of the trajectory.

Only model-checked: all liveness (`EveryTransferReturns`, `ClaimIsHonoured`, `HardwareFollowsOutput`,
`LauncherReturns`, `QuitReleasesTheName`), which TLAPS does not do here, and `SaturationKeepsPace`, whose bound is a sum
over the elements, computed by a fold, of which nothing can be proved without induction. It is sharper than
`SaturationEnds` where waypoints are close to each other, and the run has an acceleration limit above the speed
limit, with which elements are put in.

## 5. Plan

Done: the command path, the transfer, the player, the interface's cycle, the state, the description with
the auxiliary commands, the manager with its requesters, the daemons, the Operator.

Left, in order of what it would add:

1. `CanCycle` with boards of two joints: what a joint in mode IGNORE is sent because of its neighbour, and the
   boards with frames of their own.
2. `StateSync` with a channel to the player, for the age of the references a trajectory's start is compared
   with (`Player.cpp:189`).

## 6. Not modelled

* Numerics: optimal and spline interpolation (`HuboPath/interpolation` is vendored), unit conversion,
  homing offsets, gains.
* Log relay and Qt front end: the first tails files, the second calls what is modelled (`ManagerReq`,
  `AuxSender`) and draws; neither keeps anything the others depend on. Option parsing.
* Real time: outside of `CanCycle`, where the time to the deadline counts, durations never appear;
  a timeout may fire whenever nothing is there to read, and a cycle takes as long as it takes.
* The frames of the other controller boards and of the sensors; `VirtualPump`, which sends nothing.
* Of modelled components: the joints' status frames; custom limits and `forward_saturate` of `Trajectory`
  (the latter unused); process priority and locked memory; the contents of roster files; device parameters
  that tie nothing together; the branch for `PATH_TX_CANCEL`, which nothing sends.
