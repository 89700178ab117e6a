---------------------------- MODULE AuxCommands ----------------------------
(***************************************************************************)
(* Auxiliary commands, from the caller of an AuxSender to the frames of    *)
(* the devices (HuboCmd/AuxSender.cpp, AuxReceiver.cpp, and the handlers   *)
(* of boards and sensors), composed with the description that tells both   *)
(* ends which joint sits where.                                            *)
(*                                                                         *)
(* The sender has the description from the info channel (StateSync); it is *)
(* the receiver's, which is made after that was broadcast: a command that  *)
(* comes before is flushed.  In which order a device sends its frames is   *)
(* in CanCycle.                                                            *)
(***************************************************************************)
EXTENDS Description, Ach

CONSTANTS
    Depth,      \* frames the ring of the channel holds
    MaxCalls    \* bound: calls of AuxSender

ASSUME AuxAssumption == Depth \in Nat \ {0} /\ MaxCalls \in Nat

VARIABLES
    receiving,  \* whether there is a receiver
    auxChan,    \* the channel, as it reads it
    pending,    \* _aux_commands of each device
    asked,      \* the calls so far
    calls,      \* history: what was asked for
    frames,     \* history: what devices put on the bus, and for which device
    missed      \* history: whether commands were overwritten or flushed

auxVars  == <<receiving, auxChan, pending, asked, calls, frames, missed>>
bothVars == <<descVars, auxVars>>

Boards  == {<<"JMC", k>> : k \in DOMAIN jmcs}
Sensors == {<<"Sensor", s>> : s \in DOMAIN sensors}

Calls ==
    [call : {"home_joint", "joint_ctrl_on", "joint_ctrl_off"}, which : 0 .. MaxIndex + 1]
    \cup [call : {"initialize_sensor"}, which : 1 .. 2]
    \cup [call : {"home_all_joints", "all_joint_ctrl_on", "all_joint_ctrl_off",
                  "initialize_all_imus", "initialize_all_fts",
                  "initialize_all_sensors"}, which : {0}]

AuxInit ==
    /\ DescInit
    /\ receiving = FALSE
    /\ auxChan = Flushed /\ pending = <<>>
    /\ asked = 0 /\ calls = {} /\ frames = {} /\ missed = FALSE

-----------------------------------------------------------------------------
(* AuxSender.  Boards and sensors are numbered from 1 here.                 *)

Message(id, dev, all, comp, on) ==
    [cmd_id |-> id, device_id |-> dev, all |-> all, component_id |-> comp, on |-> on]

ForAll(id, on) == Message(id, 0, TRUE, 0, on)

Invalid == -1

(* Mutant: the slot is taken for the joint's number. *)
ForJointBySoftwareIndex(id, i, on) ==
    IF i \in DOMAIN joints
    THEN Message(id, CHOOSE k \in JmcIndexes(joints[i].jmc_name) : TRUE, FALSE, i, on)
    ELSE Message(id, Invalid, FALSE, Invalid, on)

(* getJointInfo, which has zeroes for a joint there is none of.             *)
JointInfo(i) ==
    IF i \in DOMAIN joints THEN joints[i] ELSE [jmc_name |-> NoName, hardware_index |-> 0]

(* _set_jmc_info: InvalidIndex for a joint there is none of.                *)
ForJoint(id, i, on) ==
    IF i \in DOMAIN joints
    THEN Message(id, CHOOSE k \in JmcIndexes(joints[i].jmc_name) : TRUE, FALSE,
                 JointInfo(i).hardware_index, on)
    ELSE Message(id, Invalid, FALSE, Invalid, on)

(* initialize_all_imus sends the command for one sensor, and names none.    *)
Asks(c) ==
    CASE c.call = "home_joint"             -> ForJoint("HOME_JOINT", c.which, FALSE)
      [] c.call = "joint_ctrl_on"          -> ForJoint("JOINT_CTRL_SWITCH", c.which, TRUE)
      [] c.call = "joint_ctrl_off"         -> ForJoint("JOINT_CTRL_SWITCH", c.which, FALSE)
      [] c.call = "home_all_joints"        -> ForAll("HOME_JOINT", FALSE)
      [] c.call = "all_joint_ctrl_on"      -> ForAll("JOINT_CTRL_SWITCH", TRUE)
      [] c.call = "all_joint_ctrl_off"     -> ForAll("JOINT_CTRL_SWITCH", FALSE)
      [] c.call = "initialize_sensor"      -> Message("INIT_SENSOR", c.which, FALSE, 0, FALSE)
      [] c.call = "initialize_all_imus"    -> Message("INIT_SENSOR", 1, FALSE, 0, FALSE)
      [] c.call = "initialize_all_fts"     -> Message("INIT_ALL_FTS", 1, FALSE, 0, FALSE)
      [] c.call = "initialize_all_sensors" -> ForAll("INIT_SENSOR", FALSE)

Send(c) ==
    /\ pc = "accepted" /\ asked < MaxCalls
    /\ asked' = asked + 1 /\ calls' = calls \cup {c}
    /\ auxChan' = Put(auxChan, Depth, Asks(c))
    /\ UNCHANGED <<descVars, receiving, pending, frames, missed>>

-----------------------------------------------------------------------------
(* AuxReceiver.  It is made when the description is accepted, and flushes   *)
(* what is on the channel.                                                  *)
OpenChannels ==
    /\ pc = "accepted" /\ ~receiving
    /\ receiving' = TRUE /\ auxChan' = Flushed
    /\ missed' = HasFrame(auxChan)
    /\ UNCHANGED <<descVars, pending, asked, calls, frames>>

(* update, one command: _register_command.                                  *)

OfKind(d) == {<<"Sensor", s>> : s \in {t \in DOMAIN sensors : sensors[t].sensor = d}}

Receivers(m) ==
    CASE m.cmd_id = "INIT_ALL_IMUS" -> OfKind("IMU")
      [] m.cmd_id = "INIT_ALL_FTS"  -> OfKind("FT")
      [] m.cmd_id = "INIT_SENSOR"   ->
             IF m.all THEN Sensors ELSE Sensors \cap {<<"Sensor", m.device_id>>}
      [] OTHER ->
             IF m.all THEN Boards ELSE Boards \cap {<<"JMC", m.device_id>>}

Waiting(d) == IF d \in DOMAIN pending THEN pending[d] ELSE <<>>

Registered(m) ==
    [d \in DOMAIN pending \cup Receivers(m) |->
        IF d \in Receivers(m) THEN Append(Waiting(d), m) ELSE Waiting(d)]

(* A frame that comes with ACH_MISSED_FRAME is taken as well.               *)
Receive ==
    /\ receiving /\ HasFrame(auxChan)
    /\ missed' = (missed \/ auxChan.lapped)
    /\ auxChan' = AfterGet(auxChan)
    /\ pending' = Registered(Next1(auxChan))
    /\ UNCHANGED <<descVars, receiving, asked, calls, frames>>

-----------------------------------------------------------------------------
(* The handlers of the devices, as the joints and sensors they concern: a   *)
(* board switches all its joints at once.                                   *)

BoardDoes(k, m) ==
    CASE m.cmd_id = "HOME_JOINT" /\ m.all  ->
             {<<"home", i>> : i \in Range(jmcs[k].joints)}
      [] m.cmd_id = "HOME_JOINT" /\ ~m.all ->
             {<<"home", jmcs[k].joints[h]>> : h \in DOMAIN jmcs[k].joints \cap {m.component_id}}
      [] m.cmd_id = "JOINT_CTRL_SWITCH"    ->
             {<<IF m.on THEN "on" ELSE "off", i>> : i \in Range(jmcs[k].joints)}

ImuDoes(s, m) ==
    IF m.cmd_id \in {"INIT_ALL_IMUS", "INIT_SENSOR"} THEN {<<"initialize", s>>} ELSE {}

FtDoes(s, m) ==
    IF m.cmd_id \in {"INIT_ALL_FTS", "INIT_SENSOR"} THEN {<<"initialize", s>>} ELSE {}

Does(d, m) ==
    IF d[1] = "JMC" THEN BoardDoes(d[2], m)
    ELSE IF sensors[d[2]].sensor = "IMU" THEN ImuDoes(d[2], m) ELSE FtDoes(d[2], m)

(* A frame says for which address it is, and which kind of sensor; all that *)
(* the description puts there do what it says.                              *)
SameAddress(d) ==
    IF d[1] = "JMC" THEN {b \in Boards : jmcs[b[2]].address = jmcs[d[2]].address}
    ELSE {b \in OfKind(sensors[d[2]].sensor) : sensors[b[2]].address = sensors[d[2]].address}

(* A board refuses to home a joint it does not have.                        *)
Refuses(d, m) ==
    m.cmd_id = "HOME_JOINT" /\ ~m.all /\ m.component_id \notin DOMAIN jmcs[d[2]].joints

OnBus(d, m) ==
    IF Refuses(d, m) THEN {} ELSE UNION {Does(e, m) : e \in SameAddress(d)}

(* update() of a device with commands pending, _process_auxiliary_commands. *)
Process(d) ==
    /\ d \in DOMAIN pending
    /\ frames' = frames \cup UNION {OnBus(d, m) : m \in Range(pending[d])}
    /\ pending' = Restrict(pending, DOMAIN pending \ {d})
    /\ UNCHANGED <<descVars, receiving, auxChan, asked, calls, missed>>

AuxNext ==
    \/ DescNext /\ UNCHANGED auxVars
    \/ \E c \in Calls : Send(c)
    \/ OpenChannels
    \/ Receive
    \/ \E d \in DOMAIN pending : Process(d)

AuxSpec == AuxInit /\ [][AuxNext]_bothVars

-----------------------------------------------------------------------------
(* Properties. *)

(* Types of the description, the messages and the devices' queues.          *)
AuxTypeOK ==
    /\ DescTypeOK
    /\ Len(auxChan.unread) <= Depth
    /\ DOMAIN pending \subseteq Boards \cup Sensors
    /\ \A d \in DOMAIN pending : Len(pending[d]) \in 1 .. MaxCalls
    /\ asked \in 0 .. MaxCalls /\ calls \subseteq Calls /\ receiving \in BOOLEAN /\ missed \in BOOLEAN
    /\ frames \subseteq ({"home", "on", "off"} \X DOMAIN joints)
                        \cup ({"initialize"} \X DOMAIN sensors)

(* The joints and sensors a call names; switching the control of a joint    *)
(* means its board.                                                         *)
Kind(d) == {s \in DOMAIN sensors : sensors[s].sensor = d}
Together(i) == {j \in DOMAIN joints : joints[j].jmc_name = joints[i].jmc_name}
Named(what, S) == {<<what, i>> : i \in S}
Switched(c) == IF c.which \in DOMAIN joints THEN Together(c.which) ELSE {}
Meant(c) ==
    CASE c.call = "home_joint"             -> Named("home", {c.which} \cap DOMAIN joints)
      [] c.call = "joint_ctrl_on"          -> Named("on", Switched(c))
      [] c.call = "joint_ctrl_off"         -> Named("off", Switched(c))
      [] c.call = "home_all_joints"        -> Named("home", DOMAIN joints)
      [] c.call = "all_joint_ctrl_on"      -> Named("on", DOMAIN joints)
      [] c.call = "all_joint_ctrl_off"     -> Named("off", DOMAIN joints)
      [] c.call = "initialize_sensor"      -> Named("initialize", {c.which} \cap DOMAIN sensors)
      [] c.call = "initialize_all_fts"     ->
             Named("initialize", Kind("FT"))
      [] c.call = "initialize_all_sensors" -> Named("initialize", DOMAIN sensors)
      [] c.call = "initialize_all_imus"    -> Named("initialize", Kind("IMU"))

(* Two boards, or two sensors of a kind, that are told apart on the bus.    *)
AddressesDiffer ==
    /\ \A k, l \in DOMAIN jmcs : jmcs[k].address = jmcs[l].address => k = l
    /\ \A s, t \in DOMAIN sensors :
           sensors[s].sensor = sensors[t].sensor /\ sensors[s].address = sensors[t].address
               => s = t

(* initialize_all_imus asks the first sensor, of whatever kind, so that it  *)
(* goes astray unless that is the one IMU there is (or there is no sensor). *)
Astray(c) == c.call = "initialize_all_imus" /\ Kind("IMU") # {1} \cap DOMAIN sensors

(* What devices do is what was asked for, of the joint or sensor that was   *)
(* named, through two numberings of the joints, two of the sensors and the  *)
(* addresses on the bus, if the description gives no two devices one; and   *)
(* once all is processed, nothing that was asked for is left undone, unless *)
(* commands were lost.  Which sensors initialize_all_imus initializes when  *)
(* it goes astray is left open.                                             *)
CommandsReachWhatTheyName ==
    LET straight == {c \in calls : ~Astray(c)}
        open     == IF straight = calls THEN {} ELSE Named("initialize", DOMAIN sensors)
    IN  /\ AddressesDiffer => frames \subseteq open \cup UNION {Meant(c) : c \in straight}
        /\ ~missed /\ ~HasFrame(auxChan) /\ pending = <<>> =>
               UNION {Meant(c) : c \in straight} \subseteq frames
=============================================================================
