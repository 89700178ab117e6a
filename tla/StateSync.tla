----------------------------- MODULE StateSync -----------------------------
(***************************************************************************)
(* How a client learns the state of the robot: the hardware interface      *)
(* broadcasts the description of the robot (HuboDescription, hubo_info_c)  *)
(* and in every cycle publishes what the devices answered (State::publish) *)
(* on three channels; a client receives the description, lays out its      *)
(* arrays accordingly, and reads the three channels (State::update).       *)
(*                                                                         *)
(* Interface and client are different processes: anything may happen       *)
(* between two channels of a publication or of a reading.  The interface   *)
(* may die at any point and start again, with another robot.               *)
(*                                                                         *)
(* A description is the names of its parts, in order: of the devices, of   *)
(* which there are arrays, and of the motor controllers.  The value of a   *)
(* device is abstracted to the device it came from.                        *)
(***************************************************************************)
EXTENDS HuboData

CONSTANTS
    Device,      \* names of devices and motor controllers
    Zero,        \* what an array holds for a device that has not answered
    Robots,      \* descriptions the interface may be started with
    MaxTime,     \* bound: cycles
    MaxEntries   \* bound: joints in a client's description

Kind == {"joint", "imu", "ft"}
Part == Kind \cup {"jmc"}

Described(r) == \A k \in Kind : ~Repeats(r[k])

(* Descriptions are those parseFile accepts, which have no repeated names   *)
(* of a kind.                                                               *)
ASSUME RobotsAssumption ==
    /\ Robots \subseteq [Part -> Seq(Device)]
    /\ \A r \in Robots : Described(r)
    /\ Zero \notin Device

ASSUME StateBoundsAssumption == MaxTime \in Nat /\ MaxEntries \in Nat

VARIABLES
    robot,      \* the description of the running interface
    ipc,        \* what the interface does next
    own,        \* its arrays
    now,        \* its clock: cycles so far
    chan,       \* the newest frame of each sensor channel
    metaSize,   \* the size announced on the meta channel, 0 before the first
    info,       \* the newest description on the data channel, Blank before the first
    cpc,        \* what the client does next
    expected,   \* the size it has read from the meta channel
    desc,       \* its description
    loaded,     \* its _initialized
    data,       \* its arrays
    fresh,      \* whether the newest frame of a channel is new to it
    result      \* what the latest read of each kind returned (update() ors them)

VARIABLES       \* history, which no step depends on:
    sentBy,     \* the robot whose interface published the newest frame, if any: a set
    readFrom,   \* the robot whose frame fills the client's array, if any: a set
    seen        \* the time of the newest frame the client was ever given

interfaceVars == <<robot, ipc, own, now>>
channelVars   == <<chan, metaSize, info>>
clientVars    == <<cpc, expected, desc, loaded, data, result>>
historyVars   == <<sentBy, readFrom, seen>>
vars == <<interfaceVars, channelVars, clientVars, fresh, historyVars>>

-----------------------------------------------------------------------------
(* Descriptions. *)

Blank == [k \in Part |-> <<>>]

(* hubo_info_predict_data_size, in bytes: header, joints, jmcs, sensors.    *)
InfoSize(r) ==
    71 + 120 * Len(r["joint"]) + 68 * Len(r["jmc"]) + 99 * (Len(r["imu"]) + Len(r["ft"]))

(* What broadcastInfo puts together, and sends as two messages.             *)
Broadcast(r) == [size |-> InfoSize(r), devices |-> r]

(* Mutant: a message that is too long is cut, and loses joints.             *)
InfoReceivedCut ==
    IF InfoSize(info) > expected THEN [info EXCEPT !["joint"] = SubSeq(@, 1, 1)] ELSE info

(* hubo_info_receive_data, second half: a message that is longer than was   *)
(* announced is refused, and none may come in time; the data stays blank.   *)
InfoReceived == IF InfoSize(info) > expected THEN Blank ELSE info

(* receiveInfo appends the parts to those it has.                           *)
Appended(d, r) == [k \in Part |-> d[k] \o r[k]]

(* State::_create_memory.  Opening a channel makes its newest frame new;    *)
(* initialize does not open it when a name is repeated.                     *)
Memory(old, d, opens) == [k \in Kind |-> Initialize(old[k], d[k], Zero, opens)]
FreshAfterAlways(d) == [k \in Kind |-> TRUE]    \* mutant: even before any frame
FreshAfter(d) ==
    [k \in Kind |-> IF Repeats(d[k]) THEN fresh[k] ELSE chan[k].time > 0]

(* State::initialized.                                                      *)
Initialized == loaded /\ \A k \in Kind : data[k].init

-----------------------------------------------------------------------------
(* The hardware interface. *)

Init ==
    /\ robot = Blank /\ ipc = "down" /\ own = [k \in Kind |-> Uninitialized]
    /\ now = 0
    /\ chan = [k \in Kind |-> [time |-> 0, comp |-> <<>>]]
    /\ metaSize = 0 /\ info = Blank
    /\ cpc = "idle" /\ expected = 0 /\ desc = Blank /\ loaded = FALSE
    /\ data = [k \in Kind |-> Uninitialized]
    /\ fresh = [k \in Kind |-> FALSE] /\ result = [k \in Kind |-> "none"]
    /\ sentBy = [k \in Kind |-> {}] /\ readFrom = [k \in Kind |-> {}]
    /\ seen = [k \in Kind |-> 0]

(* It starts, or dies and is started again: a new process, whose first      *)
(* outward step is the meta message of broadcastInfo.                       *)
Start(r) ==
    /\ robot' = r /\ ipc' = "data"
    /\ own' = Memory([k \in Kind |-> Uninitialized], r, TRUE)
    /\ metaSize' = Broadcast(r).size
    /\ UNCHANGED <<now, chan, info, clientVars, fresh, historyVars>>

(* The second message of broadcastInfo: the description itself.             *)
BroadcastData ==
    /\ ipc = "data"
    /\ info' = Broadcast(robot).devices /\ ipc' = "pump"
    /\ UNCHANGED <<robot, own, now, chan, metaSize, clientVars, fresh, historyVars>>

(* During pump() a device answers, and writes its component at its index.   *)
Decode(k, i) ==
    /\ ipc = "pump"
    /\ own' = [own EXCEPT ![k].comp = SetComponent(@, i, robot[k][i])]
    /\ UNCHANGED <<robot, ipc, now, channelVars, clientVars, fresh, historyVars>>

DecodeJoint  == \E i \in DOMAIN robot["joint"] : Decode("joint", i)
DecodeSensor == \E k \in {"imu", "ft"} : \E i \in DOMAIN robot[k] : Decode(k, i)

(* State::publish takes the time ...                                        *)
BeginPublish ==
    /\ ipc = "pump" /\ now < MaxTime
    /\ now' = now + 1 /\ ipc' = "ft"
    /\ UNCHANGED <<robot, own, channelVars, clientVars, fresh, historyVars>>

(* ... and sends force-torque data, IMUs and joints with it, in this order. *)
Publish(k, next) ==
    /\ ipc = k
    /\ chan' = [chan EXCEPT ![k] = Stamped(own[k], now)]
    /\ fresh' = [fresh EXCEPT ![k] = TRUE]
    /\ ipc' = next
    /\ sentBy' = [sentBy EXCEPT ![k] = {robot}]
    /\ UNCHANGED <<robot, own, now, metaSize, info, clientVars, readFrom, seen>>

Interface ==
    \/ \E r \in Robots : Start(r)
    \/ BroadcastData
    \/ DecodeJoint \/ DecodeSensor
    \/ BeginPublish
    \/ Publish("ft", "imu")
    \/ Publish("imu", "joint")
    \/ Publish("joint", "pump")

-----------------------------------------------------------------------------
(* The client. *)

(* load_description replaces the description, whatever is published.        *)
LoadDescription(r) ==
    /\ cpc = "idle"
    /\ desc' = r /\ loaded' = TRUE
    /\ \E opens \in BOOLEAN : data' = Memory(data, r, opens)
    /\ fresh' = FreshAfter(r)
    /\ result' = [k \in Kind |-> "none"]
    /\ readFrom' = [k \in Kind |-> {}]
    /\ UNCHANGED <<interfaceVars, channelVars, cpc, expected, sentBy, seen>>

(* receive_description when nothing was ever announced: the arrays are made *)
(* anew for the description it has.                                         *)
ReceiveNothing ==
    /\ cpc = "idle" /\ metaSize = 0
    /\ loaded' = FALSE
    /\ \E opens \in BOOLEAN : data' = Memory(data, desc, opens)
    /\ fresh' = FreshAfter(desc)
    /\ result' = [k \in Kind |-> "none"]
    /\ readFrom' = [k \in Kind |-> {}]
    /\ UNCHANGED <<interfaceVars, channelVars, cpc, expected, desc, sentBy, seen>>

(* receive_description, up to the meta message ...                          *)
ReceiveMeta ==
    /\ cpc = "idle" /\ metaSize > 0
    /\ Len(desc["joint"]) < MaxEntries
    /\ expected' = metaSize /\ cpc' = "data"
    /\ UNCHANGED <<interfaceVars, channelVars, desc, loaded, data, result, fresh, historyVars>>

(* ... and from there on.                                                   *)
ReceiveData ==
    /\ cpc = "data"
    /\ desc' = Appended(desc, InfoReceived)
    /\ loaded' = TRUE
    /\ \E opens \in BOOLEAN : data' = Memory(data, desc', opens)
    /\ fresh' = FreshAfter(desc')
    /\ cpc' = "idle" /\ expected' = 0
    /\ result' = [k \in Kind |-> "none"]
    /\ readFrom' = [k \in Kind |-> {}]
    /\ UNCHANGED <<interfaceVars, channelVars, sentBy, seen>>

(* State::update: joints, IMUs, force-torque data, each with receive_data.  *)
Read(k, from, next) ==
    /\ cpc = from
    /\ data' = [data EXCEPT ![k] = Received(data[k], chan[k], fresh[k])]
    /\ result' = [j \in Kind |-> IF j = k THEN ReceiveResult(data[k], chan[k], fresh[k])
                                 ELSE IF from = "idle" THEN "none" ELSE result[j]]
    /\ fresh' = [fresh EXCEPT ![k] =
                     @ /\ result'[k] # "OKAY"]
    /\ cpc' = next
    /\ readFrom' = [readFrom EXCEPT ![k] = IF result'[k] = "OKAY" THEN sentBy[k] ELSE @]
    /\ seen' = [seen EXCEPT ![k] = IF result'[k] = "OKAY" THEN chan[k].time ELSE @]
    /\ UNCHANGED <<interfaceVars, channelVars, expected, desc, loaded, sentBy>>

(* Mutant: the force-torque data is read first. *)
ClientFtFirst ==
    \/ ReceiveNothing \/ ReceiveMeta \/ ReceiveData
    \/ Read("ft", "idle", "imu") \/ Read("imu", "imu", "ft") \/ Read("joint", "ft", "idle")

Client ==
    \/ \E r \in Robots : LoadDescription(r)
    \/ ReceiveNothing
    \/ ReceiveMeta
    \/ ReceiveData
    \/ Read("joint", "idle", "imu")
    \/ Read("imu", "imu", "ft")
    \/ Read("ft", "ft", "idle")

Next == Interface \/ Client

Spec == Init /\ [][Next]_vars

-----------------------------------------------------------------------------
(* Properties. *)

Frame   == [time : Nat, comp : Seq(Device \cup {Zero})]
Array   == [init : BOOLEAN, names : Seq(Device), time : Nat,
            comp : Seq(Device \cup {Zero})]
Outcome == {"OKAY", "TIMEOUT", "ACH_ERROR"}

(* Types of the interface, the channels and the client.                     *)
TypeOK ==
    /\ robot \in Robots \cup {Blank} /\ info \in Robots \cup {Blank}
    /\ ipc \in {"down", "data", "pump"} \cup Kind
    /\ own \in [Kind -> Array] /\ now \in Nat
    /\ chan \in [Kind -> Frame] /\ metaSize \in Nat
    /\ cpc \in {"idle", "data", "imu", "ft"} /\ expected \in Nat
    /\ desc \in [Part -> Seq(Device)] /\ loaded \in BOOLEAN
    /\ data \in [Kind -> Array] /\ fresh \in [Kind -> BOOLEAN]
    /\ result \in [Kind -> Outcome \cup {"none"}]
    /\ sentBy \in [Kind -> SUBSET (Robots \cup {Blank})]
    /\ readFrom \in [Kind -> SUBSET (Robots \cup {Blank})] /\ seen \in [Kind -> Nat]

(* A reading is not torn backwards: the parts that are read after the       *)
(* joints are never older than they are (they may be newer, if the          *)
(* interface publishes in between), because they are published before them. *)
(* A description that was received twice is left out: initialize zeroes the *)
(* arrays but leaves the channels as they were.                             *)
PartsNotOlder ==
    /\ cpc = "idle" /\ Described(desc)
    /\ result["joint"] = "OKAY"
    /\ result["imu"] # "ACH_ERROR" /\ result["ft"] # "ACH_ERROR"
    => /\ data["joint"].time <= data["imu"].time
       /\ data["imu"].time <= data["ft"].time

(* What a client finds under the name of a device is that device's, or zero *)
(* if the device has not answered, as long as the robot whose frame it read *)
(* has that device at that position: a reading is never of a device from    *)
(* before a restart, nor outside the array.  Nothing is said of the others: *)
(* a frame carries no names.                                                *)
NamedReadingIsTheDevices ==
    \A k \in Kind : \A name \in Device : \A i \in Positions(data[k], name) :
        (\A r \in readFrom[k] : i \in DOMAIN r[k] /\ r[k][i] = name) =>
            i \in DOMAIN data[k].comp /\ data[k].comp[i] \in {name, Zero}

(* What a client loads, or receives when it has no description yet, is the  *)
(* whole description of one robot, although receiveInfo reads the size and  *)
(* the contents from two channels.                                          *)
DescriptionIsWhole ==
    [][desc' # desc /\ (ReceiveData => desc = Blank) => desc' \in Robots]_vars

(* State.hpp:98-100: receive_description can also be used to clear away the *)
(* current description and load a new one.                                  *)
DescriptionIsReplaced ==
    [][ReceiveData /\ InfoReceived # Blank => desc' = InfoReceived]_vars

(* receive_data never reports a publication older than one it reported      *)
(* before, and the same one again only as the first after the arrays were   *)
(* made anew (their time is zero), which opens the channel again.           *)
OkayMeansNewer ==
    [][\A k \in Kind : Read(k, cpc, cpc') /\ result'[k] = "OKAY" =>
           /\ data'[k].time >= seen[k]
           /\ data[k].time > 0 => data'[k].time > seen[k]]_vars
=============================================================================
