--------------------------- MODULE StateSyncProofs ---------------------------
(***************************************************************************)
(* What a client may conclude from the state it reads, proved for any      *)
(* robots, any number of cycles and any number of restarts of the          *)
(* interface.                                                              *)
(*                                                                         *)
(* That a reading carries the right name rests on Readings: the arrays of  *)
(* the interface, the frames of the channels and the arrays of the client  *)
(* each hold a component for every device of one robot, the one they come  *)
(* from, and only theirs.  That readings                                   *)
(* are newer, and not torn, rests on Times: how old what the client has    *)
(* may be, compared with the newest frames, and those with each other.     *)
(***************************************************************************)
EXTENDS StateSync, TLAPS

-----------------------------------------------------------------------------
(* Types. *)

LEMMA KindElements ==
    "joint" \in Kind /\ "imu" \in Kind /\ "ft" \in Kind /\ Kind \subseteq Part
BY DEF Kind, Part

LEMMA RobotType == \A r \in Robots \cup {Blank} : r \in [Part -> Seq(Device)]
<1>1. Robots \subseteq [Part -> Seq(Device)]
  BY RobotsAssumption
<1>2. Blank \in [Part -> Seq(Device)]
  <2>1. <<>> \in Seq(Device)
    OBVIOUS
  <2> QED BY <2>1, Zenon DEF Blank
<1> QED BY <1>1, <1>2

LEMMA SizeSum ==
    ASSUME NEW a \in Nat, NEW b \in Nat, NEW c \in Nat, NEW d \in Nat
    PROVE  71 + 120 * a + 68 * d + 99 * (b + c) \in Nat
OBVIOUS

LEMMA InfoSizeType ==
    ASSUME NEW r \in [Part -> Seq(Device)]
    PROVE  InfoSize(r) \in Nat
<1>1. /\ Len(r["joint"]) \in Nat /\ Len(r["imu"]) \in Nat /\ Len(r["ft"]) \in Nat
      /\ Len(r["jmc"]) \in Nat
  BY KindElements DEF Part
<1> QED BY <1>1, SizeSum, Zenon DEF InfoSize

LEMMA InitializeType ==
    ASSUME NEW d \in Array, NEW names \in Seq(Device), NEW opens \in BOOLEAN
    PROVE  Initialize(d, names, Zero, opens) \in Array
<1>1. [i \in DOMAIN names |-> Zero] \in Seq(Device \cup {Zero})
  <2>1. DOMAIN names = 1 .. Len(names) /\ Len(names) \in Nat
    OBVIOUS
  <2> QED BY <2>1
<1>2. /\ (IF Repeats(names) THEN d.init ELSE opens) \in BOOLEAN
      /\ (IF Repeats(names) THEN <<>> ELSE names) \in Seq(Device)
  BY DEF Array
<1> QED BY <1>1, <1>2 DEF Initialize, Array

LEMMA MemoryType ==
    ASSUME NEW old \in [Kind -> Array], NEW d \in [Part -> Seq(Device)],
           NEW opens \in BOOLEAN
    PROVE  Memory(old, d, opens) \in [Kind -> Array]
BY InitializeType, KindElements DEF Memory

LEMMA UninitializedType == [k \in Kind |-> Uninitialized] \in [Kind -> Array]
BY DEF Uninitialized, Array

LEMMA AppendedType ==
    ASSUME NEW d \in [Part -> Seq(Device)], NEW r \in [Part -> Seq(Device)]
    PROVE  Appended(d, r) \in [Part -> Seq(Device)]
BY DEF Appended

LEMMA InfoReceivedType == TypeOK => InfoReceived \in Robots \cup {Blank}
BY DEF TypeOK, InfoReceived

LEMMA SetComponentType ==
    ASSUME NEW comp \in Seq(Device \cup {Zero}), NEW i, NEW v \in Device
    PROVE  SetComponent(comp, i, v) \in Seq(Device \cup {Zero})
BY DEF SetComponent

LEMMA InitTypeOK == Init => TypeOK
<1> SUFFICES ASSUME Init PROVE TypeOK
  OBVIOUS
<1>1. chan \in [Kind -> Frame]
  BY DEF Init, Frame
<1>2. desc \in [Part -> Seq(Device)]
  BY RobotType DEF Init
<1> QED
  BY <1>1, <1>2, UninitializedType DEF Init, TypeOK

LEMMA InterfaceTypeOK == TypeOK /\ Interface => TypeOK'
<1> SUFFICES ASSUME TypeOK, Interface PROVE TypeOK'
  OBVIOUS
<1> USE DEF TypeOK, interfaceVars, channelVars, clientVars, historyVars
<1>1. ASSUME NEW r \in Robots, Start(r) PROVE TypeOK'
  <2>1. own' \in [Kind -> Array]
    BY <1>1, RobotType, UninitializedType, MemoryType DEF Start
  <2>2. metaSize' \in Nat
    BY <1>1, RobotType, InfoSizeType DEF Start, Broadcast
  <2> QED BY <1>1, <2>1, <2>2 DEF Start
<1>2. CASE BroadcastData
  BY <1>2 DEF BroadcastData, Broadcast
<1>3. ASSUME NEW k \in Kind, NEW i \in DOMAIN robot[k], Decode(k, i) PROVE TypeOK'
  <2>1. robot[k][i] \in Device
    <3>1. robot[k] \in Seq(Device)
      BY RobotType, KindElements
    <3> QED BY <3>1
  <2>2. SetComponent(own[k].comp, i, robot[k][i]) \in Seq(Device \cup {Zero})
    BY <2>1, SetComponentType DEF Array
  <2>3. own' \in [Kind -> Array]
    <3>1. /\ own \in [Kind -> Array] /\ own[k] \in Array
          /\ own' = [own EXCEPT ![k].comp = SetComponent(@, i, robot[k][i])]
      BY <1>3 DEF Decode
    <3> QED BY <2>2, <3>1 DEF Array
  <2> QED BY <1>3, <2>3 DEF Decode
<1>4. CASE BeginPublish
  BY <1>4, KindElements DEF BeginPublish
<1>5. ASSUME NEW k \in Kind, NEW next \in Kind \cup {"pump"}, Publish(k, next)
      PROVE  TypeOK'
  <2>1. Stamped(own[k], now) \in Frame
    BY DEF Stamped, Frame, Array
  <2> QED BY <1>5, <2>1 DEF Publish
<1> QED
  BY <1>1, <1>2, <1>3, <1>4, <1>5, KindElements
  DEF Interface, DecodeJoint, DecodeSensor

LEMMA ReceivedType ==
    ASSUME NEW d \in Array, NEW frame \in Frame, NEW new \in BOOLEAN
    PROVE  Received(d, frame, new) \in Array /\ ReceiveResult(d, frame, new) \in Outcome
BY DEF Received, ReceiveResult, Array, Frame, Outcome

LEMMA PositiveType == \A n \in Nat : (n > 0) \in BOOLEAN
OBVIOUS

LEMMA FreshAfterType ==
    ASSUME TypeOK, NEW d
    PROVE  FreshAfter(d) \in [Kind -> BOOLEAN]
<1>1. ASSUME NEW k \in Kind
      PROVE  (IF Repeats(d[k]) THEN fresh[k] ELSE chan[k].time > 0) \in BOOLEAN
  <2>1. fresh[k] \in BOOLEAN /\ chan[k].time \in Nat
    BY DEF TypeOK, Frame
  <2>2. (chan[k].time > 0) \in BOOLEAN
    BY <2>1, PositiveType, Zenon
  <2> QED BY <2>1, <2>2, Zenon
<1> QED BY <1>1, Zenon DEF FreshAfter

LEMMA ClientTypeOK == TypeOK /\ Client => TypeOK'
<1> SUFFICES ASSUME TypeOK, Client PROVE TypeOK'
  OBVIOUS
<1> USE DEF TypeOK, interfaceVars, channelVars, clientVars, historyVars
<1>1. ASSUME NEW d PROVE FreshAfter(d) \in [Kind -> BOOLEAN]
  BY FreshAfterType
<1>2. ASSUME NEW r \in Robots, LoadDescription(r) PROVE TypeOK'
  <2>1. r \in [Part -> Seq(Device)]
    BY RobotType
  <2>2. data' \in [Kind -> Array]
    <3>1. PICK opens \in BOOLEAN : data' = Memory(data, r, opens)
      BY <1>2 DEF LoadDescription
    <3>2. data \in [Kind -> Array]
      OBVIOUS
    <3> QED BY <2>1, <3>1, <3>2, MemoryType
  <2>3. fresh' \in [Kind -> BOOLEAN]
    BY <1>1, <1>2 DEF LoadDescription
  <2> QED BY <1>2, <2>1, <2>2, <2>3 DEF LoadDescription
<1>3. CASE ReceiveNothing
  BY <1>1, <1>3, MemoryType DEF ReceiveNothing
<1>4. CASE ReceiveMeta
  BY <1>4 DEF ReceiveMeta
<1>5. CASE ReceiveData
  <2>1. desc' \in [Part -> Seq(Device)]
    BY <1>5, InfoReceivedType, RobotType, AppendedType DEF ReceiveData
  <2> QED BY <1>1, <1>5, <2>1, MemoryType DEF ReceiveData
<1>6. ASSUME NEW k \in Kind, NEW from, NEW next \in {"idle", "imu", "ft"},
             Read(k, from, next)
      PROVE  TypeOK'
  <2>1. data' \in [Kind -> Array]
    BY <1>6, ReceivedType DEF Read
  <2>2. result' \in [Kind -> Outcome \cup {"none"}]
    BY <1>6, ReceivedType DEF Read
  <2>3. fresh' \in [Kind -> BOOLEAN]
    BY <1>6 DEF Read
  <2>4. readFrom' \in [Kind -> SUBSET (Robots \cup {Blank})] /\ seen' \in [Kind -> Nat]
    BY <1>6 DEF Read, Frame
  <2> QED BY <1>6, <2>1, <2>2, <2>3, <2>4 DEF Read
<1> QED
  BY <1>2, <1>3, <1>4, <1>5, <1>6, KindElements DEF Client

LEMMA NextTypeOK == TypeOK /\ [Next]_vars => TypeOK'
<1> SUFFICES ASSUME TypeOK, [Next]_vars PROVE TypeOK'
  OBVIOUS
<1>1. CASE Next
  BY <1>1, InterfaceTypeOK, ClientTypeOK DEF Next
<1>2. CASE UNCHANGED vars
  BY <1>2 DEF vars, interfaceVars, channelVars, clientVars, historyVars, TypeOK
<1> QED BY <1>1, <1>2

(* Types of the arrays, of the frames on the three channels and of the      *)
(* descriptions, for any robots.                                            *)
THEOREM TypeOKHolds == Spec => []TypeOK
BY InitTypeOK, NextTypeOK, PTL DEF Spec

-----------------------------------------------------------------------------
(* Names. *)

(* An array with a component for every device of a robot, and only theirs.  *)
Of(r, k, comp) ==
    DOMAIN comp = DOMAIN r[k] /\ \A i \in DOMAIN comp : comp[i] \in {r[k][i], Zero}

Readings ==
    \A k \in Kind :
        /\ Of(robot, k, own[k].comp)
        /\ \A r \in sentBy[k] : Of(r, k, chan[k].comp)
        /\ fresh[k] \/ chan[k].time > 0 => sentBy[k] # {}
        /\ \A r \in readFrom[k] : Of(r, k, data[k].comp)
        /\ readFrom[k] = {} => /\ DOMAIN data[k].names \subseteq DOMAIN data[k].comp
                               /\ \A i \in DOMAIN data[k].comp : data[k].comp[i] = Zero

LEMMA InterfaceReadings ==
    ASSUME TypeOK, Readings, Interface
    PROVE  Readings'
<1> USE DEF Readings, interfaceVars, channelVars, clientVars, historyVars
<1>1. ASSUME NEW r \in Robots, Start(r) PROVE Readings'
  <2>1. ASSUME NEW k \in Kind PROVE Of(r, k, own'[k].comp)
    <3>1. own'[k].comp = [i \in DOMAIN r[k] |-> Zero]
      BY <1>1 DEF Start, Memory, Initialize
    <3> QED BY <3>1 DEF Of
  <2> QED BY <1>1, <2>1 DEF Start
<1>2. CASE BroadcastData \/ BeginPublish
  BY <1>2 DEF BroadcastData, BeginPublish
<1>3. ASSUME NEW k \in Kind, NEW i \in DOMAIN robot[k], Decode(k, i) PROVE Readings'
  <2>1. own[k].comp \in Seq(Device \cup {Zero}) /\ own \in [Kind -> Array]
    BY DEF TypeOK, Array
  <2>2. Of(robot, k, SetComponent(own[k].comp, i, robot[k][i]))
    BY <2>1 DEF Of, SetComponent
  <2>3. own'[k].comp = SetComponent(own[k].comp, i, robot[k][i])
    BY <1>3, <2>1 DEF Decode, Array
  <2>4. \A j \in Kind \ {k} : own'[j] = own[j]
    BY <1>3, <2>1 DEF Decode
  <2> QED BY <1>3, <2>2, <2>3, <2>4 DEF Decode
<1>4. ASSUME NEW k \in Kind, NEW next, Publish(k, next) PROVE Readings'
  <2>1. /\ chan'[k].comp = own[k].comp /\ sentBy'[k] = {robot}
        /\ \A j \in Kind \ {k} : /\ chan'[j] = chan[j] /\ sentBy'[j] = sentBy[j]
                                /\ fresh'[j] = fresh[j]
    BY <1>4 DEF Publish, Stamped, TypeOK
  <2>2. /\ own' = own /\ robot' = robot /\ data' = data /\ readFrom' = readFrom
    BY <1>4 DEF Publish
  <2>3. Of(robot, k, own[k].comp)
    OBVIOUS
  <2> QED BY <2>1, <2>2, <2>3
<1> QED
  BY <1>1, <1>2, <1>3, <1>4, KindElements
  DEF Interface, DecodeJoint, DecodeSensor

(* What one read does to where the array of its kind comes from.            *)
LEMMA ReadReadings ==
    ASSUME TypeOK, NEW k \in Kind, NEW from, NEW next, Read(k, from, next)
    PROVE  /\ \A j \in Kind \ {k} : /\ data'[j] = data[j] /\ readFrom'[j] = readFrom[j]
                                    /\ fresh'[j] = fresh[j]
           /\ fresh'[k] => fresh[k]
           /\ data'[k].names = data[k].names
           /\ \/ data'[k].comp = data[k].comp /\ readFrom'[k] = readFrom[k]
              \/ fresh[k] /\ data'[k].comp = chan[k].comp /\ readFrom'[k] = sentBy[k]
<1>1. /\ data'[k] = Received(data[k], chan[k], fresh[k])
      /\ result'[k] = ReceiveResult(data[k], chan[k], fresh[k])
      /\ readFrom'[k] = IF result'[k] = "OKAY" THEN sentBy[k] ELSE readFrom[k]
      /\ fresh'[k] => fresh[k]
      /\ data[k] \in Array
  BY DEF Read, TypeOK
<1>2. \A j \in Kind \ {k} : /\ data'[j] = data[j] /\ readFrom'[j] = readFrom[j]
                            /\ fresh'[j] = fresh[j]
  BY DEF Read, TypeOK
<1>3. CASE result'[k] = "OKAY"
  BY <1>1, <1>2, <1>3 DEF Received, ReceiveResult, Array
<1>4. CASE result'[k] # "OKAY"
  BY <1>1, <1>2, <1>4 DEF Received
<1> QED BY <1>3, <1>4

LEMMA ClientReadings ==
    ASSUME TypeOK, Readings, Client
    PROVE  Readings'
<1> USE DEF interfaceVars, channelVars, historyVars
<1>1. own' = own /\ robot' = robot /\ chan' = chan /\ sentBy' = sentBy
  BY DEF Client, LoadDescription, ReceiveNothing, ReceiveMeta, ReceiveData, Read
<1>2. CASE /\ \E opens \in BOOLEAN : data' = Memory(data, desc', opens)
           /\ fresh' = FreshAfter(desc')
           /\ readFrom' = [k \in Kind |-> {}]
  <2>2. ASSUME NEW k \in Kind, fresh'[k] PROVE fresh[k] \/ chan[k].time > 0
    BY <1>2, <2>2 DEF FreshAfter
  <2>3. PICK opens \in BOOLEAN : data' = Memory(data, desc', opens)
    BY <1>2
  <2>4. ASSUME NEW k \in Kind
        PROVE  /\ DOMAIN data'[k].names \subseteq DOMAIN data'[k].comp
               /\ \A i \in DOMAIN data'[k].comp : data'[k].comp[i] = Zero
    <3>1. data'[k] = Initialize(data[k], desc'[k], Zero, opens)
      BY <2>3 DEF Memory
    <3>2. DOMAIN <<>> = {}
      OBVIOUS
    <3> QED BY <3>1, <3>2 DEF Initialize
  <2> QED BY <1>1, <1>2, <2>2, <2>4 DEF Readings
<1>3. ASSUME NEW k \in Kind, NEW from, NEW next, Read(k, from, next)
      PROVE  Readings'
  BY <1>1, <1>3, ReadReadings DEF Readings
<1>4. CASE data' = data /\ fresh' = fresh /\ readFrom' = readFrom
  BY <1>1, <1>4 DEF Readings
<1> QED
  BY <1>2, <1>3, <1>4, KindElements
  DEF Client, LoadDescription, ReceiveNothing, ReceiveMeta, ReceiveData, clientVars

LEMMA ReadingsHold == Spec => []Readings
<1>1. Init => Readings
  BY KindElements DEF Init, Readings, Of, Uninitialized, Blank
<1>2. TypeOK /\ Readings /\ [Next]_vars => Readings'
  <2> SUFFICES ASSUME TypeOK, Readings, [Next]_vars PROVE Readings'
    OBVIOUS
  <2>1. CASE Next
    BY <2>1, InterfaceReadings, ClientReadings DEF Next
  <2>2. CASE UNCHANGED vars
    BY <2>2 DEF vars, interfaceVars, channelVars, clientVars, historyVars, Readings
  <2> QED BY <2>1, <2>2
<1> QED BY <1>1, <1>2, TypeOKHolds, PTL DEF Spec

(* What is found under a name is the device's, or zero, wherever the robot  *)
(* that sent it has the device at that position; whatever the interface was *)
(* restarted with in between.                                               *)
THEOREM NamedReadingHolds == Spec => []NamedReadingIsTheDevices
<1>1. Readings => NamedReadingIsTheDevices
  <2> SUFFICES ASSUME Readings, NEW k \in Kind, NEW name \in Device,
                      NEW i \in Positions(data[k], name),
                      \A r \in readFrom[k] : i \in DOMAIN r[k] /\ r[k][i] = name
               PROVE  i \in DOMAIN data[k].comp /\ data[k].comp[i] \in {name, Zero}
    BY DEF NamedReadingIsTheDevices
  <2>1. CASE readFrom[k] = {}
    BY <2>1 DEF Readings, Positions
  <2>2. CASE readFrom[k] # {}
    BY <2>2 DEF Readings, Of
  <2> QED BY <2>1, <2>2
<1> QED BY <1>1, ReadingsHold, PTL

(* What is received into an empty description is a robot's whole one or     *)
(* nothing, although size and contents are read from two channels.          *)
THEOREM WholeDescriptionHolds == Spec => DescriptionIsWhole
<1>1. TypeOK /\ [Next]_vars =>
          [desc' # desc /\ (ReceiveData => desc = Blank) => desc' \in Robots]_vars
  <2> SUFFICES ASSUME TypeOK, Next, desc' # desc, ReceiveData => desc = Blank
               PROVE  desc' \in Robots
    OBVIOUS
  <2> USE DEF clientVars
  <2>1. ~Interface
    BY KindElements DEF Interface, Start, BroadcastData, DecodeJoint, DecodeSensor,
       Decode, BeginPublish, Publish
  <2>2. CASE \E r \in Robots : LoadDescription(r)
    BY <2>2 DEF LoadDescription
  <2>3. CASE ReceiveData
    <3>1. InfoReceived \in Robots \cup {Blank} /\ desc' = Appended(Blank, InfoReceived)
      BY <2>3, InfoReceivedType DEF ReceiveData
    <3>2. InfoReceived \in [Part -> Seq(Device)]
      BY <3>1, RobotType
    <3>3. \A p \in Part : <<>> \o InfoReceived[p] = InfoReceived[p]
      BY <3>2
    <3>4. Appended(Blank, InfoReceived) = InfoReceived
      BY <3>2, <3>3 DEF Appended, Blank
    <3> QED BY <2>3, <3>1, <3>4
  <2> QED
    BY <2>1, <2>2, <2>3 DEF Next, Client, ReceiveNothing, ReceiveMeta, Read
<1> QED BY <1>1, TypeOKHolds, PTL DEF Spec, DescriptionIsWhole

-----------------------------------------------------------------------------
(* Times. *)

(* How old the newest frames are, and what the client has compared with     *)
(* them.                                                                    *)
Times ==
    /\ chan["joint"].time <= chan["imu"].time /\ chan["imu"].time <= chan["ft"].time
    /\ chan["ft"].time <= now
    /\ ipc = "ft" => chan["ft"].time < now
    /\ ipc = "imu" => chan["ft"].time = now /\ chan["imu"].time < now
    /\ ipc = "joint" => chan["imu"].time = now /\ chan["joint"].time < now
    /\ \A k \in Kind :
          /\ data[k].time <= chan[k].time
          /\ fresh[k] => data[k].time < chan[k].time
          /\ ~fresh[k] /\ ~Repeats(desc[k]) => data[k].time = chan[k].time

(* What the client has read so far is not older than what it goes on to     *)
(* read can be.                                                             *)
Reading ==
    LET good(k) == result[k] # "ACH_ERROR" /\ ~Repeats(desc[k])
    IN  result["joint"] = "OKAY" =>
           /\ cpc = "imu" => data["joint"].time <= chan["imu"].time
           /\ cpc = "ft" /\ good("imu") => data["joint"].time <= data["imu"].time
           /\ cpc = "idle" /\ good("imu") /\ good("ft") =>
                  /\ data["joint"].time <= data["imu"].time
                  /\ data["imu"].time <= data["ft"].time

LEMMA TimeTypes ==
    ASSUME TypeOK
    PROVE  /\ now \in Nat
           /\ \A k \in Kind : chan[k].time \in Nat /\ data[k].time \in Nat
           /\ \A k \in Kind : fresh[k] \in BOOLEAN
BY DEF TypeOK, Frame, Array

(* Publishing makes the frame of a channel the newest of all, and never     *)
(* touches the others.                                                      *)
LEMMA PublishTimes ==
    ASSUME TypeOK, NEW k \in Kind, NEW next, Publish(k, next)
    PROVE  /\ chan'[k].time = now /\ fresh'[k]
           /\ \A j \in Kind \ {k} : chan'[j] = chan[j] /\ fresh'[j] = fresh[j]
           /\ now' = now /\ data' = data /\ desc' = desc /\ ipc = k /\ ipc' = next
           /\ cpc' = cpc /\ result' = result
BY DEF Publish, Stamped, TypeOK, clientVars

LEMMA InterfaceTimes ==
    ASSUME TypeOK, Times, Interface
    PROVE  Times'
<1> USE TimeTypes, KindElements
<1>1. CASE \/ \E r \in Robots : Start(r)
           \/ BroadcastData \/ DecodeJoint \/ DecodeSensor
  <2>1. /\ chan' = chan /\ now' = now /\ data' = data /\ fresh' = fresh /\ desc' = desc
        /\ ipc' \in {"data", "pump"}
    BY <1>1 DEF Start, BroadcastData, DecodeJoint, DecodeSensor, Decode,
       channelVars, clientVars
  <2> QED BY <2>1 DEF Times
<1>2. CASE BeginPublish
  BY <1>2 DEF BeginPublish, Times, channelVars, clientVars
<1>3. CASE Publish("ft", "imu")
  <2>1. /\ chan'["ft"].time = now /\ chan'["imu"] = chan["imu"]
        /\ chan'["joint"] = chan["joint"] /\ ipc = "ft" /\ ipc' = "imu" /\ now' = now
    BY <1>3, PublishTimes DEF Kind
  <2>2. \A k \in Kind : /\ data'[k].time <= chan'[k].time
                        /\ fresh'[k] => data'[k].time < chan'[k].time
                        /\ ~fresh'[k] /\ ~Repeats(desc'[k]) => data'[k].time = chan'[k].time
    BY <1>3, PublishTimes DEF Times
  <2> QED BY <2>1, <2>2 DEF Times
<1>4. CASE Publish("imu", "joint")
  <2>1. /\ chan'["imu"].time = now /\ chan'["ft"] = chan["ft"]
        /\ chan'["joint"] = chan["joint"] /\ ipc = "imu" /\ ipc' = "joint" /\ now' = now
    BY <1>4, PublishTimes DEF Kind
  <2>2. \A k \in Kind : /\ data'[k].time <= chan'[k].time
                        /\ fresh'[k] => data'[k].time < chan'[k].time
                        /\ ~fresh'[k] /\ ~Repeats(desc'[k]) => data'[k].time = chan'[k].time
    BY <1>4, PublishTimes DEF Times
  <2> QED BY <2>1, <2>2 DEF Times
<1>5. CASE Publish("joint", "pump")
  <2>1. /\ chan'["joint"].time = now /\ chan'["ft"] = chan["ft"]
        /\ chan'["imu"] = chan["imu"] /\ ipc = "joint" /\ ipc' = "pump" /\ now' = now
    BY <1>5, PublishTimes DEF Kind
  <2>2. \A k \in Kind : /\ data'[k].time <= chan'[k].time
                        /\ fresh'[k] => data'[k].time < chan'[k].time
                        /\ ~fresh'[k] /\ ~Repeats(desc'[k]) => data'[k].time = chan'[k].time
    BY <1>5, PublishTimes DEF Times
  <2> QED BY <2>1, <2>2 DEF Times
<1> QED BY <1>1, <1>2, <1>3, <1>4, <1>5 DEF Interface

(* The newest frame of a channel that is opened is new, if there is one.    *)
LEMMA MemoryTimes ==
    ASSUME TypeOK, Times, NEW d, NEW opens, NEW k \in Kind,
           data' = Memory(data, d, opens), fresh' = FreshAfter(d)
    PROVE  /\ data'[k].time = 0
           /\ fresh'[k] => 0 < chan[k].time
           /\ ~fresh'[k] /\ ~Repeats(d[k]) => chan[k].time = 0
<1>1. data'[k].time = 0
  BY DEF Memory, Initialize
<1>2. CASE Repeats(d[k])
  <2>1. fresh'[k] = fresh[k]
    BY <1>2 DEF FreshAfter
  <2>2. fresh[k] => 0 < chan[k].time
    BY TimeTypes DEF Times
  <2> QED BY <1>1, <1>2, <2>1, <2>2
<1>3. CASE ~Repeats(d[k])
  <2>1. fresh'[k] <=> chan[k].time > 0
    BY <1>3 DEF FreshAfter
  <2> QED BY <1>1, <2>1, TimeTypes
<1> QED BY <1>2, <1>3

LEMMA ReadTimes ==
    ASSUME TypeOK, NEW k \in Kind, NEW from, NEW next, Read(k, from, next)
    PROVE  /\ chan' = chan /\ now' = now /\ ipc' = ipc /\ desc' = desc
           /\ cpc = from /\ cpc' = next
           /\ \A j \in Kind \ {k} : data'[j] = data[j] /\ fresh'[j] = fresh[j]
           /\ \/ /\ result'[k] = "OKAY" /\ fresh[k] /\ ~fresh'[k]
                 /\ data'[k].time = chan[k].time
              \/ /\ result'[k] \in {"ACH_ERROR", "TIMEOUT"} /\ fresh'[k] = fresh[k]
                 /\ data'[k] = data[k]
                 /\ result'[k] = "TIMEOUT" => ~fresh[k]
           /\ from # "idle" => \A j \in Kind \ {k} : result'[j] = result[j]
<1>1. result'[k] = ReceiveResult(data[k], chan[k], fresh[k])
  BY DEF Read
<1>2. data'[k] = Received(data[k], chan[k], fresh[k])
  BY DEF Read, TypeOK
<1>3. fresh'[k] = (fresh[k] /\ result'[k] # "OKAY") /\ fresh[k] \in BOOLEAN
  BY DEF Read, TypeOK
<1>4. \A j \in Kind \ {k} : data'[j] = data[j] /\ fresh'[j] = fresh[j]
  BY DEF Read, TypeOK
<1>5. CASE result'[k] = "OKAY"
  <2>1. fresh[k]
    BY <1>1, <1>5 DEF ReceiveResult
  <2>2. data'[k].time = chan[k].time
    BY <1>1, <1>2, <1>5 DEF Received, TypeOK, Array
  <2>3. ~fresh'[k]
    BY <1>3, <1>5
  <2> QED BY <1>4, <1>5, <2>1, <2>2, <2>3 DEF Read, interfaceVars, channelVars
<1>6. CASE result'[k] # "OKAY"
  <2>1. data'[k] = data[k]
    BY <1>1, <1>2, <1>6 DEF Received
  <2>2. result'[k] \in {"ACH_ERROR", "TIMEOUT"} /\ (result'[k] = "TIMEOUT" => ~fresh[k])
    BY <1>1, <1>6 DEF ReceiveResult
  <2>3. fresh'[k] = fresh[k]
    BY <1>3, <1>6
  <2> QED BY <1>4, <1>6, <2>1, <2>2, <2>3 DEF Read, interfaceVars, channelVars
<1> QED BY <1>5, <1>6

LEMMA ClientTimes ==
    ASSUME TypeOK, Times, Client
    PROVE  Times'
<1> USE TimeTypes
<1>1. chan' = chan /\ now' = now /\ ipc' = ipc
  BY DEF Client, LoadDescription, ReceiveNothing, ReceiveMeta, ReceiveData, Read,
     interfaceVars, channelVars
<1> SUFFICES \A k \in Kind :
          /\ data'[k].time <= chan[k].time
          /\ fresh'[k] => data'[k].time < chan[k].time
          /\ ~fresh'[k] /\ ~Repeats(desc'[k]) => data'[k].time = chan[k].time
  BY <1>1 DEF Times
<1>2. CASE /\ \E opens \in BOOLEAN : data' = Memory(data, desc', opens)
           /\ fresh' = FreshAfter(desc')
  BY <1>2, MemoryTimes
<1>3. ASSUME NEW k \in Kind, NEW from, NEW next, Read(k, from, next)
      PROVE  \A j \in Kind :
                /\ data'[j].time <= chan[j].time
                /\ fresh'[j] => data'[j].time < chan[j].time
                /\ ~fresh'[j] /\ ~Repeats(desc'[j]) => data'[j].time = chan[j].time
  BY <1>3, ReadTimes DEF Times
<1>4. CASE data' = data /\ fresh' = fresh /\ desc' = desc
  BY <1>4 DEF Times
<1> QED
  BY <1>2, <1>3, <1>4, KindElements
  DEF Client, LoadDescription, ReceiveNothing, ReceiveMeta, ReceiveData

LEMMA TimesHold == Spec => []Times
<1>1. Init => Times
  BY KindElements DEF Init, Times, Uninitialized
<1>2. TypeOK /\ Times /\ [Next]_vars => Times'
  <2> SUFFICES ASSUME TypeOK, Times, [Next]_vars PROVE Times'
    OBVIOUS
  <2>1. CASE Next
    BY <2>1, InterfaceTimes, ClientTimes DEF Next
  <2>2. CASE UNCHANGED vars
    BY <2>2 DEF vars, interfaceVars, channelVars, clientVars, Times
  <2> QED BY <2>1, <2>2
<1> QED BY <1>1, <1>2, TypeOKHolds, PTL DEF Spec

LEMMA InterfaceReading ==
    ASSUME TypeOK, Times, Reading, Interface
    PROVE  Reading'
<1> USE TimeTypes, KindElements
<1>1. data' = data /\ desc' = desc /\ cpc' = cpc /\ result' = result
  BY DEF Interface, Start, BroadcastData, DecodeJoint, DecodeSensor, Decode,
     BeginPublish, Publish, channelVars, clientVars
<1>2. chan["imu"].time <= chan'["imu"].time
  <2>1. ASSUME NEW k \in Kind, NEW next, Publish(k, next)
        PROVE  chan'["imu"].time = chan["imu"].time \/ chan'["imu"].time = now
    BY <2>1, PublishTimes
  <2>2. CASE chan' = chan
    BY <2>2
  <2>3. chan["imu"].time <= now
    BY DEF Times
  <2>4. chan'["imu"].time = chan["imu"].time \/ chan'["imu"].time = now
    BY <2>1, <2>2
    DEF Interface, Start, BroadcastData, DecodeJoint, DecodeSensor, Decode,
        BeginPublish, channelVars
  <2> QED BY <2>3, <2>4
<1>3. data["joint"].time <= chan["imu"].time => data["joint"].time <= chan'["imu"].time
  <2>1. chan'["imu"].time \in Nat
    BY InterfaceTypeOK DEF TypeOK, Frame
  <2> QED BY <1>2, <2>1
<1> QED BY <1>1, <1>3 DEF Reading

LEMMA ClientReading ==
    ASSUME TypeOK, Times, Reading, Client
    PROVE  Reading'
<1> USE TimeTypes, KindElements
<1>1. CASE result' = [k \in Kind |-> "none"]
  BY <1>1 DEF Reading
<1>2. CASE ReceiveMeta
  BY <1>2 DEF ReceiveMeta, Reading
<1>3. CASE Read("joint", "idle", "imu")
  <2>1. cpc' = "imu" /\ chan' = chan
    BY <1>3, ReadTimes
  <2>2. result'["joint"] = "OKAY" => data'["joint"].time = chan["joint"].time
    BY <1>3, ReadTimes
  <2>3. result'["joint"] = "OKAY" => data'["joint"].time <= chan["imu"].time
    BY <2>2 DEF Times
  <2> QED BY <2>1, <2>3 DEF Reading
<1>4. CASE Read("imu", "imu", "ft")
  <2>1. /\ cpc = "imu" /\ cpc' = "ft" /\ desc' = desc /\ data'["joint"] = data["joint"]
        /\ result'["joint"] = result["joint"]
    BY <1>4, ReadTimes
  <2>2. result'["imu"] # "ACH_ERROR" /\ ~Repeats(desc["imu"]) =>
            data'["imu"].time = chan["imu"].time
    BY <1>4, ReadTimes DEF Times
  <2> QED BY <2>1, <2>2 DEF Reading
<1>5. CASE Read("ft", "ft", "idle")
  <2>1. /\ cpc = "ft" /\ cpc' = "idle" /\ desc' = desc /\ data'["joint"] = data["joint"]
        /\ data'["imu"] = data["imu"]
        /\ result'["joint"] = result["joint"] /\ result'["imu"] = result["imu"]
    BY <1>5, ReadTimes
  <2>2. result'["ft"] # "ACH_ERROR" /\ ~Repeats(desc["ft"]) =>
            data'["ft"].time = chan["ft"].time
    BY <1>5, ReadTimes DEF Times
  <2>3. data["imu"].time <= chan["ft"].time
    BY DEF Times
  <2> QED BY <2>1, <2>2, <2>3 DEF Reading
<1> QED
  BY <1>1, <1>2, <1>3, <1>4, <1>5
  DEF Client, LoadDescription, ReceiveNothing, ReceiveData

LEMMA ReadingHolds == Spec => []Reading
<1>1. Init => Reading
  BY KindElements DEF Init, Reading
<1>2. TypeOK /\ Times /\ Reading /\ [Next]_vars => Reading'
  <2> SUFFICES ASSUME TypeOK, Times, Reading, [Next]_vars PROVE Reading'
    OBVIOUS
  <2>1. CASE Next
    BY <2>1, InterfaceReading, ClientReading DEF Next
  <2>2. CASE UNCHANGED vars
    BY <2>2 DEF vars, interfaceVars, channelVars, clientVars, Reading
  <2> QED BY <2>1, <2>2
<1> QED BY <1>1, <1>2, TypeOKHolds, TimesHold, PTL DEF Spec

(* A reading of update() is not torn backwards: because publish() sends the *)
(* parts in the opposite order, what is read later is not older.            *)
THEOREM PartsNotOlderHolds == Spec => []PartsNotOlder
<1>1. Reading => PartsNotOlder
  BY KindElements DEF Reading, PartsNotOlder, Described
<1> QED BY <1>1, ReadingHolds, PTL

(* How the newest frame a client was ever given compares with what it has   *)
(* and with what there is.                                                  *)
SeenTimes ==
    \A k \in Kind : data[k].time \in {0, seen[k]} /\ seen[k] <= chan[k].time

LEMMA SeenTimesHold == Spec => []SeenTimes
<1>1. Init => SeenTimes
  BY KindElements DEF Init, SeenTimes, Uninitialized
<1>2. TypeOK /\ Times /\ SeenTimes /\ [Next]_vars => SeenTimes'
  <2> SUFFICES ASSUME TypeOK, Times, SeenTimes, [Next]_vars PROVE SeenTimes'
    OBVIOUS
  <2> USE TimeTypes DEF clientVars, historyVars, channelVars
  <2>1. CASE Interface
    <3>1. data' = data /\ seen' = seen
      BY <2>1 DEF Interface, Start, BroadcastData, DecodeJoint, DecodeSensor, Decode,
         BeginPublish, Publish
    <3>2. ASSUME NEW k \in Kind PROVE chan[k].time <= chan'[k].time /\ chan'[k].time \in Nat
      <4>1. ASSUME NEW j \in Kind, NEW next, Publish(j, next)
            PROVE  chan'[k].time = chan[k].time \/ chan'[k].time = now
        BY <4>1, PublishTimes
      <4>2. chan'[k].time = chan[k].time \/ chan'[k].time = now
        BY <2>1, <4>1, KindElements
        DEF Interface, Start, BroadcastData, DecodeJoint, DecodeSensor, Decode,
            BeginPublish
      <4>3. chan[k].time <= now
        BY DEF Times, Kind
      <4> QED BY <4>2, <4>3
    <3>3. \A k \in Kind : seen[k] \in Nat
      BY DEF TypeOK
    <3> QED BY <3>1, <3>2, <3>3 DEF SeenTimes
  <2>2. CASE /\ \E opens \in BOOLEAN : data' = Memory(data, desc', opens)
             /\ seen' = seen /\ chan' = chan
    BY <2>2 DEF SeenTimes, Memory, Initialize
  <2>3. ASSUME NEW k \in Kind, NEW from, NEW next, Read(k, from, next)
        PROVE  SeenTimes'
    <3>1. /\ seen'[k] = IF result'[k] = "OKAY" THEN chan[k].time ELSE seen[k]
          /\ \A j \in Kind \ {k} : seen'[j] = seen[j]
      BY <2>3 DEF Read, TypeOK
    <3> QED BY <2>3, <3>1, ReadTimes DEF SeenTimes
  <2>4. CASE data' = data /\ seen' = seen /\ chan' = chan
    BY <2>4 DEF SeenTimes
  <2> QED
    BY <2>1, <2>2, <2>3, <2>4, KindElements
    DEF Next, Client, LoadDescription, ReceiveNothing, ReceiveMeta, ReceiveData, vars
<1> QED BY <1>1, <1>2, TypeOKHolds, TimesHold, PTL DEF Spec

(* receive_data never goes back to an older publication, and reports one a  *)
(* second time only as the first after the arrays were made anew.           *)
THEOREM OkayMeansNewerHolds == Spec => OkayMeansNewer
<1> DEFINE Newer(k) == Read(k, cpc, cpc') /\ result'[k] = "OKAY" =>
                           /\ data'[k].time >= seen[k]
                           /\ data[k].time > 0 => data'[k].time > seen[k]
<1>1. TypeOK /\ Times /\ SeenTimes /\ [Next]_vars => [\A k \in Kind : Newer(k)]_vars
  <2> SUFFICES ASSUME TypeOK, Times, SeenTimes, NEW k \in Kind,
                      Read(k, cpc, cpc'), result'[k] = "OKAY"
               PROVE  /\ data'[k].time >= seen[k]
                      /\ data[k].time > 0 => data'[k].time > seen[k]
    OBVIOUS
  <2>1. fresh[k] /\ data'[k].time = chan[k].time
    BY ReadTimes
  <2>2. data[k].time < chan[k].time
    BY <2>1 DEF Times
  <2>3. seen[k] \in Nat
    BY DEF TypeOK
  <2> QED BY <2>1, <2>2, <2>3, TimeTypes DEF SeenTimes
<1> QED
  BY <1>1, TypeOKHolds, TimesHold, SeenTimesHold, PTL DEF Spec, OkayMeansNewer
=============================================================================
