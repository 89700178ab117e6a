---------------------------- MODULE Description ----------------------------
(***************************************************************************)
(* How the hardware interface learns what robot it drives: DdParser reads  *)
(* a device description with the files it includes, and HuboDescription    *)
(* (HuboCan/HuboDescription.cpp) makes joints, boards and sensors of it.   *)
(*                                                                         *)
(* A file is whatever its next line may be.  Of the parameters of a device *)
(* those that tie devices together are kept: names, types, indices, and    *)
(* the address on the bus, which stands for can_channel and hardware_index *)
(* of a board or sensor.                                                   *)
(***************************************************************************)
EXTENDS Integers, SequencesExt

CONSTANTS
    File,       \* files that exist
    Main,       \* the file that is parsed
    Name,       \* names devices may have
    MaxIndex,   \* bound: the greatest index, or address, a file gives
    MaxDevices  \* bound: joints, boards and sensors a file describes

(* The name of a device the file gives none, and the type of no device.     *)
NoName == ""

ASSUME DescriptionAssumption ==
    Main \in File /\ NoName \in Name /\ MaxIndex \in Nat /\ MaxDevices \in Nat

VARIABLES
    pc,         \* the function that reads, or what became of parseFile
    including,  \* the files being loaded, innermost last
    filenames,  \* the files loaded so far, _filename_list
    status,     \* the parser's status
    device,     \* the parser's _current_device_type
    info,       \* the device being read
    temp,       \* _tempJointMap: joints by software index
    joints,     \* the joints, by software index
    jmcs,       \* the boards, with their joints by hardware index of the joint
    sensors     \* the sensors

parserVars == <<including, filenames, status, device>>
robotVars  == <<joints, jmcs, sensors>>
descVars   == <<pc, parserVars, info, temp, robotVars>>

Index  == 0 .. MaxIndex
Absent == -1
Sensor == {"IMU", "FT"}
Device == {"Joint", "JMC", "Meta"} \cup Sensor
Status == {"OKAY", "BEGIN_DEVICE", "END_DEVICE", "END_FILE", "ERROR"}
Info   == [name : Name, jmc_name : Name, known : BOOLEAN,
           software_index : Index \cup {Absent}, hardware_index : Index, address : Index]
Blank  == [name |-> NoName, jmc_name |-> NoName, known |-> FALSE,
           software_index |-> Absent, hardware_index |-> 0, address |-> 0]

DescInit ==
    /\ pc = "load" /\ including = <<>> /\ filenames = {}
    /\ status = "END_FILE" /\ device = NoName
    /\ info = Blank /\ temp = <<>>
    /\ joints = <<>> /\ jmcs = <<>> /\ sensors = <<>>

Reject(s) == pc' = "rejected" /\ status' = s

-----------------------------------------------------------------------------
(* DdParser::load_file: every line is split, and the files it includes are  *)
(* read in place.  A file that was read before counts as a loop.            *)

Opens(f) ==
    IF f \in File
    THEN including' = Append(including, f) /\ UNCHANGED <<pc, status>>
    ELSE Reject("ERROR") /\ UNCHANGED including

LoadFile(f) ==
    /\ pc = "load" /\ including = <<>>
    /\ filenames' = {f}
    /\ Opens(f)
    /\ UNCHANGED <<device, info, temp, robotVars>>

Include(f) ==
    /\ pc = "load" /\ including # <<>>
    /\ IF f \in filenames THEN Reject("ERROR") /\ UNCHANGED <<including, filenames>>
       ELSE filenames' = filenames \cup {f} /\ Opens(f)
    /\ UNCHANGED <<device, info, temp, robotVars>>

(* Stray quotes, or "include" without a file.                               *)
UnreadableLine ==
    /\ pc = "load" /\ including # <<>>
    /\ Reject("ERROR")
    /\ UNCHANGED <<including, filenames, device, info, temp, robotVars>>

EndOfIncluded ==
    /\ pc = "load" /\ including # <<>>
    /\ including' = Front(including)
    /\ IF including' = <<>> THEN pc' = "file" /\ status' = "OKAY"
                            ELSE UNCHANGED <<pc, status>>
    /\ UNCHANGED <<filenames, device, info, temp, robotVars>>

-----------------------------------------------------------------------------
(* DdParser::next_line, called by parseFile and by the function that reads  *)
(* a device.                                                                *)

InDevice == pc \in Device /\ status \in {"BEGIN_DEVICE", "OKAY"}
InFile   == pc = "file" /\ status \notin {"END_FILE", "ERROR"}

(* parseFile calls the function for the device; one that is not known is    *)
(* passed over line by line.                                                *)
BeginDevice(t) ==
    /\ InFile \/ InDevice
    /\ Cardinality(DOMAIN temp) + Len(jmcs) + Len(sensors) < MaxDevices
    /\ IF device = NoName
       THEN /\ status' = "BEGIN_DEVICE" /\ device' = t
            /\ info' = Blank
            /\ pc' = IF t \in Device THEN t ELSE "file"
       ELSE status' = "ERROR" /\ UNCHANGED <<pc, device, info>>
    /\ UNCHANGED <<including, filenames, temp, robotVars>>

EndDevice(t) ==
    /\ InFile \/ InDevice
    /\ IF t = device THEN status' = "END_DEVICE" /\ device' = NoName
                     ELSE status' = "ERROR" /\ UNCHANGED device
    /\ UNCHANGED <<pc, including, filenames, info, temp, robotVars>>

(* "begin" or "end" without a device type.                                  *)
BareKeyword ==
    /\ InFile \/ InDevice
    /\ status' = "ERROR"
    /\ UNCHANGED <<pc, including, filenames, device, info, temp, robotVars>>

(* The last line has been reached; what it says is dropped.                 *)
EndFile ==
    /\ InFile \/ InDevice
    /\ status' = "END_FILE"
    /\ UNCHANGED <<pc, including, filenames, device, info, temp, robotVars>>

(* What lines may say of a device; the other parameters change nothing.     *)
Fields ==
    CASE pc = "Joint"                   -> {"name", "jmc_name", "software_index", "hardware_index"}
      [] pc \in Sensor \cup {"JMC"}     -> {"name", "known", "address"}
      [] OTHER                          -> {}

Values(field) ==
    CASE field \in {"name", "jmc_name"} -> Name
      [] field = "known"                -> BOOLEAN
      [] field = "software_index"       -> Index \cup {Absent}
      [] field \in {"hardware_index", "address"} -> Index

Component(field) ==
    /\ InDevice /\ field \in Fields
    /\ \E value \in Values(field) : info' = [info EXCEPT ![field] = value]
    /\ status' = "OKAY"
    /\ UNCHANGED <<pc, including, filenames, device, temp, robotVars>>

(* Too few values, too long a name, an unknown keyword.                     *)
FaultyComponent ==
    /\ InDevice
    /\ Reject("ERROR")
    /\ UNCHANGED <<including, filenames, device, info, temp, robotVars>>

-----------------------------------------------------------------------------
(* The ends of _parseJoint, _parseJMC, _parseSensor and _parseMeta. *)

Read(d) == pc = d /\ status \in {"END_DEVICE", "END_FILE", "ERROR"}

NameTaken(known) == \E i \in DOMAIN known : known[i].name = info.name

(* The joint is entered at its software index. *)
PlacedJoint ==
    [i \in DOMAIN temp \cup {info.software_index} |->
        IF i = info.software_index THEN info ELSE temp[i]]

(* Mutant: a joint needs no software index. *)
FinishJointUnindexed ==
    /\ Read("Joint")
    /\ IF \/ status = "ERROR"
          \/ NameTaken(temp) \/ info.software_index \in DOMAIN temp
       THEN Reject("ERROR") /\ UNCHANGED temp
       ELSE /\ temp' = PlacedJoint
            /\ pc' = "file" /\ UNCHANGED status
    /\ info' = Blank
    /\ UNCHANGED <<including, filenames, device, robotVars>>

FinishJoint ==
    /\ Read("Joint")
    /\ IF \/ status = "ERROR" \/ info.software_index = Absent
          \/ NameTaken(temp) \/ info.software_index \in DOMAIN temp
       THEN Reject("ERROR") /\ UNCHANGED temp
       ELSE /\ temp' = PlacedJoint
            /\ pc' = "file" /\ UNCHANGED status
    /\ info' = Blank
    /\ UNCHANGED <<including, filenames, device, robotVars>>

(* That _constructJMC does not know the type is noted, not returned.  That  *)
(* another board has the address already is not looked at.                  *)
FinishJmc ==
    /\ Read("JMC")
    /\ IF status = "ERROR" \/ NameTaken(jmcs)
       THEN Reject("ERROR") /\ UNCHANGED jmcs
       ELSE /\ pc' = "file"
            /\ IF info.known
               THEN /\ jmcs' = Append(jmcs, [name |-> info.name, address |-> info.address,
                                             joints |-> <<>>])
                    /\ UNCHANGED status
               ELSE status' = "ERROR" /\ UNCHANGED jmcs
    /\ info' = Blank
    /\ UNCHANGED <<including, filenames, device, temp, joints, sensors>>

(* A sensor whose lines end in an error is added all the same.              *)
FinishSensor(d) ==
    /\ Read(d)
    /\ IF NameTaken(sensors) \/ ~info.known
       THEN Reject("ERROR") /\ UNCHANGED sensors
       ELSE /\ sensors' = Append(sensors, [name |-> info.name, sensor |-> d,
                                            address |-> info.address])
            /\ pc' = "file" /\ UNCHANGED status
    /\ info' = Blank
    /\ UNCHANGED <<including, filenames, device, temp, joints, jmcs>>

FinishMeta ==
    /\ Read("Meta")
    /\ pc' = "file"
    /\ UNCHANGED <<parserVars, info, temp, robotVars>>

-----------------------------------------------------------------------------
(* _postParseProcessing, with HuboJmc::addJoint and sortJoints. *)

(* getJmcIndex, which is InvalidIndex if there is none.                     *)
JmcIndexes(n) == {k \in DOMAIN jmcs : jmcs[k].name = n}

OnBoard(k) == {i \in DOMAIN temp : temp[i].jmc_name = jmcs[k].name}

Slots(k) == {temp[i].hardware_index : i \in OnBoard(k)}

Numbered(S) == S = 0 .. Cardinality(S) - 1

(* Mutant: a joint may take a slot that is taken. *)
SlotsMayCoincide(k) == k \in DOMAIN jmcs

SlotsDiffer(k) ==
    \A i, j \in OnBoard(k) :
        temp[i].hardware_index = temp[j].hardware_index => i = j

(* addJoint refuses a slot that is taken, sortJoints one that is missing.   *)
Sorted(k) ==
    SlotsDiffer(k) /\ Numbered(Slots(k))

InSlot(k, h) == CHOOSE i \in OnBoard(k) : temp[i].hardware_index = h

(* The parser's status is asked in the loop over the boards: without any    *)
(* board an error is not noticed here.                                      *)
Complete ==
    /\ Numbered(DOMAIN temp)
    /\ \A i \in DOMAIN temp : JmcIndexes(temp[i].jmc_name) # {}
    /\ \A k \in DOMAIN jmcs : Sorted(k) /\ status # "ERROR"

(* The parser is not asked again; what it still knows of the files is       *)
(* forgotten here.                                                          *)
PostParse ==
    /\ pc = "file" /\ status \in {"END_FILE", "ERROR"}
    /\ IF Complete
       THEN /\ pc' = "accepted"
            /\ joints' = temp
            /\ jmcs' = [k \in DOMAIN jmcs |->
                           [jmcs[k] EXCEPT !.joints =
                               [h \in Slots(k) |-> InSlot(k, h)]]]
       ELSE pc' = "rejected" /\ UNCHANGED <<joints, jmcs>>
    /\ temp' = <<>>
    /\ filenames' = {} /\ device' = NoName
    /\ UNCHANGED <<including, status, info, sensors>>

-----------------------------------------------------------------------------
Load  == \/ \E f \in {Main, "missing"} : LoadFile(f)
         \/ \E f \in File \cup {"missing"} : Include(f)
         \/ UnreadableLine \/ EndOfIncluded
Lines == \/ \E t \in Device \cup {"other"} : BeginDevice(t) \/ EndDevice(t)
         \/ BareKeyword \/ EndFile
         \/ \E field \in DOMAIN Blank : Component(field)
         \/ FaultyComponent
Finish == \/ FinishJoint \/ FinishJmc \/ FinishMeta
          \/ \E d \in Sensor : FinishSensor(d)

DescNext == Load \/ Lines \/ Finish \/ PostParse

-----------------------------------------------------------------------------
(* Properties. *)

DescTypeOK ==
    /\ pc \in {"load", "file", "accepted", "rejected"} \cup Device
    /\ including \in Seq(File) /\ filenames \subseteq File \cup {"missing"}
    /\ status \in Status /\ device \in Device \cup {NoName, "other"}
    /\ info \in Info
    /\ DOMAIN temp \subseteq Index /\ Range(temp) \subseteq Info
    /\ DOMAIN joints \subseteq Index /\ Range(joints) \subseteq Info
    /\ DOMAIN jmcs \subseteq Nat
    /\ \A k \in DOMAIN jmcs :
           /\ jmcs[k].name \in Name /\ jmcs[k].address \in Index
           /\ DOMAIN jmcs[k].joints \subseteq Nat /\ Range(jmcs[k].joints) \subseteq Index
    /\ sensors \in Seq([name : Name, sensor : Sensor, address : Index])

(* What parseFile accepts is a robot: the joints are numbered without gaps, *)
(* each sits in exactly one slot of exactly one board, the slots of a board *)
(* have no gaps either, names identify devices, and no error was reported,  *)
(* wherever the file breaks off, if a board was read.  Without one the code *)
(* falls short of what HuboDescription.hpp:60 promises: an error in the     *)
(* last lines is not noticed then, and only the rest holds.                 *)
AcceptedIsARobot ==
    pc = "accepted" =>
        /\ Numbered(DOMAIN joints)
        /\ \A i \in DOMAIN joints :
               Cardinality({ks \in UNION {{k} \X DOMAIN jmcs[k].joints : k \in DOMAIN jmcs} :
                                jmcs[ks[1]].joints[ks[2]] = i}) = 1
        /\ \A k \in DOMAIN jmcs : Numbered(DOMAIN jmcs[k].joints)
        /\ \A i, j \in DOMAIN joints : joints[i].name = joints[j].name => i = j
        /\ \A i, j \in DOMAIN jmcs : jmcs[i].name = jmcs[j].name => i = j
        /\ \A i, j \in DOMAIN sensors : sensors[i].name = sensors[j].name => i = j
        /\ jmcs # <<>> => status # "ERROR"
=============================================================================
