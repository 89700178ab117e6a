---------------------------- MODULE PlayerProofs ----------------------------
(***************************************************************************)
(* Theorems about Player for every set of joints, every length of the      *)
(* trajectories and all limits.                                            *)
(***************************************************************************)
EXTENDS Player, TLAPS

(* The trajectory being played is one that was accepted, and the index is   *)
(* one of its elements, if it has any.                                      *)
PlaysAccepted ==
    current # "QUIT" =>
        /\ trajectory \in Trajectory
        /\ WithinLimits(trajectory)
        /\ trajectory.joints \subseteq named
        /\ index = 0 \/ index < Size(trajectory)

TypeInv == TypeOK /\ PlaysAccepted

(* A joint the player drives is registered, and the player's.               *)
Drives(j) == output[j].mode = "RIGID" /\ output[j].from = "player"

DrivenIsRegistered ==
    \A j \in Joint : Drives(j) => j \in registered /\ owner[j] = "player"

ExitInv == DrivenIsRegistered /\ ExitStopsTheJoints

-----------------------------------------------------------------------------
(* Trajectories. *)

LEMMA TrajectoryType ==
    ASSUME NEW t \in Trajectory
    PROVE  /\ t.joints \subseteq Joint
           /\ Size(t) \in 0 .. MaxLen
           /\ DOMAIN t.elements = 1 .. Size(t)
           /\ \A n \in 1 .. Size(t) : t.elements[n] \in Position
<1>1. PICK n \in 0 .. MaxLen : t.elements \in [1 .. n -> Position]
  BY DEF Trajectory
<1>2. n \in Nat /\ t.elements \in Seq(Position)
  BY <1>1, LimitsAssumption
<1>3. Len(t.elements) = n
  BY <1>1, <1>2
<1> QED
  BY <1>1, <1>3 DEF Size, Trajectory

LEMMA NoneType == None \in Trajectory
<1>1. <<>> \in [1 .. 0 -> Position] /\ 0 \in 0 .. MaxLen
  BY LimitsAssumption
<1> QED
  BY <1>1 DEF None, Trajectory

LEMMA PositionType == Position \subseteq Int /\ 0 \in Position
  BY LimitsAssumption DEF Position

(* The index stays on the trajectory and moves by at most one.              *)
LEMMA AdvancedType ==
    ASSUME NEW i, NEW size \in Nat, NEW n \in Nat, n < size
    PROVE  /\ Advanced(i, n, size) \in Nat
           /\ Advanced(i, n, size) < size
           /\ Advanced(i, n, size) \in {n - 1, n, n + 1}
<1>1. CASE i = "RUN"
  BY <1>1 DEF Advanced
<1>2. CASE i = "REVERSE"
  BY <1>2 DEF Advanced
<1>3. CASE i # "RUN" /\ i # "REVERSE"
  BY <1>3 DEF Advanced
<1> QED
  BY <1>1, <1>2, <1>3

-----------------------------------------------------------------------------
(* What each step does with the command message, whatever is in it. *)

LEMMA SendType ==
    ASSUME TypeOK, NEW J \in SUBSET Joint,
           NEW c \in [Joint -> [mode : Mode, ref : Position]], Send(J, c)
    PROVE  /\ registered' \subseteq Joint
           /\ cmds' \in [Joint -> [mode : Mode, ref : Position]]
           /\ owner' \in [Joint -> {"player", "other", "nobody"}]
           /\ output' \in [Joint -> [mode : {"IGNORE", "RIGID"},
                                     from : {"player", "other", "nobody"}]]
<1>1. registered' \subseteq Joint
  BY DEF Send, StillRegistered
<1>2. cmds' \in [Joint -> [mode : Mode, ref : Position]]
  BY DEF Send, Mode
<1>3. owner' \in [Joint -> {"player", "other", "nobody"}]
  BY DEF Send, TypeOK
<1>4. output' \in [Joint -> [mode : {"IGNORE", "RIGID"},
                             from : {"player", "other", "nobody"}]]
  BY DEF Send, TypeOK
<1> QED
  BY <1>1, <1>2, <1>3, <1>4

(* The message after it was sent: what was not released is as it was.       *)
LEMMA SendKeeps ==
    ASSUME NEW J \in SUBSET Joint, NEW c, Send(J, c), NEW j \in registered'
    PROVE  j \in J /\ cmds'[j] = c[j]
  BY DEF Send, StillRegistered

(* Sending a message in which every joint the player drives is registered.  *)
LEMMA SendDrives ==
    ASSUME TypeOK, DrivenIsRegistered, NEW J \in SUBSET Joint, registered \subseteq J,
           NEW c \in [Joint -> [mode : Mode, ref : Position]], Send(J, c)
    PROVE  /\ DrivenIsRegistered'
           /\ \A j \in Joint : Drives(j)' => c[j].mode = "RIGID" /\ j \in J
<1> SUFFICES ASSUME NEW j \in Joint, Drives(j)'
             PROVE  /\ j \in registered' /\ owner'[j] = "player"
                    /\ c[j].mode = "RIGID" /\ j \in J
  BY DEF DrivenIsRegistered
<1> DEFINE Accepted == j \in J /\ (owner[j] \in {"player", "nobody"} \/ c[j].mode = "CLAIM")
<1>1. CASE Accepted
  <2>1. c[j].mode = "RIGID"
    BY <1>1 DEF Send, Drives
  <2>2. owner'[j] = "player" /\ j \in registered'
    BY <1>1, <2>1 DEF Send, StillRegistered
  <2> QED
    BY <1>1, <2>1, <2>2
<1>2. CASE ~Accepted
  <2>1. Drives(j)
    BY <1>2 DEF Send, Drives
  <2> QED
    BY <1>2, <2>1 DEF DrivenIsRegistered
<1> QED
  BY <1>1, <1>2

(* The messages of the three steps that send.                               *)
Claiming(t) == [j \in Joint |-> IF j \in t.joints THEN [cmds[j] EXCEPT !.mode = "CLAIM"]
                                                  ELSE cmds[j]]
Driving(n) == [j \in Joint |-> IF j \in trajectory.joints
                               THEN [mode |-> "RIGID", ref |-> Element(n)] ELSE cmds[j]]
Releasing == [j \in Joint |-> IF j \in registered THEN [cmds[j] EXCEPT !.mode = "RELEASE"]
                                                  ELSE cmds[j]]
NewIndex(i) == Advanced(Obeyed(i), IF fresh THEN 0 ELSE index, Size(trajectory))

LEMMA MessageTypes ==
    ASSUME TypeOK
    PROVE  /\ \A t \in Trajectory : Claiming(t) \in [Joint -> [mode : Mode, ref : Position]]
           /\ Releasing \in [Joint -> [mode : Mode, ref : Position]]
  BY DEF TypeOK, Claiming, Releasing, Mode

(* What a playing step finds and sends.                                     *)
LEMMA PlayFacts ==
    ASSUME TypeInv, NEW i \in Instruction \cup Loading \cup {Nothing}, Play(i)
    PROVE  /\ trajectory \in Trajectory
           /\ WithinLimits(trajectory)
           /\ trajectory.joints \subseteq named
           /\ registered \cup trajectory.joints \in SUBSET Joint
           /\ index' = NewIndex(i)
           /\ index' \in Nat
           /\ index' < Size(trajectory)
           /\ index' - (IF fresh THEN 0 ELSE index) \in {-1, 0, 1}
           /\ Element(index') \in Position
           /\ Driving(index') \in [Joint -> [mode : Mode, ref : Position]]
           /\ Send(registered \cup trajectory.joints, Driving(index'))
<1> DEFINE from == IF fresh THEN 0 ELSE index
<1>1. /\ trajectory \in Trajectory /\ WithinLimits(trajectory)
      /\ trajectory.joints \subseteq named
      /\ index = 0 \/ index < Size(trajectory)
      /\ Size(trajectory) > 0
  BY DEF TypeInv, PlaysAccepted, Play, Goes
<1>2. index' = NewIndex(i)
  BY DEF Play, NewIndex
<1>3. Size(trajectory) \in Nat /\ from \in Nat /\ from < Size(trajectory)
  BY <1>1, TrajectoryType, LimitsAssumption DEF TypeInv, TypeOK
<1>4. /\ index' \in Nat /\ index' < Size(trajectory)
      /\ index' \in {from - 1, from, from + 1}
  BY <1>2, <1>3, AdvancedType DEF NewIndex
<1>5. Element(index') \in Position
  BY <1>1, <1>3, <1>4, TrajectoryType DEF Element
<1>6. Driving(index') \in [Joint -> [mode : Mode, ref : Position]]
  BY <1>5 DEF Driving, TypeInv, TypeOK, Mode
<1>7. Send(registered \cup trajectory.joints, Driving(index'))
  BY <1>2 DEF Play, Driving, NewIndex
<1>8. index' - from \in {-1, 0, 1}
  BY <1>3, <1>4
<1>9. registered \cup trajectory.joints \in SUBSET Joint
  BY <1>1, TrajectoryType DEF TypeInv, TypeOK
<1> QED
  BY <1>1, <1>2, <1>4, <1>5, <1>6, <1>7, <1>8, <1>9

-----------------------------------------------------------------------------
(* Type correctness. *)

LEMMA InitTypeInv == Init => TypeInv
<1> SUFFICES ASSUME Init PROVE TypeInv
  OBVIOUS
<1>1. cmds \in [Joint -> [mode : Mode, ref : Position]]
  BY PositionType DEF Init, Mode
<1>2. output \in [Joint -> [mode : {"IGNORE", "RIGID"},
                           from : {"player", "other", "nobody"}]]
  BY DEF Init
<1>3. index \in 0 .. MaxLen
  BY LimitsAssumption DEF Init
<1>4. TypeOK
  BY <1>1, <1>2, <1>3, NoneType DEF Init, TypeOK, Instruction
<1>5. PlaysAccepted
  BY DEF Init, PlaysAccepted
<1> QED
  BY <1>4, <1>5 DEF TypeInv

(* A failed reception.                                                      *)
LEMMA FailType ==
    ASSUME TypeInv, NEW i \in Instruction \cup Loading \cup {Nothing}, Steps, Cleared(i),
           \/ UNCHANGED cmdVars
           \/ \E J \in SUBSET Joint : Registering(J, "CLAIM")
    PROVE  TypeInv'
<1>1. registered' \subseteq Joint /\ cmds' \in [Joint -> [mode : Mode, ref : Position]]
  BY DEF TypeInv, TypeOK, cmdVars, Registering, Mode
<1>2. current' = "QUIT" /\ current' \in Instruction /\ incoming' \in Instruction
  BY DEF Cleared, Obeyed, Instruction, Loading, TypeInv, TypeOK
<1>3. UNCHANGED <<status, fresh, index, owner, output, named>> /\ trajectory' = None
  BY DEF Steps, Cleared, aggVars
<1> QED
  BY <1>1, <1>2, <1>3, NoneType DEF TypeInv, TypeOK, PlaysAccepted

LEMMA AcceptType ==
    ASSUME TypeInv, NEW i \in Instruction \cup Loading \cup {Nothing},
           NEW t \in Trajectory, Accept(i, t)
    PROVE  TypeInv'
<1>1. /\ registered \cup t.joints \in SUBSET Joint
      /\ Claiming(t) \in [Joint -> [mode : Mode, ref : Position]]
      /\ Send(registered \cup t.joints, Claiming(t))
  BY TrajectoryType, MessageTypes DEF TypeInv, TypeOK, Accept, Claiming
<1>2. /\ registered' \subseteq Joint
      /\ cmds' \in [Joint -> [mode : Mode, ref : Position]]
      /\ owner' \in [Joint -> {"player", "other", "nobody"}]
      /\ output' \in [Joint -> [mode : {"IGNORE", "RIGID"},
                                from : {"player", "other", "nobody"}]]
  BY <1>1, SendType DEF TypeInv
<1>3. current' \in Instruction /\ incoming' \in Instruction
  BY DEF Accept, AfterLoad, Obeyed, Instruction, Loading, TypeInv, TypeOK
<1>4. /\ trajectory' = t /\ fresh' = TRUE /\ index' = 0
      /\ named' = named \cup t.joints /\ named' \subseteq Joint
      /\ WithinLimits(t) /\ UNCHANGED status
  BY TrajectoryType DEF Accept, Steps, TypeInv, TypeOK
<1>5. TypeOK'
  BY <1>2, <1>3, <1>4, LimitsAssumption DEF TypeInv, TypeOK
<1>6. index' = 0
  BY <1>4
<1>7. PlaysAccepted'
  BY <1>4, <1>6 DEF PlaysAccepted, WithinLimits, Size
<1> QED
  BY <1>5, <1>7 DEF TypeInv

LEMMA PlayType ==
    ASSUME TypeInv, NEW i \in Instruction \cup Loading \cup {Nothing}, Play(i)
    PROVE  TypeInv'
<1>1. registered \cup trajectory.joints \in SUBSET Joint
  BY PlayFacts
<1>2. /\ registered' \subseteq Joint
      /\ cmds' \in [Joint -> [mode : Mode, ref : Position]]
      /\ owner' \in [Joint -> {"player", "other", "nobody"}]
      /\ output' \in [Joint -> [mode : {"IGNORE", "RIGID"},
                                from : {"player", "other", "nobody"}]]
  BY <1>1, PlayFacts, SendType DEF TypeInv
<1>3. current' \in Instruction /\ incoming' \in Instruction
  BY DEF Play, Goes, Obeyed, Instruction, Loading, TypeInv, TypeOK
<1>4. fresh' = FALSE /\ UNCHANGED <<status, trajectory, named>>
  BY DEF Play, Goes, Steps
<1>5. index' \in 0 .. MaxLen /\ index' < Size(trajectory)
  BY PlayFacts, TrajectoryType, LimitsAssumption
<1>6. TypeOK'
  BY <1>2, <1>3, <1>4, <1>5 DEF TypeInv, TypeOK
<1>7. PlaysAccepted'
  BY <1>4, <1>5, PlayFacts DEF PlaysAccepted, WithinLimits, Size
<1> QED
  BY <1>6, <1>7 DEF TypeInv

LEMMA NextTypeInv == TypeInv /\ [Next]_vars => TypeInv'
<1> SUFFICES ASSUME TypeInv, [Next]_vars PROVE TypeInv'
  OBVIOUS
<1> USE DEF TypeInv
<1>1. ASSUME NEW i \in Instruction \cup Loading \cup {Nothing}, Step(i)
      PROVE  TypeInv'
  <2>1. CASE ReceiveNothing(i)
    BY <2>1, FailType DEF ReceiveNothing
  <2>2. CASE \E J \in SUBSET Joint : Reject(i, J)
    BY <2>2, FailType DEF Reject
  <2>3. CASE \E t \in Trajectory : Accept(i, t)
    BY <2>3, AcceptType
  <2>4. CASE Quit(i)
    BY <2>4, NoneType
       DEF Quit, Steps, Registering, aggVars, TypeOK, PlaysAccepted, Instruction, Mode
  <2>5. CASE StayQuit(i)
    BY <2>5 DEF StayQuit, Steps, cmdVars, aggVars, TypeOK, PlaysAccepted, Instruction
  <2>6. CASE Play(i)
    BY <2>6, PlayType
  <2>7. CASE PlayNothing(i)
    <3>1. current' \in Instruction /\ incoming' \in Instruction /\ current # "QUIT"
      BY <2>7 DEF PlayNothing, Goes, Obeyed, Instruction, Loading, TypeOK
    <3> QED
      BY <2>7, <3>1 DEF PlayNothing, Goes, Steps, cmdVars, aggVars, TypeOK, PlaysAccepted,
                        WithinLimits, Size
  <2> QED
    BY <1>1, <2>1, <2>2, <2>3, <2>4, <2>5, <2>6, <2>7 DEF Step
<1>2. CASE Exit
  <2>1. Send(registered, Releasing)
    BY <1>2 DEF Exit, Releasing
  <2> QED
    BY <1>2, <2>1, MessageTypes, SendType
       DEF Exit, playerVars, TypeOK, PlaysAccepted, WithinLimits, Size
<1>3. ASSUME NEW j \in Joint, OthersAct(j) PROVE TypeInv'
  BY <1>3 DEF OthersAct, playerVars, cmdVars, TypeOK, PlaysAccepted, WithinLimits, Size
<1>4. CASE AggregatorRestart
  BY <1>4 DEF AggregatorRestart, playerVars, cmdVars, TypeOK, PlaysAccepted,
              WithinLimits, Size
<1>5. CASE UNCHANGED vars
  BY <1>5 DEF vars, playerVars, cmdVars, aggVars, TypeOK, PlaysAccepted, WithinLimits, Size
<1> QED
  BY <1>1, <1>2, <1>3, <1>4, <1>5 DEF Next

THEOREM TypeCorrect == Spec => []TypeInv
  BY InitTypeInv, NextTypeInv, PTL DEF Spec

(* Type correctness of the player, for trajectories of any length: of the   *)
(* index it only says that it is one of some trajectory.  That it is one of *)
(* the trajectory that is played is PlaysAccepted, which TypeCorrect        *)
(* establishes with it.                                                     *)
THEOREM TypeOKHolds == Spec => []TypeOK
<1>1. TypeInv => TypeOK
  BY DEF TypeInv
<1> QED
  BY <1>1, TypeCorrect, PTL

-----------------------------------------------------------------------------
(* What is driven. *)

LEMMA NextNamed == TypeInv /\ DrivesOnlyNamedJoints /\ [Next]_vars => DrivesOnlyNamedJoints'
<1> SUFFICES ASSUME TypeInv, DrivesOnlyNamedJoints, [Next]_vars,
                    NEW j \in registered', cmds'[j].mode = "RIGID"
             PROVE  j \in named' /\ Abs(cmds'[j].ref) <= Limit
  BY DEF DrivesOnlyNamedJoints
<1>1. ASSUME UNCHANGED <<cmdVars, named>>
      PROVE  j \in named' /\ Abs(cmds'[j].ref) <= Limit
  BY <1>1 DEF cmdVars, DrivesOnlyNamedJoints
<1>2. ASSUME NEW J \in SUBSET Joint, NEW m \in {"CLAIM", "RELEASE"},
             Registering(J, m), m = "CLAIM" => UNCHANGED named, m = "RELEASE" => J = registered
      PROVE  j \in named' /\ Abs(cmds'[j].ref) <= Limit
  <2>1. j \in Joint /\ j \notin J
    BY <1>2 DEF Registering, TypeInv, TypeOK
  <2>2. j \in registered /\ cmds'[j] = cmds[j] /\ UNCHANGED named
    BY <1>2, <2>1 DEF Registering
  <2> QED
    BY <2>2 DEF DrivesOnlyNamedJoints
<1>3. ASSUME NEW i \in Instruction \cup Loading \cup {Nothing}, Step(i)
      PROVE  j \in named' /\ Abs(cmds'[j].ref) <= Limit
  <2>1. CASE ReceiveNothing(i)
    BY <2>1, <1>1 DEF ReceiveNothing, Cleared
  <2>2. ASSUME NEW J \in SUBSET Joint, Reject(i, J)
        PROVE  j \in named' /\ Abs(cmds'[j].ref) <= Limit
    BY <2>2, <1>2 DEF Reject, Cleared
  <2>3. ASSUME NEW t \in Trajectory, Accept(i, t)
        PROVE  j \in named' /\ Abs(cmds'[j].ref) <= Limit
    <3>1. registered \cup t.joints \in SUBSET Joint
      BY TrajectoryType DEF TypeInv, TypeOK
    <3>2. Send(registered \cup t.joints, Claiming(t)) /\ named \subseteq named'
      BY <2>3 DEF Accept, Claiming
    <3>3. j \in registered \cup t.joints /\ cmds'[j] = Claiming(t)[j] /\ j \in Joint
      BY <3>1, <3>2, SendKeeps
    <3>4. cmds'[j] = cmds[j] /\ j \in registered
      BY <3>3 DEF Claiming, TypeInv, TypeOK
    <3> QED
      BY <3>2, <3>4 DEF DrivesOnlyNamedJoints
  <2>4. CASE Quit(i)
    BY <2>4, <1>2 DEF Quit, TypeInv, TypeOK
  <2>5. CASE StayQuit(i)
    BY <2>5, <1>1 DEF StayQuit
  <2>6. CASE Play(i)
    <3>1. /\ registered \cup trajectory.joints \in SUBSET Joint
          /\ Send(registered \cup trajectory.joints, Driving(index'))
          /\ UNCHANGED named
      BY <1>3, <2>6, PlayFacts DEF Play, Goes
    <3>2. /\ j \in registered \cup trajectory.joints
          /\ cmds'[j] = Driving(index')[j]
          /\ j \in Joint
      BY <3>1, SendKeeps
    <3>3. CASE j \in trajectory.joints
      <4>1. cmds'[j].ref = Element(index') /\ j \in named'
        BY <2>6, <3>1, <3>2, <3>3, PlayFacts DEF Driving
      <4>2. index' + 1 \in DOMAIN trajectory.elements
        BY <2>6, PlayFacts, TrajectoryType, LimitsAssumption
      <4> QED
        BY <2>6, <4>1, <4>2, PlayFacts DEF WithinLimits, Element
    <3>4. CASE j \notin trajectory.joints
      BY <3>1, <3>2, <3>4 DEF Driving, DrivesOnlyNamedJoints
    <3> QED
      BY <3>3, <3>4
  <2>7. CASE PlayNothing(i)
    BY <2>7, <1>1 DEF PlayNothing, Goes
  <2> QED
    BY <1>3, <2>1, <2>2, <2>3, <2>4, <2>5, <2>6, <2>7 DEF Step
<1>4. CASE Exit
  <2>1. Send(registered, Releasing) /\ registered \in SUBSET Joint
    BY <1>4 DEF Exit, Releasing, TypeInv, TypeOK
  <2>2. j \in registered /\ j \in Joint /\ cmds'[j] = Releasing[j]
    BY <2>1, SendKeeps
  <2>3. cmds'[j].mode = "RELEASE"
    BY <2>2 DEF Releasing, TypeInv, TypeOK
  <2> QED
    BY <2>3
<1>5. ASSUME NEW k \in Joint, OthersAct(k)
      PROVE  j \in named' /\ Abs(cmds'[j].ref) <= Limit
  BY <1>1, <1>5 DEF OthersAct
<1>6. CASE AggregatorRestart
  BY <1>1, <1>6 DEF AggregatorRestart
<1>7. CASE UNCHANGED vars
  BY <1>1, <1>7 DEF vars
<1> QED
  BY <1>3, <1>4, <1>5, <1>6, <1>7 DEF Next

(* No joint is driven on account of a rejected or broken-off trajectory, or *)
(* of one accepted before the joints were last released, or out of its      *)
(* limits.                                                                  *)
THEOREM DrivesOnlyNamedHolds == Spec => []DrivesOnlyNamedJoints
<1>1. Init => DrivesOnlyNamedJoints
  BY DEF Init, DrivesOnlyNamedJoints
<1> QED
  BY <1>1, NextNamed, TypeCorrect, PTL DEF Spec

(* However a trajectory is run, paused or reversed, its references change   *)
(* no faster than the limits that were checked.                             *)
THEOREM MovesWithinSpeedHolds == Spec => MovesWithinSpeed
<1> DEFINE from == IF fresh THEN 0 ELSE index
<1>1. ASSUME TypeInv, NEW i \in Instruction \cup {Nothing}, Play(i)
      PROVE  Abs(Element(index') - Element(from)) <= MaxSpeed
  <2>1. /\ trajectory \in Trajectory /\ WithinLimits(trajectory)
        /\ index' \in Nat /\ index' < Size(trajectory)
        /\ index' - from \in {-1, 0, 1}
    BY <1>1, PlayFacts
  <2>2. /\ Size(trajectory) \in Nat
        /\ \A n \in 1 .. Size(trajectory) : trajectory.elements[n] \in Int
    <3>1. /\ Size(trajectory) \in 0 .. MaxLen
          /\ \A n \in 1 .. Size(trajectory) : trajectory.elements[n] \in Position
      BY <2>1, TrajectoryType
    <3> QED
      BY <3>1, LimitsAssumption DEF Position
  <2>3. from \in Nat /\ from < Size(trajectory)
    BY <1>1, <2>1, <2>2 DEF TypeInv, TypeOK, PlaysAccepted, Play, Goes
  <2>4. Element(index') \in Int /\ Element(from) \in Int
    BY <2>1, <2>2, <2>3 DEF Element
  <2>5. CASE index' = from
    BY <2>4, <2>5, LimitsAssumption DEF Abs
  <2>6. CASE index' = from + 1
    <3>1. Abs(trajectory.elements[index' + 1] - trajectory.elements[index' + 1 - 1]) <= MaxSpeed
      BY <2>1, <2>2, <2>3, <2>6 DEF WithinLimits
    <3>2. index' + 1 - 1 = from + 1
      BY <2>3, <2>6
    <3> QED
      BY <3>1, <3>2 DEF Element
  <2>7. CASE index' = from - 1
    <3>1. Abs(trajectory.elements[from + 1] - trajectory.elements[from + 1 - 1]) <= MaxSpeed
      BY <2>1, <2>2, <2>3, <2>7 DEF WithinLimits
    <3>2. from + 1 - 1 = index' + 1
      BY <2>3, <2>7
    <3>3. Abs(Element(from) - Element(index')) <= MaxSpeed
      BY <3>1, <3>2 DEF Element
    <3> QED
      BY <2>4, <3>3, LimitsAssumption DEF Abs
  <2> QED
    BY <2>1, <2>3, <2>5, <2>6, <2>7
<1>2. TypeInv /\ [Next]_vars =>
        [\A i \in Instruction \cup {Nothing} : Play(i) =>
           Abs(Element(index') - Element(IF fresh THEN 0 ELSE index)) <= MaxSpeed]_vars
  BY <1>1
<1> QED
  BY <1>2, TypeCorrect, PTL DEF Spec, MovesWithinSpeed

-----------------------------------------------------------------------------
(* Exit. *)

LEMMA NextExitInv == TypeInv /\ ExitInv /\ [Next]_vars => ExitInv'
<1> SUFFICES ASSUME TypeInv, ExitInv, [Next]_vars PROVE ExitInv'
  OBVIOUS
<1> USE DEF ExitInv
<1>1. ASSUME status' = status, status = "running", DrivenIsRegistered' PROVE ExitInv'
  BY <1>1 DEF ExitStopsTheJoints
<1>2. ASSUME UNCHANGED aggVars, registered \subseteq registered' PROVE DrivenIsRegistered'
  BY <1>2 DEF aggVars, DrivenIsRegistered, Drives
<1>3. ASSUME NEW i \in Instruction \cup Loading \cup {Nothing}, Step(i)
      PROVE  ExitInv'
  <2>1. CASE ReceiveNothing(i)
    BY <2>1, <1>1, <1>2 DEF ReceiveNothing, Steps, Cleared, cmdVars
  <2>2. ASSUME NEW J \in SUBSET Joint, Reject(i, J) PROVE ExitInv'
    BY <2>2, <1>1, <1>2 DEF Reject, Steps, Cleared, Registering
  <2>3. ASSUME NEW t \in Trajectory, Accept(i, t) PROVE ExitInv'
    <3>1. /\ registered \cup t.joints \in SUBSET Joint
          /\ Claiming(t) \in [Joint -> [mode : Mode, ref : Position]]
          /\ Send(registered \cup t.joints, Claiming(t))
      BY <2>3, TrajectoryType, MessageTypes DEF TypeInv, TypeOK, Accept, Claiming
    <3>2. DrivenIsRegistered'
      BY <3>1, SendDrives DEF TypeInv
    <3> QED
      BY <2>3, <3>2, <1>1 DEF Accept, Steps
  <2>4. CASE Quit(i)
    BY <2>4, <1>1, <1>2 DEF Quit, Steps, Registering
  <2>5. CASE StayQuit(i)
    BY <2>5, <1>1, <1>2 DEF StayQuit, Steps, cmdVars
  <2>6. CASE Play(i)
    <3>1. /\ registered \cup trajectory.joints \in SUBSET Joint
          /\ Driving(index') \in [Joint -> [mode : Mode, ref : Position]]
          /\ Send(registered \cup trajectory.joints, Driving(index'))
      BY <1>3, <2>6, PlayFacts
    <3>2. DrivenIsRegistered'
      BY <3>1, SendDrives DEF TypeInv
    <3> QED
      BY <2>6, <3>2, <1>1 DEF Play, Goes, Steps
  <2>7. CASE PlayNothing(i)
    BY <2>7, <1>1, <1>2 DEF PlayNothing, Goes, Steps, cmdVars
  <2> QED
    BY <1>3, <2>1, <2>2, <2>3, <2>4, <2>5, <2>6, <2>7 DEF Step
<1>4. CASE Exit
  <2>1. /\ registered \in SUBSET Joint
        /\ Releasing \in [Joint -> [mode : Mode, ref : Position]]
        /\ Send(registered, Releasing)
    BY <1>4, MessageTypes DEF Exit, Releasing, TypeInv, TypeOK
  <2>2. /\ DrivenIsRegistered'
        /\ \A j \in Joint : Drives(j)' => Releasing[j].mode = "RIGID" /\ j \in registered
    BY <2>1, SendDrives DEF TypeInv
  <2>3. \A j \in registered : Releasing[j].mode = "RELEASE"
    BY DEF Releasing, TypeInv, TypeOK
  <2> QED
    BY <2>2, <2>3 DEF ExitStopsTheJoints, Drives
<1>5. ASSUME NEW k \in Joint, OthersAct(k) PROVE ExitInv'
  <2>1. \A j \in Joint : Drives(j)' => j # k
    BY <1>5 DEF OthersAct, Drives, TypeInv, TypeOK
  <2>2. \A j \in Joint : j # k => output'[j] = output[j] /\ owner'[j] = owner[j]
    BY <1>5 DEF OthersAct, TypeInv, TypeOK
  <2>3. UNCHANGED <<status, registered>>
    BY <1>5 DEF OthersAct, cmdVars
  <2> QED
    BY <2>1, <2>2, <2>3 DEF DrivenIsRegistered, ExitStopsTheJoints, Drives
<1>6. CASE AggregatorRestart
  BY <1>6 DEF AggregatorRestart, DrivenIsRegistered, ExitStopsTheJoints, Drives
<1>7. CASE UNCHANGED vars
  BY <1>7 DEF vars, cmdVars, aggVars, DrivenIsRegistered, ExitStopsTheJoints, Drives
<1> QED
  BY <1>3, <1>4, <1>5, <1>6, <1>7 DEF Next

(* A player that has exited drives nothing any more.                        *)
THEOREM ExitStopsHolds == Spec => []ExitStopsTheJoints
<1>1. Init => ExitInv
  BY DEF Init, ExitInv, DrivenIsRegistered, ExitStopsTheJoints, Drives
<1>2. ExitInv => ExitStopsTheJoints
  BY DEF ExitInv
<1> QED
  BY <1>1, <1>2, NextExitInv, TypeCorrect, PTL DEF Spec
=============================================================================
