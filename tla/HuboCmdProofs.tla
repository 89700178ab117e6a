---------------------------- MODULE HuboCmdProofs ----------------------------
(***************************************************************************)
(* Theorems about HuboCmd for every number of joints, processes and pids,  *)
(* every channel depth and every pattern of losses, crashes and restarts.  *)
(***************************************************************************)
EXTENDS HuboCmd, FunctionTheorems, FiniteSetTheorems, TLAPS

-----------------------------------------------------------------------------
(* What compressing a command message preserves, for every robot size,     *)
(* every width of int and bitmap, and every set of registered joints.      *)

(* A message being filled by a Commander. *)
DataType == [bitmap : SUBSET Bit, cmds : [Joint -> Mode]]

(* Shifting by a joint's index names bits of the bitmap. *)
LEMMA IntShiftType ==
    ASSUME NEW i \in Joint
    PROVE  IntShift(i) \subseteq Bit
  BY WidthsAssumption DEF IntShift, Bit, Joint

(* As long as an int has a bit per joint, a joint's shift names that joint  *)
(* and no other one.                                                        *)
LEMMA IntShiftExact ==
    ASSUME NEW i \in Joint, Unaliased(i)
    PROVE  IntShift(i) \cap Joint = {i}
<1>1. i % IntWidth = i
  BY WidthsAssumption DEF Unaliased, IntHoldsJoints, Joint
<1>2. QED
  BY <1>1, WidthsAssumption DEF Unaliased, IntHoldsJoints, Joint, IntShift

-----------------------------------------------------------------------------
LEMMA BitmapFinite ==
    ASSUME NEW S \in SUBSET Bit, NEW i
    PROVE  /\ IsFiniteSet(S)
           /\ IsFiniteSet(S \cap Joint)
           /\ IsFiniteSet({k \in S : k < i})
<1>1. IsFiniteSet(Bit)
  BY FS_Interval, WidthsAssumption DEF Bit
<1>2. QED
  BY <1>1, FS_Subset

(* Set joints keep their order, so no two share a slot. *)
LEMMA RankMonotonic ==
    ASSUME NEW S \in SUBSET Bit, NEW i \in S, NEW j \in S, i < j
    PROVE  Rank(S, i) < Rank(S, j)
<1> DEFINE A == {k \in S : k < i}
           B == {k \in S : k < j}
<1>1. IsFiniteSet(A) /\ IsFiniteSet(B)
  BY BitmapFinite
<1>0. S \subseteq Int
  BY WidthsAssumption DEF Bit
<1>2. i \notin A /\ A \cup {i} \subseteq B
  <2>1. i \notin A
    BY <1>0
  <2>2. ASSUME NEW k \in A PROVE k \in B
    BY <1>0
  <2>3. i \in B
    OBVIOUS
  <2>4. QED
    BY <2>1, <2>2, <2>3
<1>3. Cardinality(A \cup {i}) = Cardinality(A) + 1
  BY <1>1, <1>2, FS_AddElement
<1>4. Cardinality(A \cup {i}) <= Cardinality(B)
  BY <1>1, <1>2, FS_Subset
<1>5. Cardinality(A) \in Nat /\ Cardinality(B) \in Nat
  BY <1>1, FS_CardinalityType
<1>6. QED
  BY <1>3, <1>4, <1>5 DEF Rank

LEMMA RankInjective ==
    ASSUME NEW S \in SUBSET Bit, NEW i \in S, NEW j \in S,
           Rank(S, i) = Rank(S, j)
    PROVE  i = j
<1>1. i \in Int /\ j \in Int
  BY DEF Bit
<1>2. Rank(S, i) \in Nat /\ Rank(S, j) \in Nat
  BY BitmapFinite, FS_CardinalityType DEF Rank
<1>3. CASE i < j
  BY <1>2, <1>3, RankMonotonic
<1>4. CASE j < i
  BY <1>2, <1>4, RankMonotonic
<1>5. QED
  BY <1>1, <1>3, <1>4

(* The slot of a set joint lies within the compressed message. *)
LEMMA RankInSlots ==
    ASSUME NEW S \in SUBSET Bit, NEW i \in S \cap Joint
    PROVE  Rank(S, i) \in 0 .. Cardinality(S \cap Joint) - 1
<1> DEFINE A == {k \in S : k < i}
           J == S \cap Joint
<1>1. IsFiniteSet(A) /\ IsFiniteSet(J)
  BY BitmapFinite
<1>2. A \in SUBSET (J \ {i})
  <2>1. ASSUME NEW k \in A PROVE k \in J \ {i}
    <3>1. k \in S /\ k < i /\ k \in 0 .. MapWidth - 1
      BY DEF Bit
    <3>2. k \in Joint /\ k # i
      BY <3>1, WidthsAssumption DEF Joint
    <3>3. QED
      BY <3>1, <3>2
  <2>2. QED
    BY <2>1
<1>3. /\ IsFiniteSet(J \ {i})
      /\ Cardinality(J \ {i}) = Cardinality(J) - 1
  BY <1>1, FS_RemoveElement
<1>4. Cardinality(A) <= Cardinality(J) - 1
  BY <1>2, <1>3, FS_Subset
<1>5. Cardinality(A) \in Nat /\ Cardinality(J) \in Nat
  BY <1>1, FS_CardinalityType
<1>6. QED
  BY <1>4, <1>5 DEF Rank

(* Every slot belongs to a set joint: none is left unfilled. *)
LEMMA SlotsFilled ==
    ASSUME NEW S \in SUBSET Bit,
           NEW n \in 0 .. Cardinality(S \cap Joint) - 1
    PROVE  \E i \in S \cap Joint : Rank(S, i) = n
<1> DEFINE J == S \cap Joint
           T == 0 .. Cardinality(J) - 1
           f == [i \in J |-> Rank(S, i)]
<1>1. IsFiniteSet(J) /\ Cardinality(J) \in Nat
  BY BitmapFinite, FS_CardinalityType
<1>2. IsFiniteSet(T) /\ Cardinality(T) = Cardinality(J)
  BY <1>1, FS_Interval
<1>3. f \in Injection(J, T)
  <2>1. f \in [J -> T]
    BY RankInSlots
  <2>2. \A a, b \in J : f[a] = f[b] => a = b
    BY RankInjective
  <2>3. QED
    BY <2>1, <2>2 DEF Injection, IsInjective
<1>4. f \in Surjection(J, T)
  BY <1>2, <1>3, FS_Injection
<1>5. QED
  BY <1>4 DEF Surjection

-----------------------------------------------------------------------------
(* A compressed message holds one command for each set joint. *)
THEOREM CompressType ==
    ASSUME NEW d \in DataType
    PROVE  /\ Compress(d).bitmap \in SUBSET Bit
           /\ JointsSet(Compress(d)) = JointsSet(d)
           /\ Cardinality(JointsSet(d)) \in 0 .. NumJoints
           /\ Compress(d).slots \in [1 .. Cardinality(JointsSet(d)) -> Mode]
<1> DEFINE N == Cardinality(JointsSet(d))
           S == d.bitmap
<1>1. S \in SUBSET Bit /\ JointsSet(d) = S \cap Joint /\ d.cmds \in [Joint -> Mode]
  BY DEF DataType, JointsSet
<1>2. N \in Nat /\ N <= NumJoints
  <2>1. IsFiniteSet(Joint) /\ Cardinality(Joint) = NumJoints
    BY FS_Interval, WidthsAssumption DEF Joint
  <2>2. JointsSet(d) \in SUBSET Joint
    BY <1>1
  <2>3. QED
    BY <2>1, <2>2, FS_Subset, FS_CardinalityType
<1>3. ASSUME NEW n \in 1 .. N
      PROVE  d.cmds[CHOOSE i \in JointsSet(d) : Rank(S, i) = n - 1] \in Mode
  <2>1. \E i \in JointsSet(d) : Rank(S, i) = n - 1
    <3>1. n - 1 \in 0 .. Cardinality(S \cap Joint) - 1
      BY <1>1, <1>2
    <3>2. QED
      BY <1>1, <3>1, SlotsFilled
  <2>2. (CHOOSE i \in JointsSet(d) : Rank(S, i) = n - 1) \in Joint
    BY <2>1, <1>1
  <2>3. QED
    BY <2>2, <1>1
<1>4. Compress(d).slots \in [1 .. N -> Mode]
  BY <1>3 DEF Compress
<1>5. QED
  BY <1>1, <1>2, <1>4, WidthsAssumption DEF Compress, JointsSet

(* A reader of the compressed message gets, for every joint it commands,    *)
(* the command the sender wrote for that joint.                             *)
THEOREM CompressRoundTrip ==
    ASSUME NEW d \in DataType, NEW i \in JointsSet(d)
    PROVE  GetJointCmd(Compress(d), i) = d.cmds[i]
<1> DEFINE S == d.bitmap
           n == Rank(S, i) + 1
           c == CHOOSE j \in JointsSet(d) : Rank(S, j) = n - 1
<1>1. S \in SUBSET Bit /\ JointsSet(d) = S \cap Joint
  BY DEF DataType, JointsSet
<1>2. Rank(S, i) \in 0 .. Cardinality(JointsSet(d)) - 1
  BY <1>1, RankInSlots
<1>3. Cardinality(JointsSet(d)) \in Nat
  BY <1>1, BitmapFinite, FS_CardinalityType
<1>4. n \in 1 .. Cardinality(JointsSet(d)) /\ Rank(S, i) = n - 1
  BY <1>2, <1>3
<1>5. c \in JointsSet(d) /\ Rank(S, c) = n - 1
  BY <1>4
<1>6. c = i
  BY <1>1, <1>4, <1>5, RankInjective
<1>7. Compress(d).slots[n] = d.cmds[c]
  BY <1>4 DEF Compress
<1>8. QED
  BY <1>6, <1>7 DEF GetJointCmd, Compress

-----------------------------------------------------------------------------
(* Type correctness. *)

LEMMA PidType ==
    /\ WirePids \subseteq Nat
    /\ Unclaimed \notin WirePids
    /\ \A c \in Client : WirePid(c) \in WirePids
  BY PidAssumption DEF WirePids, WirePid, Unclaimed

LEMMA WithModeType ==
    ASSUME NEW d \in Data, NEW j \in Joint, NEW m \in Mode
    PROVE  WithMode(d, j, m) \in Data
  BY IntShiftType DEF WithMode, RegisterJoint, Data

LEMMA WithAllReleasedType ==
    ASSUME NEW d \in Data
    PROVE  WithAllReleased(d) \in Data
<1>1. UNION {IntShift(i) : i \in ReleasedByAll(d)} \subseteq Bit
  BY IntShiftType DEF ReleasedByAll
<1>2. \A i \in Joint : d.cmds[i] \in Mode /\ "RELEASE" \in Mode
  BY DEF Data, Mode
<1>3. d.bitmap \subseteq Bit
  BY DEF Data
<1> QED
  BY <1>1, <1>2, <1>3 DEF WithAllReleased, Data

LEMMA UnregisterType ==
    ASSUME NEW d \in Data
    PROVE  UnregisterReleased(d) \in Data
  BY DEF UnregisterReleased, Data, Mode

LEMMA EmptyDataType == EmptyData \in Data
  BY DEF EmptyData, Data, Mode

LEMMA FrameOfType ==
    ASSUME NEW c \in Client, NEW d \in Data
    PROVE  /\ FrameOf(c, d) \in Frame
           /\ FrameOf(c, d).pid = WirePid(c)
           /\ FrameOf(c, d).valid
           /\ JointsSet(FrameOf(c, d)) = JointsSet(d)
<1>1. d \in DataType
  BY DEF Data, DataType
<1>2. /\ Compress(d).bitmap \in SUBSET Bit
      /\ JointsSet(Compress(d)) = JointsSet(d)
      /\ Compress(d).slots \in Slots
  BY <1>1, CompressType DEF Slots
<1>3. QED
  BY <1>2, PidType DEF FrameOf, Frame, JointsSet

LEMMA StrayFrameType ==
    ASSUME NEW c \in Client
    PROVE  StrayFrame(c) \in Frame
<1>1. <<>> \in [1 .. 0 -> Mode]
  OBVIOUS
<1>2. <<>> \in Slots
  BY <1>1, WidthsAssumption DEF Slots
<1>3. QED
  BY <1>2, PidType DEF StrayFrame, Frame

LEMMA PutType ==
    ASSUME NEW ch \in ChannelOf(Frame, Depth), NEW f \in Frame
    PROVE  Put(ch, Depth, f) \in ChannelOf(Frame, Depth)
  BY ChannelAssumption DEF Put, ChannelOf

LEMMA FlushedType == Flushed \in ChannelOf(Frame, Depth)
  BY ChannelAssumption DEF Flushed, ChannelOf

LEMMA AfterGetType ==
    ASSUME NEW ch \in ChannelOf(Frame, Depth), HasFrame(ch)
    PROVE  /\ AfterGet(ch) \in ChannelOf(Frame, Depth)
           /\ Next1(ch) \in Frame
<1>1. ch.unread \in Seq(Frame) /\ Len(ch.unread) <= Depth /\ ch.unread # <<>>
  BY DEF HasFrame, ChannelOf
<1>2. /\ Head(ch.unread) \in Frame
      /\ Tail(ch.unread) \in Seq(Frame)
      /\ Len(Tail(ch.unread)) <= Depth
  BY <1>1, ChannelAssumption
<1>3. QED
  BY <1>2 DEF AfterGet, Next1, ChannelOf

LEMMA AllIdleType == AllIdle \in [Joint -> JointOut]
  BY DEF AllIdle, Idle, JointOut, OutputMode

(* A put adds its frame, or replaces the oldest frame by it. *)
LEMMA PutFrames ==
    ASSUME NEW ch \in ChannelOf(Frame, Depth), NEW f \in Frame
    PROVE  FramesIn(Put(ch, Depth, f)) \subseteq FramesIn(ch) \cup {f}
<1>1. ch.unread \in Seq(Frame)
  BY DEF ChannelOf
<1>2. CASE Len(ch.unread) < Depth
  <2>1. Put(ch, Depth, f).unread = Append(ch.unread, f)
    BY <1>2, <1>1 DEF Put, ChannelOf
  <2>2. QED
    BY <1>1, <2>1 DEF FramesIn
<1>3. CASE ~(Len(ch.unread) < Depth)
  <2>1. Put(ch, Depth, f).unread = Append(Tail(ch.unread), f)
    BY <1>3 DEF Put
  <2>2. Tail(ch.unread) \in Seq(Frame) /\ Len(Tail(ch.unread)) = Len(ch.unread) - 1
    BY <1>1, <1>3, ChannelAssumption
  <2>3. ASSUME NEW i \in DOMAIN Append(Tail(ch.unread), f)
        PROVE  Append(Tail(ch.unread), f)[i] \in FramesIn(ch) \cup {f}
    <3>1. CASE i = Len(ch.unread)
      BY <1>1, <2>2, <3>1
    <3>2. CASE i # Len(ch.unread)
      <4>1. i \in 1 .. Len(ch.unread) - 1
        BY <1>1, <2>2, <3>2
      <4>2. Append(Tail(ch.unread), f)[i] = ch.unread[i + 1]
        BY <1>1, <2>2, <4>1
      <4>3. i + 1 \in DOMAIN ch.unread
        BY <1>1, <4>1
      <4>4. QED
        BY <4>2, <4>3 DEF FramesIn
    <3>3. QED
      BY <3>1, <3>2
  <2>4. QED
    BY <2>1, <2>3 DEF FramesIn
<1>4. QED
  BY <1>2, <1>3

LEMMA AfterGetFrames ==
    ASSUME NEW ch \in ChannelOf(Frame, Depth), HasFrame(ch)
    PROVE  /\ FramesIn(AfterGet(ch)) \subseteq FramesIn(ch)
           /\ Next1(ch) \in FramesIn(ch)
<1>1. ch.unread \in Seq(Frame) /\ ch.unread # <<>>
  BY DEF HasFrame, ChannelOf
<1>2. Next1(ch) = ch.unread[1] /\ 1 \in DOMAIN ch.unread
  BY <1>1 DEF Next1
<1>3. ASSUME NEW i \in DOMAIN Tail(ch.unread)
      PROVE  Tail(ch.unread)[i] \in FramesIn(ch)
  <2>1. Tail(ch.unread)[i] = ch.unread[i + 1] /\ i + 1 \in DOMAIN ch.unread
    BY <1>1
  <2>2. QED
    BY <2>1 DEF FramesIn
<1>4. AfterGet(ch).unread = Tail(ch.unread)
  BY DEF AfterGet
<1>5. QED
  BY <1>2, <1>3, <1>4 DEF FramesIn

-----------------------------------------------------------------------------
(* Every accepted message has exactly one slot for each joint it commands: *)
(* the size check of the aggregator never rejects a Commander's message.   *)
Fits(f) == f.valid => f.slots \in [1 .. Cardinality(JointsSet(f)) -> Mode]
FramesFit == \A f \in FramesIn(cmdChan) : Fits(f)

TypeInv == TypeOK /\ FramesFit

LEMMA FrameOfFits ==
    ASSUME NEW c \in Client, NEW d \in Data
    PROVE  Fits(FrameOf(c, d))
<1>1. d \in DataType
  BY DEF Data, DataType
<1>2. QED
  BY <1>1, CompressType DEF Fits, FrameOf, JointsSet

(* Reading a joint a well-sized message commands yields a mode. *)
LEMMA ReadCommand ==
    ASSUME NEW f \in Frame, f.valid, Fits(f), NEW j \in JointsSet(f)
    PROVE  GetJointCmd(f, j) \in Mode
<1>1. f.bitmap \in SUBSET Bit /\ j \in f.bitmap \cap Joint
  BY DEF Frame, JointsSet
<1>2. Rank(f.bitmap, j) \in 0 .. Cardinality(JointsSet(f)) - 1
  BY <1>1, RankInSlots DEF JointsSet
<1>3. Cardinality(JointsSet(f)) \in Nat
  BY <1>1, BitmapFinite, FS_CardinalityType DEF JointsSet
<1>4. Rank(f.bitmap, j) + 1 \in 1 .. Cardinality(JointsSet(f))
  BY <1>2, <1>3
<1>5. QED
  BY <1>4 DEF Fits, GetJointCmd

(* A client's put keeps the channel well formed. *)
LEMMA PutCommandType ==
    ASSUME TypeInv, NEW f \in Frame, Fits(f), PutCommand(f)
    PROVE  /\ (cmdChan \in ChannelOf(Frame, Depth))'
           /\ FramesFit'
           /\ FramesIn(cmdChan)' \subseteq FramesIn(cmdChan) \cup {f}
<1>1. cmdChan \in ChannelOf(Frame, Depth)
  BY DEF TypeInv, TypeOK
<1>2. cmdChan' = Put(cmdChan, Depth, f) \/ cmdChan' = cmdChan
  BY DEF PutCommand
<1>3. (cmdChan \in ChannelOf(Frame, Depth))'
  BY <1>1, <1>2, PutType
<1>4. FramesIn(cmdChan') \subseteq FramesIn(cmdChan) \cup {f}
  BY <1>1, <1>2, PutFrames
<1>5. QED
  BY <1>3, <1>4 DEF TypeInv, FramesFit

(* Taking a frame off the channel keeps the rest well formed. *)
LEMMA TakeFrameType ==
    ASSUME TypeInv, HasFrame(cmdChan), cmdChan' = AfterGet(cmdChan)
    PROVE  /\ (cmdChan \in ChannelOf(Frame, Depth))'
           /\ FramesFit'
           /\ FramesIn(cmdChan)' \subseteq FramesIn(cmdChan)
           /\ Next1(cmdChan) \in Frame
           /\ Fits(Next1(cmdChan))
           /\ Next1(cmdChan) \in FramesIn(cmdChan)
<1>1. cmdChan \in ChannelOf(Frame, Depth)
  BY DEF TypeInv, TypeOK
<1>2. /\ FramesIn(cmdChan') \subseteq FramesIn(cmdChan)
      /\ Next1(cmdChan) \in FramesIn(cmdChan)
      /\ Next1(cmdChan) \in Frame
      /\ cmdChan' \in ChannelOf(Frame, Depth)
  BY <1>1, AfterGetFrames, AfterGetType
<1>3. QED
  BY <1>2 DEF TypeInv, FramesFit

LEMMA CollateType ==
    ASSUME TypeInv, AggCollate
    PROVE  /\ owner' \in [Joint -> WirePids \cup {Unclaimed}]
           /\ output' \in [Joint -> JointOut]
<1> DEFINE f == Next1(cmdChan)
<1>1. f \in Frame /\ Fits(f) /\ f.valid
  BY TakeFrameType DEF AggCollate
<1>2. f.pid \in WirePids
  BY <1>1 DEF Frame
<1>3. \A j \in Collated(f) : AcceptedMode(GetJointCmd(f, j)) \in OutputMode
  BY <1>1, ReadCommand DEF Collated, AcceptedMode, OutputMode, Mode
<1>4. owner' \in [Joint -> WirePids \cup {Unclaimed}]
  BY <1>2 DEF AggCollate, OwnerAfter, TypeInv, TypeOK
<1>5. output' \in [Joint -> JointOut]
  BY <1>2, <1>3 DEF AggCollate, JointOut, TypeInv, TypeOK
<1>6. QED
  BY <1>4, <1>5

LEMMA InitTypeInv == Init => TypeInv
<1> SUFFICES ASSUME Init PROVE TypeInv
  OBVIOUS
<1>1. FramesIn(Flushed) = {} /\ Flushed \in ChannelOf(Frame, Depth)
  BY FlushedType DEF FramesIn, Flushed
<1>2. QED
  BY <1>1, EmptyDataType, AllIdleType DEF Init, TypeInv, TypeOK, FramesFit

LEMMA NextTypeInv == TypeInv /\ [Next]_vars => TypeInv'
<1> SUFFICES ASSUME TypeInv, [Next]_vars PROVE TypeInv'
  OBVIOUS
<1> USE DEF TypeInv, TypeOK
<1>1. ASSUME NEW c \in Client, NEW j \in Joint, NEW m \in Mode, Write(c, j, m)
      PROVE  TypeInv'
  BY <1>1, WithModeType DEF Write, aggVars, FramesFit
<1>2. ASSUME NEW c \in Client, ReleaseJoints(c)
      PROVE  TypeInv'
  BY <1>2, WithAllReleasedType DEF ReleaseJoints, aggVars, FramesFit
<1>3. ASSUME NEW c \in Client, SendCommands(c)
      PROVE  TypeInv'
  <2>1. PutCommand(FrameOf(c, data[c])) /\ data[c] \in Data
    BY <1>3 DEF SendCommands
  <2>2. (cmdChan \in ChannelOf(Frame, Depth))' /\ FramesFit'
    BY <2>1, FrameOfType, FrameOfFits, PutCommandType
  <2>3. QED
    BY <1>3, <2>2, UnregisterType DEF SendCommands, aggVars
<1>4. ASSUME NEW c \in Client, Exit(c)
      PROVE  TypeInv'
  <2>1. /\ PutCommand(FrameOf(c, WithAllReleased(data[c])))
        /\ WithAllReleased(data[c]) \in Data
    BY <1>4, WithAllReleasedType DEF Exit
  <2>2. (cmdChan \in ChannelOf(Frame, Depth))' /\ FramesFit'
    BY <2>1, FrameOfType, FrameOfFits, PutCommandType
  <2>3. QED
    BY <1>4, <2>2, EmptyDataType DEF Exit, aggVars
<1>5. ASSUME NEW c \in Client, SendStray(c)
      PROVE  TypeInv'
  <2>1. PutCommand(StrayFrame(c)) /\ Fits(StrayFrame(c))
    BY <1>5 DEF SendStray, Fits, StrayFrame
  <2>2. (cmdChan \in ChannelOf(Frame, Depth))' /\ FramesFit'
    BY <2>1, StrayFrameType, PutCommandType
  <2>3. QED
    BY <1>5, <2>2 DEF SendStray, aggVars, clientVars
<1>6. ASSUME NEW c \in Client, Crash(c)
      PROVE  TypeInv'
  BY <1>6, EmptyDataType DEF Crash, aggVars, FramesFit
<1>7. CASE AggCollate
  BY <1>7, CollateType, TakeFrameType DEF AggCollate, clientVars
<1>8. CASE AggDiscard
  BY <1>8, TakeFrameType DEF AggDiscard, clientVars, aggVars
<1>9. CASE AggStop
  <2>1. FramesIn(Flushed) = {}
    BY DEF FramesIn, Flushed
  <2>2. QED
    BY <1>9, <2>1, FlushedType, AllIdleType DEF AggStop, clientVars, FramesFit
<1>10. CASE InterfaceUpdate
  BY <1>10 DEF InterfaceUpdate, clientVars, aggVars, FramesFit
<1>11. CASE InterfaceRestart
  BY <1>11, AllIdleType DEF InterfaceRestart, clientVars, FramesFit
<1>12. CASE UNCHANGED vars
  BY <1>12 DEF vars, clientVars, aggVars, FramesFit
<1>13. ASSUME NEW c \in Client, ClientStep(c)
       PROVE  TypeInv'
  <2>1. \A j \in Joint : data[c].cmds[j] \in Mode
    BY DEF Data
  <2>2. "CLAIM" \in Mode /\ "RELEASE" \in Mode
    BY DEF Mode
  <2>3. QED
    BY <1>1, <1>2, <1>3, <1>4, <1>5, <1>6, <1>13, <2>1, <2>2
       DEF ClientStep, SetMode, ClaimJoint, SetReference, ReleaseJoint
<1>14. QED
  BY <1>7, <1>8, <1>9, <1>10, <1>11, <1>12, <1>13 DEF Next, AggregatorStep

(* Every variable keeps its type, and the channel only ever holds messages *)
(* that the aggregator's size check accepts or recognises as malformed.    *)
THEOREM TypeCorrect == Spec => []TypeInv
  BY InitTypeInv, NextTypeInv, PTL DEF Spec

THEOREM TypeOKHolds == Spec => []TypeOK
<1>1. TypeInv => TypeOK
  BY DEF TypeInv
<1>2. QED
  BY <1>1, TypeCorrect, PTL

-----------------------------------------------------------------------------
(* Ownership. *)

LEMMA CollateMatches ==
    ASSUME TypeInv, OutputMatchesOwner, AggCollate
    PROVE  OutputMatchesOwner'
<1> DEFINE f == Next1(cmdChan)
<1>1. f \in Frame /\ f.pid \in WirePids /\ f.pid # Unclaimed
  BY TakeFrameType, PidType DEF AggCollate, Frame
<1>2. ASSUME NEW j \in Joint, output'[j].mode # "IGNORE"
      PROVE  owner'[j] # Unclaimed /\ output'[j].from = owner'[j]
  <2>1. CASE j \in Collated(f)
    <3>1. /\ output'[j] = [mode |-> AcceptedMode(GetJointCmd(f, j)), from |-> f.pid]
          /\ owner'[j] = OwnerAfter(f, j)
      BY <2>1 DEF AggCollate
    <3>2. GetJointCmd(f, j) # "RELEASE"
      BY <1>2, <3>1 DEF AcceptedMode
    <3>3. owner'[j] = f.pid
      BY <3>1, <3>2 DEF OwnerAfter
    <3>4. QED
      BY <1>1, <3>1, <3>3
  <2>2. CASE j \notin Collated(f)
    <3>1. output'[j] = output[j] /\ owner'[j] = owner[j]
      BY <2>2 DEF AggCollate
    <3>2. QED
      BY <1>2, <3>1 DEF OutputMatchesOwner
  <2>3. QED
    BY <2>1, <2>2
<1>3. QED
  BY <1>2 DEF OutputMatchesOwner

(* No step but the aggregator's own touches ownership or the merged output. *)
LEMMA OnlyAggregatorDecides ==
    ASSUME [Next]_vars
    PROVE  AggCollate \/ AggStop \/ UNCHANGED <<owner, output>>
<1>1. ASSUME NEW c \in Client, ClientStep(c)
      PROVE  UNCHANGED <<owner, output>>
  BY <1>1 DEF ClientStep, SetMode, ClaimJoint, SetReference, ReleaseJoint, Write,
              ReleaseJoints, SendCommands, Exit, SendStray, Crash, aggVars
<1>2. QED
  BY <1>1 DEF Next, AggregatorStep, AggDiscard, InterfaceUpdate, InterfaceRestart,
              vars, aggVars

(* A joint is driven only by its owner's command, in every behaviour. *)
THEOREM OutputMatchesOwnerHolds == Spec => []OutputMatchesOwner
<1>1. Init => OutputMatchesOwner
  BY DEF Init, OutputMatchesOwner, AllIdle, Idle
<1>2. TypeInv /\ OutputMatchesOwner /\ [Next]_vars => OutputMatchesOwner'
  <2> SUFFICES ASSUME TypeInv, OutputMatchesOwner, [Next]_vars
               PROVE  OutputMatchesOwner'
    OBVIOUS
  <2>1. CASE AggCollate
    BY <2>1, CollateMatches
  <2>2. CASE AggStop
    BY <2>2 DEF AggStop, OutputMatchesOwner, AllIdle, Idle
  <2>3. CASE UNCHANGED <<owner, output>>
    BY <2>3 DEF OutputMatchesOwner
  <2>4. QED
    BY <2>1, <2>2, <2>3, OnlyAggregatorDecides
<1>3. QED
  BY <1>1, <1>2, TypeCorrect, PTL DEF Spec

-----------------------------------------------------------------------------
(* The aggregator implements the abstract ownership protocol. *)

LEMMA InitOwnership == Init => Ownership!Init
  BY DEF Init, Ownership!Init, Ownership!AllFree, Ownership!Idle, AllIdle, Idle

(* One accepted message is one process acting on the joints it names. *)
LEMMA CollateIsAct ==
    ASSUME TypeInv, AggCollate
    PROVE  Ownership!Next
<1> DEFINE f == Next1(cmdChan)
<1>1. /\ f \in Frame /\ f.valid /\ Fits(f)
      /\ f.pid \in WirePids /\ f.pid # Unclaimed
  BY TakeFrameType, PidType DEF AggCollate, Frame
<1>2. ASSUME NEW j \in Joint
      PROVE  Ownership!Allowed(f.pid, j, owner'[j], output'[j])
  <2>1. CASE j \notin Collated(f)
    BY <2>1 DEF AggCollate, Ownership!Allowed, Ownership!Untouched
  <2>2. CASE j \in Collated(f)
    <3> DEFINE m == GetJointCmd(f, j)
    <3>1. /\ output'[j] = [mode |-> AcceptedMode(m), from |-> f.pid]
          /\ owner'[j] = OwnerAfter(f, j)
          /\ Accepts(f, j)
      BY <2>2 DEF AggCollate, Collated
    <3>2. AcceptedMode(m) \in {"IGNORE", "RIGID"}
      BY <1>1, <2>2, ReadCommand DEF Collated, AcceptedMode, Mode
    <3>3. CASE owner[j] = Unclaimed
      <4>1. owner'[j] = f.pid
        BY <1>1, <3>1, <3>3 DEF OwnerAfter
      <4>2. QED
        BY <3>1, <3>2, <3>3, <4>1
           DEF Ownership!Allowed, Ownership!Take, Ownership!Commands
    <3>4. CASE owner[j] = f.pid /\ m = "RELEASE"
      BY <3>1, <3>4
         DEF OwnerAfter, AcceptedMode, Ownership!Allowed, Ownership!GiveUp, Ownership!Idle
    <3>5. CASE owner[j] = f.pid /\ m # "RELEASE"
      BY <3>1, <3>2, <3>5
         DEF OwnerAfter, Ownership!Allowed, Ownership!Command, Ownership!Commands
    <3>6. CASE owner[j] \notin {Unclaimed, f.pid}
      <4>1. m = "CLAIM"
        BY <3>1, <3>6 DEF Accepts
      <4>2. QED
        BY <3>1, <3>6, <4>1
           DEF OwnerAfter, AcceptedMode, Ownership!Allowed, Ownership!Preempt, Ownership!Idle
    <3>7. QED
      BY <3>3, <3>4, <3>5, <3>6
  <2>3. QED
    BY <2>1, <2>2
<1>3. /\ owner' = [j \in Joint |-> owner'[j]]
      /\ output' = [j \in Joint |-> output'[j]]
  BY DEF AggCollate
<1>4. Ownership!Act(f.pid)
  BY <1>2, <1>3 DEF Ownership!Act
<1>5. QED
  BY <1>1, <1>4 DEF Ownership!Next

(* HuboCmd implements JointOwnership: a message is one process acting, a    *)
(* restart frees every joint, and everything else is a stuttering step.     *)
THEOREM RefinesOwnership == Spec => ImplementsOwnership
<1>1. TypeInv /\ [Next]_vars => [Ownership!Next]_(Ownership!vars)
  <2> SUFFICES ASSUME TypeInv, [Next]_vars
               PROVE  [Ownership!Next]_(Ownership!vars)
    OBVIOUS
  <2>1. CASE AggCollate
    BY <2>1, CollateIsAct
  <2>2. CASE AggStop
    BY <2>2 DEF AggStop, Ownership!Next, Ownership!AllFree, Ownership!Idle, AllIdle, Idle
  <2>3. CASE UNCHANGED <<owner, output>>
    BY <2>3 DEF Ownership!vars
  <2>4. QED
    BY <2>1, <2>2, <2>3, OnlyAggregatorDecides
<1>2. QED
  BY <1>1, InitOwnership, TypeCorrect, PTL
     DEF Spec, ImplementsOwnership, Ownership!Spec

-----------------------------------------------------------------------------
(* Bitmaps: what a process owns is what it named, if the bits of that are   *)
(* its own.                                                                 *)
Registered == \A c \in Client : JointsSet(data[c]) \subseteq MayOwn(c)

NamedBySender(f) ==
    \E c \in Client : f.pid = WirePid(c) /\ JointsSet(f) \subseteq MayOwn(c)

NamedInv ==
    /\ TypeInv
    /\ Registered
    /\ \A f \in FramesIn(cmdChan) : NamedBySender(f)
    /\ OwnsOnlyWhatItCommanded

(* Releasing sets no bits a message may not have.                           *)
LEMMA ReleaseKeepsBits ==
    ASSUME NEW d \in Data, NEW c \in Client, commanded[c] \subseteq Joint,
           JointsSet(d) \subseteq MayOwn(c)
    PROVE  /\ JointsSet(WithAllReleased(d)) \subseteq MayOwn(c)
           /\ JointsSet(UnregisterReleased(d)) \subseteq MayOwn(c)
<1>1. JointsSet(UnregisterReleased(d)) \subseteq JointsSet(d)
  BY DEF UnregisterReleased, JointsSet
<1>2. CASE \A k \in commanded[c] : Unaliased(k)
  <2>1. \A i \in JointsSet(d) : IntShift(i) \cap Joint = {i}
    BY <1>2, IntShiftExact DEF MayOwn
  <2>2. ReleasedByAll(d) \subseteq JointsSet(d)
    BY <2>1 DEF ReleasedByAll, JointsSet
  <2>3. JointsSet(WithAllReleased(d)) \subseteq JointsSet(d)
    BY <2>1, <2>2 DEF WithAllReleased, JointsSet
  <2>. QED  BY <1>1, <2>3
<1>3. CASE ~(\A k \in commanded[c] : Unaliased(k))
  BY <1>3 DEF MayOwn, JointsSet
<1>4. QED  BY <1>2, <1>3

(* Naming a joint more is never a reason to own less.                       *)
LEMMA MayOwnGrows ==
    ASSUME NEW c \in Client, commanded[c] \subseteq commanded'[c],
           commanded'[c] \subseteq Joint
    PROVE  MayOwn(c) \subseteq MayOwn(c)'
BY DEF MayOwn

(* A client step other than a write keeps the names and adds at most one   *)
(* message, which commands only joints the client named.                   *)
LEMMA PutKeepsNames ==
    ASSUME NamedInv, NEW c \in Client, NEW f \in Frame, Fits(f), PutCommand(f),
           f.pid = WirePid(c), JointsSet(f) \subseteq MayOwn(c),
           UNCHANGED <<commanded, owner>>,
           Registered'
    PROVE  (\A g \in FramesIn(cmdChan) : NamedBySender(g))' /\ OwnsOnlyWhatItCommanded'
<1>1. FramesIn(cmdChan)' \subseteq FramesIn(cmdChan) \cup {f}
  BY PutCommandType DEF NamedInv
<1>2. NamedBySender(f)'
  BY DEF NamedBySender, MayOwn
<1>3. \A g \in FramesIn(cmdChan) : NamedBySender(g)'
  BY DEF NamedInv, NamedBySender, MayOwn
<1>4. OwnsOnlyWhatItCommanded'
  BY DEF NamedInv, OwnsOnlyWhatItCommanded, MayOwn
<1>5. QED
  BY <1>1, <1>2, <1>3, <1>4

LEMMA NextNamedInv ==
    ASSUME NamedInv, [Next]_vars
    PROVE  NamedInv'
<1>1. TypeInv /\ TypeInv' /\ Registered /\ OwnsOnlyWhatItCommanded
  BY NextTypeInv DEF NamedInv
<1>2. data \in [Client -> Data] /\ commanded \in [Client -> SUBSET Joint]
  BY <1>1 DEF TypeInv, TypeOK
<1>3. ASSUME NEW c \in Client, NEW j \in Joint, NEW m \in Mode, Write(c, j, m)
      PROVE  NamedInv'
  <2>1. /\ JointsSet(WithMode(data[c], j, m)) \subseteq JointsSet(data[c]) \cup (IntShift(j) \cap Joint)
        /\ Unaliased(j) => IntShift(j) \cap Joint = {j}
    BY <1>2, IntShiftExact DEF WithMode, RegisterJoint, JointsSet, Data
  <2>7. \A b \in Client : commanded[b] \subseteq commanded'[b] /\ commanded'[b] \subseteq Joint
    BY <1>2, <1>3 DEF Write
  <2>2. \A b \in Client : MayOwn(b) \subseteq MayOwn(b)'
    BY <2>7, MayOwnGrows
  <2>8. j \in commanded'[c] /\ data'[c] = WithMode(data[c], j, m)
    BY <1>2, <1>3 DEF Write
  <2>9. JointsSet(data'[c]) \subseteq MayOwn(c)'
    <3>1. CASE Unaliased(j)
      BY <1>1, <2>1, <2>2, <2>7, <2>8, <3>1 DEF Registered, MayOwn
    <3>2. CASE ~Unaliased(j)
      BY <2>8, <3>2 DEF MayOwn, JointsSet
    <3>. QED  BY <3>1, <3>2
  <2>10. \A b \in Client \ {c} : data'[b] = data[b]
    BY <1>2, <1>3 DEF Write
  <2>3. Registered'
    BY <1>1, <2>2, <2>9, <2>10 DEF Registered, JointsSet
  <2>4. (\A g \in FramesIn(cmdChan) : NamedBySender(g))'
    BY <1>3, <2>2 DEF Write, NamedInv, NamedBySender
  <2>5. OwnsOnlyWhatItCommanded'
    BY <1>1, <1>3, <2>2 DEF Write, OwnsOnlyWhatItCommanded, aggVars
  <2>6. QED
    BY <1>1, <2>3, <2>4, <2>5 DEF NamedInv
<1>4. ASSUME NEW c \in Client, ReleaseJoints(c)
      PROVE  NamedInv'
  <2>1. Registered'
    BY <1>1, <1>2, <1>4, ReleaseKeepsBits DEF ReleaseJoints, Registered, MayOwn
  <2>2. QED
    BY <1>1, <1>4, <2>1
       DEF ReleaseJoints, NamedInv, NamedBySender, OwnsOnlyWhatItCommanded, MayOwn, aggVars
<1>5. ASSUME NEW c \in Client, SendCommands(c)
      PROVE  NamedInv'
  <2>1. Registered'
    BY <1>1, <1>2, <1>5, ReleaseKeepsBits DEF SendCommands, Registered, MayOwn
  <2> DEFINE f == FrameOf(c, data[c])
  <2>2. f \in Frame /\ Fits(f) /\ f.pid = WirePid(c) /\ JointsSet(f) \subseteq MayOwn(c)
    BY <1>1, <1>2, FrameOfType, FrameOfFits DEF Registered
  <2>3. PutCommand(f) /\ UNCHANGED <<commanded, owner>>
    BY <1>5 DEF SendCommands, aggVars
  <2>4. (\A g \in FramesIn(cmdChan) : NamedBySender(g))' /\ OwnsOnlyWhatItCommanded'
    BY <2>1, <2>2, <2>3, PutKeepsNames
  <2>5. QED
    BY <1>1, <2>1, <2>4 DEF NamedInv
<1>6. ASSUME NEW c \in Client, Exit(c)
      PROVE  NamedInv'
  <2>1. JointsSet(EmptyData) = {}
    BY DEF JointsSet, EmptyData
  <2>2. Registered'
    BY <1>1, <1>2, <1>6, <2>1 DEF Exit, Registered, MayOwn
  <2> DEFINE f == FrameOf(c, WithAllReleased(data[c]))
  <2>3. f \in Frame /\ Fits(f) /\ f.pid = WirePid(c)
    BY <1>2, WithAllReleasedType, FrameOfType, FrameOfFits
  <2>4. JointsSet(f) \subseteq MayOwn(c)
    BY <1>1, <1>2, WithAllReleasedType, FrameOfType, ReleaseKeepsBits DEF Registered
  <2>5. PutCommand(f) /\ UNCHANGED <<commanded, owner>>
    BY <1>6 DEF Exit, aggVars
  <2>6. (\A g \in FramesIn(cmdChan) : NamedBySender(g))' /\ OwnsOnlyWhatItCommanded'
    BY <2>2, <2>3, <2>4, <2>5, PutKeepsNames
  <2>7. QED
    BY <1>1, <2>2, <2>6 DEF NamedInv
<1>7. ASSUME NEW c \in Client, SendStray(c)
      PROVE  NamedInv'
  <2> DEFINE f == StrayFrame(c)
  <2>1. f \in Frame /\ Fits(f) /\ f.pid = WirePid(c) /\ JointsSet(f) \subseteq MayOwn(c)
    BY StrayFrameType DEF StrayFrame, Fits, JointsSet
  <2>2. PutCommand(f) /\ UNCHANGED <<commanded, owner, data>>
    BY <1>7 DEF SendStray, aggVars, clientVars
  <2>3. Registered'
    BY <1>1, <2>2 DEF Registered, MayOwn
  <2>4. (\A g \in FramesIn(cmdChan) : NamedBySender(g))' /\ OwnsOnlyWhatItCommanded'
    BY <2>1, <2>2, <2>3, PutKeepsNames
  <2>5. QED
    BY <1>1, <2>3, <2>4 DEF NamedInv
<1>8. ASSUME NEW c \in Client, Crash(c)
      PROVE  NamedInv'
  <2>1. JointsSet(EmptyData) = {}
    BY DEF JointsSet, EmptyData
  <2>2. Registered'
    BY <1>1, <1>2, <1>8, <2>1 DEF Crash, Registered, MayOwn
  <2>3. QED
    BY <1>1, <1>8, <2>2
       DEF Crash, NamedInv, NamedBySender, OwnsOnlyWhatItCommanded, MayOwn, aggVars
<1>9. CASE AggCollate
  <2> DEFINE f == Next1(cmdChan)
  <2>1. /\ FramesIn(cmdChan)' \subseteq FramesIn(cmdChan)
        /\ f \in FramesIn(cmdChan)
    BY <1>1, <1>9, TakeFrameType DEF AggCollate
  <2>2. PICK c \in Client : f.pid = WirePid(c) /\ JointsSet(f) \subseteq MayOwn(c)
    BY <2>1 DEF NamedInv, NamedBySender
  <2>3. ASSUME NEW j \in Joint, owner'[j] # Unclaimed
        PROVE  \E b \in Client : WirePid(b) = owner'[j] /\ j \in MayOwn(b)
    <3>1. CASE j \in Collated(f)
      <4>1. owner'[j] = f.pid
        BY <1>9, <2>3, <3>1 DEF AggCollate, OwnerAfter
      <4>2. j \in MayOwn(c)
        BY <2>2, <3>1 DEF Collated
      <4>3. QED
        BY <2>2, <4>1, <4>2
    <3>2. CASE j \notin Collated(f)
      BY <1>1, <1>9, <2>3, <3>2 DEF AggCollate, OwnsOnlyWhatItCommanded
    <3>3. QED
      BY <3>1, <3>2
  <2>4. UNCHANGED <<data, commanded>>
    BY <1>9 DEF AggCollate, clientVars
  <2>5. OwnsOnlyWhatItCommanded'
    BY <2>3, <2>4 DEF OwnsOnlyWhatItCommanded, MayOwn
  <2>6. QED
    BY <1>1, <2>1, <2>4, <2>5 DEF NamedInv, NamedBySender, Registered, MayOwn
<1>10. CASE AggDiscard
  <2>1. FramesIn(cmdChan)' \subseteq FramesIn(cmdChan)
    BY <1>1, <1>10, TakeFrameType DEF AggDiscard
  <2>2. QED
    BY <1>1, <1>10, <2>1
       DEF AggDiscard, NamedInv, NamedBySender, Registered, OwnsOnlyWhatItCommanded, MayOwn,
           clientVars, aggVars
<1>11. CASE AggStop
  <2>1. FramesIn(Flushed) = {}
    BY DEF FramesIn, Flushed
  <2>2. QED
    BY <1>1, <1>11, <2>1
       DEF AggStop, NamedInv, Registered, OwnsOnlyWhatItCommanded, MayOwn, clientVars
<1>12. CASE InterfaceUpdate \/ InterfaceRestart \/ UNCHANGED vars
  BY <1>1, <1>12
     DEF InterfaceUpdate, InterfaceRestart, NamedInv, NamedBySender, Registered,
         OwnsOnlyWhatItCommanded, MayOwn, clientVars, aggVars, vars
<1>13. ASSUME NEW c \in Client, ClientStep(c)
       PROVE  NamedInv'
  <2>1. \A j \in Joint : data[c].cmds[j] \in Mode
    BY <1>2 DEF Data
  <2>2. "CLAIM" \in Mode /\ "RELEASE" \in Mode
    BY DEF Mode
  <2>3. QED
    BY <1>3, <1>4, <1>5, <1>6, <1>7, <1>8, <1>13, <2>1, <2>2
       DEF ClientStep, SetMode, ClaimJoint, SetReference, ReleaseJoint
<1>14. QED
  BY <1>9, <1>10, <1>11, <1>12, <1>13 DEF Next, AggregatorStep

(* A process owns only joints it named in a call, for any number of joints  *)
(* and any widths, as long as the bits of those it named are theirs alone:  *)
(* with the 38 joints of the Hubo2Plus, those below joint 31.               *)
THEOREM OwnsOnlyHolds == Spec => []OwnsOnlyWhatItCommanded
<1>1. Init => NamedInv
  <2>1. FramesIn(Flushed) = {} /\ JointsSet(EmptyData) = {}
    BY DEF FramesIn, Flushed, JointsSet, EmptyData
  <2>2. QED
    BY <2>1, InitTypeInv DEF Init, NamedInv, Registered, OwnsOnlyWhatItCommanded
<1>2. NamedInv /\ [Next]_vars => NamedInv'
  BY NextNamedInv
<1>3. NamedInv => OwnsOnlyWhatItCommanded
  BY DEF NamedInv
<1>4. QED
  BY <1>1, <1>2, <1>3, PTL DEF Spec

-----------------------------------------------------------------------------
LEMMA PutIsNewest ==
    ASSUME NEW ch \in ChannelOf(Frame, Depth), NEW f \in Frame
    PROVE  Newest(Put(ch, Depth, f)) = f
<1>1. ch.unread \in Seq(Frame)
  BY DEF ChannelOf
<1>2. PICK s \in Seq(Frame) : Put(ch, Depth, f).unread = Append(s, f)
  <2>1. CASE Len(ch.unread) < Depth
    BY <1>1, <2>1 DEF Put, ChannelOf
  <2>2. CASE ~(Len(ch.unread) < Depth)
    <3>1. Tail(ch.unread) \in Seq(Frame)
      BY <1>1, <2>2, ChannelAssumption
    <3>2. QED
      BY <2>2, <3>1 DEF Put
  <2>3. QED
    BY <2>1, <2>2
<1>3. Append(s, f)[Len(Append(s, f))] = f
  OBVIOUS
<1>4. QED
  BY <1>2, <1>3 DEF Newest

(* What a Commander sends says of each joint what was written for it, for   *)
(* every robot size and every set of registered joints.                     *)
THEOREM FramesCarryHolds == Spec => FramesCarryWhatWasWritten
<1> DEFINE A == \A c \in Client : SendCommands(c) /\ aggUp =>
                  \A j \in JointsSet(data[c]) :
                     GetJointCmd(Newest(cmdChan'), j) = data[c].cmds[j]
<1>1. TypeInv /\ [Next]_vars => [A]_vars
  <2> SUFFICES ASSUME TypeInv, NEW c \in Client, SendCommands(c), aggUp,
                      NEW j \in JointsSet(data[c])
               PROVE  GetJointCmd(Newest(cmdChan'), j) = data[c].cmds[j]
    OBVIOUS
  <2> DEFINE d == data[c]
             f == FrameOf(c, d)
  <2>1. d \in Data /\ d \in DataType /\ cmdChan \in ChannelOf(Frame, Depth)
    BY DEF TypeInv, TypeOK, Data, DataType
  <2>2. f \in Frame
    BY <2>1, FrameOfType
  <2>3. cmdChan' = Put(cmdChan, Depth, f)
    BY DEF SendCommands, PutCommand
  <2>4. Newest(cmdChan') = f
    BY <2>1, <2>2, <2>3, PutIsNewest
  <2>5. GetJointCmd(f, j) = GetJointCmd(Compress(d), j)
    BY DEF FrameOf, GetJointCmd
  <2>6. QED
    BY <2>1, <2>4, <2>5, CompressRoundTrip
<1>2. QED
  BY <1>1, TypeCorrect, PTL DEF Spec, FramesCarryWhatWasWritten
=============================================================================
