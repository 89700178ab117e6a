-------------------------- MODULE InterfaceProofs --------------------------
(***************************************************************************)
(* Proofs about the hardware interface.                                    *)
(*                                                                         *)
(* Its cycle (CanCycle): types, the accounts of replies and of dropped     *)
(* readings, that a cycle sends all it has, that the references in the     *)
(* state are those that were sent, and the order of auxiliary commands.    *)
(*                                                                         *)
(* Its description and what auxiliary commands do with it (AuxCommands):   *)
(* types, that what is accepted is a robot, and that commands reach what   *)
(* they name.                                                              *)
(***************************************************************************)
EXTENDS CanCycle, AuxCommands, SequenceTheorems, FiniteSetTheorems, TLAPS

(* RemoveAt, the erasure of one element, keeps the type and shortens by one. *)
LEMMA RemoveAtType ==
    ASSUME NEW S, NEW s \in Seq(S), NEW i \in 1 .. Len(s)
    PROVE  /\ RemoveAt(s, i) \in Seq(S)
           /\ Len(RemoveAt(s, i)) = Len(s) - 1
<1>1. SubSeq(s, 1, i - 1) \in Seq(S) /\ Len(SubSeq(s, 1, i - 1)) = i - 1
  OBVIOUS
<1>2. /\ SubSeq(s, i + 1, Len(s)) \in Seq(S)
      /\ Len(SubSeq(s, i + 1, Len(s))) = Len(s) - i
  OBVIOUS
<1>3. \A a, b \in Seq(S) : a \o b \in Seq(S) /\ Len(a \o b) = Len(a) + Len(b)
  BY ConcatProperties
<1>4. Len(s) \in Nat /\ i \in Nat /\ i - 1 + (Len(s) - i) = Len(s) - 1
  OBVIOUS
<1>. QED  BY <1>1, <1>2, <1>3, <1>4 DEF RemoveAt

(* What the types need of the control: a board that processes auxiliary     *)
(* commands has one, and boards are updated while there is time.            *)
AuxPending == phase = "aux" => turn \in Board /\ aux[turn] # <<>>
TimeLeft   == phase \in {"update", "aux"} => left >= 0

TypeInv == TypeOK /\ AuxPending /\ TimeLeft

LEMMA FramesType == ASSUME TypeOK PROVE \A c \in Channel : Frames(c) \in Nat
  BY DEF TypeOK, Frames

LEMMA InitType == Init => TypeInv
<1>. SUFFICES ASSUME Init PROVE TypeInv
  OBVIOUS
<1>1. turn \in 1 .. NBoards + 1
  BY BoardsAssumption DEF Init
<1>2. /\ request \in [Channel -> Seq(Board)] /\ command \in [Channel -> Seq(Frame)]
      /\ aux \in [Board -> Seq(AuxCommand)] /\ awaited \in [Channel -> Seq(Board)]
  BY DEF Init
<1>3. joint \in [Board -> Counters]
  BY DEF Init, Counters
<1>4. /\ expect \in [Channel -> Int] /\ lost \in [Channel -> Int]
      /\ missing \in [Channel -> Int] /\ lastAux \in [Board -> 0 .. MaxAux]
  BY CycleBoundsAssumption DEF Init
<1>5. /\ agg \in [Board -> Reference \cup {Nothing}]
      /\ reported \in [Board -> Reference \cup {Nothing}]
      /\ sent \in [Board -> Reference \cup {Nothing}]
  BY DEF Init
<1>6. /\ left \in Int /\ dt \in Nat /\ start \in StartKind
      /\ cycles \in Nat /\ auxCount \in 0 .. MaxAux
  BY CycleBoundsAssumption DEF Init, StartKind
<1>7. carried \in BOOLEAN
  BY Zenon DEF Init
<1>8. TypeOK
  BY <1>1, <1>2, <1>3, <1>4, <1>5, <1>6, <1>7 DEF Init, TypeOK
<1>. QED  BY <1>8 DEF Init, TypeInv, AuxPending, TimeLeft

LEMMA MainLoopType == TypeInv /\ MainLoop => TypeInv'
<1>. SUFFICES ASSUME TypeInv, MainLoop PROVE TypeInv'
  OBVIOUS
<1>. USE DEF TypeInv, AuxPending, TimeLeft
<1>1. ASSUME NEW to \in AuxTarget, NEW supported \in BOOLEAN, TakeAux(to, supported)
      PROVE  TypeInv'
  <2>1. [id |-> auxCount + 1, supported |-> supported] \in AuxCommand
    BY <1>1, CycleBoundsAssumption DEF TakeAux, TypeOK, AuxCommand, AuxId
  <2>2. aux' \in [Board -> Seq(AuxCommand)]
    BY <1>1, <2>1 DEF TakeAux, TypeOK
  <2>3. auxCount' \in 0 .. MaxAux
    BY <1>1, CycleBoundsAssumption DEF TakeAux, TypeOK
  <2>4. TypeOK'
    BY <1>1, <2>2, <2>3 DEF TakeAux, TypeOK, timeVars, queueVars, boardVars, Counters
  <2>. QED  BY <1>1, <2>4 DEF TakeAux, timeVars
<1>2. ASSUME NEW refs \in [Driven -> Reference \cup {Nothing}], FetchCommands(refs)
      PROVE  TypeInv'
  <2>1. agg' \in [Board -> Reference \cup {Nothing}]
    BY <1>2, BoardsAssumption DEF FetchCommands
  <2>2. TypeOK'
    BY <1>2, <2>1 DEF FetchCommands, TypeOK, timeVars, queueVars, boardVars, historyVars
  <2>. QED  BY <1>2, <2>2 DEF FetchCommands
<1>3. CASE Quit
  <2>1. TypeOK'
    BY <1>3 DEF Quit, TypeOK, timeVars, queueVars, inputVars, boardVars, historyVars
  <2>. QED  BY <1>3, <2>1 DEF Quit
<1>. QED  BY <1>1, <1>2, <1>3 DEF MainLoop

LEMMA AwaitReadingType ==
    ASSUME NEW counters \in Counters
    PROVE  AwaitReading(counters) \in Counters
<1>1. counters.dropped \in Nat /\ counters.expected \in Nat /\ counters.received \in Nat
  BY DEF Counters
<1>2. [counters EXCEPT !.updated = FALSE] \in Counters
  BY DEF Counters
<1>3. \A r \in Counters : [r EXCEPT !.expected = @ + 1] \in Counters
  BY DEF Counters
<1>4. AwaitReading(counters) = [[counters EXCEPT !.updated = FALSE] EXCEPT !.expected = @ + 1]
  BY DEF AwaitReading, Counters
<1>. QED  BY <1>2, <1>3, <1>4

LEMMA ReadingArrivedType ==
    ASSUME NEW counters \in Counters
    PROVE  ReadingArrived(counters) \in Counters
<1>1. [counters EXCEPT !.updated = TRUE] \in Counters
  BY DEF Counters
<1>2. \A r \in Counters : [r EXCEPT !.received = @ + 1] \in Counters
  BY DEF Counters
<1>3. ReadingArrived(counters) = [[counters EXCEPT !.updated = TRUE] EXCEPT !.received = @ + 1]
  BY DEF ReadingArrived, Counters
<1>. QED  BY <1>1, <1>2, <1>3

LEMMA UpdateType ==
    TypeInv /\ (\E b \in Board : UpdateBoard(b) \/ BeginAux(b) \/ ProcessAux(b)) => TypeInv'
<1>. SUFFICES ASSUME TypeInv, NEW b \in Board,
                     UpdateBoard(b) \/ BeginAux(b) \/ ProcessAux(b)
              PROVE  TypeInv'
  OBVIOUS
<1>. USE DEF TypeInv
<1>1. CanChannel[b] \in Channel /\ b + 1 \in 1 .. NBoards + 1 /\ joint[b] \in Counters
  BY BoardsAssumption DEF TypeOK, Board
<1>2. CycleReset(joint[b]) \in Counters
  BY <1>1 DEF CycleReset, Counters
<1>3. AwaitReading(CycleReset(joint[b])) \in Counters
  BY <1>2, AwaitReadingType
<1>4. CASE UpdateBoard(b)
  <2>1. joint' \in [Board -> Counters]
    BY <1>3, <1>4 DEF UpdateBoard, TypeOK
  <2>2. request' \in [Channel -> Seq(Board)]
    BY <1>1, <1>4 DEF UpdateBoard, TypeOK
  <2>3. expect' \in [Channel -> Int]
    BY <1>1, <1>4 DEF UpdateBoard, TypeOK
  <2>4. /\ command' \in [Channel -> Seq(Frame)]
        /\ reported' \in [Board -> Reference \cup {Nothing}]
    <3>1. CASE agg[b] = Nothing
      BY <1>4, <3>1 DEF UpdateBoard, TypeOK
    <3>2. CASE agg[b] # Nothing
      <4>1. agg[b] \in Reference
        BY <3>2 DEF TypeOK
      <4>2. [to |-> b, kind |-> "reference", value |-> agg[b]] \in Frame
        BY <4>1 DEF Frame
      <4>3. /\ command' = Queued(b, "reference", agg[b])
            /\ reported' = [reported EXCEPT ![b] = agg[b]]
        BY <1>4, <3>2 DEF UpdateBoard
      <4>4. command' \in [Channel -> Seq(Frame)]
        BY <1>1, <4>2, <4>3 DEF Queued, TypeOK
      <4>. QED  BY <4>1, <4>3, <4>4 DEF TypeOK
    <3>. QED  BY <3>1, <3>2
  <2>5. turn' \in 1 .. NBoards + 1
    BY <1>1, <1>4 DEF UpdateBoard
  <2>6. TypeOK'
    BY <1>4, <2>1, <2>2, <2>3, <2>4, <2>5
    DEF UpdateBoard, TypeOK, timeVars, inputVars, boardVars, historyVars
  <2>. QED  BY <1>4, <2>6 DEF UpdateBoard, timeVars, AuxPending, TimeLeft
<1>5. CASE BeginAux(b)
  <2>1. joint' \in [Board -> Counters]
    BY <1>2, <1>5 DEF BeginAux, TypeOK
  <2>2. TypeOK'
    BY <1>5, <2>1
    DEF BeginAux, TypeOK, timeVars, queueVars, inputVars, boardVars, historyVars
  <2>. QED  BY <1>5, <2>2 DEF BeginAux, timeVars, inputVars, AuxPending, TimeLeft
<1>6. CASE ProcessAux(b)
  <2>. DEFINE i == NextAux(aux[b])
              cmd == aux[b][i]
              rest == RemoveAt(aux[b], i)
  <2>1. aux[b] \in Seq(AuxCommand) /\ aux[b] # <<>>
    BY <1>6 DEF ProcessAux, AuxPending, TypeOK
  <2>2. i \in 1 .. Len(aux[b])
    BY <2>1 DEF NextAux
  <2>3. cmd \in AuxCommand
    BY <2>1, <2>2
  <2>4. rest \in Seq(AuxCommand)
    BY <2>1, <2>2, RemoveAtType
  <2>5. /\ aux' = [aux EXCEPT ![b] = rest]
        /\ command' = IF cmd.supported THEN Queued(b, "aux", cmd.id) ELSE command
        /\ phase' = IF rest = <<>> THEN "update" ELSE "aux"
        /\ turn' = IF rest = <<>> THEN turn + 1 ELSE turn
    BY <1>6 DEF ProcessAux
  <2>6. [to |-> b, kind |-> "aux", value |-> cmd.id] \in Frame
    BY <2>3 DEF Frame, AuxCommand
  <2>. HIDE DEF i, cmd, rest
  <2>7. command' \in [Channel -> Seq(Frame)]
    BY <1>1, <2>5, <2>6 DEF Queued, TypeOK
  <2>8. aux' \in [Board -> Seq(AuxCommand)]
    BY <2>4, <2>5 DEF TypeOK
  <2>9. turn = b
    BY <1>6 DEF ProcessAux
  <2>10. turn' \in 1 .. NBoards + 1 /\ phase' \in {"update", "aux"}
    BY <1>1, <2>5, <2>9 DEF TypeOK
  <2>11. TypeOK'
    BY <1>6, <2>7, <2>8, <2>10 DEF ProcessAux, TypeOK, timeVars, boardVars, historyVars
  <2>12. AuxPending'
    BY <2>5, <2>9 DEF AuxPending, TypeOK
  <2>13. TimeLeft'
    BY <1>6 DEF ProcessAux, timeVars, TimeLeft
  <2>. QED  BY <2>11, <2>12, <2>13
<1>. QED  BY <1>4, <1>5, <1>6

LEMMA DivisionRoundsDown ==
    ASSUME NEW a \in Nat, NEW n \in Nat \ {0}
    PROVE  a \div n \in Nat /\ n * (a \div n) <= a
<1>1. a \div n \in Nat
  OBVIOUS
<1>2. n * (a \div n) + (a % n) = a
  OBVIOUS
<1>3. a % n \in Nat
  OBVIOUS
<1>. QED  BY <1>1, <1>2, <1>3

(* The greatest number of frames is positive unless all queues are empty.   *)
LEMMA FrameDtType ==
    ASSUME TypeInv, ~Empty, left >= 0, NEW n \in {Frames(c) : c \in Channel},
           \A c \in Channel : Frames(c) <= n
    PROVE  /\ n \in Nat \ {0}
           /\ FrameDt(left, n) \in Nat
           /\ n * FrameDt(left, n) <= left
<1>1. \A c \in Channel : Frames(c) \in Nat
  BY FramesType DEF TypeInv
<1>2. PICK c \in Channel : Frames(c) # 0
  BY DEF Empty
<1>3. n \in Nat \ {0}
  BY <1>1, <1>2
<1>4. left \in Nat
  BY DEF TypeInv, TypeOK
<1>. QED  BY <1>3, <1>4, DivisionRoundsDown DEF FrameDt

LEMMA StartType ==
    ASSUME TypeInv, NEW diff \in StartTime, SkipCycle(diff) \/ StartCycle(diff)
    PROVE  TypeInv'
<1>. USE DEF TypeInv
<1>1. diff \in Int /\ 1 \in 1 .. NBoards + 1
  BY TimeAssumption, BoardsAssumption
<1>2. cycles' \in Nat /\ start' \in StartKind
  BY DEF SkipCycle, StartCycle, Begin, TypeOK, StartKind
<1>3. CASE SkipCycle(diff)
  <2>1. TypeOK'
    BY <1>2, <1>3 DEF SkipCycle, TypeOK, timeVars, queueVars, inputVars, boardVars
  <2>. QED  BY <1>3, <2>1 DEF SkipCycle, AuxPending, TimeLeft
<1>4. CASE StartCycle(diff)
  <2>1. diff >= 0
    BY <1>1, <1>4 DEF StartCycle, Overloaded
  <2>2. carried' \in BOOLEAN
    BY <1>4, Zenon DEF StartCycle
  <2>3. TypeOK'
    BY <1>1, <1>2, <1>4, <2>2 DEF StartCycle, TypeOK, queueVars, inputVars, boardVars
  <2>. QED  BY <1>4, <2>1, <2>3 DEF StartCycle, AuxPending, TimeLeft
<1>. QED  BY <1>3, <1>4

LEMMA SendingType == TypeInv /\ (StartSending \/ EndCycle) => TypeInv'
<1>. SUFFICES ASSUME TypeInv, StartSending \/ EndCycle PROVE TypeInv'
  OBVIOUS
<1>. USE DEF TypeInv
<1>1. CASE StartSending
  <2>1. left' \in Int /\ dt' \in Nat
    <3>1. CASE ~Empty
      <4>1. PICK n \in {Frames(c) : c \in Channel} :
                /\ \A c \in Channel : Frames(c) <= n
                /\ dt' = FrameDt(left, n)
        BY <1>1, <3>1 DEF StartSending
      <4>2. left >= 0 /\ left' = left
        BY <1>1, <3>1 DEF StartSending, TimeLeft
      <4>. QED  BY <3>1, <4>1, <4>2, FrameDtType DEF TypeOK
    <3>2. CASE Empty
      BY <1>1, <3>2 DEF StartSending, TypeOK
    <3>. QED  BY <3>1, <3>2
  <2>2. phase' \in {"send", "wait"}
    BY <1>1 DEF StartSending
  <2>3. TypeOK'
    BY <1>1, <2>1, <2>2
    DEF StartSending, TypeOK, queueVars, inputVars, boardVars, historyVars
  <2>. QED  BY <2>2, <2>3 DEF AuxPending, TimeLeft
<1>2. CASE EndCycle
  <2>1. \A c \in Channel : NetLost(c) \in Int
    BY DEF NetLost, TypeOK
  <2>2. expect' \in [Channel -> Int] /\ lost' \in [Channel -> Int]
    BY <1>2, <2>1 DEF EndCycle
  <2>3. TypeOK'
    BY <1>2, <2>2 DEF EndCycle, TypeOK, timeVars, inputVars, boardVars, historyVars
  <2>. QED  BY <1>2, <2>3 DEF EndCycle, AuxPending, TimeLeft
<1>. QED  BY <1>1, <1>2

(* Each queue loses its next frame or nothing.                              *)
LEMMA SendNextType ==
    ASSUME TypeInv, NEW failed \in SUBSET Channel, SendNextFrames(failed)
    PROVE  TypeInv'
<1>. USE DEF TypeInv
<1>1. ASSUME NEW c \in Channel, NextIsRequest(c)
      PROVE  /\ request[c][NextFrame(request[c])] \in Board
             /\ RemoveAt(request[c], NextFrame(request[c])) \in Seq(Board)
  <2>1. request[c] \in Seq(Board) /\ NextFrame(request[c]) \in 1 .. Len(request[c])
    BY <1>1 DEF TypeOK, NextIsRequest, NextFrame
  <2>. QED  BY <2>1, RemoveAtType
<1>2. ASSUME NEW c \in Channel, NextIsCommand(c)
      PROVE  /\ command[c][NextFrame(command[c])] \in Frame
             /\ RemoveAt(command[c], NextFrame(command[c])) \in Seq(Frame)
  <2>1. command[c] \in Seq(Frame) /\ NextFrame(command[c]) \in 1 .. Len(command[c])
    BY <1>2 DEF TypeOK, NextIsCommand, NextFrame
  <2>. QED  BY <2>1, RemoveAtType
<1>3. request' \in [Channel -> Seq(Board)] /\ command' \in [Channel -> Seq(Frame)]
  BY <1>1, <1>2 DEF SendNextFrames, TypeOK
<1>4. awaited' \in [Channel -> Seq(Board)] /\ missing' \in [Channel -> Int]
  BY <1>1 DEF SendNextFrames, TypeOK
<1>5. ASSUME NEW b \in Board, GetsCommand(b, "reference")
      PROVE  CommandValue(b) \in Reference
  BY <1>2, <1>5, BoardsAssumption DEF GetsCommand, CommandValue, Frame
<1>6. ASSUME NEW b \in Board, GetsCommand(b, "aux")
      PROVE  CommandValue(b) \in 0 .. MaxAux
  BY <1>2, <1>6, BoardsAssumption, CycleBoundsAssumption DEF GetsCommand, CommandValue, Frame, AuxId
<1>7. sent' \in [Board -> Reference \cup {Nothing}] /\ lastAux' \in [Board -> 0 .. MaxAux]
  BY <1>5, <1>6 DEF SendNextFrames, TypeOK
<1>8. left' \in Int /\ phase' \in {"wait", "stopped"}
  BY DEF SendNextFrames, TypeOK
<1>9. TypeOK'
  BY <1>3, <1>4, <1>7, <1>8 DEF SendNextFrames, TypeOK, inputVars, historyVars
<1>. QED  BY <1>8, <1>9 DEF AuxPending, TimeLeft

LEMMA BusType == TypeInv /\ Bus => TypeInv'
<1>. SUFFICES ASSUME TypeInv, Bus PROVE TypeInv'
  OBVIOUS
<1>. USE DEF TypeInv
<1>1. ASSUME NEW c \in Channel, NEW i \in DOMAIN awaited[c]
      PROVE  awaited[c][i] \in Board /\ RemoveAt(awaited[c], i) \in Seq(Board)
  <2>1. awaited[c] \in Seq(Board) /\ i \in 1 .. Len(awaited[c])
    BY DEF TypeOK
  <2>. QED  BY <2>1, RemoveAtType
<1>2. ASSUME NEW c \in Channel, NEW i \in DOMAIN awaited[c], DecodeReply(c, i)
      PROVE  TypeInv'
  <2>1. ReadingArrived(joint[awaited[c][i]]) \in Counters
    BY <1>1, ReadingArrivedType DEF TypeOK
  <2>2. joint' \in [Board -> Counters]
    BY <1>1, <1>2, <2>1 DEF DecodeReply, TypeOK
  <2>3. awaited' \in [Channel -> Seq(Board)] /\ expect' \in [Channel -> Int]
    BY <1>1, <1>2 DEF DecodeReply, TypeOK
  <2>4. TypeOK'
    BY <1>2, <2>2, <2>3 DEF DecodeReply, TypeOK, timeVars, inputVars, historyVars
  <2>. QED  BY <1>2, <2>4 DEF DecodeReply, AuxPending, TimeLeft
<1>3. ASSUME NEW c \in Channel, NEW i \in DOMAIN awaited[c], LoseReply(c, i)
      PROVE  TypeInv'
  <2>1. awaited' \in [Channel -> Seq(Board)] /\ missing' \in [Channel -> Int]
    BY <1>1, <1>3 DEF LoseReply, TypeOK
  <2>2. TypeOK'
    BY <1>3, <2>1 DEF LoseReply, TypeOK, timeVars, queueVars, inputVars, historyVars
  <2>. QED  BY <1>3, <2>2 DEF LoseReply, AuxPending, TimeLeft
<1>4. ASSUME NEW c \in Channel, DecodeForeign(c)
      PROVE  TypeInv'
  <2>1. expect' \in [Channel -> Int] /\ missing' \in [Channel -> Int]
    BY <1>4 DEF DecodeForeign, TypeOK
  <2>2. TypeOK'
    BY <1>4, <2>1 DEF DecodeForeign, TypeOK, timeVars, inputVars, historyVars
  <2>. QED  BY <1>4, <2>2 DEF DecodeForeign, AuxPending, TimeLeft
<1>. QED  BY <1>2, <1>3, <1>4 DEF Bus

LEMMA NextType == TypeInv /\ [Next]_vars => TypeInv'
<1>. SUFFICES ASSUME TypeInv, [Next]_vars PROVE TypeInv'
  OBVIOUS
<1>1. CASE UNCHANGED vars
  BY <1>1 DEF TypeInv, TypeOK, AuxPending, TimeLeft, vars, timeVars, queueVars, inputVars,
              boardVars, historyVars
<1>2. CASE Pump
  BY <1>2, StartType, UpdateType, SendingType, SendNextType DEF Pump
<1>. QED  BY <1>1, <1>2, MainLoopType, BusType DEF Next

(* Every variable of the cycle keeps its type, and a board that processes   *)
(* auxiliary commands has one.                                              *)
THEOREM TypeOKHolds == Spec => []TypeOK
<1>1. Spec => []TypeInv
  BY InitType, NextType, PTL DEF Spec
<1>. QED  BY <1>1, PTL DEF TypeInv

-----------------------------------------------------------------------------
(* The lengths of the queues, as numbers the arithmetic is about.           *)
Asked(c)    == Len(request[c])
Ordered(c)  == Len(command[c])
Awaiting(c) == Len(awaited[c])

LEMMA LengthsType ==
    ASSUME TypeInv, NEW c \in Channel
    PROVE  /\ Asked(c) \in Nat /\ Ordered(c) \in Nat /\ Awaiting(c) \in Nat
           /\ Frames(c) = Asked(c) + Ordered(c)
  BY DEF TypeInv, TypeOK, Asked, Ordered, Awaiting, Frames

(* Of the two queues of a channel one loses a frame, if one has any.        *)
LEMMA SendLengths ==
    ASSUME TypeInv, NEW failed \in SUBSET Channel, SendNextFrames(failed), NEW c \in Channel
    PROVE  /\ Frames(c)' = IF Frames(c) = 0 THEN 0 ELSE Frames(c) - 1
           /\ Asked(c)' = IF NextIsRequest(c) THEN Asked(c) - 1 ELSE Asked(c)
<1>1. request[c] \in Seq(Board) /\ command[c] \in Seq(Frame)
  BY DEF TypeInv, TypeOK
<1>2. Asked(c) \in Nat /\ Ordered(c) \in Nat /\ Frames(c) = Asked(c) + Ordered(c)
  BY LengthsType
<1>3. Frames(c)' = Asked(c)' + Ordered(c)'
  BY DEF Frames, Asked, Ordered
<1>4. CASE NextIsRequest(c)
  <2>1. Asked(c) > 0 /\ NextFrame(request[c]) \in 1 .. Len(request[c])
    BY <1>1, <1>4 DEF NextIsRequest, NextFrame, Asked
  <2>2. request'[c] = RemoveAt(request[c], NextFrame(request[c]))
    BY <1>4 DEF SendNextFrames
  <2>3. Asked(c)' = Asked(c) - 1
    BY <1>1, <2>1, <2>2, RemoveAtType DEF Asked
  <2>4. Ordered(c)' = Ordered(c)
    BY <1>4 DEF NextIsRequest, NextIsCommand, SendNextFrames, Ordered
  <2>. QED  BY <1>2, <1>3, <1>4, <2>1, <2>3, <2>4
<1>5. CASE NextIsCommand(c)
  <2>1. Ordered(c) > 0 /\ NextFrame(command[c]) \in 1 .. Len(command[c])
    BY <1>1, <1>5 DEF NextIsCommand, NextFrame, Ordered
  <2>2. command'[c] = RemoveAt(command[c], NextFrame(command[c]))
    BY <1>5 DEF SendNextFrames
  <2>3. Ordered(c)' = Ordered(c) - 1
    BY <1>1, <2>1, <2>2, RemoveAtType DEF Ordered
  <2>4. ~NextIsRequest(c) /\ Asked(c)' = Asked(c)
    BY <1>5 DEF NextIsRequest, NextIsCommand, SendNextFrames, Asked
  <2>. QED  BY <1>2, <1>3, <2>1, <2>3, <2>4
<1>6. CASE ~NextIsRequest(c) /\ ~NextIsCommand(c)
  <2>1. Asked(c) = 0 /\ Ordered(c) = 0
    BY <1>1, <1>6 DEF NextIsRequest, NextIsCommand, Asked, Ordered
  <2>2. Asked(c)' = Asked(c) /\ Ordered(c)' = Ordered(c)
    BY <1>6 DEF SendNextFrames, Asked, Ordered
  <2>. QED  BY <1>2, <1>3, <1>6, <2>1, <2>2
<1>. QED  BY <1>4, <1>5, <1>6

(* The account of one channel, kept by every step.                          *)
Balanced(c) == lost[c] + expect[c] = Asked(c) + Awaiting(c) + missing[c]

LEMMA RepliesStep == TypeInv /\ RepliesAccounted /\ [Next]_vars => RepliesAccounted'
<1>. SUFFICES ASSUME TypeInv, RepliesAccounted, [Next]_vars, NEW c \in Channel
              PROVE  Balanced(c)'
  BY DEF RepliesAccounted, Balanced, Asked, Awaiting
<1>1. /\ request \in [Channel -> Seq(Board)] /\ awaited \in [Channel -> Seq(Board)]
      /\ expect \in [Channel -> Int] /\ missing \in [Channel -> Int]
  BY DEF TypeInv, TypeOK
<1>2. /\ Asked(c) \in Nat /\ Awaiting(c) \in Nat
      /\ lost[c] \in Int /\ expect[c] \in Int /\ missing[c] \in Int
  BY LengthsType DEF TypeInv, TypeOK
<1>3. Balanced(c)
  BY DEF RepliesAccounted, Balanced, Asked, Awaiting
<1>4. ASSUME lost' = lost, expect' = expect, request' = request,
             awaited' = awaited, missing' = missing
      PROVE  Balanced(c)'
  BY <1>3, <1>4 DEF Balanced, Asked, Awaiting
<1>5. CASE UNCHANGED vars
  BY <1>4, <1>5 DEF vars, queueVars, boardVars
<1>6. CASE MainLoop
  BY <1>4, <1>6 DEF MainLoop, TakeAux, FetchCommands, Quit, queueVars, boardVars
<1>7. ASSUME NEW diff \in StartTime, SkipCycle(diff) \/ StartCycle(diff)
      PROVE  Balanced(c)'
  BY <1>4, <1>7 DEF SkipCycle, StartCycle, queueVars, boardVars
<1>8. ASSUME NEW b \in Board, UpdateBoard(b)
      PROVE  Balanced(c)'
  <2>1. /\ lost' = lost /\ awaited' = awaited /\ missing' = missing
        /\ request' = [request EXCEPT ![CanChannel[b]] = Append(@, b)]
        /\ expect' = [expect EXCEPT ![CanChannel[b]] = @ + 1]
    BY <1>8 DEF UpdateBoard, boardVars
  <2>2. Awaiting(c)' = Awaiting(c) /\ lost'[c] = lost[c] /\ missing'[c] = missing[c]
    BY <2>1 DEF Awaiting
  <2>3. CASE c = CanChannel[b]
    <3>1. Asked(c)' = Asked(c) + 1
      BY <1>1, <2>1, <2>3 DEF Asked
    <3>2. expect'[c] = expect[c] + 1
      BY <1>1, <2>1, <2>3
    <3>. QED  BY <1>2, <1>3, <2>2, <3>1, <3>2 DEF Balanced
  <2>4. CASE c # CanChannel[b]
    <3>1. Asked(c)' = Asked(c) /\ expect'[c] = expect[c]
      BY <1>1, <2>1, <2>4 DEF Asked
    <3>. QED  BY <1>3, <2>2, <3>1 DEF Balanced
  <2>. QED  BY <2>3, <2>4
<1>9. ASSUME NEW b \in Board, BeginAux(b) \/ ProcessAux(b)
      PROVE  Balanced(c)'
  BY <1>4, <1>9 DEF BeginAux, ProcessAux, queueVars, boardVars
<1>10. CASE StartSending
  BY <1>4, <1>10 DEF StartSending, queueVars, boardVars
<1>11. ASSUME NEW failed \in SUBSET Channel, SendNextFrames(failed)
       PROVE  Balanced(c)'
  <2>1. lost' = lost /\ expect' = expect
    BY <1>11 DEF SendNextFrames
  <2>2. Asked(c)' = IF NextIsRequest(c) THEN Asked(c) - 1 ELSE Asked(c)
    BY <1>11, SendLengths
  <2>3. CASE NextIsRequest(c) /\ c \notin failed
    <3>1. awaited[c] \in Seq(Board) /\ request[c][NextFrame(request[c])] \in Board
      BY <1>1, <2>3 DEF NextIsRequest, NextFrame
    <3>2. Awaiting(c)' = Awaiting(c) + 1
      BY <1>11, <2>3, <3>1 DEF SendNextFrames, Awaiting
    <3>3. missing'[c] = missing[c]
      BY <1>11, <2>3 DEF SendNextFrames
    <3>. QED  BY <1>2, <1>3, <2>1, <2>2, <2>3, <3>2, <3>3 DEF Balanced
  <2>4. CASE NextIsRequest(c) /\ c \in failed
    <3>1. missing'[c] = missing[c] + 1 /\ Awaiting(c)' = Awaiting(c)
      BY <1>11, <2>4 DEF SendNextFrames, Awaiting
    <3>. QED  BY <1>2, <1>3, <2>1, <2>2, <2>4, <3>1 DEF Balanced
  <2>5. CASE ~NextIsRequest(c)
    <3>1. missing'[c] = missing[c] /\ Awaiting(c)' = Awaiting(c)
      BY <1>11, <2>5 DEF SendNextFrames, Awaiting
    <3>. QED  BY <1>3, <2>1, <2>2, <2>5, <3>1 DEF Balanced
  <2>. QED  BY <2>3, <2>4, <2>5
<1>12. CASE EndCycle
  <2>1. lost'[c] = lost[c] + expect[c] /\ expect'[c] = 0
    BY <1>12 DEF EndCycle, NetLost
  <2>2. Asked(c)' = Asked(c) /\ Awaiting(c)' = Awaiting(c) /\ missing' = missing
    BY <1>12 DEF EndCycle, boardVars, Asked, Awaiting
  <2>. QED  BY <1>2, <1>3, <2>1, <2>2 DEF Balanced
<1>13. ASSUME NEW d \in Channel, NEW i \in DOMAIN awaited[d],
              DecodeReply(d, i) \/ LoseReply(d, i)
       PROVE  Balanced(c)'
  <2>1. /\ lost' = lost /\ request' = request
        /\ awaited' = [awaited EXCEPT ![d] = RemoveAt(@, i)]
    BY <1>13 DEF DecodeReply, LoseReply, queueVars
  <2>2. Asked(c)' = Asked(c)
    BY <2>1 DEF Asked
  <2>3. \/ expect' = [expect EXCEPT ![d] = @ - 1] /\ missing' = missing
        \/ expect' = expect /\ missing' = [missing EXCEPT ![d] = @ + 1]
    BY <1>13 DEF DecodeReply, LoseReply, queueVars
  <2>4. CASE c = d
    <3>1. awaited'[c] = RemoveAt(awaited[c], i) /\ i \in 1 .. Len(awaited[c])
      BY <1>1, <2>1, <2>4
    <3>2. Awaiting(c)' = Awaiting(c) - 1
      BY <1>1, <3>1, RemoveAtType DEF Awaiting
    <3>3. \/ expect'[c] = expect[c] - 1 /\ missing'[c] = missing[c]
          \/ expect'[c] = expect[c] /\ missing'[c] = missing[c] + 1
      BY <1>1, <2>3, <2>4
    <3>. QED  BY <1>2, <1>3, <2>1, <2>2, <3>2, <3>3 DEF Balanced
  <2>5. CASE c # d
    <3>1. Awaiting(c)' = Awaiting(c) /\ expect'[c] = expect[c] /\ missing'[c] = missing[c]
      BY <1>1, <2>1, <2>3, <2>5 DEF Awaiting
    <3>. QED  BY <1>3, <2>1, <2>2, <3>1 DEF Balanced
  <2>. QED  BY <2>4, <2>5
<1>14. ASSUME NEW d \in Channel, DecodeForeign(d)
       PROVE  Balanced(c)'
  <2>1. /\ lost' = lost /\ request' = request /\ awaited' = awaited
        /\ expect' = [expect EXCEPT ![d] = @ - 1]
        /\ missing' = [missing EXCEPT ![d] = @ - 1]
    BY <1>14 DEF DecodeForeign
  <2>2. Asked(c)' = Asked(c) /\ Awaiting(c)' = Awaiting(c)
    BY <2>1 DEF Asked, Awaiting
  <2>3. \/ expect'[c] = expect[c] - 1 /\ missing'[c] = missing[c] - 1
        \/ expect'[c] = expect[c] /\ missing'[c] = missing[c]
    BY <1>1, <2>1
  <2>. QED  BY <1>2, <1>3, <2>1, <2>2, <2>3 DEF Balanced
<1>. QED  BY <1>5, <1>6, <1>7, <1>8, <1>9, <1>10, <1>11, <1>12, <1>13, <1>14
          DEF Next, Pump, Bus

(* No reply is counted twice or forgotten, in whatever cycle it arrives.    *)
LEMMA RepliesAccountedHolds == Spec => []RepliesAccounted
<1>1. Init => RepliesAccounted
  BY DEF Init, RepliesAccounted
<1>. QED  BY <1>1, InitType, NextType, RepliesStep, PTL DEF Spec

-----------------------------------------------------------------------------
(* The counters of one board: what was asked for and did not come is        *)
(* dropped, or is the latest reading.                                       *)
Judged(counters) ==
    counters.expected - counters.received <=
        counters.dropped + IF counters.updated THEN 0 ELSE 1

LEMMA CountersJudged ==
    ASSUME NEW counters \in Counters, Judged(counters)
    PROVE  /\ Judged(CycleReset(counters))
           /\ Judged(AwaitReading(CycleReset(counters)))
           /\ Judged(ReadingArrived(counters))
<1>1. /\ counters.updated \in BOOLEAN /\ counters.dropped \in Nat
      /\ counters.expected \in Nat /\ counters.received \in Nat
  BY DEF Counters
<1>2. CycleReset(counters) \in Counters
  BY DEF CycleReset, Counters
<1>3. /\ CycleReset(counters).updated = counters.updated
      /\ CycleReset(counters).expected = counters.expected
      /\ CycleReset(counters).received = counters.received
      /\ CycleReset(counters).dropped =
             counters.dropped + IF counters.updated THEN 0 ELSE 1
  BY <1>1 DEF CycleReset, Counters
<1>4. \A r \in Counters :
          /\ AwaitReading(r).updated = FALSE /\ AwaitReading(r).dropped = r.dropped
          /\ AwaitReading(r).expected = r.expected + 1
          /\ AwaitReading(r).received = r.received
  BY DEF AwaitReading, Counters
<1>5. /\ ReadingArrived(counters).updated = TRUE
      /\ ReadingArrived(counters).dropped = counters.dropped
      /\ ReadingArrived(counters).expected = counters.expected
      /\ ReadingArrived(counters).received = counters.received + 1
  BY DEF ReadingArrived, Counters
<1>6. Judged(CycleReset(counters))
  BY <1>1, <1>3 DEF Judged
<1>7. Judged(AwaitReading(CycleReset(counters)))
  BY <1>1, <1>2, <1>3, <1>4 DEF Judged
<1>8. Judged(ReadingArrived(counters))
  BY <1>1, <1>5 DEF Judged
<1>. QED  BY <1>6, <1>7, <1>8

LEMMA DropsStep == TypeInv /\ DropsAreCounted /\ [Next]_vars => DropsAreCounted'
<1>. SUFFICES ASSUME TypeInv, DropsAreCounted, [Next]_vars, NEW b \in Board
              PROVE  Judged(joint'[b])
  BY DEF DropsAreCounted, Judged
<1>1. /\ joint \in [Board -> Counters] /\ joint[b] \in Counters
      /\ awaited \in [Channel -> Seq(Board)]
  BY DEF TypeInv, TypeOK
<1>2. Judged(joint[b])
  BY DEF DropsAreCounted, Judged
<1>3. /\ Judged(CycleReset(joint[b])) /\ Judged(AwaitReading(CycleReset(joint[b])))
      /\ Judged(ReadingArrived(joint[b]))
  BY <1>1, <1>2, CountersJudged
<1>4. CASE joint' = joint
  BY <1>2, <1>4
<1>5. ASSUME NEW a \in Board, UpdateBoard(a) \/ BeginAux(a)
      PROVE  Judged(joint'[b])
  <2>1. \/ joint' = [joint EXCEPT ![a] = AwaitReading(CycleReset(@))]
        \/ joint' = [joint EXCEPT ![a] = CycleReset(@)]
    BY <1>5 DEF UpdateBoard, BeginAux
  <2>. QED  BY <1>1, <1>2, <1>3, <2>1
<1>6. ASSUME NEW c \in Channel, NEW i \in DOMAIN awaited[c], DecodeReply(c, i)
      PROVE  Judged(joint'[b])
  <2>1. joint' = [joint EXCEPT ![awaited[c][i]] = ReadingArrived(@)]
    BY <1>6 DEF DecodeReply
  <2>. QED  BY <1>1, <1>2, <1>3, <2>1
<1>7. CASE UNCHANGED vars
  BY <1>4, <1>7 DEF vars
<1>8. CASE MainLoop
  BY <1>4, <1>8 DEF MainLoop, TakeAux, FetchCommands, Quit
<1>9. CASE Pump
  <2>1. ASSUME NEW diff \in StartTime, SkipCycle(diff) \/ StartCycle(diff)
        PROVE  joint' = joint
    BY <2>1 DEF SkipCycle, StartCycle
  <2>2. ASSUME NEW a \in Board, ProcessAux(a)
        PROVE  joint' = joint
    BY <2>2 DEF ProcessAux
  <2>3. ASSUME NEW failed \in SUBSET Channel, SendNextFrames(failed)
        PROVE  joint' = joint
    BY <2>3 DEF SendNextFrames
  <2>4. StartSending \/ EndCycle => joint' = joint
    BY DEF StartSending, EndCycle
  <2>. QED  BY <1>4, <1>5, <1>9, <2>1, <2>2, <2>3, <2>4 DEF Pump
<1>10. CASE Bus
  <2>1. ASSUME NEW c \in Channel, NEW i \in DOMAIN awaited[c], LoseReply(c, i)
        PROVE  joint' = joint
    BY <2>1 DEF LoseReply
  <2>2. ASSUME NEW c \in Channel, DecodeForeign(c)
        PROVE  joint' = joint
    BY <2>2 DEF DecodeForeign
  <2>. QED  BY <1>4, <1>6, <1>10, <2>1, <2>2 DEF Bus
<1>. QED  BY <1>7, <1>8, <1>9, <1>10 DEF Next

(* A reading that was asked for and never came is in dropped_count, whether *)
(* it was late, lost, or followed by auxiliary commands.                    *)
LEMMA DropsAreCountedHolds == Spec => []DropsAreCounted
<1>1. Init => DropsAreCounted
  BY DEF Init, DropsAreCounted
<1>. QED  BY <1>1, InitType, NextType, DropsStep, PTL DEF Spec

(* Both accounts add up, for every number of boards and channels, however   *)
(* many cycles are late and replies lost.                                   *)
THEOREM AccountsAddUpHolds == Spec => []AccountsAddUp
<1>. QED  BY RepliesAccountedHolds, DropsAreCountedHolds, PTL DEF AccountsAddUp

-----------------------------------------------------------------------------
(* The time that is left pays for the frames that are left.                 *)
EarlyLeft == phase \in {"update", "aux"} /\ start = "early" => left > 0

Paid(c) == Frames(c) = 0 \/ (Frames(c) * dt <= left /\ left > 0)

Budget == phase \in {"send", "wait"} /\ start = "early" => \A c \in Channel : Paid(c)

DrainInv == EarlyLeft /\ Budget /\ CycleDrains

LEMMA OneFrameLess ==
    ASSUME NEW f \in Nat \ {0}, NEW d \in Nat, NEW l \in Int, f * d <= l, l > 0
    PROVE  f - 1 = 0 \/ ((f - 1) * d <= l - d /\ l - d > 0)
<1>1. (f - 1) * d = f * d - d
  OBVIOUS
<1>2. (f - 1) * d <= l - d
  BY <1>1
<1>3. ASSUME f - 1 # 0, d # 0 PROVE (f - 1) * d > 0
  BY <1>3
<1>. QED  BY <1>2, <1>3

LEMMA FewerFrames ==
    ASSUME NEW f \in Nat, NEW n \in Nat, NEW d \in Nat, NEW l \in Int,
           f <= n, n * d <= l
    PROVE  f * d <= l
<1>1. n * d = f * d + (n - f) * d
  OBVIOUS
<1>2. (n - f) * d \in Nat /\ f * d \in Nat
  OBVIOUS
<1>. QED  BY <1>1, <1>2

LEMMA DrainStart ==
    ASSUME TypeInv, DrainInv, StartSending
    PROVE  DrainInv'
<1>1. phase = "update" /\ phase' \in {"send", "wait"} /\ start' = start
  BY DEF StartSending, historyVars
<1>2. \A c \in Channel : Frames(c)' = Frames(c) /\ Frames(c) \in Nat
  BY FramesType DEF TypeInv, StartSending, queueVars, Frames
<1>3. ASSUME start = "early", NEW c \in Channel PROVE Paid(c)'
  <2>1. CASE Empty
    BY <1>2, <2>1 DEF Empty, Paid
  <2>2. CASE ~Empty
    <3>1. PICK n \in {Frames(d) : d \in Channel} :
              /\ \A d \in Channel : Frames(d) <= n
              /\ dt' = FrameDt(left, n)
      BY <2>2 DEF StartSending
    <3>2. left > 0 /\ left \in Int /\ left' = left
      BY <1>1, <1>3, <2>2 DEF DrainInv, EarlyLeft, StartSending, TypeInv, TypeOK
    <3>3. n \in Nat /\ dt' \in Nat /\ n * dt' <= left
      BY <2>2, <3>1, <3>2, FrameDtType
    <3>4. Frames(c) * dt' <= left
      BY <1>2, <3>1, <3>2, <3>3, FewerFrames
    <3>5. Frames(c)' * dt' <= left' /\ left' > 0
      BY <1>2, <3>2, <3>4
    <3>. QED  BY <3>5 DEF Paid
  <2>. QED  BY <2>1, <2>2
<1>. QED  BY <1>1, <1>3 DEF DrainInv, EarlyLeft, Budget, CycleDrains

LEMMA DrainSend ==
    ASSUME TypeInv, DrainInv, NEW failed \in SUBSET Channel, SendNextFrames(failed)
    PROVE  DrainInv'
<1>1. phase \in {"send", "wait"} /\ phase' \in {"wait", "stopped"} /\ start' = start
  BY DEF SendNextFrames, historyVars
<1>2. ASSUME phase' = "wait", start = "early", NEW c \in Channel PROVE Paid(c)'
  <2>1. left' = left - dt /\ dt' = dt /\ left \in Int /\ dt \in Nat
    BY <1>2 DEF SendNextFrames, TypeInv, TypeOK
  <2>2. Frames(c) \in Nat
    BY FramesType DEF TypeInv
  <2>3. Frames(c)' = IF Frames(c) = 0 THEN 0 ELSE Frames(c) - 1
    BY SendLengths
  <2>4. Paid(c)
    BY <1>1, <1>2 DEF DrainInv, Budget
  <2>5. CASE Frames(c) = 0
    BY <2>3, <2>5 DEF Paid
  <2>6. CASE Frames(c) # 0
    <3>1. Frames(c) * dt <= left /\ left > 0 /\ Frames(c) \in Nat \ {0}
      BY <2>2, <2>4, <2>6 DEF Paid
    <3>2. \/ Frames(c) - 1 = 0
          \/ (Frames(c) - 1) * dt <= left - dt /\ left - dt > 0
      BY <2>1, <3>1, OneFrameLess
    <3>3. Frames(c)' = Frames(c) - 1
      BY <2>3, <2>6
    <3>. QED  BY <2>1, <3>2, <3>3 DEF Paid
  <2>. QED  BY <2>5, <2>6
<1>. QED  BY <1>1, <1>2 DEF DrainInv, EarlyLeft, Budget, CycleDrains

LEMMA DrainStep == TypeInv /\ DrainInv /\ [Next]_vars => DrainInv'
<1>. SUFFICES ASSUME TypeInv, DrainInv, [Next]_vars PROVE DrainInv'
  OBVIOUS
<1>1. ASSUME request' = request, command' = command, left' = left, dt' = dt,
             start' = start, phase' = phase
      PROVE  DrainInv'
  <2>1. \A c \in Channel : Frames(c)' = Frames(c)
    BY <1>1 DEF Frames
  <2>2. Empty' <=> Empty
    BY <2>1 DEF Empty
  <2>3. \A c \in Channel : Paid(c) => Paid(c)'
    BY <1>1, <2>1 DEF Paid
  <2>. QED  BY <1>1, <2>2, <2>3 DEF DrainInv, EarlyLeft, Budget, CycleDrains
<1>2. CASE UNCHANGED vars
  BY <1>1, <1>2 DEF vars, queueVars, timeVars, historyVars
<1>3. CASE MainLoop
  <2>1. ASSUME NEW to \in AuxTarget, NEW supported \in BOOLEAN, TakeAux(to, supported)
        PROVE  DrainInv'
    BY <1>1, <2>1 DEF TakeAux, timeVars, queueVars
  <2>2. CASE (\E refs \in [Driven -> Reference \cup {Nothing}] : FetchCommands(refs)) \/ Quit
    <3>1. phase' \in {"ready", "stopped"}
      BY <2>2 DEF FetchCommands, Quit
    <3>. QED  BY <3>1 DEF DrainInv, EarlyLeft, Budget, CycleDrains
  <2>. QED  BY <1>3, <2>1, <2>2 DEF MainLoop
<1>4. ASSUME NEW diff \in StartTime, SkipCycle(diff) PROVE DrainInv'
  <2>1. phase' = "after" /\ start' = "late"
    BY <1>4 DEF SkipCycle, Begin
  <2>. QED  BY <2>1 DEF DrainInv, EarlyLeft, Budget, CycleDrains
<1>5. ASSUME NEW diff \in StartTime, StartCycle(diff) PROVE DrainInv'
  <2>1. phase' = "update" /\ left' = diff /\ diff \in Int
    BY <1>5, TimeAssumption DEF StartCycle
  <2>2. start' = "early" => diff > 0
    BY <1>5, <2>1 DEF StartCycle, Begin
  <2>. QED  BY <2>1, <2>2 DEF DrainInv, EarlyLeft, Budget, CycleDrains
<1>6. ASSUME NEW b \in Board, UpdateBoard(b) \/ BeginAux(b) \/ ProcessAux(b)
      PROVE  DrainInv'
  <2>1. phase \in {"update", "aux"} /\ phase' \in {"update", "aux"}
    BY <1>6 DEF UpdateBoard, BeginAux, ProcessAux
  <2>2. left' = left /\ start' = start
    BY <1>6 DEF UpdateBoard, BeginAux, ProcessAux, timeVars, historyVars
  <2>. QED  BY <2>1, <2>2 DEF DrainInv, EarlyLeft, Budget, CycleDrains
<1>7. CASE EndCycle
  <2>1. /\ phase \in {"send", "wait"} /\ phase' = "after" /\ start' = start
        /\ left <= 0 /\ left \in Int
        /\ request' = request /\ command' = command
    BY <1>7 DEF EndCycle, historyVars, TypeInv, TypeOK
  <2>2. ASSUME start = "early", NEW c \in Channel PROVE Frames(c) = 0
    <3>1. Paid(c)
      BY <2>1, <2>2 DEF DrainInv, Budget
    <3>. QED  BY <2>1, <3>1 DEF Paid
  <2>3. start = "early" => Empty'
    BY <2>1, <2>2 DEF Empty, Frames
  <2>. QED  BY <2>1, <2>3 DEF DrainInv, EarlyLeft, Budget, CycleDrains
<1>8. CASE Bus
  BY <1>1, <1>8 DEF Bus, DecodeReply, DecodeForeign, LoseReply, queueVars, timeVars,
                    historyVars
<1>. QED  BY <1>2, <1>3, <1>4, <1>5, <1>6, <1>7, <1>8, DrainStart, DrainSend DEF Next, Pump

(* A cycle that starts before its deadline leaves no frame behind, for      *)
(* every number of boards and channels and every time that is left.         *)
THEOREM CycleDrainsHolds == Spec => []CycleDrains
<1>1. Init => DrainInv
  BY DEF Init, DrainInv, EarlyLeft, Budget, CycleDrains
<1>2. Spec => []DrainInv
  BY <1>1, InitType, NextType, DrainStep, PTL DEF Spec
<1>. QED  BY <1>2, PTL DEF DrainInv

-----------------------------------------------------------------------------
(* The command frames of a channel.  A board's frames are in the queue of   *)
(* the board's channel.                                                     *)
Placed == \A c \in Channel : \A i \in DOMAIN command[c] : CanChannel[command[c][i].to] = c

LEMMA FrameType ==
    ASSUME TypeInv, NEW c \in Channel, NEW i \in DOMAIN command[c]
    PROVE  /\ command[c] \in Seq(Frame) /\ i \in 1 .. Len(command[c])
           /\ command[c][i].to \in Board
           /\ command[c][i].kind = "aux" => command[c][i].value \in AuxId
<1>1. command[c] \in Seq(Frame)
  BY DEF TypeInv, TypeOK
<1>2. i \in 1 .. Len(command[c]) /\ command[c][i] \in Frame
  BY <1>1
<1>. QED  BY <1>1, <1>2 DEF Frame

(* A frame that is put into the queue is its last one.                      *)
LEMMA OneFrameMore ==
    ASSUME TypeInv, NEW b \in Board, NEW frame \in Frame,
           command' = [command EXCEPT ![CanChannel[b]] = Append(@, frame)],
           NEW c \in Channel
    PROVE  /\ \A i \in DOMAIN command'[c] :
                 \/ i \in DOMAIN command[c] /\ command'[c][i] = command[c][i]
                 \/ /\ c = CanChannel[b] /\ command'[c][i] = frame
                    /\ \A k \in DOMAIN command[c] : k < i
                    /\ \A k \in DOMAIN command'[c] : k <= i
           /\ \A i \in DOMAIN command[c] :
                 i \in DOMAIN command'[c] /\ command'[c][i] = command[c][i]
<1>1. command[c] \in Seq(Frame) /\ command \in [Channel -> Seq(Frame)]
  BY DEF TypeInv, TypeOK
<1>2. CASE c = CanChannel[b]
  <2>1. command'[c] = Append(command[c], frame)
    BY <1>1, <1>2
  <2>2. /\ DOMAIN command'[c] = 1 .. Len(command[c]) + 1
        /\ DOMAIN command[c] = 1 .. Len(command[c]) /\ Len(command[c]) \in Nat
        /\ \A i \in 1 .. Len(command[c]) : command'[c][i] = command[c][i]
        /\ command'[c][Len(command[c]) + 1] = frame
    BY <1>1, <2>1
  <2>3. \A i \in 1 .. Len(command[c]) + 1 :
            i \in 1 .. Len(command[c]) \/ i = Len(command[c]) + 1
    BY <2>2
  <2>4. /\ \A k \in 1 .. Len(command[c]) : k < Len(command[c]) + 1
        /\ \A k \in 1 .. Len(command[c]) + 1 : k <= Len(command[c]) + 1
        /\ 1 .. Len(command[c]) \subseteq 1 .. Len(command[c]) + 1
    BY <2>2
  <2>. QED  BY <1>2, <2>2, <2>3, <2>4, Zenon
<1>3. CASE c # CanChannel[b]
  BY <1>1, <1>3
<1>. QED  BY <1>2, <1>3

LEMMA FrameIsQueued ==
    ASSUME TypeInv, NEW b \in Board, NEW frame \in Frame,
           command' = [command EXCEPT ![CanChannel[b]] = Append(@, frame)]
    PROVE  \E i \in DOMAIN command'[CanChannel[b]] : command'[CanChannel[b]][i] = frame
<1>. DEFINE c == CanChannel[b]
<1>1. c \in Channel /\ command[c] \in Seq(Frame) /\ command \in [Channel -> Seq(Frame)]
  BY BoardsAssumption DEF TypeInv, TypeOK
<1>2. command'[c] = Append(command[c], frame)
  BY <1>1
<1>3. /\ Len(command[c]) + 1 \in DOMAIN command'[c]
      /\ command'[c][Len(command[c]) + 1] = frame
  BY <1>1, <1>2
<1>. QED  BY <1>3

(* A frame that is sent was the last one, and the others are left.          *)
LEMMA LastFrameLess ==
    ASSUME TypeInv, NEW failed \in SUBSET Channel, SendNextFrames(failed),
           NEW c \in Channel
    PROVE  /\ \A i \in DOMAIN command'[c] :
                 /\ i \in DOMAIN command[c] /\ command'[c][i] = command[c][i]
                 /\ NextIsCommand(c) => i < NextFrame(command[c])
           /\ \A i \in DOMAIN command[c] :
                 \/ i \in DOMAIN command'[c] /\ command'[c][i] = command[c][i]
                 \/ NextIsCommand(c) /\ i = NextFrame(command[c])
           /\ NextIsCommand(c) => NextFrame(command[c]) \in DOMAIN command[c]
<1>1. command[c] \in Seq(Frame) /\ command \in [Channel -> Seq(Frame)]
  BY DEF TypeInv, TypeOK
<1>2. CASE NextIsCommand(c)
  <2>. DEFINE n == Len(command[c])
  <2>1. n \in Nat \ {0} /\ DOMAIN command[c] = 1 .. n
    BY <1>1, <1>2 DEF NextIsCommand
  <2>2. command'[c] = RemoveAt(command[c], n)
    BY <1>2 DEF SendNextFrames, NextFrame
  <2>3. command'[c] = SubSeq(command[c], 1, n - 1)
    <3>1. SubSeq(command[c], n + 1, n) = <<>>
      BY <1>1, <2>1
    <3>2. SubSeq(command[c], 1, n - 1) \in Seq(Frame)
      BY <1>1, <2>1
    <3>3. command'[c] = SubSeq(command[c], 1, n - 1) \o SubSeq(command[c], n + 1, n)
      BY <2>2 DEF RemoveAt
    <3>. QED  BY <3>1, <3>2, <3>3, ConcatEmptySeq
  <2>4. /\ DOMAIN command'[c] = 1 .. n - 1
        /\ \A i \in 1 .. n - 1 : command'[c][i] = command[c][i]
    BY <1>1, <2>1, <2>3
  <2>5. /\ \A i \in 1 .. n : i \in 1 .. n - 1 \/ i = n
        /\ \A i \in 1 .. n - 1 : i \in 1 .. n /\ i < n
        /\ n \in 1 .. n
    BY <2>1
  <2>. QED  BY <1>2, <2>1, <2>4, <2>5, Zenon DEF NextFrame
<1>3. CASE ~NextIsCommand(c)
  <2>1. command'[c] = command[c]
    BY <1>3 DEF SendNextFrames
  <2>. QED  BY <1>3, <2>1
<1>. QED  BY <1>2, <1>3

(* The frame a board puts into its queue, if it puts one.                   *)
LEMMA BoardFrames ==
    ASSUME TypeInv, NEW b \in Board
    PROVE  /\ UpdateBoard(b) =>
                 \/ agg[b] = Nothing /\ command' = command /\ reported' = reported
                 \/ LET frame == [to |-> b, kind |-> "reference", value |-> agg[b]]
                    IN  /\ frame \in Frame
                        /\ command' = [command EXCEPT ![CanChannel[b]] = Append(@, frame)]
                        /\ reported' = [reported EXCEPT ![b] = frame.value]
           /\ BeginAux(b) => command' = command /\ reported' = reported
           /\ ProcessAux(b) =>
                 LET last  == aux[b][Len(aux[b])]
                     frame == [to |-> b, kind |-> "aux", value |-> last.id]
                 IN  /\ reported' = reported
                     /\ aux[b] # <<>> /\ last \in AuxCommand
                     /\ aux' = [aux EXCEPT ![b] = RemoveAt(aux[b], Len(aux[b]))]
                     /\ frame \in Frame
                     /\ \/ command' = command
                        \/ command' = [command EXCEPT ![CanChannel[b]] = Append(@, frame)]
<1>1. ASSUME UpdateBoard(b), agg[b] # Nothing
      PROVE  LET frame == [to |-> b, kind |-> "reference", value |-> agg[b]]
             IN  /\ frame \in Frame
                 /\ command' = [command EXCEPT ![CanChannel[b]] = Append(@, frame)]
                 /\ reported' = [reported EXCEPT ![b] = frame.value]
  <2>1. agg[b] \in Reference
    BY <1>1 DEF TypeInv, TypeOK
  <2>. QED  BY <1>1, <2>1 DEF UpdateBoard, Queued, Frame
<1>2. ASSUME UpdateBoard(b), agg[b] = Nothing
      PROVE  command' = command /\ reported' = reported
  BY <1>2 DEF UpdateBoard
<1>3. BeginAux(b) => command' = command /\ reported' = reported
  BY DEF BeginAux, queueVars
<1>4. ASSUME ProcessAux(b)
      PROVE  LET last  == aux[b][Len(aux[b])]
                 frame == [to |-> b, kind |-> "aux", value |-> last.id]
             IN  /\ reported' = reported
                 /\ aux[b] # <<>> /\ last \in AuxCommand
                 /\ aux' = [aux EXCEPT ![b] = RemoveAt(aux[b], Len(aux[b]))]
                 /\ frame \in Frame
                 /\ \/ command' = command
                    \/ command' = [command EXCEPT ![CanChannel[b]] = Append(@, frame)]
  <2>1. aux[b] \in Seq(AuxCommand) /\ aux[b] # <<>>
    BY <1>4 DEF ProcessAux, TypeInv, TypeOK, AuxPending
  <2>2. Len(aux[b]) \in 1 .. Len(aux[b]) /\ aux[b][Len(aux[b])] \in AuxCommand
    BY <2>1
  <2>3. [to |-> b, kind |-> "aux", value |-> aux[b][Len(aux[b])].id] \in Frame
    BY <2>2 DEF Frame, AuxCommand
  <2>4. /\ aux' = [aux EXCEPT ![b] = RemoveAt(aux[b], Len(aux[b]))]
        /\ reported' = reported
        /\ \/ command' = command
           \/ command' = Queued(b, "aux", aux[b][Len(aux[b])].id)
    BY <1>4 DEF ProcessAux, NextAux
  <2>. QED  BY <2>1, <2>2, <2>3, <2>4 DEF Queued
<1>. QED  BY <1>1, <1>2, <1>3, <1>4

LEMMA PlacedStep == TypeInv /\ Placed /\ [Next]_vars => Placed'
<1>. SUFFICES ASSUME TypeInv, Placed, [Next]_vars PROVE Placed'
  OBVIOUS
<1>1. CASE command' = command
  BY <1>1 DEF Placed
<1>2. ASSUME NEW b \in Board, NEW frame \in Frame, frame.to = b,
             command' = [command EXCEPT ![CanChannel[b]] = Append(@, frame)]
      PROVE  Placed'
  <2>. SUFFICES ASSUME NEW c \in Channel, NEW i \in DOMAIN command'[c]
                PROVE  CanChannel[command'[c][i].to] = c
    BY DEF Placed
  <2>. QED  BY <1>2, OneFrameMore DEF Placed
<1>3. ASSUME NEW failed \in SUBSET Channel, SendNextFrames(failed)
      PROVE  Placed'
  BY <1>3, LastFrameLess DEF Placed
<1>4. ASSUME NEW b \in Board, UpdateBoard(b) \/ BeginAux(b) \/ ProcessAux(b)
      PROVE  Placed'
  BY <1>1, <1>2, <1>4, BoardFrames
<1>5. CASE UNCHANGED vars
  BY <1>1, <1>5 DEF vars, queueVars
<1>6. CASE MainLoop
  BY <1>1, <1>6 DEF MainLoop, TakeAux, FetchCommands, Quit, queueVars
<1>7. ASSUME NEW diff \in StartTime, SkipCycle(diff) \/ StartCycle(diff)
      PROVE  Placed'
  BY <1>1, <1>7 DEF SkipCycle, StartCycle, queueVars
<1>8. CASE StartSending \/ EndCycle
  BY <1>1, <1>8 DEF StartSending, EndCycle, queueVars
<1>9. CASE Bus
  BY <1>1, <1>9 DEF Bus, DecodeReply, DecodeForeign, LoseReply, queueVars
<1>. QED  BY <1>3, <1>4, <1>5, <1>6, <1>7, <1>8, <1>9 DEF Next, Pump

(* The references.  As long as no cycle has found frames of an earlier one, *)
(* a board's reference in the queues is the reported one, and comes from a  *)
(* board whose turn is over; and what is reported was sent or is in the     *)
(* queue.                                                                   *)
NewestReported ==
    \A c \in Channel : \A i \in DOMAIN command[c] :
        command[c][i].kind = "reference" =>
            command[c][i].value = reported[command[c][i].to]

TurnIsOver ==
    phase \in {"update", "aux"} =>
        \A c \in Channel : \A i \in DOMAIN command[c] :
            command[c][i].kind = "reference" => command[c][i].to < turn

OnItsWay(b) ==
    \E i \in DOMAIN command[CanChannel[b]] :
        /\ command[CanChannel[b]][i].kind = "reference"
        /\ command[CanChannel[b]][i].to = b

SentOrQueued == \A b \in Board : reported[b] = sent[b] \/ OnItsWay(b)

ReferenceInv == ~carried /\ phase # "stopped" => NewestReported /\ TurnIsOver /\ SentOrQueued

LEMMA NoFrames ==
    ASSUME TypeInv, Empty, NEW c \in Channel
    PROVE  DOMAIN command[c] = {}
<1>1. Frames(c) = 0
  BY DEF Empty
<1>2. command[c] \in Seq(Frame)
  BY DEF TypeInv, TypeOK
<1>3. Len(command[c]) = 0
  BY <1>1, LengthsType DEF Ordered
<1>. QED  BY <1>2, <1>3

LEMMA ReferenceUpdate ==
    ASSUME TypeInv, NewestReported, TurnIsOver, SentOrQueued, NEW b \in Board, UpdateBoard(b)
    PROVE  NewestReported' /\ TurnIsOver' /\ SentOrQueued'
<1>1. /\ phase = "update" /\ phase' = phase /\ turn = b /\ turn' = b + 1
      /\ sent' = sent /\ b \in Nat /\ reported \in [Board -> Reference \cup {Nothing}]
  BY DEF UpdateBoard, boardVars, TypeInv, TypeOK, Board
<1>2. CASE command' = command /\ reported' = reported
  <2>1. NewestReported' /\ SentOrQueued'
    BY <1>1, <1>2 DEF NewestReported, SentOrQueued, OnItsWay
  <2>2. \A t \in Board : t < turn => t < turn'
    BY <1>1 DEF Board
  <2>3. TurnIsOver'
    BY <1>1, <1>2, <2>2, FrameType DEF TurnIsOver
  <2>. QED  BY <2>1, <2>3
<1>3. ASSUME NEW frame \in Frame, frame.to = b, frame.kind = "reference",
             command' = [command EXCEPT ![CanChannel[b]] = Append(@, frame)],
             reported' = [reported EXCEPT ![b] = frame.value]
      PROVE  NewestReported' /\ TurnIsOver' /\ SentOrQueued'
  <2>1. ASSUME NEW c \in Channel, NEW i \in DOMAIN command'[c],
               command'[c][i].kind = "reference"
        PROVE  /\ command'[c][i].value = reported'[command'[c][i].to]
               /\ command'[c][i].to < turn'
    <3>1. CASE i \in DOMAIN command[c] /\ command'[c][i] = command[c][i]
      <4>1. command[c][i].to \in Board /\ command[c][i].to < b
        BY <1>1, <2>1, <3>1, FrameType DEF TurnIsOver
      <4>2. command[c][i].to # b /\ command[c][i].to < b + 1
        BY <1>1, <4>1 DEF Board
      <4>3. reported'[command[c][i].to] = reported[command[c][i].to]
        BY <1>1, <1>3, <4>1, <4>2
      <4>4. command[c][i].value = reported[command[c][i].to]
        BY <2>1, <3>1 DEF NewestReported
      <4>. QED  BY <1>1, <3>1, <4>2, <4>3, <4>4
    <3>2. CASE command'[c][i] = frame
      BY <1>1, <1>3, <3>2
    <3>. QED  BY <1>3, <2>1, <3>1, <3>2, OneFrameMore
  <2>2. NewestReported' /\ TurnIsOver'
    BY <2>1 DEF NewestReported, TurnIsOver
  <2>3. ASSUME NEW t \in Board PROVE reported'[t] = sent'[t] \/ OnItsWay(t)'
    <3>1. CanChannel[t] \in Channel
      BY BoardsAssumption
    <3>2. OnItsWay(t) => OnItsWay(t)'
      BY <1>3, <3>1, OneFrameMore DEF OnItsWay
    <3>3. CASE t = b
      <4>1. \E i \in DOMAIN command'[CanChannel[b]] : command'[CanChannel[b]][i] = frame
        BY <1>3, FrameIsQueued
      <4>2. OnItsWay(b)'
        BY <1>3, <4>1 DEF OnItsWay
      <4>. QED  BY <3>3, <4>2
    <3>4. CASE t # b
      BY <1>1, <1>3, <3>2, <3>4 DEF SentOrQueued
    <3>. QED  BY <3>3, <3>4
  <2>. QED  BY <2>2, <2>3 DEF SentOrQueued
<1>. QED  BY <1>2, <1>3, BoardFrames

LEMMA ReferenceAux ==
    ASSUME TypeInv, NewestReported, TurnIsOver, SentOrQueued, NEW b \in Board,
           BeginAux(b) \/ ProcessAux(b)
    PROVE  NewestReported' /\ TurnIsOver' /\ SentOrQueued'
<1>1. /\ phase \in {"update", "aux"} /\ reported' = reported /\ sent' = sent
      /\ turn' \in {turn, turn + 1} /\ turn \in Nat
  BY BoardFrames DEF BeginAux, ProcessAux, boardVars, TypeInv, TypeOK
<1>2. \A t \in Board : t < turn => t < turn'
  BY <1>1 DEF Board
<1>3. CASE command' = command
  <2>1. NewestReported' /\ SentOrQueued'
    BY <1>1, <1>3 DEF NewestReported, SentOrQueued, OnItsWay
  <2>2. TurnIsOver'
    BY <1>1, <1>2, <1>3, FrameType DEF TurnIsOver
  <2>. QED  BY <2>1, <2>2
<1>4. ASSUME NEW frame \in Frame, frame.kind = "aux",
             command' = [command EXCEPT ![CanChannel[b]] = Append(@, frame)]
      PROVE  NewestReported' /\ TurnIsOver' /\ SentOrQueued'
  <2>1. ASSUME NEW c \in Channel, NEW i \in DOMAIN command'[c],
               command'[c][i].kind = "reference"
        PROVE  /\ i \in DOMAIN command[c] /\ command'[c][i] = command[c][i]
    BY <1>4, <2>1, OneFrameMore
  <2>2. NewestReported'
    BY <1>1, <2>1 DEF NewestReported
  <2>3. TurnIsOver'
    BY <1>1, <1>2, <2>1, FrameType DEF TurnIsOver
  <2>4. ASSUME NEW t \in Board PROVE OnItsWay(t) => OnItsWay(t)'
    BY <1>4, BoardsAssumption, OneFrameMore DEF OnItsWay
  <2>. QED  BY <1>1, <2>2, <2>3, <2>4 DEF SentOrQueued
<1>. QED  BY <1>3, <1>4, BoardFrames

LEMMA ReferenceSend ==
    ASSUME TypeInv, Placed, NewestReported, SentOrQueued, SendNextFrames({})
    PROVE  NewestReported' /\ TurnIsOver' /\ SentOrQueued'
<1>1. phase' = "wait" /\ reported' = reported /\ {} \in SUBSET Channel
  BY DEF SendNextFrames
<1>2. NewestReported'
  BY <1>1, LastFrameLess DEF NewestReported
<1>3. ASSUME NEW t \in Board PROVE reported'[t] = sent'[t] \/ OnItsWay(t)'
  <2>. DEFINE c == CanChannel[t]
  <2>1. c \in Channel
    BY BoardsAssumption
  <2>2. sent'[t] = IF GetsCommand(t, "reference") THEN CommandValue(t) ELSE sent[t]
    BY <2>1 DEF SendNextFrames
  <2>3. CASE GetsCommand(t, "reference")
    <3>1. NextIsCommand(c) /\ NextFrame(command[c]) \in DOMAIN command[c]
      BY <1>1, <2>1, <2>3, LastFrameLess DEF GetsCommand
    <3>2. CommandValue(t) = reported[t]
      BY <2>1, <2>3, <3>1 DEF GetsCommand, CommandValue, NewestReported
    <3>. QED  BY <1>1, <2>2, <2>3, <3>2
  <2>4. CASE ~GetsCommand(t, "reference")
    <3>1. OnItsWay(t) => OnItsWay(t)'
      BY <1>1, <2>1, <2>4, LastFrameLess DEF OnItsWay, GetsCommand
    <3>. QED  BY <1>1, <2>2, <2>4, <3>1 DEF SentOrQueued
  <2>. QED  BY <2>3, <2>4
<1>. QED  BY <1>1, <1>2, <1>3 DEF SentOrQueued, TurnIsOver

LEMMA ReferenceStep == TypeInv /\ Placed /\ ReferenceInv /\ [Next]_vars => ReferenceInv'
<1>. SUFFICES ASSUME TypeInv, Placed, ReferenceInv, [Next]_vars,
                     ~carried', phase' # "stopped"
              PROVE  NewestReported' /\ TurnIsOver' /\ SentOrQueued'
  BY DEF ReferenceInv
<1>1. ASSUME command' = command, reported' = reported, sent' = sent,
             carried' = carried, phase # "stopped",
             phase' \notin {"update", "aux"} \/ (phase' = phase /\ turn' = turn)
      PROVE  NewestReported' /\ TurnIsOver' /\ SentOrQueued'
  <2>1. NewestReported /\ TurnIsOver /\ SentOrQueued
    BY <1>1 DEF ReferenceInv
  <2>. QED  BY <1>1, <2>1 DEF NewestReported, TurnIsOver, SentOrQueued, OnItsWay
<1>2. CASE UNCHANGED vars
  BY <1>1, <1>2 DEF vars, queueVars, boardVars, historyVars
<1>3. CASE MainLoop
  BY <1>1, <1>3 DEF MainLoop, TakeAux, FetchCommands, Quit, queueVars, boardVars,
                    historyVars
<1>4. ASSUME NEW diff \in StartTime, SkipCycle(diff)
      PROVE  NewestReported' /\ TurnIsOver' /\ SentOrQueued'
  BY <1>1, <1>4 DEF SkipCycle, Begin, queueVars, boardVars
<1>5. ASSUME NEW diff \in StartTime, StartCycle(diff)
      PROVE  NewestReported' /\ TurnIsOver' /\ SentOrQueued'
  <2>1. /\ command' = command /\ reported' = reported /\ sent' = sent
        /\ phase # "stopped" /\ ~carried /\ Empty
    BY <1>5 DEF StartCycle, Begin, queueVars, boardVars, TypeInv, TypeOK
  <2>2. \A c \in Channel : DOMAIN command'[c] = {}
    BY <2>1, NoFrames
  <2>3. SentOrQueued
    BY <2>1 DEF ReferenceInv
  <2>. QED  BY <2>1, <2>2, <2>3 DEF NewestReported, TurnIsOver, SentOrQueued, OnItsWay
<1>6. ASSUME NEW b \in Board, UpdateBoard(b) \/ BeginAux(b) \/ ProcessAux(b)
      PROVE  NewestReported' /\ TurnIsOver' /\ SentOrQueued'
  <2>1. carried' = carried /\ phase # "stopped"
    BY <1>6 DEF UpdateBoard, BeginAux, ProcessAux, historyVars
  <2>. QED  BY <1>6, <2>1, ReferenceUpdate, ReferenceAux DEF ReferenceInv
<1>7. CASE StartSending \/ EndCycle
  BY <1>1, <1>7 DEF StartSending, EndCycle, queueVars, boardVars, historyVars
<1>8. ASSUME NEW failed \in SUBSET Channel, SendNextFrames(failed)
      PROVE  NewestReported' /\ TurnIsOver' /\ SentOrQueued'
  <2>1. failed = {} /\ carried' = carried /\ phase # "stopped"
    BY <1>8 DEF SendNextFrames, historyVars
  <2>. QED  BY <1>8, <2>1, ReferenceSend DEF ReferenceInv
<1>9. CASE Bus
  BY <1>1, <1>9 DEF Bus, DecodeReply, DecodeForeign, LoseReply, queueVars, historyVars
<1>. QED  BY <1>2, <1>3, <1>4, <1>5, <1>6, <1>7, <1>8, <1>9 DEF Next, Pump

(* What the state shows as a board's references, the board was sent last,   *)
(* unless a cycle has found frames that an earlier one left over: for every *)
(* number of boards, however the cycles are cut short or skipped.           *)
THEOREM ReportedReferenceWasSentHolds == Spec => []ReportedReferenceWasSent
<1>1. Init => Placed /\ ReferenceInv
  BY DEF Init, Placed, ReferenceInv, NewestReported, TurnIsOver, SentOrQueued
<1>2. TypeInv /\ ReferenceInv => ReportedReferenceWasSent
  <2>. SUFFICES ASSUME TypeInv, ReferenceInv, phase = "after", Empty, ~carried
                PROVE  reported = sent
    BY DEF ReportedReferenceWasSent
  <2>1. \A b \in Board : ~OnItsWay(b)
    BY NoFrames, BoardsAssumption DEF OnItsWay
  <2>2. \A b \in Board : reported[b] = sent[b]
    BY <2>1 DEF ReferenceInv, SentOrQueued
  <2>. QED  BY <2>2 DEF TypeInv, TypeOK
<1>. QED  BY <1>1, <1>2, InitType, NextType, PlacedStep, ReferenceStep, PTL DEF Spec

-----------------------------------------------------------------------------
(* The auxiliary commands.  Those a board has not put into frames yet stand *)
(* in the order in which they were given; those it has, in the opposite     *)
(* one, and there are not both by the time the frames are sent.             *)
Known ==
    /\ \A b \in Board :
          /\ lastAux[b] <= auxCount
          /\ \A k \in DOMAIN aux[b] : aux[b][k].id <= auxCount
    /\ \A c \in Channel : \A i \in DOMAIN command[c] :
          command[c][i].kind = "aux" => command[c][i].value <= auxCount

Ascending ==
    \A b \in Board : \A k, m \in DOMAIN aux[b] : k < m => aux[b][k].id < aux[b][m].id

Taken ==
    /\ phase \in {"send", "wait"} => \A b \in Board : aux[b] = <<>>
    /\ phase \in {"update", "aux"} => \A b \in Board : b < turn => aux[b] = <<>>

Descending ==
    \A c \in Channel : \A i, k \in DOMAIN command[c] :
        /\ i < k
        /\ command[c][i].kind = "aux" /\ command[c][k].kind = "aux"
        /\ command[c][i].to = command[c][k].to
        => command[c][k].value < command[c][i].value

PutAfter ==
    phase \in {"update", "aux"} =>
        \A c \in Channel : \A i \in DOMAIN command[c] :
            command[c][i].kind = "aux" =>
                \A k \in DOMAIN aux[command[c][i].to] :
                    aux[command[c][i].to][k].id < command[c][i].value

SentBefore ==
    /\ \A c \in Channel : \A i \in DOMAIN command[c] :
          command[c][i].kind = "aux" => lastAux[command[c][i].to] < command[c][i].value
    /\ \A b \in Board : \A k \in DOMAIN aux[b] : lastAux[b] < aux[b][k].id

AuxInv ==
    /\ Known /\ Ascending /\ Taken
    /\ ~carried => Descending /\ PutAfter /\ SentBefore

LEMMA AuxType ==
    ASSUME TypeInv, NEW b \in Board
    PROVE  /\ lastAux[b] \in Int /\ auxCount \in Int
           /\ aux[b] \in Seq(AuxCommand) /\ DOMAIN aux[b] = 1 .. Len(aux[b])
           /\ Len(aux[b]) \in Nat
           /\ \A k \in DOMAIN aux[b] : aux[b][k].id \in Int
<1>1. aux[b] \in Seq(AuxCommand)
  BY DEF TypeInv, TypeOK
<1>2. \A k \in DOMAIN aux[b] : aux[b][k] \in AuxCommand
  BY <1>1
<1>3. \A cmd \in AuxCommand : cmd.id \in Int
  BY CycleBoundsAssumption DEF AuxCommand, AuxId
<1>4. lastAux[b] \in Int /\ auxCount \in Int
  BY CycleBoundsAssumption DEF TypeInv, TypeOK
<1>. QED  BY <1>1, <1>2, <1>3, <1>4

LEMMA AuxValueType ==
    ASSUME TypeInv, NEW c \in Channel, NEW i \in DOMAIN command[c],
           command[c][i].kind = "aux"
    PROVE  command[c][i].value \in Int
  BY FrameType, CycleBoundsAssumption DEF AuxId

LEMMA OneAuxMore ==
    ASSUME TypeInv, NEW to \in AuxTarget, NEW supported \in BOOLEAN,
           TakeAux(to, supported), NEW b \in Board, NEW k \in DOMAIN aux'[b]
    PROVE  \/ k \in DOMAIN aux[b] /\ aux'[b][k] = aux[b][k]
           \/ aux'[b][k].id = auxCount + 1 /\ \A m \in DOMAIN aux'[b] : m <= k
<1>. DEFINE cmd == [id |-> auxCount + 1, supported |-> supported]
<1>1. aux[b] \in Seq(AuxCommand) /\ cmd \in AuxCommand
  <2>1. auxCount + 1 \in AuxId
    BY CycleBoundsAssumption DEF TakeAux, AuxId, TypeInv, TypeOK
  <2>. QED  BY <2>1 DEF AuxCommand, TypeInv, TypeOK
<1>2. aux'[b] = IF b \in to THEN Append(aux[b], cmd) ELSE aux[b]
  BY DEF TakeAux
<1>3. cmd.id = auxCount + 1
  OBVIOUS
<1>. HIDE DEF cmd
<1>4. CASE b \in to
  BY <1>1, <1>2, <1>3, <1>4
<1>5. CASE b \notin to
  BY <1>2, <1>5
<1>. QED  BY <1>4, <1>5

LEMMA OneAuxLess ==
    ASSUME TypeInv, NEW b \in Board, ProcessAux(b), NEW t \in Board
    PROVE  /\ Len(aux[b]) \in DOMAIN aux[b]
           /\ aux'[t] = <<>> \/ t = b \/ aux'[t] = aux[t]
           /\ \A k \in DOMAIN aux'[t] :
                 /\ k \in DOMAIN aux[t] /\ aux'[t][k] = aux[t][k]
                 /\ t = b => k < Len(aux[b])
<1>1. /\ aux[b] \in Seq(AuxCommand) /\ aux[b] # <<>>
      /\ aux \in [Board -> Seq(AuxCommand)]
      /\ aux' = [aux EXCEPT ![b] = RemoveAt(aux[b], Len(aux[b]))]
  BY BoardFrames DEF TypeInv, TypeOK
<1>2. Len(aux[b]) \in DOMAIN aux[b]
  BY <1>1
<1>3. CASE t = b
  <2>1. aux'[t] = SubSeq(aux[b], 1, Len(aux[b]) - 1)
    <3>1. SubSeq(aux[b], Len(aux[b]) + 1, Len(aux[b])) = <<>>
      BY <1>1
    <3>2. SubSeq(aux[b], 1, Len(aux[b]) - 1) \in Seq(AuxCommand)
      BY <1>1
    <3>3. aux'[t] = SubSeq(aux[b], 1, Len(aux[b]) - 1)
                        \o SubSeq(aux[b], Len(aux[b]) + 1, Len(aux[b]))
      BY <1>1, <1>3 DEF RemoveAt
    <3>. QED  BY <3>1, <3>2, <3>3, ConcatEmptySeq
  <2>. QED  BY <1>1, <1>2, <1>3, <2>1
<1>4. CASE t # b
  BY <1>1, <1>2, <1>4
<1>. QED  BY <1>3, <1>4

LEMMA PendingStep ==
    TypeInv /\ Known /\ Ascending /\ Taken /\ [Next]_vars => Ascending' /\ Taken'
<1>. SUFFICES ASSUME TypeInv, Known, Ascending, Taken, [Next]_vars
              PROVE  Ascending' /\ Taken'
  OBVIOUS
<1>1. ASSUME aux' = aux,
             \/ phase' \notin {"update", "aux", "send", "wait"}
             \/ phase' \in {"send", "wait"} /\ phase \in {"send", "wait"}
             \/ phase' \in {"update", "aux"} /\ phase \in {"update", "aux"} /\ turn' = turn
      PROVE  Ascending' /\ Taken'
  BY <1>1 DEF Ascending, Taken
<1>2. CASE UNCHANGED vars
  BY <1>1, <1>2 DEF vars, inputVars, TypeInv, TypeOK
<1>3. ASSUME NEW to \in AuxTarget, NEW supported \in BOOLEAN, TakeAux(to, supported)
      PROVE  Ascending' /\ Taken'
  <2>1. phase' = "after"
    BY <1>3 DEF TakeAux
  <2>2. ASSUME NEW b \in Board, NEW k \in DOMAIN aux'[b], NEW m \in DOMAIN aux'[b], k < m
        PROVE  aux'[b][k].id < aux'[b][m].id
    <3>1. k \in DOMAIN aux[b] /\ aux'[b][k] = aux[b][k] /\ k \in Int /\ m \in Int
      <4>1. aux'[b] \in Seq(AuxCommand)
        BY <1>3, MainLoopType DEF MainLoop, TypeInv, TypeOK
      <4>2. k \in Int /\ m \in Int
        BY <4>1
      <4>3. ~(m <= k)
        BY <2>2, <4>2
      <4>. QED  BY <1>3, <4>2, <4>3, OneAuxMore
    <3>2. CASE m \in DOMAIN aux[b] /\ aux'[b][m] = aux[b][m]
      BY <2>2, <3>1, <3>2 DEF Ascending
    <3>3. CASE aux'[b][m].id = auxCount + 1
      BY <3>1, <3>3, AuxType DEF Known
    <3>. QED  BY <1>3, <3>2, <3>3, OneAuxMore
  <2>. QED  BY <2>1, <2>2 DEF Ascending, Taken
<1>4. CASE (\E refs \in [Driven -> Reference \cup {Nothing}] : FetchCommands(refs)) \/ Quit
  BY <1>1, <1>4 DEF FetchCommands, Quit, inputVars
<1>5. ASSUME NEW diff \in StartTime, SkipCycle(diff)
      PROVE  Ascending' /\ Taken'
  BY <1>1, <1>5 DEF SkipCycle, inputVars
<1>6. ASSUME NEW diff \in StartTime, StartCycle(diff)
      PROVE  Ascending' /\ Taken'
  <2>1. aux' = aux /\ phase' = "update" /\ turn' = 1
    BY <1>6 DEF StartCycle, inputVars
  <2>2. \A b \in Board : ~(b < 1)
    BY DEF Board
  <2>. QED  BY <2>1, <2>2 DEF Ascending, Taken
<1>7. ASSUME NEW b \in Board, UpdateBoard(b)
      PROVE  Ascending' /\ Taken'
  <2>1. /\ aux' = aux /\ phase = "update" /\ phase' = "update"
        /\ turn = b /\ turn' = b + 1 /\ aux[b] = <<>>
    BY <1>7 DEF UpdateBoard, inputVars
  <2>2. \A t \in Board : t < b + 1 => t < b \/ t = b
    BY DEF Board
  <2>. QED  BY <2>1, <2>2 DEF Ascending, Taken
<1>8. ASSUME NEW b \in Board, BeginAux(b)
      PROVE  Ascending' /\ Taken'
  BY <1>1, <1>8 DEF BeginAux, inputVars
<1>9. ASSUME NEW b \in Board, ProcessAux(b)
      PROVE  Ascending' /\ Taken'
  <2>1. Ascending'
    BY <1>9, OneAuxLess DEF Ascending
  <2>2. /\ phase = "aux" /\ turn = b /\ phase' \in {"update", "aux"}
        /\ \/ turn' = turn
           \/ turn' = turn + 1 /\ aux'[b] = <<>>
    <3>1. aux' = [aux EXCEPT ![b] = RemoveAt(aux[b], Len(aux[b]))]
      BY <1>9, BoardFrames
    <3>2. aux'[b] = RemoveAt(aux[b], NextAux(aux[b]))
      BY <3>1 DEF NextAux, TypeInv, TypeOK
    <3>. QED  BY <1>9, <3>2 DEF ProcessAux
  <2>3. ASSUME NEW t \in Board, t < turn' PROVE aux'[t] = <<>>
    <3>1. CASE t = b
      <4>1. ~(b < b)
        BY DEF Board
      <4>. QED  BY <2>2, <2>3, <3>1, <4>1
    <3>2. CASE t # b
      <4>1. t < b
        BY <2>2, <2>3, <3>2 DEF Board
      <4>2. aux[t] = <<>>
        BY <2>2, <4>1 DEF Taken
      <4>. QED  BY <1>9, <3>2, <4>2, OneAuxLess
    <3>. QED  BY <3>1, <3>2
  <2>. QED  BY <2>1, <2>2, <2>3 DEF Taken
<1>10. CASE StartSending
  <2>1. aux' = aux /\ phase = "update" /\ turn > NBoards /\ phase' \in {"send", "wait"}
    BY <1>10 DEF StartSending, inputVars
  <2>2. \A b \in Board : b < turn
    BY <2>1, BoardsAssumption DEF Board, TypeInv, TypeOK
  <2>. QED  BY <2>1, <2>2 DEF Ascending, Taken
<1>11. ASSUME NEW failed \in SUBSET Channel, SendNextFrames(failed)
       PROVE  Ascending' /\ Taken'
  BY <1>1, <1>11 DEF SendNextFrames, inputVars
<1>12. CASE EndCycle \/ Bus
  BY <1>1, <1>12 DEF EndCycle, Bus, DecodeReply, DecodeForeign, LoseReply, inputVars
<1>. QED  BY <1>2, <1>3, <1>4, <1>5, <1>6, <1>7, <1>8, <1>9, <1>10, <1>11, <1>12
          DEF Next, MainLoop, Pump

(* A board's latest auxiliary command changes when it is sent one, the last *)
(* frame of its channel.                                                    *)
LEMMA AuxIsSent ==
    ASSUME TypeInv, NEW failed \in SUBSET Channel, SendNextFrames(failed),
           NEW b \in Board, lastAux'[b] # lastAux[b]
    PROVE  LET c == CanChannel[b]
               n == NextFrame(command[c])
           IN  /\ c \in Channel /\ NextIsCommand(c) /\ n \in DOMAIN command[c]
               /\ command[c][n].kind = "aux" /\ command[c][n].to = b
               /\ lastAux'[b] = command[c][n].value
<1>1. CanChannel[b] \in Channel
  BY BoardsAssumption
<1>2. GetsCommand(b, "aux") /\ lastAux'[b] = CommandValue(b)
  BY DEF SendNextFrames
<1>. QED  BY <1>1, <1>2, LastFrameLess DEF GetsCommand, CommandValue

LEMMA KnownStep == TypeInv /\ Known /\ [Next]_vars => Known'
<1>. SUFFICES ASSUME TypeInv, Known, [Next]_vars PROVE Known'
  OBVIOUS
<1>1. CASE aux' = aux /\ command' = command /\ lastAux' = lastAux /\ auxCount' = auxCount
  BY <1>1 DEF Known
<1>2. CASE UNCHANGED vars
  BY <1>1, <1>2 DEF vars, queueVars, boardVars, inputVars, historyVars
<1>3. ASSUME NEW to \in AuxTarget, NEW supported \in BOOLEAN, TakeAux(to, supported)
      PROVE  Known'
  <2>1. auxCount' = auxCount + 1 /\ lastAux' = lastAux /\ command' = command
    BY <1>3 DEF TakeAux, queueVars, boardVars
  <2>2. ASSUME NEW b \in Board
        PROVE  /\ lastAux[b] <= auxCount + 1
               /\ \A k \in DOMAIN aux'[b] : aux'[b][k].id <= auxCount + 1
    <3>1. /\ \A k \in DOMAIN aux[b] : aux[b][k].id <= auxCount + 1
          /\ auxCount + 1 <= auxCount + 1
          /\ lastAux[b] <= auxCount + 1
      BY AuxType DEF Known
    <3>. QED  BY <1>3, <3>1, OneAuxMore
  <2>3. \A c \in Channel : \A i \in DOMAIN command[c] :
            command[c][i].kind = "aux" => command[c][i].value <= auxCount + 1
    <3>1. auxCount \in Int
      BY CycleBoundsAssumption DEF TypeInv, TypeOK
    <3>. QED  BY <3>1, AuxValueType DEF Known
  <2>. QED  BY <2>1, <2>2, <2>3 DEF Known
<1>4. CASE (\E refs \in [Driven -> Reference \cup {Nothing}] : FetchCommands(refs)) \/ Quit
  BY <1>1, <1>4 DEF FetchCommands, Quit, queueVars, boardVars, inputVars, historyVars
<1>5. ASSUME NEW diff \in StartTime, SkipCycle(diff) \/ StartCycle(diff)
      PROVE  Known'
  BY <1>1, <1>5 DEF SkipCycle, StartCycle, queueVars, boardVars, inputVars
<1>6. ASSUME NEW b \in Board, UpdateBoard(b)
      PROVE  Known'
  <2>1. aux' = aux /\ lastAux' = lastAux /\ auxCount' = auxCount
    BY <1>6 DEF UpdateBoard, boardVars, inputVars, historyVars
  <2>2. ASSUME NEW frame \in Frame, frame.kind = "reference",
               command' = [command EXCEPT ![CanChannel[b]] = Append(@, frame)]
        PROVE  Known'
    BY <2>1, <2>2, OneFrameMore DEF Known
  <2>. QED  BY <1>1, <1>6, <2>1, <2>2, BoardFrames
<1>7. ASSUME NEW b \in Board, BeginAux(b)
      PROVE  Known'
  BY <1>1, <1>7 DEF BeginAux, queueVars, boardVars, inputVars, historyVars
<1>8. ASSUME NEW b \in Board, ProcessAux(b)
      PROVE  Known'
  <2>. DEFINE last  == aux[b][Len(aux[b])]
              frame == [to |-> b, kind |-> "aux", value |-> last.id]
  <2>1. lastAux' = lastAux /\ auxCount' = auxCount
    BY <1>8 DEF ProcessAux, boardVars, historyVars
  <2>2. last.id <= auxCount
    BY <1>8, OneAuxLess DEF Known
  <2>3. ASSUME NEW t \in Board, NEW k \in DOMAIN aux'[t] PROVE aux'[t][k].id <= auxCount
    BY <1>8, OneAuxLess DEF Known
  <2>4. /\ frame \in Frame /\ frame.value = last.id
        /\ \/ command' = command
           \/ command' = [command EXCEPT ![CanChannel[b]] = Append(@, frame)]
    BY <1>8, BoardFrames
  <2>. HIDE DEF frame, last
  <2>5. \A c \in Channel : \A i \in DOMAIN command'[c] :
            command'[c][i].kind = "aux" => command'[c][i].value <= auxCount
    <3>1. CASE command' = command
      BY <3>1 DEF Known
    <3>2. CASE command' = [command EXCEPT ![CanChannel[b]] = Append(@, frame)]
      BY <2>2, <2>4, <3>2, OneFrameMore DEF Known
    <3>. QED  BY <2>4, <3>1, <3>2
  <2>. QED  BY <2>1, <2>3, <2>5 DEF Known
<1>9. ASSUME NEW failed \in SUBSET Channel, SendNextFrames(failed)
      PROVE  Known'
  <2>1. aux' = aux /\ auxCount' = auxCount
    BY <1>9 DEF SendNextFrames, inputVars, historyVars
  <2>2. ASSUME NEW b \in Board PROVE lastAux'[b] <= auxCount
    <3>1. CASE lastAux'[b] = lastAux[b]
      BY <3>1 DEF Known
    <3>2. CASE lastAux'[b] # lastAux[b]
      BY <1>9, <3>2, AuxIsSent DEF Known
    <3>. QED  BY <3>1, <3>2
  <2>. QED  BY <1>9, <2>1, <2>2, LastFrameLess DEF Known
<1>10. CASE StartSending \/ EndCycle
  BY <1>1, <1>10 DEF StartSending, EndCycle, queueVars, boardVars, inputVars, historyVars
<1>11. CASE Bus
  BY <1>1, <1>11 DEF Bus, DecodeReply, DecodeForeign, LoseReply, queueVars, inputVars,
                     historyVars
<1>. QED  BY <1>2, <1>3, <1>4, <1>5, <1>6, <1>7, <1>8, <1>9, <1>10, <1>11
          DEF Next, MainLoop, Pump

LEMMA OrderedUpdate ==
    ASSUME TypeInv, Descending, PutAfter, SentBefore, NEW b \in Board, UpdateBoard(b)
    PROVE  Descending' /\ PutAfter' /\ SentBefore'
<1>1. aux' = aux /\ lastAux' = lastAux /\ phase = "update" /\ phase' = "update"
  BY DEF UpdateBoard, boardVars, inputVars
<1>2. CASE command' = command
  BY <1>1, <1>2 DEF Descending, PutAfter, SentBefore
<1>3. ASSUME NEW frame \in Frame, frame.kind = "reference",
             command' = [command EXCEPT ![CanChannel[b]] = Append(@, frame)]
      PROVE  Descending' /\ PutAfter' /\ SentBefore'
  <2>1. \A c \in Channel : \A i \in DOMAIN command'[c] :
            command'[c][i].kind = "aux" =>
                i \in DOMAIN command[c] /\ command'[c][i] = command[c][i]
    BY <1>3, OneFrameMore
  <2>. QED  BY <1>1, <2>1 DEF Descending, PutAfter, SentBefore
<1>. QED  BY <1>2, <1>3, BoardFrames

(* The last of the auxiliary commands is put after those that are in the    *)
(* queue, all of which were given after it.                                 *)
LEMMA OrderedAux ==
    ASSUME TypeInv, Ascending, Descending, PutAfter, SentBefore,
           NEW b \in Board, ProcessAux(b)
    PROVE  Descending' /\ PutAfter' /\ SentBefore'
<1>. DEFINE last  == aux[b][Len(aux[b])]
            frame == [to |-> b, kind |-> "aux", value |-> last.id]
<1>1. lastAux' = lastAux /\ phase = "aux"
  BY DEF ProcessAux, boardVars
<1>2. /\ frame \in Frame /\ frame.value = last.id /\ frame.to = b
      /\ \/ command' = command
         \/ command' = [command EXCEPT ![CanChannel[b]] = Append(@, frame)]
  BY BoardFrames
<1>3. \A k \in DOMAIN aux'[b] : aux'[b][k].id < last.id
  BY OneAuxLess DEF Ascending
<1>4. lastAux[b] < last.id
  BY OneAuxLess DEF SentBefore
<1>5. \A c \in Channel : \A i \in DOMAIN command[c] :
          command[c][i].kind = "aux" /\ command[c][i].to = b =>
              last.id < command[c][i].value
  BY <1>1, OneAuxLess DEF PutAfter
<1>. HIDE DEF frame, last
<1>6. ASSUME NEW c \in Channel, NEW i \in DOMAIN command'[c],
             command'[c][i].kind = "aux",
             i \in DOMAIN command[c] /\ command'[c][i] = command[c][i]
      PROVE  /\ \A k \in DOMAIN aux'[command'[c][i].to] :
                    aux'[command'[c][i].to][k].id < command'[c][i].value
             /\ lastAux[command'[c][i].to] < command'[c][i].value
  <2>1. command[c][i].to \in Board /\ command[c][i].kind = "aux"
    BY <1>6, FrameType
  <2>2. \A k \in DOMAIN aux[command[c][i].to] :
            aux[command[c][i].to][k].id < command[c][i].value
    BY <1>1, <1>6, <2>1 DEF PutAfter
  <2>3. lastAux[command[c][i].to] < command[c][i].value
    BY <1>6, <2>1 DEF SentBefore
  <2>4. \A k \in DOMAIN aux'[command[c][i].to] :
            aux'[command[c][i].to][k].id < command[c][i].value
    BY <2>1, <2>2, OneAuxLess
  <2>. QED  BY <1>6, <2>3, <2>4
<1>7. \A t \in Board : \A k \in DOMAIN aux'[t] : lastAux[t] < aux'[t][k].id
  BY OneAuxLess DEF SentBefore
<1>8. CASE command' = command
  <2>1. PutAfter' /\ SentBefore'
    BY <1>1, <1>6, <1>7, <1>8 DEF PutAfter, SentBefore
  <2>. QED  BY <1>8, <2>1 DEF Descending
<1>9. CASE command' = [command EXCEPT ![CanChannel[b]] = Append(@, frame)]
  <2>1. ASSUME NEW c \in Channel, NEW i \in DOMAIN command'[c]
        PROVE  \/ i \in DOMAIN command[c] /\ command'[c][i] = command[c][i]
               \/ command'[c][i] = frame /\ \A k \in DOMAIN command'[c] : k <= i
    BY <1>2, <1>9, OneFrameMore
  <2>2. PutAfter' /\ SentBefore'
    BY <1>1, <1>2, <1>3, <1>4, <1>6, <1>7, <2>1 DEF PutAfter, SentBefore
  <2>3. ASSUME NEW c \in Channel, NEW i \in DOMAIN command'[c],
               NEW k \in DOMAIN command'[c], i < k,
               command'[c][i].kind = "aux", command'[c][k].kind = "aux",
               command'[c][i].to = command'[c][k].to
        PROVE  command'[c][k].value < command'[c][i].value
    <3>1. i \in Int /\ k \in Int
      <4>1. command'[c] \in Seq(Frame)
        BY NextType DEF TypeInv, TypeOK, Next, Pump
      <4>. QED  BY <4>1
    <3>2. i \in DOMAIN command[c] /\ command'[c][i] = command[c][i]
      <4>1. ~(k <= i)
        BY <2>3, <3>1
      <4>. QED  BY <2>1, <4>1
    <3>3. CASE k \in DOMAIN command[c] /\ command'[c][k] = command[c][k]
      BY <2>3, <3>2, <3>3 DEF Descending
    <3>4. CASE command'[c][k] = frame
      BY <1>2, <1>5, <2>3, <3>2, <3>4
    <3>. QED  BY <2>1, <3>3, <3>4
  <2>. QED  BY <2>2, <2>3 DEF Descending
<1>. QED  BY <1>2, <1>8, <1>9

(* What is sent is the first given of those that are in the queue.          *)
LEMMA OrderedSend ==
    ASSUME TypeInv, Placed, Taken, Descending, SentBefore,
           NEW failed \in SUBSET Channel, SendNextFrames(failed)
    PROVE  Descending' /\ PutAfter' /\ SentBefore'
<1>1. aux' = aux /\ phase \in {"send", "wait"} /\ phase' \in {"wait", "stopped"}
  BY DEF SendNextFrames, inputVars
<1>2. Descending' /\ PutAfter'
  BY <1>1, LastFrameLess DEF Descending, PutAfter
<1>3. ASSUME NEW c \in Channel, NEW i \in DOMAIN command'[c], command'[c][i].kind = "aux"
      PROVE  lastAux'[command'[c][i].to] < command'[c][i].value
  <2>. DEFINE b == command[c][i].to
  <2>1. i \in DOMAIN command[c] /\ command'[c][i] = command[c][i] /\ b \in Board
    BY <1>3, LastFrameLess, FrameType
  <2>2. c = CanChannel[b]
    BY <2>1 DEF Placed
  <2>3. CASE lastAux'[b] = lastAux[b]
    BY <1>3, <2>1, <2>3 DEF SentBefore
  <2>4. CASE lastAux'[b] # lastAux[b]
    <3>. DEFINE n == NextFrame(command[c])
    <3>1. /\ n \in DOMAIN command[c] /\ command[c][n].kind = "aux" /\ command[c][n].to = b
          /\ lastAux'[b] = command[c][n].value /\ NextIsCommand(c)
      BY <2>1, <2>2, <2>4, AuxIsSent
    <3>2. i < n
      BY <1>3, <3>1, LastFrameLess
    <3>. QED  BY <1>3, <2>1, <3>1, <3>2 DEF Descending
  <2>. QED  BY <2>1, <2>3, <2>4
<1>4. \A b \in Board : DOMAIN aux'[b] = {}
  BY <1>1 DEF Taken
<1>. QED  BY <1>2, <1>3, <1>4 DEF SentBefore

LEMMA OrderStep ==
    TypeInv /\ Placed /\ AuxInv /\ [Next]_vars /\ ~carried' =>
        Descending' /\ PutAfter' /\ SentBefore'
<1>. SUFFICES ASSUME TypeInv, Placed, AuxInv, [Next]_vars, ~carried'
              PROVE  Descending' /\ PutAfter' /\ SentBefore'
  OBVIOUS
<1>1. ASSUME aux' = aux, command' = command, lastAux' = lastAux, carried' = carried,
             phase' \in {"update", "aux"} => phase \in {"update", "aux"}
      PROVE  Descending' /\ PutAfter' /\ SentBefore'
  <2>1. Descending /\ PutAfter /\ SentBefore
    BY <1>1 DEF AuxInv
  <2>. QED  BY <1>1, <2>1 DEF Descending, PutAfter, SentBefore
<1>2. CASE UNCHANGED vars
  BY <1>1, <1>2 DEF vars, queueVars, boardVars, inputVars, historyVars
<1>3. ASSUME NEW to \in AuxTarget, NEW supported \in BOOLEAN, TakeAux(to, supported)
      PROVE  Descending' /\ PutAfter' /\ SentBefore'
  <2>1. /\ carried' = carried /\ lastAux' = lastAux /\ command' = command
        /\ phase' = "after"
    BY <1>3 DEF TakeAux, queueVars, boardVars
  <2>2. Known /\ Descending /\ SentBefore
    BY <2>1 DEF AuxInv
  <2>3. ASSUME NEW b \in Board, NEW k \in DOMAIN aux'[b] PROVE lastAux[b] < aux'[b][k].id
    <3>1. lastAux[b] < auxCount + 1
      BY <2>2, AuxType DEF Known
    <3>. QED  BY <1>3, <2>2, <3>1, OneAuxMore DEF SentBefore
  <2>. QED  BY <2>1, <2>2, <2>3 DEF Descending, PutAfter, SentBefore
<1>4. CASE (\E refs \in [Driven -> Reference \cup {Nothing}] : FetchCommands(refs)) \/ Quit
  BY <1>1, <1>4 DEF FetchCommands, Quit, queueVars, boardVars, inputVars, historyVars
<1>5. ASSUME NEW diff \in StartTime, SkipCycle(diff)
      PROVE  Descending' /\ PutAfter' /\ SentBefore'
  BY <1>1, <1>5 DEF SkipCycle, queueVars, boardVars, inputVars
<1>6. ASSUME NEW diff \in StartTime, StartCycle(diff)
      PROVE  Descending' /\ PutAfter' /\ SentBefore'
  <2>1. /\ aux' = aux /\ command' = command /\ lastAux' = lastAux
        /\ ~carried /\ Empty
    BY <1>6 DEF StartCycle, queueVars, boardVars, inputVars, TypeInv, TypeOK
  <2>2. \A c \in Channel : DOMAIN command'[c] = {}
    BY <2>1, NoFrames
  <2>3. SentBefore
    BY <2>1 DEF AuxInv
  <2>. QED  BY <2>1, <2>2, <2>3 DEF Descending, PutAfter, SentBefore
<1>7. ASSUME NEW b \in Board, BeginAux(b)
      PROVE  Descending' /\ PutAfter' /\ SentBefore'
  BY <1>1, <1>7 DEF BeginAux, queueVars, boardVars, inputVars, historyVars
<1>8. ASSUME NEW b \in Board, UpdateBoard(b) \/ ProcessAux(b)
      PROVE  Descending' /\ PutAfter' /\ SentBefore'
  <2>1. carried' = carried
    BY <1>8 DEF UpdateBoard, ProcessAux, historyVars
  <2>. QED  BY <1>8, <2>1, OrderedUpdate, OrderedAux DEF AuxInv
<1>9. ASSUME NEW failed \in SUBSET Channel, SendNextFrames(failed)
      PROVE  Descending' /\ PutAfter' /\ SentBefore'
  <2>1. carried' = carried
    BY <1>9 DEF SendNextFrames, historyVars
  <2>. QED  BY <1>9, <2>1, OrderedSend DEF AuxInv
<1>10. CASE StartSending \/ EndCycle
  BY <1>1, <1>10 DEF StartSending, EndCycle, queueVars, boardVars, inputVars, historyVars
<1>11. CASE Bus
  BY <1>1, <1>11 DEF Bus, DecodeReply, DecodeForeign, LoseReply, queueVars, inputVars,
                     historyVars
<1>. QED  BY <1>2, <1>3, <1>4, <1>5, <1>6, <1>7, <1>8, <1>9, <1>10, <1>11
          DEF Next, MainLoop, Pump

(* A board gets its auxiliary commands in the order in which they were      *)
(* given, however many are pending, unless a cycle has found frames that an *)
(* earlier one left over.                                                   *)
THEOREM AuxInOrderHolds == Spec => AuxInOrder
<1>1. Init => Placed /\ AuxInv
  <2>. SUFFICES ASSUME Init PROVE Placed /\ AuxInv
    OBVIOUS
  <2>1. Placed /\ Descending /\ PutAfter
    BY DEF Init, Placed, Descending, PutAfter
  <2>2. Known /\ Ascending /\ Taken /\ SentBefore
    BY DEF Init, Known, Ascending, Taken, SentBefore
  <2>. QED  BY <2>1, <2>2 DEF AuxInv
<1>2. TypeInv /\ Placed /\ AuxInv /\ [Next]_vars => AuxInv'
  BY KnownStep, PendingStep, OrderStep DEF AuxInv
<1>3. TypeInv /\ AuxInv /\ [Next]_vars
          => (~carried => \A b \in Board : lastAux'[b] >= lastAux[b])
  <2>. SUFFICES ASSUME TypeInv, AuxInv, [Next]_vars, ~carried, NEW b \in Board
                PROVE  lastAux'[b] >= lastAux[b]
    OBVIOUS
  <2>1. lastAux[b] \in Int
    BY AuxType
  <2>2. CASE lastAux' = lastAux
    BY <2>1, <2>2
  <2>3. ASSUME NEW failed \in SUBSET Channel, SendNextFrames(failed),
               lastAux'[b] # lastAux[b]
        PROVE  lastAux'[b] >= lastAux[b]
    <3>. DEFINE c == CanChannel[b]
                n == NextFrame(command[c])
    <3>1. c \in Channel
      BY BoardsAssumption
    <3>2. /\ n \in DOMAIN command[c] /\ command[c][n].kind = "aux" /\ command[c][n].to = b
          /\ lastAux'[b] = command[c][n].value
      BY <2>3, AuxIsSent
    <3>3. lastAux[b] < command[c][n].value
      BY <3>1, <3>2 DEF AuxInv, SentBefore
    <3>4. command[c][n].value \in Int
      BY <3>1, <3>2, AuxValueType
    <3>. HIDE DEF c, n
    <3>. QED  BY <2>1, <3>2, <3>3, <3>4
  <2>4. ASSUME NEW failed \in SUBSET Channel, SendNextFrames(failed)
        PROVE  lastAux'[b] >= lastAux[b]
    <3>1. CASE lastAux'[b] = lastAux[b]
      BY <2>1, <3>1
    <3>. QED  BY <2>3, <2>4, <3>1
  <2>5. CASE UNCHANGED vars \/ MainLoop \/ StartSending \/ EndCycle \/ Bus
    BY <2>2, <2>5 DEF vars, MainLoop, TakeAux, FetchCommands, Quit, StartSending, EndCycle,
                      Bus, DecodeReply, DecodeForeign, LoseReply, boardVars
  <2>6. CASE \E diff \in StartTime : SkipCycle(diff) \/ StartCycle(diff)
    BY <2>2, <2>6 DEF SkipCycle, StartCycle, boardVars
  <2>7. CASE \E d \in Board : UpdateBoard(d) \/ BeginAux(d) \/ ProcessAux(d)
    BY <2>2, <2>7 DEF UpdateBoard, BeginAux, ProcessAux, boardVars
  <2>. QED  BY <2>4, <2>5, <2>6, <2>7 DEF Next, Pump
<1>. QED  BY <1>1, <1>2, <1>3, InitType, NextType, PlacedStep, PTL DEF Spec, AuxInOrder

-----------------------------------------------------------------------------
(* The description: what is known of a robot that is being read, and of   *)
(* one that was accepted.                                                   *)

(* Names identify devices from the first line on, and boards have no joints *)
(* before the file has been read.                                           *)
Reading ==
    pc # "accepted" =>
        /\ joints = <<>>
        /\ \A k \in DOMAIN jmcs : jmcs[k].joints = <<>>
        /\ \A i, j \in DOMAIN temp : temp[i].name = temp[j].name => i = j

NamesDiffer ==
    /\ \A k, l \in DOMAIN jmcs : jmcs[k].name = jmcs[l].name => k = l
    /\ \A k, l \in DOMAIN sensors : sensors[k].name = sensors[l].name => k = l

(* The joint in a slot of a board says so itself, and every joint is in one. *)
InPlace(k, h) ==
    LET i == jmcs[k].joints[h]
    IN  /\ i \in DOMAIN joints
        /\ joints[i].jmc_name = jmcs[k].name /\ joints[i].hardware_index = h

HasPlace(i) ==
    \E k \in DOMAIN jmcs :
        /\ joints[i].jmc_name = jmcs[k].name
        /\ joints[i].hardware_index \in DOMAIN jmcs[k].joints
        /\ jmcs[k].joints[joints[i].hardware_index] = i

Assembled ==
    pc = "accepted" =>
        /\ Numbered(DOMAIN joints)
        /\ \A i, j \in DOMAIN joints : joints[i].name = joints[j].name => i = j
        /\ \A k \in DOMAIN jmcs : Numbered(DOMAIN jmcs[k].joints)
        /\ \A k \in DOMAIN jmcs : \A h \in DOMAIN jmcs[k].joints : InPlace(k, h)
        /\ \A i \in DOMAIN joints : HasPlace(i)
        /\ jmcs # <<>> => status # "ERROR"

ParserType ==
    /\ pc \in {"load", "file", "accepted", "rejected"} \cup Device
    /\ including \in Seq(File) /\ filenames \subseteq File \cup {"missing"}
    /\ status \in Status /\ device \in Device \cup {NoName, "other"}
    /\ info \in Info

HuboJmc == [name : Name, address : Index, joints : UNION {[S -> Index] : S \in SUBSET Nat}]

RobotType ==
    /\ temp \in [DOMAIN temp -> Info] /\ DOMAIN temp \subseteq Index
    /\ joints \in [DOMAIN joints -> Info] /\ DOMAIN joints \subseteq Index
    /\ jmcs \in Seq(HuboJmc)
    /\ sensors \in Seq([name : Name, sensor : Sensor, address : Index])

DescInv == ParserType /\ RobotType /\ Reading /\ NamesDiffer /\ Assembled

-----------------------------------------------------------------------------
(* Before the description is accepted there is nobody to send a command.    *)
Quiet ==
    /\ pc # "accepted" => calls = {} /\ auxChan = Flushed /\ ~receiving
    /\ ~receiving => pending = <<>> /\ frames = {} /\ ~missed

Ours == {Asks(c) : c \in calls}

CallsType ==
    /\ receiving \in BOOLEAN /\ missed \in BOOLEAN
    /\ asked \in 0 .. MaxCalls /\ calls \subseteq Calls
    /\ auxChan \in ChannelOf(Ours, Depth)
    /\ \A d \in DOMAIN pending : d \in Boards \cup Sensors /\ pending[d] \in Seq(Ours)

(* What is under way was asked for, and is for the device that has it.      *)
ForWhomItIs ==
    \A d \in DOMAIN pending : \A i \in DOMAIN pending[d] : d \in Receivers(pending[d][i])

(* A ring that has overflowed has something to read, and no device waits    *)
(* for more than was asked for.                                             *)
Counted ==
    /\ auxChan.lapped => auxChan.unread # <<>>
    /\ Len(auxChan.unread) <= asked
    /\ \A d \in DOMAIN pending :
           Len(pending[d]) >= 1 /\ Len(pending[d]) + Len(auxChan.unread) <= asked

(* Nothing that was asked for gets lost between caller and device.          *)
Waits(d, m) == d \in DOMAIN pending /\ \E i \in DOMAIN pending[d] : pending[d][i] = m

Followed(m) ==
    \/ \E i \in DOMAIN auxChan.unread : auxChan.unread[i] = m
    \/ \A d \in Receivers(m) : Waits(d, m) \/ Does(d, m) \subseteq frames

AllFollowed == ~missed /\ ~auxChan.lapped => \A m \in Ours : Followed(m)

(* What a call brings about: what it names, but where it goes astray.       *)
Reaches(c) ==
    IF c.call = "initialize_all_imus" THEN Named("initialize", {1} \cap DOMAIN sensors)
    ELSE Meant(c)

OnlyMeant == AddressesDiffer => frames \subseteq UNION {Reaches(c) : c \in calls}

Doable == ({"home", "on", "off"} \X DOMAIN joints) \cup ({"initialize"} \X DOMAIN sensors)

DoneType == frames \subseteq Doable

CallsInv ==
    Quiet /\ CallsType /\ ForWhomItIs /\ Counted /\ AllFollowed /\ OnlyMeant /\ DoneType

-----------------------------------------------------------------------------
LEMMA BlankType == Blank \in Info
<1>1. NoName \in Name /\ MaxIndex \in Nat
  BY DescriptionAssumption DEF DescriptionAssumption
<1>2. 0 \in Index
  BY <1>1 DEF Index
<1> QED BY <1>1, <1>2 DEF Blank, Info

LEMMA BoardType ==
    ASSUME NEW b \in HuboJmc
    PROVE  /\ b.name \in Name /\ b.address \in Index /\ DOMAIN b.joints \subseteq Nat
           /\ b.joints \in [DOMAIN b.joints -> Index]
<1>1. b.joints \in UNION {[S -> Index] : S \in SUBSET Nat} /\ b.name \in Name
      /\ b.address \in Index
  BY DEF HuboJmc
<1>2. PICK S \in SUBSET Nat : b.joints \in [S -> Index]
  BY <1>1
<1> QED BY <1>1, <1>2

LEMMA MadeBoard ==
    ASSUME NEW n \in Name, NEW a \in Index, NEW S \in SUBSET Nat, NEW f \in [S -> Index]
    PROVE  [name |-> n, address |-> a, joints |-> f] \in HuboJmc
  BY DEF HuboJmc

LEMMA DescTypes ==
    ASSUME ParserType, RobotType
    PROVE  DescTypeOK
<1>1. /\ Range(temp) \subseteq Info /\ Range(joints) \subseteq Info
  BY DEF RobotType, Range
<1>2. ASSUME NEW k \in DOMAIN jmcs
      PROVE  /\ jmcs[k].name \in Name /\ jmcs[k].address \in Index
             /\ DOMAIN jmcs[k].joints \subseteq Nat
             /\ Range(jmcs[k].joints) \subseteq Index
  <2>1. jmcs[k] \in HuboJmc
    BY <1>2 DEF RobotType
  <2>2. /\ jmcs[k].name \in Name /\ jmcs[k].address \in Index
        /\ DOMAIN jmcs[k].joints \subseteq Nat
        /\ jmcs[k].joints \in [DOMAIN jmcs[k].joints -> Index]
    BY <2>1, BoardType
  <2> QED BY <2>2 DEF Range
<1>3. DOMAIN jmcs \subseteq Nat
  BY DEF RobotType
<1> QED BY <1>1, <1>2, <1>3 DEF DescTypeOK, ParserType, RobotType

-----------------------------------------------------------------------------
(* The parser. *)

LEMMA FieldType ==
    ASSUME info \in Info, NEW field \in Fields, NEW value \in Values(field)
    PROVE  [info EXCEPT ![field] = value] \in Info
<1>1. field \in {"name", "jmc_name", "known", "software_index", "hardware_index", "address"}
  BY DEF Fields
<1>2. CASE field = "name"
  <2>1. value \in Name
    BY <1>2 DEF Values
  <2> QED BY <1>2, <2>1 DEF Info
<1>3. CASE field = "jmc_name"
  <2>1. value \in Name
    BY <1>3 DEF Values
  <2> QED BY <1>3, <2>1 DEF Info
<1>4. CASE field = "known"
  <2>1. value \in BOOLEAN
    BY <1>4 DEF Values
  <2> QED BY <1>4, <2>1 DEF Info
<1>5. CASE field = "software_index"
  <2>1. value \in Index \cup {Absent}
    BY <1>5 DEF Values
  <2> QED BY <1>5, <2>1 DEF Info
<1>6. CASE field = "hardware_index"
  <2>1. value \in Index
    BY <1>6 DEF Values
  <2> QED BY <1>6, <2>1 DEF Info
<1>7. CASE field = "address"
  <2>1. value \in Index
    BY <1>7 DEF Values
  <2> QED BY <1>7, <2>1 DEF Info
<1> QED BY <1>1, <1>2, <1>3, <1>4, <1>5, <1>6, <1>7

LEMMA FrontType ==
    ASSUME NEW S, NEW s \in Seq(S), s # <<>>
    PROVE  Front(s) \in Seq(S)
  BY DEF Front

LEMMA OpensType ==
    ASSUME including \in Seq(File), NEW f, Opens(f)
    PROVE  including' \in Seq(File)
<1>1. CASE f \in File
  <2>1. including' = Append(including, f)
    BY <1>1 DEF Opens
  <2> QED BY <1>1, <2>1
<1>2. CASE f \notin File
  BY <1>2 DEF Opens
<1> QED BY <1>1, <1>2

LEMMA LoadTypes ==
    ASSUME ParserType, Load
    PROVE  ParserType' /\ UNCHANGED <<temp, robotVars>> /\ pc = "load" /\ pc' # "accepted"
<1>1. ASSUME NEW f \in {Main, "missing"}, LoadFile(f)
      PROVE  ParserType' /\ UNCHANGED <<temp, robotVars>> /\ pc = "load" /\ pc' # "accepted"
  <2>1. including' \in Seq(File)
    BY <1>1, OpensType DEF LoadFile, ParserType
  <2>2. filenames' \subseteq File \cup {"missing"}
    BY <1>1, DescriptionAssumption DEF DescriptionAssumption, LoadFile
  <2> QED BY <1>1, <2>1, <2>2 DEF LoadFile, Opens, Reject, ParserType, Status
<1>2. ASSUME NEW f \in File \cup {"missing"}, Include(f)
      PROVE  ParserType' /\ UNCHANGED <<temp, robotVars>> /\ pc = "load" /\ pc' # "accepted"
  <2>1. including' \in Seq(File)
    <3>1. CASE f \in filenames
      BY <1>2, <3>1 DEF Include, ParserType
    <3>2. CASE f \notin filenames
      BY <1>2, <3>2, OpensType DEF Include, ParserType
    <3> QED BY <3>1, <3>2
  <2>2. filenames' \subseteq File \cup {"missing"}
    BY <1>2 DEF Include, ParserType
  <2> QED BY <1>2, <2>1, <2>2 DEF Include, Opens, Reject, ParserType, Status
<1>3. CASE UnreadableLine
  BY <1>3 DEF UnreadableLine, Reject, ParserType, Status
<1>4. CASE EndOfIncluded
  <2>1. including' \in Seq(File)
    BY <1>4, FrontType DEF EndOfIncluded, ParserType
  <2> QED BY <1>4, <2>1 DEF EndOfIncluded, ParserType, Status
<1> QED BY <1>1, <1>2, <1>3, <1>4 DEF Load

LEMMA LinesTypes ==
    ASSUME ParserType, Lines
    PROVE  ParserType' /\ UNCHANGED <<temp, robotVars>> /\ pc # "accepted" /\ pc' # "accepted"
<1> DEFINE Goal == ParserType' /\ UNCHANGED <<temp, robotVars>> /\ pc # "accepted" /\ pc' # "accepted"
<1> USE DEF InFile, InDevice, Status, Device, Sensor
<1>1. ASSUME NEW t \in Device \cup {"other"}, BeginDevice(t)
      PROVE  Goal
  BY <1>1, BlankType DEF BeginDevice, ParserType
<1>2. ASSUME NEW t \in Device \cup {"other"}, EndDevice(t)
      PROVE  Goal
  BY <1>2 DEF EndDevice, ParserType
<1>3. CASE BareKeyword \/ EndFile
  BY <1>3 DEF BareKeyword, EndFile, ParserType
<1>4. ASSUME NEW field \in DOMAIN Blank, Component(field)
      PROVE  Goal
  <2>1. info' \in Info
    BY <1>4, FieldType DEF Component, ParserType
  <2> QED BY <1>4, <2>1 DEF Component, ParserType
<1>5. CASE FaultyComponent
  BY <1>5 DEF FaultyComponent, Reject, ParserType
<1> QED BY <1>1, <1>2, <1>3, <1>4, <1>5 DEF Lines

-----------------------------------------------------------------------------
(* The robot. *)

LEMMA RobotKept ==
    ASSUME RobotType, Reading, NamesDiffer, UNCHANGED <<temp, robotVars>>,
           pc # "accepted", pc' # "accepted"
    PROVE  RobotType' /\ Reading' /\ NamesDiffer' /\ Assembled'
  BY DEF RobotType, Reading, NamesDiffer, Assembled, robotVars

LEMMA RejectedRobot ==
    ASSUME DescInv, pc # "accepted", Reject("ERROR"), info' = Blank,
           UNCHANGED <<including, filenames, device, temp, robotVars>>
    PROVE  DescInv'
<1>1. ParserType'
  BY BlankType DEF DescInv, ParserType, Reject, Status
<1>2. pc' # "accepted"
  BY DEF Reject
<1> QED BY <1>1, <1>2, RobotKept DEF DescInv

LEMMA FinishJointInv ==
    ASSUME DescInv, FinishJoint
    PROVE  DescInv' /\ pc # "accepted"
<1>0. pc = "Joint" /\ info \in Info /\ RobotType /\ Reading /\ NamesDiffer
  BY DEF FinishJoint, Read, DescInv, ParserType
<1>1. CASE Reject("ERROR") /\ UNCHANGED temp
  <2>1. UNCHANGED <<including, filenames, device, temp, robotVars>> /\ info' = Blank
    BY <1>1 DEF FinishJoint
  <2> QED BY <1>0, <1>1, <2>1, RejectedRobot
<1>2. CASE /\ info.software_index # Absent /\ info.software_index \notin DOMAIN temp
           /\ ~NameTaken(temp)
           /\ temp' = PlacedJoint /\ pc' = "file" /\ UNCHANGED status
  <2>1. info.software_index \in Index
    BY <1>0, <1>2 DEF Info
  <2>2. /\ DOMAIN temp' = DOMAIN temp \cup {info.software_index}
        /\ temp'[info.software_index] = info
        /\ \A i \in DOMAIN temp : temp'[i] = temp[i]
        /\ temp' = [i \in DOMAIN temp' |-> temp'[i]]
    BY <1>2 DEF PlacedJoint
  <2>3. /\ temp' \in [DOMAIN temp' -> Info] /\ DOMAIN temp' \subseteq Index
    BY <1>0, <2>1, <2>2 DEF RobotType
  <2>4. UNCHANGED robotVars
    BY DEF FinishJoint
  <2>5. RobotType' /\ NamesDiffer'
    BY <1>0, <2>3, <2>4 DEF RobotType, NamesDiffer, robotVars
  <2>6. \A i, j \in DOMAIN temp' : temp'[i].name = temp'[j].name => i = j
    BY <1>0, <1>2, <2>2 DEF NameTaken, Reading
  <2>7. Reading' /\ Assembled'
    BY <1>0, <1>2, <2>4, <2>6 DEF Reading, Assembled, robotVars
  <2>8. ParserType'
    BY <1>2, BlankType DEF FinishJoint, DescInv, ParserType
  <2> QED BY <1>0, <2>5, <2>7, <2>8 DEF DescInv
<1> QED BY <1>0, <1>1, <1>2 DEF FinishJoint

LEMMA EmptyFunction ==
    ASSUME NEW S
    PROVE  <<>> \in [{} -> S] /\ DOMAIN <<>> = {}
  OBVIOUS

LEMMA FinishJmcInv ==
    ASSUME DescInv, FinishJmc
    PROVE  DescInv' /\ pc # "accepted"
<1>0. pc = "JMC" /\ info \in Info /\ RobotType /\ Reading /\ NamesDiffer
  BY DEF FinishJmc, Read, DescInv, ParserType
<1>1. UNCHANGED <<including, filenames, device, temp, joints, sensors>> /\ info' = Blank
  BY DEF FinishJmc
<1>2. CASE Reject("ERROR") /\ UNCHANGED jmcs
  BY <1>0, <1>1, <1>2, RejectedRobot DEF robotVars
<1>3. CASE pc' = "file" /\ status' = "ERROR" /\ UNCHANGED jmcs
  <2>1. ParserType'
    BY <1>1, <1>3, BlankType DEF DescInv, ParserType, Status
  <2> QED BY <1>0, <1>1, <1>3, <2>1, RobotKept DEF DescInv, robotVars
<1>4. CASE /\ pc' = "file" /\ UNCHANGED status /\ ~NameTaken(jmcs)
           /\ jmcs' = Append(jmcs, [name |-> info.name, address |-> info.address, joints |-> <<>>])
  <2> DEFINE b == [name |-> info.name, address |-> info.address, joints |-> <<>>]
  <2>1. info.name \in Name /\ info.address \in Index
    BY <1>0 DEF Info
  <2>2. b \in HuboJmc
    BY <2>1, EmptyFunction, MadeBoard
  <2>3. b.name = info.name /\ b.joints = <<>> /\ jmcs \in Seq(HuboJmc)
    BY <1>0 DEF RobotType
  <2> HIDE DEF b
  <2>4. /\ jmcs' \in Seq(HuboJmc)
        /\ DOMAIN jmcs' = DOMAIN jmcs \cup {Len(jmcs) + 1}
        /\ jmcs'[Len(jmcs) + 1] = b
        /\ \A k \in DOMAIN jmcs : jmcs'[k] = jmcs[k]
    BY <1>4, <2>2, <2>3 DEF b
  <2>5. RobotType'
    BY <1>0, <1>1, <2>4 DEF RobotType
  <2>6. \A k \in DOMAIN jmcs' : jmcs'[k].joints = <<>>
    BY <1>0, <2>3, <2>4 DEF Reading
  <2>7. \A k, l \in DOMAIN jmcs' : jmcs'[k].name = jmcs'[l].name => k = l
    BY <1>0, <1>4, <2>3, <2>4 DEF NameTaken, NamesDiffer
  <2>8. Reading' /\ NamesDiffer' /\ Assembled'
    BY <1>0, <1>1, <1>4, <2>6, <2>7 DEF Reading, NamesDiffer, Assembled
  <2>9. ParserType'
    BY <1>1, <1>4, BlankType DEF DescInv, ParserType
  <2> QED BY <1>0, <2>5, <2>8, <2>9 DEF DescInv
<1> QED BY <1>0, <1>2, <1>3, <1>4 DEF FinishJmc

LEMMA FinishSensorInv ==
    ASSUME DescInv, NEW d \in Sensor, FinishSensor(d)
    PROVE  DescInv' /\ pc # "accepted"
<1>0. pc = d /\ pc # "accepted" /\ info \in Info /\ RobotType /\ Reading /\ NamesDiffer
  BY DEF FinishSensor, Read, DescInv, ParserType, Sensor
<1>1. UNCHANGED <<including, filenames, device, temp, joints, jmcs>> /\ info' = Blank
  BY DEF FinishSensor
<1>2. CASE Reject("ERROR") /\ UNCHANGED sensors
  BY <1>0, <1>1, <1>2, RejectedRobot DEF robotVars
<1>3. CASE /\ pc' = "file" /\ UNCHANGED status /\ ~NameTaken(sensors)
           /\ sensors' = Append(sensors, [name |-> info.name, sensor |-> d, address |-> info.address])
  <2> DEFINE b == [name |-> info.name, sensor |-> d, address |-> info.address]
             S == [name : Name, sensor : Sensor, address : Index]
  <2>1. b \in S /\ b.name = info.name /\ sensors \in Seq(S)
    BY <1>0 DEF Info, RobotType
  <2> HIDE DEF b, S
  <2>2. /\ sensors' \in Seq(S)
        /\ DOMAIN sensors' = DOMAIN sensors \cup {Len(sensors) + 1}
        /\ sensors'[Len(sensors) + 1] = b
        /\ \A k \in DOMAIN sensors : sensors'[k] = sensors[k]
    BY <1>3, <2>1 DEF b
  <2>3. RobotType'
    BY <1>0, <1>1, <2>2 DEF RobotType, S
  <2>4. \A k, l \in DOMAIN sensors' : sensors'[k].name = sensors'[l].name => k = l
    BY <1>0, <1>3, <2>1, <2>2 DEF NameTaken, NamesDiffer
  <2>5. Reading' /\ NamesDiffer' /\ Assembled'
    BY <1>0, <1>1, <1>3, <2>4 DEF Reading, NamesDiffer, Assembled
  <2>6. ParserType'
    BY <1>1, <1>3, BlankType DEF DescInv, ParserType
  <2> QED BY <1>0, <2>3, <2>5, <2>6 DEF DescInv
<1> QED BY <1>0, <1>2, <1>3 DEF FinishSensor

LEMMA FinishMetaInv ==
    ASSUME DescInv, FinishMeta
    PROVE  DescInv' /\ pc # "accepted"
<1>1. pc # "accepted" /\ pc' # "accepted"
  BY DEF FinishMeta, Read
<1>2. ParserType'
  BY DEF FinishMeta, parserVars, DescInv, ParserType
<1> QED BY <1>1, <1>2, RobotKept DEF FinishMeta, DescInv

-----------------------------------------------------------------------------
(* Putting the joints into the slots of the boards. *)

LEMMA SlotOf ==
    ASSUME RobotType, NEW k \in DOMAIN jmcs, NEW h \in Slots(k)
    PROVE  /\ InSlot(k, h) \in DOMAIN temp /\ temp[InSlot(k, h)].jmc_name = jmcs[k].name
           /\ temp[InSlot(k, h)].hardware_index = h
<1>1. \E i \in OnBoard(k) : temp[i].hardware_index = h
  BY DEF Slots
<1>2. InSlot(k, h) \in OnBoard(k) /\ temp[InSlot(k, h)].hardware_index = h
  BY <1>1 DEF InSlot
<1> QED BY <1>2 DEF OnBoard

LEMMA SlotsAreNumbers ==
    ASSUME RobotType, NEW k \in DOMAIN jmcs
    PROVE  Slots(k) \in SUBSET Nat
<1>1. ASSUME NEW i \in DOMAIN temp
      PROVE  temp[i].hardware_index \in Nat
  <2>1. temp[i].hardware_index \in Index
    BY <1>1 DEF RobotType, Info
  <2>2. MaxIndex \in Nat
    BY DescriptionAssumption DEF DescriptionAssumption
  <2> QED BY <2>1, <2>2 DEF Index
<1> QED BY <1>1 DEF Slots, OnBoard

LEMMA PostParseInv ==
    ASSUME DescInv, PostParse
    PROVE  DescInv' /\ pc # "accepted"
<1>0. pc = "file" /\ info \in Info /\ RobotType /\ Reading /\ NamesDiffer
  BY DEF PostParse, DescInv, ParserType
<1>1. UNCHANGED <<including, status, info, sensors>> /\ temp' = <<>> /\ filenames' = {} /\ device' = NoName
  BY DEF PostParse
<1>2. ParserType'
  <2>1. pc' \in {"accepted", "rejected"} /\ device' \in Device \cup {NoName, "other"}
    BY <1>1 DEF PostParse
  <2>2. filenames' \subseteq File \cup {"missing"}
    BY <1>1
  <2> QED BY <1>1, <2>1, <2>2 DEF DescInv, ParserType
<1>3. temp' \in [DOMAIN temp' -> Info] /\ DOMAIN temp' = {}
  BY <1>1, EmptyFunction
<1>4. CASE ~Complete
  <2>1. pc' = "rejected" /\ UNCHANGED <<joints, jmcs>>
    BY <1>4 DEF PostParse
  <2>2. RobotType'
    BY <1>0, <1>1, <1>3, <2>1 DEF RobotType
  <2>3. Reading' /\ NamesDiffer' /\ Assembled'
    BY <1>0, <1>1, <1>3, <2>1 DEF Reading, NamesDiffer, Assembled
  <2> QED BY <1>0, <1>2, <2>2, <2>3 DEF DescInv
<1>5. CASE Complete
  <2>1. /\ pc' = "accepted" /\ joints' = temp
        /\ jmcs' = [k \in DOMAIN jmcs |->
                       [jmcs[k] EXCEPT !.joints = [h \in Slots(k) |-> InSlot(k, h)]]]
    BY <1>5 DEF PostParse
  <2>2. jmcs \in Seq(HuboJmc)
    BY <1>0 DEF RobotType
  <2>3. ASSUME NEW k \in DOMAIN jmcs
        PROVE  /\ jmcs'[k] \in HuboJmc
               /\ jmcs'[k].name = jmcs[k].name
               /\ jmcs'[k].joints = [h \in Slots(k) |-> InSlot(k, h)]
    <3> DEFINE f == [h \in Slots(k) |-> InSlot(k, h)]
    <3>1. jmcs[k] \in HuboJmc
      BY <2>2
    <3>2. /\ jmcs[k] = [name |-> jmcs[k].name, address |-> jmcs[k].address, joints |-> jmcs[k].joints]
          /\ jmcs[k].name \in Name /\ jmcs[k].address \in Index
      BY <3>1 DEF HuboJmc
    <3>3. f \in [Slots(k) -> Index]
      BY <1>0, SlotOf DEF RobotType
    <3>4. Slots(k) \in SUBSET Nat
      BY <1>0, SlotsAreNumbers
    <3> HIDE DEF f
    <3>5. [name |-> jmcs[k].name, address |-> jmcs[k].address, joints |-> f] \in HuboJmc
      BY <3>2, <3>3, <3>4, MadeBoard
    <3>6. jmcs'[k] = [jmcs[k] EXCEPT !.joints = f]
      BY <2>1 DEF f
    <3>7. jmcs'[k] = [name |-> jmcs[k].name, address |-> jmcs[k].address, joints |-> f]
      BY <3>2, <3>6
    <3> QED BY <3>5, <3>7 DEF f
  <2>4. DOMAIN jmcs' = DOMAIN jmcs /\ jmcs' \in Seq(HuboJmc)
    <3>1. DOMAIN jmcs' = DOMAIN jmcs /\ jmcs' = [k \in DOMAIN jmcs |-> jmcs'[k]]
      BY <2>1
    <3>2. DOMAIN jmcs = 1 .. Len(jmcs) /\ Len(jmcs) \in Nat
      BY <2>2
    <3>3. jmcs' \in [1 .. Len(jmcs) -> HuboJmc]
      BY <2>3, <3>1, <3>2
    <3> QED BY <3>1, <3>2, <3>3, SeqDef
  <2>5. RobotType'
    BY <1>0, <1>1, <1>3, <2>1, <2>4 DEF RobotType
  <2>6. NamesDiffer'
    BY <1>0, <1>1, <2>3, <2>4 DEF NamesDiffer
  <2>7. Reading'
    BY <2>1 DEF Reading
  <2>8. Numbered(DOMAIN joints') /\ \A i, j \in DOMAIN joints' : joints'[i].name = joints'[j].name => i = j
    BY <1>0, <1>5, <2>1 DEF Complete, Reading
  <2>9. ASSUME NEW k \in DOMAIN jmcs'
        PROVE  /\ Numbered(DOMAIN jmcs'[k].joints)
               /\ \A h \in DOMAIN jmcs'[k].joints : InPlace(k, h)'
    <3>1. k \in DOMAIN jmcs /\ Sorted(k)
      BY <1>5, <2>4 DEF Complete
    <3>2. DOMAIN jmcs'[k].joints = Slots(k) /\ jmcs'[k].name = jmcs[k].name
      BY <2>3, <3>1
    <3>3. ASSUME NEW h \in Slots(k)
          PROVE  InPlace(k, h)'
      <4>1. jmcs'[k].joints[h] = InSlot(k, h)
        BY <2>3, <3>1
      <4> QED BY <1>0, <2>1, <3>1, <3>2, <4>1, SlotOf DEF InPlace
    <3> QED BY <3>1, <3>2, <3>3 DEF Sorted
  <2>10. ASSUME NEW i \in DOMAIN joints'
         PROVE  HasPlace(i)'
    <3>1. i \in DOMAIN temp /\ joints'[i] = temp[i]
      BY <2>1
    <3>2. PICK k \in DOMAIN jmcs : jmcs[k].name = temp[i].jmc_name
      BY <1>5, <3>1 DEF Complete, JmcIndexes
    <3> DEFINE h == temp[i].hardware_index
    <3>3. i \in OnBoard(k) /\ h \in Slots(k) /\ SlotsDiffer(k)
      BY <1>5, <3>1, <3>2 DEF OnBoard, Slots, Complete, Sorted
    <3>4. InSlot(k, h) \in OnBoard(k) /\ temp[InSlot(k, h)].hardware_index = h
      BY <1>0, <3>3, SlotOf DEF OnBoard
    <3>5. InSlot(k, h) = i
      BY <3>3, <3>4 DEF SlotsDiffer
    <3>6. jmcs'[k].joints[h] = i /\ h \in DOMAIN jmcs'[k].joints /\ jmcs'[k].name = temp[i].jmc_name
      BY <2>3, <3>2, <3>3, <3>5
    <3> QED BY <2>4, <3>1, <3>2, <3>6 DEF HasPlace
  <2>11. jmcs' # <<>> => status' # "ERROR"
    <3> SUFFICES ASSUME status = "ERROR" PROVE jmcs' = <<>>
      BY <1>1
    <3>1. DOMAIN jmcs' = {}
      BY <1>5, <2>4 DEF Complete
    <3>2. Len(jmcs') = 0
      BY <2>4, <3>1
    <3> QED BY <2>4, <3>2, EmptySeq
  <2>12. Assembled'
    BY <2>8, <2>9, <2>10, <2>11 DEF Assembled
  <2> QED BY <1>0, <1>2, <2>5, <2>6, <2>7, <2>12 DEF DescInv
<1> QED BY <1>0, <1>4, <1>5

LEMMA DescNextInv ==
    ASSUME DescInv, DescNext
    PROVE  DescInv' /\ pc # "accepted"
<1>1. CASE Load
  <2>1. ParserType' /\ UNCHANGED <<temp, robotVars>> /\ pc = "load" /\ pc' # "accepted"
    BY <1>1, LoadTypes DEF DescInv
  <2> QED BY <2>1, RobotKept DEF DescInv
<1>2. CASE Lines
  <2>1. ParserType' /\ UNCHANGED <<temp, robotVars>> /\ pc # "accepted" /\ pc' # "accepted"
    BY <1>2, LinesTypes DEF DescInv
  <2> QED BY <2>1, RobotKept DEF DescInv
<1>3. CASE Finish
  BY <1>3, FinishJointInv, FinishJmcInv, FinishMetaInv, FinishSensorInv DEF Finish
<1> QED BY <1>1, <1>2, <1>3, PostParseInv DEF DescNext

LEMMA DescInitInv == DescInit => DescInv
<1> SUFFICES ASSUME DescInit PROVE DescInv
  OBVIOUS
<1>1. ParserType
  BY BlankType DEF DescInit, ParserType, Status
<1>2. RobotType
  BY EmptyFunction DEF DescInit, RobotType
<1>3. Reading /\ NamesDiffer /\ Assembled
  BY EmptyFunction DEF DescInit, Reading, NamesDiffer, Assembled
<1> QED BY <1>1, <1>2, <1>3 DEF DescInv

(* A joint is in the one slot of the one board that it names.               *)
LEMMA OnePlace ==
    ASSUME DescInv, pc = "accepted", NEW i \in DOMAIN joints
    PROVE  \E k \in DOMAIN jmcs :
               {ks \in UNION {{l} \X DOMAIN jmcs[l].joints : l \in DOMAIN jmcs} :
                    jmcs[ks[1]].joints[ks[2]] = i} = {<<k, joints[i].hardware_index>>}
<1>1. PICK k \in DOMAIN jmcs : /\ joints[i].jmc_name = jmcs[k].name
                               /\ joints[i].hardware_index \in DOMAIN jmcs[k].joints
                               /\ jmcs[k].joints[joints[i].hardware_index] = i
  BY DEF DescInv, Assembled, HasPlace
<1>2. ASSUME NEW l \in DOMAIN jmcs, NEW h \in DOMAIN jmcs[l].joints, jmcs[l].joints[h] = i
      PROVE  l = k /\ h = joints[i].hardware_index
  <2>1. joints[i].jmc_name = jmcs[l].name /\ joints[i].hardware_index = h
    BY <1>2 DEF DescInv, Assembled, InPlace
  <2> QED BY <1>1, <2>1 DEF DescInv, NamesDiffer
<1> QED BY <1>1, <1>2

LEMMA DescInvIsARobot == DescInv => AcceptedIsARobot
<1> SUFFICES ASSUME DescInv, pc = "accepted" PROVE AcceptedIsARobot
  BY DEF AcceptedIsARobot
<1>1. ASSUME NEW i \in DOMAIN joints
      PROVE  Cardinality({ks \in UNION {{k} \X DOMAIN jmcs[k].joints : k \in DOMAIN jmcs} :
                              jmcs[ks[1]].joints[ks[2]] = i}) = 1
  BY <1>1, OnePlace, FS_Singleton
<1> QED BY <1>1 DEF AcceptedIsARobot, DescInv, Assembled, NamesDiffer

-----------------------------------------------------------------------------
(* What a call asks for, and what the devices do when they are asked. *)

LEMMA RobotStays ==
    ASSUME UNCHANGED robotVars
    PROVE  /\ \A c : Asks(c)' = Asks(c)
           /\ \A c : Meant(c)' = Meant(c) /\ Reaches(c)' = Reaches(c)
           /\ \A m : Receivers(m)' = Receivers(m)
           /\ \A d, m : Does(d, m)' = Does(d, m)
           /\ Boards' = Boards /\ Sensors' = Sensors
           /\ AddressesDiffer' = AddressesDiffer /\ Doable' = Doable
<1>1. joints' = joints /\ jmcs' = jmcs /\ sensors' = sensors
  BY DEF robotVars
<1>2. Boards' = Boards /\ Sensors' = Sensors
  BY <1>1 DEF Boards, Sensors
<1>3. ASSUME NEW c PROVE Asks(c)' = Asks(c)
  BY <1>1 DEF Asks, ForJoint, JmcIndexes, JointInfo
<1>4. ASSUME NEW c PROVE Meant(c)' = Meant(c) /\ Reaches(c)' = Reaches(c)
  <2>1. Meant(c)' = Meant(c)
    BY <1>1 DEF Meant, Named, Switched, Together, Kind
  <2> QED BY <1>1, <2>1 DEF Reaches, Named
<1>5. ASSUME NEW m PROVE Receivers(m)' = Receivers(m)
  BY <1>1, <1>2 DEF Receivers, OfKind
<1>6. ASSUME NEW d, NEW m PROVE Does(d, m)' = Does(d, m)
  BY <1>1 DEF Does, BoardDoes, ImuDoes, FtDoes
<1>7. AddressesDiffer' = AddressesDiffer /\ Doable' = Doable
  BY <1>1 DEF AddressesDiffer, Doable
<1> QED BY <1>2, <1>3, <1>4, <1>5, <1>6, <1>7

LEMMA SensorKind ==
    ASSUME DescInv, NEW s \in DOMAIN sensors
    PROVE  sensors[s].sensor \in {"IMU", "FT"}
<1> DEFINE S == [name : Name, sensor : Sensor, address : Index]
<1>1. sensors \in Seq(S)
  BY DEF DescInv, RobotType
<1>2. sensors[s].sensor \in Sensor
  <2>1. sensors[s] \in S
    <3> HIDE DEF S
    <3> QED BY <1>1
  <2> QED BY <2>1
<1> QED BY <1>2 DEF Sensor

(* The joints of a board are those that name it.                            *)
LEMMA JointsOfBoard ==
    ASSUME DescInv, pc = "accepted", NEW k \in DOMAIN jmcs
    PROVE  Range(jmcs[k].joints) = {i \in DOMAIN joints : joints[i].jmc_name = jmcs[k].name}
<1>1. ASSUME NEW i \in Range(jmcs[k].joints)
      PROVE  i \in DOMAIN joints /\ joints[i].jmc_name = jmcs[k].name
  <2>1. PICK h \in DOMAIN jmcs[k].joints : jmcs[k].joints[h] = i
    BY <1>1 DEF Range
  <2> QED BY <2>1 DEF DescInv, Assembled, InPlace
<1>2. ASSUME NEW i \in DOMAIN joints, joints[i].jmc_name = jmcs[k].name
      PROVE  i \in Range(jmcs[k].joints)
  <2>1. PICK l \in DOMAIN jmcs : /\ joints[i].jmc_name = jmcs[l].name
                                 /\ joints[i].hardware_index \in DOMAIN jmcs[l].joints
                                 /\ jmcs[l].joints[joints[i].hardware_index] = i
    BY DEF DescInv, Assembled, HasPlace
  <2>2. l = k
    BY <1>2, <2>1 DEF DescInv, NamesDiffer
  <2> QED BY <2>1, <2>2 DEF Range
<1> QED BY <1>1, <1>2

LEMMA JointsOfAll ==
    ASSUME DescInv, pc = "accepted"
    PROVE  /\ \A k \in DOMAIN jmcs : Range(jmcs[k].joints) \subseteq DOMAIN joints
           /\ \A i \in DOMAIN joints : \E k \in DOMAIN jmcs : i \in Range(jmcs[k].joints)
<1>1. \A i \in DOMAIN joints : \E k \in DOMAIN jmcs : joints[i].jmc_name = jmcs[k].name
  BY DEF DescInv, Assembled, HasPlace
<1> QED BY <1>1, JointsOfBoard

Caused(m) == UNION {Does(d, m) : d \in Receivers(m)}

LEMMA AllBoards ==
    ASSUME DescInv, pc = "accepted", NEW id \in {"HOME_JOINT", "JOINT_CTRL_SWITCH"},
           NEW on \in BOOLEAN
    PROVE  Caused(ForAll(id, on)) =
               Named(IF id = "HOME_JOINT" THEN "home" ELSE IF on THEN "on" ELSE "off", DOMAIN joints)
<1> DEFINE m == ForAll(id, on)
           what == IF id = "HOME_JOINT" THEN "home" ELSE IF on THEN "on" ELSE "off"
<1>1. m.cmd_id = id /\ m.all = TRUE /\ m.on = on
  BY DEF ForAll, Message
<1>2. Receivers(m) = Boards
  BY <1>1 DEF Receivers
<1>3. ASSUME NEW k \in DOMAIN jmcs
      PROVE  Does(<<"JMC", k>>, m) = {<<what, i>> : i \in Range(jmcs[k].joints)}
  <2> HIDE DEF m
  <2>1. Does(<<"JMC", k>>, m) = BoardDoes(k, m)
    BY DEF Does
  <2>2. CASE id = "HOME_JOINT"
    BY <1>1, <2>1, <2>2 DEF BoardDoes
  <2>3. CASE id = "JOINT_CTRL_SWITCH"
    BY <1>1, <2>1, <2>3 DEF BoardDoes
  <2> QED BY <2>2, <2>3
<1> HIDE DEF m, what
<1>4. ASSUME NEW x \in Caused(m)
      PROVE  \E i \in DOMAIN joints : x = <<what, i>>
  <2>1. PICK k \in DOMAIN jmcs : x \in Does(<<"JMC", k>>, m)
    BY <1>2, <1>4 DEF Caused, Boards
  <2> QED BY <1>3, <2>1, JointsOfAll
<1>5. ASSUME NEW i \in DOMAIN joints
      PROVE  <<what, i>> \in Caused(m)
  <2>1. PICK k \in DOMAIN jmcs : i \in Range(jmcs[k].joints)
    BY JointsOfAll
  <2>2. <<what, i>> \in Does(<<"JMC", k>>, m) /\ <<"JMC", k>> \in Receivers(m)
    BY <1>2, <1>3, <2>1 DEF Boards
  <2> QED BY <2>2 DEF Caused
<1>6. Caused(m) = {<<what, i>> : i \in DOMAIN joints}
  BY <1>4, <1>5
<1> QED BY <1>6 DEF Named, m, what

LEMMA OneJoint ==
    ASSUME DescInv, pc = "accepted", NEW id \in {"HOME_JOINT", "JOINT_CTRL_SWITCH"},
           NEW i, NEW on \in BOOLEAN
    PROVE  Caused(ForJoint(id, i, on)) =
               IF id = "HOME_JOINT" THEN Named("home", {i} \cap DOMAIN joints)
               ELSE Named(IF on THEN "on" ELSE "off",
                          IF i \in DOMAIN joints THEN Together(i) ELSE {})
<1> DEFINE m == ForJoint(id, i, on)
<1>1. CASE i \notin DOMAIN joints
  <2>1. m.cmd_id = id /\ m.all = FALSE /\ m.device_id = Invalid
    BY <1>1 DEF ForJoint, Message
  <2>2. DOMAIN jmcs \subseteq Nat
    BY DEF DescInv, RobotType
  <2>3. Receivers(m) = {}
    <3> HIDE DEF m
    <3>1. Receivers(m) = Boards \cap {<<"JMC", Invalid>>}
      BY <2>1 DEF Receivers
    <3>2. Invalid \notin DOMAIN jmcs
      BY <2>2 DEF Invalid
    <3> QED BY <3>1, <3>2 DEF Boards
  <2> HIDE DEF m
  <2>4. Caused(m) = {}
    BY <2>3 DEF Caused
  <2> QED BY <1>1, <2>4 DEF Named, m
<1>2. CASE i \in DOMAIN joints
  <2> DEFINE h == joints[i].hardware_index
  <2>1. PICK k \in DOMAIN jmcs : /\ joints[i].jmc_name = jmcs[k].name
                                 /\ h \in DOMAIN jmcs[k].joints /\ jmcs[k].joints[h] = i
    BY <1>2 DEF DescInv, Assembled, HasPlace
  <2>2. JmcIndexes(joints[i].jmc_name) = {k}
    BY <2>1 DEF JmcIndexes, DescInv, NamesDiffer
  <2>3. (CHOOSE l \in JmcIndexes(joints[i].jmc_name) : TRUE) = k
    BY <2>2
  <2>4. /\ m.cmd_id = id /\ m.all = FALSE /\ m.on = on
        /\ m.device_id = k /\ m.component_id = h
    BY <1>2, <2>3 DEF ForJoint, JointInfo, Message
  <2> HIDE DEF m
  <2>5. Receivers(m) = {<<"JMC", k>>}
    BY <2>1, <2>4 DEF Receivers, Boards
  <2>6. Caused(m) = BoardDoes(k, m)
    <3>1. Does(<<"JMC", k>>, m) = BoardDoes(k, m)
      BY DEF Does
    <3> QED BY <2>5, <3>1 DEF Caused
  <2>7. CASE id = "HOME_JOINT"
    <3>1. BoardDoes(k, m) = {<<"home", jmcs[k].joints[g]>> : g \in DOMAIN jmcs[k].joints \cap {h}}
      BY <2>4, <2>7 DEF BoardDoes
    <3>2. BoardDoes(k, m) = {<<"home", i>>}
      BY <2>1, <3>1
    <3> QED BY <1>2, <2>6, <2>7, <3>2 DEF Named, m
  <2>8. CASE id = "JOINT_CTRL_SWITCH"
    <3>1. BoardDoes(k, m) = {<<IF on THEN "on" ELSE "off", j>> : j \in Range(jmcs[k].joints)}
      BY <2>4, <2>8 DEF BoardDoes
    <3>2. Range(jmcs[k].joints) = Together(i)
      BY <2>1, JointsOfBoard DEF Together
    <3> QED BY <1>2, <2>6, <2>8, <3>1, <3>2 DEF Named, m
  <2> QED BY <2>7, <2>8
<1> QED BY <1>1, <1>2

LEMMA SensorDoes ==
    ASSUME DescInv, NEW s \in DOMAIN sensors, NEW m, m.cmd_id = "INIT_SENSOR"
    PROVE  Does(<<"Sensor", s>>, m) = {<<"initialize", s>>}
<1>1. CASE sensors[s].sensor = "IMU"
  BY <1>1 DEF Does, ImuDoes
<1>2. CASE sensors[s].sensor = "FT"
  BY <1>2 DEF Does, FtDoes
<1> QED BY <1>1, <1>2, SensorKind

LEMMA OneSensor ==
    ASSUME DescInv, NEW s
    PROVE  Caused(Message("INIT_SENSOR", s, FALSE, 0, FALSE)) = Named("initialize", {s} \cap DOMAIN sensors)
<1> DEFINE m == Message("INIT_SENSOR", s, FALSE, 0, FALSE)
<1>1. m.cmd_id = "INIT_SENSOR" /\ m.all = FALSE /\ m.device_id = s
  BY DEF Message
<1> HIDE DEF m
<1>2. Receivers(m) = Sensors \cap {<<"Sensor", s>>}
  BY <1>1 DEF Receivers
<1>3. CASE s \in DOMAIN sensors
  <2>1. Receivers(m) = {<<"Sensor", s>>}
    BY <1>2, <1>3 DEF Sensors
  <2>2. Does(<<"Sensor", s>>, m) = {<<"initialize", s>>}
    BY <1>1, <1>3, SensorDoes
  <2> QED BY <1>3, <2>1, <2>2 DEF Caused, Named, m
<1>4. CASE s \notin DOMAIN sensors
  <2>1. Receivers(m) = {}
    BY <1>2, <1>4 DEF Sensors
  <2> QED BY <1>4, <2>1 DEF Caused, Named, m
<1> QED BY <1>3, <1>4

LEMMA AllSensors ==
    ASSUME DescInv
    PROVE  Caused(ForAll("INIT_SENSOR", FALSE)) = Named("initialize", DOMAIN sensors)
<1> DEFINE m == ForAll("INIT_SENSOR", FALSE)
<1>1. m.cmd_id = "INIT_SENSOR" /\ m.all = TRUE
  BY DEF ForAll, Message
<1> HIDE DEF m
<1>2. Receivers(m) = Sensors
  BY <1>1 DEF Receivers
<1>3. \A s \in DOMAIN sensors : Does(<<"Sensor", s>>, m) = {<<"initialize", s>>}
  BY <1>1, SensorDoes
<1>4. ASSUME NEW x \in Caused(m)
      PROVE  \E s \in DOMAIN sensors : x = <<"initialize", s>>
  <2>1. PICK s \in DOMAIN sensors : x \in Does(<<"Sensor", s>>, m)
    BY <1>2, <1>4 DEF Caused, Sensors
  <2> QED BY <1>3, <2>1
<1>5. ASSUME NEW s \in DOMAIN sensors
      PROVE  <<"initialize", s>> \in Caused(m)
  <2>1. <<"initialize", s>> \in Does(<<"Sensor", s>>, m) /\ <<"Sensor", s>> \in Receivers(m)
    BY <1>2, <1>3 DEF Sensors
  <2> QED BY <2>1 DEF Caused
<1> QED BY <1>4, <1>5 DEF Named, m

LEMMA AllFts ==
    ASSUME DescInv
    PROVE  Caused(Message("INIT_ALL_FTS", 1, FALSE, 0, FALSE)) =
               Named("initialize", {s \in DOMAIN sensors : sensors[s].sensor = "FT"})
<1> DEFINE m == Message("INIT_ALL_FTS", 1, FALSE, 0, FALSE)
           Fts == {s \in DOMAIN sensors : sensors[s].sensor = "FT"}
<1>1. m.cmd_id = "INIT_ALL_FTS"
  BY DEF Message
<1> HIDE DEF m
<1>2. Receivers(m) = {<<"Sensor", s>> : s \in Fts}
  BY <1>1 DEF Receivers, OfKind
<1>3. \A s \in Fts : Does(<<"Sensor", s>>, m) = {<<"initialize", s>>}
  BY <1>1 DEF Does, FtDoes
<1> HIDE DEF Fts
<1>4. ASSUME NEW x \in Caused(m)
      PROVE  \E s \in Fts : x = <<"initialize", s>>
  <2>1. PICK s \in Fts : x \in Does(<<"Sensor", s>>, m)
    BY <1>2, <1>4 DEF Caused
  <2> QED BY <1>3, <2>1
<1>5. ASSUME NEW s \in Fts
      PROVE  <<"initialize", s>> \in Caused(m)
  <2>1. <<"initialize", s>> \in Does(<<"Sensor", s>>, m) /\ <<"Sensor", s>> \in Receivers(m)
    BY <1>2, <1>3
  <2> QED BY <2>1 DEF Caused
<1>6. Caused(m) = Named("initialize", Fts)
  BY <1>4, <1>5 DEF Named
<1> QED BY <1>6 DEF m, Fts

(* Through both numberings, what is done is what the call names.            *)
LEMMA AskedIsMeant ==
    ASSUME DescInv, pc = "accepted", NEW c \in Calls
    PROVE  Caused(Asks(c)) = Reaches(c)
<1>1. CASE c.call = "home_joint"
  BY <1>1, OneJoint DEF Asks, Reaches, Meant
<1>2. CASE c.call = "joint_ctrl_on"
  BY <1>2, OneJoint DEF Asks, Reaches, Meant, Switched
<1>3. CASE c.call = "joint_ctrl_off"
  BY <1>3, OneJoint DEF Asks, Reaches, Meant, Switched
<1>4. CASE c.call = "home_all_joints"
  BY <1>4, AllBoards DEF Asks, Reaches, Meant
<1>5. CASE c.call = "all_joint_ctrl_on"
  BY <1>5, AllBoards DEF Asks, Reaches, Meant
<1>6. CASE c.call = "all_joint_ctrl_off"
  BY <1>6, AllBoards DEF Asks, Reaches, Meant
<1>7. CASE c.call = "initialize_sensor"
  BY <1>7, OneSensor DEF Asks, Reaches, Meant
<1>8. CASE c.call = "initialize_all_imus"
  BY <1>8, OneSensor DEF Asks, Reaches, Meant
<1>9. CASE c.call = "initialize_all_fts"
  BY <1>9, AllFts DEF Asks, Reaches, Meant, Kind
<1>10. CASE c.call = "initialize_all_sensors"
  BY <1>10, AllSensors DEF Asks, Reaches, Meant
<1>11. c.call \in {"home_joint", "joint_ctrl_on", "joint_ctrl_off", "home_all_joints",
                   "all_joint_ctrl_on", "all_joint_ctrl_off", "initialize_sensor",
                   "initialize_all_imus", "initialize_all_fts", "initialize_all_sensors"}
  BY DEF Calls
<1> QED BY <1>1, <1>2, <1>3, <1>4, <1>5, <1>6, <1>7, <1>8, <1>9, <1>10, <1>11

(* What a device is told it does itself, and if it has an address of its    *)
(* own, nobody else does it.                                                *)
LEMMA ReceiverIs ==
    ASSUME NEW m, NEW d \in Receivers(m)
    PROVE  \/ \E k \in DOMAIN jmcs : d = <<"JMC", k>>
           \/ \E s \in DOMAIN sensors : d = <<"Sensor", s>>
  BY DEF Receivers, OfKind, Boards, Sensors

LEMMA OwnFrame ==
    ASSUME NEW m, NEW d \in Receivers(m)
    PROVE  Does(d, m) \subseteq OnBus(d, m)
<1>1. CASE \E k \in DOMAIN jmcs : d = <<"JMC", k>>
  <2>1. PICK k \in DOMAIN jmcs : d = <<"JMC", k>>
    BY <1>1
  <2>2. d \in SameAddress(d)
    BY <2>1 DEF SameAddress, Boards
  <2>3. Refuses(d, m) => Does(d, m) = {}
    BY <2>1 DEF Refuses, Does, BoardDoes
  <2> QED BY <2>2, <2>3 DEF OnBus
<1>2. CASE \E s \in DOMAIN sensors : d = <<"Sensor", s>>
  <2>1. PICK s \in DOMAIN sensors : d = <<"Sensor", s>>
    BY <1>2
  <2>2. d \in SameAddress(d)
    BY <2>1 DEF SameAddress, OfKind
  <2>3. ~Refuses(d, m)
    BY <2>1 DEF Refuses, Receivers, OfKind, Boards
  <2> QED BY <2>2, <2>3 DEF OnBus
<1> QED BY <1>1, <1>2, ReceiverIs

LEMMA OnlyFrame ==
    ASSUME AddressesDiffer, NEW m, NEW d \in Receivers(m)
    PROVE  OnBus(d, m) \subseteq Does(d, m)
<1>1. SameAddress(d) = {d}
  <2>1. ASSUME NEW k \in DOMAIN jmcs, d = <<"JMC", k>> PROVE SameAddress(d) = {d}
    <3>1. \A b \in Boards : jmcs[b[2]].address = jmcs[d[2]].address => b = d
      BY <2>1 DEF Boards, AddressesDiffer
    <3> QED BY <2>1, <3>1 DEF SameAddress, Boards
  <2>2. ASSUME NEW s \in DOMAIN sensors, d = <<"Sensor", s>> PROVE SameAddress(d) = {d}
    <3>1. \A b \in OfKind(sensors[s].sensor) : sensors[b[2]].address = sensors[s].address => b = d
      BY <2>2 DEF OfKind, AddressesDiffer
    <3>2. d \in OfKind(sensors[s].sensor)
      BY <2>2 DEF OfKind
    <3> QED BY <2>2, <3>1, <3>2 DEF SameAddress
  <2> QED BY <2>1, <2>2, ReceiverIs
<1> QED BY <1>1 DEF OnBus

LEMMA OnBusType ==
    ASSUME DescInv, pc = "accepted", NEW c \in Calls, NEW m, m = Asks(c), NEW d \in Receivers(m)
    PROVE  OnBus(d, m) \subseteq Doable
<1>1. CASE \E k \in DOMAIN jmcs : d = <<"JMC", k>>
  <2>1. PICK k \in DOMAIN jmcs : d = <<"JMC", k>>
    BY <1>1
  <2>2. m.cmd_id \notin {"INIT_SENSOR", "INIT_ALL_FTS", "INIT_ALL_IMUS"}
    BY <2>1 DEF Receivers, OfKind, Sensors
  <2>3. m.cmd_id \in {"HOME_JOINT", "JOINT_CTRL_SWITCH"} /\ m.all \in BOOLEAN
    BY <2>2 DEF Calls, Asks, ForJoint, ForAll, Message
  <2>4. ASSUME NEW b \in Boards PROVE Does(b, m) \subseteq Doable
    <3>1. PICK l \in DOMAIN jmcs : b = <<"JMC", l>>
      BY DEF Boards
    <3>2. Range(jmcs[l].joints) \subseteq DOMAIN joints
      BY JointsOfAll
    <3>3. Does(b, m) = BoardDoes(l, m)
      BY <3>1 DEF Does
    <3> QED BY <2>3, <3>2, <3>3 DEF BoardDoes, Doable, Range
  <2>5. SameAddress(d) \subseteq Boards
    BY <2>1 DEF SameAddress
  <2> QED BY <2>4, <2>5 DEF OnBus
<1>2. CASE \E s \in DOMAIN sensors : d = <<"Sensor", s>>
  <2>1. PICK s \in DOMAIN sensors : d = <<"Sensor", s>>
    BY <1>2
  <2>2. ASSUME NEW b \in SameAddress(d) PROVE Does(b, m) \subseteq Doable
    <3>1. PICK t \in DOMAIN sensors : b = <<"Sensor", t>>
      BY <2>1, <2>2 DEF SameAddress, OfKind
    <3>2. Does(b, m) \subseteq {<<"initialize", t>>}
      BY <3>1 DEF Does, ImuDoes, FtDoes
    <3> QED BY <3>2 DEF Doable
  <2> QED BY <2>2 DEF OnBus
<1> QED BY <1>1, <1>2, ReceiverIs

-----------------------------------------------------------------------------
(* The commands on their way. *)

LEMMA RingType ==
    ASSUME NEW S, NEW ch \in ChannelOf(S, Depth)
    PROVE  /\ ch.unread \in Seq(S) /\ Len(ch.unread) <= Depth /\ ch.lapped \in BOOLEAN
           /\ ch = [unread |-> ch.unread, lapped |-> ch.lapped]
  BY DEF ChannelOf

LEMMA MadeRing ==
    ASSUME NEW S, NEW q \in Seq(S), Len(q) <= Depth, NEW b \in BOOLEAN
    PROVE  [unread |-> q, lapped |-> b] \in ChannelOf(S, Depth)
  BY DEF ChannelOf

(* What ach_put does to what the receiver can read.                         *)
LEMMA PutRing ==
    ASSUME NEW S, NEW f \in S, auxChan \in ChannelOf(S, Depth),
           auxChan' = Put(auxChan, Depth, f)
    PROVE  /\ auxChan' \in ChannelOf(S, Depth)
           /\ auxChan'.unread # <<>>
           /\ Len(auxChan'.unread) <= Len(auxChan.unread) + 1
           /\ ~auxChan'.lapped =>
                  /\ ~auxChan.lapped
                  /\ auxChan'.unread = Append(auxChan.unread, f)
<1> DEFINE u == auxChan.unread
<1>0. u \in Seq(S) /\ Len(u) <= Depth /\ auxChan.lapped \in BOOLEAN
      /\ auxChan = [unread |-> u, lapped |-> auxChan.lapped] /\ Depth \in Nat /\ Depth > 0
  BY RingType, AuxAssumption DEF AuxAssumption
<1>1. CASE Len(u) < Depth
  <2>1. auxChan' = [unread |-> Append(u, f), lapped |-> auxChan.lapped]
    <3>1. auxChan' = [auxChan EXCEPT !.unread = Append(u, f)]
      BY <1>1 DEF Put
    <3> HIDE DEF u
    <3> QED BY <1>0, <3>1
  <2> HIDE DEF u
  <2>2. Append(u, f) \in Seq(S) /\ Len(Append(u, f)) = Len(u) + 1 /\ Append(u, f) # <<>>
    BY <1>0
  <2>3. Len(Append(u, f)) <= Depth
    BY <1>0, <1>1, <2>2
  <2>4. auxChan'.unread = Append(u, f) /\ auxChan'.lapped = auxChan.lapped
    BY <2>1
  <2>5. auxChan' \in ChannelOf(S, Depth)
    BY <1>0, <2>1, <2>2, <2>3, MadeRing
  <2> QED BY <1>0, <2>2, <2>4, <2>5 DEF u
<1>2. CASE ~(Len(u) < Depth)
  <2>1. auxChan' = [unread |-> Append(Tail(u), f), lapped |-> TRUE]
    BY <1>2 DEF Put
  <2> HIDE DEF u
  <2>2. u # <<>> /\ Len(u) = Depth
    BY <1>0, <1>2
  <2>3. Tail(u) \in Seq(S) /\ Len(Tail(u)) = Len(u) - 1
    BY <1>0, <2>2
  <2>4. Append(Tail(u), f) \in Seq(S) /\ Len(Append(Tail(u), f)) = Len(u) /\ Append(Tail(u), f) # <<>>
    <3> DEFINE t == Tail(u)
    <3>1. t \in Seq(S) /\ Len(t) = Len(u) - 1
      BY <2>3
    <3> HIDE DEF t
    <3>2. Append(t, f) \in Seq(S) /\ Len(Append(t, f)) = Len(t) + 1 /\ Append(t, f) # <<>>
      BY <3>1
    <3>3. Len(u) \in Nat
      BY <1>0
    <3>4. Len(t) + 1 = Len(u)
      BY <3>1, <3>3
    <3> QED BY <3>2, <3>4 DEF t
  <2>5. auxChan'.unread = Append(Tail(u), f) /\ auxChan'.lapped = TRUE
    BY <2>1
  <2>6. auxChan' \in ChannelOf(S, Depth)
    BY <1>0, <2>1, <2>4, MadeRing
  <2> QED BY <1>0, <2>4, <2>5, <2>6 DEF u
<1> QED BY <1>1, <1>2

(* More calls, more that may be on the channel.                             *)
LEMMA WiderRing ==
    ASSUME NEW S, NEW T, S \subseteq T, NEW ch \in ChannelOf(S, Depth)
    PROVE  ch \in ChannelOf(T, Depth)
  BY DEF ChannelOf

LEMMA FlushedRing ==
    ASSUME NEW S
    PROVE  Flushed \in ChannelOf(S, Depth) /\ Flushed.unread = <<>> /\ Flushed.lapped = FALSE
<1>1. <<>> \in Seq(S) /\ Len(<<>>) = 0
  OBVIOUS
<1>2. Len(<<>>) <= Depth
  BY <1>1, AuxAssumption DEF AuxAssumption
<1>3. Flushed \in ChannelOf(S, Depth)
  BY <1>1, <1>2, MadeRing DEF Flushed
<1> QED BY <1>3 DEF Flushed

LEMMA CallsInit == AuxInit => CallsInv
<1> SUFFICES ASSUME AuxInit PROVE CallsInv
  OBVIOUS
<1>0. MaxCalls \in Nat /\ Depth \in Nat
  BY AuxAssumption DEF AuxAssumption
<1>1. Flushed \in ChannelOf(Ours, Depth) /\ Flushed.unread = <<>> /\ Flushed.lapped = FALSE
  BY FlushedRing
<1>2. DOMAIN pending = {} /\ calls = {} /\ asked = 0
  BY EmptyFunction DEF AuxInit
<1>3. Ours = {}
  BY <1>2 DEF Ours
<1>4. CallsType
  <2>1. asked \in 0 .. MaxCalls
    BY <1>0, <1>2
  <2>2. receiving \in BOOLEAN /\ missed \in BOOLEAN /\ auxChan \in ChannelOf(Ours, Depth)
    BY <1>1 DEF AuxInit
  <2> QED BY <1>2, <2>1, <2>2 DEF CallsType
<1>5. Counted
  BY <1>1, <1>2 DEF AuxInit, Counted
<1> QED BY <1>2, <1>3, <1>4, <1>5 DEF AuxInit, CallsInv, Quiet, ForWhomItIs, AllFollowed, OnlyMeant,
                                         DoneType

(* While the description is read.                                           *)
LEMMA DescCalls ==
    ASSUME CallsInv, pc # "accepted", UNCHANGED auxVars
    PROVE  CallsInv'
<1>0. /\ calls' = {} /\ auxChan' = Flushed /\ receiving' = FALSE /\ pending' = <<>>
      /\ frames' = {} /\ missed' = FALSE /\ asked' = asked
  BY DEF CallsInv, Quiet, CallsType, auxVars
<1>1. Flushed.unread = <<>> /\ Flushed.lapped = FALSE /\ DOMAIN <<>> = {}
  BY EmptyFunction DEF Flushed
<1>2. Ours' = {} /\ DOMAIN pending' = {}
  BY <1>0, <1>1 DEF Ours
<1>3. Flushed \in ChannelOf(Ours', Depth)
  BY FlushedRing
<1>4. CallsType'
  BY <1>0, <1>2, <1>3 DEF CallsType, CallsInv
<1>5. Counted'
  BY <1>0, <1>1, <1>2 DEF Counted, CallsInv, CallsType
<1> QED BY <1>0, <1>2, <1>4, <1>5 DEF CallsInv, Quiet, ForWhomItIs, AllFollowed, OnlyMeant,
                                         DoneType

LEMMA SendCalls ==
    ASSUME DescInv, CallsInv, NEW c \in Calls, Send(c)
    PROVE  CallsInv'
<1>0. /\ pc = "accepted" /\ pc' = "accepted" /\ UNCHANGED robotVars
      /\ asked < MaxCalls /\ asked' = asked + 1 /\ calls' = calls \cup {c}
      /\ auxChan' = Put(auxChan, Depth, Asks(c))
      /\ UNCHANGED <<receiving, pending, frames, missed>>
  BY DEF Send, descVars, robotVars
<1>1. /\ Ours' = Ours \cup {Asks(c)} /\ Boards' = Boards /\ Sensors' = Sensors
      /\ \A e : Reaches(e)' = Reaches(e)
      /\ AddressesDiffer' = AddressesDiffer /\ Doable' = Doable
      /\ \A m : Receivers(m)' = Receivers(m)
      /\ \A d, m : Does(d, m)' = Does(d, m)
  BY <1>0, RobotStays DEF Ours
<1>2. auxChan \in ChannelOf(Ours', Depth) /\ Asks(c) \in Ours'
  BY <1>1, WiderRing DEF CallsInv, CallsType
<1>3. /\ auxChan' \in ChannelOf(Ours', Depth)
      /\ auxChan'.unread # <<>>
      /\ Len(auxChan'.unread) <= Len(auxChan.unread) + 1
      /\ ~auxChan'.lapped => ~auxChan.lapped /\ auxChan'.unread = Append(auxChan.unread, Asks(c))
  BY <1>0, <1>2, PutRing
<1>4. asked \in Nat /\ MaxCalls \in Nat
  BY AuxAssumption DEF AuxAssumption, CallsInv, CallsType
<1>5. CallsType'
  <2>1. asked' \in 0 .. MaxCalls
    BY <1>0, <1>4
  <2>2. \A d \in DOMAIN pending' : d \in Boards' \cup Sensors' /\ pending'[d] \in Seq(Ours')
    BY <1>0, <1>1 DEF CallsInv, CallsType
  <2> QED BY <1>0, <1>3, <2>1, <2>2 DEF CallsInv, CallsType
<1>6. ForWhomItIs'
  BY <1>0, <1>1 DEF CallsInv, ForWhomItIs
<1>7. Counted'
  <2>1. Len(auxChan.unread) \in Nat /\ Len(auxChan'.unread) \in Nat
    BY <1>2, <1>3, RingType
  <2>2. \A d \in DOMAIN pending : Len(pending[d]) \in Nat
    BY DEF CallsInv, CallsType
  <2>3. Len(auxChan'.unread) <= asked'
    BY <1>0, <1>3, <1>4, <2>1 DEF CallsInv, Counted
  <2>4. \A d \in DOMAIN pending : Len(pending[d]) + Len(auxChan'.unread) <= asked'
    BY <1>0, <1>3, <1>4, <2>1, <2>2 DEF CallsInv, Counted
  <2> QED BY <1>0, <1>3, <2>3, <2>4 DEF CallsInv, Counted
<1>8. AllFollowed'
  <2> SUFFICES ASSUME ~missed, ~auxChan'.lapped, NEW m \in Ours'
               PROVE  Followed(m)'
    BY <1>0 DEF AllFollowed
  <2> DEFINE u == auxChan.unread
  <2>1. u \in Seq(Ours') /\ auxChan'.unread = Append(u, Asks(c)) /\ ~auxChan.lapped
    BY <1>2, <1>3, RingType
  <2> HIDE DEF u
  <2>2. /\ DOMAIN auxChan'.unread = DOMAIN u \cup {Len(u) + 1}
        /\ \A i \in DOMAIN u : auxChan'.unread[i] = u[i]
        /\ auxChan'.unread[Len(u) + 1] = Asks(c)
    BY <2>1
  <2>3. CASE m = Asks(c)
    BY <2>2, <2>3 DEF Followed
  <2>4. CASE m \in Ours
    <3>1. Followed(m)
      BY <2>1, <2>4 DEF CallsInv, AllFollowed
    <3>2. CASE \E i \in DOMAIN u : u[i] = m
      BY <2>2, <3>2 DEF Followed
    <3>3. CASE \A d \in Receivers(m) : Waits(d, m) \/ Does(d, m) \subseteq frames
      BY <1>0, <1>1, <3>3 DEF Followed, Waits
    <3> QED BY <3>1, <3>2, <3>3 DEF Followed, u
  <2> QED BY <1>1, <2>3, <2>4
<1>9. OnlyMeant' /\ DoneType' /\ Quiet'
  BY <1>0, <1>1 DEF CallsInv, OnlyMeant, DoneType, Quiet
<1> QED BY <1>5, <1>6, <1>7, <1>8, <1>9 DEF CallsInv

(* What is on the channel when the receiver is made is thrown away, and     *)
(* told.                                                                    *)
LEMMA OpenCalls ==
    ASSUME DescInv, CallsInv, OpenChannels
    PROVE  CallsInv'
<1>0. /\ pc = "accepted" /\ pc' = "accepted" /\ UNCHANGED robotVars
      /\ auxChan' = Flushed /\ receiving' = TRUE /\ missed' = HasFrame(auxChan)
      /\ UNCHANGED <<pending, asked, calls, frames>> /\ ~receiving
  BY DEF OpenChannels, descVars, robotVars
<1>1. /\ Ours' = Ours /\ Boards' = Boards /\ Sensors' = Sensors
      /\ \A e : Reaches(e)' = Reaches(e)
      /\ AddressesDiffer' = AddressesDiffer /\ Doable' = Doable
      /\ \A m : Receivers(m)' = Receivers(m)
      /\ \A d, m : Does(d, m)' = Does(d, m)
  BY <1>0, RobotStays DEF Ours
<1>2. auxChan' \in ChannelOf(Ours, Depth) /\ auxChan'.unread = <<>> /\ auxChan'.lapped = FALSE
  BY <1>0, FlushedRing
<1>3. pending = <<>> /\ frames = {} /\ ~missed /\ DOMAIN pending = {}
  BY <1>0, EmptyFunction DEF CallsInv, Quiet
<1>4. CallsType'
  <2>1. missed' \in BOOLEAN
    BY <1>0 DEF HasFrame
  <2> QED BY <1>0, <1>1, <1>2, <1>3, <2>1 DEF CallsInv, CallsType
<1>5. ForWhomItIs' /\ OnlyMeant' /\ DoneType' /\ Quiet'
  BY <1>0, <1>1, <1>3 DEF ForWhomItIs, OnlyMeant, DoneType, Quiet
<1>6. Counted'
  <2>1. asked \in Nat
    BY AuxAssumption DEF AuxAssumption, CallsInv, CallsType
  <2> QED BY <1>0, <1>2, <1>3, <2>1 DEF Counted
<1>7. AllFollowed'
  <2> SUFFICES ASSUME ~missed', NEW m \in Ours
               PROVE  Followed(m)'
    BY <1>1 DEF AllFollowed
  <2>1. auxChan.unread = <<>> /\ ~auxChan.lapped
    BY <1>0 DEF HasFrame, CallsInv, Counted
  <2>2. Followed(m)
    BY <1>3, <2>1 DEF CallsInv, AllFollowed
  <2> QED BY <1>0, <1>1, <2>1, <2>2, EmptyFunction DEF Followed, Waits
<1> QED BY <1>4, <1>5, <1>6, <1>7 DEF CallsInv

LEMMA ReceiveCalls ==
    ASSUME DescInv, CallsInv, Receive
    PROVE  CallsInv'
<1> DEFINE u == auxChan.unread
           f == Head(u)
<1>0. /\ receiving /\ pc = "accepted" /\ pc' = "accepted" /\ UNCHANGED robotVars
      /\ u # <<>> /\ missed' = (missed \/ auxChan.lapped)
      /\ auxChan' = [unread |-> Tail(u), lapped |-> FALSE]
      /\ pending' = Registered(f)
      /\ UNCHANGED <<receiving, asked, calls, frames>>
  BY DEF Receive, descVars, robotVars, HasFrame, AfterGet, Next1, CallsInv, Quiet
<1>1. /\ Ours' = Ours /\ Boards' = Boards /\ Sensors' = Sensors
      /\ \A e : Reaches(e)' = Reaches(e)
      /\ AddressesDiffer' = AddressesDiffer /\ Doable' = Doable
      /\ \A m : Receivers(m)' = Receivers(m)
      /\ \A d, m : Does(d, m)' = Does(d, m)
  BY <1>0, RobotStays DEF Ours
<1>2. u \in Seq(Ours) /\ Len(u) <= Depth /\ auxChan.lapped \in BOOLEAN /\ Depth \in Nat
  BY RingType, AuxAssumption DEF AuxAssumption, CallsInv, CallsType
<1>3. /\ f \in Ours /\ f = u[1] /\ Tail(u) \in Seq(Ours) /\ Len(Tail(u)) = Len(u) - 1
      /\ \A i \in DOMAIN Tail(u) : i + 1 \in DOMAIN u /\ Tail(u)[i] = u[i + 1]
      /\ \A i \in DOMAIN u : i # 1 => i - 1 \in DOMAIN Tail(u) /\ Tail(u)[i - 1] = u[i]
  <2> HIDE DEF u
  <2> QED BY <1>0, <1>2
<1>4. auxChan'.unread = Tail(u) /\ auxChan'.lapped = FALSE
  BY <1>0
<1> HIDE DEF f
<1>5. /\ DOMAIN pending' = DOMAIN pending \cup Receivers(f)
      /\ \A d \in DOMAIN pending' :
             pending'[d] = IF d \in Receivers(f) THEN Append(Waiting(d), f) ELSE Waiting(d)
  BY <1>0 DEF Registered
<1>6. ASSUME NEW d \in DOMAIN pending'
      PROVE  /\ Waiting(d) \in Seq(Ours) /\ pending'[d] \in Seq(Ours)
             /\ Len(pending'[d]) <= Len(Waiting(d)) + 1
             /\ Len(pending'[d]) >= 1
             /\ \A i \in DOMAIN Waiting(d) : i \in DOMAIN pending'[d] /\ pending'[d][i] = Waiting(d)[i]
             /\ d \in Receivers(f) => \E i \in DOMAIN pending'[d] : pending'[d][i] = f
             /\ \A i \in DOMAIN pending'[d] :
                    \/ i \in DOMAIN Waiting(d) /\ pending'[d][i] = Waiting(d)[i]
                    \/ d \in Receivers(f) /\ pending'[d][i] = f
  <2>1. Waiting(d) \in Seq(Ours)
    BY EmptySeq DEF Waiting, CallsInv, CallsType
  <2>2. CASE d \in Receivers(f)
    <3>1. pending'[d] = Append(Waiting(d), f)
      BY <1>5, <2>2
    <3>2. PICK w : w = Waiting(d)
      OBVIOUS
    <3>3. w \in Seq(Ours) /\ pending'[d] = Append(w, f)
      BY <2>1, <3>1, <3>2
    <3>4. /\ pending'[d] \in Seq(Ours) /\ Len(pending'[d]) = Len(w) + 1
          /\ Len(w) \in Nat /\ DOMAIN w = 1 .. Len(w)
          /\ DOMAIN pending'[d] = 1 .. Len(w) + 1
          /\ \A i \in 1 .. Len(w) : pending'[d][i] = w[i]
          /\ pending'[d][Len(w) + 1] = f
      BY <1>3, <3>3
    <3> QED BY <2>1, <2>2, <3>2, <3>4
  <2>3. CASE d \notin Receivers(f)
    <3>1. pending'[d] = pending[d] /\ Waiting(d) = pending[d]
      BY <1>5, <2>3 DEF Waiting
    <3>2. Len(pending[d]) >= 1 /\ Len(pending[d]) \in Nat
      BY <1>5, <2>1, <2>3, <3>1 DEF CallsInv, Counted
    <3> QED BY <2>1, <2>3, <3>1, <3>2
  <2> QED BY <2>2, <2>3
<1>7. CallsType'
  <2>1. auxChan' \in ChannelOf(Ours, Depth)
    <3>1. Len(Tail(u)) <= Depth
      BY <1>2, <1>3
    <3> QED BY <1>0, <1>3, <3>1, MadeRing
  <2>2. Receivers(f) \subseteq Boards \cup Sensors
    BY DEF Receivers, OfKind, Sensors
  <2>3. \A d \in DOMAIN pending' : d \in Boards' \cup Sensors' /\ pending'[d] \in Seq(Ours')
    BY <1>1, <1>5, <1>6, <2>2 DEF CallsInv, CallsType
  <2>4. missed' \in BOOLEAN
    BY <1>0, <1>2 DEF CallsInv, CallsType
  <2> QED BY <1>0, <1>1, <2>1, <2>3, <2>4 DEF CallsInv, CallsType
<1>8. ForWhomItIs'
  <2> SUFFICES ASSUME NEW d \in DOMAIN pending', NEW i \in DOMAIN pending'[d]
               PROVE  d \in Receivers(pending'[d][i])
    BY <1>1 DEF ForWhomItIs
  <2>1. CASE i \in DOMAIN Waiting(d) /\ pending'[d][i] = Waiting(d)[i]
    <3>1. d \in DOMAIN pending /\ Waiting(d) = pending[d]
      BY <2>1, EmptyFunction DEF Waiting
    <3> QED BY <2>1, <3>1 DEF CallsInv, ForWhomItIs
  <2> QED BY <1>6, <2>1
<1>9. Counted'
  <2>1. Len(u) \in Nat /\ asked \in Nat /\ Len(u) <= asked /\ Len(u) >= 1
    <3> HIDE DEF u
    <3>1. Len(u) \in Nat /\ Len(u) >= 1
      BY <1>0, <1>2
    <3> QED BY <3>1 DEF u, CallsInv, CallsType, Counted
  <2>2. ASSUME NEW d \in DOMAIN pending'
        PROVE  Len(pending'[d]) >= 1 /\ Len(pending'[d]) + Len(Tail(u)) <= asked
    <3>1. Len(Waiting(d)) + Len(u) <= asked
      <4>1. CASE d \in DOMAIN pending
        BY <4>1 DEF Waiting, CallsInv, Counted
      <4>2. CASE d \notin DOMAIN pending
        <5>1. Len(Waiting(d)) = 0
          BY <4>2 DEF Waiting
        <5> QED BY <2>1, <5>1
      <4> QED BY <4>1, <4>2
    <3>2. Len(Waiting(d)) \in Nat /\ Len(pending'[d]) \in Nat
      BY <1>6
    <3>3. Len(pending'[d]) + Len(Tail(u)) <= asked
      BY <1>3, <1>6, <2>1, <3>1, <3>2
    <3> QED BY <1>6, <3>3
  <2>3. Len(Tail(u)) <= asked
    BY <1>3, <2>1
  <2> QED BY <1>0, <1>4, <2>2, <2>3 DEF Counted
<1>10. AllFollowed'
  <2> SUFFICES ASSUME ~missed', NEW m \in Ours
               PROVE  Followed(m)'
    BY <1>1 DEF AllFollowed
  <2>1. Followed(m)
    BY <1>0 DEF CallsInv, AllFollowed
  <2>2. ASSUME NEW d, Waits(d, m)
        PROVE  Waits(d, m)'
    <3>1. d \in DOMAIN pending' /\ Waiting(d) = pending[d]
      BY <1>5, <2>2 DEF Waits, Waiting
    <3> QED BY <1>6, <2>2, <3>1 DEF Waits
  <2>3. CASE \A d \in Receivers(m) : Waits(d, m) \/ Does(d, m) \subseteq frames
    BY <1>0, <1>1, <2>2, <2>3 DEF Followed
  <2>4. CASE m = f
    BY <1>1, <1>5, <1>6, <2>4 DEF Followed, Waits
  <2>5. ASSUME NEW i \in DOMAIN u, u[i] = m, m # f
        PROVE  Followed(m)'
    <3>1. i # 1
      BY <1>3, <2>5
    <3> QED BY <1>3, <1>4, <2>5, <3>1 DEF Followed
  <2> QED BY <2>1, <2>3, <2>4, <2>5 DEF Followed
<1>11. OnlyMeant' /\ DoneType' /\ Quiet'
  BY <1>0, <1>1 DEF CallsInv, OnlyMeant, DoneType, Quiet
<1> QED BY <1>7, <1>8, <1>9, <1>10, <1>11 DEF CallsInv

LEMMA ProcessCalls ==
    ASSUME DescInv, CallsInv, NEW d \in DOMAIN pending, Process(d)
    PROVE  CallsInv'
<1>0. /\ receiving /\ pc = "accepted" /\ pc' = "accepted" /\ UNCHANGED robotVars
      /\ frames' = frames \cup UNION {OnBus(d, m) : m \in Range(pending[d])}
      /\ pending' = Restrict(pending, DOMAIN pending \ {d})
      /\ UNCHANGED <<receiving, auxChan, asked, calls, missed>>
  BY EmptyFunction DEF Process, descVars, robotVars, CallsInv, Quiet
<1>1. /\ Ours' = Ours /\ Boards' = Boards /\ Sensors' = Sensors
      /\ \A e : Reaches(e)' = Reaches(e)
      /\ AddressesDiffer' = AddressesDiffer /\ Doable' = Doable
      /\ \A m : Receivers(m)' = Receivers(m)
      /\ \A e, m : Does(e, m)' = Does(e, m)
  BY <1>0, RobotStays DEF Ours
<1>2. /\ DOMAIN pending' = DOMAIN pending \ {d}
      /\ \A e \in DOMAIN pending' : pending'[e] = pending[e]
  BY <1>0 DEF Restrict
<1>3. CallsType' /\ ForWhomItIs' /\ Counted' /\ Quiet'
  BY <1>0, <1>1, <1>2 DEF CallsInv, CallsType, ForWhomItIs, Counted, Quiet
<1>4. AllFollowed'
  <2> SUFFICES ASSUME ~missed, ~auxChan.lapped, NEW m \in Ours
               PROVE  Followed(m)'
    BY <1>0, <1>1 DEF AllFollowed
  <2>1. Followed(m)
    BY DEF CallsInv, AllFollowed
  <2>2. CASE \E i \in DOMAIN auxChan.unread : auxChan.unread[i] = m
    BY <1>0, <2>2 DEF Followed
  <2>3. ASSUME \A e \in Receivers(m) : Waits(e, m) \/ Does(e, m) \subseteq frames,
               NEW e \in Receivers(m)
        PROVE  Waits(e, m)' \/ Does(e, m) \subseteq frames'
    <3>1. CASE Does(e, m) \subseteq frames
      BY <1>0, <3>1
    <3>2. CASE Waits(e, m) /\ e = d
      <4>1. m \in Range(pending[d])
        BY <3>2 DEF Waits, Range
      <4>2. Does(d, m) \subseteq OnBus(d, m)
        BY <2>3, <3>2, OwnFrame
      <4> QED BY <1>0, <3>2, <4>1, <4>2
    <3>3. CASE Waits(e, m) /\ e # d
      BY <1>2, <3>3 DEF Waits
    <3> QED BY <2>3, <3>1, <3>2, <3>3
  <2> QED BY <1>1, <2>1, <2>2, <2>3 DEF Followed
<1>5. ASSUME NEW m \in Range(pending[d])
      PROVE  /\ OnBus(d, m) \subseteq Doable
             /\ AddressesDiffer => \E c \in calls : OnBus(d, m) \subseteq Reaches(c)
  <2>1. PICK i \in DOMAIN pending[d] : pending[d][i] = m
    BY <1>5 DEF Range
  <2>2. m \in Ours /\ d \in Receivers(m)
    BY <2>1 DEF CallsInv, CallsType, ForWhomItIs
  <2>3. PICK c \in calls : m = Asks(c)
    BY <2>2 DEF Ours
  <2>4. c \in Calls
    BY <2>3 DEF CallsInv, CallsType
  <2>5. Caused(m) = Reaches(c)
    BY <1>0, <2>3, <2>4, AskedIsMeant
  <2>6. Does(d, m) \subseteq Caused(m)
    BY <2>2 DEF Caused
  <2>7. AddressesDiffer => OnBus(d, m) \subseteq Does(d, m)
    BY <2>2, OnlyFrame
  <2>8. OnBus(d, m) \subseteq Doable
    BY <1>0, <2>2, <2>3, <2>4, OnBusType
  <2> QED BY <2>5, <2>6, <2>7, <2>8
<1>6. OnlyMeant' /\ DoneType'
  BY <1>0, <1>1, <1>5 DEF CallsInv, OnlyMeant, DoneType
<1> QED BY <1>3, <1>4, <1>6 DEF CallsInv

LEMMA CallsNextInv == DescInv /\ CallsInv /\ [AuxNext]_bothVars => DescInv' /\ CallsInv'
<1> SUFFICES ASSUME DescInv, CallsInv, [AuxNext]_bothVars PROVE DescInv' /\ CallsInv'
  OBVIOUS
<1>1. CASE DescNext /\ UNCHANGED auxVars
  BY <1>1, DescNextInv, DescCalls
<1>2. ASSUME UNCHANGED descVars PROVE DescInv'
  BY <1>2 DEF DescInv, ParserType, RobotType, Reading, NamesDiffer, Assembled, InPlace, HasPlace,
              descVars, parserVars, robotVars
<1>3. ASSUME NEW c \in Calls, Send(c) PROVE DescInv' /\ CallsInv'
  BY <1>2, <1>3, SendCalls DEF Send
<1>4. CASE OpenChannels
  BY <1>2, <1>4, OpenCalls DEF OpenChannels
<1>5. CASE Receive
  BY <1>2, <1>5, ReceiveCalls DEF Receive
<1>6. ASSUME NEW d \in DOMAIN pending, Process(d) PROVE DescInv' /\ CallsInv'
  BY <1>2, <1>6, ProcessCalls DEF Process
<1>7. CASE UNCHANGED bothVars
  <2>1. UNCHANGED <<descVars, auxVars>> /\ UNCHANGED robotVars /\ pc' = pc
    BY <1>7 DEF bothVars, descVars
  <2>2. /\ Ours' = Ours /\ Boards' = Boards /\ Sensors' = Sensors
        /\ \A e : Reaches(e)' = Reaches(e)
        /\ AddressesDiffer' = AddressesDiffer /\ Doable' = Doable
        /\ \A m : Receivers(m)' = Receivers(m)
        /\ \A e, m : Does(e, m)' = Does(e, m)
    BY <2>1, RobotStays DEF Ours, auxVars
  <2>3. Quiet' /\ CallsType' /\ ForWhomItIs' /\ Counted' /\ OnlyMeant' /\ DoneType'
    BY <2>1, <2>2 DEF CallsInv, Quiet, CallsType, ForWhomItIs, Counted, OnlyMeant, DoneType, auxVars
  <2>4. AllFollowed'
    BY <2>1, <2>2 DEF CallsInv, AllFollowed, Followed, Waits, auxVars
  <2> QED BY <1>2, <2>1, <2>3, <2>4 DEF CallsInv
<1> QED BY <1>1, <1>3, <1>4, <1>5, <1>6, <1>7 DEF AuxNext

LEMMA AuxInvariant == AuxSpec => [](DescInv /\ CallsInv)
<1>1. AuxInit => DescInv /\ CallsInv
  BY DescInitInv, CallsInit DEF AuxInit
<1> QED BY <1>1, CallsNextInv, PTL DEF AuxSpec

LEMMA InvTypes == DescInv /\ CallsInv => AuxTypeOK
<1> SUFFICES ASSUME DescInv, CallsInv PROVE AuxTypeOK
  OBVIOUS
<1>1. DescTypeOK
  BY DescTypes DEF DescInv
<1>2. Len(auxChan.unread) <= Depth /\ Len(auxChan.unread) \in Nat
  BY RingType DEF CallsInv, CallsType
<1>3. ASSUME NEW d \in DOMAIN pending
      PROVE  d \in Boards \cup Sensors /\ Len(pending[d]) \in 1 .. MaxCalls
  <2>1. Len(pending[d]) \in Nat /\ Len(pending[d]) >= 1 /\ d \in Boards \cup Sensors
        /\ Len(pending[d]) + Len(auxChan.unread) <= asked
    BY <1>3 DEF CallsInv, CallsType, Counted
  <2>2. asked \in 0 .. MaxCalls /\ MaxCalls \in Nat
    BY AuxAssumption DEF AuxAssumption, CallsInv, CallsType
  <2> QED BY <1>2, <2>1, <2>2
<1>4. frames \subseteq ({"home", "on", "off"} \X DOMAIN joints) \cup ({"initialize"} \X DOMAIN sensors)
  BY DEF CallsInv, DoneType, Doable
<1> QED BY <1>1, <1>2, <1>3, <1>4 DEF AuxTypeOK, CallsInv, CallsType

LEMMA Straight ==
    ASSUME NEW c
    PROVE  /\ ~Astray(c) => Reaches(c) = Meant(c)
           /\ Astray(c) => Reaches(c) \subseteq Named("initialize", DOMAIN sensors)
<1>1. CASE c.call = "initialize_all_imus"
  <2>1. Meant(c) = Named("initialize", Kind("IMU"))
    BY <1>1 DEF Meant
  <2> QED BY <1>1, <2>1 DEF Astray, Reaches, Named
<1>2. CASE c.call # "initialize_all_imus"
  BY <1>2 DEF Astray, Reaches
<1> QED BY <1>1, <1>2

LEMMA InvReaches == DescInv /\ CallsInv => CommandsReachWhatTheyName
<1> SUFFICES ASSUME DescInv, CallsInv PROVE CommandsReachWhatTheyName
  OBVIOUS
<1> DEFINE straight == {c \in calls : ~Astray(c)}
           rest == IF straight = calls THEN {} ELSE Named("initialize", DOMAIN sensors)
<1>1. ASSUME AddressesDiffer, NEW x \in frames
      PROVE  x \in rest \cup UNION {Meant(c) : c \in straight}
  <2>1. PICK c \in calls : x \in Reaches(c)
    BY <1>1 DEF CallsInv, OnlyMeant
  <2> QED BY <2>1, Straight
<1>2. ASSUME ~missed, ~HasFrame(auxChan), pending = <<>>, NEW c \in straight
      PROVE  Meant(c) \subseteq frames
  <2>1. auxChan.unread = <<>> /\ DOMAIN pending = {} /\ ~auxChan.lapped
    BY <1>2, EmptyFunction DEF HasFrame, CallsInv, Counted
  <2>2. calls # {} /\ c \in Calls /\ Asks(c) \in Ours
    BY <1>2 DEF CallsInv, CallsType, Ours
  <2>3. pc = "accepted"
    BY <2>2 DEF CallsInv, Quiet
  <2>4. \A d \in Receivers(Asks(c)) : Does(d, Asks(c)) \subseteq frames
    BY <1>2, <2>1, <2>2, EmptyFunction DEF CallsInv, AllFollowed, Followed, Waits
  <2>5. Caused(Asks(c)) \subseteq frames
    BY <2>4 DEF Caused
  <2>6. Caused(Asks(c)) = Reaches(c) /\ Reaches(c) = Meant(c)
    BY <1>2, <2>2, <2>3, AskedIsMeant, Straight
  <2> QED BY <2>5, <2>6
<1> QED BY <1>1, <1>2 DEF CommandsReachWhatTheyName

(* The types of the parser, the robot, the channel, the queues of the       *)
(* devices and what they put on the bus, for any files.                     *)
THEOREM AuxTypesHold == AuxSpec => []AuxTypeOK
  BY AuxInvariant, InvTypes, PTL

(* DdParser and HuboDescription: what parseFile accepts is a robot, each    *)
(* joint in its one slot of its one board, whatever the files say; that no  *)
(* error was reported either holds only if a board was read.                *)
THEOREM AcceptedIsARobotHolds == AuxSpec => []AcceptedIsARobot
<1>1. DescInv /\ CallsInv => AcceptedIsARobot
  BY DescInvIsARobot
<1> QED BY <1>1, AuxInvariant, PTL

(* AuxSender, AuxReceiver and the handlers: the devices do to the joints    *)
(* and sensors what the calls name, all of it unless commands were lost,    *)
(* and nothing else if no two devices have one address; but what            *)
(* initialize_all_imus initializes is left open unless the first sensor is  *)
(* the one IMU there is.                                                    *)
THEOREM CommandsReachHolds == AuxSpec => []CommandsReachWhatTheyName
  BY AuxInvariant, InvReaches, PTL
=============================================================================
