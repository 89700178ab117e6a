------------------------- MODULE PathTransferProofs -------------------------
(***************************************************************************)
(* Theorems about PathTransfer for every set of operators, every length of *)
(* trajectory, number of transfers, patience and channel depth.            *)
(***************************************************************************)
EXTENDS PathTransfer, TLAPS

(* What an operator in the middle of a transfer can rely on.                *)
SendersFit ==
    \A o \in Operator :
        /\ op[o].pc # "idle" => op[o].send \in SendId /\ op[o].chunk < op[o].total
        /\ op[o].pc = "await" => op[o].attempts <= MaxWait /\ op[o].chunk = 0

(* While the player listens, it has every chunk up to the last one taken.   *)
TakenSoFar == pc = "listen" => Consecutive /\ Len(traj) = chunkId + 1

TypeInv == TypeOK /\ SendersFit

PlayInv == TakenSoFar /\ PlaysOnlyWholeTrajectories

-----------------------------------------------------------------------------
(* The input channel. *)

LEMMA PutType ==
    ASSUME NEW ch \in ChannelOf(Chunk, Depth), NEW c \in Chunk
    PROVE  Put(ch, Depth, c) \in ChannelOf(Chunk, Depth)
<1>1. /\ ch.unread \in Seq(Chunk) /\ Len(ch.unread) <= Depth /\ Len(ch.unread) \in Nat
      /\ ch = [unread |-> ch.unread, lapped |-> ch.lapped] /\ ch.lapped \in BOOLEAN
  BY DEF ChannelOf
<1>2. CASE Len(ch.unread) < Depth
  <2>1. /\ Append(ch.unread, c) \in Seq(Chunk)
        /\ Len(Append(ch.unread, c)) <= Depth
    BY <1>1, <1>2, BoundsAssumption
  <2>2. Put(ch, Depth, c) = [unread |-> Append(ch.unread, c), lapped |-> ch.lapped]
    BY <1>1, <1>2 DEF Put
  <2> QED BY <1>1, <2>1, <2>2 DEF ChannelOf
<1>3. CASE ~(Len(ch.unread) < Depth)
  <2>1. ch.unread # <<>>
    BY <1>1, <1>3, BoundsAssumption
  <2>2. Tail(ch.unread) \in Seq(Chunk) /\ Len(Tail(ch.unread)) = Len(ch.unread) - 1
    BY <1>1, <2>1
  <2> DEFINE rest == Tail(ch.unread)
  <2> HIDE DEF rest
  <2>3. Append(rest, c) \in Seq(Chunk) /\ Len(Append(rest, c)) <= Depth
    BY <1>1, <2>2, BoundsAssumption DEF rest
  <2>4. Put(ch, Depth, c) = [unread |-> Append(rest, c), lapped |-> TRUE]
    BY <1>3 DEF Put, rest
  <2> QED BY <2>3, <2>4 DEF ChannelOf
<1> QED BY <1>2, <1>3

LEMMA FlushedType == Flushed \in ChannelOf(Chunk, Depth)
  BY BoundsAssumption DEF Flushed, ChannelOf

LEMMA TakeType ==
    ASSUME NEW ch \in ChannelOf(Chunk, Depth), HasFrame(ch)
    PROVE  /\ AfterGet(ch) \in ChannelOf(Chunk, Depth)
           /\ Next1(ch) \in Chunk
<1>1. ch.unread \in Seq(Chunk) /\ ch.unread # <<>> /\ Len(ch.unread) <= Depth
  BY DEF HasFrame, ChannelOf
<1>2. Tail(ch.unread) \in Seq(Chunk) /\ Len(Tail(ch.unread)) <= Depth /\ Head(ch.unread) \in Chunk
  BY <1>1, BoundsAssumption
<1> QED
  BY <1>2 DEF AfterGet, Next1, ChannelOf

(* What AcceptChunk tells of the chunk that is taken.                       *)
LEMMA AcceptType ==
    ASSUME TypeOK, NEW c, AcceptChunk(c)
    PROVE  /\ c \in Chunk
           /\ c.id = chunkId + 1
           /\ chunkId' = c.id
           /\ input' \in ChannelOf(Chunk, Depth)
  BY TakeType DEF TypeOK, AcceptChunk, Follows

LEMMA ReplyType ==
    ASSUME NEW s \in RxState, NEW i \in ChunkId, Reply(s, i)
    PROVE  feedback' \in [Operator -> Feedback \cup {NoFeedback}]
  BY DEF Reply, Feedback

-----------------------------------------------------------------------------
(* Type correctness: the operators' steps. *)

LEMMA AtRestType == AtRest \in Sender
  BY BoundsAssumption DEF AtRest, Sender, ChunkId, SendId, Result

LEMMA InitTypeInv == Init => TypeInv
<1> SUFFICES ASSUME Init PROVE TypeInv
  OBVIOUS
<1>1. TypeOK
  <2>1. op \in [Operator -> Sender] /\ input \in ChannelOf(Chunk, Depth)
    BY AtRestType, FlushedType DEF Init
  <2>2. feedback \in [Operator -> Feedback \cup {NoFeedback}]
    BY DEF Init
  <2>3. traj \in Seq(Chunk)
    BY DEF Init
  <2>4. sends \in 0 .. MaxSends /\ received \subseteq SendId
    BY BoundsAssumption DEF Init
  <2>5. overlapped \in BOOLEAN /\ outOfTurn \in BOOLEAN
    BY DEF Init
  <2>6. /\ instr \in {Nothing, "QUIT", "RUN", "LOAD"}
        /\ pc \in {"idle", "ready", "listen"}
        /\ current \in {"QUIT", "RUN"}
        /\ incoming \in {"QUIT", "RUN", "LOAD"}
        /\ chunkId \in ChunkId \cup {-1}
    BY DEF Init
  <2> QED
    BY <2>1, <2>2, <2>3, <2>4, <2>5, <2>6 DEF TypeOK
<1>2. SendersFit
  BY DEF Init, SendersFit, AtRest
<1> QED
  BY <1>1, <1>2 DEF TypeInv

LEMMA StartSendType ==
    ASSUME TypeInv, NEW o \in Operator, NEW total \in 1 .. MaxChunks, StartSend(o, total)
    PROVE  TypeInv'
<1>1. sends + 1 \in SendId /\ sends' \in 0 .. MaxSends /\ 0 \in ChunkId
  BY BoundsAssumption DEF TypeInv, TypeOK, StartSend, SendId, ChunkId
<1>2. [AtRest EXCEPT !.pc = "await", !.send = sends + 1, !.total = total] \in Sender
  BY <1>1, AtRestType DEF Sender
<1>3. TypeOK'
  BY <1>1, <1>2 DEF TypeInv, TypeOK, StartSend, playerVars
<1>4. SendersFit'
  BY <1>1, BoundsAssumption DEF TypeInv, TypeOK, SendersFit, StartSend, AtRest, Sender
<1> QED
  BY <1>3, <1>4 DEF TypeInv

LEMMA AwaitReadyType ==
    ASSUME TypeInv, NEW o \in Operator, AwaitReady(o)
    PROVE  TypeInv'
<1> DEFINE n == op[o].attempts + 1
           s == [op[o] EXCEPT !.attempts = n, !.ready = Ready(feedback[o]),
                              !.pc = IF Ready(feedback[o]) \/ LastAttempt(n)
                                     THEN "put" ELSE "await"]
<1>1. op[o] \in Sender /\ op[o].attempts <= MaxWait
  BY DEF TypeInv, TypeOK, SendersFit, AwaitReady
<1>2. s \in Sender /\ (s.pc = "await" => s.attempts <= MaxWait) /\ s.pc # "idle"
  <2>1. n \in 0 .. MaxWait + 1
    BY <1>1, BoundsAssumption DEF Sender
  <2>2. Ready(feedback[o]) \in BOOLEAN
    BY DEF Ready
  <2>3. s.pc \in {"await", "put"} /\ (s.pc = "await" => ~(n > MaxWait)) /\ s.attempts = n
    BY <1>1 DEF Sender, LastAttempt
  <2>4. s \in Sender
    BY <1>1, <2>1, <2>2 DEF Sender
  <2> QED
    BY <2>1, <2>3, <2>4, BoundsAssumption
<1>3. op' = [op EXCEPT ![o] = s]
  BY DEF AwaitReady, TypeInv, TypeOK
<1> HIDE DEF s
<1>4. TypeOK'
  <2>1. op \in [Operator -> Sender] /\ feedback \in [Operator -> Feedback \cup {NoFeedback}]
    BY DEF TypeInv, TypeOK
  <2>2. op' \in [Operator -> Sender]
    BY <1>2, <1>3, <2>1
  <2>3. feedback' = [feedback EXCEPT ![o] = NoFeedback]
        /\ UNCHANGED <<instr, input, playerVars, historyVars>>
    BY DEF AwaitReady
  <2>4. feedback' \in [Operator -> Feedback \cup {NoFeedback}]
    BY <2>1, <2>3
  <2> QED
    BY <2>2, <2>3, <2>4 DEF TypeInv, TypeOK, playerVars, historyVars
<1>5. s.send = op[o].send /\ s.chunk = op[o].chunk /\ s.total = op[o].total
  BY <1>1 DEF s, Sender
<1>6. SendersFit'
  <2>1. op[o].pc = "await" /\ SendersFit /\ op \in [Operator -> Sender]
    BY DEF AwaitReady, TypeInv, TypeOK
  <2>2. op'[o] = s /\ \A p \in Operator : p # o => op'[p] = op[p]
    BY <1>3, <2>1
  <2> QED
    BY <1>2, <1>5, <2>1, <2>2 DEF SendersFit
<1> QED
  BY <1>4, <1>6 DEF TypeInv

LEMMA PutChunkType ==
    ASSUME TypeInv, NEW o \in Operator, PutChunk(o)
    PROVE  TypeInv'
<1>1. op[o] \in Sender /\ op[o].send \in SendId
  BY DEF TypeInv, TypeOK, SendersFit, PutChunk
<1>2. [send |-> op[o].send, id |-> op[o].chunk, total |-> op[o].total] \in Chunk
  BY <1>1 DEF Sender, Chunk
<1>3. input' \in ChannelOf(Chunk, Depth)
  BY <1>2, PutType DEF PutChunk, TypeInv, TypeOK
<1>4. [op[o] EXCEPT !.pc = "ack"] \in Sender
  BY <1>1 DEF Sender
<1>5. outOfTurn' \in BOOLEAN
  BY <1>1 DEF PutChunk, Sender, TypeInv, TypeOK
<1>6. TypeOK'
  BY <1>3, <1>4, <1>5 DEF PutChunk, TypeInv, TypeOK, playerVars
<1>7. SendersFit'
  BY <1>1 DEF PutChunk, TypeInv, TypeOK, SendersFit, Sender
<1> QED
  BY <1>6, <1>7 DEF TypeInv

LEMMA ReturnsType ==
    ASSUME TypeInv, NEW o \in Operator, NEW r \in Result, Returns(o, r)
    PROVE  op' \in [Operator -> Sender] /\ SendersFit'
<1>1. op[o] \in Sender
  BY DEF TypeInv, TypeOK
<1>2. [AtRest EXCEPT !.send = op[o].send, !.result = r] \in Sender
  BY <1>1, AtRestType DEF Sender, AtRest
<1> QED
  BY <1>2 DEF Returns, TypeInv, TypeOK, SendersFit, AtRest

LEMMA TakeAckType ==
    ASSUME TypeInv, NEW o \in Operator, TakeAck(o)
    PROVE  TypeInv'
<1> DEFINE v == Verdict(feedback[o], op[o].chunk, op[o].total)
           s == [op[o] EXCEPT !.pc = "put", !.chunk = @ + 1]
<1>1. op[o] \in Sender /\ op[o].send \in SendId /\ op[o].chunk < op[o].total
  BY DEF TypeInv, TypeOK, SendersFit, TakeAck
<1>2. v \in Result \cup {Nothing} /\ (v = Nothing => op[o].chunk # op[o].total - 1)
  BY DEF Verdict, Result, Nothing
<1>3. op' \in [Operator -> Sender] /\ SendersFit'
  <2>1. CASE v # Nothing
    BY <1>2, <2>1, ReturnsType DEF TakeAck
  <2>2. CASE v = Nothing
    <3>1. op[o].chunk # op[o].total - 1
      BY <1>2, <2>2
    <3>2. op[o].chunk + 1 \in ChunkId /\ op[o].chunk + 1 < op[o].total
      BY <1>1, <3>1, BoundsAssumption DEF Sender, ChunkId
    <3>3. s \in Sender /\ s.chunk < s.total /\ s.send \in SendId /\ s.pc = "put"
      BY <1>1, <3>2 DEF Sender
    <3>4. op' = [op EXCEPT ![o] = s]
      BY <2>2 DEF TakeAck, TypeInv, TypeOK
    <3> HIDE DEF s
    <3> QED
      BY <3>3, <3>4 DEF TypeInv, TypeOK, SendersFit
  <2> QED
    BY <2>1, <2>2
<1>4. feedback' \in [Operator -> Feedback \cup {NoFeedback}]
  BY DEF TakeAck, TypeInv, TypeOK
<1>5. UNCHANGED <<instr, input, playerVars, historyVars>>
  BY DEF TakeAck
<1> QED
  BY <1>3, <1>4, <1>5 DEF TypeInv, TypeOK, playerVars, historyVars

-----------------------------------------------------------------------------
(* Type correctness: the player's steps. *)

(* The player touches no operator.                                          *)
LEMMA PlayerLeavesSenders ==
    ASSUME PlayerStep \/ PlayerRestart
    PROVE  op' = op /\ sends' = sends /\ overlapped' = overlapped /\ outOfTurn' = outOfTurn
  BY DEF PlayerStep, PlayerRestart, StepLoad, StepQuit, StepFetch, StepPlay, TakeInstruction,
         Receiving, AnnounceReady, ReceiveTimeout, RejectChunk, TakeChunk, TakeLastChunk,
         AcceptChunk, Listens, historyVars

LEMMA TakeLastChunkType ==
    ASSUME TypeInv, TakeLastChunk
    PROVE  TypeOK'
<1>1. PICK c \in FramesIn(input) :
        /\ AcceptChunk(c)
        /\ Reply("FINISHED", c.id)
        /\ received' = received \cup
               {s \in SendId : \A d \in FramesIn([unread |-> Append(traj, c)]) : d.send = s}
        /\ \/ /\ traj' = Append(traj, c)
              /\ pc' = "idle"
              /\ current' = "RUN"
              /\ incoming' = "RUN"
           \/ Abandon
  BY DEF TakeLastChunk
<1>2. TypeOK
  BY DEF TypeInv
<1>3. /\ c \in Chunk
      /\ chunkId' = c.id
      /\ input' \in ChannelOf(Chunk, Depth)
  BY <1>1, <1>2, AcceptType
<1>4. c.id \in ChunkId /\ "FINISHED" \in RxState
  BY <1>3 DEF Chunk, RxState
<1>5. feedback' \in [Operator -> Feedback \cup {NoFeedback}]
  BY <1>1, <1>4, ReplyType
<1>6. received' \subseteq SendId
  BY <1>1, <1>2 DEF TypeOK
<1>7. traj' \in Seq(Chunk) /\ pc' = "idle" /\ current' \in {"QUIT", "RUN"}
      /\ incoming' \in {"QUIT", "RUN", "LOAD"}
  <2>1. traj \in Seq(Chunk) /\ Append(traj, c) \in Seq(Chunk)
    BY <1>2, <1>3 DEF TypeOK
  <2>2. CASE Abandon
    BY <1>2, <2>2 DEF Abandon, TypeOK
  <2> QED
    BY <1>1, <2>1, <2>2
<1>8. /\ op' = op /\ instr' = instr /\ sends' = sends
      /\ overlapped' = overlapped /\ outOfTurn' = outOfTurn
  BY <1>1 DEF AcceptChunk, Listens
<1> QED
  BY <1>2, <1>3, <1>4, <1>5, <1>6, <1>7, <1>8 DEF TypeOK

LEMMA ReceivingType ==
    ASSUME TypeInv, Receiving
    PROVE  TypeOK'
<1>0. TypeOK
  BY DEF TypeInv
<1>1. CASE AnnounceReady
  <2>1. feedback' \in [Operator -> Feedback \cup {NoFeedback}]
    BY <1>1, ReplyType, BoundsAssumption DEF AnnounceReady, RxState, ChunkId
  <2> QED
    BY <1>0, <1>1, <2>1 DEF AnnounceReady, TypeOK, historyVars
<1>2. CASE ReceiveTimeout
  <2>1. feedback' \in [Operator -> Feedback \cup {NoFeedback}]
    BY <1>2, ReplyType DEF ReceiveTimeout, RxState
  <2> QED
    BY <1>0, <1>2, <2>1 DEF ReceiveTimeout, Listens, Abandon, TypeOK
<1>3. CASE RejectChunk
  <2>1. Next1(input) \in Chunk /\ input' \in ChannelOf(Chunk, Depth)
    BY <1>0, <1>3, TakeType DEF RejectChunk, TypeOK
  <2>2. Next1(input).id \in ChunkId
    BY <2>1 DEF Chunk
  <2>3. feedback' \in [Operator -> Feedback \cup {NoFeedback}]
    BY <1>3, <2>2, ReplyType DEF RejectChunk, RxState
  <2> QED
    BY <1>0, <1>3, <2>1, <2>3 DEF RejectChunk, Listens, Abandon, TypeOK
<1>4. CASE TakeChunk
  <2>1. PICK c \in FramesIn(input) :
          /\ AcceptChunk(c)
          /\ traj' = Append(traj, c)
          /\ Reply("LISTENING", c.id)
          /\ UNCHANGED <<pc, current, incoming, received>>
    BY <1>4 DEF TakeChunk
  <2>2. c \in Chunk /\ chunkId' = c.id /\ input' \in ChannelOf(Chunk, Depth)
    BY <1>0, <2>1, AcceptType
  <2>3. c.id \in ChunkId
    BY <2>2 DEF Chunk
  <2>4. feedback' \in [Operator -> Feedback \cup {NoFeedback}]
    BY <2>1, <2>3, ReplyType DEF RxState
  <2> QED
    BY <1>0, <2>1, <2>2, <2>3, <2>4 DEF AcceptChunk, Listens, TypeOK
<1>5. CASE TakeLastChunk
  BY <1>5, TakeLastChunkType
<1> QED
  BY <1>1, <1>2, <1>3, <1>4, <1>5 DEF Receiving

LEMMA PlayerType ==
    ASSUME TypeInv, PlayerStep \/ PlayerRestart
    PROVE  TypeInv'
<1>0. TypeOK
  BY DEF TypeInv
<1> SUFFICES TypeOK'
  BY PlayerLeavesSenders DEF TypeInv, SendersFit
<1>1. CASE StepLoad \/ StepQuit \/ StepFetch \/ StepPlay
  <2>1. Incoming \in {"QUIT", "RUN", "LOAD"}
    BY <1>0 DEF Incoming, TypeOK
  <2>2. incoming' = Incoming /\ UNCHANGED <<op, feedback, historyVars>> /\ instr' = Nothing
    BY <1>1 DEF StepLoad, StepQuit, StepFetch, StepPlay, TakeInstruction
  <2>3. /\ pc' \in {"idle", "ready", "listen"}
        /\ input' \in ChannelOf(Chunk, Depth)
        /\ current' \in {"QUIT", "RUN"}
        /\ traj' \in Seq(Chunk)
        /\ chunkId' = chunkId
    <3>1. CASE StepLoad \/ StepFetch
      BY <1>0, <3>1, FlushedType DEF StepLoad, StepFetch, BeginReception, TypeOK
    <3>2. CASE StepQuit
      BY <1>0, <3>2 DEF StepQuit, TypeOK
    <3>3. CASE StepPlay
      BY <1>0, <3>3 DEF StepPlay, TypeOK
    <3> QED
      BY <1>1, <3>1, <3>2, <3>3
  <2> QED
    BY <1>0, <2>1, <2>2, <2>3 DEF TypeOK, historyVars
<1>2. CASE Receiving
  BY <1>2, ReceivingType
<1>3. CASE PlayerRestart
  BY <1>0, <1>3, FlushedType DEF PlayerRestart, TypeOK, historyVars
<1> QED
  BY <1>1, <1>2, <1>3 DEF PlayerStep

LEMMA NextTypeInv == TypeInv /\ [Next]_vars => TypeInv'
<1> SUFFICES ASSUME TypeInv, [Next]_vars PROVE TypeInv'
  OBVIOUS
<1>1. ASSUME NEW o \in Operator, NEW total \in 1 .. MaxChunks, StartSend(o, total)
      PROVE  TypeInv'
  BY <1>1, StartSendType
<1>2. ASSUME NEW o \in Operator, NEW i \in {"QUIT", "RUN"}, SendInstruction(o, i)
      PROVE  TypeInv'
  BY <1>2 DEF SendInstruction, TypeInv, TypeOK, SendersFit, playerVars, historyVars
<1>3. ASSUME NEW o \in Operator, Sending(o)
      PROVE  TypeInv'
  <2>1. CASE AckTimeout(o) \/ AwaitError(o)
    <3>1. op' \in [Operator -> Sender] /\ SendersFit'
      BY <2>1, ReturnsType DEF AckTimeout, AwaitError, Result
    <3>2. feedback' \in [Operator -> Feedback \cup {NoFeedback}]
      BY <2>1 DEF AckTimeout, AwaitError, TypeInv, TypeOK
    <3> QED
      BY <2>1, <3>1, <3>2
      DEF AckTimeout, AwaitError, TypeInv, TypeOK, playerVars, historyVars
  <2> QED
    BY <1>3, <2>1, AwaitReadyType, PutChunkType, TakeAckType DEF Sending
<1>4. CASE UNCHANGED vars
  BY <1>4 DEF vars, TypeInv, TypeOK, SendersFit, playerVars, historyVars
<1> QED
  BY <1>1, <1>2, <1>3, <1>4, PlayerType DEF Next

(* Every variable keeps its type; in particular no operator counts beyond   *)
(* its attempts or its chunks, and the input ring never exceeds its depth.  *)
THEOREM TypeCorrect == Spec => []TypeInv
  BY InitTypeInv, NextTypeInv, PTL DEF Spec

THEOREM TypeOKHolds == Spec => []TypeOK
  BY TypeCorrect, PTL DEF TypeInv

-----------------------------------------------------------------------------
(* Whole trajectories. *)

LEMMA InitPlayInv == Init => PlayInv
  BY DEF Init, PlayInv, TakenSoFar, PlaysOnlyWholeTrajectories

(* Adding the chunk that follows keeps the chunks consecutive.              *)
LEMMA AppendConsecutive ==
    ASSUME TypeOK, Consecutive, Len(traj) = chunkId + 1, NEW c \in Chunk, c.id = chunkId + 1,
           traj' = Append(traj, c)
    PROVE  Consecutive' /\ Len(traj') = c.id + 1 /\ traj'[Len(traj')] = c
<1>1. traj \in Seq(Chunk)
  BY DEF TypeOK
<1>2. Len(traj') = Len(traj) + 1 /\ traj'[Len(traj) + 1] = c
      /\ \A i \in 1 .. Len(traj) : traj'[i] = traj[i]
  BY <1>1
<1>3. DOMAIN traj' = 1 .. Len(traj) + 1 /\ DOMAIN traj = 1 .. Len(traj)
  BY <1>1
<1> QED
  BY <1>1, <1>2, <1>3 DEF Consecutive

LEMMA OperatorsLeavePlayer ==
    ASSUME NEW o \in Operator,
           \/ \E total \in 1 .. MaxChunks : StartSend(o, total)
           \/ \E i \in {"QUIT", "RUN"} : SendInstruction(o, i)
           \/ Sending(o)
    PROVE  UNCHANGED playerVars
  BY DEF StartSend, SendInstruction, Sending, AwaitReady, PutChunk, TakeAck, AckTimeout, AwaitError

LEMMA NextPlayInv == TypeInv /\ PlayInv /\ [Next]_vars => PlayInv'
<1> SUFFICES ASSUME TypeInv, PlayInv, [Next]_vars PROVE PlayInv'
  OBVIOUS
<1>0. TypeOK /\ traj \in Seq(Chunk)
  BY DEF TypeInv, TypeOK
<1> USE DEF PlayInv, TakenSoFar, PlaysOnlyWholeTrajectories
<1>1. CASE UNCHANGED playerVars
  BY <1>1 DEF playerVars, Consecutive
<1>2. CASE StepLoad \/ StepFetch
  BY <1>2 DEF StepLoad, StepFetch, BeginReception
<1>3. CASE StepQuit \/ PlayerRestart
  BY <1>3 DEF StepQuit, TakeInstruction, PlayerRestart
<1>4. CASE StepPlay
  BY <1>4 DEF StepPlay, TakeInstruction, Consecutive
<1>5. CASE AnnounceReady
  BY <1>5 DEF AnnounceReady, Consecutive
<1>6. CASE ReceiveTimeout \/ RejectChunk
  BY <1>6 DEF ReceiveTimeout, RejectChunk, Abandon
<1>7. CASE TakeChunk
  <2>1. PICK c \in FramesIn(input) :
          /\ AcceptChunk(c)
          /\ traj' = Append(traj, c)
          /\ UNCHANGED pc
    BY <1>7 DEF TakeChunk
  <2>2. c \in Chunk /\ c.id = chunkId + 1 /\ chunkId' = c.id
    BY <1>0, <2>1, AcceptType
  <2>3. pc = "listen" /\ Consecutive /\ Len(traj) = chunkId + 1
    BY <2>1 DEF AcceptChunk, Listens
  <2>4. Consecutive' /\ Len(traj') = c.id + 1
    BY <1>0, <2>1, <2>2, <2>3, AppendConsecutive
  <2> QED
    BY <2>1, <2>2, <2>3, <2>4
<1>8. CASE TakeLastChunk
  <2>1. PICK c \in FramesIn(input) :
          /\ AcceptChunk(c)
          /\ c.id = c.total - 1
          /\ \/ traj' = Append(traj, c) /\ pc' = "idle" /\ current' = "RUN"
             \/ Abandon
    BY <1>8 DEF TakeLastChunk
  <2>2. c \in Chunk /\ c.id = chunkId + 1
    BY <1>0, <2>1, AcceptType
  <2>3. Consecutive /\ Len(traj) = chunkId + 1
    BY <2>1 DEF AcceptChunk, Listens
  <2>4. CASE traj' = Append(traj, c) /\ pc' = "idle" /\ current' = "RUN"
    <3>1. Consecutive' /\ Len(traj') = c.id + 1 /\ traj'[Len(traj')] = c
      BY <1>0, <2>2, <2>3, <2>4, AppendConsecutive
    <3>2. traj' # <<>> /\ Len(traj') = c.total
      BY <1>0, <2>1, <2>2, <2>4, <3>1 DEF Chunk, ChunkId
    <3> QED
      BY <2>4, <3>1, <3>2
  <2>5. CASE Abandon
    BY <2>5 DEF Abandon
  <2> QED
    BY <2>1, <2>4, <2>5
<1>9. CASE UNCHANGED vars
  BY <1>1, <1>9 DEF vars
<1> QED
  BY <1>1, <1>2, <1>3, <1>4, <1>5, <1>6, <1>7, <1>8, <1>9, OperatorsLeavePlayer
     DEF Next, PlayerStep, Receiving

(* The player plays only trajectories it has from the first chunk to the    *)
(* last, each once and in order, whatever the operators, the timeouts and   *)
(* the losses were.                                                         *)
THEOREM WholeTrajectoriesHold == Spec => []PlaysOnlyWholeTrajectories
<1>1. PlayInv => PlaysOnlyWholeTrajectories
  BY DEF PlayInv
<1> QED
  BY <1>1, InitPlayInv, NextPlayInv, TypeCorrect, PTL DEF Spec

-----------------------------------------------------------------------------
(* One transfer at a time: what holds as long as none overlaps another.     *)

Unread == input.unread
Taken  == IF pc = "listen" THEN traj ELSE <<>>

Busy(o) == op[o].pc # "idle"

OneSender == \A o, p \in Operator : Busy(o) /\ Busy(p) => o = p

(* A chunk that is not the first of its transfer comes after one of it: in  *)
(* the ring, and from the chunks that were taken to the ring.  Only a gap   *)
(* that the reader is told of breaks the line.                              *)
Joins(b, c) == c.id > 0 => b.send = c.send

Lined ==
    /\ \A i \in 2 .. Len(Unread) : Joins(Unread[i - 1], Unread[i])
    /\ ~input.lapped /\ Unread # <<>> /\ Taken # <<>> =>
           Joins(Taken[Len(Taken)], Unread[1])

(* The latest frame is that of the operator that has put one.               *)
HasPut(o) == \/ op[o].pc = "ack"
             \/ op[o].pc = "put" /\ op[o].chunk > 0

LatestIsOwn ==
    \A o \in Operator : HasPut(o) =>
        /\ Unread # <<>> => Unread[Len(Unread)].send = op[o].send
        /\ Unread = <<>> /\ Taken # <<>> => Taken[Len(Taken)].send = op[o].send

OneSend == \A i, k \in DOMAIN traj : traj[i].send = traj[k].send

LineInv == ~overlapped => OneSender /\ Lined /\ LatestIsOwn /\ OneSend

-----------------------------------------------------------------------------
(* What ach_put and ach_get do to the frames in the ring.                   *)

LEMMA PutFrames ==
    ASSUME NEW c \in Chunk, input \in ChannelOf(Chunk, Depth), input' = Put(input, Depth, c)
    PROVE  /\ Unread \in Seq(Chunk) /\ Unread' \in Seq(Chunk) /\ Unread' # <<>>
           /\ Unread'[Len(Unread')] = c
           /\ \E k \in {0, 1} :
                 /\ Len(Unread') = Len(Unread) + 1 - k
                 /\ \A i \in 1 .. Len(Unread') - 1 : Unread'[i] = Unread[i + k]
                 /\ input'.lapped = (input.lapped \/ k = 1)
<1>1. Unread \in Seq(Chunk) /\ Len(Unread) \in Nat /\ input.lapped \in BOOLEAN
  BY DEF ChannelOf, Unread
<1>2. CASE Len(Unread) < Depth
  <2>1. Unread' = Append(Unread, c) /\ input'.lapped = input.lapped
    BY <1>2 DEF Put, ChannelOf, Unread
  <2>2. \A i \in 1 .. Len(Unread') - 1 : Unread'[i] = Unread[i + 0]
    BY <1>1, <2>1
  <2>3. Len(Unread') = Len(Unread) + 1 - 0
    BY <1>1, <2>1
  <2>4. Unread' \in Seq(Chunk) /\ Unread' # <<>> /\ Unread'[Len(Unread')] = c
    BY <1>1, <2>1
  <2>5. input'.lapped = (input.lapped \/ 0 = 1)
    <3>1. 0 # 1
      OBVIOUS
    <3> QED BY <1>1, <2>1, <3>1, Zenon
  <2> QED BY <2>2, <2>3, <2>4, <2>5, <1>1, Zenon
<1>3. CASE ~(Len(Unread) < Depth)
  <2> DEFINE rest == Tail(Unread)
  <2>1. Unread' = Append(rest, c) /\ input'.lapped = TRUE
    BY <1>3 DEF Put, Unread
  <2>2. Unread # <<>>
    BY <1>1, <1>3, BoundsAssumption
  <2>3. /\ rest \in Seq(Chunk) /\ Len(rest) = Len(Unread) - 1
        /\ \A i \in 1 .. Len(rest) : rest[i] = Unread[i + 1]
    BY <1>1, <2>2
  <2> HIDE DEF rest
  <2>4. Unread' \in Seq(Chunk) /\ Unread' # <<>> /\ Unread'[Len(Unread')] = c
        /\ Len(Unread') = Len(Unread) + 1 - 1
        /\ \A i \in 1 .. Len(Unread') - 1 : Unread'[i] = rest[i]
    BY <1>1, <2>1, <2>3
  <2>5. \A i \in 1 .. Len(Unread') - 1 : Unread'[i] = Unread[i + 1]
    BY <1>1, <2>3, <2>4
  <2>6. input'.lapped = (input.lapped \/ 1 = 1)
    BY <2>1
  <2> QED BY <1>1, <2>4, <2>5, <2>6, Zenon
<1> QED BY <1>2, <1>3

LEMMA GetFrames ==
    ASSUME input \in ChannelOf(Chunk, Depth), HasFrame(input), input' = AfterGet(input)
    PROVE  /\ Unread \in Seq(Chunk) /\ Unread # <<>> /\ Next1(input) = Unread[1]
           /\ Unread' \in Seq(Chunk)
           /\ Len(Unread') = Len(Unread) - 1
           /\ \A i \in 1 .. Len(Unread') : Unread'[i] = Unread[i + 1]
           /\ input'.lapped = FALSE
<1>1. Unread \in Seq(Chunk) /\ Unread # <<>>
  BY DEF ChannelOf, HasFrame, Unread
<1> QED BY <1>1 DEF Next1, AfterGet, Unread

-----------------------------------------------------------------------------
(* The operators' steps keep the line. *)

(* A step of a transfer that puts nothing.                                  *)
LEMMA WaitingStep ==
    ASSUME TypeInv, NEW o \in Operator,
           AwaitReady(o) \/ AwaitError(o) \/ TakeAck(o) \/ AckTimeout(o)
    PROVE  /\ UNCHANGED <<input, pc, traj, overlapped>>
           /\ Busy(o)
           /\ \A p \in Operator : p # o => op'[p] = op[p]
           /\ op'[o].send = op[o].send
           /\ HasPut(o)' => HasPut(o)
<1>1. op \in [Operator -> Sender] /\ op[o] \in Sender
  BY DEF TypeInv, TypeOK
<1>2. CASE AwaitReady(o)
  <2>1. /\ op[o].pc = "await" /\ op'[o].chunk = op[o].chunk /\ op'[o].send = op[o].send
        /\ op'[o].pc \in {"put", "await"}
    BY <1>1, <1>2 DEF AwaitReady, Sender
  <2>2. UNCHANGED <<input, pc, traj, overlapped>>
    BY <1>2 DEF AwaitReady, playerVars, historyVars
  <2>3. op[o].chunk = 0
    BY <2>1 DEF TypeInv, SendersFit
  <2>4. \A p \in Operator : p # o => op'[p] = op[p]
    BY <1>1, <1>2 DEF AwaitReady
  <2> QED BY <2>1, <2>2, <2>3, <2>4 DEF Busy, HasPut
<1>3. CASE TakeAck(o) \/ AckTimeout(o) \/ AwaitError(o)
  <2>1. op[o].pc \in {"ack", "await"} /\ UNCHANGED <<input, pc, traj, overlapped>>
    BY <1>3 DEF TakeAck, AckTimeout, AwaitError, playerVars, historyVars
  <2>2. \/ \E r : Returns(o, r)
        \/ op[o].pc = "ack" /\ op' = [op EXCEPT ![o].pc = "put", ![o].chunk = @ + 1]
    BY <1>3 DEF TakeAck, AckTimeout, AwaitError
  <2>3. (\A p \in Operator : p # o => op'[p] = op[p]) /\ op'[o].send = op[o].send
    <3>1. CASE \E r : Returns(o, r)
      BY <1>1, <3>1 DEF Returns, AtRest
    <3>2. CASE op' = [op EXCEPT ![o].pc = "put", ![o].chunk = @ + 1]
      BY <1>1, <3>2 DEF Sender
    <3> QED BY <2>2, <3>1, <3>2
  <2>4. HasPut(o)' => op[o].pc = "ack"
    BY <1>1, <2>2 DEF Returns, AtRest, HasPut
  <2> QED BY <2>1, <2>3, <2>4 DEF Busy, HasPut
<1> QED BY <1>2, <1>3

LEMMA WaitingLine ==
    ASSUME TypeInv, LineInv, NEW o \in Operator,
           AwaitReady(o) \/ AwaitError(o) \/ TakeAck(o) \/ AckTimeout(o)
    PROVE  LineInv'
<1> SUFFICES ASSUME ~overlapped' PROVE (OneSender /\ Lined /\ LatestIsOwn /\ OneSend)'
  BY DEF LineInv
<1>1. OneSender /\ Lined /\ LatestIsOwn /\ OneSend
  BY WaitingStep DEF LineInv
<1>2. Unread' = Unread /\ Taken' = Taken /\ traj' = traj /\ input' = input
  BY WaitingStep DEF Unread, Taken
<1>3. OneSender'
  <2>1. \A p \in Operator : Busy(p)' => Busy(p)
    BY WaitingStep DEF Busy
  <2> QED BY <1>1, <2>1 DEF OneSender
<1>4. Lined' /\ OneSend'
  BY <1>1, <1>2 DEF Lined, OneSend, Joins
<1>5. LatestIsOwn'
  <2> SUFFICES ASSUME NEW p \in Operator, HasPut(p)'
               PROVE  /\ Unread # <<>> => Unread[Len(Unread)].send = op[p].send
                      /\ Unread = <<>> /\ Taken # <<>> =>
                             Taken[Len(Taken)].send = op[p].send
                      /\ op'[p].send = op[p].send
    BY <1>2 DEF LatestIsOwn
  <2>1. HasPut(p) /\ op'[p].send = op[p].send
    BY WaitingStep DEF HasPut
  <2> QED BY <1>1, <2>1 DEF LatestIsOwn
<1> QED BY <1>3, <1>4, <1>5

LEMMA StartSendLine ==
    ASSUME TypeInv, LineInv, NEW o \in Operator, NEW total \in 1 .. MaxChunks,
           StartSend(o, total)
    PROVE  LineInv'
<1> SUFFICES ASSUME ~overlapped' PROVE (OneSender /\ Lined /\ LatestIsOwn /\ OneSend)'
  BY DEF LineInv
<1>1. OneSender /\ Lined /\ OneSend /\ \A p \in Operator : ~Busy(p)
  BY DEF LineInv, StartSend, Busy
<1>2. Unread' = Unread /\ Taken' = Taken /\ traj' = traj /\ input' = input
  BY DEF StartSend, playerVars, Unread, Taken
<1>3. op'[o].pc = "await" /\ \A p \in Operator : p # o => op'[p] = op[p]
  BY DEF StartSend, TypeInv, TypeOK, AtRest
<1>4. OneSender' /\ LatestIsOwn'
  BY <1>1, <1>3 DEF OneSender, LatestIsOwn, HasPut, Busy
<1> QED BY <1>1, <1>2, <1>4 DEF Lined, OneSend, Joins

LEMMA PutChunkLine ==
    ASSUME TypeInv, LineInv, NEW o \in Operator, PutChunk(o)
    PROVE  LineInv'
<1> SUFFICES ASSUME ~overlapped' PROVE (OneSender /\ Lined /\ LatestIsOwn /\ OneSend)'
  BY DEF LineInv
<1> DEFINE c == [send |-> op[o].send, id |-> op[o].chunk, total |-> op[o].total]
<1>1. OneSender /\ Lined /\ LatestIsOwn /\ OneSend
  BY DEF LineInv, PutChunk
<1>2. Taken' = Taken /\ traj' = traj /\ input' = Put(input, Depth, c) /\ op[o].pc = "put"
  BY DEF PutChunk, playerVars, Taken
<1>3. op[o] \in Sender /\ op[o].send \in SendId
  BY <1>2 DEF TypeInv, TypeOK, SendersFit
<1>4. c \in Chunk /\ input \in ChannelOf(Chunk, Depth)
  BY <1>3 DEF Sender, Chunk, TypeInv, TypeOK
<1>5. op'[o].pc = "ack" /\ op'[o].send = op[o].send /\ \A p \in Operator : p # o => op'[p] = op[p]
  BY DEF PutChunk, TypeInv, TypeOK, Sender
<1>6. OneSender' /\ \A p \in Operator : HasPut(p)' => p = o
  BY <1>1, <1>2, <1>5 DEF OneSender, Busy, HasPut
<1>7. Unread \in Seq(Chunk) /\ Unread' \in Seq(Chunk) /\ Unread' # <<>>
      /\ Unread'[Len(Unread')] = c
  BY <1>2, <1>4, PutFrames
<1> HIDE DEF c
<1>8. c.id > 0 /\ Unread # <<>> => Unread[Len(Unread)].send = c.send
  BY <1>1, <1>2 DEF LatestIsOwn, HasPut, c
<1>9. PICK k \in {0, 1} :
        /\ Len(Unread') = Len(Unread) + 1 - k
        /\ \A i \in 1 .. Len(Unread') - 1 : Unread'[i] = Unread[i + k]
        /\ input'.lapped = (input.lapped \/ k = 1)
  BY <1>2, <1>4, PutFrames
<1>10. Lined'
  <2>1. ASSUME NEW i \in 2 .. Len(Unread') PROVE Joins(Unread'[i - 1], Unread'[i])
    <3>1. CASE i < Len(Unread')
      <4>1. Unread'[i - 1] = Unread[i + k - 1] /\ Unread'[i] = Unread[i + k]
            /\ i + k \in 2 .. Len(Unread)
        BY <1>7, <1>9, <3>1
      <4> QED BY <1>1, <4>1 DEF Lined
    <3>2. CASE i = Len(Unread')
      <4>1. Unread'[i - 1] = Unread[Len(Unread)] /\ Unread # <<>>
        BY <1>7, <1>9, <3>2
      <4> QED BY <1>7, <1>8, <3>2, <4>1 DEF Joins
    <3> QED BY <1>7, <3>1, <3>2
  <2>2. ASSUME ~input'.lapped, Taken # <<>>
        PROVE  Joins(Taken[Len(Taken)], Unread'[1])
    <3>1. k = 0 /\ ~input.lapped
      BY <1>9, <2>2
    <3>2. CASE Unread # <<>>
      <4>1. Unread'[1] = Unread[1]
        BY <1>7, <1>9, <3>1, <3>2
      <4> QED BY <1>1, <2>2, <3>1, <3>2, <4>1 DEF Lined
    <3>3. CASE Unread = <<>>
      <4>1. Unread'[1] = c
        BY <1>7, <1>9, <3>1, <3>3
      <4>2. c.id > 0 => Taken[Len(Taken)].send = c.send
        BY <1>1, <1>2, <2>2, <3>3 DEF LatestIsOwn, HasPut, c
      <4> QED BY <4>1, <4>2 DEF Joins
    <3> QED BY <3>2, <3>3
  <2> QED BY <1>2, <2>1, <2>2 DEF Lined
<1>11. LatestIsOwn'
  BY <1>5, <1>6, <1>7 DEF LatestIsOwn, c
<1> QED BY <1>1, <1>2, <1>6, <1>10, <1>11 DEF OneSend

-----------------------------------------------------------------------------
(* The player's steps keep the line. *)

(* None of the operators' parts is changed by it.                           *)
LEMMA PlayerLeavesOwn ==
    ASSUME op' = op
    PROVE  /\ OneSender => OneSender'
           /\ \A o \in Operator : HasPut(o)' = HasPut(o) /\ Busy(o)' = Busy(o)
BY DEF OneSender, HasPut, Busy

(* Flushing the ring, with no trajectory taken, ends what was in line.      *)
LEMMA FlushLine ==
    ASSUME TypeInv, LineInv, op' = op, overlapped' = overlapped,
           Taken' = <<>>, traj' = traj \/ traj' = <<>>,
           input' = Flushed \/ (input' = input /\ (Taken = <<>> \/ Unread = <<>>))
    PROVE  LineInv'
<1> SUFFICES ASSUME ~overlapped' PROVE (OneSender /\ Lined /\ LatestIsOwn /\ OneSend)'
  BY DEF LineInv
<1>1. OneSender /\ Lined /\ LatestIsOwn /\ OneSend
  BY DEF LineInv
<1>2. OneSend'
  BY <1>1 DEF OneSend
<1>3. CASE input' = Flushed
  <2>1. Unread' = <<>>
    BY <1>3 DEF Unread, Flushed
  <2> QED BY <1>1, <1>2, <2>1, PlayerLeavesOwn DEF Lined, LatestIsOwn
<1>4. CASE input' = input /\ (Taken = <<>> \/ Unread = <<>>)
  <2>1. Unread' = Unread
    BY <1>4 DEF Unread
  <2>2. Lined' /\ LatestIsOwn'
    BY <1>1, <1>4, <2>1, PlayerLeavesOwn DEF Lined, LatestIsOwn, Joins
  <2> QED BY <1>1, <1>2, <2>2, PlayerLeavesOwn
<1> QED BY <1>3, <1>4

(* Taking a chunk moves it from the ring to the end of the trajectory.      *)
LEMMA AcceptLine ==
    ASSUME TypeInv, PlayInv, LineInv, ~overlapped, NEW c \in Chunk, AcceptChunk(c)
    PROVE  /\ Unread # <<>> /\ c = Unread[1] /\ ~input.lapped /\ pc = "listen"
           /\ Unread' \in Seq(Chunk) /\ Len(Unread') = Len(Unread) - 1
           /\ \A i \in 1 .. Len(Unread') : Unread'[i] = Unread[i + 1]
           /\ traj \in Seq(Chunk) /\ Taken = traj
           /\ \A i \in 1 .. Len(traj) : traj[i].send = c.send
<1>1. input \in ChannelOf(Chunk, Depth) /\ traj \in Seq(Chunk) /\ chunkId \in ChunkId \cup {-1}
  BY DEF TypeInv, TypeOK
<1>2. /\ pc = "listen" /\ HasFrame(input) /\ ~input.lapped
      /\ c = Next1(input) /\ c.id = chunkId + 1 /\ input' = AfterGet(input)
  BY DEF AcceptChunk, Listens, Follows
<1>3. Unread # <<>> /\ c = Unread[1] /\ Taken = traj
  BY <1>1, <1>2, GetFrames DEF Taken
<1>4. Len(traj) = chunkId + 1
  BY <1>2 DEF PlayInv, TakenSoFar
<1>5. ASSUME NEW i \in 1 .. Len(traj) PROVE traj[i].send = c.send
  <2>1. traj # <<>> /\ c.id > 0 /\ Len(traj) \in 1 .. Len(traj)
    BY <1>1, <1>2, <1>4, <1>5 DEF Chunk, ChunkId
  <2>2. Joins(traj[Len(traj)], c)
    BY <1>2, <1>3, <2>1 DEF LineInv, Lined
  <2>3. traj[Len(traj)].send = c.send
    BY <2>1, <2>2 DEF Joins
  <2>4. traj[i].send = traj[Len(traj)].send
    BY <1>1, <1>5, <2>1 DEF LineInv, OneSend
  <2> QED BY <2>3, <2>4
<1> QED BY <1>1, <1>2, <1>3, <1>5, GetFrames

LEMMA TakeLine ==
    ASSUME TypeInv, PlayInv, LineInv, TakeChunk \/ TakeLastChunk
    PROVE  LineInv'
<1> SUFFICES ASSUME ~overlapped' PROVE (OneSender /\ Lined /\ LatestIsOwn /\ OneSend)'
  BY DEF LineInv
<1>1. PICK c \in FramesIn(input) :
        /\ AcceptChunk(c)
        /\ \/ traj' = Append(traj, c) /\ (pc' = pc \/ pc' = "idle")
           \/ traj' = <<>> /\ pc' = "idle"
  BY DEF TakeChunk, TakeLastChunk, Abandon
<1>2. c \in Chunk /\ op' = op /\ ~overlapped
  BY <1>1, AcceptType DEF TypeInv, AcceptChunk, Listens
<1>3. OneSender /\ Lined /\ LatestIsOwn /\ OneSend
  BY <1>2 DEF LineInv
<1>4. /\ Unread # <<>> /\ c = Unread[1] /\ pc = "listen"
      /\ Unread' \in Seq(Chunk) /\ Len(Unread') = Len(Unread) - 1
      /\ \A i \in 1 .. Len(Unread') : Unread'[i] = Unread[i + 1]
      /\ traj \in Seq(Chunk) /\ Taken = traj
      /\ \A i \in 1 .. Len(traj) : traj[i].send = c.send
  BY <1>1, <1>2, AcceptLine
<1>5. Unread \in Seq(Chunk)
  BY DEF TypeInv, TypeOK, ChannelOf, Unread
<1>6. OneSend'
  <2>1. CASE traj' = Append(traj, c)
    <3>1. \A i \in DOMAIN traj' : traj'[i].send = c.send
      BY <1>2, <1>4, <2>1
    <3> QED BY <3>1 DEF OneSend
  <2> QED BY <1>1, <2>1 DEF OneSend
<1>7. Taken' = <<>> \/ (Taken' # <<>> /\ Taken'[Len(Taken')] = c)
  <2>1. CASE traj' = Append(traj, c) /\ pc' = "listen"
    <3>1. Taken' = Append(traj, c)
      BY <2>1 DEF Taken
    <3> QED BY <1>2, <1>4, <3>1
  <2> QED BY <1>1, <1>4, <2>1 DEF Taken
<1>8. Lined'
  <2>1. ASSUME NEW i \in 2 .. Len(Unread') PROVE Joins(Unread'[i - 1], Unread'[i])
    <3>1. Unread'[i - 1] = Unread[(i + 1) - 1] /\ Unread'[i] = Unread[i + 1]
          /\ i + 1 \in 2 .. Len(Unread)
      BY <1>4, <1>5
    <3> QED BY <1>3, <3>1 DEF Lined
  <2>2. ASSUME Unread' # <<>> PROVE Joins(c, Unread'[1])
    <3>1. Unread'[1] = Unread[2] /\ 2 \in 2 .. Len(Unread) /\ c = Unread[2 - 1]
      BY <1>4, <1>5, <2>2
    <3> QED BY <1>3, <3>1 DEF Lined
  <2> QED BY <1>7, <2>1, <2>2 DEF Lined
<1>9. LatestIsOwn'
  <2> SUFFICES ASSUME NEW p \in Operator, HasPut(p)'
               PROVE  /\ Unread' # <<>> => Unread'[Len(Unread')].send = op[p].send
                      /\ Unread' = <<>> /\ Taken' # <<>> =>
                             Taken'[Len(Taken')].send = op[p].send
    BY <1>2 DEF LatestIsOwn
  <2>1. Unread[Len(Unread)].send = op[p].send
    BY <1>2, <1>3, <1>4, PlayerLeavesOwn DEF LatestIsOwn
  <2>2. Unread' # <<>> => Unread'[Len(Unread')] = Unread[Len(Unread)]
    BY <1>4, <1>5
  <2>3. ASSUME Unread' = <<>> PROVE c = Unread[Len(Unread)]
    <3>1. Len(Unread') = 0
      BY <2>3
    <3>2. Len(Unread) = 1
      BY <1>4, <1>5, <3>1
    <3> QED BY <1>4, <3>2
  <2>4. Taken' # <<>> => Taken'[Len(Taken')] = c
    BY <1>7
  <2>5. Unread' # <<>> => Unread'[Len(Unread')].send = op[p].send
    BY <2>1, <2>2
  <2>6. Unread' = <<>> /\ Taken' # <<>> => Taken'[Len(Taken')].send = op[p].send
    BY <2>1, <2>3, <2>4
  <2> QED BY <2>5, <2>6
<1> QED BY <1>2, <1>3, <1>6, <1>8, <1>9, PlayerLeavesOwn

(* A frame that is dropped, when reception ends, shortens the line.         *)
LEMMA RejectLine ==
    ASSUME TypeInv, LineInv, RejectChunk
    PROVE  LineInv'
<1> SUFFICES ASSUME ~overlapped' PROVE (OneSender /\ Lined /\ LatestIsOwn /\ OneSend)'
  BY DEF LineInv
<1>1. /\ op' = op /\ ~overlapped /\ input' = AfterGet(input) /\ HasFrame(input)
      /\ traj' = <<>> /\ pc' = "idle"
  BY DEF RejectChunk, Listens, Abandon
<1>2. OneSender /\ Lined /\ LatestIsOwn /\ OneSend /\ input \in ChannelOf(Chunk, Depth)
  BY <1>1 DEF LineInv, TypeInv, TypeOK
<1>3. /\ Unread \in Seq(Chunk) /\ Unread # <<>> /\ Unread' \in Seq(Chunk)
      /\ Len(Unread') = Len(Unread) - 1
      /\ \A i \in 1 .. Len(Unread') : Unread'[i] = Unread[i + 1]
  BY <1>1, <1>2, GetFrames
<1>4. Taken' = <<>>
  BY <1>1 DEF Taken
<1>5. Lined'
  <2>1. ASSUME NEW i \in 2 .. Len(Unread') PROVE Joins(Unread'[i - 1], Unread'[i])
    <3>1. Unread'[i - 1] = Unread[(i + 1) - 1] /\ Unread'[i] = Unread[i + 1]
          /\ i + 1 \in 2 .. Len(Unread)
      BY <1>3
    <3> QED BY <1>2, <3>1 DEF Lined
  <2> QED BY <1>4, <2>1 DEF Lined
<1>6. LatestIsOwn'
  <2>1. Unread' # <<>> => Unread'[Len(Unread')] = Unread[Len(Unread)]
    BY <1>3
  <2> QED BY <1>1, <1>2, <1>3, <1>4, <2>1, PlayerLeavesOwn DEF LatestIsOwn
<1>7. OneSend'
  BY <1>1 DEF OneSend
<1> QED BY <1>1, <1>2, <1>5, <1>6, <1>7, PlayerLeavesOwn

LEMMA PlayerLine ==
    ASSUME TypeInv, PlayInv, LineInv, PlayerStep \/ PlayerRestart
    PROVE  LineInv'
<1>1. op' = op /\ overlapped' = overlapped
  BY PlayerLeavesSenders
<1>2. CASE StepLoad \/ StepFetch \/ PlayerRestart
  BY <1>1, <1>2, FlushLine DEF StepLoad, StepFetch, BeginReception, PlayerRestart, Taken
<1>3. CASE StepQuit \/ StepPlay
  BY <1>1, <1>3, FlushLine DEF StepQuit, StepPlay, TakeInstruction, Taken
<1>4. CASE AnnounceReady
  BY <1>1, <1>4, FlushLine DEF AnnounceReady, Taken
<1>5. CASE ReceiveTimeout
  <2>1. Taken' = <<>> /\ traj' = <<>> /\ input' = input /\ Unread = <<>>
    BY <1>5 DEF ReceiveTimeout, Abandon, Taken, Unread, HasFrame
  <2> QED BY <1>1, <2>1, FlushLine
<1> QED
  BY <1>2, <1>3, <1>4, <1>5, RejectLine, TakeLine DEF PlayerStep, Receiving

LEMMA InitLineInv == Init => LineInv
  BY DEF Init, LineInv, OneSender, Lined, LatestIsOwn, OneSend, HasPut, Busy, AtRest, Taken,
         Unread, Flushed

LEMMA NextLineInv == TypeInv /\ PlayInv /\ LineInv /\ [Next]_vars => LineInv'
<1> SUFFICES ASSUME TypeInv, PlayInv, LineInv, [Next]_vars PROVE LineInv'
  OBVIOUS
<1>1. ASSUME NEW o \in Operator, NEW i \in {"QUIT", "RUN"}, SendInstruction(o, i)
      PROVE  LineInv'
  BY <1>1 DEF SendInstruction, playerVars, historyVars, LineInv, OneSender, Lined, LatestIsOwn,
              OneSend, HasPut, Busy, Taken, Unread, Joins
<1>2. CASE UNCHANGED vars
  BY <1>2 DEF vars, playerVars, historyVars, LineInv, OneSender, Lined, LatestIsOwn,
              OneSend, HasPut, Busy, Taken, Unread, Joins
<1> QED
  BY <1>1, <1>2, StartSendLine, WaitingLine, PutChunkLine, PlayerLine DEF Next, Sending

LEMMA LineHolds == Spec => []LineInv
  BY InitLineInv, NextLineInv, InitPlayInv, NextPlayInv, TypeCorrect, PTL DEF Spec

(* Transfers that do not overlap in time are never mixed into one           *)
(* trajectory, whatever timed out, was lost or was left in the ring.        *)
THEOREM OneSendHolds == Spec => []OneSendPerTrajectory
<1>1. LineInv => OneSendPerTrajectory
  BY DEF LineInv, OneSend, OneSendPerTrajectory
<1> QED BY <1>1, LineHolds, PTL

-----------------------------------------------------------------------------
(* What an operator may conclude from an answer, while transfers do not     *)
(* overlap and nobody sends unasked.                                        *)

(* Every frame the player has taken in this reception or can still get.     *)
Frames == {Unread[i] : i \in DOMAIN Unread} \cup {Taken[i] : i \in DOMAIN Taken}

Underway(o) == op[o].pc \in {"put", "ack"} /\ op[o].ready

(* The operator that was told that the player is ready, or is about to be.  *)
Invited(o) == Busy(o) /\ (Ready(feedback[o]) \/ Underway(o))

(* The player says it is ready only when nothing is left in the ring, so    *)
(* that whatever it then finds there comes from whoever it answered.        *)
ReadyIsEmpty == pc = "ready" => Unread = <<>>
InvitedAlone == \A o \in Operator : Invited(o) => \A f \in Frames : f.send = op[o].send
PutWhenReady == \A o \in Operator : HasPut(o) => op[o].ready
FinishedIsReceived ==
    \A o \in Operator :
        Underway(o) /\ feedback[o].state = "FINISHED" => op[o].send \in received
OkayIsReceived == \A o \in Operator : op[o].result = "OKAY" => op[o].send \in received

AnswersTrue ==
    ReadyIsEmpty /\ InvitedAlone /\ PutWhenReady /\ FinishedIsReceived /\ OkayIsReceived

AnswerInv == ~overlapped /\ ~outOfTurn => AnswersTrue

LEMMA InitAnswerInv == Init => AnswerInv
  BY DEF Init, AnswerInv, AnswersTrue, ReadyIsEmpty, InvitedAlone, PutWhenReady,
         FinishedIsReceived, OkayIsReceived, Invited, Underway, HasPut, Busy, AtRest, Nothing

LEMMA StartSendAnswer ==
    ASSUME TypeInv, AnswerInv, NEW o \in Operator, NEW total \in 1 .. MaxChunks,
           StartSend(o, total)
    PROVE  AnswerInv'
<1> SUFFICES ASSUME ~overlapped', ~outOfTurn' PROVE AnswersTrue'
  BY DEF AnswerInv
<1>1. AnswersTrue /\ \A p \in Operator : ~Busy(p)
  BY DEF AnswerInv, StartSend, Busy
<1>2. UNCHANGED <<input, pc, traj, received>> /\ Frames' = Frames
  BY DEF StartSend, playerVars, Frames, Unread, Taken
<1>3. /\ op'[o].pc = "await" /\ op'[o].result = Nothing /\ feedback'[o] = NoFeedback
      /\ \A p \in Operator : p # o => op'[p] = op[p] /\ feedback'[p] = feedback[p]
  BY DEF StartSend, TypeInv, TypeOK, AtRest
<1>4. \A p \in Operator : ~Invited(p)' /\ ~HasPut(p)' /\ ~Underway(p)'
  BY <1>1, <1>3 DEF Invited, HasPut, Underway, Busy, Ready, NoFeedback, Nothing
<1>5. OkayIsReceived'
  BY <1>1, <1>2, <1>3 DEF AnswersTrue, OkayIsReceived, Nothing
<1> QED
  BY <1>1, <1>2, <1>4, <1>5 DEF AnswersTrue, ReadyIsEmpty, InvitedAlone, PutWhenReady,
                                FinishedIsReceived, Unread

LEMMA AwaitReadyAnswer ==
    ASSUME TypeInv, AnswerInv, NEW o \in Operator, AwaitReady(o)
    PROVE  AnswerInv'
<1> SUFFICES ASSUME ~overlapped', ~outOfTurn' PROVE AnswersTrue'
  BY DEF AnswerInv
<1>1. AnswersTrue
  BY DEF AnswerInv, AwaitReady, historyVars
<1>2. UNCHANGED <<input, pc, traj, received>> /\ Frames' = Frames
  BY DEF AwaitReady, playerVars, historyVars, Frames, Unread, Taken
<1>3. /\ op[o].pc = "await" /\ op'[o].chunk = 0 /\ op'[o].send = op[o].send
      /\ op'[o].pc \in {"put", "await"} /\ op'[o].result = op[o].result
      /\ op'[o].ready = Ready(feedback[o])
      /\ feedback'[o] = NoFeedback
      /\ \A p \in Operator : p # o => op'[p] = op[p] /\ feedback'[p] = feedback[p]
  BY DEF AwaitReady, TypeInv, TypeOK, SendersFit, Sender
<1>4. ASSUME NEW p \in Operator, Invited(p)' PROVE Invited(p) /\ op'[p].send = op[p].send
  <2>1. CASE p = o
    <3>1. Ready(feedback[o])
      <4>1. ~Ready(feedback'[o])
        BY <1>3 DEF Ready, NoFeedback, Nothing
      <4>2. op'[o].ready
        BY <1>4, <2>1, <4>1 DEF Invited, Underway
      <4> QED BY <1>3, <4>2
    <3> QED BY <1>3, <2>1, <3>1 DEF Invited, Busy
  <2> QED BY <1>3, <1>4, <2>1 DEF Invited, Underway, Busy
<1>5. InvitedAlone'
  BY <1>1, <1>2, <1>4 DEF AnswersTrue, InvitedAlone
<1>6. \A p \in Operator : HasPut(p)' => p # o
  BY <1>3 DEF HasPut
<1>7. PutWhenReady'
  BY <1>1, <1>3, <1>6 DEF AnswersTrue, PutWhenReady, HasPut
<1>8. FinishedIsReceived'
  BY <1>1, <1>2, <1>3 DEF AnswersTrue, FinishedIsReceived, Underway, NoFeedback, Nothing
<1>9. OkayIsReceived'
  BY <1>1, <1>2, <1>3 DEF AnswersTrue, OkayIsReceived
<1> QED
  BY <1>1, <1>2, <1>5, <1>7, <1>8, <1>9 DEF AnswersTrue, ReadyIsEmpty, Unread

LEMMA PutChunkAnswer ==
    ASSUME TypeInv, LineInv, AnswerInv, NEW o \in Operator, PutChunk(o)
    PROVE  AnswerInv'
<1> SUFFICES ASSUME ~overlapped', ~outOfTurn' PROVE AnswersTrue'
  BY DEF AnswerInv
<1> DEFINE c == [send |-> op[o].send, id |-> op[o].chunk, total |-> op[o].total]
<1>1. op[o] \in Sender /\ op[o].send \in SendId
  BY DEF TypeInv, TypeOK, SendersFit, PutChunk
<1>2. AnswersTrue /\ OneSender /\ op[o].ready /\ pc = "listen"
  BY <1>1 DEF AnswerInv, LineInv, PutChunk, TypeInv, TypeOK, Sender
<1>3. /\ op[o].pc = "put" /\ input' = Put(input, Depth, c)
      /\ UNCHANGED <<pc, traj, feedback, received>>
  BY DEF PutChunk, playerVars
<1>4. c \in Chunk /\ input \in ChannelOf(Chunk, Depth)
  BY <1>1 DEF Sender, Chunk, TypeInv, TypeOK
<1>5. /\ op'[o].pc = "ack" /\ op'[o].send = op[o].send /\ op'[o].ready = op[o].ready
      /\ op'[o].result = op[o].result
      /\ \A p \in Operator : p # o => op'[p] = op[p]
  BY <1>1 DEF PutChunk, TypeInv, TypeOK, Sender
<1>6. c.send = op[o].send
  OBVIOUS
<1> HIDE DEF c
<1>7. \A f \in Frames' : f \in Frames \/ f = c
  <2>1. Unread \in Seq(Chunk) /\ Unread' \in Seq(Chunk) /\ Unread'[Len(Unread')] = c
    BY <1>3, <1>4, PutFrames
  <2>2. PICK k \in {0, 1} :
          /\ Len(Unread') = Len(Unread) + 1 - k
          /\ \A i \in 1 .. Len(Unread') - 1 : Unread'[i] = Unread[i + k]
    BY <1>3, <1>4, PutFrames
  <2>3. ASSUME NEW i \in 1 .. Len(Unread'), i # Len(Unread')
        PROVE  \E j \in 1 .. Len(Unread) : Unread'[i] = Unread[j]
    <3>1. Len(Unread) \in Nat /\ Len(Unread') \in Nat
      BY <2>1
    <3>2. i \in 1 .. Len(Unread') - 1
      BY <2>3, <3>1
    <3>3. i + k \in 1 .. Len(Unread)
      BY <2>2, <3>1, <3>2
    <3> QED BY <2>2, <3>2, <3>3
  <2>4. DOMAIN Unread = 1 .. Len(Unread) /\ DOMAIN Unread' = 1 .. Len(Unread')
    BY <2>1
  <2>5. Taken' = Taken
    BY <1>3 DEF Taken
  <2>6. \A i \in DOMAIN Unread' :
            Unread'[i] = c \/ \E j \in DOMAIN Unread : Unread'[i] = Unread[j]
    BY <2>1, <2>3, <2>4, Zenon
  <2> QED BY <2>5, <2>6 DEF Frames
<1>8. Invited(o) /\ \A p \in Operator : Busy(p) => p = o
  BY <1>2, <1>3 DEF Invited, Underway, Busy, OneSender
<1>9. InvitedAlone'
  <2>1. ASSUME NEW p \in Operator, Invited(p)' PROVE p = o
    BY <1>5, <1>8, <2>1 DEF Invited, Busy
  <2> QED BY <1>2, <1>5, <1>6, <1>7, <1>8, <2>1 DEF AnswersTrue, InvitedAlone
<1>10. PutWhenReady'
  BY <1>2, <1>5 DEF AnswersTrue, PutWhenReady, HasPut
<1>11. FinishedIsReceived' /\ OkayIsReceived'
  BY <1>2, <1>3, <1>5 DEF AnswersTrue, FinishedIsReceived, OkayIsReceived, Underway
<1>12. ReadyIsEmpty'
  BY <1>2, <1>3 DEF ReadyIsEmpty
<1> QED
  BY <1>9, <1>10, <1>11, <1>12 DEF AnswersTrue

LEMMA AckAnswer ==
    ASSUME TypeInv, AnswerInv, NEW o \in Operator, TakeAck(o) \/ AckTimeout(o) \/ AwaitError(o)
    PROVE  AnswerInv'
<1> SUFFICES ASSUME ~overlapped', ~outOfTurn' PROVE AnswersTrue'
  BY DEF AnswerInv
<1>1. AnswersTrue
  BY DEF AnswerInv, TakeAck, AckTimeout, AwaitError, historyVars
<1>2. UNCHANGED <<input, pc, traj, received>> /\ Frames' = Frames
  BY DEF TakeAck, AckTimeout, AwaitError, playerVars, historyVars, Frames, Unread, Taken
<1>3. op \in [Operator -> Sender] /\ op[o] \in Sender /\ op[o].pc \in {"ack", "await"}
      /\ feedback \in [Operator -> Feedback \cup {NoFeedback}]
  BY DEF TypeInv, TypeOK, TakeAck, AckTimeout, AwaitError
<1>4. op[o].pc = "ack" => op[o].ready
  BY <1>1, <1>3 DEF AnswersTrue, PutWhenReady, HasPut
<1>5. feedback'[o] = NoFeedback /\ \A p \in Operator : p # o => feedback'[p] = feedback[p]
  BY <1>3 DEF TakeAck, AckTimeout, AwaitError
<1>6. \A p \in Operator : p # o => op'[p] = op[p]
  BY <1>3 DEF TakeAck, AckTimeout, AwaitError, Returns
<1>7. \/ /\ op'[o].pc = "idle" /\ op'[o].send = op[o].send
         /\ op'[o].result = "OKAY" => op[o].pc = "ack" /\ feedback[o].state = "FINISHED"
      \/ /\ op[o].pc = "ack" /\ op'[o].pc = "put" /\ op'[o].ready = op[o].ready /\ op'[o].send = op[o].send
         /\ op'[o].result = op[o].result
  <2>1. CASE \E r : /\ Returns(o, r)
                    /\ r = "OKAY" => op[o].pc = "ack" /\ feedback[o].state = "FINISHED"
    BY <1>3, <2>1 DEF Returns, AtRest
  <2>2. CASE op[o].pc = "ack" /\ op' = [op EXCEPT ![o].pc = "put", ![o].chunk = @ + 1]
    BY <1>3, <2>2 DEF Sender
  <2>3. Verdict(feedback[o], op[o].chunk, op[o].total) = "OKAY" =>
            feedback[o].state = "FINISHED"
    BY DEF Verdict, Nothing
  <2> QED BY <2>1, <2>2, <2>3 DEF TakeAck, AckTimeout, AwaitError
<1>8. ASSUME NEW p \in Operator, Invited(p)' PROVE Invited(p) /\ op'[p].send = op[p].send
  <2>1. CASE p = o
    <3>1. op'[o].send = op[o].send
      BY <1>7
    <3>2. op'[o].pc # "idle"
      BY <1>8, <2>1 DEF Invited, Busy
    <3>3. op[o].pc = "ack"
      BY <1>7, <3>2
    <3> QED BY <1>4, <2>1, <3>1, <3>3 DEF Invited, Underway, Busy
  <2> QED BY <1>5, <1>6, <1>8, <2>1 DEF Invited, Underway, Busy
<1>9. InvitedAlone'
  BY <1>1, <1>2, <1>8 DEF AnswersTrue, InvitedAlone
<1>10. PutWhenReady'
  BY <1>1, <1>4, <1>6, <1>7 DEF AnswersTrue, PutWhenReady, HasPut
<1>11. FinishedIsReceived'
  BY <1>1, <1>2, <1>5, <1>6 DEF AnswersTrue, FinishedIsReceived, Underway, NoFeedback, Nothing
<1>12. OkayIsReceived'
  BY <1>1, <1>2, <1>3, <1>4, <1>6, <1>7
     DEF AnswersTrue, OkayIsReceived, FinishedIsReceived, Underway
<1> QED
  BY <1>1, <1>2, <1>9, <1>10, <1>11, <1>12 DEF AnswersTrue, ReadyIsEmpty, Unread

(* The player adds no frame.                                                *)
LEMMA GetKeepsFrames ==
    ASSUME TypeInv, HasFrame(input), input' = AfterGet(input)
    PROVE  \A i \in DOMAIN Unread' : Unread'[i] \in Frames
<1>1. input \in ChannelOf(Chunk, Depth)
  BY DEF TypeInv, TypeOK
<1>2. /\ Unread \in Seq(Chunk) /\ Unread' \in Seq(Chunk) /\ Len(Unread') = Len(Unread) - 1
      /\ \A i \in 1 .. Len(Unread') : Unread'[i] = Unread[i + 1]
  BY <1>1, GetFrames
<1>3. DOMAIN Unread = 1 .. Len(Unread) /\ DOMAIN Unread' = 1 .. Len(Unread')
  BY <1>2
<1>4. ASSUME NEW i \in 1 .. Len(Unread') PROVE Unread'[i] \in Frames
  <2>1. i + 1 \in DOMAIN Unread /\ Unread'[i] = Unread[i + 1]
    BY <1>2, <1>3
  <2> QED BY <2>1 DEF Frames
<1> QED BY <1>3, <1>4

LEMMA PlayerKeepsFrames ==
    ASSUME TypeInv, PlayerStep \/ PlayerRestart
    PROVE  Frames' \subseteq Frames
<1>1. CASE StepLoad \/ StepFetch \/ PlayerRestart
  <2>1. Unread' = <<>> /\ Taken' = <<>>
    BY <1>1 DEF StepLoad, StepFetch, PlayerRestart, BeginReception, Unread, Taken, Flushed
  <2> QED BY <2>1 DEF Frames
<1>2. CASE StepQuit \/ StepPlay \/ AnnounceReady \/ ReceiveTimeout
  <2>1. Unread' = Unread /\ Taken' = <<>>
    BY <1>2 DEF StepQuit, StepPlay, AnnounceReady, ReceiveTimeout, TakeInstruction, Abandon,
                Unread, Taken
  <2> QED BY <2>1 DEF Frames
<1>3. CASE RejectChunk
  <2>1. Taken' = <<>> /\ HasFrame(input) /\ input' = AfterGet(input)
    BY <1>3 DEF RejectChunk, Abandon, Taken
  <2> QED BY <2>1, GetKeepsFrames DEF Frames
<1>4. CASE TakeChunk \/ TakeLastChunk
  <2>1. PICK c \in FramesIn(input) :
          /\ AcceptChunk(c)
          /\ traj' = Append(traj, c) \/ traj' = <<>>
    BY <1>4 DEF TakeChunk, TakeLastChunk, Abandon
  <2>2. /\ HasFrame(input) /\ input' = AfterGet(input) /\ pc = "listen" /\ c \in Frames
        /\ traj \in Seq(Chunk) /\ c \in Chunk
    BY <2>1, AcceptType DEF AcceptChunk, Listens, FramesIn, Frames, Unread, TypeInv, TypeOK
  <2>3. \A i \in DOMAIN traj : traj[i] \in Frames
    BY <2>2 DEF Frames, Taken
  <2>4. \A i \in DOMAIN Append(traj, c) : Append(traj, c)[i] \in Frames
    BY <2>2, <2>3
  <2>5. \A i \in DOMAIN Taken' : Taken'[i] \in Frames
    BY <2>1, <2>4 DEF Taken
  <2> QED BY <2>2, <2>5, GetKeepsFrames DEF Frames
<1> QED
  BY <1>1, <1>2, <1>3, <1>4 DEF PlayerStep, Receiving

LEMMA PlayerAnswer ==
    ASSUME TypeInv, AnswerInv, PlayerStep \/ PlayerRestart
    PROVE  AnswerInv'
<1> SUFFICES ASSUME ~overlapped', ~outOfTurn' PROVE AnswersTrue'
  BY DEF AnswerInv
<1>1. op' = op /\ AnswersTrue
  BY PlayerLeavesSenders DEF AnswerInv
<1>2. PutWhenReady'
  BY <1>1 DEF AnswersTrue, PutWhenReady, HasPut
<1>3. ReadyIsEmpty'
  BY <1>1 DEF AnswersTrue, ReadyIsEmpty, Unread, Flushed, PlayerStep, PlayerRestart, StepLoad,
     StepQuit, StepFetch, StepPlay, TakeInstruction, BeginReception, Receiving, AnnounceReady,
     ReceiveTimeout, RejectChunk, TakeChunk, TakeLastChunk, AcceptChunk, Listens, Abandon
<1>4. received \subseteq received'
  BY DEF PlayerStep, PlayerRestart, StepLoad, StepQuit, StepFetch, StepPlay, TakeInstruction,
         historyVars, Receiving, AnnounceReady, ReceiveTimeout, RejectChunk, TakeChunk,
         TakeLastChunk
<1>5. OkayIsReceived'
  BY <1>1, <1>4 DEF AnswersTrue, OkayIsReceived
<1>6. CASE AnnounceReady
  <2>1. Unread' = <<>> /\ Taken' = <<>>
    BY <1>1, <1>6 DEF AnswersTrue, ReadyIsEmpty, AnnounceReady, Unread, Taken
  <2>2. InvitedAlone'
    BY <2>1 DEF InvitedAlone, Frames
  <2>3. FinishedIsReceived'
    BY <1>1, <1>6 DEF AnnounceReady, Reply, FinishedIsReceived, Underway
  <2> QED BY <1>2, <1>3, <1>5, <2>2, <2>3 DEF AnswersTrue
<1>7. CASE ~AnnounceReady
  <2>1. \/ feedback' = feedback
        \/ \E s \in RxState \ {"READ_READY"}, i \in ChunkId :
              Reply(s, i) /\ (s = "FINISHED" => TakeLastChunk)
    <3>1. CASE StepLoad \/ StepQuit \/ StepFetch \/ StepPlay \/ PlayerRestart
      BY <3>1 DEF StepLoad, StepQuit, StepFetch, StepPlay, TakeInstruction, PlayerRestart
    <3>2. CASE ReceiveTimeout
      BY <3>2 DEF ReceiveTimeout, RxState
    <3>3. CASE RejectChunk
      <4>1. Next1(input).id \in ChunkId
        BY <3>3, TakeType DEF RejectChunk, TypeInv, TypeOK, Chunk
      <4> QED BY <3>3, <4>1 DEF RejectChunk, RxState
    <3>4. CASE TakeChunk \/ TakeLastChunk
      <4>1. PICK c : AcceptChunk(c) /\ \/ Reply("LISTENING", c.id)
                                       \/ Reply("FINISHED", c.id) /\ TakeLastChunk
        BY <3>4 DEF TakeChunk, TakeLastChunk
      <4>2. c.id \in ChunkId
        BY <4>1, AcceptType DEF TypeInv, Chunk
      <4> QED BY <4>1, <4>2 DEF RxState
    <3> QED BY <1>7, <3>1, <3>2, <3>3, <3>4 DEF PlayerStep, Receiving
  <2>2. ASSUME NEW o \in Operator, Invited(o)' PROVE Invited(o)
    BY <1>1, <2>1, <2>2 DEF Invited, Underway, Busy, Reply, Ready, RxState
  <2>3. InvitedAlone'
    BY <1>1, <2>2, PlayerKeepsFrames DEF AnswersTrue, InvitedAlone
  <2>4. FinishedIsReceived'
    <3> SUFFICES ASSUME NEW o \in Operator, Underway(o), feedback'[o].state = "FINISHED"
                 PROVE  op[o].send \in received'
      BY <1>1 DEF FinishedIsReceived, Underway
    <3>1. CASE feedback' = feedback
      BY <1>1, <1>4, <3>1 DEF AnswersTrue, FinishedIsReceived
    <3>2. CASE TakeLastChunk
      <4>1. op[o].send \in SendId /\ \A f \in Frames : f.send = op[o].send
        BY <1>1 DEF AnswersTrue, InvitedAlone, Invited, Underway, Busy, TypeInv, SendersFit
      <4>2. PICK c \in FramesIn(input) :
              /\ AcceptChunk(c)
              /\ received' = received \cup
                     {s \in SendId :
                        \A d \in FramesIn([unread |-> Append(traj, c)]) : d.send = s}
        BY <3>2 DEF TakeLastChunk
      <4>3. c \in Frames /\ c \in Chunk /\ traj \in Seq(Chunk) /\ pc = "listen"
        BY <4>2, AcceptType DEF AcceptChunk, Listens, FramesIn, Frames, Unread, TypeInv, TypeOK
      <4>4. \A i \in DOMAIN traj : traj[i] \in Frames
        BY <4>3 DEF Frames, Taken
      <4>5. \A i \in DOMAIN Append(traj, c) : Append(traj, c)[i] \in Frames
        BY <4>3, <4>4
      <4>6. \A d \in FramesIn([unread |-> Append(traj, c)]) : d \in Frames
        BY <4>5 DEF FramesIn
      <4> QED BY <4>1, <4>2, <4>6
    <3> QED BY <2>1, <3>1, <3>2 DEF Reply, Underway
  <2> QED BY <1>2, <1>3, <1>5, <2>3, <2>4 DEF AnswersTrue
<1> QED BY <1>6, <1>7

LEMMA NextAnswerInv == TypeInv /\ LineInv /\ AnswerInv /\ [Next]_vars => AnswerInv'
<1> SUFFICES ASSUME TypeInv, LineInv, AnswerInv, [Next]_vars PROVE AnswerInv'
  OBVIOUS
<1> USE DEF AnswerInv, AnswersTrue, ReadyIsEmpty, InvitedAlone, PutWhenReady,
            FinishedIsReceived, OkayIsReceived, Invited, Underway, HasPut, Busy, Frames,
            Taken, Unread
<1>1. ASSUME NEW o \in Operator, NEW i \in {"QUIT", "RUN"}, SendInstruction(o, i)
      PROVE  AnswerInv'
  BY <1>1 DEF SendInstruction, playerVars, historyVars
<1>2. CASE UNCHANGED vars
  BY <1>2 DEF vars, playerVars, historyVars
<1> QED
  BY <1>1, <1>2, StartSendAnswer, AwaitReadyAnswer, PutChunkAnswer, AckAnswer, PlayerAnswer
     DEF Next, Sending

(* An operator that is told OKAY has had all its chunks taken, as long as   *)
(* transfers do not overlap and nobody sends without a READ_READY.          *)
THEOREM OkayHolds == Spec => []OkayMeansReceived
<1>1. AnswerInv => OkayMeansReceived
  BY DEF AnswerInv, AnswersTrue, OkayIsReceived, OkayMeansReceived
<1> QED
  BY <1>1, InitAnswerInv, NextAnswerInv, LineHolds, TypeCorrect, PTL DEF Spec

-----------------------------------------------------------------------------
(* At most once and in order.  A trajectory is handed over only with its    *)
(* first chunk, which is put once, at the beginning of a transfer that no   *)
(* other has the number of; so it is enough to follow the first chunks: in  *)
(* the ring, from there to the head of the trajectory that is received, and *)
(* from there to the history of what was received.                          *)
Numbered ==
    /\ \A o \in Operator : op[o].send <= sends
    /\ \A f \in Frames : f.send <= sends
    /\ \A s \in received : s <= sends

(* Whether the first chunk of transfer s has been put and was not lost.     *)
Arrives(s) ==
    \/ s \in received
    \/ Taken # <<>> /\ Taken[1].send = s
    \/ \E i \in DOMAIN Unread : Unread[i].id = 0 /\ Unread[i].send = s

OwnNumber == \A o, p \in Operator : Busy(o) /\ Busy(p) /\ op[o].send = op[p].send => o = p
NotPutYet == \A o \in Operator : Busy(o) /\ ~HasPut(o) => ~Arrives(op[o].send)
FirstsDiffer ==
    \A i, k \in DOMAIN Unread :
        Unread[i].id = 0 /\ Unread[k].id = 0 /\ Unread[i].send = Unread[k].send => i = k
FirstsAreNew ==
    \A i \in DOMAIN Unread : Unread[i].id = 0 =>
        /\ Unread[i].send \notin received
        /\ Taken # <<>> => Unread[i].send # Taken[1].send
HeadIsNew == Taken # <<>> => Taken[1].send \notin received

OnceInv == Numbered /\ OwnNumber /\ NotPutYet /\ FirstsDiffer /\ FirstsAreNew /\ HeadIsNew

(* As long as transfers do not overlap, only the latest puts chunks.        *)
OrderInv == ~overlapped =>
    /\ \A o \in Operator : Busy(o) => op[o].send = sends
    /\ \A i, k \in DOMAIN Unread : i <= k => Unread[i].send <= Unread[k].send
    /\ \A d \in received, i \in DOMAIN Unread : d <= Unread[i].send

LEMMA InitOnce == Init => OnceInv /\ OrderInv
<1> SUFFICES ASSUME Init PROVE OnceInv /\ OrderInv
  OBVIOUS
<1>1. Unread = <<>> /\ Taken = <<>> /\ received = {} /\ Frames = {}
  BY DEF Init, Unread, Taken, Flushed, Frames
<1>2. \A o \in Operator : ~Busy(o) /\ op[o].send = 0 /\ sends = 0
  BY DEF Init, Busy, AtRest
<1> QED
  BY <1>1, <1>2 DEF OnceInv, Numbered, OwnNumber, NotPutYet, FirstsDiffer, FirstsAreNew,
                    HeadIsNew, OrderInv

(* What keeps the channel and the player as they are keeps what is there.   *)
LEMMA SameFrames ==
    ASSUME UNCHANGED <<input, pc, traj, received>>
    PROVE  /\ Unread' = Unread /\ Taken' = Taken /\ Frames' = Frames
           /\ \A s : Arrives(s)' = Arrives(s)
           /\ (FirstsDiffer => FirstsDiffer') /\ (FirstsAreNew => FirstsAreNew')
           /\ (HeadIsNew => HeadIsNew')
<1>1. Unread' = Unread /\ Taken' = Taken
  BY DEF Unread, Taken
<1> QED BY <1>1 DEF Frames, Arrives, FirstsDiffer, FirstsAreNew, HeadIsNew

LEMMA FrameTypes ==
    ASSUME TypeInv
    PROVE  /\ Unread \in Seq(Chunk) /\ Taken \in Seq(Chunk) /\ \A f \in Frames : f \in Chunk
           /\ sends \in Nat /\ \A o \in Operator : op[o].send \in Nat
           /\ \A s \in received : s \in Nat
<1>1. Unread \in Seq(Chunk) /\ Taken \in Seq(Chunk)
  BY DEF TypeInv, TypeOK, ChannelOf, Unread, Taken
<1>2. \A o \in Operator : op[o].send \in Nat
  BY BoundsAssumption DEF TypeInv, TypeOK, Sender, SendId
<1>3. sends \in Nat /\ \A s \in received : s \in Nat
  BY BoundsAssumption DEF TypeInv, TypeOK, SendId
<1> QED BY <1>1, <1>2, <1>3 DEF Frames

LEMMA StartSendOnce ==
    ASSUME TypeInv, OnceInv, OrderInv, NEW o \in Operator, NEW total \in 1 .. MaxChunks,
           StartSend(o, total)
    PROVE  OnceInv' /\ OrderInv'
<1>1. UNCHANGED <<input, pc, traj, received>> /\ sends' = sends + 1
  BY DEF StartSend, playerVars
<1>2. /\ op'[o].pc = "await" /\ op'[o].send = sends + 1
      /\ \A p \in Operator : p # o => op'[p] = op[p]
  BY DEF StartSend, TypeInv, TypeOK, AtRest
<1>3. sends \in Nat /\ \A s \in received : s \in Nat
  BY FrameTypes
<1>4. ~Arrives(sends + 1)
  <2>1. \A s \in received : s <= sends
    BY DEF OnceInv, Numbered
  <2>2. \A i \in DOMAIN Unread : Unread[i] \in Frames
    BY DEF Frames
  <2>3. Taken # <<>> => Taken[1] \in Frames
    <3>1. Taken # <<>> => 1 \in DOMAIN Taken
      BY FrameTypes
    <3> QED BY <3>1 DEF Frames
  <2>4. \A f \in Frames : f.send <= sends
    BY DEF OnceInv, Numbered
  <2>5. sends + 1 \notin received /\ \A f \in Frames : f.send # sends + 1
    BY <1>3, <2>1, <2>4
  <2> QED BY <2>2, <2>3, <2>5 DEF Arrives
<1>5. Numbered'
  <2>1. \A p \in Operator : op[p].send \in Nat /\ op[p].send <= sends
    BY FrameTypes DEF OnceInv, Numbered
  <2>2. ASSUME NEW p \in Operator PROVE op'[p].send <= sends'
    BY <1>1, <1>2, <1>3, <2>1
  <2>3. \A f \in Frames' : f.send <= sends'
    <3>1. \A f \in Frames : f \in Chunk /\ f.send <= sends
      BY FrameTypes DEF OnceInv, Numbered
    <3>2. \A f \in Frames : f.send <= sends + 1
      BY <1>3, <3>1 DEF Chunk, SendId
    <3> QED BY <1>1, <3>2, SameFrames
  <2>4. \A s \in received' : s <= sends'
    BY <1>1, <1>3 DEF OnceInv, Numbered
  <2> QED BY <2>2, <2>3, <2>4 DEF Numbered
<1>6. OwnNumber'
  <2>1. \A p \in Operator : p # o => op'[p].send # sends + 1 /\ Busy(p)' = Busy(p)
    <3>1. \A p \in Operator : op[p].send \in Nat /\ op[p].send <= sends
      BY FrameTypes DEF OnceInv, Numbered
    <3>2. \A p \in Operator : op[p].send # sends + 1
      BY <1>3, <3>1
    <3> QED BY <1>2, <3>2 DEF Busy
  <2> QED BY <1>2, <2>1 DEF OnceInv, OwnNumber
<1>7. NotPutYet'
  BY <1>1, <1>2, <1>4, SameFrames DEF OnceInv, NotPutYet, Busy, HasPut
<1>8. OrderInv'
  <2> SUFFICES ASSUME ~overlapped'
               PROVE  /\ \A p \in Operator : Busy(p)' => op'[p].send = sends + 1
                      /\ \A i, k \in DOMAIN Unread : i <= k => Unread[i].send <= Unread[k].send
                      /\ \A d \in received, i \in DOMAIN Unread : d <= Unread[i].send
    BY <1>1, SameFrames DEF OrderInv
  <2>1. ~overlapped /\ \A p \in Operator : ~Busy(p)
    BY DEF StartSend, Busy
  <2>2. \A p \in Operator : Busy(p)' => p = o
    BY <1>2, <2>1 DEF Busy
  <2> QED BY <1>2, <2>1, <2>2 DEF OrderInv
<1> QED BY <1>1, <1>5, <1>6, <1>7, <1>8, SameFrames DEF OnceInv

(* Waiting, and returning, changes neither what there is nor whose it is.   *)
LEMMA WaitingOnce ==
    ASSUME TypeInv, OnceInv, OrderInv, NEW o \in Operator,
           AwaitReady(o) \/ AwaitError(o) \/ TakeAck(o) \/ AckTimeout(o)
    PROVE  OnceInv' /\ OrderInv'
<1>1. UNCHANGED <<input, pc, traj, received>> /\ sends' = sends /\ overlapped' = overlapped
  BY DEF AwaitReady, AwaitError, TakeAck, AckTimeout, playerVars, historyVars
<1>2. /\ Busy(o) /\ \A p \in Operator : p # o => op'[p] = op[p]
      /\ op'[o].send = op[o].send
  BY WaitingStep
<1>3. HasPut(o) => HasPut(o)' \/ ~Busy(o)'
  <2>1. CASE AwaitReady(o)
    BY <2>1 DEF AwaitReady, HasPut, TypeInv, SendersFit
  <2>2. CASE TakeAck(o) \/ AckTimeout(o) \/ AwaitError(o)
    <3>1. op \in [Operator -> Sender] /\ op[o] \in Sender
      BY DEF TypeInv, TypeOK
    <3>2. \/ \E r : Returns(o, r)
          \/ op' = [op EXCEPT ![o].pc = "put", ![o].chunk = @ + 1]
      BY <2>2 DEF TakeAck, AckTimeout, AwaitError
    <3>3. CASE \E r : Returns(o, r)
      BY <3>1, <3>3 DEF Returns, AtRest, Busy
    <3>4. CASE op' = [op EXCEPT ![o].pc = "put", ![o].chunk = @ + 1]
      <4>1. op'[o].pc = "put" /\ op'[o].chunk = op[o].chunk + 1 /\ op[o].chunk \in Nat
        BY <3>1, <3>4, BoundsAssumption DEF Sender, ChunkId
      <4>2. op'[o].chunk > 0
        BY <4>1
      <4> QED BY <4>1, <4>2 DEF HasPut
    <3> QED BY <3>2, <3>3, <3>4
  <2> QED BY <2>1, <2>2
<1>4. \A p \in Operator :
          /\ op'[p].send = op[p].send
          /\ Busy(p)' => Busy(p)
          /\ Busy(p)' /\ ~HasPut(p)' => ~HasPut(p)
  BY <1>2, <1>3 DEF Busy, HasPut
<1>5. Numbered'
  BY <1>1, <1>4, SameFrames DEF OnceInv, Numbered
<1>6. OwnNumber'
  BY <1>4 DEF OnceInv, OwnNumber
<1>7. NotPutYet'
  BY <1>1, <1>4, SameFrames DEF OnceInv, NotPutYet
<1>8. OrderInv'
  BY <1>1, <1>4, SameFrames DEF OrderInv
<1> QED BY <1>1, <1>5, <1>6, <1>7, <1>8, SameFrames DEF OnceInv

LEMMA PutChunkOnce ==
    ASSUME TypeInv, LineInv, OnceInv, OrderInv, NEW o \in Operator, PutChunk(o)
    PROVE  OnceInv' /\ OrderInv'
<1> DEFINE c == [send |-> op[o].send, id |-> op[o].chunk, total |-> op[o].total]
<1>1. op[o] \in Sender /\ op[o].send \in SendId
  BY DEF TypeInv, TypeOK, SendersFit, PutChunk
<1>2. /\ op[o].pc = "put" /\ input' = Put(input, Depth, c)
      /\ UNCHANGED <<pc, traj, received, sends, overlapped>>
  BY DEF PutChunk, playerVars
<1>3. c \in Chunk /\ input \in ChannelOf(Chunk, Depth)
  BY <1>1 DEF Sender, Chunk, TypeInv, TypeOK
<1>4. /\ op'[o].pc = "ack" /\ op'[o].send = op[o].send
      /\ \A p \in Operator : p # o => op'[p] = op[p]
  BY <1>1 DEF PutChunk, TypeInv, TypeOK, Sender
<1>5. c.send = op[o].send /\ c.id = op[o].chunk /\ op[o].chunk \in Nat
  BY <1>1, BoundsAssumption DEF Sender, ChunkId
<1> HIDE DEF c
<1>6. Unread \in Seq(Chunk) /\ Unread' \in Seq(Chunk) /\ Unread'[Len(Unread')] = c
      /\ Unread' # <<>>
  BY <1>2, <1>3, PutFrames
<1>7. PICK k \in {0, 1} :
        /\ Len(Unread') = Len(Unread) + 1 - k
        /\ \A i \in 1 .. Len(Unread') - 1 : Unread'[i] = Unread[i + k]
  BY <1>2, <1>3, PutFrames
<1>8. DOMAIN Unread = 1 .. Len(Unread) /\ DOMAIN Unread' = 1 .. Len(Unread')
  BY <1>6
<1>9. ASSUME NEW i \in DOMAIN Unread', i # Len(Unread')
      PROVE  i + k \in DOMAIN Unread /\ Unread'[i] = Unread[i + k] /\ i < Len(Unread')
  <2>1. Len(Unread) \in Nat /\ Len(Unread') \in Nat
    BY <1>6
  <2>2. i \in 1 .. Len(Unread') - 1 /\ i < Len(Unread')
    BY <1>8, <1>9, <2>1
  <2>3. i + k \in 1 .. Len(Unread)
    BY <1>7, <2>1, <2>2
  <2> QED BY <1>7, <1>8, <2>2, <2>3
<1>10. Taken' = Taken
  BY <1>2 DEF Taken
<1>11. \A f \in Frames' : f \in Frames \/ f = c
  <2>1. \A i \in DOMAIN Unread' : Unread'[i] = c \/ \E j \in DOMAIN Unread : Unread'[i] = Unread[j]
    BY <1>6, <1>9
  <2> QED BY <1>10, <2>1 DEF Frames
<1>12. Numbered'
  <2>1. \A p \in Operator : op'[p].send = op[p].send
    BY <1>4
  <2>2. \A f \in Frames' : f.send <= sends
    BY <1>5, <1>11 DEF OnceInv, Numbered
  <2> QED BY <1>2, <2>1, <2>2 DEF OnceInv, Numbered
<1>13. HasPut(o)' /\ \A p \in Operator :
          /\ op'[p].send = op[p].send /\ Busy(p)' = Busy(p)
          /\ p # o => HasPut(p)' = HasPut(p)
  BY <1>2, <1>4 DEF HasPut, Busy
<1>14. OwnNumber'
  BY <1>13 DEF OnceInv, OwnNumber
(* The first chunk is the first. *)
<1>15. c.id = 0 => ~Arrives(c.send)
  <2>1. c.id = 0 => Busy(o) /\ ~HasPut(o)
    BY <1>2, <1>5 DEF Busy, HasPut
  <2> QED BY <1>5, <2>1 DEF OnceInv, NotPutYet
<1>16. \A s : Arrives(s)' => Arrives(s) \/ (s = c.send /\ c.id = 0)
  <2> SUFFICES ASSUME NEW s, NEW i \in DOMAIN Unread', Unread'[i].id = 0, Unread'[i].send = s
               PROVE  Arrives(s) \/ (s = c.send /\ c.id = 0)
    BY <1>2, <1>10 DEF Arrives
  <2>1. CASE i = Len(Unread')
    BY <1>6, <2>1
  <2>2. CASE i # Len(Unread')
    BY <1>9, <2>2 DEF Arrives
  <2> QED BY <2>1, <2>2
<1>17. NotPutYet'
  <2> SUFFICES ASSUME NEW p \in Operator, Busy(p)', ~HasPut(p)'
               PROVE  ~Arrives(op[p].send)'
    BY <1>13 DEF NotPutYet
  <2>1. p # o /\ Busy(p) /\ ~HasPut(p)
    BY <1>13
  <2>2. op[p].send # op[o].send
    BY <1>2, <2>1 DEF OnceInv, OwnNumber, Busy
  <2> QED BY <1>5, <1>13, <1>16, <2>1, <2>2 DEF OnceInv, NotPutYet
<1>18. FirstsDiffer'
  <2> SUFFICES ASSUME NEW i \in DOMAIN Unread', NEW j \in DOMAIN Unread',
                      Unread'[i].id = 0, Unread'[j].id = 0, Unread'[i].send = Unread'[j].send,
                      i # Len(Unread')
               PROVE  i = j
    BY <1>8 DEF FirstsDiffer
  <2>1. i + k \in DOMAIN Unread /\ Unread'[i] = Unread[i + k]
    BY <1>9
  <2>2. CASE j = Len(Unread')
    <3>1. Arrives(c.send) /\ c.id = 0
      BY <1>6, <2>1, <2>2 DEF Arrives
    <3> QED BY <1>15, <3>1
  <2>3. CASE j # Len(Unread')
    <3>1. j + k \in DOMAIN Unread /\ Unread'[j] = Unread[j + k]
      BY <1>9, <2>3
    <3>2. i + k = j + k
      BY <2>1, <3>1 DEF OnceInv, FirstsDiffer
    <3> QED BY <1>8, <3>2
  <2> QED BY <2>2, <2>3
<1>19. FirstsAreNew'
  <2> SUFFICES ASSUME NEW i \in DOMAIN Unread', Unread'[i].id = 0
               PROVE  /\ Unread'[i].send \notin received
                      /\ Taken # <<>> => Unread'[i].send # Taken[1].send
    BY <1>2, <1>10 DEF FirstsAreNew
  <2>1. CASE i = Len(Unread')
    BY <1>6, <1>15, <2>1 DEF Arrives
  <2>2. CASE i # Len(Unread')
    BY <1>9, <2>2 DEF OnceInv, FirstsAreNew
  <2> QED BY <2>1, <2>2
<1>20. HeadIsNew'
  BY <1>2, <1>10 DEF OnceInv, HeadIsNew
(* It is the latest. *)
<1>21. OrderInv'
  <2> SUFFICES ASSUME ~overlapped
               PROVE  /\ \A p \in Operator : Busy(p)' => op'[p].send = sends
                      /\ \A i, j \in DOMAIN Unread' :
                            i <= j => Unread'[i].send <= Unread'[j].send
                      /\ \A d \in received, i \in DOMAIN Unread' : d <= Unread'[i].send
    BY <1>2 DEF OrderInv
  <2>1. c.send = sends
    BY <1>2, <1>5 DEF OrderInv, Busy
  <2>2. \A i \in DOMAIN Unread : Unread[i].send <= sends
    BY DEF OnceInv, Numbered, Frames
  <2>3. ASSUME NEW i \in DOMAIN Unread', NEW j \in DOMAIN Unread', i <= j
        PROVE  Unread'[i].send <= Unread'[j].send
    <3>1. CASE i = Len(Unread')
      <4>1. j = Len(Unread') /\ sends \in Nat
        BY <1>6, <1>8, <2>3, <3>1, FrameTypes
      <4> QED BY <1>6, <2>1, <3>1, <4>1
    <3>2. CASE i # Len(Unread') /\ j = Len(Unread')
      BY <1>6, <1>9, <2>1, <2>2, <3>2
    <3>3. CASE i # Len(Unread') /\ j # Len(Unread')
      <4>1. /\ i + k \in DOMAIN Unread /\ Unread'[i] = Unread[i + k]
            /\ j + k \in DOMAIN Unread /\ Unread'[j] = Unread[j + k]
        BY <1>9, <3>3
      <4>2. i + k <= j + k
        BY <1>8, <2>3
      <4> QED BY <4>1, <4>2 DEF OrderInv
    <3> QED BY <3>1, <3>2, <3>3
  <2>4. ASSUME NEW d \in received, NEW i \in DOMAIN Unread'
        PROVE  d <= Unread'[i].send
    <3>1. CASE i = Len(Unread')
      BY <1>6, <2>1, <3>1 DEF OnceInv, Numbered
    <3>2. CASE i # Len(Unread')
      BY <1>9, <3>2 DEF OrderInv
    <3> QED BY <3>1, <3>2
  <2> QED BY <1>13, <2>3, <2>4 DEF OrderInv
<1> QED BY <1>12, <1>14, <1>17, <1>18, <1>19, <1>20, <1>21 DEF OnceInv

(* The player's steps: the first chunk it has of a trajectory is the first  *)
(* one of a transfer of which it had none, and is not in the ring any more. *)
LEMMA FirstTaken ==
    ASSUME TypeInv, PlayInv, OnceInv, NEW c, AcceptChunk(c)
    PROVE  LET s == Append(traj, c)[1].send
           IN  /\ c \in Chunk /\ traj \in Seq(Chunk) /\ Append(traj, c) # <<>>
               /\ Unread # <<>> /\ c = Unread[1]
               /\ Unread \in Seq(Chunk) /\ Unread' \in Seq(Chunk)
               /\ Len(Unread') = Len(Unread) - 1
               /\ \A i \in DOMAIN Unread' : i + 1 \in DOMAIN Unread /\ Unread'[i] = Unread[i + 1]
               /\ Arrives(s) /\ s \notin received
               /\ \A i \in DOMAIN Unread' : Unread'[i].id = 0 => Unread'[i].send # s
<1> DEFINE s == Append(traj, c)[1].send
<1>1. /\ traj \in Seq(Chunk) /\ c \in Chunk /\ c.id = chunkId + 1
      /\ input \in ChannelOf(Chunk, Depth) /\ chunkId \in ChunkId \cup {-1}
  BY AcceptType DEF TypeInv, TypeOK
<1>2. pc = "listen" /\ HasFrame(input) /\ c = Next1(input) /\ input' = AfterGet(input)
  BY DEF AcceptChunk, Listens
<1>3. /\ Unread \in Seq(Chunk) /\ Unread # <<>> /\ c = Unread[1]
      /\ Unread' \in Seq(Chunk) /\ Len(Unread') = Len(Unread) - 1
      /\ \A i \in 1 .. Len(Unread') : Unread'[i] = Unread[i + 1]
  BY <1>1, <1>2, GetFrames
<1>4. \A i \in DOMAIN Unread' : i + 1 \in DOMAIN Unread /\ Unread'[i] = Unread[i + 1] /\ i + 1 # 1
  BY <1>3
<1>5. Taken = traj /\ Len(traj) = chunkId + 1
  BY <1>2 DEF Taken, PlayInv, TakenSoFar
<1>6. CASE traj # <<>>
  <2>1. Append(traj, c)[1] = traj[1]
    BY <1>1, <1>6
  <2>2. s \notin received /\ Arrives(s)
    BY <1>5, <1>6, <2>1 DEF OnceInv, HeadIsNew, Arrives
  <2>3. \A i \in DOMAIN Unread : Unread[i].id = 0 => Unread[i].send # s
    BY <1>5, <1>6, <2>1 DEF OnceInv, FirstsAreNew
  <2>4. Append(traj, c) # <<>>
    BY <1>1
  <2> HIDE DEF s
  <2> QED BY <1>1, <1>3, <1>4, <2>2, <2>3, <2>4 DEF s
<1>7. CASE traj = <<>>
  <2>1. Append(traj, c)[1] = c /\ c.id = 0
    <3>1. Len(traj) = 0
      BY <1>7
    <3> QED BY <1>1, <1>5, <1>7, <3>1
  <2>2. 1 \in DOMAIN Unread
    BY <1>3
  <2>3. Unread[1].send = s
    BY <1>3, <2>1
  <2> HIDE DEF s
  <2>4. s \notin received /\ Arrives(s)
    BY <1>3, <2>1, <2>2, <2>3 DEF OnceInv, FirstsAreNew, Arrives
  <2>5. ASSUME NEW i \in DOMAIN Unread', Unread'[i].id = 0 PROVE Unread'[i].send # s
    <3>1. i + 1 \in DOMAIN Unread /\ Unread[i + 1].id = 0 /\ Unread[1].id = 0 /\ i + 1 # 1
      BY <1>3, <1>4, <2>1, <2>5
    <3>2. Unread[i + 1].send # Unread[1].send
      BY <2>2, <3>1 DEF OnceInv, FirstsDiffer
    <3> QED BY <1>4, <2>3, <3>2
  <2>6. Append(traj, c) # <<>>
    BY <1>1
  <2> QED BY <1>1, <1>3, <1>4, <2>4, <2>5, <2>6 DEF s
<1> QED BY <1>6, <1>7

(* What arrives is a transfer that has begun.                               *)
LEMMA ArrivesBegun ==
    ASSUME TypeInv, OnceInv, NEW s, Arrives(s)
    PROVE  s <= sends
<1>1. \A f \in Frames : f.send <= sends
  BY DEF OnceInv, Numbered
<1>2. Taken # <<>> => Taken[1] \in Frames
  <2>1. Taken # <<>> => 1 \in DOMAIN Taken
    BY FrameTypes
  <2> QED BY <2>1 DEF Frames
<1>3. \A i \in DOMAIN Unread : Unread[i] \in Frames
  BY DEF Frames
<1> QED BY <1>1, <1>2, <1>3 DEF Arrives, OnceInv, Numbered

(* A step of the player leaves in the ring a part of what there was, and    *)
(* takes, or adds to what was received, only what was arriving and is not   *)
(* in the ring any more.                                                    *)
Gone(s) == Arrives(s) /\ \A i \in DOMAIN Unread' : Unread'[i].id = 0 => Unread'[i].send # s

LEMMA PlayerOnceStep ==
    ASSUME TypeInv, OnceInv, OrderInv, op' = op, sends' = sends, overlapped' = overlapped,
           Frames' \subseteq Frames,
           NEW k \in Nat,
           \A i \in DOMAIN Unread' : i + k \in DOMAIN Unread /\ Unread'[i] = Unread[i + k],
           Unread' \in Seq(Chunk),
           Taken' # <<>> => Gone(Taken'[1].send) /\ Taken'[1].send \notin received',
           received \subseteq received',
           \A s \in received' : s \in received \/ Gone(s),
           ~overlapped =>
               \A s \in received', i \in DOMAIN Unread' : s \in received \/ s <= Unread'[i].send
    PROVE  OnceInv' /\ OrderInv'
<1>1. \A o \in Operator : Busy(o)' = Busy(o) /\ HasPut(o)' = HasPut(o)
  BY DEF Busy, HasPut
<1>2. Numbered'
  <2>1. \A s \in received' : s <= sends
    BY ArrivesBegun DEF OnceInv, Numbered, Gone
  <2> QED BY <2>1 DEF OnceInv, Numbered
<1>3. OwnNumber'
  BY <1>1 DEF OnceInv, OwnNumber
<1>4. NotPutYet'
  <2>1. \A s : Arrives(s)' => Arrives(s)
    BY DEF Arrives, Gone
  <2> QED BY <1>1, <2>1 DEF OnceInv, NotPutYet
<1>5. DOMAIN Unread' \subseteq Nat
  OBVIOUS
<1>6. FirstsDiffer'
  <2> SUFFICES ASSUME NEW i \in DOMAIN Unread', NEW j \in DOMAIN Unread',
                      Unread'[i].id = 0, Unread'[j].id = 0, Unread'[i].send = Unread'[j].send
               PROVE  i = j
    BY DEF FirstsDiffer
  <2>1. i + k = j + k
    BY DEF OnceInv, FirstsDiffer
  <2> QED BY <1>5, <2>1
<1>7. FirstsAreNew'
  <2> SUFFICES ASSUME NEW i \in DOMAIN Unread', Unread'[i].id = 0
               PROVE  /\ Unread'[i].send \notin received'
                      /\ Taken' # <<>> => Unread'[i].send # Taken'[1].send
    BY DEF FirstsAreNew
  <2>1. Unread'[i].send \notin received
    BY DEF OnceInv, FirstsAreNew
  <2> QED BY <2>1 DEF Gone
<1>8. HeadIsNew'
  BY DEF HeadIsNew
<1>9. OrderInv'
  <2> SUFFICES ASSUME ~overlapped
               PROVE  /\ \A o \in Operator : Busy(o) => op[o].send = sends
                      /\ \A i, j \in DOMAIN Unread' :
                            i <= j => Unread'[i].send <= Unread'[j].send
                      /\ \A d \in received', i \in DOMAIN Unread' : d <= Unread'[i].send
    BY <1>1 DEF OrderInv
  <2>1. ASSUME NEW i \in DOMAIN Unread', NEW j \in DOMAIN Unread', i <= j
        PROVE  Unread'[i].send <= Unread'[j].send
    <3>1. i + k <= j + k
      BY <1>5, <2>1
    <3> QED BY <3>1 DEF OrderInv
  <2>2. \A d \in received, i \in DOMAIN Unread' : d <= Unread'[i].send
    BY DEF OrderInv
  <2> QED BY <2>1, <2>2 DEF OrderInv
<1> QED BY <1>2, <1>3, <1>4, <1>6, <1>7, <1>8, <1>9 DEF OnceInv

(* What the last chunk completes, if all chunks are of one transfer.        *)
Completed(c) == {s \in SendId : \A d \in FramesIn([unread |-> Append(traj, c)]) : d.send = s}

LEMMA CompletedFirst ==
    ASSUME traj \in Seq(Chunk), NEW c \in Chunk, NEW s \in Completed(c)
    PROVE  s = Append(traj, c)[1].send /\ s = c.send
<1> DEFINE all == Append(traj, c)
<1>1. all \in Seq(Chunk) /\ 1 \in DOMAIN all /\ Len(traj) + 1 \in DOMAIN all
      /\ all[Len(traj) + 1] = c
  OBVIOUS
<1>2. \A i \in DOMAIN all : all[i].send = s
  BY DEF Completed, FramesIn
<1> QED BY <1>1, <1>2

LEMMA PlayerOnce ==
    ASSUME TypeInv, PlayInv, OnceInv, OrderInv, PlayerStep \/ PlayerRestart
    PROVE  OnceInv' /\ OrderInv'
<1>0. op' = op /\ sends' = sends /\ overlapped' = overlapped /\ Frames' \subseteq Frames
  BY PlayerLeavesSenders, PlayerKeepsFrames
<1>1. CASE StepLoad \/ StepFetch \/ PlayerRestart
  <2>1. Unread' = <<>> /\ Taken' = <<>> /\ received' = received
    BY <1>1 DEF StepLoad, StepFetch, PlayerRestart, BeginReception, Unread, Taken, Flushed,
                TakeInstruction, historyVars
  <2>2. \A i \in DOMAIN Unread' : i + 0 \in DOMAIN Unread /\ Unread'[i] = Unread[i + 0]
    BY <2>1
  <2>3. Unread' \in Seq(Chunk)
    BY <2>1
  <2> QED BY <1>0, <2>1, <2>2, <2>3, PlayerOnceStep
<1>2. CASE StepQuit \/ StepPlay \/ AnnounceReady \/ ReceiveTimeout
  <2>1. Unread' = Unread /\ Taken' = <<>> /\ received' = received
    BY <1>2 DEF StepQuit, StepPlay, AnnounceReady, ReceiveTimeout, TakeInstruction, Abandon,
                Unread, Taken, historyVars
  <2>2. Unread \in Seq(Chunk)
    BY FrameTypes
  <2>3. \A i \in DOMAIN Unread' : i + 0 \in DOMAIN Unread /\ Unread'[i] = Unread[i + 0]
    BY <2>1, <2>2
  <2> QED BY <1>0, <2>1, <2>2, <2>3, PlayerOnceStep
<1>3. CASE RejectChunk
  <2>1. Taken' = <<>> /\ HasFrame(input) /\ input' = AfterGet(input) /\ received' = received
    BY <1>3 DEF RejectChunk, Abandon, Taken
  <2>2. /\ Unread \in Seq(Chunk) /\ Unread' \in Seq(Chunk) /\ Len(Unread') = Len(Unread) - 1
        /\ \A i \in 1 .. Len(Unread') : Unread'[i] = Unread[i + 1]
    BY <2>1, GetFrames DEF TypeInv, TypeOK
  <2>3. \A i \in DOMAIN Unread' : i + 1 \in DOMAIN Unread /\ Unread'[i] = Unread[i + 1]
    BY <2>2
  <2> QED BY <1>0, <2>1, <2>2, <2>3, PlayerOnceStep
<1>4. CASE TakeChunk
  <2>1. PICK c \in FramesIn(input) :
          AcceptChunk(c) /\ traj' = Append(traj, c) /\ received' = received /\ pc' = pc
    BY <1>4 DEF TakeChunk
  <2>2. Taken' = Append(traj, c)
    BY <2>1 DEF AcceptChunk, Listens, Taken
  <2>3. /\ Unread' \in Seq(Chunk)
        /\ \A i \in DOMAIN Unread' : i + 1 \in DOMAIN Unread /\ Unread'[i] = Unread[i + 1]
        /\ Gone(Taken'[1].send) /\ Taken'[1].send \notin received'
    BY <2>1, <2>2, FirstTaken DEF Gone
  <2> QED BY <1>0, <2>1, <2>3, PlayerOnceStep
<1>5. CASE TakeLastChunk
  <2>1. PICK c \in FramesIn(input) :
          AcceptChunk(c) /\ received' = received \cup Completed(c) /\ pc' = "idle"
    BY <1>5 DEF TakeLastChunk, Abandon, Completed
  <2>2. Taken' = <<>>
    BY <2>1 DEF Taken
  <2>3. /\ Unread' \in Seq(Chunk) /\ Unread \in Seq(Chunk) /\ Unread # <<>> /\ c = Unread[1]
        /\ c \in Chunk /\ traj \in Seq(Chunk)
        /\ \A i \in DOMAIN Unread' : i + 1 \in DOMAIN Unread /\ Unread'[i] = Unread[i + 1]
        /\ Gone(Append(traj, c)[1].send)
    BY <2>1, FirstTaken DEF Gone
  <2>4. \A s \in received' : s \in received \/ Gone(s)
    BY <2>1, <2>3, CompletedFirst
  <2>5. ASSUME ~overlapped, NEW s \in received', NEW i \in DOMAIN Unread', s \notin received
        PROVE  s <= Unread'[i].send
    <3>1. s = Unread[1].send
      BY <2>1, <2>3, <2>5, CompletedFirst
    <3>2. 1 \in DOMAIN Unread /\ i + 1 \in DOMAIN Unread /\ 1 <= i + 1 /\ Unread'[i] = Unread[i + 1]
      BY <2>3
    <3>3. Unread[1].send <= Unread[i + 1].send
      BY <2>5, <3>2 DEF OrderInv
    <3> QED BY <3>1, <3>2, <3>3
  <2> QED BY <1>0, <2>1, <2>2, <2>3, <2>4, <2>5, PlayerOnceStep
<1> QED
  BY <1>1, <1>2, <1>3, <1>4, <1>5 DEF PlayerStep, Receiving

LEMMA NextOnce ==
    TypeInv /\ PlayInv /\ LineInv /\ OnceInv /\ OrderInv /\ [Next]_vars => OnceInv' /\ OrderInv'
<1> SUFFICES ASSUME TypeInv, PlayInv, LineInv, OnceInv, OrderInv, [Next]_vars
             PROVE  OnceInv' /\ OrderInv'
  OBVIOUS
<1>1. CASE UNCHANGED <<op, input, pc, traj, historyVars>>
  <2>1. /\ UNCHANGED <<input, pc, traj, received>> /\ op' = op /\ sends' = sends
        /\ overlapped' = overlapped
    BY <1>1 DEF historyVars
  <2>2. \A o \in Operator : Busy(o)' = Busy(o) /\ HasPut(o)' = HasPut(o)
    BY <2>1 DEF Busy, HasPut
  <2>3. Numbered' /\ OwnNumber' /\ NotPutYet'
    BY <2>1, <2>2, SameFrames DEF OnceInv, Numbered, OwnNumber, NotPutYet
  <2>4. OrderInv'
    BY <2>1, <2>2, SameFrames DEF OrderInv
  <2> QED BY <2>1, <2>3, <2>4, SameFrames DEF OnceInv
<1>2. CASE UNCHANGED vars
  BY <1>1, <1>2 DEF vars, playerVars
<1>3. ASSUME NEW o \in Operator, NEW i \in {"QUIT", "RUN"}, SendInstruction(o, i)
      PROVE  OnceInv' /\ OrderInv'
  BY <1>1, <1>3 DEF SendInstruction, playerVars
<1> QED
  BY <1>2, <1>3, StartSendOnce, WaitingOnce, PutChunkOnce, PlayerOnce DEF Next, Sending

-----------------------------------------------------------------------------
(* The transfer implements TrajectoryDelivery. *)

DeliveryInv == TypeInv /\ PlayInv /\ LineInv /\ AnswerInv /\ OnceInv /\ OrderInv

LEMMA DeliveryInvHolds == Spec => []DeliveryInv
<1>1. Init => DeliveryInv
  BY InitTypeInv, InitPlayInv, InitLineInv, InitAnswerInv, InitOnce DEF DeliveryInv
<1>2. DeliveryInv /\ [Next]_vars => DeliveryInv'
  BY NextTypeInv, NextPlayInv, NextLineInv, NextAnswerInv, NextOnce DEF DeliveryInv
<1> QED BY <1>1, <1>2, PTL DEF Spec

LEMMA InitDelivery == Init => Delivery!Init
<1> SUFFICES ASSUME Init PROVE Delivery!Init
  OBVIOUS
<1>1. Calls = [o \in Operator |-> [busy |-> FALSE, send |-> 0, result |-> Nothing]]
  BY DEF Init, Calls, AtRest
<1>2. Playing = 0
  BY DEF Init, Playing
<1> QED BY <1>1, <1>2 DEF Init, Delivery!Init, Delivery!None

(* What a step does to one call.                                            *)
LEMMA OtherCalls ==
    ASSUME NEW o \in Operator, \A p \in Operator : p # o => op'[p] = op[p]
    PROVE  Calls' = [Calls EXCEPT ![o] = [busy   |-> op'[o].pc # "idle",
                                          send   |-> op'[o].send,
                                          result |-> op'[o].result]]
BY DEF Calls

LEMMA SamePlaying ==
    ASSUME UNCHANGED <<pc, current, traj>>
    PROVE  Playing' = Playing
BY DEF Playing

LEMMA StartIsBegin ==
    ASSUME TypeInv, NEW o \in Operator, NEW total \in 1 .. MaxChunks, StartSend(o, total)
    PROVE  Delivery!Begin(o)
<1>1. /\ op'[o].pc = "await" /\ op'[o].send = sends + 1 /\ op'[o].result = Nothing
      /\ op[o].pc = "idle"
      /\ \A p \in Operator : p # o => op'[p] = op[p]
  BY DEF StartSend, TypeInv, TypeOK, AtRest
<1>2. Calls' = [Calls EXCEPT ![o] = [busy |-> TRUE, send |-> sends + 1, result |-> Nothing]]
  BY <1>1, OtherCalls
<1>3. /\ sends' = sends + 1 /\ received' = received /\ outOfTurn' = outOfTurn
      /\ UNCHANGED <<pc, current, traj>>
      /\ overlapped' = (overlapped \/ \E p \in Operator : op[p].pc # "idle")
  BY DEF StartSend, playerVars
<1>4. \A p \in Operator : Calls[p].busy = (op[p].pc # "idle")
  BY DEF Calls
<1> QED BY <1>1, <1>2, <1>3, <1>4, SamePlaying DEF Delivery!Begin

LEMMA PutIsStray ==
    ASSUME TypeInv, NEW o \in Operator, PutChunk(o)
    PROVE  Delivery!Stray \/ UNCHANGED Delivery!vars
<1>1. /\ op[o].pc = "put" /\ UNCHANGED <<pc, current, traj, sends, received, overlapped>>
      /\ outOfTurn' = outOfTurn \/ outOfTurn' = TRUE
  BY DEF PutChunk, playerVars, TypeInv, TypeOK
<1>2. /\ op'[o].pc = "ack" /\ op'[o].send = op[o].send /\ op'[o].result = op[o].result
      /\ \A p \in Operator : p # o => op'[p] = op[p]
  BY DEF PutChunk, TypeInv, TypeOK, Sender
<1>3. Calls' = Calls
  BY <1>1, <1>2 DEF Calls
<1>4. Calls[o].busy
  BY <1>1 DEF Calls
<1> QED BY <1>1, <1>3, <1>4, SamePlaying DEF Delivery!Stray, Delivery!vars

LEMMA WaitIsReturn ==
    ASSUME DeliveryInv, DeliveryInv', NEW o \in Operator,
           AwaitReady(o) \/ AwaitError(o) \/ TakeAck(o) \/ AckTimeout(o)
    PROVE  (\E r \in Result : Delivery!Return(o, r)) \/ UNCHANGED Delivery!vars
<1>1. /\ UNCHANGED <<pc, current, traj, sends, received, overlapped, outOfTurn>>
  BY DEF AwaitReady, AwaitError, TakeAck, AckTimeout, playerVars, historyVars
<1>2. /\ Busy(o) /\ \A p \in Operator : p # o => op'[p] = op[p]
      /\ op'[o].send = op[o].send
  BY WaitingStep DEF DeliveryInv
<1>3. op \in [Operator -> Sender] /\ op[o] \in Sender
  BY DEF DeliveryInv, TypeInv, TypeOK
<1>4. CASE \E r \in Result : Returns(o, r)
  <2>1. PICK r \in Result : Returns(o, r)
    BY <1>4
  <2>2. op'[o].pc = "idle" /\ op'[o].result = r
    BY <1>3, <2>1 DEF Returns, AtRest
  <2>3. Calls[o].busy /\ Calls[o].send = op[o].send
    BY <1>2 DEF Calls, Busy
  <2>4. Calls' = [Calls EXCEPT ![o] = [busy |-> FALSE, send |-> @.send, result |-> r]]
    <3>1. Calls' = [Calls EXCEPT ![o] = [busy |-> FALSE, send |-> op[o].send, result |-> r]]
      BY <1>2, <2>2, OtherCalls
    <3>2. o \in DOMAIN Calls
      BY DEF Calls
    <3> QED BY <2>3, <3>1, <3>2
  <2>5. r = "OKAY" /\ ~overlapped /\ ~outOfTurn => op[o].send \in received
    BY <1>1, <1>2, <2>2 DEF DeliveryInv, AnswerInv, AnswersTrue, OkayIsReceived
  <2>6. Delivery!Return(o, r)
    BY <1>1, <2>3, <2>4, <2>5, SamePlaying DEF Delivery!Return
  <2> QED BY <2>6
<1>5. CASE op'[o].pc # "idle" /\ op'[o].result = op[o].result
  <2>1. Calls' = Calls
    BY <1>2, <1>5 DEF Calls, Busy
  <2> QED BY <1>1, <2>1, SamePlaying DEF Delivery!vars
<1>6. CASE AwaitReady(o)
  <2>1. op'[o].pc \in {"put", "await"} /\ op'[o].result = op[o].result
    BY <1>3, <1>6 DEF AwaitReady, Sender
  <2> QED BY <1>5, <2>1
<1>7. CASE TakeAck(o) \/ AckTimeout(o) \/ AwaitError(o)
  <2>1. \/ \E r \in Result : Returns(o, r)
        \/ op' = [op EXCEPT ![o].pc = "put", ![o].chunk = @ + 1]
    <3>1. "TIMEOUT" \in Result /\ "ACH_ERROR" \in Result
      BY DEF Result
    <3>2. \/ Verdict(feedback[o], op[o].chunk, op[o].total) = Nothing
          \/ Verdict(feedback[o], op[o].chunk, op[o].total) \in Result
      BY DEF Verdict, Result, Nothing
    <3> QED BY <1>7, <3>1, <3>2 DEF TakeAck, AckTimeout, AwaitError
  <2>2. CASE op' = [op EXCEPT ![o].pc = "put", ![o].chunk = @ + 1]
    <3>1. op'[o].pc = "put" /\ op'[o].result = op[o].result
      BY <1>3, <2>2 DEF Sender
    <3> QED BY <1>5, <3>1
  <2> QED BY <1>4, <2>1, <2>2
<1> QED BY <1>6, <1>7

(* The last chunk hands the trajectory over, or a mixture.                  *)
LEMMA LastIsDeliver ==
    ASSUME DeliveryInv, TakeLastChunk, Calls' = Calls, sends' = sends,
           overlapped' = overlapped, outOfTurn' = outOfTurn
    PROVE  \/ \E s \in 1 .. sends : Delivery!Deliver(s)
           \/ Delivery!PlayMixture \/ Delivery!Stop
<1>1. PICK c \in FramesIn(input) :
        /\ AcceptChunk(c) /\ received' = received \cup Completed(c)
        /\ \/ traj' = Append(traj, c) /\ pc' = "idle" /\ current' = "RUN"
           \/ current' = "QUIT"
  BY DEF TakeLastChunk, Abandon, Completed
<1>2. Playing = 0
  BY <1>1 DEF AcceptChunk, Listens, Playing
<1>3. /\ c \in Chunk /\ traj \in Seq(Chunk) /\ Append(traj, c) # <<>>
      /\ Unread # <<>> /\ c = Unread[1] /\ Unread \in Seq(Chunk)
      /\ Arrives(Append(traj, c)[1].send) /\ Append(traj, c)[1].send \notin received
  BY <1>1, FirstTaken DEF DeliveryInv
<1> DEFINE all     == Append(traj, c)
           senders == {d.send : d \in FramesIn([unread |-> all])}
<1>4. all \in Seq(Chunk) /\ all # <<>> /\ 1 \in DOMAIN all
  BY <1>3
<1>5. current' = "QUIT" => Playing' = 0
  BY DEF Playing
<1>6. traj' = all /\ pc' = "idle" /\ current' = "RUN" =>
          Playing' = IF \E s \in SendId : senders = {s}
                     THEN CHOOSE s \in SendId : senders = {s} ELSE -1
  BY DEF Playing
<1>7. CASE \E s \in SendId : senders = {s}
  <2>1. PICK s \in SendId : senders = {s}
    BY <1>7
  <2>2. (CHOOSE t \in SendId : senders = {t}) = s
    <3> HIDE DEF senders
    <3>1. \A t : senders = {t} => t = s
      BY <2>1
    <3>2. (CHOOSE t \in SendId : senders = {t}) \in SendId
          /\ senders = {CHOOSE t \in SendId : senders = {t}}
      BY <2>1
    <3> QED BY <3>1, <3>2
  <2>3. Playing' \in {s, 0}
    BY <1>1, <1>5, <1>6, <1>7, <2>2
  <2>4. Completed(c) = {s}
    <3>1. \A d \in FramesIn([unread |-> all]) : d.send = s
      BY <2>1
    <3>2. s \in Completed(c)
      BY <3>1 DEF Completed
    <3>3. \A t \in Completed(c) : t = s
      BY <1>3, <3>2, CompletedFirst
    <3> QED BY <3>2, <3>3
  <2>5. s = all[1].send /\ s = c.send
    BY <1>3, <2>4, CompletedFirst
  <2>6. s \notin received /\ s \in 1 .. sends
    <3>1. s <= sends /\ s \notin received
      BY <1>3, <2>5, ArrivesBegun DEF DeliveryInv
    <3>2. sends \in Nat
      BY FrameTypes DEF DeliveryInv
    <3> QED BY <3>1, <3>2 DEF SendId
  <2>7. ASSUME ~overlapped, NEW d \in received PROVE d < s
    <3>1. 1 \in DOMAIN Unread /\ Unread[1].send = s
      BY <1>3, <2>5
    <3>2. d <= s /\ d # s /\ d \in Nat
      BY <2>6, <2>7, <3>1, FrameTypes DEF DeliveryInv, OrderInv
    <3> QED BY <3>2 DEF SendId
  <2>8. Delivery!Deliver(s)
    BY <1>1, <1>2, <2>3, <2>4, <2>6, <2>7 DEF Delivery!Deliver, Delivery!None
  <2> QED BY <2>6, <2>8
<1>8. CASE ~\E s \in SendId : senders = {s}
  <2>1. Completed(c) = {}
    <3> SUFFICES ASSUME NEW s \in Completed(c) PROVE FALSE
      OBVIOUS
    <3>1. s \in SendId /\ \A d \in FramesIn([unread |-> all]) : d.send = s
      BY DEF Completed
    <3>2. all[1] \in FramesIn([unread |-> all])
      BY <1>4 DEF FramesIn
    <3>3. senders = {s}
      BY <3>1, <3>2
    <3> QED BY <1>8, <3>1, <3>3
  <2>2. Playing' \in {0, -1}
    BY <1>1, <1>5, <1>6, <1>8
  <2>3. overlapped
    <3> SUFFICES ASSUME ~overlapped PROVE FALSE
      OBVIOUS
    <3>1. \A i \in 1 .. Len(traj) : traj[i].send = c.send
      BY <1>1, <1>3, AcceptLine DEF DeliveryInv
    <3>2. \A i \in DOMAIN all : all[i].send = c.send
      BY <1>3, <3>1
    <3>3. c.send \in SendId
      BY <1>3 DEF Chunk
    <3>4. c.send \in Completed(c)
      BY <3>2, <3>3 DEF Completed, FramesIn
    <3> QED BY <2>1, <3>4
  <2>4. received' = received
    BY <1>1, <2>1
  <2> QED
    BY <1>2, <2>2, <2>3, <2>4
       DEF Delivery!PlayMixture, Delivery!Stop, Delivery!None, Delivery!Mixture
<1> QED BY <1>7, <1>8

LEMMA PlayerIsDelivery ==
    ASSUME DeliveryInv, PlayerStep \/ PlayerRestart
    PROVE  Delivery!Next \/ UNCHANGED Delivery!vars
<1>1. /\ Calls' = Calls /\ sends' = sends /\ overlapped' = overlapped
      /\ outOfTurn' = outOfTurn
  BY PlayerLeavesSenders DEF Calls
<1>2. CASE TakeLastChunk
  BY <1>1, <1>2, LastIsDeliver DEF Delivery!Next
<1>3. CASE StepPlay
  <2>1. UNCHANGED <<pc, current, traj, received>>
    BY <1>3 DEF StepPlay, TakeInstruction, historyVars
  <2> QED BY <1>1, <2>1, SamePlaying DEF Delivery!vars
<1>4. CASE Playing' = 0 /\ received' = received
  BY <1>1, <1>4 DEF Delivery!Next, Delivery!Stop, Delivery!None
<1>5. CASE \/ StepLoad \/ StepQuit \/ StepFetch \/ PlayerRestart \/ AnnounceReady
           \/ ReceiveTimeout \/ RejectChunk \/ TakeChunk
  <2>1. (pc' # "idle" \/ current' = "QUIT") /\ received' = received
    BY <1>5 DEF StepLoad, StepQuit, StepFetch, PlayerRestart, AnnounceReady, ReceiveTimeout,
                RejectChunk, TakeChunk, AcceptChunk, Listens, TakeInstruction, BeginReception,
                Abandon, historyVars
  <2> QED BY <1>4, <2>1 DEF Playing
<1> QED
  BY <1>2, <1>3, <1>5 DEF PlayerStep, Receiving

(* PathTransfer implements TrajectoryDelivery: the start of a transfer is   *)
(* the begin of a call, the end its return, the last chunk the delivery;    *)
(* the handshake, the other chunks, their acknowledgements, timeouts and    *)
(* losses are stuttering steps, or go astray, or stop the player.           *)
THEOREM RefinesDelivery == Spec => ImplementsDelivery
<1>1. DeliveryInv /\ DeliveryInv' /\ [Next]_vars => [Delivery!Next]_(Delivery!vars)
  <2> SUFFICES ASSUME DeliveryInv, DeliveryInv', [Next]_vars
               PROVE  Delivery!Next \/ UNCHANGED Delivery!vars
    OBVIOUS
  <2>1. ASSUME NEW o \in Operator, NEW total \in 1 .. MaxChunks, StartSend(o, total)
        PROVE  Delivery!Next
    BY <2>1, StartIsBegin DEF DeliveryInv, Delivery!Next
  <2>2. ASSUME NEW o \in Operator, NEW i \in {"QUIT", "RUN"}, SendInstruction(o, i)
        PROVE  UNCHANGED Delivery!vars
    <3>1. UNCHANGED <<op, pc, current, traj, sends, received, overlapped, outOfTurn>>
      BY <2>2 DEF SendInstruction, playerVars, historyVars
    <3> QED BY <3>1, SamePlaying DEF Delivery!vars, Calls
  <2>3. ASSUME NEW o \in Operator, Sending(o)
        PROVE  Delivery!Next \/ UNCHANGED Delivery!vars
    <3>1. CASE PutChunk(o)
      BY <3>1, PutIsStray DEF DeliveryInv, Delivery!Next
    <3>2. CASE AwaitReady(o) \/ AwaitError(o) \/ TakeAck(o) \/ AckTimeout(o)
      BY <3>2, WaitIsReturn DEF Delivery!Next
    <3> QED BY <2>3, <3>1, <3>2 DEF Sending
  <2>4. CASE UNCHANGED vars
    <3>1. UNCHANGED <<op, pc, current, traj, sends, received, overlapped, outOfTurn>>
      BY <2>4 DEF vars, playerVars, historyVars
    <3> QED BY <3>1, SamePlaying DEF Delivery!vars, Calls
  <2> QED BY <2>1, <2>2, <2>3, <2>4, PlayerIsDelivery DEF Next
<1> QED
  BY <1>1, InitDelivery, DeliveryInvHolds, PTL
     DEF Spec, ImplementsDelivery, Delivery!Spec
=============================================================================
