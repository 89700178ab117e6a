---------------------------- MODULE PathTransfer ----------------------------
(***************************************************************************)
(* How a trajectory gets from an Operator to the Player (HuboPath/).       *)
(*                                                                         *)
(* An operator announces a new trajectory with a LOAD instruction, waits   *)
(* for the player's READ_READY and then puts the trajectory on the input   *)
(* channel chunk by chunk, each acknowledged on the feedback channel.  All *)
(* operators share the three channels and the player, and no message says  *)
(* whose it is.  Every wait has a timeout; how long one lasts is left out, *)
(* so it may expire whenever there is nothing to read.                     *)
(*                                                                         *)
(* LOAD stands for LOAD and LOAD_N_GO, RUN for RUN, PAUSE and REVERSE: the *)
(* transfer treats them alike.                                             *)
(***************************************************************************)
EXTENDS Ach, Integers, FiniteSets

CONSTANTS
    Operator,     \* processes that hold an Operator
    MaxChunks,    \* bound: chunks of a trajectory
    MaxSends,     \* bound: transfers that are started
    MaxWait,      \* timeout_sec: readiness is awaited MaxWait + 1 times
    Depth         \* frames the ring of the input channel holds

ASSUME BoundsAssumption ==
    /\ MaxChunks \in Nat \ {0}
    /\ MaxSends \in Nat
    /\ MaxWait \in Nat
    /\ Depth \in Nat \ {0}

VARIABLES
    op,           \* the operators
    instr,        \* newest instruction the player has not read
    input,        \* the input channel, as the player reads it
    feedback,     \* newest feedback each operator has not read
    pc,           \* what the player does
    current,      \* its _current_cmd
    incoming,     \* its _incoming_cmd
    traj,         \* its _trajectory: the chunks it was built from
    chunkId,      \* of the last chunk taken, in receive_trajectory
    sends,        \* history: transfers started so far
    received,     \* history: transfers whose every chunk the player took
    overlapped,   \* history: whether a transfer started during another
    outOfTurn     \* history: whether a chunk was put unasked

playerVars == <<pc, current, incoming, traj, chunkId>>
historyVars == <<sends, received, overlapped, outOfTurn>>
vars == <<op, instr, input, feedback, playerVars, historyVars>>

Nothing  == "nothing"
SendId   == 1 .. MaxSends
ChunkId  == 0 .. MaxChunks - 1
Chunk    == [send : SendId, id : ChunkId, total : 1 .. MaxChunks]
RxState  == {"READ_READY", "LISTENING", "TIMEOUT", "DISCONTINUITY",
             "ACH_ERROR", "FINISHED"}
Feedback == [state : RxState, id : ChunkId]
NoFeedback == [state |-> Nothing, id |-> 0]
Result   == {"OKAY", "TIMEOUT", "SYNCH_ERROR", "INTERRUPTED", "UNDEFINED_ERROR", "ACH_ERROR"}
Sender   == [pc : {"idle", "await", "put", "ack"}, send : SendId \cup {0},
             chunk : ChunkId, total : 1 .. MaxChunks, attempts : 0 .. MaxWait + 1,
             ready : BOOLEAN, result : Result \cup {Nothing}]

AtRest == [pc |-> "idle", send |-> 0, chunk |-> 0, total |-> 1, attempts |-> 0,
           ready |-> FALSE, result |-> Nothing]

-----------------------------------------------------------------------------
(* The operator: sendNewTrajectory. *)

(* Flushes the feedback and announces the trajectory.                      *)
StartSend(o, total) ==
    /\ op[o].pc = "idle"
    /\ sends < MaxSends
    /\ sends' = sends + 1
    /\ overlapped' = (overlapped \/ \E p \in Operator : op[p].pc # "idle")
    /\ op' = [op EXCEPT ![o] = [AtRest EXCEPT !.pc = "await", !.send = sends + 1,
                                              !.total = total]]
    /\ feedback' = [feedback EXCEPT ![o] = NoFeedback]
    /\ instr' = "LOAD"
    /\ UNCHANGED <<input, playerVars, received, outOfTurn>>

(* A user's sendInstruction. *)
SendInstruction(o, i) ==
    /\ op[o].pc = "idle"
    /\ instr' = i
    /\ UNCHANGED <<op, input, feedback, playerVars, historyVars>>

Ready(f) == f.state = "READ_READY"

(* Mutant: one attempt too many. *)
LastAttemptPlusOne(n) == n > MaxWait + 1

LastAttempt(n) == n > MaxWait

(* One round of waiting for the player: a feedback or a second without any. *)
(* The wait ends at READ_READY or at the last attempt; the transfer starts  *)
(* in both cases.                                                           *)
AwaitReady(o) ==
    LET n == op[o].attempts + 1
    IN  /\ op[o].pc = "await"
        /\ op' = [op EXCEPT ![o].attempts = n,
                            ![o].ready = Ready(feedback[o]),
                            ![o].pc = IF Ready(feedback[o]) \/ LastAttempt(n)
                                      THEN "put" ELSE "await"]
        /\ feedback' = [feedback EXCEPT ![o] = NoFeedback]
        /\ UNCHANGED <<instr, input, playerVars, historyVars>>

Returns(o, r) == op' = [op EXCEPT ![o] = [AtRest EXCEPT !.send = op[o].send, !.result = r]]

(* Any other result of Ach ends the wait, and with it the transfer.         *)
AwaitError(o) ==
    /\ op[o].pc = "await"
    /\ Returns(o, "ACH_ERROR")
    /\ feedback' = [feedback EXCEPT ![o] = NoFeedback]
    /\ UNCHANGED <<instr, input, playerVars, historyVars>>

PutChunk(o) ==
    LET s == op[o]
    IN  /\ s.pc = "put"
        /\ input' = Put(input, Depth, [send |-> s.send, id |-> s.chunk, total |-> s.total])
        /\ op' = [op EXCEPT ![o].pc = "ack"]
        /\ outOfTurn' = (outOfTurn \/ ~s.ready \/ pc # "listen")
        /\ UNCHANGED <<instr, feedback, playerVars, sends, received, overlapped>>

(* Where an acknowledgement f of chunk i of `total` ends the transfer: what *)
(* it returns, or Nothing when the next chunk is due.                       *)
Verdict(f, i, total) ==
    IF f.id # i THEN "SYNCH_ERROR"
    ELSE IF f.state = "FINISHED"
         THEN IF i = total - 1 THEN "OKAY" ELSE "SYNCH_ERROR"
    ELSE IF f.state # "LISTENING" THEN "INTERRUPTED"
    ELSE IF i = total - 1 THEN "UNDEFINED_ERROR"
    ELSE Nothing

TakeAck(o) ==
    LET v == Verdict(feedback[o], op[o].chunk, op[o].total)
    IN  /\ op[o].pc = "ack"
        /\ feedback[o] # NoFeedback
        /\ \/ v # Nothing /\ Returns(o, v)
           \/ /\ v = Nothing
              /\ op' = [op EXCEPT ![o].pc = "put", ![o].chunk = @ + 1]
        /\ feedback' = [feedback EXCEPT ![o] = NoFeedback]
        /\ UNCHANGED <<instr, input, playerVars, historyVars>>

AckTimeout(o) ==
    /\ op[o].pc = "ack"
    /\ feedback[o] = NoFeedback
    /\ Returns(o, "TIMEOUT")
    /\ UNCHANGED <<instr, input, feedback, playerVars, historyVars>>

-----------------------------------------------------------------------------
(* The player between transfers: what one step does with the instructions.  *)
(* Only the newest one that it has not read counts.                         *)

Incoming == IF instr = Nothing THEN incoming ELSE instr

TakeInstruction ==
    /\ pc = "idle"
    /\ incoming' = Incoming
    /\ instr' = Nothing
    /\ UNCHANGED <<op, feedback, historyVars>>

BeginReception == pc' = "ready" /\ input' = Flushed /\ UNCHANGED <<current, traj, chunkId>>

(* LOAD and LOAD_N_GO replace whatever is being played.                     *)
StepLoad == TakeInstruction /\ instr = "LOAD" /\ BeginReception

StepQuit ==
    /\ TakeInstruction
    /\ Incoming = "QUIT"
    /\ current # "QUIT"
    /\ traj' = <<>>
    /\ current' = "QUIT"
    /\ UNCHANGED <<pc, chunkId, input>>

(* Told to run with nothing to play: every step tries to receive.           *)
StepFetch == TakeInstruction /\ Incoming = "RUN" /\ current = "QUIT" /\ BeginReception

StepPlay ==
    /\ TakeInstruction
    /\ Incoming = current
    /\ UNCHANGED <<pc, current, input, traj, chunkId>>

-----------------------------------------------------------------------------
(* The player during a transfer: receive_trajectory. *)

(* An operator outside of a transfer flushes the feedback before it looks. *)
Reply(s, i) ==
    feedback' = [o \in Operator |-> IF op[o].pc = "idle" THEN NoFeedback
                                                        ELSE [state |-> s, id |-> i]]

AnnounceReady ==
    /\ pc = "ready"
    /\ pc' = "listen"
    /\ traj' = <<>>
    /\ chunkId' = -1
    /\ Reply("READ_READY", 0)
    /\ UNCHANGED <<op, instr, input, current, incoming, historyVars>>

Listens ==
    /\ pc = "listen"
    /\ UNCHANGED <<op, instr, sends, overlapped, outOfTurn>>

(* Mutant: the player goes on with what it has. *)
AbandonHalfway ==
    /\ pc' = "idle"
    /\ current' = "RUN"
    /\ incoming' = "RUN"
    /\ UNCHANGED traj

(* Mutant: another round instead of giving up. *)
AbandonNever == UNCHANGED <<pc, current, incoming, traj>>

(* A failed reception leaves the player without a trajectory.  After a LOAD *)
(* it also forgets the instruction; after RUN it will try again.            *)
Abandon ==
    /\ pc' = "idle"
    /\ traj' = <<>>
    /\ current' = "QUIT"
    /\ incoming' = IF incoming = "LOAD" THEN "QUIT" ELSE incoming

(* The chunk structure is not initialised before the first chunk comes.     *)
ReceiveTimeout ==
    /\ Listens
    /\ ~HasFrame(input)
    /\ \E i \in ChunkId : chunkId \in {-1, i} /\ Reply("TIMEOUT", i)
    /\ Abandon
    /\ UNCHANGED <<input, chunkId, received>>

(* Whether ach_get said ACH_OK and the chunk is the next one.               *)
(* Mutant: any chunk will do. *)
FollowsAnything(c) == TRUE

Follows(c) == c.id = chunkId + 1

RejectChunk ==
    LET c == Next1(input)
    IN  /\ Listens
        /\ HasFrame(input)
        /\ \/ input.lapped /\ Reply("ACH_ERROR", c.id)
           \/ ~input.lapped /\ ~Follows(c) /\ Reply("DISCONTINUITY", c.id)
        /\ Abandon
        /\ input' = AfterGet(input)
        /\ UNCHANGED <<chunkId, received>>

AcceptChunk(c) ==
    /\ Listens
    /\ HasFrame(input)
    /\ ~input.lapped
    /\ c = Next1(input)
    /\ Follows(c)
    /\ input' = AfterGet(input)
    /\ chunkId' = c.id

TakeChunk ==
    \E c \in FramesIn(input) :
        /\ AcceptChunk(c)
        /\ c.id < c.total - 1
        /\ traj' = Append(traj, c)
        /\ Reply("LISTENING", c.id)
        /\ UNCHANGED <<pc, current, incoming, received>>

(* The last chunk.  The player may still reject the trajectory: wrong       *)
(* starting values, no interpolation, or outside of the limits.             *)
TakeLastChunk ==
    \E c \in FramesIn(input) :
        /\ AcceptChunk(c)
        /\ c.id = c.total - 1
        /\ Reply("FINISHED", c.id)
        /\ received' = received \cup
               {s \in SendId : \A d \in FramesIn([unread |-> Append(traj, c)]) : d.send = s}
        /\ \/ /\ traj' = Append(traj, c)
              /\ pc' = "idle"
              /\ current' = "RUN"
              /\ incoming' = "RUN"
           \/ Abandon

(* The player daemon dies, and a new one flushes the channels it reads.     *)
PlayerRestart ==
    /\ instr' = Nothing
    /\ input' = Flushed
    /\ pc' = "idle"
    /\ current' = "QUIT"
    /\ incoming' = "QUIT"
    /\ traj' = <<>>
    /\ chunkId' = -1
    /\ UNCHANGED <<op, feedback, historyVars>>

-----------------------------------------------------------------------------
Init ==
    /\ op = [o \in Operator |-> AtRest]
    /\ instr = Nothing
    /\ input = Flushed
    /\ feedback = [o \in Operator |-> NoFeedback]
    /\ pc = "idle"
    /\ current = "QUIT"
    /\ incoming = "QUIT"
    /\ traj = <<>>
    /\ chunkId = -1
    /\ sends = 0
    /\ received = {}
    /\ overlapped = FALSE
    /\ outOfTurn = FALSE

Sending(o) == AwaitReady(o) \/ AwaitError(o) \/ PutChunk(o) \/ TakeAck(o) \/ AckTimeout(o)

Receiving == AnnounceReady \/ ReceiveTimeout \/ RejectChunk \/ TakeChunk \/ TakeLastChunk

PlayerStep == StepLoad \/ StepQuit \/ StepFetch \/ StepPlay \/ Receiving

Next ==
    \/ \E o \in Operator :
          \/ \E total \in 1 .. MaxChunks : StartSend(o, total)
          \/ \E i \in {"QUIT", "RUN"} : SendInstruction(o, i)
          \/ Sending(o)
    \/ PlayerStep
    \/ PlayerRestart

Spec == Init /\ [][Next]_vars

(* The player daemon keeps stepping, and a transfer that has begun is a call *)
(* its operator goes through with; nobody has to begin one.                  *)
FairSpec == Spec /\ WF_vars(PlayerStep) /\ \A o \in Operator : WF_vars(Sending(o))

-----------------------------------------------------------------------------
TypeOK ==
    /\ op \in [Operator -> Sender]
    /\ instr \in {Nothing, "QUIT", "RUN", "LOAD"}
    /\ input \in ChannelOf(Chunk, Depth)
    /\ feedback \in [Operator -> Feedback \cup {NoFeedback}]
    /\ pc \in {"idle", "ready", "listen"}
    /\ current \in {"QUIT", "RUN"}
    /\ incoming \in {"QUIT", "RUN", "LOAD"}
    /\ traj \in Seq(Chunk)
    /\ chunkId \in ChunkId \cup {-1}
    /\ sends \in 0 .. MaxSends
    /\ received \subseteq SendId
    /\ overlapped \in BOOLEAN
    /\ outOfTurn \in BOOLEAN

Consecutive == \A i \in DOMAIN traj : traj[i].id = i - 1

(* The player plays only a trajectory it has from the first chunk to the    *)
(* last, each once and in order, however many operators send, time out and  *)
(* overrun the channel meanwhile; a transfer that broke off leaves nothing. *)
PlaysOnlyWholeTrajectories ==
    pc = "idle" =>
        IF current = "QUIT"
        THEN traj = <<>>
        ELSE /\ traj # <<>>
             /\ Consecutive
             /\ Len(traj) = traj[Len(traj)].total

(* Transfers that do not overlap in time are never mixed into one           *)
(* trajectory, even when they time out and leave chunks behind.             *)
OneSendPerTrajectory ==
    ~overlapped => \A i, k \in DOMAIN traj : traj[i].send = traj[k].send

(* An operator that is told OKAY has had all its chunks taken, as long as   *)
(* transfers do not overlap and nobody sends without a READ_READY.          *)
OkayMeansReceived ==
    ~overlapped /\ ~outOfTurn =>
        \A o \in Operator : op[o].result = "OKAY" => op[o].send \in received

(* The transfer is what TrajectoryDelivery promises: a trajectory reaches   *)
(* the player at most once, in the order of the calls and unmixed as long   *)
(* as these do not overlap, and OKAY is told only of one that did.          *)
(*                                                                          *)
(* Of a player with a trajectory, Playing is the call it is of, or -1 if it *)
(* is of several (the Mixture of TrajectoryDelivery); 0 is none.            *)
Calls == [o \in Operator |-> [busy   |-> op[o].pc # "idle",
                              send   |-> op[o].send,
                              result |-> op[o].result]]

Playing ==
    LET senders == {c.send : c \in FramesIn([unread |-> traj])}
    IN  IF pc # "idle" \/ current = "QUIT" THEN 0
        ELSE IF \E s \in SendId : senders = {s}
             THEN CHOOSE s \in SendId : senders = {s} ELSE -1

Delivery == INSTANCE TrajectoryDelivery
            WITH calls <- Calls, begun <- sends, delivered <- received,
                 playing <- Playing, astray <- outOfTurn

ImplementsDelivery == Delivery!Spec

(* sendNewTrajectory returns, whatever the player and the others do.        *)
EverySendReturns == \A o \in Operator : op[o].pc # "idle" ~> op[o].pc = "idle"

(* The player comes back from a transfer, so that it can obey the next      *)
(* instruction: a QUIT is not held up for ever by an operator that is gone. *)
EveryReceptionReturns == pc # "idle" ~> pc = "idle"

(* Neither end of a transfer waits for ever, for the other or for a third.  *)
EveryTransferReturns == EverySendReturns /\ EveryReceptionReturns
=============================================================================
