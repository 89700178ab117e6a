------------------------------ MODULE CanCycle ------------------------------
(***************************************************************************)
(* The control cycle of the hardware interface (HuboCan/): CanPump, the    *)
(* boards of joint motor controllers, and the main loop that calls them.   *)
(*                                                                         *)
(* Once per cycle the pump has every board put its frames into the queues  *)
(* of its channel: a request for the encoder readings and a frame with the *)
(* references, or, if there are any, the auxiliary commands instead.  It   *)
(* then spreads the frames over the time that is left until the deadline   *)
(* and reads what the boards answer.  Between two cycles the main loop     *)
(* publishes the state, takes auxiliary commands and fetches the commands  *)
(* of the aggregator.                                                      *)
(*                                                                         *)
(* Time is counted in nanoseconds, as the pump's clocks are.  A board      *)
(* stands for its joints, which share its frames; Nothing, as a board's    *)
(* command, says that none of its joints is in mode RIGID.  A frame that   *)
(* was sent is a frame the board has; its answer may be late or lost.      *)
(***************************************************************************)
EXTENDS Integers, SequencesExt

CONSTANTS
    Channel,      \* CAN channels
    NBoards,      \* boards 1 .. NBoards, in the order of _devices
    CanChannel,   \* the channel of each board
    Driven,       \* boards that are sent references
    Reference,    \* what the references of a board may be
    AuxTarget,    \* sets of boards an auxiliary command may be for: one, or all
    StartTime,    \* what may be left until the deadline when a cycle starts
    FrameTime,    \* nanoseconds a frame takes on the bus, can_frame_bit_size / _bitrate
    MaxCycles,    \* bound: calls of pump()
    MaxAux,       \* bound: auxiliary commands
    MaxForeign    \* bound: frames no board knows

Board == 1 .. NBoards

ASSUME BoardsAssumption ==
    /\ NBoards \in Nat
    /\ CanChannel \in [Board -> Channel]
    /\ Driven \subseteq Board
    /\ AuxTarget \subseteq SUBSET Board

ASSUME TimeAssumption == StartTime \subseteq Int /\ FrameTime \in Nat \ {0}

ASSUME CycleBoundsAssumption ==
    MaxCycles \in Nat /\ MaxAux \in Nat /\ MaxForeign \in Nat

VARIABLES
    phase,        \* where the main loop is
    turn,         \* board whose update() is next
    left,         \* nanoseconds from the pump's clock to the deadline
    dt,           \* nanoseconds each frame is given, frame_dt
    request,      \* request_frames of each channel
    command,      \* command_frames of each channel
    expect,       \* reply_expectation of each channel
    lost,         \* net_lost_replies of each channel
    aux,          \* _aux_commands of each board
    agg,          \* the aggregator's command for each board
    joint,        \* the counters each board keeps
    reported,     \* the references in the state, which is published
    sent,         \* the references each board was sent last
    lastAux,      \* the auxiliary command each board was sent last
    awaited,      \* boards whose answers have not been read, per channel
    missing,      \* history: answers that were lost, less frames unasked for
    start,        \* history: how the latest cycle started
    carried,      \* history: whether a cycle has found frames of an earlier one
    cycles,       \* history: calls of pump()
    auxCount      \* history: auxiliary commands so far

queueVars == <<request, command, expect, lost>>
boardVars == <<sent, lastAux, awaited, missing>>
inputVars == <<aux, agg>>
timeVars  == <<left, dt>>
historyVars == <<start, carried, cycles, auxCount>>
vars == <<phase, turn, timeVars, queueVars, inputVars, joint, reported, boardVars,
          historyVars>>

Nothing == "nothing"
AuxId   == 1 .. MaxAux
Frame   == [to : Board, kind : {"reference"}, value : Reference]
           \cup [to : Board, kind : {"aux"}, value : AuxId]
AuxCommand == [id : AuxId, supported : BOOLEAN]
Counters == [updated : BOOLEAN, dropped : Nat, expected : Nat, received : Nat]

StartKind == {"none", "late", "exact", "early"}

Init ==
    /\ phase = "ready" /\ turn = 1
    /\ left = 0 /\ dt = 0
    /\ request = [c \in Channel |-> <<>>]
    /\ command = [c \in Channel |-> <<>>]
    /\ expect  = [c \in Channel |-> 0]
    /\ lost    = [c \in Channel |-> 0]
    /\ aux = [b \in Board |-> <<>>]
    /\ agg = [b \in Board |-> Nothing]
    /\ joint = [b \in Board |-> [updated |-> TRUE, dropped |-> 0, expected |-> 0,
                                 received |-> 0]]
    /\ reported = [b \in Board |-> Nothing]
    /\ sent     = [b \in Board |-> Nothing]
    /\ lastAux  = [b \in Board |-> 0]
    /\ awaited  = [c \in Channel |-> <<>>]
    /\ missing  = [c \in Channel |-> 0]
    /\ start = "none" /\ carried = FALSE
    /\ cycles = 0 /\ auxCount = 0

-----------------------------------------------------------------------------
(* Between two cycles: the main loop. *)

(* AuxReceiver::update takes one command, for one board or for all.         *)
TakeAux(to, supported) ==
    /\ phase = "after"
    /\ auxCount < MaxAux
    /\ auxCount' = auxCount + 1
    /\ aux' = [b \in Board |-> IF b \in to
                  THEN Append(aux[b], [id |-> auxCount + 1, supported |-> supported])
                  ELSE aux[b]]
    /\ UNCHANGED <<phase, turn, timeVars, queueVars, agg, joint, reported, boardVars,
                   start, carried, cycles>>

(* Aggregator::update, the last call of the loop's body.                    *)
FetchCommands(refs) ==
    /\ phase = "after"
    /\ phase' = "ready"
    /\ agg' = [b \in Board |-> IF b \in Driven THEN refs[b] ELSE Nothing]
    /\ UNCHANGED <<turn, timeVars, queueVars, aux, joint, reported, boardVars, historyVars>>

(* The process is told to stop; rt.good() is asked after pump().            *)
Quit ==
    /\ phase = "after"
    /\ phase' = "stopped"
    /\ UNCHANGED <<turn, timeVars, queueVars, inputVars, joint, reported, boardVars,
                   historyVars>>

-----------------------------------------------------------------------------
(* pump(): up to the boards' update().  diff is what is left until the      *)
(* deadline, which has just been moved by one period.                       *)

(* What the code reads off its queues.                                      *)
Frames(c) == Len(request[c]) + Len(command[c])

Empty == \A c \in Channel : Frames(c) = 0

(* The greatest expectation, at least 0, takes longer than diff.            *)
Overloaded(diff) ==
    \/ 0 > diff
    \/ \E c \in Channel : (expect[c] + Frames(c)) * FrameTime > diff

Begin(diff) ==
    /\ phase = "ready"
    /\ cycles < MaxCycles
    /\ cycles' = cycles + 1
    /\ start' = IF diff < 0 THEN "late" ELSE IF diff = 0 THEN "exact" ELSE "early"

SkipCycle(diff) ==
    /\ Begin(diff)
    /\ Overloaded(diff) /\ diff < 0
    /\ phase' = "after"
    /\ UNCHANGED <<turn, timeVars, queueVars, inputVars, joint, reported, boardVars,
                   carried, auxCount>>

StartCycle(diff) ==
    /\ Begin(diff)
    /\ ~(Overloaded(diff) /\ diff < 0)
    /\ phase' = "update"
    /\ turn' = 1
    /\ left' = diff
    /\ carried' = (carried \/ ~Empty)
    /\ UNCHANGED <<dt, queueVars, inputVars, joint, reported, boardVars, auxCount>>

-----------------------------------------------------------------------------
(* Hubo2PlusBasicJmc::update of the board whose turn it is. *)

(* _cycle_reset: an answer that never came is a dropped reading.            *)
CycleReset(counters) ==
    IF counters.updated THEN counters
                        ELSE [counters EXCEPT !.dropped = @ + 1]

AwaitReadingKept(counters) == [counters EXCEPT !.expected = @ + 1]

AwaitReading(counters) ==
    [counters EXCEPT !.updated = FALSE, !.expected = @ + 1]

QueuedAsAux(b, kind, value) ==
    [command EXCEPT ![CanChannel[b]] = Append(@, [to |-> b, kind |-> "aux", value |-> value])]

Queued(b, kind, value) ==
    [command EXCEPT ![CanChannel[b]] = Append(@, [to |-> b, kind |-> kind, value |-> value])]

(* Requests a reading and puts the references, which the state then shows.  *)
UpdateBoard(b) ==
    /\ phase = "update" /\ turn = b
    /\ aux[b] = <<>>
    /\ turn' = turn + 1
    /\ joint' = [joint EXCEPT ![b] = AwaitReading(CycleReset(@))]
    /\ request' = [request EXCEPT ![CanChannel[b]] = Append(@, b)]
    /\ expect' = [expect EXCEPT ![CanChannel[b]] = @ + 1]
    /\ IF agg[b] = Nothing
       THEN UNCHANGED <<command, reported>>
       ELSE /\ command' = Queued(b, "reference", agg[b])
            /\ reported' = [reported EXCEPT ![b] = agg[b]]
    /\ UNCHANGED <<phase, timeVars, lost, inputVars, boardVars, historyVars>>

BeginAuxReporting(b) ==
    /\ phase = "update" /\ turn = b
    /\ aux[b] # <<>>
    /\ phase' = "aux"
    /\ joint' = [joint EXCEPT ![b] = CycleReset(@)]
    /\ reported' = [reported EXCEPT ![b] = agg[b]]
    /\ UNCHANGED <<turn, timeVars, queueVars, inputVars, boardVars, historyVars>>

(* With auxiliary commands pending they are all that is sent.               *)
BeginAux(b) ==
    /\ phase = "update" /\ turn = b
    /\ aux[b] # <<>>
    /\ phase' = "aux"
    /\ joint' = [joint EXCEPT ![b] = CycleReset(@)]
    /\ UNCHANGED <<turn, timeVars, queueVars, inputVars, reported, boardVars, historyVars>>

NextAuxFirst(pending) == 1

(* _process_auxiliary_commands empties the vector from its end.             *)
NextAux(pending) == Len(pending)

ProcessAux(b) ==
    /\ phase = "aux" /\ turn = b
    /\ LET cmd  == aux[b][NextAux(aux[b])]
           rest == RemoveAt(aux[b], NextAux(aux[b]))
       IN  /\ aux' = [aux EXCEPT ![b] = rest]
           /\ command' = IF cmd.supported THEN Queued(b, "aux", cmd.id) ELSE command
           /\ phase' = IF rest = <<>> THEN "update" ELSE "aux"
           /\ turn' = IF rest = <<>> THEN turn + 1 ELSE turn
    /\ UNCHANGED <<timeVars, request, expect, lost, agg, joint, reported, boardVars,
                   historyVars>>

-----------------------------------------------------------------------------
(* pump(): sending and receiving. *)

FrameDtUp(diff, n) == (diff + n - 1) \div n

(* frame_dt: a wait is increased by whole nanoseconds.                      *)
FrameDt(diff, n) == diff \div n

(* All boards are updated; the frames share the time, or it is waited out.  *)
StartSending ==
    /\ phase = "update" /\ turn > NBoards
    /\ \/ /\ ~Empty
          /\ \E n \in {Frames(c) : c \in Channel} :
                 /\ \A c \in Channel : Frames(c) <= n
                 /\ dt' = FrameDt(left, n)
          /\ phase' = "send"
          /\ UNCHANGED left
       \/ /\ Empty
          /\ phase' = "wait"
          /\ left' = 0
          /\ UNCHANGED dt
    /\ UNCHANGED <<turn, queueVars, inputVars, joint, reported, boardVars, historyVars>>

(* Requests go first; each queue is emptied from its end.                   *)
NextIsRequest(c) == request[c] # <<>>
NextIsCommand(c) == request[c] = <<>> /\ command[c] # <<>>
NextFrame(frames) == Len(frames)

GetsCommand(b, kind) ==
    LET c == CanChannel[b]
    IN  NextIsCommand(c) /\ LET frame == command[c][NextFrame(command[c])]
                            IN  frame.to = b /\ frame.kind = kind

CommandValue(b) == LET c == CanChannel[b] IN command[c][NextFrame(command[c])].value

(* The previous wait is over, and one frame goes out on each channel while  *)
(* the clock is before the deadline.  The channels in failed do not take    *)
(* theirs: pump() returns false, and the process ends.                      *)
SendNextFrames(failed) ==
    /\ phase \in {"send", "wait"}
    /\ left > 0
    /\ \A c \in failed : Frames(c) > 0
    /\ request' = [c \in Channel |-> IF NextIsRequest(c)
                      THEN RemoveAt(request[c], NextFrame(request[c])) ELSE request[c]]
    /\ command' = [c \in Channel |-> IF NextIsCommand(c)
                      THEN RemoveAt(command[c], NextFrame(command[c])) ELSE command[c]]
    /\ awaited' = [c \in Channel |-> IF NextIsRequest(c) /\ c \notin failed
                      THEN Append(awaited[c], request[c][NextFrame(request[c])])
                      ELSE awaited[c]]
    /\ missing' = [c \in Channel |-> IF NextIsRequest(c) /\ c \in failed
                      THEN missing[c] + 1 ELSE missing[c]]
    /\ sent' = [b \in Board |-> IF GetsCommand(b, "reference") /\ CanChannel[b] \notin failed
                   THEN CommandValue(b) ELSE sent[b]]
    /\ lastAux' = [b \in Board |-> IF GetsCommand(b, "aux") /\ CanChannel[b] \notin failed
                      THEN CommandValue(b) ELSE lastAux[b]]
    /\ IF failed = {} THEN phase' = "wait" /\ left' = left - dt
                      ELSE phase' = "stopped" /\ UNCHANGED left
    /\ UNCHANGED <<turn, dt, expect, lost, inputVars, joint, reported, historyVars>>

(* _decode_encoder_reading, of the board that sent it.                      *)
ReadingArrived(counters) ==
    [counters EXCEPT !.updated = TRUE, !.received = @ + 1]

(* _decode_frame: whatever comes counts as one of the expected replies.     *)
DecodeReply(c, i) ==
    /\ phase = "wait"
    /\ joint' = [joint EXCEPT ![awaited[c][i]] = ReadingArrived(@)]
    /\ awaited' = [awaited EXCEPT ![c] = RemoveAt(@, i)]
    /\ expect' = [expect EXCEPT ![c] = @ - 1]
    /\ UNCHANGED <<phase, turn, timeVars, request, command, lost, inputVars, reported,
                   sent, lastAux, missing, historyVars>>

DecodeForeign(c) ==
    /\ phase = "wait"
    /\ missing[c] > -MaxForeign
    /\ missing' = [missing EXCEPT ![c] = @ - 1]
    /\ expect' = [expect EXCEPT ![c] = @ - 1]
    /\ UNCHANGED <<phase, turn, timeVars, request, command, lost, inputVars, joint,
                   reported, sent, lastAux, awaited, historyVars>>

(* A board does not answer, or its answer is lost.                          *)
LoseReply(c, i) ==
    /\ phase = "wait"
    /\ awaited' = [awaited EXCEPT ![c] = RemoveAt(@, i)]
    /\ missing' = [missing EXCEPT ![c] = @ + 1]
    /\ UNCHANGED <<phase, turn, timeVars, queueVars, inputVars, joint, reported, sent,
                   lastAux, historyVars>>

NetLostAssigned(c) == expect[c]

(* reset_counter of every channel.                                          *)
NetLost(c) == lost[c] + expect[c]

EndCycle ==
    /\ phase \in {"send", "wait"}
    /\ left <= 0
    /\ phase' = "after"
    /\ lost' = [c \in Channel |-> NetLost(c)]
    /\ expect' = [c \in Channel |-> 0]
    /\ UNCHANGED <<turn, timeVars, request, command, inputVars, joint, reported,
                   boardVars, historyVars>>

-----------------------------------------------------------------------------
MainLoop ==
    \/ \E to \in AuxTarget, supported \in BOOLEAN :
           TakeAux(to, supported)
    \/ \E refs \in [Driven -> Reference \cup {Nothing}] : FetchCommands(refs)
    \/ Quit

Pump ==
    \/ \E diff \in StartTime : SkipCycle(diff) \/ StartCycle(diff)
    \/ \E b \in Board : UpdateBoard(b) \/ BeginAux(b) \/ ProcessAux(b)
    \/ StartSending
    \/ \E failed \in SUBSET Channel : SendNextFrames(failed)
    \/ EndCycle

Bus ==
    \/ \E c \in Channel : \E i \in DOMAIN awaited[c] : DecodeReply(c, i) \/ LoseReply(c, i)
    \/ \E c \in Channel : DecodeForeign(c)

Next == MainLoop \/ Pump \/ Bus

Spec == Init /\ [][Next]_vars

-----------------------------------------------------------------------------
(* Properties. *)

TypeOK ==
    /\ phase \in {"ready", "update", "aux", "send", "wait", "after", "stopped"}
    /\ turn \in 1 .. NBoards + 1
    /\ left \in Int /\ dt \in Nat
    /\ request \in [Channel -> Seq(Board)]
    /\ command \in [Channel -> Seq(Frame)]
    /\ expect \in [Channel -> Int] /\ lost \in [Channel -> Int]
    /\ aux \in [Board -> Seq(AuxCommand)]
    /\ agg \in [Board -> Reference \cup {Nothing}]
    /\ joint \in [Board -> Counters]
    /\ reported \in [Board -> Reference \cup {Nothing}]
    /\ sent \in [Board -> Reference \cup {Nothing}]
    /\ lastAux \in [Board -> 0 .. MaxAux]
    /\ awaited \in [Channel -> Seq(Board)]
    /\ missing \in [Channel -> Int]
    /\ start \in StartKind /\ carried \in BOOLEAN
    /\ cycles \in Nat /\ auxCount \in 0 .. MaxAux

(* The replies a channel lacks (net_lost_replies, and reply_expectation in  *)
(* the middle of a cycle) are exactly the requests not sent yet, the        *)
(* answers still to come and the answers lost, less the frames nobody asked *)
(* for: no late answer, skipped cycle or leftover request is counted twice. *)
RepliesAccounted ==
    \A c \in Channel :
        lost[c] + expect[c] = Len(request[c]) + Len(awaited[c]) + missing[c]

(* The readings of a joint that failed to arrive are all in dropped_count;  *)
(* only the latest request may not have been judged yet.                    *)
DropsAreCounted ==
    \A b \in Board :
        joint[b].expected - joint[b].received <=
            joint[b].dropped + IF joint[b].updated THEN 0 ELSE 1

(* Both accounts of what did not arrive, the channels' and the joints', add *)
(* up, whichever way the replies of several cycles mix.                     *)
AccountsAddUp == RepliesAccounted /\ DropsAreCounted

(* A cycle that starts before its deadline sends all it has, however the    *)
(* division of the time is rounded and however the channels are loaded.     *)
CycleDrains == phase = "after" /\ start = "early" => Empty

(* What the state shows as a board's references is what the board was sent  *)
(* last, across skipped cycles and cycles with auxiliary commands, unless a *)
(* cycle that started exactly at its deadline left frames over: those go    *)
(* out after the newer ones of the next cycle, and the board may be left    *)
(* with the older reference for good.                                       *)
ReportedReferenceWasSent ==
    phase = "after" /\ Empty /\ ~carried => reported = sent

(* A board gets its auxiliary commands in the order in which they were      *)
(* given, although two queues in a row are emptied from their ends; again   *)
(* unless frames were left over.                                            *)
AuxInOrder == [][~carried => \A b \in Board : lastAux'[b] >= lastAux[b]]_vars

=============================================================================
