-------------------------- MODULE ManagerReqProofs --------------------------
(***************************************************************************)
(* Theorems about ManagerReq for all sets of programs, channels,           *)
(* configurations and requesters, any first rosters and configurations,    *)
(* and any depth of the channels and width of the counts.                  *)
(***************************************************************************)
EXTENDS ManagerReq, FiniteSetTheorems, TLAPS

-----------------------------------------------------------------------------
(* Channels. *)

LEMMA FlushedType == ASSUME NEW F, NEW d \in Nat PROVE Flushed \in ChannelOf(F, d)
  BY DEF Flushed, ChannelOf

LEMMA PutType ==
    ASSUME NEW F, NEW d \in Nat \ {0}, NEW ch \in ChannelOf(F, d), NEW f \in F
    PROVE  Put(ch, d, f) \in ChannelOf(F, d)
  BY DEF Put, ChannelOf

LEMMA GetType ==
    ASSUME NEW F, NEW d \in Nat, NEW ch \in ChannelOf(F, d), HasFrame(ch)
    PROVE  AfterGet(ch) \in ChannelOf(F, d) /\ Next1(ch) \in F
<1>1. ch.unread \in Seq(F) /\ ch.unread # <<>> /\ Len(ch.unread) <= d
  BY DEF HasFrame, ChannelOf
<1>2. Tail(ch.unread) \in Seq(F) /\ Len(Tail(ch.unread)) <= d /\ Head(ch.unread) \in F
  BY <1>1
<1> QED BY <1>2 DEF AfterGet, Next1, ChannelOf

-----------------------------------------------------------------------------
(* The answers. *)

(* All that a requester can tell of the answer to its command: the replies  *)
(* name it, unless it was RESET_ROSTERS; an error comes alone, and it is    *)
(* never the manager that speaks of a race; and each reply counts them all, *)
(* as far as the count goes.                                                *)
Fits(out, cmd) ==
    \A i \in DOMAIN out :
        /\ out[i].err = "NO_ERROR" => out[i].original_req = cmd \/ cmd = "RESET_ROSTERS"
        /\ out[i].err # "NO_ERROR" => Len(out) = 1
        /\ out[i].err # "MGR_RACE_CONDITION"
        /\ Len(out) < ReplyNumbers => out[i].numReplies = Len(out)

AnswerTo(out, cmd) == out \in Seq(Frames) /\ Fits(out, cmd)

LEMMA Counts == /\ \A n \in Nat : n % ReplyNumbers \in 0 .. ReplyNumbers
                /\ \A n \in Nat : n < ReplyNumbers => n % ReplyNumbers = n
                /\ 1 \in 0 .. ReplyNumbers
  BY ManagerAssumption

LEMMA CommandNames ==
    /\ "UNKNOWN_REQUEST" \in Command /\ "LOAD_CONFIG" \in Command
    /\ \A q \in Request : q.cmd \in Command
<1>1. [cmd |-> "UNKNOWN_REQUEST", arg |-> None] \in Request
  BY DEF Request
<1>2. [cmd |-> "LOAD_CONFIG", arg |-> "default"] \in Request
  BY ManagerAssumption DEF Request, OnConfig
<1> QED BY <1>1, <1>2 DEF Command

LEMMA ReplyType ==
    ASSUME NEW err \in {"NO_ERROR"} \cup Failure, NEW cmd \in Command,
           NEW n \in 0 .. ReplyNumbers, NEW item \in Text
    PROVE  Reply(err, cmd, n, item) \in Frames
  BY DEF Reply, Frames

LEMMA ErrorAnswers ==
    ASSUME NEW err \in Failure \ {"MGR_RACE_CONDITION"}, NEW cmd
    PROVE  AnswerTo(Error(err), cmd)
<1>1. Reply(err, "UNKNOWN_REQUEST", 1, None) \in Frames
  BY Counts, CommandNames, ReplyType DEF Text
<1>2. Error(err) \in Seq(Frames) /\ Len(Error(err)) = 1 /\ DOMAIN Error(err) = {1}
      /\ Error(err)[1] = Reply(err, "UNKNOWN_REQUEST", 1, None)
  BY <1>1 DEF Error
<1> QED BY <1>2 DEF AnswerTo, Fits, Reply, Failure

LEMMA NoErrorAnswers ==
    ASSUME NEW cmd \in Command, NEW asked, asked \in {cmd, "RESET_ROSTERS"}
    PROVE  AnswerTo(NoError(cmd), asked)
<1>1. Reply("NO_ERROR", cmd, 1, None) \in Frames
  BY Counts, ReplyType DEF Text
<1>2. NoError(cmd) \in Seq(Frames) /\ Len(NoError(cmd)) = 1 /\ DOMAIN NoError(cmd) = {1}
      /\ NoError(cmd)[1] = Reply("NO_ERROR", cmd, 1, None)
  BY <1>1 DEF NoError
<1> QED BY <1>2 DEF AnswerTo, Fits, Reply

LEMMA RelayAnswers ==
    ASSUME NEW cmd \in Command, NEW items \in Seq(Text)
    PROVE  AnswerTo(Relay(cmd, items), cmd)
<1>1. CASE items = <<>>
  <2>1. Reply("EMPTY_LIST", cmd, 1, None) \in Frames
    BY Counts, ReplyType DEF Text, Failure
  <2>2. /\ Relay(cmd, items) \in Seq(Frames) /\ Len(Relay(cmd, items)) = 1
        /\ DOMAIN Relay(cmd, items) = {1}
        /\ Relay(cmd, items)[1] = Reply("EMPTY_LIST", cmd, 1, None)
    BY <1>1, <2>1 DEF Relay
  <2> QED BY <2>2 DEF AnswerTo, Fits, Reply
<1>2. CASE items # <<>>
  <2> DEFINE n == Len(items)
             out == [i \in 1 .. n |-> Reply("NO_ERROR", cmd, n % ReplyNumbers, items[i])]
  <2>1. n \in Nat /\ DOMAIN items = 1 .. n /\ \A i \in 1 .. n : items[i] \in Text
    OBVIOUS
  <2>2. Relay(cmd, items) = out
    BY <1>2, <2>1 DEF Relay
  <2>3. n % ReplyNumbers \in 0 .. ReplyNumbers /\ (n < ReplyNumbers => n % ReplyNumbers = n)
    BY <2>1, Counts
  <2>4. \A i \in 1 .. n : out[i] \in Frames /\ out[i].err = "NO_ERROR"
                          /\ out[i].original_req = cmd
                          /\ out[i].numReplies = n % ReplyNumbers
    BY <2>1, <2>3 DEF Reply, Frames
  <2>5. out \in [1 .. n -> Frames]
    BY <2>4
  <2>6. out \in Seq(Frames) /\ Len(out) = n /\ DOMAIN out = 1 .. n
    BY <2>1, <2>5
  <2> HIDE DEF out
  <2> QED BY <2>2, <2>3, <2>4, <2>6 DEF AnswerTo, Fits
<1> QED BY <1>1, <1>2

LEMMA SetToSeqType ==
    ASSUME NEW S, IsFiniteSet(S)
    PROVE  SetToSeq(S) \in Seq(S)
<1>1. \E f \in [1 .. Cardinality(S) -> S] : IsInjective(f)
  BY FS_NatBijection, FS_CardinalityType
     DEF IsInjective, ExistsBijection, Bijection, Injection
<1> QED BY <1>1, FS_CardinalityType DEF SetToSeq

(* What can be listed is finite and can be written in a reply.              *)
LEMMA ListType ==
    ASSUME NEW S, S \subseteq Entry \cup Config
    PROVE  SetToSeq(S) \in Seq(Text)
<1>1. IsFiniteSet(S)
  BY FS_Subset, ManagerAssumption DEF Entry
<1>2. SetToSeq(S) \in Seq(S)
  BY <1>1, SetToSeqType
<1>3. S \subseteq Text
  BY DEF Text
<1> QED BY <1>2, <1>3

-----------------------------------------------------------------------------
(* One request, one answer. *)

LEMMA ReqType ==
    ASSUME TypeOK, HasFrame(requests)
    PROVE  Req \in Request /\ Req.cmd \in Command
  BY GetType, CommandNames, ManagerAssumption DEF TypeOK, Req

LEMMA ArgType ==
    ASSUME NEW q \in Request, q.arg # Malformed
    PROVE  /\ q.cmd \in {"REGISTER_NEW_PROC", "REGISTER_NEW_CHAN"} => q.arg \in Entry
           /\ q.cmd \in {"CREATE_ACH_CHAN", "CLOSE_ACH_CHAN"} => q.arg \in Chan
           /\ q.cmd \in OnConfig => q.arg \in Config
  BY DEF Request, Plain, Lists, OnProc, OnChan, OnConfig, InParts, Entry

(* Everything the daemon does at a request but begin to load.               *)
Responds(out) ==
    /\ Takes /\ Answers(out) /\ AnswerTo(out, Req.cmd)
    /\ UNCHANGED <<replies, loading>>

LEMMA DaemonResponds ==
    ASSUME TypeOK, Daemon, ~Load, ~PutReply
    PROVE  \E out : Responds(out)
<1>0. Takes /\ Req \in Request /\ Req.cmd \in Command
  <2>1. Takes
    BY DEF Daemon, Overrun, TooFewParts, List, Run, Signal, CreateChannel, CreateAllChannels,
           CloseChannel, CloseAllChannels, StartUp, ShutDown, Register, Unregister,
           SaveConfig, DeleteConfig, LoadNothing, On
  <2> QED BY <2>1, ReqType DEF Takes
<1> DEFINE Errs == {Error("ACH_ERROR"), Error("MALFORMED_REQUEST"), Error("NONEXISTENT_ENTRY")}
<1>1. \A out \in Errs \cup {NoError(Req.cmd)} : AnswerTo(out, Req.cmd)
  BY <1>0, ErrorAnswers, NoErrorAnswers DEF Failure
<1>2. CASE Overrun \/ TooFewParts \/ LoadNothing
  BY <1>0, <1>1, <1>2 DEF Overrun, TooFewParts, LoadNothing, files, Responds
<1>3. CASE Run
  BY <1>0, <1>1, <1>3 DEF Run, files, Responds
<1>4. CASE Signal
  BY <1>0, <1>1, <1>4 DEF Signal, files, Responds
<1>5. CASE CloseChannel
  BY <1>0, <1>1, <1>5 DEF CloseChannel, Responds
<1>6. CASE CloseAllChannels \/ ShutDown
  BY <1>0, <1>1, <1>6 DEF CloseAllChannels, ShutDown, CloseAll, Responds
<1>7. CASE Register \/ Unregister \/ SaveConfig \/ DeleteConfig
  BY <1>0, <1>1, <1>7 DEF Register, Unregister, SaveConfig, DeleteConfig, Responds
<1>8. CASE List
  <2>1. PICK locked \in SUBSET Proc :
            Answers(Relay(Req.cmd, SetToSeq(Listed(Req.cmd, locked))))
    BY <1>8 DEF List
  <2>2. Req.cmd \in Lists
    BY <1>8 DEF List, On
  <2>3. Listed(Req.cmd, locked) \subseteq Entry \cup Config
    BY <2>2 DEF Listed, Lists, Entry, TypeOK
  <2>4. AnswerTo(Relay(Req.cmd, SetToSeq(Listed(Req.cmd, locked))), Req.cmd)
    BY <1>0, <2>3, ListType, RelayAnswers
  <2> QED BY <1>0, <1>8, <2>1, <2>4 DEF List, files, Responds
<1>9. CASE CreateAllChannels \/ StartUp
  <2>1. roster \cap Chan \subseteq Entry \cup Config
    BY DEF Entry
  <2>2. AnswerTo(Relay(Req.cmd, SetToSeq(roster \cap Chan)), Req.cmd)
    BY <1>0, <2>1, ListType, RelayAnswers
  <2> QED BY <1>0, <1>9, <2>2 DEF CreateAllChannels, StartUp, CreateAll, Responds
<1>10. CASE CreateChannel
  <2> DEFINE item == IF Req.arg \in roster THEN Req.arg ELSE "REGISTRATION_ERROR"
  <2>1. item \in Text
    BY DEF Text, TypeOK
  <2>2. <<item>> \in Seq(Text)
    BY <2>1
  <2> HIDE DEF item
  <2>3. AnswerTo(Relay(Req.cmd, <<item>>), Req.cmd)
    BY <1>0, <2>2, RelayAnswers
  <2> QED BY <1>0, <1>10, <2>3 DEF CreateChannel, Responds, item
<1> QED
  BY <1>2, <1>3, <1>4, <1>5, <1>6, <1>7, <1>8, <1>9, <1>10 DEF Daemon

-----------------------------------------------------------------------------
(* Type correctness. *)

Progress == [pc : {"idle", "open", "save", "saved", "procs", "chans", "fill"},
             name : Config \cup {None}, left : SUBSET Entry]

(* The files and what loads them; the rest of TypeOK is of the channels.    *)
FilesOK ==
    /\ roster \subseteq Entry /\ open \subseteq Chan
    /\ DOMAIN configs \subseteq Config /\ Range(configs) \subseteq SUBSET Entry
    /\ loading \in [Agent -> Progress]
    /\ crossed \in BOOLEAN

ChannelsOK ==
    /\ requests \in ChannelOf(Request, ReqDepth)
    /\ replies \in [Requester -> ChannelOf(Frames, ReplyDepth)]
    /\ mgr \in [pc : {"up", "loading", "down"}, out : Seq(Frames)]
    /\ answer \in Seq(Frames)

RequestersOK == req \in [Requester -> Requesting] /\ sent \in 0 .. MaxRequests

LEMMA TypeParts == /\ TypeOK <=> FilesOK /\ ChannelsOK /\ RequestersOK
                   /\ TypeOK' <=> FilesOK' /\ ChannelsOK' /\ RequestersOK'
  BY DEF TypeOK, FilesOK, ChannelsOK, RequestersOK, Progress

LEMMA SavedType ==
    ASSUME DOMAIN configs \subseteq Config, Range(configs) \subseteq SUBSET Entry,
           NEW n \in Config, NEW entries \in SUBSET Entry
    PROVE  DOMAIN Saved(n, entries) \subseteq Config
           /\ Range(Saved(n, entries)) \subseteq SUBSET Entry
  BY DEF Saved, Range

LEMMA ContentsType ==
    ASSUME Range(configs) \subseteq SUBSET Entry, NEW n
    PROVE  Contents(n) \subseteq Entry
  BY DEF Contents, Range

LEMMA LoadingType ==
    ASSUME FilesOK, NEW a \in Agent, NEW v \in Progress
    PROVE  [loading EXCEPT ![a] = v] \in [Agent -> Progress]
  BY DEF FilesOK

LEMMA IdleType == Idle \in Progress
  BY DEF Idle, Progress

LEMMA GoesType ==
    ASSUME FilesOK, NEW a \in Agent, NEW left \in SUBSET Entry,
           NEW to \in {"save", "saved", "procs", "chans", "fill"}, Goes(a, to, left)
    PROVE  loading' \in [Agent -> Progress]
<1>1. loading[a] \in Progress
  BY DEF FilesOK
<1>2. [pc |-> to, name |-> loading[a].name, left |-> left] \in Progress
  BY <1>1 DEF Progress
<1> QED BY <1>2, LoadingType DEF Goes, FilesOK

LEMMA SentType ==
    ASSUME ChannelsOK, NEW f \in Frames
    PROVE  Sent(replies, f) \in [Requester -> ChannelOf(Frames, ReplyDepth)]
  BY PutType, ManagerAssumption DEF ChannelsOK, Sent

LEMMA InitTypeOK == Init => TypeOK
<1> SUFFICES ASSUME Init PROVE TypeOK
  OBVIOUS
<1>1. FilesOK
  BY RequestAssumption, IdleType DEF Init, FilesOK
<1>2. ChannelsOK
  BY FlushedType, ManagerAssumption DEF Init, ChannelsOK
<1>3. RequestersOK
  BY RequestAssumption, CommandNames DEF Init, RequestersOK, Resting, Requesting
<1> QED BY <1>1, <1>2, <1>3, TypeParts

LEMMA DaemonType ==
    ASSUME TypeOK, Daemon
    PROVE  FilesOK' /\ ChannelsOK'
<1>0. FilesOK /\ ChannelsOK
  BY TypeParts
<1>1. CASE ~Load /\ ~PutReply
  <2>1. PICK out : Responds(out)
    BY <1>1, DaemonResponds
  <2>2. ChannelsOK'
    BY <1>0, <2>1, GetType, ManagerAssumption
       DEF Responds, Takes, Answers, AnswerTo, ChannelsOK
  <2>3. /\ Req \in Request /\ UNCHANGED loading
    BY <2>1, ReqType DEF Responds, Takes
  <2>4. UNCHANGED crossed \/ Touches("manager")
    BY <1>1 DEF Daemon, Overrun, TooFewParts, List, Run, Signal, CreateChannel,
       CreateAllChannels, CloseChannel, CloseAllChannels, StartUp, ShutDown, CreateAll,
       CloseAll, Register, Unregister, SaveConfig, DeleteConfig, LoadNothing
  <2>5. crossed' \in BOOLEAN
    BY <1>0, <2>4 DEF Touches, FilesOK
  <2>6. /\ roster' \subseteq Entry /\ open' \subseteq Chan
        /\ DOMAIN configs' \subseteq Config /\ Range(configs') \subseteq SUBSET Entry
    <3>1. CASE UNCHANGED files
      BY <1>0, <3>1 DEF files, FilesOK
    <3>2. CASE CreateChannel \/ CloseChannel
      <4>1. Req.arg \in Chan
        BY <2>3, <3>2, ArgType DEF CreateChannel, CloseChannel, On
      <4> QED BY <1>0, <3>2, <4>1 DEF CreateChannel, CloseChannel, FilesOK
    <3>3. CASE CreateAllChannels \/ StartUp \/ CloseAllChannels \/ ShutDown
      BY <1>0, <3>3 DEF CreateAllChannels, StartUp, CreateAll, CloseAllChannels, ShutDown,
                        CloseAll, FilesOK
    <3>4. CASE Register \/ Unregister
      <4>1. Register => Req.arg \in Entry
        BY <2>3, ArgType DEF Register, On
      <4>2. \/ roster' = roster \cup {Req.arg} /\ Req.arg \in Entry
            \/ roster' = roster \ {Req.arg}
        BY <3>4, <4>1 DEF Register, Unregister
      <4>3. roster' \subseteq Entry
        BY <1>0, <4>2 DEF FilesOK
      <4>4. UNCHANGED <<open, configs>>
        BY <3>4 DEF Register, Unregister
      <4> QED BY <1>0, <4>3, <4>4 DEF FilesOK
    <3>5. CASE SaveConfig
      <4>1. Req.arg \in Config
        BY <2>3, <3>5, ArgType DEF SaveConfig, On, OnConfig
      <4> QED BY <1>0, <3>5, <4>1, SavedType DEF SaveConfig, FilesOK
    <3>6. CASE DeleteConfig
      BY <1>0, <3>6 DEF DeleteConfig, FilesOK, Restrict, Range
    <3> QED
      BY <1>1, <3>1, <3>2, <3>3, <3>4, <3>5, <3>6
      DEF Daemon, Overrun, TooFewParts, List, Run, Signal, LoadNothing
  <2>7. FilesOK'
    BY <1>0, <2>3, <2>5, <2>6 DEF FilesOK
  <2> QED BY <2>2, <2>7
<1>2. CASE Load
  <2>1. Wanted \in Config /\ Begin("manager", Wanted) /\ "manager" \in Agent
    BY <1>0, <1>2 DEF Load, FilesOK, Agent
  <2>2. [pc |-> "open", name |-> Wanted, left |-> {}] \in Progress
    BY <2>1 DEF Progress
  <2>3. FilesOK'
    BY <1>0, <1>2, <2>1, <2>2, LoadingType DEF Begin, Load, FilesOK, files
  <2>4. ChannelsOK'
    BY <1>0, <1>2, GetType, ManagerAssumption DEF Load, On, Takes, ChannelsOK
  <2> QED BY <2>3, <2>4
<1>3. CASE PutReply
  <2>1. FilesOK'
    BY <1>0, <1>3 DEF PutReply, FilesOK, files
  <2>2. Head(mgr.out) \in Frames /\ Tail(mgr.out) \in Seq(Frames)
    BY <1>0, <1>3 DEF PutReply, ChannelsOK
  <2>3. ChannelsOK'
    BY <1>0, <1>3, <2>2, SentType DEF PutReply, ChannelsOK
  <2> QED BY <2>1, <2>3
<1> QED BY <1>1, <1>2, <1>3

LEMMA LoaderType ==
    ASSUME TypeOK, NEW a \in Agent, Loader(a)
    PROVE  FilesOK' /\ ChannelsOK'
<1>0. FilesOK /\ ChannelsOK /\ loading[a].left \in SUBSET Entry /\ "last_config" \in Config
  BY TypeParts, ManagerAssumption DEF FilesOK, Progress
<1>1. CASE OpenLast(a) \/ SaveLast(a)
  <2>1. PICK to \in {"save", "saved"}, entries \in SUBSET Entry :
            /\ Goes(a, to, {}) /\ Touches(a)
            /\ UNCHANGED <<roster, open, requests, mgr, replies, answer>>
            /\ configs' = Saved("last_config", entries)
    BY <1>0, <1>1 DEF OpenLast, SaveLast, Changes, FilesOK
  <2>2. loading' \in [Agent -> Progress] /\ crossed' \in BOOLEAN
    BY <1>0, <2>1, GoesType DEF Touches, FilesOK
  <2>3. DOMAIN configs' \subseteq Config /\ Range(configs') \subseteq SUBSET Entry
    BY <1>0, <2>1, SavedType DEF FilesOK
  <2> QED BY <1>0, <2>1, <2>2, <2>3 DEF FilesOK, ChannelsOK
<1>2. CASE ListProcs(a) \/ ListChans(a) \/ ReadConfig(a)
  <2>1. PICK to \in {"procs", "chans", "fill"}, next \in SUBSET Entry :
            /\ Goes(a, to, next)
            /\ UNCHANGED <<files, requests, mgr, replies, answer, crossed>>
    BY <1>0, <1>2, ContentsType DEF ListProcs, ListChans, ReadConfig, Looks, FilesOK
  <2>2. loading' \in [Agent -> Progress]
    BY <1>0, <2>1, GoesType
  <2> QED BY <1>0, <2>1, <2>2 DEF FilesOK, ChannelsOK, files
<1>3. CASE Clear(a) \/ Fill(a)
  <2>1. PICK at \in {"procs", "chans", "fill"}, e \in loading[a].left :
            /\ Goes(a, at, loading[a].left \ {e}) /\ Touches(a)
            /\ UNCHANGED <<configs, open, requests, mgr, replies, answer>>
            /\ roster' \in {roster \ {e}, roster \cup {e}}
    BY <1>0, <1>3 DEF Clear, Fill, Changes
  <2>2. loading' \in [Agent -> Progress] /\ crossed' \in BOOLEAN
    <3>1. (loading[a].left \ {e}) \in SUBSET Entry
      BY <1>0
    <3> QED BY <1>0, <2>1, <3>1, GoesType DEF Touches, FilesOK
  <2>3. roster' \subseteq Entry
    BY <1>0, <2>1 DEF FilesOK
  <2> QED BY <1>0, <2>1, <2>2, <2>3 DEF FilesOK, ChannelsOK
<1>4. CASE Finish(a)
  <2>1. FilesOK'
    BY <1>0, <1>4, IdleType, LoadingType DEF Finish, FilesOK, files
  <2>2. AnswerTo(NoError("LOAD_CONFIG"), "LOAD_CONFIG")
    BY NoErrorAnswers, CommandNames
  <2>3. NoError("LOAD_CONFIG") \in Seq(Frames) /\ NoError("LOAD_CONFIG")[1] \in Frames
    BY <2>2 DEF AnswerTo, NoError
  <2>4. CASE a = "manager"
    BY <1>0, <1>4, <2>1, <2>3, <2>4 DEF Finish, ChannelsOK
  <2>5. CASE a # "manager"
    <3>1. replies' = Sent(replies, NoError("LOAD_CONFIG")[1])
          /\ UNCHANGED <<mgr, answer, requests>>
      BY <1>4, <2>5 DEF Finish
    <3> QED BY <1>0, <2>1, <2>3, <3>1, SentType DEF ChannelsOK
  <2> QED BY <2>4, <2>5
<1> QED BY <1>1, <1>2, <1>3, <1>4 DEF Loader

LEMMA ManagerType ==
    ASSUME TypeOK, ManagerNext
    PROVE  FilesOK' /\ ChannelsOK'
<1>0. FilesOK /\ ChannelsOK
  BY TypeParts
<1>1. CASE Dies
  BY <1>0, <1>1, LoadingType, IdleType DEF Dies, FilesOK, ChannelsOK, files, Agent
<1>2. CASE Starts
  BY <1>0, <1>2, FlushedType, ManagerAssumption DEF Starts, FilesOK, ChannelsOK, files
<1> QED BY <1>1, <1>2, DaemonType, LoaderType DEF ManagerNext

LEMMA SendType ==
    ASSUME TypeOK, NEW r \in Requester, NEW q \in Request, Send(r, q)
    PROVE  TypeOK'
<1>0. FilesOK /\ ChannelsOK /\ RequestersOK
  BY TypeParts
<1>1. FilesOK'
  BY <1>0 DEF Send, FilesOK, files
<1>2. ChannelsOK'
  BY <1>0, FlushedType, PutType, ManagerAssumption DEF Send, ChannelsOK
<1>3. q.cmd \in Command /\ Quiet \in BOOLEAN
  BY CommandNames DEF Quiet
<1>4. [cmd |-> q.cmd, alone |-> Quiet, waits |-> TRUE, reply |-> <<>>] \in Requesting
  BY <1>3 DEF Requesting
<1>5. ASSUME NEW s \in Requester
      PROVE  [req[s] EXCEPT !.alone = @ /\ ~req[s].waits] \in Requesting
  <2>1. req[s] \in Requesting
    BY <1>0 DEF RequestersOK
  <2>2. (req[s].alone /\ ~req[s].waits) \in BOOLEAN
    OBVIOUS
  <2> QED BY <2>1, <2>2 DEF Requesting
<1>6. RequestersOK'
  BY <1>0, <1>4, <1>5, RequestAssumption DEF Send, RequestersOK
<1> QED BY <1>1, <1>2, <1>6, TypeParts

LEMMA NextTypeOK == TypeOK /\ [Next]_vars => TypeOK'
<1> SUFFICES ASSUME TypeOK, [Next]_vars PROVE TypeOK'
  OBVIOUS
<1>0. FilesOK /\ ChannelsOK /\ RequestersOK
  BY TypeParts
<1>1. CASE ManagerNext /\ UNCHANGED <<req, sent>>
  BY <1>0, <1>1, ManagerType, TypeParts DEF RequestersOK
<1>2. CASE ToolDisturbs
  <2>1. "tool" \in Agent
    BY DEF Agent
  <2>2. PICK n \in Config : ToolLoads(n) \/ ToolLoadsNothing(n)
    BY <1>2 DEF ToolDisturbs
  <2>3. FilesOK'
    <3>1. [pc |-> "open", name |-> n, left |-> {}] \in Progress
      BY DEF Progress
    <3> QED BY <1>0, <2>1, <2>2, <3>1, LoadingType
         DEF ToolLoads, ToolLoadsNothing, Begin, FilesOK, files
  <2>4. AnswerTo(Error("NONEXISTENT_ENTRY"), "LOAD_CONFIG")
    BY ErrorAnswers DEF Failure
  <2>5. Error("NONEXISTENT_ENTRY")[1] \in Frames
    BY <2>4 DEF AnswerTo, Error
  <2>6. ChannelsOK'
    BY <1>0, <2>2, <2>5, SentType DEF ToolLoads, ToolLoadsNothing, ChannelsOK
  <2>7. RequestersOK'
    <3>1. \A r \in Requester : [req[r] EXCEPT !.alone = FALSE] \in Requesting
      BY <1>0 DEF RequestersOK, Requesting
    <3> QED BY <1>0, <1>2, <3>1, RequestAssumption DEF ToolDisturbs, RequestersOK
  <2> QED BY <2>3, <2>6, <2>7, TypeParts
<1>3. ASSUME NEW r \in Requester, Receive(r) PROVE TypeOK'
  <2>1. FilesOK'
    BY <1>0, <1>3 DEF Receive, FilesOK, files
  <2>2. replies[r] \in ChannelOf(Frames, ReplyDepth) /\ HasFrame(replies[r])
    BY <1>0, <1>3 DEF Receive, ChannelsOK
  <2>3. AfterGet(replies[r]) \in ChannelOf(Frames, ReplyDepth) /\ Next1(replies[r]) \in Frames
    BY <2>2, GetType, ManagerAssumption
  <2>4. ChannelsOK'
    BY <1>0, <1>3, <2>3 DEF Receive, ChannelsOK
  <2>5. Got(r) \in Seq(Text)
    BY <1>0, <2>3 DEF Got, RequestersOK, Requesting, Frames
  <2>6. [req[r] EXCEPT !.reply = Got(r)] \in Requesting /\ Resting \in Requesting
    <3>1. req[r] \in Requesting
      BY <1>0 DEF RequestersOK
    <3>2. Resting \in Requesting
      BY CommandNames DEF Requesting, Resting
    <3> HIDE DEF Got
    <3> QED BY <2>5, <3>1, <3>2 DEF Requesting
  <2>7. RequestersOK'
    BY <1>0, <1>3, <2>6 DEF Receive, RequestersOK
  <2> QED BY <2>1, <2>4, <2>7, TypeParts
<1>4. ASSUME NEW r \in Requester, TimeOut(r) PROVE TypeOK'
  <2>1. Resting \in Requesting
    BY CommandNames DEF Requesting, Resting
  <2>2. FilesOK' /\ ChannelsOK' /\ RequestersOK'
    BY <1>0, <1>4, <2>1 DEF TimeOut, FilesOK, ChannelsOK, RequestersOK, files
  <2> QED BY <2>2, TypeParts
<1>5. CASE UNCHANGED vars
  BY <1>5 DEF vars, managerVars, files, TypeOK
<1> QED BY <1>1, <1>2, <1>3, <1>4, <1>5, SendType DEF Next

(* Every variable keeps its type, whatever is asked, lost or overrun: the   *)
(* manager registers, lists and answers only what it was built to.          *)
THEOREM TypeOKHolds == Spec => []TypeOK
  BY InitTypeOK, NextTypeOK, PTL DEF Spec

-----------------------------------------------------------------------------
(* Loading a configuration. *)

(* The daemon answers no request while it loads.                            *)
OneAtATime ==
    /\ Loading("manager") => mgr.pc = "loading"
    /\ mgr.pc = "loading" => mgr.out = <<>>

(* When an agent removes the files, everything they name is in last_config; *)
(* and when it has emptied last_config, it has nothing more to lose.        *)
SavedFirst ==
    ~crossed => \A a \in Agent :
        /\ loading[a].pc = "save" => Contents("last_config") = {}
        /\ loading[a].pc \in {"saved", "procs", "chans"} =>
               roster \subseteq Contents("last_config")

LoadInv == OneAtATime /\ SavedFirst

LEMMA InitLoadInv == Init => LoadInv
  BY DEF Init, LoadInv, OneAtATime, SavedFirst, Loading, Idle, Agent

(* While an agent loads, what the other one does to the files is told.      *)
LEMMA TouchTells ==
    ASSUME NEW a \in Agent, NEW b \in Agent, Touches(a), ~crossed'
    PROVE  Loading(b) => b = a
  BY DEF Touches

LEMMA ManagerLoad ==
    ASSUME TypeOK, LoadInv, Daemon \/ Dies \/ Starts
    PROVE  LoadInv'
<1>0. loading \in [Agent -> Progress]
      /\ mgr \in [pc : {"up", "loading", "down"}, out : Seq(Frames)]
      /\ crossed \in BOOLEAN
  BY DEF TypeOK, Progress
<1>1. CASE Daemon /\ ~Load /\ ~PutReply
  <2>1. PICK out : Responds(out)
    BY <1>1, DaemonResponds
  <2>2. mgr.pc = "up" /\ mgr'.pc = "up" /\ UNCHANGED loading
    BY <1>0, <2>1 DEF Responds, Takes, Answers
  <2>3. OneAtATime'
    BY <2>2 DEF LoadInv, OneAtATime, Loading
  <2>4. UNCHANGED <<roster, configs, crossed>> \/ Touches("manager")
    BY <1>1 DEF Daemon, Overrun, TooFewParts, List, Run, Signal, CreateChannel,
       CreateAllChannels, CloseChannel, CloseAllChannels, StartUp, ShutDown, CreateAll,
       CloseAll, Register, Unregister, SaveConfig, DeleteConfig, LoadNothing, files
  <2>5. CASE UNCHANGED <<roster, configs, crossed>>
    BY <2>2, <2>3, <2>5 DEF LoadInv, SavedFirst, Contents
  <2>6. CASE Touches("manager") /\ ~crossed'
    <3>1. \A a \in Agent : ~Loading(a)
      BY <2>2, <2>6, TouchTells DEF Agent, LoadInv, OneAtATime
    <3> QED BY <2>2, <2>3, <3>1 DEF LoadInv, SavedFirst, Loading, Idle
  <2>7. CASE crossed'
    BY <2>3, <2>7 DEF LoadInv, SavedFirst
  <2> QED BY <2>4, <2>5, <2>6, <2>7
<1>2. CASE Load
  BY <1>0, <1>2 DEF Load, On, Takes, Begin, files, LoadInv, OneAtATime, SavedFirst, Contents,
                    Agent
<1>3. CASE PutReply
  BY <1>0, <1>3 DEF PutReply, files, LoadInv, OneAtATime, SavedFirst, Contents, Loading
<1>4. CASE Dies
  BY <1>0, <1>4 DEF Dies, files, LoadInv, OneAtATime, SavedFirst, Contents, Loading, Idle,
                    Agent
<1>5. CASE Starts
  BY <1>0, <1>5 DEF Starts, files, LoadInv, OneAtATime, SavedFirst, Contents, Loading
<1> QED BY <1>1, <1>2, <1>3, <1>4, <1>5

(* A step of loading is the agent's own, and the reply its last.            *)
LEMMA LoaderSteps ==
    ASSUME TypeOK, NEW a \in Agent, Loader(a)
    PROVE  /\ Loading(a) /\ UNCHANGED requests
           /\ \A b \in Agent \ {a} : loading'[b] = loading[b]
           /\ ~Finish(a) => UNCHANGED <<mgr, replies, answer>>
           /\ Finish(a) => loading'[a] = Idle
           /\ (OpenLast(a) \/ SaveLast(a) \/ Clear(a) \/ Fill(a)) => Touches(a)
           /\ ~(OpenLast(a) \/ SaveLast(a) \/ Clear(a) \/ Fill(a)) =>
                  UNCHANGED <<roster, configs, crossed>>
<1>0. loading \in [Agent -> Progress]
  BY DEF TypeOK, Progress
<1>1. \/ \E from \in {"open", "save", "procs", "chans", "fill"} :
             \E to, left : Changes(a, from, to, left)
      \/ \E from \in {"saved", "procs", "chans"} : \E to, next : Looks(a, from, to, next)
      \/ Finish(a)
  <2>1. CASE OpenLast(a)
    BY <2>1 DEF OpenLast
  <2>2. CASE SaveLast(a)
    BY <2>2 DEF SaveLast
  <2>3. CASE Clear(a)
    BY <2>3 DEF Clear
  <2>4. CASE Fill(a)
    BY <2>4 DEF Fill
  <2>5. CASE ListProcs(a)
    BY <2>5 DEF ListProcs
  <2>6. CASE ListChans(a)
    BY <2>6 DEF ListChans
  <2>7. CASE ReadConfig(a)
    BY <2>7 DEF ReadConfig
  <2> QED BY <2>1, <2>2, <2>3, <2>4, <2>5, <2>6, <2>7 DEF Loader
<1>2. loading[a].pc # "idle" /\ UNCHANGED requests
  BY <1>1 DEF Changes, Looks, Finish
<1>3. Loading(a)
  BY <1>2 DEF Loading, Idle
<1>4. \E v : loading' = [loading EXCEPT ![a] = v]
  BY <1>1 DEF Changes, Looks, Finish, Goes
<1>5. \A b \in Agent \ {a} : loading'[b] = loading[b]
  BY <1>0, <1>4
<1>6. ~Finish(a) => UNCHANGED <<mgr, replies, answer>>
  BY <1>1 DEF Changes, Looks
<1>7. Finish(a) => loading'[a] = Idle
  BY <1>0 DEF Finish
<1>8. (OpenLast(a) \/ SaveLast(a) \/ Clear(a) \/ Fill(a)) => Touches(a)
  BY DEF OpenLast, SaveLast, Clear, Fill, Changes
<1>9. ~(OpenLast(a) \/ SaveLast(a) \/ Clear(a) \/ Fill(a)) =>
          UNCHANGED <<roster, configs, crossed>>
  BY DEF Loader, ListProcs, ListChans, ReadConfig, Finish, Looks, files
<1> QED BY <1>2, <1>3, <1>5, <1>6, <1>7, <1>8, <1>9

LEMMA LoaderLoad ==
    ASSUME TypeOK, LoadInv, NEW a \in Agent, Loader(a)
    PROVE  LoadInv'
<1>0. loading \in [Agent -> Progress] /\ "manager" \in Agent
  BY DEF TypeOK, Progress, Agent
<1>1. /\ Loading(a) /\ \A b \in Agent \ {a} : loading'[b] = loading[b]
      /\ ~Finish(a) => UNCHANGED mgr
      /\ Finish(a) => loading'[a] = Idle
  BY LoaderSteps
<1>2. OneAtATime'
  <2>1. CASE Finish(a) /\ a = "manager"
    BY <1>1, <2>1 DEF Finish, OneAtATime, Loading
  <2>2. CASE ~(Finish(a) /\ a = "manager")
    <3>1. UNCHANGED mgr
      BY <1>1, <2>2 DEF Finish
    <3>2. Loading("manager")' => Loading("manager")
      BY <1>0, <1>1 DEF Loading
    <3> QED BY <3>1, <3>2 DEF LoadInv, OneAtATime
  <2> QED BY <2>1, <2>2
<1>3. SavedFirst'
  <2>1. CASE OpenLast(a) \/ SaveLast(a) \/ Clear(a) \/ Fill(a)
    <3> SUFFICES ASSUME ~crossed', NEW b \in Agent
                 PROVE  /\ loading'[b].pc = "save" => Contents("last_config")' = {}
                        /\ loading'[b].pc \in {"saved", "procs", "chans"} =>
                               roster' \subseteq Contents("last_config")'
      BY DEF SavedFirst
    <3>1. CASE b # a
      <4>1. ~Loading(b)
        BY <2>1, <3>1, LoaderSteps, TouchTells
      <4> QED BY <1>1, <3>1, <4>1 DEF Loading, Idle
    <3>2. CASE b = a
      <4>1. CASE OpenLast(a)
        <5>1. loading'[a].pc = "save"
          BY <1>0, <4>1 DEF OpenLast, Changes, Goes
        <5> QED BY <3>2, <4>1, <5>1 DEF OpenLast, Saved, Contents
      <4>2. CASE SaveLast(a)
        <5>1. loading'[a].pc = "saved"
          BY <1>0, <4>2 DEF SaveLast, Changes, Goes
        <5> QED BY <3>2, <4>2, <5>1 DEF SaveLast, Saved, Contents
      <4>3. CASE Clear(a)
        <5>1. PICK at \in {"procs", "chans"}, e \in loading[a].left :
                  Changes(a, at, at, loading[a].left \ {e}) /\ roster' = roster \ {e}
                  /\ UNCHANGED configs
          BY <4>3 DEF Clear
        <5>2. loading[a].pc = at /\ loading'[a].pc = at /\ ~crossed
          BY <1>0, <5>1 DEF Changes, Goes, Touches
        <5> QED BY <3>2, <5>1, <5>2 DEF LoadInv, SavedFirst, Contents
      <4>4. CASE Fill(a)
        <5>1. loading'[a].pc = "fill"
          BY <1>0, <4>4 DEF Fill, Changes, Goes
        <5> QED BY <3>2, <5>1
      <4> QED BY <2>1, <4>1, <4>2, <4>3, <4>4
    <3> QED BY <3>1, <3>2
  <2>2. CASE ~(OpenLast(a) \/ SaveLast(a) \/ Clear(a) \/ Fill(a))
    <3>1. UNCHANGED <<roster, configs, crossed>>
      BY <2>2, LoaderSteps
    <3>2. \/ loading'[a].pc \in {"idle", "fill"}
          \/ loading[a].pc \in {"saved", "procs", "chans"} /\ loading'[a].pc \in {"procs", "chans"}
      BY <1>0, <1>1, <2>2
         DEF Loader, ListProcs, ListChans, ReadConfig, Looks, Goes, Idle
    <3> QED BY <1>1, <3>1, <3>2 DEF LoadInv, SavedFirst, Contents
  <2> QED BY <2>1, <2>2
<1> QED BY <1>2, <1>3 DEF LoadInv

LEMMA NextLoadInv == TypeOK /\ LoadInv /\ [Next]_vars => LoadInv'
<1> SUFFICES ASSUME TypeOK, LoadInv, [Next]_vars PROVE LoadInv'
  OBVIOUS
<1>0. loading \in [Agent -> Progress]
  BY DEF TypeOK, Progress
<1>1. CASE UNCHANGED <<files, loading, mgr, crossed>>
  BY <1>1 DEF files, LoadInv, OneAtATime, SavedFirst, Loading, Contents
<1>2. CASE ToolDisturbs
  <2>1. PICK n \in Config : ToolLoads(n) \/ ToolLoadsNothing(n)
    BY <1>2 DEF ToolDisturbs
  <2>2. CASE ToolLoads(n)
    BY <1>0, <2>2 DEF ToolLoads, Begin, files, LoadInv, OneAtATime, SavedFirst, Loading,
                      Contents, Agent
  <2> QED BY <1>1, <2>1, <2>2 DEF ToolLoadsNothing, files
<1>3. CASE UNCHANGED vars
  BY <1>1, <1>3 DEF vars, managerVars, files
<1>4. ASSUME NEW r \in Requester, Receive(r) \/ TimeOut(r) \/ \E q \in Request : Send(r, q)
      PROVE  LoadInv'
  BY <1>1, <1>4 DEF Receive, TimeOut, Send, files
<1> QED BY <1>2, <1>3, <1>4, ManagerLoad, LoaderLoad DEF Next, ManagerNext

LEMMA LoadHolds == Spec => []LoadInv
  BY InitLoadInv, NextLoadInv, InitTypeOK, NextTypeOK, PTL DEF Spec

(* Wherever the manager dies, what a load takes out of the rosters is in    *)
(* last_config, and stays there until it is unregistered, last_config is    *)
(* saved or deleted by request, or the next load begins, unless files were  *)
(* changed by another hand during one.                                      *)
THEOREM LoadingLosesNothingHolds == Spec => LoadingLosesNothing
<1>1. TypeOK /\ LoadInv /\ [Next]_vars =>
          [~crossed => \A e \in Kept \ Kept' :
               \/ Unregister /\ Req.arg = e
               \/ (SaveConfig \/ DeleteConfig) /\ Req.arg = "last_config"
               \/ \E a \in Agent : OpenLast(a)]_vars
  <2> SUFFICES ASSUME TypeOK, LoadInv, Next, ~crossed, NEW e \in Kept \ Kept',
                      ~(Unregister /\ Req.arg = e),
                      ~((SaveConfig \/ DeleteConfig) /\ Req.arg = "last_config"),
                      \A a \in Agent : ~OpenLast(a)
               PROVE  FALSE
    OBVIOUS
  <2>1. ~(roster \subseteq roster' /\ UNCHANGED Contents("last_config"))
    BY DEF Kept
  <2>2. ~UNCHANGED files
    BY <2>1 DEF files, Contents
  <2>3. ManagerNext /\ ~Dies /\ ~Starts
    BY <2>2 DEF Next, ToolDisturbs, ToolLoads, ToolLoadsNothing, Receive, TimeOut, Send,
                Dies, Starts
  <2>4. ASSUME Daemon PROVE FALSE
    <3>1. ~Register
      BY <2>1 DEF Register, Contents
    <3>2. ~(CreateChannel \/ CreateAllChannels \/ StartUp
            \/ CloseChannel \/ CloseAllChannels \/ ShutDown)
      BY <2>1 DEF CreateChannel, CreateAllChannels, StartUp, CreateAll, CloseChannel,
                  CloseAllChannels, ShutDown, CloseAll, Contents
    <3>3. ~Unregister
      BY DEF Unregister, Kept, Contents
    <3>4. ~(SaveConfig \/ DeleteConfig)
      BY <2>1 DEF SaveConfig, DeleteConfig, Saved, Restrict, Contents
    <3> QED BY <2>2, <2>4, <3>1, <3>2, <3>3, <3>4
         DEF Daemon, Overrun, TooFewParts, List, Run, Signal, LoadNothing, Load, PutReply
  <2>5. PICK a \in Agent : Loader(a)
    BY <2>3, <2>4 DEF ManagerNext
  <2>6. ~(ListProcs(a) \/ ListChans(a) \/ ReadConfig(a) \/ Finish(a))
    BY <2>2 DEF ListProcs, ListChans, ReadConfig, Finish, Looks
  <2>7. CASE SaveLast(a)
    <3>1. loading[a].pc = "save" /\ UNCHANGED roster /\ Contents("last_config")' = roster
      BY <2>7 DEF SaveLast, Changes, Saved, Contents
    <3>2. Contents("last_config") = {}
      BY <3>1 DEF LoadInv, SavedFirst
    <3> QED BY <3>1, <3>2 DEF Kept
  <2>8. CASE Clear(a)
    <3>1. loading[a].pc \in {"procs", "chans"} /\ UNCHANGED configs
      BY <2>8 DEF Clear, Changes
    <3>2. roster \subseteq Contents("last_config") /\ UNCHANGED Contents("last_config")
      BY <3>1 DEF LoadInv, SavedFirst, Contents
    <3> QED BY <3>2 DEF Kept
  <2>9. CASE Fill(a)
    BY <2>1, <2>9 DEF Fill, Contents
  <2> QED BY <2>5, <2>6, <2>7, <2>8, <2>9 DEF Loader
<1> QED BY <1>1, TypeOKHolds, LoadHolds, PTL DEF Spec, LoadingLosesNothing

-----------------------------------------------------------------------------
(* A requester that is alone with the manager. *)

Unread(r) == replies[r].unread

(* What it has read, what it can still read and what the manager has yet to *)
(* put are the answer, in this order, unless the ring has lost some of it.  *)
HearsAll(r) ==
    LET k == Len(req[r].reply)
        m == Len(Unread(r))
    IN  ~replies[r].lapped =>
            /\ k + m <= Len(answer)
            /\ \A i \in 1 .. k : req[r].reply[i] = answer[i].reply
            /\ \A i \in 1 .. m : Unread(r)[i] = answer[k + i]
            /\ mgr.out # <<>> =>
                   /\ Len(mgr.out) = Len(answer) - k - m
                   /\ \A i \in 1 .. Len(mgr.out) : mgr.out[i] = answer[k + m + i]

(* Nobody but the manager can disturb it, and whatever the manager has to   *)
(* do comes from its request.                                               *)
AloneWithManager(r) ==
    /\ req[r].waits /\ \A s \in Requester \ {r} : ~req[s].waits
    /\ ~Loading("tool")
    /\ Fits(answer, req[r].cmd)
    /\ requests.unread # <<>> =>
           Len(requests.unread) = 1 /\ Req.cmd = req[r].cmd /\ answer = <<>>
    /\ Loading("manager") =>
           /\ requests.unread = <<>> /\ answer = <<>>
           /\ req[r].cmd \in {"LOAD_CONFIG", "RESET_ROSTERS"}

AloneInv == \A r \in Requester : req[r].alone => AloneWithManager(r) /\ HearsAll(r)

LEMMA InitAloneInv == Init => AloneInv
  BY DEF Init, AloneInv, Resting

(* Before the manager has answered, nothing was heard.                      *)
LEMMA NothingHeard ==
    ASSUME TypeOK, NEW r \in Requester, HearsAll(r), answer = <<>>, ~replies[r].lapped
    PROVE  Len(req[r].reply) = 0 /\ Len(Unread(r)) = 0
<1>1. Len(req[r].reply) \in Nat /\ Len(Unread(r)) \in Nat
  BY DEF TypeOK, Requesting, Unread, ChannelOf
<1>2. Len(req[r].reply) + Len(Unread(r)) <= 0
  BY DEF HearsAll
<1> QED BY <1>1, <1>2

(* When it answers, its requester can hear all.                             *)
LEMMA AnswerHeard ==
    ASSUME TypeOK, NEW r \in Requester, HearsAll(r), answer = <<>>, NEW out \in Seq(Frames),
           UNCHANGED <<replies, req>>, mgr'.out = out, answer' = out
    PROVE  HearsAll(r)'
<1> SUFFICES ASSUME ~replies[r].lapped PROVE HearsAll(r)'
  BY DEF HearsAll
<1>1. Len(req[r].reply) = 0 /\ Len(Unread(r)) = 0
  BY NothingHeard
<1>2. /\ \A i \in 1 .. 0 : req[r].reply[i] = out[i].reply
      /\ \A i \in 1 .. 0 : Unread(r)[i] = out[0 + i]
      /\ Len(out) \in Nat /\ Len(out) = Len(out) - 0 - 0
      /\ \A i \in 1 .. Len(out) : out[i] = out[0 + 0 + i]
  OBVIOUS
<1>3. Unread(r)' = Unread(r)
  BY DEF Unread
<1> QED BY <1>1, <1>2, <1>3 DEF HearsAll

LEMMA GetLeaves ==
    ASSUME TypeOK, HasFrame(requests), Len(requests.unread) = 1,
           requests' = AfterGet(requests)
    PROVE  requests'.unread = <<>>
<1>1. requests.unread \in Seq(Request)
  BY DEF TypeOK, ChannelOf
<1> QED BY <1>1 DEF AfterGet

LEMMA DaemonAlone ==
    ASSUME TypeOK, LoadInv, NEW r \in Requester, AloneWithManager(r), HearsAll(r),
           Daemon, UNCHANGED req
    PROVE  AloneWithManager(r)' /\ HearsAll(r)'
<1>0. mgr \in [pc : {"up", "loading", "down"}, out : Seq(Frames)] /\ "manager" \in Agent
  BY DEF TypeOK, Agent
<1>1. CASE ~Load /\ ~PutReply
  <2>1. PICK out : Responds(out)
    BY <1>1, DaemonResponds
  <2>2. /\ HasFrame(requests) /\ requests' = AfterGet(requests) /\ mgr'.out = out
        /\ answer' = out /\ out \in Seq(Frames) /\ Fits(out, Req.cmd)
        /\ UNCHANGED <<replies, loading>>
    BY <1>0, <2>1 DEF Responds, Takes, Answers, AnswerTo
  <2>3. /\ Len(requests.unread) = 1 /\ Req.cmd = req[r].cmd /\ answer = <<>>
        /\ ~Loading("manager")
    BY <2>2 DEF AloneWithManager, HasFrame
  <2>4. requests'.unread = <<>>
    BY <2>2, <2>3, GetLeaves
  <2>5. HearsAll(r)'
    BY <2>2, <2>3, AnswerHeard
  <2> QED BY <2>2, <2>3, <2>4, <2>5 DEF AloneWithManager, Loading
<1>2. CASE Load
  <2>1. /\ HasFrame(requests) /\ requests' = AfterGet(requests)
        /\ Req.cmd \in {"LOAD_CONFIG", "RESET_ROSTERS"}
        /\ UNCHANGED <<replies, answer>> /\ mgr'.out = mgr.out
        /\ loading' = [loading EXCEPT !["manager"] = [pc |-> "open", name |-> Wanted,
                                                         left |-> {}]]
    BY <1>0, <1>2 DEF Load, On, Takes, Begin
  <2>2. Len(requests.unread) = 1 /\ Req.cmd = req[r].cmd /\ answer = <<>>
    BY <2>1 DEF AloneWithManager, HasFrame
  <2>3. requests'.unread = <<>>
    BY <2>1, <2>2, GetLeaves
  <2>4. loading'["tool"] = loading["tool"]
    BY <2>1 DEF TypeOK, Agent
  <2>5. HearsAll(r)'
    BY <2>1 DEF HearsAll, Unread
  <2> QED BY <2>1, <2>2, <2>3, <2>4, <2>5 DEF AloneWithManager, Loading
<1>3. CASE PutReply
  <2>1. /\ mgr.out # <<>> /\ UNCHANGED <<requests, loading, answer>>
        /\ mgr'.out = Tail(mgr.out)
        /\ replies'[r] = Put(replies[r], ReplyDepth, Head(mgr.out))
    BY <1>0, <1>3 DEF PutReply, Sent
  <2>2. AloneWithManager(r)'
    BY <2>1 DEF AloneWithManager, Loading, Req
  <2>3. CASE replies'[r].lapped
    BY <2>2, <2>3 DEF HearsAll
  <2>4. CASE ~replies'[r].lapped
    <3> DEFINE k == Len(req[r].reply)
               m == Len(Unread(r))
               n == Len(answer)
               l == Len(mgr.out)
               new == Unread(r)'
               rest == Tail(mgr.out)
    <3>1. replies[r] \in ChannelOf(Frames, ReplyDepth) /\ answer \in Seq(Frames)
          /\ mgr.out \in Seq(Frames) /\ req[r].reply \in Seq(Text)
      BY <1>0 DEF TypeOK, Requesting
    <3>2. Unread(r)' = Append(Unread(r), Head(mgr.out)) /\ ~replies[r].lapped
      BY <2>1, <2>4, <3>1 DEF Put, Unread, ChannelOf
    <3>3. Unread(r) \in Seq(Frames)
      BY <3>1 DEF Unread, ChannelOf
    <3>4. /\ k + m <= n
          /\ \A i \in 1 .. k : req[r].reply[i] = answer[i].reply
          /\ \A i \in 1 .. m : Unread(r)[i] = answer[k + i]
          /\ l = n - k - m
          /\ \A i \in 1 .. l : mgr.out[i] = answer[k + m + i]
      BY <2>1, <3>2 DEF HearsAll
    <3>5. /\ Len(rest) = l - 1 /\ \A i \in 1 .. l - 1 : rest[i] = mgr.out[i + 1]
          /\ Head(mgr.out) = mgr.out[1] /\ Head(mgr.out) \in Frames
      BY <2>1, <3>1
    <3>6. /\ Len(new) = m + 1 /\ new[m + 1] = mgr.out[1]
          /\ \A i \in 1 .. m : new[i] = Unread(r)[i]
      BY <3>2, <3>3, <3>5
    <3>7. k \in Nat /\ m \in Nat /\ n \in Nat /\ l \in Nat \ {0}
      BY <2>1, <3>1, <3>3
    <3>8. k' = k /\ n' = n /\ m' = Len(new) /\ mgr'.out = rest
      BY <2>1
    <3> HIDE DEF k, m, n, l, new, rest
    <3>9. k + (m + 1) <= n /\ l - 1 = n - k - (m + 1)
      BY <3>4, <3>7
    <3>10. ASSUME NEW i \in 1 .. m + 1 PROVE new[i] = answer[k + i]
      <4>1. CASE i \in 1 .. m
        BY <3>4, <3>6, <4>1
      <4>2. CASE i = m + 1
        <5>1. 1 \in 1 .. l /\ k + m + 1 = k + i
          BY <3>7, <4>2
        <5> QED BY <3>4, <3>6, <4>2, <5>1
      <4> QED BY <3>7, <4>1, <4>2
    <3>11. ASSUME NEW i \in 1 .. l - 1 PROVE rest[i] = answer[k + (m + 1) + i]
      <4>1. i + 1 \in 1 .. l /\ k + m + (i + 1) = k + (m + 1) + i
        BY <3>7
      <4>2. rest[i] = mgr.out[i + 1] /\ mgr.out[i + 1] = answer[k + m + (i + 1)]
        BY <3>4, <3>5, <4>1
      <4> QED BY <4>1, <4>2
    <3>12. HearsAll(r)'
      <4>1. /\ k + Len(new) <= n
            /\ \A i \in 1 .. Len(new) : new[i] = answer[k + i]
            /\ Len(rest) = n - k - Len(new)
            /\ \A i \in 1 .. Len(rest) : rest[i] = answer[k + Len(new) + i]
        BY <3>5, <3>6, <3>9, <3>10, <3>11
      <4> QED BY <2>1, <3>4, <3>8, <4>1 DEF HearsAll, k, n, new
    <3> QED BY <2>2, <3>12
  <2> QED BY <2>2, <2>3, <2>4
<1> QED BY <1>1, <1>2, <1>3

LEMMA ManagerAlone ==
    ASSUME TypeOK, LoadInv, NEW r \in Requester, AloneWithManager(r), HearsAll(r),
           ManagerNext, UNCHANGED req
    PROVE  AloneWithManager(r)' /\ HearsAll(r)'
<1>0. mgr \in [pc : {"up", "loading", "down"}, out : Seq(Frames)] /\ "manager" \in Agent
      /\ loading \in [Agent -> Progress]
  BY DEF TypeOK, Progress, Agent
<1>1. ASSUME NEW a \in Agent, Loader(a) PROVE AloneWithManager(r)' /\ HearsAll(r)'
  <2>1. loading'["tool"] = loading["tool"] /\ a = "manager" /\ Loading("manager")
        /\ UNCHANGED requests
    <3>1. Loading(a) /\ UNCHANGED requests
          /\ \A b \in Agent \ {a} : loading'[b] = loading[b]
      BY <1>1, LoaderSteps
    <3>2. a = "manager"
      BY <3>1 DEF AloneWithManager, Agent
    <3> QED BY <3>1, <3>2 DEF Agent
  <2>2. answer = <<>> /\ requests.unread = <<>>
        /\ req[r].cmd \in {"LOAD_CONFIG", "RESET_ROSTERS"}
    BY <2>1 DEF AloneWithManager
  <2>3. CASE ~Finish(a)
    <3>1. UNCHANGED <<mgr, replies, answer>>
      BY <1>1, <2>3, LoaderSteps
    <3> QED BY <2>1, <2>2, <3>1 DEF AloneWithManager, HearsAll, Unread, Loading
  <2>4. CASE Finish(a)
    <3> DEFINE out == NoError("LOAD_CONFIG")
    <3>1. mgr'.out = out /\ answer' = out /\ UNCHANGED replies
      BY <2>1, <2>4 DEF Finish
    <3>2. AnswerTo(out, req[r].cmd)
      <4>1. CASE req[r].cmd = "LOAD_CONFIG"
        BY <4>1, CommandNames, NoErrorAnswers
      <4>2. CASE req[r].cmd = "RESET_ROSTERS"
        BY <4>2, CommandNames, NoErrorAnswers
      <4> QED BY <2>2, <4>1, <4>2
    <3> HIDE DEF out
    <3>3. out \in Seq(Frames) /\ Fits(out, req[r].cmd)
      BY <3>2 DEF AnswerTo
    <3>4. HearsAll(r)'
      BY <2>2, <3>1, <3>3, AnswerHeard
    <3>5. ~Loading("manager")'
      BY <1>1, <2>1, <2>4, LoaderSteps DEF Loading
    <3> QED BY <2>1, <2>2, <3>1, <3>3, <3>4, <3>5 DEF AloneWithManager, Loading
  <2> QED BY <2>3, <2>4
<1>2. CASE Dies
  <2>1. /\ mgr'.out = <<>> /\ UNCHANGED <<requests, replies, answer>>
        /\ loading'["tool"] = loading["tool"] /\ loading'["manager"] = Idle
    BY <1>0, <1>2 DEF Dies, Agent
  <2> QED BY <2>1 DEF AloneWithManager, HearsAll, Unread, Loading, Req
<1>3. CASE Starts
  <2>1. /\ mgr'.out = <<>> /\ UNCHANGED <<replies, answer, loading>>
        /\ requests'.unread = <<>>
    BY <1>3 DEF Starts, Flushed
  <2> QED BY <2>1 DEF AloneWithManager, HearsAll, Unread, Loading
<1> QED BY <1>1, <1>2, <1>3, DaemonAlone DEF ManagerNext

(* The frame that is read next is the next one of the answer.               *)
LEMMA NextIsOfAnswer ==
    ASSUME TypeOK, NEW r \in Requester, HearsAll(r), HasFrame(replies[r]), ~replies[r].lapped
    PROVE  LET k == Len(req[r].reply)
           IN  /\ k \in Nat /\ k + Len(Unread(r)) <= Len(answer) /\ Len(Unread(r)) > 0
               /\ Next1(replies[r]) = answer[k + 1]
               /\ k + 1 \in DOMAIN answer
               /\ \A i \in 1 .. k : req[r].reply[i] = answer[i].reply
<1>1. /\ Unread(r) \in Seq(Frames) /\ Unread(r) # <<>> /\ answer \in Seq(Frames)
      /\ Len(req[r].reply) \in Nat
  BY DEF TypeOK, Requesting, ChannelOf, HasFrame, Unread
<1>2. Next1(replies[r]) = Unread(r)[1] /\ Len(Unread(r)) \in Nat /\ Len(Unread(r)) > 0
      /\ DOMAIN answer = 1 .. Len(answer) /\ Len(answer) \in Nat
  BY <1>1 DEF Next1, Unread
<1> DEFINE k == Len(req[r].reply)
           m == Len(Unread(r))
           n == Len(answer)
<1>3. /\ k + m <= n
      /\ \A i \in 1 .. k : req[r].reply[i] = answer[i].reply
      /\ \A i \in 1 .. m : Unread(r)[i] = answer[k + i]
  BY DEF HearsAll
<1>4. k \in Nat /\ m \in Nat /\ n \in Nat /\ m > 0
  BY <1>1, <1>2
<1> HIDE DEF k, m, n
<1>5. 1 \in 1 .. m /\ k + 1 \in 1 .. n
  BY <1>3, <1>4
<1>6. Next1(replies[r]) = answer[k + 1]
  BY <1>2, <1>3, <1>5
<1> QED BY <1>2, <1>3, <1>4, <1>5, <1>6 DEF k, m, n

LEMMA ReceiveAlone ==
    ASSUME TypeOK, NEW r \in Requester, AloneWithManager(r), HearsAll(r),
           Receive(r), req'[r].alone
    PROVE  AloneWithManager(r)' /\ HearsAll(r)'
<1> DEFINE k == Len(req[r].reply)
           f == Next1(replies[r])
<1>0. /\ req[r] \in Requesting /\ replies[r] \in ChannelOf(Frames, ReplyDepth)
      /\ answer \in Seq(Frames) /\ HasFrame(replies[r])
      /\ req \in [Requester -> Requesting]
      /\ replies \in [Requester -> ChannelOf(Frames, ReplyDepth)]
  BY DEF TypeOK, Receive
<1>1. Verdict(r) = None
  BY <1>0 DEF Receive, Resting
<1>2. /\ req' = [req EXCEPT ![r].reply = Got(r)]
      /\ replies'[r] = AfterGet(replies[r])
      /\ UNCHANGED <<answer, requests, mgr, loading>>
  BY <1>0, <1>1 DEF Receive
<1>3. ~replies[r].lapped
  BY <1>1 DEF Verdict, None
<1>4. AloneWithManager(r)'
  <2>1. /\ req'[r].waits = req[r].waits /\ req'[r].cmd = req[r].cmd
        /\ \A s \in Requester : req'[s].waits = req[s].waits
    BY <1>0, <1>2 DEF Requesting
  <2> QED BY <1>2, <2>1 DEF AloneWithManager, Loading, Req
<1>5. /\ k \in Nat /\ k + Len(Unread(r)) <= Len(answer) /\ Len(Unread(r)) > 0
      /\ f = answer[k + 1] /\ \A i \in 1 .. k : req[r].reply[i] = answer[i].reply
  BY <1>0, <1>3, NextIsOfAnswer
<1>6. req'[r].reply = Append(req[r].reply, f.reply)
  BY <1>0, <1>2 DEF Got, Requesting
<1>7. req[r].reply \in Seq(Text) /\ f \in Frames
  BY <1>0, GetType, ManagerAssumption DEF Requesting
<1>8. f.reply \in Text
  BY <1>7 DEF Frames
<1>9. /\ Len(req'[r].reply) = k + 1
      /\ \A i \in 1 .. k + 1 : req'[r].reply[i] = answer[i].reply
  BY <1>5, <1>6, <1>7, <1>8
<1>10. /\ Unread(r) \in Seq(Frames) /\ Unread(r)' = Tail(Unread(r)) /\ Unread(r) # <<>>
  BY <1>0, <1>2 DEF Unread, AfterGet, HasFrame, ChannelOf
<1> DEFINE m == Len(Unread(r))
           rest == Tail(Unread(r))
<1>11. Len(rest) = m - 1 /\ m \in Nat /\ \A i \in 1 .. m - 1 : rest[i] = Unread(r)[i + 1]
  BY <1>10
<1>12. /\ \A i \in 1 .. m : Unread(r)[i] = answer[k + i]
       /\ mgr.out # <<>> =>
              /\ Len(mgr.out) = Len(answer) - k - m
              /\ \A i \in 1 .. Len(mgr.out) : mgr.out[i] = answer[k + m + i]
  BY <1>3 DEF HearsAll
<1> HIDE DEF rest
<1>13. ASSUME NEW i \in 1 .. m - 1 PROVE rest[i] = answer[(k + 1) + i]
  <2>0. k \in Nat /\ m \in Nat
    BY <1>5, <1>11
  <2> HIDE DEF k, m
  <2>1. i + 1 \in 1 .. m /\ k + (i + 1) = (k + 1) + i
    BY <2>0
  <2> QED BY <1>11, <1>12, <2>1
<1>14. /\ (k + 1) + (m - 1) = k + m
       /\ Len(answer) \in Nat /\ Len(answer) - (k + 1) - (m - 1) = Len(answer) - k - m
  BY <1>0, <1>5, <1>11
<1>15. Unread(r)' = rest
  BY <1>10 DEF rest
<1> HIDE DEF k, m
<1>16. Len(req'[r].reply) = k + 1 /\ Len(Unread(r)') = m - 1
  BY <1>9, <1>11, <1>15
<1>17. HearsAll(r)'
  <2>1. (k + 1) + (m - 1) <= Len(answer)
    BY <1>5, <1>14 DEF m
  <2>2. mgr.out # <<>> => Len(mgr.out) = Len(answer) - (k + 1) - (m - 1)
                          /\ \A i \in 1 .. Len(mgr.out) : mgr.out[i] = answer[(k + 1) + (m - 1) + i]
    BY <1>12, <1>14
  <2> QED BY <1>2, <1>9, <1>13, <1>15, <1>16, <2>1, <2>2 DEF HearsAll
<1> QED BY <1>4, <1>17

LEMMA NextAloneInv == TypeOK /\ LoadInv /\ AloneInv /\ [Next]_vars => AloneInv'
<1> SUFFICES ASSUME TypeOK, LoadInv, AloneInv, [Next]_vars, NEW r \in Requester, req'[r].alone
             PROVE  AloneWithManager(r)' /\ HearsAll(r)'
  BY DEF AloneInv
<1>0. req \in [Requester -> Requesting]
      /\ replies \in [Requester -> ChannelOf(Frames, ReplyDepth)]
  BY DEF TypeOK
<1>1. CASE ManagerNext /\ UNCHANGED <<req, sent>>
  <2>1. AloneWithManager(r) /\ HearsAll(r)
    BY <1>1 DEF AloneInv
  <2> QED BY <1>1, <2>1, ManagerAlone
<1>2. CASE ToolDisturbs
  BY <1>0, <1>2 DEF ToolDisturbs, Requesting
<1>3. ASSUME NEW s \in Requester, Receive(s) \/ TimeOut(s)
      PROVE  AloneWithManager(r)' /\ HearsAll(r)'
  <2>1. req[s].waits /\ \A t \in Requester : t # s => req'[t] = req[t]
    BY <1>0, <1>3 DEF Receive, TimeOut
  <2>2. r = s
    BY <2>1 DEF AloneInv, AloneWithManager
  <2>3. Receive(r) /\ req[r].alone
    <3>1. req'[r] # Resting
      BY DEF Resting
    <3>2. Receive(r) /\ Verdict(r) = None
      BY <1>0, <1>3, <2>2, <3>1 DEF Receive, TimeOut
    <3>3. req'[r].alone = req[r].alone
      BY <1>0, <3>2 DEF Receive, Requesting
    <3> QED BY <3>2, <3>3
  <2> QED BY <2>3, ReceiveAlone DEF AloneInv
<1>4. ASSUME NEW s \in Requester, NEW q \in Request, Send(s, q)
      PROVE  AloneWithManager(r)' /\ HearsAll(r)'
  <2>1. r = s
    <3>1. CASE r # s
      <4>1. req'[r] = [req[r] EXCEPT !.alone = @ /\ ~req[r].waits]
        BY <1>4, <3>1 DEF Send
      <4>2. req[r] \in Requesting
        BY <1>0
      <4>3. req[r].alone /\ ~req[r].waits
        BY <4>1, <4>2 DEF Requesting
      <4> QED BY <4>3 DEF AloneInv, AloneWithManager
    <3> QED BY <3>1
  <2>2. /\ req'[r] = [cmd |-> q.cmd, alone |-> Quiet, waits |-> TRUE, reply |-> <<>>]
        /\ \A t \in Requester \ {r} :
               req'[t] = [req[t] EXCEPT !.alone = @ /\ ~req[t].waits]
        /\ replies'[r] = Flushed /\ answer' = <<>> /\ UNCHANGED <<mgr, loading>>
        /\ requests' = Put(requests, ReqDepth, q)
    BY <1>0, <1>4, <2>1 DEF Send
  <2>3. Quiet
    BY <2>2
  <2>4. mgr.out = <<>> /\ requests.unread = <<>> /\ (\A a \in Agent : ~Loading(a))
        /\ \A t \in Requester : ~req[t].waits
    BY <2>3 DEF Quiet, HasFrame
  <2>5. Len(requests'.unread) = 1 /\ Head(requests'.unread) = q
    <3>1. requests \in [unread : Seq(Request), lapped : BOOLEAN] /\ 0 < ReqDepth
      BY ManagerAssumption DEF TypeOK, ChannelOf
    <3>2. Len(requests.unread) = 0
      BY <2>4
    <3>3. requests' = [requests EXCEPT !.unread = Append(@, q)]
      BY <2>2, <3>1, <3>2 DEF Put
    <3>4. requests'.unread = Append(requests.unread, q)
      BY <3>1, <3>3
    <3> QED BY <3>1, <3>2, <3>4
  <2>6. ASSUME NEW t \in Requester \ {r} PROVE ~req'[t].waits
    <3>1. req[t] \in Requesting /\ ~req[t].waits
      BY <1>0, <2>4
    <3>2. req'[t] = [req[t] EXCEPT !.alone = @ /\ ~req[t].waits]
      BY <2>2
    <3> QED BY <3>1, <3>2 DEF Requesting
  <2>7. AloneWithManager(r)'
    BY <2>2, <2>4, <2>5, <2>6 DEF AloneWithManager, Loading, Fits, Req, Next1, Agent
  <2>8. Len(req'[r].reply) = 0 /\ Len(Unread(r)') = 0 /\ Len(answer') = 0 /\ mgr'.out = <<>>
    BY <2>2, <2>4 DEF Unread, Flushed
  <2>9. HearsAll(r)'
    BY <2>8 DEF HearsAll
  <2> QED BY <2>7, <2>9
<1>5. CASE UNCHANGED vars
  <2>1. AloneWithManager(r) /\ HearsAll(r)
    BY <1>5 DEF vars, AloneInv
  <2>2. UNCHANGED <<requests, replies, mgr, loading, answer, req>>
    BY <1>5 DEF vars, managerVars
  <2>3. AloneWithManager(r)'
    BY <2>1, <2>2 DEF AloneWithManager, Loading, Req
  <2>4. HearsAll(r)'
    BY <2>1, <2>2 DEF HearsAll, Unread
  <2> QED BY <2>3, <2>4
<1> QED BY <1>1, <1>2, <1>3, <1>4, <1>5 DEF Next

LEMMA AloneHolds == Spec => []AloneInv
  BY InitAloneInv, NextAloneInv, TypeOKHolds, LoadHolds, PTL DEF Spec

(* A requester that has the manager to itself gets the whole answer and no  *)
(* other, and only RESET_ROSTERS is mistaken for a race.                    *)
THEOREM AloneGetsTheAnswerHolds == Spec => AloneGetsTheAnswer
<1>1. ASSUME TypeOK, AloneInv, NEW r \in Requester,
             Receive(r), req[r].alone, Len(answer) < ReplyNumbers
      PROVE  /\ Verdict(r) = "NO_ERROR" => Got(r) = [i \in DOMAIN answer |-> answer[i].reply]
             /\ Verdict(r) \in {"EMPTY_LIST", "NONEXISTENT_ENTRY", "MALFORMED_REQUEST"} =>
                    Verdict(r) = answer[1].err
             /\ Verdict(r) = "MGR_RACE_CONDITION" => req[r].cmd = "RESET_ROSTERS"
  <2> DEFINE k == Len(req[r].reply)
             f == Next1(replies[r])
  <2>1. AloneWithManager(r) /\ HearsAll(r) /\ HasFrame(replies[r])
    BY <1>1 DEF AloneInv, Receive
  <2>2. CASE replies[r].lapped
    BY <2>2 DEF Verdict
  <2>3. CASE ~replies[r].lapped
    <3>1. /\ k \in Nat /\ k + 1 <= Len(answer) /\ f = answer[k + 1] /\ k + 1 \in DOMAIN answer
          /\ \A i \in 1 .. k : req[r].reply[i] = answer[i].reply
          /\ answer \in Seq(Frames) /\ Len(answer) \in Nat
      <4>1. answer \in Seq(Frames) /\ Len(answer) \in Nat /\ DOMAIN answer = 1 .. Len(answer)
        BY <1>1 DEF TypeOK
      <4> QED BY <1>1, <2>1, <2>3, <4>1, NextIsOfAnswer
    <3>2. /\ f.err = "NO_ERROR" => f.original_req = req[r].cmd \/ req[r].cmd = "RESET_ROSTERS"
          /\ f.err # "NO_ERROR" => Len(answer) = 1
          /\ f.err # "MGR_RACE_CONDITION"
          /\ f.numReplies = Len(answer)
      BY <1>1, <2>1, <3>1 DEF AloneWithManager, Fits
    <3>3. CASE Verdict(r) = "NO_ERROR"
      <4>1. ~(k + 1 < Len(answer))
        BY <2>3, <3>2, <3>3 DEF Verdict, None
      <4>2. k + 1 = Len(answer)
        BY <3>1, <4>1
      <4>3. req[r].reply \in Seq(Text) /\ f.reply \in Text
        <5>1. f \in Frames
          BY <3>1
        <5>2. req[r] \in Requesting
          BY <1>1 DEF TypeOK
        <5> HIDE DEF f
        <5> QED BY <5>1, <5>2 DEF Requesting, Frames
      <4>4. /\ Got(r) \in Seq(Text) /\ Len(Got(r)) = k + 1
            /\ \A i \in 1 .. k + 1 : Got(r)[i] = answer[i].reply
        BY <3>1, <4>3 DEF Got
      <4>5. DOMAIN answer = 1 .. k + 1 /\ Got(r) = [i \in 1 .. k + 1 |-> Got(r)[i]]
        BY <3>1, <4>2, <4>4
      <4> QED BY <3>3, <4>4, <4>5
    <3>4. CASE Verdict(r) \in {"EMPTY_LIST", "NONEXISTENT_ENTRY", "MALFORMED_REQUEST"}
      <4>1. f.err # "NO_ERROR" /\ Verdict(r) = f.err
        BY <2>3, <3>4 DEF Verdict, None
      <4>2. k = 0
        BY <3>1, <3>2, <4>1
      <4> QED BY <3>1, <3>4, <4>1, <4>2
    <3>5. CASE Verdict(r) = "MGR_RACE_CONDITION"
      BY <2>3, <3>2, <3>5 DEF Verdict, None
    <3> QED BY <3>3, <3>4, <3>5
  <2> QED BY <2>2, <2>3
<1>2. TypeOK /\ AloneInv /\ [Next]_vars =>
          [\A r \in Requester :
               Receive(r) /\ req[r].alone /\ Len(answer) < ReplyNumbers =>
                   /\ Verdict(r) = "NO_ERROR" =>
                          Got(r) = [i \in DOMAIN answer |-> answer[i].reply]
                   /\ Verdict(r) \in {"EMPTY_LIST", "NONEXISTENT_ENTRY", "MALFORMED_REQUEST"} =>
                          Verdict(r) = answer[1].err
                   /\ Verdict(r) = "MGR_RACE_CONDITION" => req[r].cmd = "RESET_ROSTERS"]_vars
  BY <1>1
<1> QED BY <1>2, TypeOKHolds, AloneHolds, PTL DEF Spec, AloneGetsTheAnswer
=============================================================================
