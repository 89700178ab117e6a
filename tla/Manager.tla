------------------------------ MODULE Manager ------------------------------
(***************************************************************************)
(* The manager (HuboRT/Manager.cpp): a daemon that keeps the rosters of    *)
(* programs and Ach channels as files, one per entry, and the named        *)
(* configurations they can be replaced with; creates and closes the        *)
(* channels; starts, stops and kills the programs; and answers one request *)
(* after the other on a reply channel that all requesters share.           *)
(*                                                                         *)
(* hubocan_set_default_config, the tool, loads a configuration with a      *)
(* manager of its own, whether or not the daemon runs.                     *)
(*                                                                         *)
(* What stands in the file of an entry is left out; the programs, and what *)
(* signals do to them, are in Daemon.                                      *)
(***************************************************************************)
EXTENDS Ach, SequencesExt

CONSTANTS
    Proc,          \* names of programs
    Chan,          \* names of channels
    Config,        \* names of configurations
    Requester,     \* processes that hold a ManagerReq
    ReqDepth,      \* frames the ring of the request channel holds
    ReplyDepth,    \* frames the ring of the reply channel holds
    ReplyNumbers   \* values of numReplies, 256 in the code

Entry  == Proc \cup Chan
Agent  == {"manager", "tool"}
None   == "none"

ASSUME ManagerAssumption ==
    /\ Proc \cap Chan = {} /\ {"default", "last_config"} \subseteq Config
    /\ IsFiniteSet(Proc \cup Chan \cup Config)   \* names have a greatest length
    /\ ReqDepth \in Nat \ {0} /\ ReplyDepth \in Nat \ {0} /\ ReplyNumbers \in Nat \ {0}

VARIABLES
    roster,     \* entries that have a file in the rosters
    configs,    \* the entries of each configuration that has a file
    open,       \* channels that exist
    requests,   \* the request channel, as the manager reads it
    replies,    \* the reply channel, as each requester reads it
    mgr,        \* what the daemon does, and the replies it has yet to put
    loading,    \* how far each agent has come with loading which configuration,
                \* and the files, or entries, left to it where it is
    answer,     \* history: the replies to the latest request, while it counts
    crossed     \* history: whether files changed while another agent was loading

files       == <<roster, configs, open>>
managerVars == <<files, requests, replies, mgr, loading, answer, crossed>>

-----------------------------------------------------------------------------
(* Requests and replies (manager_msg.hpp). *)

Lists    == {"LIST_PROCS", "LIST_LOCKED_PROCS", "LIST_CHANS", "LIST_CONFIGS"}
Plain    == Lists \cup {"RUN_ALL_PROCS", "STOP_ALL_PROCS", "KILL_ALL_PROCS",
                        "CREATE_ALL_ACH_CHANS", "CLOSE_ALL_ACH_CHANS",
                        "RESET_ROSTERS", "START_UP", "SHUT_DOWN"}
OnProc   == {"RUN_PROC", "STOP_PROC", "KILL_PROC",
             "REGISTER_NEW_PROC", "UNREGISTER_OLD_PROC"}
OnChan   == {"CREATE_ACH_CHAN", "CLOSE_ACH_CHAN",
             "REGISTER_NEW_CHAN", "UNREGISTER_OLD_CHAN"}
OnConfig == {"SAVE_CONFIG", "LOAD_CONFIG", "DELETE_CONFIG"}

(* Requests whose details have several components may have too few.         *)
Malformed == "malformed"
InParts   == {"RUN_PROC", "REGISTER_NEW_PROC", "REGISTER_NEW_CHAN"}

Request ==
    [cmd : Plain, arg : {None}] \cup [cmd : OnProc, arg : Proc]
    \cup [cmd : OnChan, arg : Chan] \cup [cmd : OnConfig, arg : Config]
    \cup [cmd : InParts, arg : {Malformed}] \cup [cmd : {"UNKNOWN_REQUEST"}, arg : {None}]

Reply(err, cmd, number, item) ==
    [err |-> err, original_req |-> cmd, numReplies |-> number, reply |-> item]

NoError(cmd) == <<Reply("NO_ERROR", cmd, 1, None)>>
Error(err)   == <<Reply(err, "UNKNOWN_REQUEST", 1, None)>>

(* Mutant: the requester is told one reply less. *)
RelayOneLess(cmd, items) ==
    IF items = <<>> THEN <<Reply("EMPTY_LIST", cmd, 1, None)>>
    ELSE [i \in DOMAIN items |->
             Reply("NO_ERROR", cmd, (Len(items) - 1) % ReplyNumbers, items[i])]

(* _relay_string_array.  The number of replies travels in a uint8_t.        *)
Relay(cmd, items) ==
    IF items = <<>> THEN <<Reply("EMPTY_LIST", cmd, 1, None)>>
    ELSE [i \in DOMAIN items |->
             Reply("NO_ERROR", cmd, Len(items) % ReplyNumbers, items[i])]

-----------------------------------------------------------------------------
(* The daemon takes the oldest request and answers it. *)

Req == Next1(requests)

Takes ==
    /\ mgr.pc = "up" /\ mgr.out = <<>>
    /\ HasFrame(requests)
    /\ requests' = AfterGet(requests)

On(cmds) == Takes /\ ~requests.lapped /\ Req.cmd \in cmds /\ Req.arg # Malformed

Answers(out) == mgr' = [mgr EXCEPT !.out = out] /\ answer' = out

Idle       == [pc |-> "idle", name |-> None, left |-> {}]
Loading(a) == loading[a] # Idle

(* A change of files by one agent while another one is loading.             *)
Touches(a) ==
    crossed' = (crossed \/ \E b \in Agent \ {a} : Loading(b))

(* An Ach result other than ACH_OK is an error even if a frame came with    *)
(* it: the request is dropped.                                              *)
Overrun ==
    /\ Takes /\ requests.lapped
    /\ Answers(Error("ACH_ERROR"))
    /\ UNCHANGED <<files, replies, loading, crossed>>

TooFewParts ==
    /\ Takes /\ ~requests.lapped
    /\ Req.arg = Malformed \/ Req.cmd = "UNKNOWN_REQUEST"
    /\ Answers(Error("MALFORMED_REQUEST"))
    /\ UNCHANGED <<files, replies, loading, crossed>>

(* list_processes, list_locked_processes, list_channels, list_configs.  The  *)
(* programs make and remove their lock files in their own time (Daemon), so *)
(* that any of them may be there whenever the manager looks.                *)
Listed(cmd, locked) ==
    CASE cmd = "LIST_PROCS"        -> roster \cap Proc
      [] cmd = "LIST_LOCKED_PROCS" -> locked
      [] cmd = "LIST_CHANS"        -> roster \cap Chan
      [] cmd = "LIST_CONFIGS"      -> DOMAIN configs

List ==
    /\ On(Lists)
    /\ \E locked \in SUBSET Proc : Answers(Relay(Req.cmd, SetToSeq(Listed(Req.cmd, locked))))
    /\ UNCHANGED <<files, replies, loading, crossed>>

(* run_process and run_all_processes fork children for programs of the      *)
(* roster (and report no error even if the entry is no command).            *)
Existed(name) == name \in roster

Run ==
    /\ On({"RUN_PROC", "RUN_ALL_PROCS"})
    /\ Answers(IF Req.cmd = "RUN_PROC" /\ ~Existed(Req.arg)
               THEN Error("NONEXISTENT_ENTRY") ELSE NoError(Req.cmd))
    /\ UNCHANGED <<files, replies, loading, crossed>>

(* stop_process and kill_process signal programs that have a lock file;     *)
(* kill_process removes it as well.                                         *)
Signal ==
    /\ On({"STOP_PROC", "STOP_ALL_PROCS", "KILL_PROC", "KILL_ALL_PROCS"})
    /\ \E locked \in SUBSET Proc :
           Answers(IF Req.cmd \in OnProc /\ Req.arg \notin locked
                   THEN Error("NONEXISTENT_ENTRY") ELSE NoError(Req.cmd))
    /\ UNCHANGED <<files, replies, loading, crossed>>

(* create_ach_chan: a channel that is not registered is no error, but the   *)
(* text of the reply.                                                       *)
CreateChannel ==
    /\ On({"CREATE_ACH_CHAN"})
    /\ Answers(Relay(Req.cmd, <<IF Req.arg \in roster THEN Req.arg ELSE "REGISTRATION_ERROR">>))
    /\ open' = open \cup ({Req.arg} \cap roster)
    /\ UNCHANGED <<roster, configs, replies, loading, crossed>>

(* Mutant: everything that is registered is taken for a channel. *)
CreateEverything ==
    /\ Answers(Relay(Req.cmd, SetToSeq(roster \cap Chan)))
    /\ open' = open \cup roster
    /\ UNCHANGED <<roster, configs, replies, loading, crossed>>

CreateAll ==
    /\ Answers(Relay(Req.cmd, SetToSeq(roster \cap Chan)))
    /\ open' = open \cup (roster \cap Chan)
    /\ UNCHANGED <<roster, configs, replies, loading, crossed>>

CreateAllChannels == On({"CREATE_ALL_ACH_CHANS"}) /\ CreateAll

(* start_up also runs all programs.                                         *)
StartUp == On({"START_UP"}) /\ CreateAll

CloseChannel ==
    /\ On({"CLOSE_ACH_CHAN"})
    /\ Answers(IF Req.arg \in roster THEN NoError(Req.cmd) ELSE Error("NONEXISTENT_ENTRY"))
    /\ open' = open \ ({Req.arg} \cap roster)
    /\ UNCHANGED <<roster, configs, replies, loading, crossed>>

(* Only channels that are registered are closed.                            *)
CloseAll ==
    /\ Answers(NoError(Req.cmd))
    /\ open' = open \ roster
    /\ UNCHANGED <<roster, configs, replies, loading, crossed>>

CloseAllChannels == On({"CLOSE_ALL_ACH_CHANS"}) /\ CloseAll

(* shut_down also signals all programs.                                     *)
ShutDown == On({"SHUT_DOWN"}) /\ CloseAll

Register ==
    /\ On({"REGISTER_NEW_PROC", "REGISTER_NEW_CHAN"})
    /\ Answers(NoError(Req.cmd))
    /\ roster' = roster \cup {Req.arg}
    /\ Touches("manager")
    /\ UNCHANGED <<configs, open, replies, loading>>

Unregister ==
    /\ On({"UNREGISTER_OLD_PROC", "UNREGISTER_OLD_CHAN"})
    /\ Answers(NoError(Req.cmd))
    /\ roster' = roster \ {Req.arg}
    /\ Touches("manager")
    /\ UNCHANGED <<configs, open, replies, loading>>

Saved(n, entries) ==
    [c \in DOMAIN configs \cup {n} |-> IF c = n THEN entries ELSE configs[c]]

SaveConfig ==
    /\ On({"SAVE_CONFIG"})
    /\ Answers(NoError(Req.cmd))
    /\ configs' = Saved(Req.arg, roster)
    /\ Touches("manager")
    /\ UNCHANGED <<roster, open, replies, loading>>

DeleteConfig ==
    /\ On({"DELETE_CONFIG"})
    /\ Answers(NoError(Req.cmd))
    /\ configs' = Restrict(configs, DOMAIN configs \ {Req.arg})
    /\ Touches("manager")
    /\ UNCHANGED <<roster, open, replies, loading>>

-----------------------------------------------------------------------------
(* load_config, step by step; reset_rosters loads "default". *)

Wanted == IF Req.cmd = "RESET_ROSTERS" THEN "default" ELSE Req.arg

LoadNothing ==
    /\ On({"LOAD_CONFIG", "RESET_ROSTERS"}) /\ Wanted \notin DOMAIN configs
    /\ Answers(Error("NONEXISTENT_ENTRY"))
    /\ UNCHANGED <<files, replies, loading, crossed>>

Begin(a, n) ==
    loading' = [loading EXCEPT ![a] = [pc |-> "open", name |-> n, left |-> {}]]

Load ==
    /\ On({"LOAD_CONFIG", "RESET_ROSTERS"}) /\ Wanted \in DOMAIN configs
    /\ Begin("manager", Wanted)
    /\ mgr' = [mgr EXCEPT !.pc = "loading"]
    /\ UNCHANGED <<files, replies, answer, crossed>>

ToolLoads(n) ==
    /\ n \in DOMAIN configs
    /\ loading["tool"] = Idle
    /\ Begin("tool", n)
    /\ UNCHANGED <<files, requests, replies, mgr, answer, crossed>>

Sent(frames, f) == [r \in Requester |-> Put(frames[r], ReplyDepth, f)]

(* The tool's answer to nobody, like that of Finish below.                  *)
ToolLoadsNothing(n) ==
    /\ n \notin DOMAIN configs
    /\ loading["tool"] = Idle
    /\ replies' = Sent(replies, Error("NONEXISTENT_ENTRY")[1])
    /\ UNCHANGED <<files, requests, mgr, loading, answer, crossed>>

Goes(a, to, left) ==
    loading' = [loading EXCEPT ![a] = [pc |-> to, name |-> @.name, left |-> left]]

(* The agent writes or removes a file, and goes on with those that are left. *)
Changes(a, from, to, left) ==
    /\ loading[a].pc = from
    /\ Goes(a, to, left)
    /\ Touches(a)
    /\ UNCHANGED <<open, requests, mgr, replies, answer>>

(* When none is left it looks which files, or entries, come next.           *)
Looks(a, from, to, next) ==
    /\ loading[a].pc = from /\ loading[a].left = {}
    /\ Goes(a, to, next)
    /\ UNCHANGED <<files, requests, mgr, replies, answer, crossed>>

(* Mutant: the rosters are cleared before they are saved. *)
ClearFirst(a) ==
    /\ Changes(a, "save", "saved", {})
    /\ roster' = {} /\ configs' = Saved("last_config", {})

(* _clear_current_config: the rosters are saved as "last_config" (opening   *)
(* the file empties it) ...                                                 *)
OpenLast(a) ==
    /\ Changes(a, "open", "save", {})
    /\ configs' = Saved("last_config", {})
    /\ UNCHANGED roster
SaveLast(a) ==
    /\ Changes(a, "save", "saved", {})
    /\ configs' = Saved("last_config", roster)
    /\ UNCHANGED roster

(* ... and their files removed, one after the other: those of the programs, *)
(* and then those of the channels.                                          *)
ListProcs(a) == Looks(a, "saved", "procs", roster \cap Proc)
ListChans(a) == Looks(a, "procs", "chans", roster \cap Chan)

Clear(a) ==
    \E at \in {"procs", "chans"}, e \in loading[a].left :
        /\ Changes(a, at, at, loading[a].left \ {e})
        /\ roster' = roster \ {e}
        /\ UNCHANGED configs

Contents(n) == IF n \in DOMAIN configs THEN configs[n] ELSE {}

(* The configuration is read, as its file says by now; the stream reads it  *)
(* at once, though line by line is taken from it, ...                       *)
ReadConfig(a) == Looks(a, "chans", "fill", Contents(loading[a].name))

(* ... and its entries get files, one after the other.                      *)
Fill(a) ==
    \E e \in loading[a].left :
        /\ Changes(a, "fill", "fill", loading[a].left \ {e})
        /\ roster' = roster \cup {e}
        /\ UNCHANGED configs

(* The reply is that of LOAD_CONFIG, also to RESET_ROSTERS.                 *)
Finish(a) ==
    /\ loading[a].pc = "fill" /\ loading[a].left = {}
    /\ loading' = [loading EXCEPT ![a] = Idle]
    /\ IF a = "manager"
       THEN /\ mgr' = [pc |-> "up", out |-> NoError("LOAD_CONFIG")]
            /\ answer' = NoError("LOAD_CONFIG")
            /\ UNCHANGED replies
       ELSE /\ replies' = Sent(replies, NoError("LOAD_CONFIG")[1])
            /\ UNCHANGED <<mgr, answer>>
    /\ UNCHANGED <<files, requests, crossed>>

-----------------------------------------------------------------------------
(* The rest of the daemon's life. *)

PutReply ==
    /\ mgr.out # <<>>
    /\ replies' = Sent(replies, Head(mgr.out))
    /\ mgr' = [mgr EXCEPT !.out = Tail(@)]
    /\ UNCHANGED <<files, requests, loading, answer, crossed>>

Dies ==
    /\ mgr.pc # "down"
    /\ mgr' = [pc |-> "down", out |-> <<>>]
    /\ loading' = [loading EXCEPT !["manager"] = Idle]
    /\ UNCHANGED <<files, requests, replies, answer, crossed>>

(* _initialize flushes the request channel.                                 *)
Starts ==
    /\ mgr.pc = "down"
    /\ mgr' = [pc |-> "up", out |-> <<>>]
    /\ requests' = Flushed
    /\ UNCHANGED <<files, replies, loading, answer, crossed>>

Daemon ==
    \/ Overrun \/ TooFewParts \/ List \/ Run \/ Signal
    \/ CreateChannel \/ CreateAllChannels \/ CloseChannel \/ CloseAllChannels
    \/ StartUp \/ ShutDown
    \/ Register \/ Unregister \/ SaveConfig \/ DeleteConfig \/ LoadNothing \/ Load
    \/ PutReply

Loader(a) ==
    \/ OpenLast(a) \/ SaveLast(a) \/ ListProcs(a) \/ ListChans(a) \/ Clear(a)
    \/ ReadConfig(a) \/ Fill(a) \/ Finish(a)

ManagerNext ==
    \/ Daemon
    \/ \E a \in Agent : Loader(a)
    \/ Dies \/ Starts
=============================================================================
