----------------------------- MODULE ManagerReq -----------------------------
(***************************************************************************)
(* The processes that ask the manager (HuboRT/ManagerReq.cpp), composed    *)
(* with it: _send_request puts a request and collects the replies.  No     *)
(* message says whose it is, and a reply may come after its requester has  *)
(* given up.  The timeout is left out: it may expire whenever there is     *)
(* nothing to read.                                                        *)
(***************************************************************************)
EXTENDS Manager

CONSTANTS
    MaxRequests,   \* bound: requests that are sent, and loads by the tool
    Rosters,       \* rosters there may be at first
    Shipped        \* the configurations there are at first

ASSUME RequestAssumption ==
    /\ MaxRequests \in Nat
    /\ Rosters \subseteq SUBSET Entry
    /\ DOMAIN Shipped \subseteq Config /\ Range(Shipped) \subseteq SUBSET Entry

VARIABLES
    req,        \* the requesters
    sent        \* requests sent and loads begun so far

vars == <<managerVars, req, sent>>

Command == {q.cmd : q \in Request}
Failure == {"EMPTY_LIST", "NONEXISTENT_ENTRY", "MALFORMED_REQUEST", "ACH_ERROR",
            "MGR_RACE_CONDITION", "MGR_TIMEOUT"}

Text   == Entry \cup Config \cup {None, "REGISTRATION_ERROR"}
Frames == [err : {"NO_ERROR"} \cup Failure, original_req : Command,
           numReplies : 0 .. ReplyNumbers, reply : Text]

(* `alone`: nothing but this request has been in progress since it was sent *)
Requesting == [cmd : Command, alone : BOOLEAN, waits : BOOLEAN,
               reply : Seq(Text)]
Resting    == [cmd |-> "UNKNOWN_REQUEST", alone |-> FALSE, waits |-> FALSE, reply |-> <<>>]

Init ==
    /\ roster \in Rosters /\ configs = Shipped
    /\ open = {}
    /\ requests = Flushed
    /\ replies = [r \in Requester |-> Flushed]
    /\ mgr = [pc |-> "up", out |-> <<>>]
    /\ loading = [a \in Agent |-> Idle]
    /\ answer = <<>> /\ crossed = FALSE
    /\ req = [r \in Requester |-> Resting]
    /\ sent = 0

Quiet ==
    /\ mgr = [pc |-> "up", out |-> <<>>] /\ ~HasFrame(requests)
    /\ \A a \in Agent : ~Loading(a)
    /\ \A r \in Requester : ~req[r].waits

(* _send_request, up to the first ach_get.                                  *)
Send(r, q) ==
    /\ ~req[r].waits /\ sent < MaxRequests
    /\ sent' = sent + 1
    /\ replies' = [replies EXCEPT ![r] = Flushed]
    /\ requests' = Put(requests, ReqDepth, q)
    /\ req' = [s \in Requester |->
                  IF s = r THEN [cmd |-> q.cmd, alone |-> Quiet, waits |-> TRUE,
                                 reply |-> <<>>]
                  ELSE [req[s] EXCEPT !.alone = @ /\ ~req[s].waits]]
    /\ answer' = <<>>
    /\ UNCHANGED <<files, mgr, loading, crossed>>

(* What it makes of a reply.  The count it awaits is that of the latest.    *)
Verdict(r) ==
    LET f == Next1(replies[r])
    IN  IF replies[r].lapped THEN "ACH_ERROR"
        ELSE IF f.err # "NO_ERROR" THEN f.err
        ELSE IF f.original_req # req[r].cmd THEN "MGR_RACE_CONDITION"
        ELSE IF Len(req[r].reply) + 1 < f.numReplies THEN None
        ELSE "NO_ERROR"

Got(r) == Append(req[r].reply, Next1(replies[r]).reply)

(* It goes on for the next reply, or returns the verdict.                   *)
Receive(r) ==
    /\ req[r].waits /\ HasFrame(replies[r])
    /\ replies' = [replies EXCEPT ![r] = AfterGet(@)]
    /\ req' = [req EXCEPT ![r] = IF Verdict(r) = None THEN [@ EXCEPT !.reply = Got(r)]
                                 ELSE Resting]
    /\ answer' = IF Verdict(r) = None THEN answer ELSE <<>>
    /\ UNCHANGED <<files, requests, mgr, loading, crossed, sent>>

TimeOut(r) ==
    /\ req[r].waits /\ ~HasFrame(replies[r])
    /\ req' = [req EXCEPT ![r] = Resting]
    /\ answer' = <<>>
    /\ UNCHANGED <<files, requests, replies, mgr, loading, crossed, sent>>

(* The tool puts a reply that nobody asked for.                             *)
ToolDisturbs ==
    /\ \E n \in Config : ToolLoads(n) \/ ToolLoadsNothing(n)
    /\ sent < MaxRequests /\ sent' = sent + 1
    /\ req' = [r \in Requester |-> [req[r] EXCEPT !.alone = FALSE]]

Next ==
    \/ ManagerNext /\ UNCHANGED <<req, sent>>
    \/ ToolDisturbs
    \/ \E r \in Requester : Receive(r) \/ TimeOut(r) \/ \E q \in Request : Send(r, q)

Spec == Init /\ [][Next]_vars

-----------------------------------------------------------------------------
(* Properties. *)

(* Types of the files, the channels, the manager and the requesters.        *)
TypeOK ==
    /\ roster \subseteq Entry /\ open \subseteq Chan
    /\ DOMAIN configs \subseteq Config /\ Range(configs) \subseteq SUBSET Entry
    /\ requests \in ChannelOf(Request, ReqDepth)
    /\ replies \in [Requester -> ChannelOf(Frames, ReplyDepth)]
    /\ mgr \in [pc : {"up", "loading", "down"}, out : Seq(Frames)]
    /\ loading \in [Agent -> [pc : {"idle", "open", "save", "saved", "procs", "chans", "fill"},
                              name : Config \cup {None}, left : SUBSET Entry]]
    /\ answer \in Seq(Frames) /\ crossed \in BOOLEAN
    /\ req \in [Requester -> Requesting]
    /\ sent \in 0 .. MaxRequests

(* What is in the rosters is in last_config before loading a configuration  *)
(* takes it away, and stays there wherever the manager dies, unless it is   *)
(* unregistered, last_config is saved or deleted by request, or the tool    *)
(* loads another at that moment.  It stays until the next load begins: that *)
(* saves the rosters as they are by then, so that what a load which was cut *)
(* short had taken away is lost for good.                                   *)
Kept == roster \cup Contents("last_config")

LoadingLosesNothing ==
    [][~crossed => \A e \in Kept \ Kept' :
           \/ Unregister /\ Req.arg = e
           \/ (SaveConfig \/ DeleteConfig) /\ Req.arg = "last_config"
           \/ \E a \in Agent : OpenLast(a)]_vars

(* A requester that has the manager to itself gets the manager's answer as  *)
(* a whole, unless a ring overflows, the manager is too slow, or there are  *)
(* too many replies for the field that counts them; and only RESET_ROSTERS, *)
(* whose reply names another request, is mistaken for a race.               *)
AloneGetsTheAnswer ==
    [][\A r \in Requester :
           Receive(r) /\ req[r].alone /\ Len(answer) < ReplyNumbers =>
               /\ Verdict(r) = "NO_ERROR" =>
                      Got(r) = [i \in DOMAIN answer |-> answer[i].reply]
               /\ Verdict(r) \in {"EMPTY_LIST", "NONEXISTENT_ENTRY", "MALFORMED_REQUEST"} =>
                      Verdict(r) = answer[1].err
               /\ Verdict(r) = "MGR_RACE_CONDITION" => req[r].cmd = "RESET_ROSTERS"]_vars
=============================================================================
