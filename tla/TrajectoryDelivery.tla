------------------------- MODULE TrajectoryDelivery -------------------------
(***************************************************************************)
(* What sending a trajectory promises, without chunks, rings, feedback,    *)
(* attempts or timeouts.                                                   *)
(*                                                                         *)
(* An operator calls; the call gets a number of its own and returns a      *)
(* result.  The player is handed trajectories, each at most once, and      *)
(* plays the one it was handed last, or rejects it, or has stopped:        *)
(*   - a trajectory that is handed over is one that somebody has begun to  *)
(*     send, whether or not the call has returned by then;                 *)
(*   - as long as no call began during another, it is of a later call than *)
(*     any that was handed over before, and it is never a mixture of two;  *)
(*   - as long as, besides, no chunk was put unasked, a call that returns  *)
(*     OKAY has handed its trajectory over.                                *)
(* Once stopped, or replaced, a trajectory is not played again.            *)
(***************************************************************************)
EXTENDS Integers

CONSTANTS
    Operator,     \* who can send
    Result,       \* what a call returns
    Nothing       \* what it has returned before it does

VARIABLES
    calls,        \* the last call of each operator
    begun,        \* how many calls have begun
    delivered,    \* the calls whose trajectories were handed over
    playing,      \* the call whose trajectory is played
    overlapped,   \* whether a call began during another
    astray        \* whether a chunk was put unasked

vars == <<calls, begun, delivered, playing, overlapped, astray>>

None    == 0
Mixture == -1

Begin(o) ==
    /\ ~calls[o].busy
    /\ begun' = begun + 1
    /\ calls' = [calls EXCEPT ![o] = [busy |-> TRUE, send |-> begun + 1, result |-> Nothing]]
    /\ overlapped' = (overlapped \/ \E p \in Operator : calls[p].busy)
    /\ UNCHANGED <<delivered, playing, astray>>

Return(o, r) ==
    /\ calls[o].busy
    /\ r = "OKAY" /\ ~overlapped /\ ~astray => calls[o].send \in delivered
    /\ calls' = [calls EXCEPT ![o] = [busy |-> FALSE, send |-> @.send, result |-> r]]
    /\ UNCHANGED <<begun, delivered, playing, overlapped, astray>>

Stray ==
    /\ \E o \in Operator : calls[o].busy
    /\ astray' = TRUE
    /\ UNCHANGED <<calls, begun, delivered, playing, overlapped>>

Deliver(s) ==
    /\ playing = None
    /\ s \notin delivered
    /\ ~overlapped => \A d \in delivered : d < s
    /\ delivered' = delivered \cup {s}
    /\ playing' \in {s, None}
    /\ UNCHANGED <<calls, begun, overlapped, astray>>

PlayMixture ==
    /\ playing = None
    /\ overlapped
    /\ playing' = Mixture
    /\ UNCHANGED <<calls, begun, delivered, overlapped, astray>>

Stop ==
    /\ playing' = None
    /\ UNCHANGED <<calls, begun, delivered, overlapped, astray>>

Init ==
    /\ calls = [o \in Operator |-> [busy |-> FALSE, send |-> None, result |-> Nothing]]
    /\ begun = 0 /\ delivered = {} /\ playing = None
    /\ overlapped = FALSE /\ astray = FALSE

Next ==
    \/ Stop \/ Stray \/ PlayMixture
    \/ \E o \in Operator : Begin(o) \/ \E r \in Result : Return(o, r)
    \/ \E s \in 1 .. begun : Deliver(s)

Spec == Init /\ [][Next]_vars
=============================================================================
