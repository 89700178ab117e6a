-------------------------------- MODULE Ach --------------------------------
(***************************************************************************)
(* An Ach channel, seen by ONE reader.  Ach is the shared-memory message   *)
(* library every HuboCan process talks through; it is external to the      *)
(* repository and modelled from how the repository calls it.               *)
(*                                                                         *)
(* A channel is a ring of Depth frames.  A writer never blocks: once the   *)
(* ring is full ach_put overwrites the oldest frame.  A reader has its own *)
(* cursor, so what the reader can still get is the sequence of frames it   *)
(* has not read, oldest first, plus a flag telling that frames it never    *)
(* read were overwritten ("lapped").  The next ach_get of a lapped reader  *)
(* delivers the oldest surviving frame with ACH_MISSED_FRAME instead of    *)
(* ACH_OK, and clears the flag.                                            *)
(***************************************************************************)
EXTENDS Naturals, Sequences

(* A reader that has just called ach_flush: nothing unread, nothing missed. *)
Flushed == [unread |-> <<>>, lapped |-> FALSE]

(* ach_put of frame f into the ring of `depth` frames. *)
Put(ch, depth, f) ==
    IF Len(ch.unread) < depth
    THEN [ch EXCEPT !.unread = Append(@, f)]
    ELSE [unread |-> Append(Tail(ch.unread), f), lapped |-> TRUE]

(* Whether ach_get finds a frame (otherwise ACH_STALE_FRAMES or ACH_TIMEOUT). *)
HasFrame(ch) == ch.unread # <<>>

(* What ach_get without ACH_O_LAST delivers, and the reader afterwards. *)
Next1(ch)  == Head(ch.unread)
AfterGet(ch) == [unread |-> Tail(ch.unread), lapped |-> FALSE]

(* What ach_get with ACH_O_LAST delivers; every older frame is skipped. *)
Newest(ch) == ch.unread[Len(ch.unread)]

(* The frames the reader can still get. *)
FramesIn(ch) == {ch.unread[i] : i \in DOMAIN ch.unread}

(* Every channel state of a reader whose writers put frames of F. *)
ChannelOf(F, depth) ==
    [unread : {s \in Seq(F) : Len(s) <= depth}, lapped : BOOLEAN]
=============================================================================
