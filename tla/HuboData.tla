------------------------------ MODULE HuboData ------------------------------
(***************************************************************************)
(* HuboData<DataClass> (HuboState/HuboData.hpp): an array of sensor values *)
(* with a header, which is put on and got from one Ach channel as a whole. *)
(*                                                                         *)
(* The raw data is [time, comp]: the header's time and the components.     *)
(* header.array_size is Len(comp); the memory behind it is what initialize *)
(* allocated, but every size the code computes it takes from the header.   *)
(* _mapping sends a name to its position in _names, so it is not kept.     *)
(* A frame on the channel is such raw data, too.                           *)
(***************************************************************************)
EXTENDS Naturals, Sequences

(* The constructor: no raw data, which counts as no components.             *)
Uninitialized == [init |-> FALSE, names |-> <<>>, time |-> 0, comp |-> <<>>]

Repeats(names) ==
    \E i, j \in DOMAIN names : i # j /\ names[i] = names[j]

(* Mutant: the data is not zeroed.                                          *)
InitializeUnzeroed(d, names, zero, opens) ==
    [init |-> opens, names |-> names, time |-> 0,
     comp |-> [i \in DOMAIN names |-> "garbage"]]

(* initialize: fresh zeroed data.  A repeated name leaves no names at all,  *)
(* and then the channel is not opened again and _initialized stays.         *)
Initialize(d, names, zero, opens) ==
    [init  |-> IF Repeats(names) THEN d.init ELSE opens,
     names |-> IF Repeats(names) THEN <<>> ELSE names,
     time  |-> 0,
     comp  |-> [i \in DOMAIN names |-> zero]]

(* set_data_component: out of bounds it does nothing.                       *)
SetComponent(comp, i, value) ==
    IF i \in DOMAIN comp THEN [comp EXCEPT ![i] = value] ELSE comp

(* The positions operator[](name) may return the component of; none for a   *)
(* name it does not know, for which it returns a dummy.                     *)
Positions(d, name) == {i \in DOMAIN d.names : d.names[i] = name}

(* Mutant: receive_data does not wait, and takes a stale frame for a new one. *)
ReceiveResultStale(d, frame, fresh) ==
    IF ~d.init \/ frame.time = 0 \/ Len(frame.comp) > Len(d.comp) THEN "ACH_ERROR"
    ELSE "OKAY"

(* What receive_data returns, for the newest frame of the channel and       *)
(* whether this reader has not had it yet.  Ach refuses a frame that is     *)
(* longer than the buffer (ACH_OVERFLOW) and leaves it unread.              *)
ReceiveResult(d, frame, fresh) ==
    IF ~d.init THEN "ACH_ERROR"
    ELSE IF ~fresh THEN "TIMEOUT"
    ELSE IF Len(frame.comp) > Len(d.comp) THEN "ACH_ERROR"
    ELSE "OKAY"

(* Mutant: of a frame that is too long, what fits is taken.                 *)
ReceivedCut(d, frame, fresh) ==
    CASE ReceiveResult(d, frame, fresh) = "OKAY" ->
             [d EXCEPT !.time = frame.time, !.comp = frame.comp]
      [] d.init /\ fresh /\ Len(frame.comp) > Len(d.comp) ->
             [d EXCEPT !.comp = SubSeq(frame.comp, 1, Len(d.comp))]
      [] OTHER -> d

(* receive_data: the frame overwrites the header, array_size included.      *)
Received(d, frame, fresh) ==
    IF ReceiveResult(d, frame, fresh) = "OKAY"
    THEN [d EXCEPT !.time = frame.time, !.comp = frame.comp]
    ELSE d

(* send_data: the whole array, under the time stamp it is given.            *)
Stamped(d, time) == [time |-> time, comp |-> d.comp]
=============================================================================
