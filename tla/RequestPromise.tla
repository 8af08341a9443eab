--------------------------- MODULE RequestPromise ---------------------------
(***************************************************************************)
(* What BluetoothManager promises a caller that writes to a characteristic *)
(* and waits for the closure, with no word on dictionaries, links or       *)
(* devices.  Writes are numbered in the order of the calls.                *)
(*                                                                         *)
(*   issued     writes requested                                           *)
(*   applied    the last write the device has processed; it is done with   *)
(*              all older ones, which it processed or, when they were      *)
(*              dropped with a lost link, will never process               *)
(*   completed  closures that have run: those of writes 1 .. completed     *)
(***************************************************************************)
EXTENDS Integers

CONSTANT MaxWrites    \* bound: writes

VARIABLES issued, applied, completed

vars == <<issued, applied, completed>>

Init == issued = 0 /\ applied = 0 /\ completed = 0

Submit ==
    /\ issued < MaxWrites
    /\ issued' = issued + 1
    /\ UNCHANGED <<applied, completed>>

(* The device gets further, and may answer: closures run one at a time, in *)
(* the order of the calls, once each, and none before the device is done   *)
(* with its write.                                                         *)
Advance ==
    /\ applied' \in applied .. issued
    /\ completed' \in {completed, completed + 1}
    /\ completed' <= applied'
    /\ UNCHANGED issued

Complete == Advance /\ completed' = completed + 1

Next == Submit \/ Advance

Spec == Init /\ [][Next]_vars

(* With a link that holds, every closure runs in the end. *)
Fairness == WF_vars(completed < issued /\ Complete)
=============================================================================
