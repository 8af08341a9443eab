---------------------------- MODULE MCThresholds ----------------------------
(* An instance of Thresholds for TLC: one type of threshold is enough, as  *)
(* the editor's two views share nothing.                                   *)
EXTENDS Thresholds

CONSTANT warning

(* Away from the limits of the stepper. *)
MCStored == [t \in Types |-> [enabled |-> TRUE, greaterThan |-> TRUE, value |-> 1]]
=============================================================================
