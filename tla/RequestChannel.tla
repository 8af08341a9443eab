--------------------------- MODULE RequestChannel ---------------------------
(***************************************************************************)
(* One characteristic of BluetoothManager as the rest of the app meets it: *)
(* the requests of RequestQueues over a link that comes and goes.  The     *)
(* screens that read and write a characteristic are specified over this    *)
(* module, and BluetoothManager implements it.                             *)
(*                                                                         *)
(*   q       the requests, a record of RequestQueues                       *)
(*   up      the characteristic is usable: requests are delivered          *)
(*   mapped  it has been discovered at some time: requests are registered  *)
(***************************************************************************)
EXTENDS RequestQueues

CONSTANTS Recognised,    \* BOOLEAN: the printed UUID is one of the app's
          Notifies       \* BOOLEAN: the characteristic notifies

VARIABLES q, up, mapped

vars == <<q, up, mapped>>

Init == q = EmptyQueues /\ up = FALSE /\ mapped = FALSE

(* The device is found and discovered, for the first time or again. *)
Connect ==
    /\ up' = TRUE /\ mapped' = TRUE
    /\ q' \in {q, [q EXCEPT !.value = NoValue]}

(* The link is lost, or was lost unnoticed before the device could be      *)
(* discovered again.                                                       *)
Disconnect ==
    /\ up' = FALSE
    /\ \E v \in ReportableValues(q) : q' = DropOps(q, v)
    /\ UNCHANGED mapped

(* A request for a characteristic that is down may be lost silently. *)
Handed == IF up THEN {TRUE} ELSE BOOLEAN

Write ==
    /\ mapped
    /\ \E handed \in Handed : q' = SubmitWrite(q, handed)
    /\ UNCHANGED <<up, mapped>>

Read ==
    /\ mapped /\ ~ServedFromCache(q, Notifies)
    /\ \E handed \in Handed : q' = SubmitRead(q, handed)
    /\ UNCHANGED <<up, mapped>>

AnswerWrite ==
    /\ WriteIsNext(q)
    /\ q' = WriteAnswered(q, Recognised)
    /\ UNCHANGED <<up, mapped>>

AnswerRead ==
    /\ ReadIsNext(q)
    /\ q' = ReadAnswered(q)
    /\ UNCHANGED <<up, mapped>>

FailRead ==
    /\ ReadIsNext(q)
    /\ q' = ReadFailed(q)
    /\ UNCHANGED <<up, mapped>>

Notify ==
    /\ Notifies /\ up
    /\ \E v \in ReportableValues(q) : q' = Notified(q, v)
    /\ UNCHANGED <<up, mapped>>

Next == \/ Connect \/ Disconnect \/ Write \/ Read
        \/ AnswerWrite \/ AnswerRead \/ FailRead \/ Notify

Spec == Init /\ [][Next]_vars
=============================================================================
