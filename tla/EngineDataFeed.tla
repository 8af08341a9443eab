--------------------------- MODULE EngineDataFeed ---------------------------
(***************************************************************************)
(* What the observers of EngineDataStateManager.current may rely on: every *)
(* message moves the items it carries to itself and leaves the others as   *)
(* they were.  The screens that show engine data are specified over this   *)
(* module, and EngineDataStateManager implements it.                       *)
(***************************************************************************)
EXTENDS EngineDataPoint

CONSTANT MaxMessages   \* bound: messages

VARIABLES
    received,  \* messages received
    latest     \* per item, the last message that carried it, or 0

Nothing == [i \in Items |-> 0]

Init == received = 0 /\ latest = Nothing

Report(items) ==
    /\ received < MaxMessages
    /\ received' = received + 1
    /\ latest' = [i \in Items |-> IF i \in items THEN received' ELSE latest[i]]

CarriedSets == {BasicItems, AdvancedItems, SensorItems, {}}

Next == \E items \in CarriedSets : Report(items)

Spec == Init /\ [][Next]_<<received, latest>>
=============================================================================
