------------------------- MODULE OneCharacteristic -------------------------
(***************************************************************************)
(* BluetoothManager as a caller meets it that uses one characteristic:     *)
(* what RequestPromise and RequestChannel say of it is what it does.       *)
(***************************************************************************)
EXTENDS BluetoothManager

CONSTANT char    \* the characteristic the caller uses

ASSUME CharAssumption == char \in Characteristics

(* The writes of the characteristic, as the caller of write sees them. *)
Promise == INSTANCE RequestPromise WITH
    issued    <- q[char].issued,
    applied   <- q[char].applied,
    completed <- Completed(q[char])

(* BluetoothManager keeps what RequestPromise says, whatever fails: each   *)
(* closure runs once, in order, and not before the device is done with its *)
(* write (it processed it, or never will: it was dropped with a link).     *)
KeepsPromise == Promise!Spec

(* When no link is lost it also keeps the promise of progress, whatever    *)
(* reads and discoveries fail.                                             *)
KeepsFairPromise == [](losses = 0) => Promise!Fairness

(* The characteristic as a screen of the app meets it. *)
Channel == INSTANCE RequestChannel WITH
    q          <- q[char],
    up         <- connectedPeripheral \in ready
                    /\ characteristicMap[char] = connectedPeripheral,
    mapped     <- characteristicMap[char] # None,
    Recognised <- char \in Recognised,
    Notifies   <- char \in Notifying

(* What GaugeConfig assumes of the manager is what the manager does: every *)
(* step of it is, for one characteristic, a step of RequestChannel.        *)
ImplementsChannel == Channel!Spec
=============================================================================
