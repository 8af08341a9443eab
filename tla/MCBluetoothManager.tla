------------------------- MODULE MCBluetoothManager -------------------------
(* Instances of BluetoothManager for TLC. *)
EXTENDS OneCharacteristic

CONSTANTS p1, p2, layoutConfig, engineData
=============================================================================
