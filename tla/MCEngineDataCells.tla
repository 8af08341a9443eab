-------------------------- MODULE MCEngineDataCells --------------------------
(* Instances of EngineDataCells for TLC: two gauges with a chart that       *)
(* different messages carry, a third, and the switch it is mistaken for.    *)
EXTENDS EngineDataCells, TLC

CONSTANTS c1, c2

MCGauges == {"rpm", "boost", "fuelCorrection", "fuelPumpControl"}
MCSomeGauges == {"boost", "fuelPumpControl", "fuelCorrection"}
CellSymmetry == Permutations(Cells)
=============================================================================
