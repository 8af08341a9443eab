---------------------- MODULE MCEngineDataStateManager ----------------------
(* An instance of EngineDataStateManager for TLC: messages of the three    *)
(* kinds and of an unknown one, of a length that is not looked at, of one  *)
(* that suffices for a basic message only, and of one that suffices.       *)
EXTENDS EngineDataStateManager

MCCommands == {basic, advanced, sensor, 1}
MCLengths == {2, 25, 42}
MCTimes == {1, 2}
MCRpms == {0, 1, 2}
MCExcess == {-1, 0, 1}
=============================================================================
