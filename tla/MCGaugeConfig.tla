---------------------------- MODULE MCGaugeConfig ----------------------------
(* Instances of GaugeConfig for TLC. *)
EXTENDS GaugeConfig

CONSTANTS rpm, boost

MCOriginals == {<<<<rpm>>, <<boost>>>>, Short}
MCOneGauge == {<<<<rpm>>, << >>>>, Short}
=============================================================================
