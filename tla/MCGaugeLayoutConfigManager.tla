--------------------- MODULE MCGaugeLayoutConfigManager ---------------------
(* An instance of GaugeLayoutConfigManager for TLC: two items, of which    *)
(* one has the raw value that constructData writes for "graph enabled".    *)
EXTENDS GaugeLayoutConfigManager

MCItems == {0, 1}
MCOtherBytes == {200}
=============================================================================
