---------------------- MODULE GaugeLayoutConfigManager ----------------------
(***************************************************************************)
(* Managers/GaugeLayoutConfigManager: the singleton that keeps the gauge   *)
(* layout and translates it to and from the bytes of the layoutConfig      *)
(* characteristic.  The bytes are                                          *)
(*                                                                         *)
(*   command, 0, (gauge, graph enabled, graph time)*, 255, 255, 255,       *)
(*   monitor*                                                              *)
(*                                                                         *)
(* with the raw value of an EngineDataItem for a gauge or a monitor.  The  *)
(* device is external: it keeps the bytes it is sent, and may have been    *)
(* configured by somebody else, with other graph settings or with bytes    *)
(* that are no layout at all.                                              *)
(***************************************************************************)
EXTENDS Integers, Sequences, SequencesExt

CONSTANTS
    Items,       \* raw values of EngineDataItem
    OtherBytes,  \* bytes that are neither a raw value nor the separator
    MaxItems,    \* bound: length of each list
    MaxBytes     \* bound: length of bytes that are no layout

separatorValue == 255
separatorCount == 3
setGaugeConfigStartingByte == 1

Bytes == Items \union OtherBytes \union {separatorValue}

ASSUME ItemsAssumption == Items \subseteq 0 .. 254 /\ OtherBytes \subseteq 0 .. 254

ASSUME BoundsAssumption == MaxItems \in Nat /\ MaxBytes \in Nat

VARIABLES
    gauges, monitors,  \* the lists of the singleton
    content,           \* the bytes the device holds
    stored             \* history: the layout the device was given, or <<>>

vars == <<gauges, monitors, content, stored>>

-----------------------------------------------------------------------------
(* The three bytes of each gauge, one after another. *)
GaugeBytes(gs, settings) ==
    [i \in 1 .. 3 * Len(gs) |-> CASE i % 3 = 1 -> gs[(i + 2) \div 3]
                                  [] i % 3 = 2 -> settings[1]
                                  [] i % 3 = 0 -> settings[2]]

(* constructData: the graph settings of every gauge are written as 1, 30. *)
Encode(gs, ms, settings) ==
    <<setGaugeConfigStartingByte, 0>>
      \o GaugeBytes(gs, settings)
      \o [i \in 1 .. separatorCount |-> separatorValue]
      \o ms

constructData(gs, ms) == Encode(gs, ms, <<1, 30>>)

(* Mutant: any byte but the separator is an item. *)
IsItem_Any(value) == value # separatorValue

(* EngineDataItem(rawValue:) *)
IsItem(value) == value \in Items

(* Mutant: the graph time is not skipped. *)
gaugeWidth_NoTime == 2

(* A gauge and its two graph settings, which are skipped. *)
gaugeWidth == 3

(* The variables of parseResponse's loop, with bytes counted from 1. *)
LoopStart == [byteIndex |-> 3, separatorCounter |-> 0, isInMonitorSection |-> FALSE,
              gauges |-> <<>>, monitors |-> <<>>]

(* A turn of the loop, from s: the third separator in a row opens the      *)
(* monitors.  A value that is no item is skipped, with its settings if it  *)
(* is in the gauges.                                                       *)
Turn(data, s) ==
    LET value == data[s.byteIndex]
        counter == IF s.isInMonitorSection THEN s.separatorCounter
                   ELSE IF value = separatorValue THEN s.separatorCounter + 1 ELSE 0
        inMonitors == s.isInMonitorSection \/ counter = separatorCount
        isGauge == value # separatorValue /\ ~inMonitors
        With(list) == IF IsItem(value) THEN Append(list, value) ELSE list
    IN  [byteIndex |-> s.byteIndex + (IF isGauge THEN gaugeWidth ELSE 1),
         separatorCounter |-> counter,
         isInMonitorSection |-> inMonitors,
         gauges |-> IF isGauge THEN With(s.gauges) ELSE s.gauges,
         monitors |-> IF inMonitors THEN With(s.monitors) ELSE s.monitors]

(* The loop: its variables after n turns, which stay as they are once it   *)
(* has ended.                                                              *)
Turns(data) ==
    LET after[n \in Nat] ==
            IF n = 0 THEN LoopStart
            ELSE LET s == after[n - 1]
                 IN  IF s.byteIndex <= Len(data) THEN Turn(data, s) ELSE s
    IN  after

(* No turn takes less than a byte, so the loop ends within Len(data) turns. *)
Parse(data) ==
    LET end == Turns(data)[Len(data)]
    IN  [gauges |-> end.gauges, monitors |-> end.monitors]

(* parseResponse with its guard: an answer of no more than two bytes       *)
(* leaves the lists of the singleton as they are.                          *)
parseResponse(data, old) == IF Len(data) > 2 THEN Parse(data) ELSE old

-----------------------------------------------------------------------------
Lists == BoundedSeq(Items, MaxItems)

Init ==
    /\ gauges = <<>> /\ monitors = <<>>
    /\ content = <<>>
    /\ stored = <<>>

(* setGauges, and the device keeps what it is sent. *)
setGauges(gs, ms) ==
    /\ gauges' = gs /\ monitors' = ms
    /\ content' = constructData(gs, ms)
    /\ stored' = <<gs, ms>>

(* readGauges and its closure: the caller is given the singleton's lists. *)
readGauges ==
    LET lists == parseResponse(content, [gauges |-> gauges, monitors |-> monitors])
    IN  /\ gauges' = lists.gauges /\ monitors' = lists.monitors
        /\ UNCHANGED <<content, stored>>

(* A device that was not given a layout yet is configured by somebody      *)
(* else: with a layout whose graph settings are any bytes at all, or with  *)
(* bytes that are no layout.                                               *)
Configure ==
    /\ content = <<>>
    /\ \/ \E gs, ms \in Lists, settings \in Bytes \X Bytes :
             content' = Encode(gs, ms, settings) /\ stored' = <<gs, ms>>
       \/ content' \in BoundedSeq(Bytes, MaxBytes) /\ stored' = <<>>
    /\ UNCHANGED <<gauges, monitors>>

Next == \/ \E gs, ms \in Lists : setGauges(gs, ms)
        \/ readGauges
        \/ Configure

Spec == Init /\ [][Next]_vars

-----------------------------------------------------------------------------
(* The types of the state: whatever bytes the device answers with, only    *)
(* items get into the lists.                                               *)
TypeOK ==
    /\ gauges \in Seq(Items) /\ monitors \in Seq(Items)
    /\ content \in Seq(0 .. 255)
    /\ stored \in {<<>>} \union (Seq(Items) \X Seq(Items))

(* What is read back is what was saved: a layout survives constructData,   *)
(* the device and parseResponse, lists of any length included, and graph   *)
(* settings are never taken for an item or for the separator.              *)
ReadsBackWhatIsStored ==
    [][readGauges /\ stored # <<>> => <<gauges', monitors'>> = stored]_vars
=============================================================================
