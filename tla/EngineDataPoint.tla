-------------------------- MODULE EngineDataPoint --------------------------
(***************************************************************************)
(* Models/EngineDataPoint and the items of Models/EngineDataItem: what a   *)
(* message of the engineData characteristic carries, and how a data point  *)
(* supersedes another.                                                     *)
(*                                                                         *)
(* The value of an item is abstracted to the number of the message that    *)
(* reported it, 0 for nil.  Messages are numbered from 1 in the order in   *)
(* which they arrive.                                                      *)
(***************************************************************************)
EXTENDS Integers

CONSTANT None   \* nil

(* The messages by their first byte: 218, 240, 222. *)
BasicItems ==
    {"boost", "waterTemp", "knock", "injectorDuty", "leadingIgnition",
     "trailingIgnition", "speed", "airTemp", "batteryVoltage", "rpm"}

AdvancedItems ==
    {"rpm", "intakePressure", "mapSensorVoltage", "tpsVoltage",
     "primaryInjectorPulse", "fuelCorrection", "leadingIgnition",
     "trailingIgnition", "fuelTemp", "mopPosition", "boostTP", "boostWG",
     "waterTemp", "intakeTemp", "knock", "batteryVoltage", "speed", "iscvDuty",
     "o2Voltage", "secondaryInjectorPulse"}

Switches ==
    {"starterSwitch", "airConditioningSwitch", "powerSteeringPressureSwitch",
     "neutralSwitch", "clutchSwitch", "stopSwitch", "catalyzerThermoSensorSwitch",
     "electricalLoadSwitch", "exhaustTempWarningIndicator", "fuelPumpOperation",
     "fuelPumpControl", "airPumpRelay", "portAirControl", "chargeControl",
     "turboControl", "pressureRegulatorControl"}

SensorItems ==
    {"mapSensorVoltage", "tpsFullRangeVoltage", "tpsNarrowRangeVoltage",
     "mopPositionSensorVoltage", "waterTempSensorVoltage",
     "intakeAirTempSensorVoltage", "fuelTempSensorVoltage", "o2SensorVoltage"}
    \union Switches

Items == BasicItems \union AdvancedItems \union SensorItems

(* shouldDisplayChart *)
ChartItems == Items \ Switches

basic == 218
advanced == 240
sensor == 222

Carried(command) ==
    CASE command = basic    -> BasicItems
      [] command = advanced -> AdvancedItems
      [] command = sensor   -> SensorItems
      [] OTHER              -> {}

(* The end of the last slice that is read. *)
Required(command) ==
    CASE command = basic    -> 25
      [] command = advanced -> 41
      [] command = sensor   -> 42
      [] OTHER              -> 0

(* The guard on the length of a message. *)
Sufficient(message) == message.length > 2

IsReport(message) == Sufficient(message) /\ Carried(message.command) # {}

(* A slice that reaches behind the end of the data traps. *)
Traps(message) == IsReport(message) /\ message.length < Required(message.command)

(* init(fromData:) of the n-th message *)
Decoded(message, n) ==
    [time     |-> IF IsReport(message) THEN message.time ELSE None,
     location |-> None,
     values   |-> [i \in Items |->
                     IF IsReport(message) /\ i \in Carried(message.command) THEN n ELSE 0]]

(* The number in the rpm field.  A basic message's is read as an Int,      *)
(* eight bytes, from a slice of two: excess is what the six bytes behind   *)
(* the slice hold, and they are the high ones.                             *)
DecodedRpm(message, rpmModulus, excess) ==
    IF ~IsReport(message) \/ "rpm" \notin Carried(message.command) THEN 0
    ELSE IF message.command = basic THEN message.rpm + rpmModulus * excess
    ELSE message.rpm

addLocation(point, location) == [point EXCEPT !.location = location]

(* Mutants: the new data point replaces the old one; the location of the   *)
(* new data point is taken over.                                           *)
supercede_Replace(old, new) == [new EXCEPT !.location = None]

supercede_Located(old, new) ==
    [new EXCEPT !.values = [i \in Items |-> IF @[i] # 0 THEN @[i] ELSE old.values[i]]]

(* Every item that the new data point has not is the old one's; the time   *)
(* is the new one's, and the location is not set.                          *)
supercede(old, new) ==
    [time     |-> new.time,
     location |-> None,
     values   |-> [i \in Items |-> IF new.values[i] # 0 THEN new.values[i] ELSE old.values[i]]]

(* subscript(key:): the item whose value is returned for a key. *)
subscript(key) == IF key = "fuelPumpControl" THEN "fuelCorrection" ELSE key
=============================================================================
