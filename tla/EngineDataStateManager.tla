----------------------- MODULE EngineDataStateManager -----------------------
(***************************************************************************)
(* Managers/EngineDataStateManager with what it calls and what observes    *)
(* it: GpsManager, which is created by its first use, and                  *)
(* RemoteDatabaseManager, which records a drive.  The app does not start   *)
(* the latter at this commit (AppDelegate); it is modelled as started at   *)
(* any time or never.                                                      *)
(*                                                                         *)
(* All of it runs on the main thread.  Observable calls its observers      *)
(* within send, and an observer that is added is called with the value     *)
(* the Observable holds.                                                   *)
(***************************************************************************)
EXTENDS EngineDataPoint, Sequences, FiniteSetsExt

CONSTANTS
    Commands,     \* first bytes of messages
    Lengths,      \* lengths of messages in bytes
    Times,        \* times, of the device's clock and of the phone's
    Rpms,         \* engine speeds in messages: below RpmModulus
    RpmModulus,   \* 2^16
    Excess,       \* what the bytes behind the rpm field may hold
    MaxMessages,  \* bound: messages
    MaxFixes      \* bound: updates of the location

ASSUME NoneAssumption == None \notin [time : Nat \union {None}, location : Nat \union {None},
                                     values : [Items -> Nat]]
ASSUME MessagesAssumption ==
    /\ Commands \subseteq 0 .. 255 /\ Lengths \subseteq Nat
    /\ Times \subseteq Nat /\ Rpms \subseteq Nat
    /\ RpmModulus \in Nat /\ Excess \subseteq Int
ASSUME BoundsAssumption == MaxMessages \in Nat /\ MaxFixes \in Nat

VARIABLES
    current,        \* the data point observed, or None
    didBeginDrive,
    received,       \* messages handled
    gpsCreated,     \* GpsManager.singleton exists
    timestampArray, \* of GpsManager: the i-th location is known as i
    recorder,       \* RemoteDatabaseManager: "none", "waiting", "recording"
    drives,         \* documents created in the drives collection
    uploads,        \* data points added to the drive: the messages they came with
    trapped         \* the app has stopped at a trap

gpsVars == <<gpsCreated, timestampArray>>
recorderVars == <<recorder, drives, uploads>>
vars == <<current, didBeginDrive, received, gpsVars, recorderVars, trapped>>

Messages == [command : Commands, length : Lengths, time : Times, rpm : Rpms]

Init ==
    /\ current = None /\ didBeginDrive = FALSE /\ received = 0
    /\ gpsCreated = FALSE /\ timestampArray = <<>>
    /\ recorder = "none" /\ drives = 0 /\ uploads = <<>>
    /\ trapped = FALSE

-----------------------------------------------------------------------------
(* findLocationForTime: the newest location that is not later than time.   *)
findLocationForTime(time) ==
    LET older == {i \in DOMAIN timestampArray : timestampArray[i] <= time}
    IN  IF older = {} THEN None ELSE Max(older)

(* didUpdateLocations, at a time of the phone's clock, which may be set. *)
DidUpdateLocations(now) ==
    /\ ~trapped /\ gpsCreated
    /\ Len(timestampArray) < MaxFixes
    /\ timestampArray' = Append(timestampArray, now)
    /\ UNCHANGED <<current, didBeginDrive, received, gpsCreated, recorderVars,
                   trapped>>

(* Mutant: an observer is called with nil too. *)
Replayed_Nil(sent) == <<sent>>

(* What an observer of current that is added now uploads: nil is ignored,  *)
(* the data point that came with message number sent is not.               *)
Replayed(sent) == IF current = None THEN <<>> ELSE <<sent>>

(* The closure on didBeginDrive: createDrive, subscribeToEngineData.       *)
Record ==
    /\ recorder' = "recording"
    /\ drives' = drives + 1

(* Mutant: a drive that has begun is recorded, and then observed as well.  *)
StartRecorder_Twice ==
    /\ ~trapped /\ recorder = "none"
    /\ IF didBeginDrive
         THEN /\ recorder' = "recording" /\ drives' = drives + 2
              /\ uploads' = uploads \o Replayed(received) \o Replayed(received)
         ELSE recorder' = "waiting" /\ UNCHANGED <<drives, uploads>>
    /\ UNCHANGED <<current, didBeginDrive, received, gpsVars, trapped>>

(* RemoteDatabaseManager.init *)
StartRecorder ==
    /\ ~trapped /\ recorder = "none"
    /\ IF didBeginDrive
         THEN Record /\ uploads' = uploads \o Replayed(received)
         ELSE recorder' = "waiting" /\ UNCHANGED <<drives, uploads>>
    /\ UNCHANGED <<current, didBeginDrive, received, gpsVars, trapped>>

Runs(rpm) == rpm > 1

(* The observer of engineData, on a message that can be decoded.  The      *)
(* drive begins before the data point is sent: an observer added by the    *)
(* beginning is called with the data point before, and then with this one. *)
Handle(message, excess) ==
    LET newData  == Decoded(message, received + 1)
        location == IF newData.time = None THEN None ELSE findLocationForTime(newData.time)
        located  == IF location = None THEN newData ELSE addLocation(newData, location)
        begins   == ~didBeginDrive /\ Runs(DecodedRpm(message, RpmModulus, excess))
    IN  /\ gpsCreated' = (gpsCreated \/ newData.time # None)
        /\ didBeginDrive' = (didBeginDrive \/ begins)
        /\ current' = IF current = None THEN located ELSE supercede(current, located)
        /\ received' = received + 1
        /\ IF begins /\ recorder = "waiting"
             THEN Record /\ uploads' = uploads \o Replayed(received) \o <<received'>>
             ELSE /\ uploads' = IF recorder = "recording" THEN Append(uploads, received')
                                ELSE uploads
                  /\ UNCHANGED <<recorder, drives>>
        /\ UNCHANGED <<timestampArray, trapped>>

Receive(message) ==
    /\ ~trapped /\ ~Traps(message)
    /\ received < MaxMessages
    /\ \E excess \in IF message.command = basic THEN Excess ELSE {0} : Handle(message, excess)

(* A message that is cut short stops the app. *)
Trap(message) ==
    /\ ~trapped /\ Traps(message)
    /\ trapped' = TRUE
    /\ UNCHANGED <<current, didBeginDrive, received, gpsVars, recorderVars>>

Next ==
    \/ \E message \in Messages : Receive(message) \/ Trap(message)
    \/ \E now \in Times : DidUpdateLocations(now)
    \/ StartRecorder

Spec == Init /\ [][Next]_vars

-----------------------------------------------------------------------------
DataPoints ==
    [time : Times \union {None}, location : Nat \union {None},
     values : [Items -> 0 .. received]]

(* The types of the state: a data point is only made of messages received, *)
(* and nothing but data points is added to a drive.                        *)
TypeOK ==
    /\ received \in Nat
    /\ current \in DataPoints \union {None}
    /\ timestampArray \in Seq(Times)
    /\ recorder \in {"none", "waiting", "recording"}
    /\ drives \in Nat
    /\ uploads \in Seq(1 .. received)
    /\ {didBeginDrive, gpsCreated, trapped} \subseteq BOOLEAN

(* No data point that is observed has a location, although one is looked   *)
(* up for each: the first message creates GpsManager and finds it empty,   *)
(* and supercede does not take over the location of any later one.         *)
NeverLocated == current # None => current.location = None

(* The drive is created once, when it begins or when the recorder is       *)
(* started later, and from then on every data point is added to it, once   *)
(* and in order, up to the current one.                                    *)
UploadsFollowDrive ==
    /\ drives = (IF recorder = "recording" THEN 1 ELSE 0)
    /\ recorder # "none" => (recorder = "recording" <=> didBeginDrive)
    /\ recorder # "recording" => uploads = <<>>
    /\ recorder = "recording" =>
         /\ uploads # <<>>
         /\ \A i \in DOMAIN uploads : uploads[i] = received - Len(uploads) + i

(* The manager implements the feed that the screens are specified over. *)
latest == IF current = None THEN [i \in Items |-> 0] ELSE current.values
Feed == INSTANCE EngineDataFeed
FollowsFeed == Feed!Spec
=============================================================================
