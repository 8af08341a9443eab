-------------------------- MODULE EngineDataProofs --------------------------
(***************************************************************************)
(* Theorems about EngineDataStateManager, for every set of messages and of *)
(* times, and any number of messages and of updates of the location.       *)
(***************************************************************************)
EXTENDS EngineDataStateManager, SequenceTheorems, TLAPS

(* What NeverLocated and UploadsFollowDrive rest on: GpsManager has no     *)
(* location before it exists, and it exists only after a message; there is *)
(* a data point from the first message on; a drive begins with a message.  *)
FirstMessage ==
    /\ gpsCreated => received # 0
    /\ ~gpsCreated => timestampArray = <<>>
    /\ current = None <=> received = 0
    /\ didBeginDrive => received # 0

(* The types, apart from those of the data point. *)
Types ==
    /\ received \in Nat
    /\ timestampArray \in Seq(Times)
    /\ recorder \in {"none", "waiting", "recording"}
    /\ drives \in Nat
    /\ uploads \in Seq(1 .. received)
    /\ didBeginDrive \in BOOLEAN /\ gpsCreated \in BOOLEAN /\ trapped \in BOOLEAN

PointType == current \in DataPoints \union {None}

IndInv == Types /\ PointType /\ FirstMessage /\ NeverLocated /\ UploadsFollowDrive

-----------------------------------------------------------------------------
(* Adding what came with the next message keeps a drive gapless. *)
LEMMA AppendFollows ==
    ASSUME NEW s, NEW n \in Nat, s \in Seq(1 .. n), s # <<>>,
           \A i \in DOMAIN s : s[i] = n - Len(s) + i
    PROVE  LET t == Append(s, n + 1)
           IN  /\ t \in Seq(1 .. n + 1)
               /\ t # <<>>
               /\ \A i \in DOMAIN t : t[i] = (n + 1) - Len(t) + i
<1> DEFINE t == Append(s, n + 1)
<1>1. s \in Seq(1 .. n + 1)
  <2>1. 1 .. n \subseteq 1 .. n + 1
    OBVIOUS
  <2>2. QED BY <2>1
<1>2. t \in Seq(1 .. n + 1) /\ Len(t) = Len(s) + 1 /\ t # <<>>
  BY <1>1
<1>3. ASSUME NEW i \in DOMAIN t PROVE t[i] = (n + 1) - Len(t) + i
  <2>1. i \in 1 .. Len(s) + 1 /\ Len(s) \in Nat
    BY <1>2
  <2>2. CASE i = Len(s) + 1
    BY <1>2, <2>1, <2>2
  <2>3. CASE i # Len(s) + 1
    <3>1. i \in DOMAIN s
      BY <2>1, <2>3
    <3>2. t[i] = s[i]
      BY <3>1, <2>1, <2>3, <1>1
    <3>3. s[i] = n - Len(s) + i
      BY <3>1
    <3>4. QED BY <3>2, <3>3, <1>2, <2>1
  <2>4. QED BY <2>2, <2>3
<1>4. QED BY <1>2, <1>3

(* A new data point has a value of its message or none. *)
LEMMA DecodedType ==
    ASSUME NEW message \in Messages, NEW n \in Nat \ {0}
    PROVE  /\ Decoded(message, n).time \in Times \union {None}
           /\ Decoded(message, n).location = None
           /\ Decoded(message, n).values \in [Items -> 0 .. n]
           /\ Decoded(message, n) = [time |-> Decoded(message, n).time, location |-> None,
                                     values |-> Decoded(message, n).values]
BY DEF Decoded, Messages

(* A data point is not nil. *)
LEMMA PointIsSomething ==
    ASSUME NEW r \in Nat,
           NEW p \in [time : Times \union {None}, location : Nat \union {None},
                      values : [Items -> 0 .. r]]
    PROVE  p # None
<1>1. Times \subseteq Nat
  BY MessagesAssumption
<1>2. 0 .. r \subseteq Nat
  OBVIOUS
<1>3. p \in [time : Nat \union {None}, location : Nat \union {None}, values : [Items -> Nat]]
  BY <1>1, <1>2
<1>4. QED BY <1>3, NoneAssumption

(* Before the first message the invariant holds. *)
THEOREM InitInv == Init => IndInv
<1> SUFFICES ASSUME Init PROVE IndInv
  OBVIOUS
<1>1. Types
  <2>1. /\ received \in Nat /\ drives \in Nat
        /\ timestampArray \in Seq(Times) /\ uploads \in Seq(1 .. received)
        /\ recorder \in {"none", "waiting", "recording"}
    BY DEF Init
  <2>2. /\ didBeginDrive \in BOOLEAN /\ gpsCreated \in BOOLEAN /\ trapped \in BOOLEAN
    BY Zenon DEF Init
  <2>3. QED BY <2>1, <2>2 DEF Types
<1>2. PointType /\ FirstMessage /\ NeverLocated
  BY DEF Init, PointType, FirstMessage, NeverLocated
<1>3. UploadsFollowDrive
  BY DEF Init, UploadsFollowDrive
<1>4. QED BY <1>1, <1>2, <1>3 DEF IndInv

(* The first message finds no location: the data point it makes has none.  *)
LEMMA HandlePoint ==
    ASSUME IndInv, NEW message \in Messages, NEW excess, Handle(message, excess)
    PROVE  PointType' /\ NeverLocated' /\ current' # None
<1> DEFINE new == Decoded(message, received + 1)
           location == IF new.time = None THEN None ELSE findLocationForTime(new.time)
           located == IF location = None THEN new ELSE addLocation(new, location)
<1>1. received' = received + 1 /\ received \in Nat /\ received + 1 \in Nat \ {0}
  BY DEF IndInv, Types, Handle
<1>2. /\ new.time \in Times \union {None}
      /\ new.values \in [Items -> 0 .. received + 1]
      /\ new = [time |-> new.time, location |-> None, values |-> new.values]
      /\ new.location = None
  BY <1>1, DecodedType
<1>3. current' = IF current = None THEN located ELSE supercede(current, located)
  BY DEF Handle
<1> HIDE DEF new
<1>4. CASE current = None
  <2>1. timestampArray = <<>>
    BY <1>4 DEF IndInv, FirstMessage
  <2>2. location = None
    BY <2>1 DEF findLocationForTime
  <2>3. current' = new
    BY <1>3, <1>4, <2>2
  <2>4. new \in [time : Times \union {None}, location : Nat \union {None},
                 values : [Items -> 0 .. received']]
    <3>1. [time |-> new.time, location |-> None, values |-> new.values]
            \in [time : Times \union {None}, location : Nat \union {None},
                 values : [Items -> 0 .. received']]
      BY <1>1, <1>2
    <3>2. QED BY <3>1, <1>2, Zenon
  <2>5. current' \in DataPoints' /\ current'.location = None
    BY <2>3, <2>4, <1>2 DEF DataPoints
  <2>6. QED BY <2>5, <1>1, PointIsSomething DEF PointType, NeverLocated, DataPoints
<1>5. CASE current # None
  <2>1. current \in DataPoints
    BY <1>5 DEF IndInv, PointType
  <2>2. located.time = new.time /\ located.values = new.values
    <3>1. CASE location = None
      BY <3>1
    <3>2. CASE location # None
      <4>1. located = addLocation(new, location)
        BY <3>2
      <4>2. located = [time |-> new.time, location |-> location, values |-> new.values]
        BY <4>1, <1>2 DEF addLocation
      <4>3. QED BY <4>2
    <3>3. QED BY <3>1, <3>2
  <2> HIDE DEF located
  <2>3. current' = [time |-> new.time, location |-> None,
                    values |-> [i \in Items |-> IF new.values[i] # 0 THEN new.values[i]
                                                ELSE current.values[i]]]
    BY <1>3, <1>5, <2>2 DEF supercede
  <2>4. current.values \in [Items -> 0 .. received + 1]
    BY <2>1, <1>1 DEF DataPoints
  <2>5. [i \in Items |-> IF new.values[i] # 0 THEN new.values[i] ELSE current.values[i]]
          \in [Items -> 0 .. received + 1]
    BY <2>4, <1>2
  <2>6. current' \in DataPoints' /\ current'.location = None
    BY <2>3, <2>5, <1>1, <1>2 DEF DataPoints
  <2>7. QED BY <2>6, <1>1, PointIsSomething DEF PointType, NeverLocated, DataPoints
<1>6. QED BY <1>4, <1>5

(* A message adds its data point to the drive, and the one before it if    *)
(* the drive begins.                                                       *)
LEMMA HandleUploads ==
    ASSUME IndInv, NEW message \in Messages, NEW excess, Handle(message, excess)
    PROVE  uploads' \in Seq(1 .. received') /\ UploadsFollowDrive'
           /\ recorder' \in {"none", "waiting", "recording"} /\ drives' \in Nat
<1> DEFINE begins == ~didBeginDrive /\ Runs(DecodedRpm(message, RpmModulus, excess))
<1>1. /\ received' = received + 1 /\ received \in Nat
      /\ uploads \in Seq(1 .. received) /\ drives \in Nat
      /\ didBeginDrive \in BOOLEAN
      /\ recorder \in {"none", "waiting", "recording"}
      /\ current = None <=> received = 0
  BY DEF IndInv, Types, FirstMessage, Handle
<1>2. didBeginDrive' = (didBeginDrive \/ begins)
  BY DEF Handle
<1>3. /\ drives = (IF recorder = "recording" THEN 1 ELSE 0)
      /\ recorder # "none" => (recorder = "recording" <=> didBeginDrive)
      /\ recorder # "recording" => uploads = <<>>
      /\ recorder = "recording" =>
           /\ uploads # <<>>
           /\ \A i \in DOMAIN uploads : uploads[i] = received - Len(uploads) + i
  BY DEF IndInv, UploadsFollowDrive
<1>4. CASE begins /\ recorder = "waiting"
  <2>1. /\ recorder' = "recording" /\ drives' = 1 /\ didBeginDrive' = TRUE
        /\ uploads' = uploads \o Replayed(received) \o <<received + 1>>
    <3>1. Record /\ uploads' = uploads \o Replayed(received) \o <<received'>>
      BY <1>4, Zenon DEF Handle
    <3>2. didBeginDrive' = TRUE
      BY <1>2, <1>4, Zenon
    <3>3. QED BY <1>1, <1>3, <1>4, <3>1, <3>2 DEF Record
  <2>2. uploads = <<>>
    BY <1>3, <1>4
  <2>3. CASE received = 0
    <3>1. uploads' = <<1>>
      BY <2>1, <2>2, <2>3, <1>1 DEF Replayed
    <3>2. QED BY <3>1, <2>1, <2>3, <1>1 DEF UploadsFollowDrive
  <2>4. CASE received # 0
    <3>1. Replayed(received) = <<received>>
      BY <2>4, <1>1 DEF Replayed
    <3>2. <<>> \o <<received>> = <<received>>
      OBVIOUS
    <3>3. <<received>> \in Seq(1 .. received') /\ <<received'>> \in Seq(1 .. received')
      BY <1>1, <2>4
    <3>4. /\ uploads' = <<received>> \o <<received'>>
          /\ uploads' \in Seq(1 .. received') /\ Len(uploads') = 2
          /\ uploads'[1] = received /\ uploads'[2] = received + 1
      BY <1>1, <2>1, <2>2, <3>1, <3>2, <3>3, ConcatProperties
    <3>5. UploadsFollowDrive'
      BY <3>4, <2>1, <1>1 DEF UploadsFollowDrive
    <3>6. QED BY <3>4, <3>5, <2>1
  <2>5. QED BY <2>3, <2>4
<1>5. CASE ~(begins /\ recorder = "waiting") /\ recorder = "recording"
  <2>1. /\ recorder' = "recording" /\ drives' = drives
        /\ uploads' = Append(uploads, received + 1)
    BY <1>1, <1>5 DEF Handle, Record
  <2>2. didBeginDrive' = TRUE
    BY <1>2, <1>3, <1>5
  <2>3. /\ uploads' \in Seq(1 .. received + 1)
        /\ uploads' # <<>>
        /\ \A i \in DOMAIN uploads' : uploads'[i] = (received + 1) - Len(uploads') + i
    BY <1>1, <1>3, <1>5, <2>1, AppendFollows
  <2>4. QED BY <1>1, <1>3, <1>5, <2>1, <2>2, <2>3 DEF UploadsFollowDrive
<1>6. CASE ~(begins /\ recorder = "waiting") /\ recorder # "recording"
  <2>1. recorder' = recorder /\ drives' = drives /\ uploads' = uploads
    BY <1>6 DEF Handle
  <2>2. uploads' = <<>> /\ drives' = 0
    BY <1>3, <1>6, <2>1
  <2>3. recorder # "none" => didBeginDrive' = FALSE
    BY <1>1, <1>2, <1>3, <1>6
  <2>4. QED BY <1>1, <1>6, <2>1, <2>2, <2>3 DEF UploadsFollowDrive
<1>7. QED BY <1>4, <1>5, <1>6

(* A message that is handled preserves the invariant. *)
LEMMA HandleInv ==
    ASSUME IndInv, NEW message \in Messages, NEW excess, Handle(message, excess)
    PROVE  IndInv'
<1>1. PointType' /\ NeverLocated' /\ current' # None
  BY HandlePoint
<1>2. /\ uploads' \in Seq(1 .. received') /\ UploadsFollowDrive'
      /\ recorder' \in {"none", "waiting", "recording"} /\ drives' \in Nat
  BY HandleUploads
<1>3. Types'
  BY <1>2 DEF IndInv, Types, Handle
<1>4. FirstMessage'
  <2>1. received' \in Nat \ {0} /\ timestampArray' = timestampArray
    BY DEF IndInv, Types, Handle
  <2>2. (~gpsCreated)' => ~gpsCreated
    BY DEF Handle
  <2>3. QED BY <1>1, <2>1, <2>2 DEF IndInv, FirstMessage
<1>5. QED BY <1>1, <1>2, <1>3, <1>4 DEF IndInv

(* An update of the location adds to the locations only. *)
LEMMA FixInv ==
    ASSUME IndInv, NEW now \in Times, DidUpdateLocations(now)
    PROVE  IndInv'
<1>1. timestampArray' \in Seq(Times) /\ gpsCreated = TRUE
  BY DEF IndInv, Types, DidUpdateLocations
<1>2. Types' /\ FirstMessage'
  BY <1>1 DEF IndInv, Types, FirstMessage, DidUpdateLocations, recorderVars
<1>3. PointType' /\ NeverLocated' /\ UploadsFollowDrive'
  BY DEF IndInv, PointType, NeverLocated, UploadsFollowDrive, DataPoints,
         DidUpdateLocations, recorderVars
<1>4. QED BY <1>2, <1>3 DEF IndInv

(* A recorder that is started waits for the drive, or records one that has *)
(* begun from the current data point on.                                   *)
LEMMA StartInv ==
    ASSUME IndInv, StartRecorder
    PROVE  IndInv'
<1>1. PointType' /\ NeverLocated' /\ FirstMessage'
  BY DEF IndInv, PointType, NeverLocated, FirstMessage, DataPoints, StartRecorder, gpsVars
<1>2. /\ received' = received /\ received \in Nat /\ didBeginDrive' = didBeginDrive
      /\ didBeginDrive \in BOOLEAN
      /\ uploads = <<>> /\ drives = 0
  BY DEF IndInv, Types, UploadsFollowDrive, StartRecorder
<1>3. CASE didBeginDrive
  <2>1. received # 0 /\ Replayed(received) = <<received>>
    BY <1>3 DEF IndInv, FirstMessage, Replayed
  <2>2. <<received>> \in Seq(1 .. received) /\ <<>> \o <<received>> = <<received>>
    BY <1>2, <2>1
  <2>3. recorder' = "recording" /\ drives' = 1 /\ uploads' = <<received>>
    BY <1>2, <1>3, <2>1, <2>2 DEF StartRecorder, Record
  <2>4. QED BY <1>2, <1>3, <2>1, <2>2, <2>3, <1>1
          DEF IndInv, Types, UploadsFollowDrive, StartRecorder, gpsVars
<1>4. CASE ~didBeginDrive
  <2>1. recorder' = "waiting" /\ drives' = 0 /\ uploads' = <<>>
    BY <1>2, <1>4 DEF StartRecorder
  <2>2. QED BY <1>2, <1>4, <2>1, <1>1
          DEF IndInv, Types, UploadsFollowDrive, StartRecorder, gpsVars
<1>5. QED BY <1>3, <1>4

(* Every step preserves the invariant. *)
THEOREM NextInv == IndInv /\ [Next]_vars => IndInv'
<1> SUFFICES ASSUME IndInv, [Next]_vars PROVE IndInv'
  OBVIOUS
<1>1. ASSUME NEW message \in Messages, Receive(message) PROVE IndInv'
  <2>1. PICK excess : Handle(message, excess)
    BY <1>1 DEF Receive
  <2>2. QED BY <2>1, HandleInv
<1>2. ASSUME NEW message \in Messages, Trap(message) PROVE IndInv'
  BY <1>2 DEF Trap, IndInv, Types, PointType, DataPoints, FirstMessage, NeverLocated,
              UploadsFollowDrive, gpsVars, recorderVars
<1>3. ASSUME NEW now \in Times, DidUpdateLocations(now) PROVE IndInv'
  BY <1>3, FixInv
<1>4. CASE StartRecorder
  BY <1>4, StartInv
<1>5. CASE UNCHANGED vars
  BY <1>5 DEF vars, IndInv, Types, PointType, DataPoints, FirstMessage, NeverLocated,
              UploadsFollowDrive, gpsVars, recorderVars
<1>6. QED BY <1>1, <1>2, <1>3, <1>4, <1>5 DEF Next

(* The invariant holds in every reachable state. *)
THEOREM Invariance == Spec => []IndInv
<1>1. Init => IndInv
  BY InitInv
<1>2. IndInv /\ [Next]_vars => IndInv'
  BY NextInv
<1>3. QED BY <1>1, <1>2, PTL DEF Spec

(* Every reachable state is well typed. *)
THEOREM TypeCorrect == Spec => []TypeOK
<1>1. IndInv => TypeOK
  BY DEF IndInv, Types, PointType, TypeOK
<1>2. QED BY <1>1, Invariance, PTL

(* No observer of the current data point is ever given a location, however *)
(* many locations the phone has reported and whatever the messages are.    *)
THEOREM NoLocationShown == Spec => []NeverLocated
<1>1. IndInv => NeverLocated
  BY DEF IndInv
<1>2. QED BY <1>1, Invariance, PTL

(* A drive is recorded once and without a gap, whenever the recorder is    *)
(* started.                                                                *)
THEOREM DriveIsRecorded == Spec => []UploadsFollowDrive
<1>1. IndInv => UploadsFollowDrive
  BY DEF IndInv
<1>2. QED BY <1>1, Invariance, PTL

-----------------------------------------------------------------------------
(* The items of the feed are those of the manager. *)
LEMMA SameItems ==
    /\ Feed!Items = Items
    /\ \A message : Carried(message.command) \in Feed!CarriedSets
<1>1. /\ Feed!BasicItems = BasicItems /\ Feed!AdvancedItems = AdvancedItems
      /\ Feed!SensorItems = SensorItems
  BY DEF Feed!BasicItems, BasicItems, Feed!AdvancedItems, AdvancedItems,
         Feed!SensorItems, SensorItems, Feed!Switches, Switches
<1>2. QED BY <1>1, Zenon DEF Feed!Items, Items, Feed!CarriedSets, Carried

(* A message is a step of the feed with the items that it carries. *)
LEMMA ReceiveReports ==
    ASSUME IndInv, NEW message \in Messages, Receive(message)
    PROVE  Feed!Next
<1> DEFINE items == IF IsReport(message) THEN Carried(message.command) ELSE {}
           new == Decoded(message, received + 1)
<1>1. PICK excess : Handle(message, excess)
  BY DEF Receive
<1>2. received \in Nat /\ received < MaxMessages /\ received' = received + 1
  BY <1>1 DEF IndInv, Types, Receive, Handle
<1>3. new.values = [i \in Items |-> IF i \in items THEN received + 1 ELSE 0]
  <2>1. new.values = [i \in Items |-> IF IsReport(message) /\ i \in Carried(message.command)
                                     THEN received + 1 ELSE 0]
    BY DEF Decoded
  <2>2. QED BY <2>1
<1>4. latest' = [i \in Items |-> IF i \in items THEN received + 1 ELSE latest[i]]
  <2>1. current' # None
    BY <1>1, HandlePoint
  <2>2. latest' = current'.values
    BY <2>1 DEF latest
  <2> HIDE DEF items
  <2>3. CASE current = None
    <3>1. current'.values = new.values
      BY <1>1, <2>3 DEF Handle, addLocation, Decoded
    <3>2. latest = [i \in Items |-> 0]
      BY <2>3 DEF latest
    <3>3. QED BY <2>2, <3>1, <3>2, <1>3
  <2>4. CASE current # None
    <3>1. current'.values = [i \in Items |-> IF new.values[i] # 0 THEN new.values[i]
                                             ELSE current.values[i]]
      BY <1>1, <2>4 DEF Handle, addLocation, Decoded, supercede
    <3>2. latest = current.values
      BY <2>4 DEF latest
    <3>3. QED BY <2>2, <3>1, <3>2, <1>2, <1>3
  <2>5. QED BY <2>3, <2>4
<1>5. items \in Feed!CarriedSets
  BY SameItems DEF Feed!CarriedSets
<1>6. Feed!Report(items)
  BY <1>2, <1>4, SameItems DEF Feed!Report
<1>7. QED BY <1>5, <1>6 DEF Feed!Next

(* The manager implements the feed: an observer sees every item move to    *)
(* the messages that carry it, and stay as it is at all others.            *)
THEOREM Refinement == Spec => FollowsFeed
<1>1. Init => Feed!Init
  BY SameItems DEF Init, Feed!Init, Feed!Nothing, latest
<1>2. IndInv /\ [Next]_vars => [Feed!Next]_<<received, latest>>
  <2> SUFFICES ASSUME IndInv, [Next]_vars PROVE Feed!Next \/ UNCHANGED <<received, latest>>
    OBVIOUS
  <2>1. ASSUME NEW message \in Messages, Receive(message) PROVE Feed!Next
    BY <2>1, ReceiveReports
  <2>2. ASSUME NEW message \in Messages, Trap(message) PROVE UNCHANGED <<received, latest>>
    BY <2>2 DEF Trap, latest
  <2>3. ASSUME NEW now \in Times, DidUpdateLocations(now)
        PROVE  UNCHANGED <<received, latest>>
    BY <2>3 DEF DidUpdateLocations, latest
  <2>4. CASE StartRecorder
    BY <2>4 DEF StartRecorder, latest
  <2>5. CASE UNCHANGED vars
    BY <2>5 DEF vars, latest
  <2>6. QED BY <2>1, <2>2, <2>3, <2>4, <2>5 DEF Next
<1>3. QED BY <1>1, <1>2, Invariance, PTL DEF Spec, FollowsFeed, Feed!Spec
=============================================================================
