----------------------- MODULE BluetoothManagerProofs -----------------------
(***************************************************************************)
(* Proofs about BluetoothManager: its types, the safety properties of its  *)
(* requests, and that for each characteristic it implements RequestPromise *)
(* and RequestChannel, for any set of devices and characteristics and any  *)
(* bounds.                                                                 *)
(***************************************************************************)
EXTENDS OneCharacteristic, RequestQueuesProofs

-----------------------------------------------------------------------------
(* Type correctness. *)

(* What can become of a request is a Boolean. *)
LEMMA MayBeHandedType ==
    ASSUME NEW c \in Characteristics, NEW handed \in MayBeHanded(c)
    PROVE  handed \in BOOLEAN
BY DEF MayBeHanded

(* Losing every outstanding request keeps the records well typed. *)
LEMMA OpsDroppedType ==
    ASSUME TypeOK, OpsDropped(q, q')
    PROVE  q' \in [Characteristics -> Requests(MaxWrites)]
<1>1. PICK v \in [Characteristics -> 0 .. MaxWrites] :
          q' = [c \in Characteristics |-> DropOps(q[c], v[c])]
  BY DEF OpsDropped
<1>2. \A c \in Characteristics : DropOps(q[c], v[c]) \in Requests(MaxWrites)
  BY BoundsAssumption, DropOpsType DEF TypeOK
<1>. QED BY <1>1, <1>2

(* The initial state is well typed. *)
LEMMA TypeInit == Init => TypeOK
<1>. SUFFICES ASSUME Init PROVE TypeOK
  OBVIOUS
<1>1. q \in [Characteristics -> Requests(MaxWrites)]
  BY BoundsAssumption, EmptyQueuesType DEF Init
<1>2. losses \in 0 .. MaxLosses /\ errors \in 0 .. MaxErrors
  BY BoundsAssumption DEF Init
<1>3. /\ connectedPeripheral \in Peripherals \union {None}
      /\ characteristicMap \in [Characteristics -> Peripherals \union {None}]
      /\ link \in [Peripherals -> LinkStates]
  BY DEF Init, LinkStates
<1>4. /\ state \in BluetoothState
      /\ poweredOn \in BOOLEAN /\ scanning \in BOOLEAN
      /\ found \subseteq Peripherals /\ ready \subseteq Peripherals
  BY DEF Init, BluetoothState
<1>5. /\ listeners \in [Characteristics -> Seq(0 .. MaxWrites \union {NoValue})]
      /\ \A c \in Characteristics : Len(listeners[c]) <= MaxListeners
  BY BoundsAssumption DEF Init
<1>. QED BY <1>1, <1>2, <1>3, <1>4, <1>5 DEF TypeOK

(* The device that shutdown() turns off is lost. *)
LEMMA ShutdownIsLoss ==
    ASSUME TypeOK, Shutdown
    PROVE  \E p \in Peripherals : LinkLost(p)
BY DEF TypeOK, Shutdown

(* Every step of the system is one of these. *)
LEMMA Steps ==
    ASSUME TypeOK, [Next]_vars
    PROVE  \/ UNCHANGED vars \/ PoweredOn \/ PoweredOff
           \/ \E p \in Peripherals :
                 \/ Advertise(p) \/ DidDiscover(p) \/ DidConnect(p) \/ LinkLost(p)
                 \/ DidDiscoverServices(p) \/ DidDiscoverCharacteristics(p)
                 \/ DiscoveryFailed(p)
           \/ \E c \in Characteristics :
                 \/ Write(c) \/ Read(c) \/ Subscribe(c)
                 \/ DidWriteValue(c) \/ DidReadValue(c) \/ DidFailToRead(c)
                 \/ DidNotify(c)
BY ShutdownIsLoss DEF Next

(* Calling the listeners of a characteristic with a number keeps their type. *)
LEMMA HearType ==
    ASSUME TypeOK, NEW c \in Characteristics, NEW v \in 0 .. MaxWrites, Hear(c, v)
    PROVE  /\ listeners' \in [Characteristics -> Seq(0 .. MaxWrites \union {NoValue})]
           /\ \A d \in Characteristics : Len(listeners'[d]) <= MaxListeners
<1>. DEFINE T   == 0 .. MaxWrites \union {NoValue}
            old == listeners[c]
            new == [i \in DOMAIN old |-> v]
<1>1. listeners \in [Characteristics -> Seq(T)] /\ old \in Seq(T) /\ Len(old) <= MaxListeners
  BY DEF TypeOK
<1>2. DOMAIN old = 1 .. Len(old) /\ Len(old) \in Nat
  BY <1>1, LenProperties
<1>3. new \in [1 .. Len(old) -> T]
  BY <1>2
<1>4. listeners' = [listeners EXCEPT ![c] = new]
  BY DEF Hear
<1>5. \A d \in Characteristics : Len(listeners[d]) <= MaxListeners
  BY DEF TypeOK
<1>. HIDE DEF new
<1>6. new \in Seq(T) /\ Len(new) = Len(old)
  BY <1>2, <1>3, SeqDef, LenProperties
<1>. HIDE DEF T
<1>7. listeners' \in [Characteristics -> Seq(T)]
  BY <1>1, <1>4, <1>6
<1>8. \A d \in Characteristics : Len(listeners'[d]) <= MaxListeners
  BY <1>1, <1>4, <1>5, <1>6
<1>. QED BY <1>7, <1>8 DEF T

(* One more listener, which was called with nothing, keeps the types. *)
LEMMA SubscribeType ==
    ASSUME TypeOK, NEW c \in Characteristics, Subscribe(c)
    PROVE  /\ listeners' \in [Characteristics -> Seq(0 .. MaxWrites \union {NoValue})]
           /\ \A d \in Characteristics : Len(listeners'[d]) <= MaxListeners
<1>. DEFINE T   == 0 .. MaxWrites \union {NoValue}
            old == listeners[c]
            new == Append(old, NoValue)
<1>1. listeners \in [Characteristics -> Seq(T)] /\ old \in Seq(T)
  BY DEF TypeOK
<1>2. NoValue \in T
  OBVIOUS
<1>3. new \in Seq(T) /\ Len(new) = Len(old) + 1 /\ Len(old) \in Nat
  BY <1>1, <1>2, AppendFacts
<1>4. listeners' = [listeners EXCEPT ![c] = new] /\ Len(old) < MaxListeners
  BY DEF Subscribe
<1>5. \A d \in Characteristics : Len(listeners[d]) <= MaxListeners
  BY DEF TypeOK
<1>. HIDE DEF new, T
<1>6. listeners' \in [Characteristics -> Seq(T)]
  BY <1>1, <1>3, <1>4
<1>7. \A d \in Characteristics : Len(listeners'[d]) <= MaxListeners
  BY <1>1, <1>3, <1>4, <1>5, BoundsAssumption
<1>. QED BY <1>6, <1>7 DEF T

(* A request, and the answer to one, are well typed. *)
LEMMA TypeRequests ==
    ASSUME TypeOK, NEW c \in Characteristics,
           Write(c) \/ Read(c) \/ DidWriteValue(c) \/ DidReadValue(c)
             \/ DidFailToRead(c) \/ DidNotify(c)
    PROVE  TypeOK'
<1>. DEFINE n == MaxWrites
<1>1. n \in Nat /\ q[c] \in Requests(n)
  BY BoundsAssumption DEF TypeOK
<1>2. SUFFICES \E r \in Requests(n) : q' = [q EXCEPT ![c] = r]
  <2>. SUFFICES ASSUME NEW r \in Requests(n), q' = [q EXCEPT ![c] = r]
                PROVE  TypeOK'
    BY <1>2
  <2>1. q' \in [Characteristics -> Requests(n)]
    BY DEF TypeOK
  <2>2. /\ UNCHANGED <<connectedPeripheral, characteristicMap, state, radio>>
        /\ losses' = losses
    BY DEF Write, Read, DidWriteValue, DidReadValue, DidFailToRead, DidNotify, app, history
  <2>3. errors' \in 0 .. MaxErrors
    BY BoundsAssumption
    DEF TypeOK, Write, Read, DidWriteValue, DidReadValue, DidFailToRead, DidNotify, history
  <2>4. /\ listeners' \in [Characteristics -> Seq(0 .. MaxWrites \union {NoValue})]
        /\ \A d \in Characteristics : Len(listeners'[d]) <= MaxListeners
    <3>1. CASE listeners' = listeners
      BY <3>1 DEF TypeOK
    <3>2. CASE DidReadValue(c)
      <4>1. Hear(c, Head(q[c].readOps)) /\ Head(q[c].readOps) \in 0 .. n
        BY <1>1, <3>2, ReadFailedType DEF DidReadValue, ReadIsNext
      <4>. QED BY <4>1, HearType
    <3>3. CASE DidNotify(c)
      <4>1. PICK v \in ReportableValues(q[c]) : Hear(c, v)
        BY <3>3 DEF DidNotify
      <4>2. v \in 0 .. n
        BY <1>1, ReportableType
      <4>. QED BY <4>1, <4>2, HearType
    <3>. QED BY <3>1, <3>2, <3>3 DEF Write, Read, DidWriteValue, DidFailToRead, app
  <2>. QED BY <2>1, <2>2, <2>3, <2>4 DEF TypeOK, radio
<1>3. CASE Write(c)
  <2>1. PICK handed \in BOOLEAN : q' = [q EXCEPT ![c] = SubmitWrite(q[c], handed)]
    BY <1>3, MayBeHandedType DEF Write
  <2>2. q[c].issued < n
    BY <1>3 DEF Write
  <2>. QED BY <1>1, <2>1, <2>2, SubmitWriteType
<1>4. CASE Read(c)
  <2>1. PICK handed \in BOOLEAN : q' = [q EXCEPT ![c] = SubmitRead(q[c], handed)]
    BY <1>4, MayBeHandedType DEF Read
  <2>. QED BY <1>1, <2>1, SubmitReadType
<1>5. CASE DidWriteValue(c)
  <2>1. q' = [q EXCEPT ![c] = WriteAnswered(q[c], c \in Recognised)]
    BY <1>5 DEF DidWriteValue
  <2>2. q[c].writeOps # <<>> /\ (c \in Recognised) \in BOOLEAN
    BY <1>5 DEF DidWriteValue, WriteIsNext
  <2>. QED BY <1>1, <2>1, <2>2, WriteAnsweredType
<1>6. CASE DidReadValue(c)
  <2>1. q' = [q EXCEPT ![c] = ReadAnswered(q[c])] /\ q[c].readOps # <<>>
    BY <1>6 DEF DidReadValue, ReadIsNext
  <2>. QED BY <1>1, <2>1, ReadAnsweredType
<1>7. CASE DidFailToRead(c)
  <2>1. q' = [q EXCEPT ![c] = ReadFailed(q[c])] /\ q[c].readOps # <<>>
    BY <1>7 DEF DidFailToRead, ReadIsNext
  <2>. QED BY <1>1, <2>1, ReadFailedType
<1>8. CASE DidNotify(c)
  <2>1. PICK v \in ReportableValues(q[c]) : q' = [q EXCEPT ![c] = Notified(q[c], v)]
    BY <1>8 DEF DidNotify
  <2>2. v \in 0 .. n
    BY <1>1, ReportableType
  <2>. QED BY <1>1, <2>1, <2>2, HandleUpdateType DEF Notified
<1>. QED BY <1>3, <1>4, <1>5, <1>6, <1>7, <1>8

(* A step of a device, or of the radio, is well typed. *)
LEMMA TypeRadio ==
    ASSUME TypeOK,
           \/ PoweredOn \/ PoweredOff
           \/ \E p \in Peripherals :
                 \/ Advertise(p) \/ DidDiscover(p) \/ DidConnect(p) \/ LinkLost(p)
                 \/ DidDiscoverServices(p) \/ DidDiscoverCharacteristics(p)
                 \/ DiscoveryFailed(p)
    PROVE  TypeOK'
<1>. USE DEF TypeOK, BluetoothState, LinkStates, app, radio, history
<1>1. CASE PoweredOn
  BY <1>1 DEF PoweredOn
<1>2. CASE PoweredOff
  <2>1. q' \in [Characteristics -> Requests(MaxWrites)]
    BY <1>2, OpsDroppedType DEF PoweredOff
  <2>2. link' \in [Peripherals -> LinkStates]
    BY <1>2 DEF PoweredOff
  <2>3. losses' \in 0 .. MaxLosses
    BY <1>2, BoundsAssumption DEF PoweredOff
  <2>. QED BY <1>2, <2>1, <2>2, <2>3 DEF PoweredOff
<1>3. ASSUME NEW p \in Peripherals, Advertise(p) PROVE TypeOK'
  BY <1>3 DEF Advertise
<1>4. ASSUME NEW p \in Peripherals, DidDiscover(p) PROVE TypeOK'
  BY <1>4 DEF DidDiscover
<1>5. ASSUME NEW p \in Peripherals, DidConnect(p) PROVE TypeOK'
  <2>1. link' \in [Peripherals -> LinkStates]
    BY <1>5 DEF DidConnect
  <2>. QED BY <1>5, <2>1 DEF DidConnect
<1>6. ASSUME NEW p \in Peripherals, LinkLost(p) PROVE TypeOK'
  <2>1. q' \in [Characteristics -> Requests(MaxWrites)]
    BY <1>6, OpsDroppedType DEF LinkLost
  <2>2. link' \in [Peripherals -> LinkStates] /\ ready' \subseteq Peripherals
    BY <1>6 DEF LinkLost
  <2>3. losses' \in 0 .. MaxLosses
    BY <1>6, BoundsAssumption DEF LinkLost
  <2>. QED BY <1>6, <2>1, <2>2, <2>3 DEF LinkLost
<1>7. ASSUME NEW p \in Peripherals, DidDiscoverServices(p) PROVE TypeOK'
  BY <1>7 DEF DidDiscoverServices
<1>8. ASSUME NEW p \in Peripherals, DidDiscoverCharacteristics(p) PROVE TypeOK'
  <2>1. \A c \in Characteristics :
            [q[c] EXCEPT !.value = NoValue] \in Requests(MaxWrites)
    BY DEF Requests
  <2>2. q' \in [Characteristics -> Requests(MaxWrites)]
    BY <1>8, <2>1 DEF DidDiscoverCharacteristics
  <2>. QED BY <1>8, <2>2 DEF DidDiscoverCharacteristics
<1>9. ASSUME NEW p \in Peripherals, DiscoveryFailed(p) PROVE TypeOK'
  BY <1>9, BoundsAssumption DEF DiscoveryFailed
<1>. QED BY <1>1, <1>2, <1>3, <1>4, <1>5, <1>6, <1>7, <1>8, <1>9

(* Every step is well typed. *)
LEMMA TypeNext == TypeOK /\ [Next]_vars => TypeOK'
<1>. SUFFICES ASSUME TypeOK, [Next]_vars PROVE TypeOK'
  OBVIOUS
<1>1. CASE UNCHANGED vars
  BY <1>1 DEF TypeOK, vars, app, radio, history
<1>2. ASSUME NEW c \in Characteristics, Subscribe(c) PROVE TypeOK'
  <2>1. UNCHANGED <<connectedPeripheral, characteristicMap, state, q, radio, history>>
    BY <1>2 DEF Subscribe
  <2>. QED BY <1>2, <2>1, SubscribeType DEF TypeOK, radio, history
<1>. QED BY <1>1, <1>2, Steps, TypeRequests, TypeRadio

(* BluetoothManager, CoreBluetooth and the devices never leave their       *)
(* types; in particular the manager sends three of the eight states it     *)
(* declares, and no bound is exceeded.                                     *)
THEOREM TypeCorrect == Spec => []TypeOK
BY TypeInit, TypeNext, PTL DEF Spec
-----------------------------------------------------------------------------
(* The inductive invariant. *)

(* While no link was lost, a request for a characteristic that is known is *)
(* always taken by CoreBluetooth.                                          *)
LEMMA HandedWhenMapped ==
    ASSUME TypeOK, RadioInv, LinkInv,
           NEW c \in Characteristics, characteristicMap[c] # None
    PROVE  MayBeHanded(c) = {TRUE}
<1>1. connectedPeripheral \in ready /\ characteristicMap[c] = connectedPeripheral
  BY DEF LinkInv, Usable
<1>2. connectedPeripheral \in Peripherals /\ Up(connectedPeripheral)
  BY <1>1 DEF TypeOK, RadioInv
<1>. QED BY <1>1, <1>2, NoneAssumption DEF MayBeHanded

(* The initial state satisfies the invariant. *)
LEMMA IndInit == Init => IndInv
<1>. SUFFICES ASSUME Init PROVE IndInv
  OBVIOUS
<1>1. ASSUME NEW c \in Characteristics
      PROVE  /\ ClosuresInOrder(q[c]) /\ AnswersAscend(q[c]) /\ AloneIsFresh(q[c])
             /\ q[c].writeCallbacks = q[c].writeOps
             /\ ~ReadStranded(q[c])
  <2>1. q[c] = EmptyQueues
    BY DEF Init
  <2>. QED BY <2>1
           DEF EmptyQueues, ClosuresInOrder, InOrder, AnswersAscend, AloneIsFresh, ReadStranded
<1>2. RadioInv /\ LinkInv
  BY DEF Init, RadioInv, LinkInv, Up
<1>3. WritesStrandedOnlyByLoss
  BY <1>1, CharacteristicsAssumption DEF WritesStrandedOnlyByLoss
<1>4. ReadsForgottenOnlyByFault
  BY <1>1 DEF ReadsForgottenOnlyByFault
<1>. QED BY <1>1, <1>2, <1>3, <1>4 DEF IndInv

(* Whatever happens, closures and answers stay in order. *)
LEMMA OrderNext ==
    ASSUME TypeOK, \A c \in Characteristics : ClosuresInOrder(q[c]), [Next]_vars,
           NEW c \in Characteristics
    PROVE  ClosuresInOrder(q'[c])
<1>. DEFINE n == MaxWrites
<1>1. n \in Nat /\ q[c] \in Requests(n) /\ ClosuresInOrder(q[c])
  BY BoundsAssumption DEF TypeOK
<1>2. CASE q'[c] = q[c]
  BY <1>1, <1>2
<1>3. ASSUME NEW s, q'[c] = s,
             \/ \E handed \in BOOLEAN : s = SubmitRead(q[c], handed)
             \/ s = ReadAnswered(q[c]) \/ s = ReadFailed(q[c])
             \/ \E v : s = Notified(q[c], v)
             \/ s = [q[c] EXCEPT !.value = NoValue]
      PROVE  ClosuresInOrder(q'[c])
  BY <1>1, <1>3, ReadsTouchNoWrite, SameWritesOrder
<1>4. ASSUME OpsDropped(q, q') PROVE ClosuresInOrder(q'[c])
  <2>1. PICK v \in ReportableValues(q[c]) : q'[c] = DropOps(q[c], v)
    BY <1>4 DEF OpsDropped
  <2>. QED BY <1>1, <2>1, DropOpsOrder
<1>5. ASSUME NEW d \in Characteristics, Write(d) PROVE ClosuresInOrder(q'[c])
  <2>1. PICK handed \in BOOLEAN : q' = [q EXCEPT ![d] = SubmitWrite(q[d], handed)]
    BY <1>5, MayBeHandedType DEF Write
  <2>2. q'[c] = q[c] \/ q'[c] = SubmitWrite(q[c], handed)
    BY <2>1 DEF TypeOK
  <2>. QED BY <1>1, <2>2, SubmitWriteOrder
<1>6. ASSUME NEW d \in Characteristics, DidWriteValue(d) PROVE ClosuresInOrder(q'[c])
  <2>1. q' = [q EXCEPT ![d] = WriteAnswered(q[d], d \in Recognised)]
    BY <1>6 DEF DidWriteValue
  <2>2. CASE c = d
    <3>1. q'[c] = WriteAnswered(q[c], c \in Recognised) /\ q[c].writeOps # << >>
      BY <1>6, <2>1, <2>2 DEF TypeOK, DidWriteValue, WriteIsNext
    <3>2. (c \in Recognised) \in BOOLEAN
      OBVIOUS
    <3>. QED BY <1>1, <3>1, <3>2, WriteAnsweredOrder
  <2>3. CASE c # d
    BY <1>1, <2>1, <2>3 DEF TypeOK
  <2>. QED BY <2>2, <2>3
<1>7. ASSUME NEW d \in Characteristics, Read(d) PROVE ClosuresInOrder(q'[c])
  <2>1. PICK handed \in BOOLEAN : q' = [q EXCEPT ![d] = SubmitRead(q[d], handed)]
    BY <1>7, MayBeHandedType DEF Read
  <2>2. q'[c] = q[c] \/ q'[c] = SubmitRead(q[c], handed)
    BY <2>1 DEF TypeOK
  <2>. QED BY <1>2, <1>3, <2>2
<1>8. ASSUME NEW d \in Characteristics, DidReadValue(d) \/ DidFailToRead(d)
      PROVE  ClosuresInOrder(q'[c])
  <2>1. q'[c] = q[c] \/ q'[c] = ReadAnswered(q[c]) \/ q'[c] = ReadFailed(q[c])
    BY <1>8 DEF DidReadValue, DidFailToRead, TypeOK
  <2>. QED BY <1>2, <1>3, <2>1
<1>9. ASSUME NEW d \in Characteristics, DidNotify(d) PROVE ClosuresInOrder(q'[c])
  <2>1. PICK v : q' = [q EXCEPT ![d] = Notified(q[d], v)]
    BY <1>9 DEF DidNotify
  <2>2. q'[c] = q[c] \/ q'[c] = Notified(q[c], v)
    BY <2>1 DEF TypeOK
  <2>. QED BY <1>2, <1>3, <2>2
<1>10. ASSUME NEW p \in Peripherals, DidDiscoverCharacteristics(p)
       PROVE  ClosuresInOrder(q'[c])
  <2>1. q'[c] = q[c] \/ q'[c] = [q[c] EXCEPT !.value = NoValue]
    BY <1>10 DEF DidDiscoverCharacteristics
  <2>. QED BY <1>2, <1>3, <2>1
<1>11. ASSUME PoweredOff \/ \E p \in Peripherals : LinkLost(p)
       PROVE  ClosuresInOrder(q'[c])
  <2>1. OpsDropped(q, q') \/ q' = q
    BY <1>11 DEF PoweredOff, LinkLost
  <2>. QED BY <1>2, <1>4, <2>1
<1>12. ASSUME \/ UNCHANGED vars \/ PoweredOn
              \/ \E d \in Characteristics : Subscribe(d)
              \/ \E p \in Peripherals :
                    \/ Advertise(p) \/ DidDiscover(p) \/ DidConnect(p)
                    \/ DidDiscoverServices(p) \/ DiscoveryFailed(p)
       PROVE  ClosuresInOrder(q'[c])
  <2>1. q' = q
    BY <1>12 DEF vars, PoweredOn, Subscribe, Advertise, DidDiscover, DidConnect,
                 DidDiscoverServices, DiscoveryFailed
  <2>. QED BY <1>2, <2>1
<1>. QED BY Steps, <1>5, <1>6, <1>7, <1>8, <1>9, <1>10, <1>11, <1>12

(* Whatever happens, answers come in order and the closures that were      *)
(* alone get answers that are recent enough.                               *)
LEMMA AnswersNext ==
    ASSUME TypeOK, NEW c \in Characteristics, [Next]_vars,
           ClosuresInOrder(q[c]), AnswersAscend(q[c]), AloneIsFresh(q[c])
    PROVE  AnswersAscend(q'[c]) /\ AloneIsFresh(q'[c])
<1>. DEFINE n == MaxWrites
            Kept(r) == AnswersAscend(r) /\ AloneIsFresh(r)
<1>1. /\ n \in Nat /\ q[c] \in Requests(n) /\ Kept(q[c]) /\ DOMAIN q = Characteristics
      /\ ClosuresInOrder(q[c])
  BY BoundsAssumption DEF TypeOK
<1>. SUFFICES Kept(q'[c])
  OBVIOUS
<1>2. ASSUME NEW d \in Characteristics, Write(d) \/ Read(d) PROVE Kept(q'[c])
  <2>1. \/ q'[c] = q[c]
        \/ \E handed \in BOOLEAN :
              q'[c] = SubmitWrite(q[c], handed) \/ q'[c] = SubmitRead(q[c], handed)
    BY <1>1, <1>2, MayBeHandedType DEF Write, Read
  <2>. QED BY <1>1, <2>1, SubmitWriteAnswers, SubmitReadAnswers
<1>3. ASSUME NEW d \in Characteristics, DidWriteValue(d) PROVE Kept(q'[c])
  <2>1. \/ q'[c] = q[c]
        \/ q[c].writeOps # << >> /\ q'[c] = WriteAnswered(q[c], c \in Recognised)
    BY <1>1, <1>3 DEF DidWriteValue, WriteIsNext
  <2>2. (c \in Recognised) \in BOOLEAN
    OBVIOUS
  <2>. QED BY <1>1, <2>1, <2>2, WriteAnsweredAnswers
<1>4. ASSUME NEW d \in Characteristics, DidFailToRead(d) PROVE Kept(q'[c])
  <2>1. q'[c] = q[c] \/ (q[c].readOps # << >> /\ q'[c] = ReadFailed(q[c]))
    BY <1>1, <1>4 DEF DidFailToRead, ReadIsNext
  <2>. QED BY <1>1, <2>1, ReadFailedAnswers
<1>5. ASSUME NEW d \in Characteristics, DidReadValue(d) \/ DidNotify(d)
      PROVE  Kept(q'[c])
  <2>1. \/ q'[c] = q[c] \/ q'[c] = ReadAnswered(q[c])
        \/ \E v : q'[c] = Notified(q[c], v)
    BY <1>1, <1>5 DEF DidReadValue, DidNotify
  <2>. QED BY <1>1, <2>1, OtherAnswers
<1>6. ASSUME PoweredOff \/ \E p \in Peripherals : LinkLost(p) PROVE Kept(q'[c])
  <2>1. q' = q \/ \E v : q'[c] = DropOps(q[c], v)
    BY <1>6 DEF PoweredOff, LinkLost, OpsDropped
  <2>. QED BY <1>1, <2>1, OtherAnswers
<1>7. ASSUME NEW p \in Peripherals, DidDiscoverCharacteristics(p) PROVE Kept(q'[c])
  <2>1. q'[c] = q[c] \/ q'[c] = [q[c] EXCEPT !.value = NoValue]
    BY <1>7 DEF DidDiscoverCharacteristics
  <2>. QED BY <1>1, <2>1, OtherAnswers
<1>8. ASSUME \/ UNCHANGED vars \/ PoweredOn
             \/ \E d \in Characteristics : Subscribe(d)
             \/ \E p \in Peripherals :
                   \/ Advertise(p) \/ DidDiscover(p) \/ DidConnect(p)
                   \/ DidDiscoverServices(p) \/ DiscoveryFailed(p)
      PROVE  Kept(q'[c])
  <2>1. q' = q
    BY <1>8 DEF vars, PoweredOn, Subscribe, Advertise, DidDiscover, DidConnect,
                DidDiscoverServices, DiscoveryFailed
  <2>. QED BY <1>1, <2>1
<1>. QED BY Steps, <1>2, <1>3, <1>4, <1>5, <1>6, <1>7, <1>8

(* A step after which no link was lost loses none. *)
LEMMA NoLoss ==
    ASSUME TypeOK, [Next]_vars, losses' = 0
    PROVE  losses = 0 /\ ~PoweredOff /\ \A p \in Peripherals : ~LinkLost(p)
<1>1. losses \in Nat
  BY BoundsAssumption DEF TypeOK
<1>2. ~PoweredOff /\ \A p \in Peripherals : ~LinkLost(p)
  BY <1>1 DEF PoweredOff, LinkLost
<1>3. losses' = losses
  BY <1>2, Steps
  DEF vars, history, PoweredOn, Advertise, DidDiscover, DidConnect,
      DidDiscoverServices, DidDiscoverCharacteristics, DiscoveryFailed,
      Write, Read, Subscribe, DidWriteValue, DidReadValue, DidFailToRead, DidNotify
<1>. QED BY <1>2, <1>3

(* A step after which nothing failed does not fail. *)
LEMMA NoError ==
    ASSUME TypeOK, [Next]_vars, errors' = 0
    PROVE  /\ errors = 0
           /\ \A p \in Peripherals : ~DiscoveryFailed(p)
           /\ \A c \in Characteristics : ~DidFailToRead(c)
<1>1. errors \in Nat
  BY BoundsAssumption DEF TypeOK
<1>2. /\ \A p \in Peripherals : ~DiscoveryFailed(p)
      /\ \A c \in Characteristics : ~DidFailToRead(c)
  BY <1>1 DEF DiscoveryFailed, DidFailToRead
<1>3. errors' = errors
  BY <1>2, Steps
  DEF vars, history, PoweredOn, PoweredOff, Advertise, DidDiscover, DidConnect, LinkLost,
      DidDiscoverServices, DidDiscoverCharacteristics,
      Write, Read, Subscribe, DidWriteValue, DidReadValue, DidNotify
<1>. QED BY <1>2, <1>3

(* Whatever happens to links, a device is chosen before any is connected   *)
(* and only that one is discovered.                                        *)
LEMMA RadioNext ==
    ASSUME TypeOK, RadioInv, [Next]_vars
    PROVE  RadioInv'
<1>. USE DEF RadioInv, Up, app, radio, history, TypeOK, LinkStates
<1>1. CASE UNCHANGED vars
  BY <1>1 DEF vars
<1>2. CASE PoweredOn
  BY <1>2 DEF PoweredOn
<1>3. CASE PoweredOff
  BY <1>3 DEF PoweredOff
<1>4. ASSUME NEW p \in Peripherals, LinkLost(p) PROVE RadioInv'
  BY <1>4 DEF LinkLost
<1>5. ASSUME NEW p \in Peripherals, Advertise(p) PROVE RadioInv'
  BY <1>5 DEF Advertise
<1>6. ASSUME NEW p \in Peripherals, DidDiscover(p) PROVE RadioInv'
  BY <1>6, NoneAssumption DEF DidDiscover
<1>7. ASSUME NEW p \in Peripherals, DidConnect(p) PROVE RadioInv'
  BY <1>7, NoneAssumption DEF DidConnect
<1>8. ASSUME NEW p \in Peripherals, DidDiscoverServices(p) PROVE RadioInv'
  BY <1>8, NoneAssumption DEF DidDiscoverServices
<1>9. ASSUME NEW p \in Peripherals, DidDiscoverCharacteristics(p) PROVE RadioInv'
  BY <1>9, NoneAssumption DEF DidDiscoverCharacteristics
<1>10. ASSUME NEW p \in Peripherals, DiscoveryFailed(p) PROVE RadioInv'
  BY <1>10 DEF DiscoveryFailed
<1>11. ASSUME NEW c \in Characteristics,
              \/ Write(c) \/ Read(c) \/ Subscribe(c) \/ DidWriteValue(c)
              \/ DidReadValue(c) \/ DidFailToRead(c) \/ DidNotify(c)
       PROVE  RadioInv'
  BY <1>11
  DEF Write, Read, Subscribe, DidWriteValue, DidReadValue, DidFailToRead, DidNotify
<1>. QED BY Steps, <1>1, <1>2, <1>3, <1>4, <1>5, <1>6, <1>7, <1>8, <1>9, <1>10, <1>11

(* While no link was lost, nothing is known before a device is up. *)
LEMMA LinkNext ==
    ASSUME TypeOK, RadioInv, LinkInv, [Next]_vars, losses = 0, losses' = 0
    PROVE  LinkInv'
<1>. USE DEF RadioInv, LinkInv, Usable, Up, app, radio, history, TypeOK, LinkStates
<1>1. CASE UNCHANGED vars
  BY <1>1 DEF vars
<1>2. CASE PoweredOn
  BY <1>2 DEF PoweredOn
<1>3. ASSUME PoweredOff \/ \E p \in Peripherals : LinkLost(p) PROVE LinkInv'
  BY <1>3 DEF PoweredOff, LinkLost
<1>4. ASSUME NEW p \in Peripherals, Advertise(p) PROVE LinkInv'
  BY <1>4 DEF Advertise
<1>5. ASSUME NEW p \in Peripherals, DidDiscover(p) PROVE LinkInv'
  BY <1>5, NoneAssumption DEF DidDiscover
<1>6. ASSUME NEW p \in Peripherals, DidConnect(p) PROVE LinkInv'
  BY <1>6, NoneAssumption DEF DidConnect
<1>7. ASSUME NEW p \in Peripherals, DidDiscoverServices(p) PROVE LinkInv'
  BY <1>7, NoneAssumption DEF DidDiscoverServices
<1>8. ASSUME NEW p \in Peripherals, DidDiscoverCharacteristics(p) PROVE LinkInv'
  BY <1>8, NoneAssumption DEF DidDiscoverCharacteristics
<1>9. ASSUME NEW p \in Peripherals, DiscoveryFailed(p) PROVE LinkInv'
  BY <1>9 DEF DiscoveryFailed
<1>10. ASSUME NEW c \in Characteristics,
              \/ Write(c) \/ Read(c) \/ Subscribe(c) \/ DidWriteValue(c)
              \/ DidReadValue(c) \/ DidFailToRead(c) \/ DidNotify(c)
       PROVE  LinkInv'
  BY <1>10
  DEF Write, Read, Subscribe, DidWriteValue, DidReadValue, DidFailToRead, DidNotify
<1>. QED BY Steps, <1>1, <1>2, <1>3, <1>4, <1>5, <1>6, <1>7, <1>8, <1>9, <1>10

(* While no link was lost, closures and answers match one by one.          *)
LEMMA WritesNext ==
    ASSUME TypeOK, IndInv, [Next]_vars
    PROVE  WritesStrandedOnlyByLoss'
<1>. SUFFICES ASSUME NEW c \in Recognised, losses' = 0
              PROVE  q'[c].writeCallbacks = q'[c].writeOps
  BY DEF WritesStrandedOnlyByLoss
<1>1. /\ c \in Characteristics /\ q[c] \in Requests(MaxWrites) /\ MaxWrites \in Nat
      /\ DOMAIN q = Characteristics
  BY CharacteristicsAssumption, BoundsAssumption DEF TypeOK
<1>2. losses = 0 /\ ~PoweredOff /\ \A p \in Peripherals : ~LinkLost(p)
  BY NoLoss
<1>3. RadioInv /\ LinkInv /\ q[c].writeCallbacks = q[c].writeOps
  BY <1>2 DEF IndInv, WritesStrandedOnlyByLoss
<1>4. CASE q'[c] = q[c]
  BY <1>3, <1>4
<1>5. ASSUME NEW s, q'[c] = s,
             \/ \E handed \in BOOLEAN : s = SubmitRead(q[c], handed)
             \/ s = ReadAnswered(q[c]) \/ s = ReadFailed(q[c])
             \/ \E v : s = Notified(q[c], v)
             \/ s = [q[c] EXCEPT !.value = NoValue]
      PROVE  q'[c].writeCallbacks = q'[c].writeOps
  BY <1>1, <1>3, <1>5, ReadsTouchNoWrite
<1>6. ASSUME NEW d \in Characteristics, Write(d)
      PROVE  q'[c].writeCallbacks = q'[c].writeOps
  <2>1. q' = [q EXCEPT ![d] = SubmitWrite(q[d], TRUE)]
    BY <1>3, <1>6, HandedWhenMapped DEF Write
  <2>2. q'[c] = q[c] \/ q'[c] = SubmitWrite(q[c], TRUE)
    BY <1>1, <2>1
  <2>. DEFINE id == q[c].issued + 1
  <2>3. ASSUME q'[c] = SubmitWrite(q[c], TRUE)
        PROVE  /\ q'[c].writeCallbacks = Append(q[c].writeCallbacks, id)
               /\ q'[c].writeOps = Append(q[c].writeOps, id)
    BY <1>1, <2>3 DEF SubmitWrite, Requests
  <2>. HIDE DEF id
  <2>. QED BY <1>3, <2>2, <2>3
<1>7. ASSUME NEW d \in Characteristics, DidWriteValue(d)
      PROVE  q'[c].writeCallbacks = q'[c].writeOps
  <2>1. /\ q' = [q EXCEPT ![d] = WriteAnswered(q[d], d \in Recognised)]
        /\ q[d].writeOps # << >>
    BY <1>7 DEF DidWriteValue, WriteIsNext
  <2>2. CASE c = d
    <3>. DEFINE cb == q[c].writeCallbacks
    <3>1. cb \in Seq(Nat) /\ cb # << >>
      BY <1>1, <1>3, <2>1, <2>2, WritesType
    <3>2. Len(cb) > 0
      BY <3>1
    <3>3. q'[c] = WriteAnswered(q[c], TRUE)
      BY <1>1, <2>1, <2>2
    <3>4. /\ q'[c].writeOps = Tail(q[c].writeOps)
          /\ q'[c].writeCallbacks = IF Len(cb) > 0 THEN Tail(cb) ELSE cb
      BY <1>1, <3>3 DEF WriteAnswered, Requests
    <3>. QED BY <1>3, <3>2, <3>4
  <2>3. CASE c # d
    BY <1>1, <1>4, <2>1, <2>3
  <2>. QED BY <2>2, <2>3
<1>8. ASSUME NEW d \in Characteristics, Read(d)
      PROVE  q'[c].writeCallbacks = q'[c].writeOps
  <2>1. PICK handed \in BOOLEAN : q' = [q EXCEPT ![d] = SubmitRead(q[d], handed)]
    BY <1>8, MayBeHandedType DEF Read
  <2>2. q'[c] = q[c] \/ q'[c] = SubmitRead(q[c], handed)
    BY <1>1, <2>1
  <2>. QED BY <1>4, <1>5, <2>2
<1>9. ASSUME NEW d \in Characteristics, DidReadValue(d) \/ DidFailToRead(d)
      PROVE  q'[c].writeCallbacks = q'[c].writeOps
  <2>1. q'[c] = q[c] \/ q'[c] = ReadAnswered(q[c]) \/ q'[c] = ReadFailed(q[c])
    BY <1>1, <1>9 DEF DidReadValue, DidFailToRead
  <2>. QED BY <1>4, <1>5, <2>1
<1>10. ASSUME NEW d \in Characteristics, DidNotify(d)
       PROVE  q'[c].writeCallbacks = q'[c].writeOps
  <2>1. PICK v : q' = [q EXCEPT ![d] = Notified(q[d], v)]
    BY <1>10 DEF DidNotify
  <2>2. q'[c] = q[c] \/ q'[c] = Notified(q[c], v)
    BY <1>1, <2>1
  <2>. QED BY <1>4, <1>5, <2>2
<1>11. ASSUME NEW p \in Peripherals, DidDiscoverCharacteristics(p)
       PROVE  q'[c].writeCallbacks = q'[c].writeOps
  <2>1. q'[c] = q[c] \/ q'[c] = [q[c] EXCEPT !.value = NoValue]
    BY <1>1, <1>11 DEF DidDiscoverCharacteristics
  <2>. QED BY <1>4, <1>5, <2>1
<1>12. ASSUME \/ UNCHANGED vars \/ PoweredOn
              \/ \E d \in Characteristics : Subscribe(d)
              \/ \E p \in Peripherals :
                    \/ Advertise(p) \/ DidDiscover(p) \/ DidConnect(p)
                    \/ DidDiscoverServices(p) \/ DiscoveryFailed(p)
       PROVE  q'[c].writeCallbacks = q'[c].writeOps
  <2>1. q' = q
    BY <1>12 DEF vars, PoweredOn, Subscribe, Advertise, DidDiscover, DidConnect,
                 DidDiscoverServices, DiscoveryFailed
  <2>. QED BY <1>4, <2>1
<1>. QED BY Steps, <1>2, <1>6, <1>7, <1>8, <1>9, <1>10, <1>11, <1>12

(* While no link was lost and nothing failed, a read closure waits only    *)
(* while a read is outstanding.                                            *)
LEMMA ReadsNext ==
    ASSUME TypeOK, IndInv, [Next]_vars
    PROVE  ReadsForgottenOnlyByFault'
<1>. SUFFICES ASSUME NEW c \in Characteristics, losses' = 0, errors' = 0
              PROVE  ~ReadStranded(q'[c])
  <2>1. losses' \in Nat /\ errors' \in Nat
    BY TypeNext, BoundsAssumption DEF TypeOK
  <2>. QED BY <2>1 DEF ReadsForgottenOnlyByFault
<1>1. /\ q[c] \in Requests(MaxWrites) /\ MaxWrites \in Nat
      /\ DOMAIN q = Characteristics
  BY BoundsAssumption DEF TypeOK
<1>2. /\ losses = 0 /\ errors = 0
      /\ ~PoweredOff /\ \A p \in Peripherals : ~LinkLost(p) /\ ~DiscoveryFailed(p)
      /\ \A d \in Characteristics : ~DidFailToRead(d)
  BY NoLoss, NoError
<1>3. RadioInv /\ LinkInv /\ ~ReadStranded(q[c])
  BY <1>2 DEF IndInv, ReadsForgottenOnlyByFault
<1>4. ASSUME q'[c].readCallbacks = q[c].readCallbacks /\ q'[c].readOps = q[c].readOps
      PROVE  ~ReadStranded(q'[c])
  BY <1>3, <1>4 DEF ReadStranded
<1>5. ASSUME NEW d \in Characteristics, Write(d) \/ DidWriteValue(d)
      PROVE  ~ReadStranded(q'[c])
  <2>1. \/ q'[c] = q[c] \/ \E handed \in BOOLEAN : q'[c] = SubmitWrite(q[c], handed)
        \/ \E recognised : q'[c] = WriteAnswered(q[c], recognised)
    BY <1>1, <1>5, MayBeHandedType DEF Write, DidWriteValue
  <2>2. q'[c].readCallbacks = q[c].readCallbacks /\ q'[c].readOps = q[c].readOps
    BY <1>1, <2>1 DEF SubmitWrite, WriteAnswered, Requests
  <2>. QED BY <1>4, <2>2
<1>6. ASSUME NEW d \in Characteristics, Read(d) PROVE ~ReadStranded(q'[c])
  <2>1. q' = [q EXCEPT ![d] = SubmitRead(q[d], TRUE)]
    BY <1>3, <1>6, HandedWhenMapped DEF Read
  <2>2. CASE c = d
    <3>1. q'[c].readOps = Append(q[c].readOps, Latest(q[c]))
      BY <1>1, <2>1, <2>2 DEF SubmitRead, Requests
    <3>2. q[c].readOps \in Seq(0 .. MaxWrites) /\ Latest(q[c]) \in 0 .. MaxWrites
      BY <1>1, LatestType DEF Requests
    <3>3. Len(q'[c].readOps) = Len(q[c].readOps) + 1 /\ Len(q[c].readOps) \in Nat
      BY <3>1, <3>2, AppendFacts
    <3>4. q'[c].readOps # << >>
      BY <3>3
    <3>. QED BY <3>4 DEF ReadStranded
  <2>3. CASE c # d
    BY <1>1, <1>4, <2>1, <2>3
  <2>. QED BY <2>2, <2>3
<1>7. ASSUME NEW d \in Characteristics, DidReadValue(d) \/ DidNotify(d)
      PROVE  ~ReadStranded(q'[c])
  <2>1. \/ q'[c] = q[c] \/ q'[c] = ReadAnswered(q[c])
        \/ \E v : q'[c] = Notified(q[c], v)
    BY <1>1, <1>7 DEF DidReadValue, DidNotify
  <2>2. ASSUME q'[c] # q[c] PROVE q'[c].readCallbacks = << >>
    BY <1>1, <2>1, <2>2 DEF ReadAnswered, Notified, HandleUpdate, Requests
  <2>. QED BY <1>3, <2>2 DEF ReadStranded
<1>8. ASSUME NEW p \in Peripherals, DidDiscoverCharacteristics(p)
      PROVE  ~ReadStranded(q'[c])
  <2>1. q'[c] = q[c] \/ q'[c] = [q[c] EXCEPT !.value = NoValue]
    BY <1>1, <1>8 DEF DidDiscoverCharacteristics
  <2>2. q'[c].readCallbacks = q[c].readCallbacks /\ q'[c].readOps = q[c].readOps
    BY <1>1, <2>1 DEF Requests
  <2>. QED BY <1>4, <2>2
<1>9. ASSUME \/ UNCHANGED vars \/ PoweredOn
             \/ \E d \in Characteristics : Subscribe(d)
             \/ \E p \in Peripherals :
                   Advertise(p) \/ DidDiscover(p) \/ DidConnect(p) \/ DidDiscoverServices(p)
      PROVE  ~ReadStranded(q'[c])
  <2>1. q' = q
    BY <1>9 DEF vars, PoweredOn, Subscribe, Advertise, DidDiscover, DidConnect,
                DidDiscoverServices
  <2>. QED BY <1>4, <2>1
<1>. QED BY Steps, <1>2, <1>5, <1>6, <1>7, <1>8, <1>9

(* The invariant is inductive, relative to the types. *)
LEMMA IndNext == TypeOK /\ IndInv /\ [Next]_vars => IndInv'
<1>. SUFFICES ASSUME TypeOK, IndInv, [Next]_vars PROVE IndInv'
  OBVIOUS
<1>1. \A c \in Characteristics :
          ClosuresInOrder(q'[c]) /\ AnswersAscend(q'[c]) /\ AloneIsFresh(q'[c])
  BY OrderNext, AnswersNext DEF IndInv
<1>2. ASSUME losses' = 0 PROVE LinkInv'
  <2>1. losses = 0
    BY <1>2, NoLoss
  <2>. QED BY <1>2, <2>1, LinkNext DEF IndInv
<1>3. WritesStrandedOnlyByLoss' /\ ReadsForgottenOnlyByFault'
  BY WritesNext, ReadsNext
<1>4. RadioInv'
  BY RadioNext DEF IndInv
<1>. QED BY <1>1, <1>2, <1>3, <1>4 DEF IndInv

(* In every behaviour, closures and answers are in order, and match while  *)
(* nothing went wrong: the invariant the next theorems follow from.        *)
THEOREM Invariance == Spec => []IndInv
<1>1. TypeOK /\ IndInv /\ [Next]_vars => IndInv'
  BY IndNext
<1>. QED BY IndInit, <1>1, TypeCorrect, PTL DEF Spec

(* Closures and answers in order: an answer runs the closure of its own    *)
(* write, or of an older one to which no answer will come.                 *)
LEMMA OldestIsRun ==
    ASSUME NEW n \in Nat, NEW r \in Requests(n), NEW recognised \in BOOLEAN,
           ClosuresInOrder(r), AnswersAscend(r), r.writeOps # << >>,
           NEW id \in Range(r.writeCallbacks)
                        \ Range(WriteAnswered(r, recognised).writeCallbacks)
    PROVE  /\ recognised /\ id = Head(r.writeCallbacks)
           /\ \/ id = Head(r.writeOps)
              \/ id < Head(r.writeOps) /\ id \notin Range(r.writeOps)
<1>. DEFINE cb  == r.writeCallbacks
            ops == r.writeOps
<1>1. cb \in Seq(Nat) /\ ops \in Seq(Nat)
  BY WritesType
<1>2. WriteAnswered(r, recognised).writeCallbacks =
          IF recognised /\ Len(cb) > 0 THEN Tail(cb) ELSE cb
  BY DEF WriteAnswered, Requests
<1>3. /\ Len(ops) <= Len(cb) /\ \A i \in 1 .. Len(ops) : cb[i] <= ops[i]
      /\ \A i \in 1 .. Len(ops) : \A j \in 1 .. i - 1 : ops[j] < ops[i]
  BY DEF ClosuresInOrder, InOrder, AnswersAscend
<1>4. ops # << >> /\ id \in Range(cb)
      /\ id \notin Range(IF recognised /\ Len(cb) > 0 THEN Tail(cb) ELSE cb)
  BY <1>2
<1>. HIDE DEF cb, ops
<1>5. recognised /\ Len(cb) > 0 /\ cb # << >> /\ id \notin Range(Tail(cb))
  BY <1>1, <1>4
<1>6. /\ Len(cb) \in Nat /\ Head(cb) = cb[1] /\ Head(cb) \in Nat
      /\ Tail(cb) \in Seq(Nat) /\ Len(Tail(cb)) = Len(cb) - 1
      /\ \A i \in 1 .. Len(cb) - 1 : Tail(cb)[i] = cb[i + 1]
  BY ONLY <1>1, <1>5, TailFacts
<1>7. PICK i \in 1 .. Len(cb) : id = cb[i]
  BY <1>1, <1>4 DEF Range
<1>8. i = 1
  <2>. SUFFICES ASSUME i # 1 PROVE FALSE
    OBVIOUS
  <2>1. i - 1 \in 1 .. Len(cb) - 1 /\ i - 1 + 1 = i
    BY <1>6
  <2>2. Tail(cb)[i - 1] = id /\ DOMAIN Tail(cb) = 1 .. Len(cb) - 1
    BY <1>6, <1>7, <2>1
  <2>. QED BY <1>5, <2>1, <2>2 DEF Range
<1>9. id = Head(cb) /\ id = cb[1] /\ id \in Nat
  BY <1>6, <1>7, <1>8
<1>10. Len(ops) \in Nat /\ Len(ops) > 0 /\ Head(ops) = ops[1] /\ Head(ops) \in Nat
  BY ONLY <1>1, <1>4, TailFacts
<1>11. id <= ops[1]
  BY <1>3, <1>9, <1>10
<1>12. ASSUME id # Head(ops), NEW k \in 1 .. Len(ops)
       PROVE  ops[k] # id
  <2>1. id < ops[1] /\ ops[k] \in Nat
    BY <1>1, <1>9, <1>10, <1>11, <1>12, ElementOfSeq, SMTT(30)
  <2>2. CASE k = 1
    BY <1>9, <1>10, <2>1, <2>2
  <2>3. CASE k # 1
    <3>1. 1 \in 1 .. k - 1
      BY <1>10, <2>3
    <3>2. ops[1] < ops[k]
      BY <1>3, <3>1
    <3>. QED BY <1>9, <1>10, <2>1, <3>2
  <2>. QED BY <2>2, <2>3
<1>13. id # Head(ops) => id < Head(ops)
  BY <1>9, <1>10, <1>11
<1>14. id # Head(ops) => id \notin Range(ops)
  <2>1. DOMAIN ops = 1 .. Len(ops)
    BY <1>1, LenProperties
  <2>. QED BY <1>12, <2>1 DEF Range
<1>. QED BY <1>5, <1>9, <1>13, <1>14 DEF cb, ops

(* Only the answer to a write makes a write closure go away.               *)
LEMMA OnlyAnswersRun ==
    ASSUME TypeOK, [Next]_vars, NEW c \in Characteristics,
           ~ DidWriteValue(c)
    PROVE  Range(q[c].writeCallbacks) \subseteq Range(q'[c].writeCallbacks)
<1>. DEFINE Goal == Range(q[c].writeCallbacks) \subseteq Range(q'[c].writeCallbacks)
<1>1. MaxWrites \in Nat /\ q[c] \in Requests(MaxWrites) /\ DOMAIN q = Characteristics
  BY BoundsAssumption DEF TypeOK
<1>2. ASSUME q'[c].writeCallbacks = q[c].writeCallbacks PROVE Goal
  BY <1>2
<1>3. ASSUME \/ q'[c] = q[c]
             \/ \E handed \in BOOLEAN : q'[c] = SubmitRead(q[c], handed)
             \/ q'[c] = ReadAnswered(q[c]) \/ q'[c] = ReadFailed(q[c])
             \/ \E v : q'[c] = Notified(q[c], v)
             \/ q'[c] = [q[c] EXCEPT !.value = NoValue]
      PROVE  Goal
  <2>1. q'[c].writeCallbacks = q[c].writeCallbacks
    BY <1>1, <1>3, ReadsTouchNoWrite
  <2>. QED BY <1>2, <2>1
<1>4. ASSUME NEW d \in Characteristics, Write(d) PROVE Goal
  <2>1. PICK handed \in BOOLEAN : q' = [q EXCEPT ![d] = SubmitWrite(q[d], handed)]
    BY <1>4, MayBeHandedType DEF Write
  <2>2. CASE d = c
    <3>. DEFINE cb == q[c].writeCallbacks
                e  == q[c].issued + 1
    <3>1. q'[c].writeCallbacks = Append(cb, e)
      BY <1>1, <2>1, <2>2 DEF SubmitWrite, Requests
    <3>2. cb \in Seq(Nat) /\ e \in Nat
      BY <1>1, WritesType
    <3>. HIDE DEF cb, e
    <3>3. Range(cb) \subseteq Range(Append(cb, e))
      BY <3>2 DEF Range
    <3>. QED BY <3>1, <3>3 DEF cb
  <2>3. CASE d # c
    BY <1>1, <1>3, <2>1, <2>3
  <2>. QED BY <2>2, <2>3
<1>5. ASSUME NEW d \in Characteristics, DidWriteValue(d) PROVE Goal
  <2>1. d # c /\ q'[c] = q[c]
    BY <1>1, <1>5 DEF DidWriteValue
  <2>. QED BY <2>1
<1>6. ASSUME NEW d \in Characteristics,
             Read(d) \/ DidReadValue(d) \/ DidFailToRead(d) \/ DidNotify(d)
      PROVE  Goal
  <2>1. \/ q'[c] = q[c]
        \/ \E handed \in BOOLEAN : q'[c] = SubmitRead(q[c], handed)
        \/ q'[c] = ReadAnswered(q[c]) \/ q'[c] = ReadFailed(q[c])
        \/ \E v : q'[c] = Notified(q[c], v)
    BY <1>1, <1>6, MayBeHandedType DEF Read, DidReadValue, DidFailToRead, DidNotify
  <2>. QED BY <1>3, <2>1
<1>7. ASSUME PoweredOff \/ \E p \in Peripherals : LinkLost(p) PROVE Goal
  <2>1. q' = q \/ \E v \in ReportableValues(q[c]) : q'[c] = DropOps(q[c], v)
    BY <1>7 DEF PoweredOff, LinkLost, OpsDropped
  <2>2. q'[c].writeCallbacks = q[c].writeCallbacks
    BY <1>1, <2>1 DEF DropOps, Requests
  <2>. QED BY <1>2, <2>2
<1>8. ASSUME NEW p \in Peripherals, DidDiscoverCharacteristics(p) PROVE Goal
  BY <1>3, <1>8 DEF DidDiscoverCharacteristics
<1>9. ASSUME \/ UNCHANGED vars \/ PoweredOn
             \/ \E d \in Characteristics : Subscribe(d)
             \/ \E p \in Peripherals :
                   \/ Advertise(p) \/ DidDiscover(p) \/ DidConnect(p)
                   \/ DidDiscoverServices(p) \/ DiscoveryFailed(p)
      PROVE  Goal
  <2>1. q' = q
    BY <1>9 DEF vars, PoweredOn, Subscribe, Advertise, DidDiscover, DidConnect,
                DidDiscoverServices, DiscoveryFailed
  <2>. QED BY <1>3, <2>1
<1>. QED BY Steps, <1>4, <1>5, <1>6, <1>7, <1>8, <1>9

(* However many writes are outstanding, whatever links are lost and        *)
(* whichever answers come: a write closure runs at the answer to its own   *)
(* write, or its own answer went with a lost link.                         *)
THEOREM OwnAnswerFirst == Spec => WrongClosureOnlyIfDropped
<1>. DEFINE Own(c, id) ==
         /\ q[c].writeOps # << >> /\ q'[c].writeOps = Tail(q[c].writeOps)
         /\ \/ id = Head(q[c].writeOps)
            \/ /\ id < Head(q[c].writeOps) /\ losses > 0
               /\ id \notin Range(q[c].writeOps)
<1>1. ASSUME TypeOK, IndInv, [Next]_vars, NEW c \in Characteristics,
             NEW id \in Range(q[c].writeCallbacks) \ Range(q'[c].writeCallbacks)
      PROVE  Own(c, id)
  <2>1. DidWriteValue(c)
    BY <1>1, OnlyAnswersRun
  <2>2. /\ MaxWrites \in Nat /\ q[c] \in Requests(MaxWrites)
        /\ ClosuresInOrder(q[c]) /\ AnswersAscend(q[c]) /\ (c \in Recognised) \in BOOLEAN
        /\ losses \in Nat
    BY <1>1, BoundsAssumption DEF TypeOK, IndInv
  <2>3. /\ q'[c] = WriteAnswered(q[c], c \in Recognised)
        /\ q[c].writeOps # << >>
    BY <1>1, <2>1 DEF TypeOK, DidWriteValue, WriteIsNext
  <2>4. q'[c].writeOps = Tail(q[c].writeOps)
    BY <2>2, <2>3 DEF WriteAnswered, Requests
  <2>5. /\ c \in Recognised /\ id = Head(q[c].writeCallbacks)
        /\ \/ id = Head(q[c].writeOps)
           \/ id < Head(q[c].writeOps) /\ id \notin Range(q[c].writeOps)
    BY <2>2, <2>3, OldestIsRun
  <2>6. losses = 0 => q[c].writeCallbacks = q[c].writeOps
    BY <1>1, <2>5 DEF IndInv, WritesStrandedOnlyByLoss
  <2>7. losses > 0 \/ id = Head(q[c].writeOps)
    BY <2>2, <2>5, <2>6
  <2>. QED BY <2>3, <2>4, <2>5, <2>7
<1>2. TypeOK /\ IndInv /\ [Next]_vars =>
          [\A c \in Characteristics :
              \A id \in Range(q[c].writeCallbacks) \ Range(q'[c].writeCallbacks) :
                  Own(c, id)]_vars
  BY <1>1
<1>. QED BY <1>2, TypeCorrect, Invariance, PTL DEF Spec, WrongClosureOnlyIfDropped

(* As long as no link was lost, no closure of a write is left behind and   *)
(* each runs at the answer to its own write.                               *)
THEOREM WritesMatchAnswers == Spec => []WritesStrandedOnlyByLoss
<1>1. IndInv => WritesStrandedOnlyByLoss
  BY DEF IndInv
<1>. QED BY <1>1, Invariance, PTL

(* Only a lost link or a failed read leaves a read closure without a read. *)
THEOREM ReadsMatchAnswers == Spec => []ReadsForgottenOnlyByFault
<1>1. IndInv => ReadsForgottenOnlyByFault
  BY DEF IndInv
<1>. QED BY <1>1, Invariance, PTL

(* A read closure that was alone gets a value at least as new as every     *)
(* write requested before it, unless a link was lost or the characteristic *)
(* notifies: the closures are emptied by the answer to a read, and every   *)
(* answer still to come is recent enough.                                  *)
THEOREM FreshReads == Spec => ReadsAreFresh
<1>. DEFINE Fresh(c) ==
              q[c].readCallbacks # <<>> /\ q'[c].readCallbacks = <<>> =>
                  \A i \in DOMAIN q[c].readCallbacks :
                      q[c].readCallbacks[i].alone =>
                          q'[c].value >= q[c].readCallbacks[i].asOf
<1>1. TypeOK /\ IndInv /\ [Next]_vars => \A c \in Characteristics \ Notifying : Fresh(c)
  <2>. SUFFICES ASSUME TypeOK, IndInv, [Next]_vars,
                       NEW c \in Characteristics \ Notifying,
                       q[c].readCallbacks # <<>>, q'[c].readCallbacks = <<>>,
                       NEW i \in DOMAIN q[c].readCallbacks,
                       q[c].readCallbacks[i].alone
                PROVE  q'[c].value >= q[c].readCallbacks[i].asOf
    OBVIOUS
  <2>1. /\ MaxWrites \in Nat /\ q[c] \in Requests(MaxWrites)
        /\ DOMAIN q = Characteristics /\ AloneIsFresh(q[c])
    BY BoundsAssumption DEF TypeOK, IndInv
  <2>2. q'[c].readCallbacks # q[c].readCallbacks
    OBVIOUS
  <2>3. ReadIsNext(q[c]) /\ q'[c] = ReadAnswered(q[c])
    <3>1. ASSUME NEW d \in Characteristics, Write(d) \/ DidWriteValue(d) \/ DidFailToRead(d)
          PROVE  FALSE
      <4>1. \/ q'[c] = q[c] \/ q'[c] = ReadFailed(q[c])
            \/ \E handed : q'[c] = SubmitWrite(q[c], handed)
            \/ \E recognised : q'[c] = WriteAnswered(q[c], recognised)
        BY <2>1, <3>1 DEF Write, DidWriteValue, DidFailToRead
      <4>. QED BY <2>1, <2>2, <4>1, ZenonT(30) DEF SubmitWrite, WriteAnswered, ReadFailed, Requests
    <3>2. ASSUME NEW d \in Characteristics, Read(d) PROVE FALSE
      <4>1. q'[c] = q[c] \/ \E handed \in BOOLEAN : q'[c] = SubmitRead(q[c], handed)
        BY <2>1, <3>2, MayBeHandedType DEF Read
      <4>2. PICK handed \in BOOLEAN : q'[c] = SubmitRead(q[c], handed)
        BY <2>2, <4>1
      <4>. DEFINE closure == [asOf |-> Latest(q[c]), alone |-> q[c].readOps = <<>> /\ handed]
      <4>3. q'[c].readCallbacks = Append(q[c].readCallbacks, closure)
        BY <2>1, <4>2 DEF SubmitRead, Requests
      <4>4. closure \in ReadClosures(MaxWrites)
        BY <2>1, LatestType DEF ReadClosures
      <4>5. q[c].readCallbacks \in Seq(ReadClosures(MaxWrites))
        BY <2>1, ReadsType
      <4>. HIDE DEF closure
      <4>6. Len(q'[c].readCallbacks) = Len(q[c].readCallbacks) + 1
            /\ Len(q[c].readCallbacks) \in Nat
        BY <4>3, <4>4, <4>5, AppendFacts
      <4>. QED BY <4>6
    <3>3. ASSUME NEW d \in Characteristics, DidNotify(d) PROVE FALSE
      <4>1. q'[c] = q[c]
        BY <2>1, <3>3 DEF DidNotify
      <4>. QED BY <2>2, <4>1
    <3>4. ASSUME PoweredOff \/ \E p \in Peripherals : LinkLost(p) PROVE FALSE
      <4>1. q' = q \/ \E v : q'[c] = DropOps(q[c], v)
        BY <3>4 DEF PoweredOff, LinkLost, OpsDropped
      <4>2. PICK v : q'[c] = DropOps(q[c], v)
        BY <2>2, <4>1
      <4>3. DOMAIN q'[c].readCallbacks = DOMAIN q[c].readCallbacks
        BY <2>1, <4>2 DEF DropOps, Requests
      <4>. QED BY <4>3
    <3>5. ASSUME NEW p \in Peripherals, DidDiscoverCharacteristics(p) PROVE FALSE
      <4>1. q'[c] = q[c] \/ q'[c] = [q[c] EXCEPT !.value = NoValue]
        BY <3>5 DEF DidDiscoverCharacteristics
      <4>. QED BY <2>1, <2>2, <4>1 DEF Requests
    <3>6. ASSUME \/ UNCHANGED vars \/ PoweredOn
                 \/ \E d \in Characteristics : Subscribe(d)
                 \/ \E p \in Peripherals :
                       \/ Advertise(p) \/ DidDiscover(p) \/ DidConnect(p)
                       \/ DidDiscoverServices(p) \/ DiscoveryFailed(p)
          PROVE  FALSE
      <4>1. q' = q
        BY <3>6 DEF vars, PoweredOn, Subscribe, Advertise, DidDiscover, DidConnect,
                    DidDiscoverServices, DiscoveryFailed
      <4>. QED BY <2>2, <4>1
    <3>7. PICK d \in Characteristics : DidReadValue(d)
      BY Steps, <3>1, <3>2, <3>3, <3>4, <3>5, <3>6
    <3>8. d = c
      BY <2>1, <2>2, <3>7 DEF DidReadValue
    <3>. QED BY <2>1, <3>7, <3>8 DEF DidReadValue
  <2>4. q'[c].value = Head(q[c].readOps)
    BY <2>1, <2>3, ValueSet
  <2>5. /\ q[c].readOps \in Seq(Nat) /\ q[c].readOps # << >>
        /\ i \in 1 .. Len(q[c].readCallbacks) /\ q[c].readCallbacks[i].asOf \in Nat
    BY <2>1, <2>3, ReadsType, LenProperties DEF ReadIsNext
  <2>6. /\ Head(q[c].readOps) = q[c].readOps[1] /\ q[c].readOps[1] \in Nat
        /\ 1 \in 1 .. Len(q[c].readOps)
    BY <2>5, TailFacts
  <2>7. q[c].readCallbacks[i].asOf <= q[c].readOps[1]
    BY <2>1, <2>5, <2>6 DEF AloneIsFresh
  <2>. QED BY <2>4, <2>5, <2>6, <2>7
<1>2. TypeOK /\ IndInv /\ [Next]_vars
          => [\A c \in Characteristics \ Notifying : Fresh(c)]_vars
  BY <1>1
<1>. QED BY <1>2, TypeCorrect, Invariance, PTL DEF Spec, ReadsAreFresh

(* As long as no link was lost, Connected means that every characteristic  *)
(* is one of the device that requests are sent to, however many devices    *)
(* were seen and in whichever order their events came.                     *)
THEOREM HonestStatus == Spec => []StatusIsHonest
<1>1. IndInv => StatusIsHonest
  BY DEF IndInv, LinkInv, StatusIsHonest
<1>. QED BY <1>1, Invariance, PTL
-----------------------------------------------------------------------------
(* What listeners hear. *)

(* A step hears what it sets, or leaves both as they are. *)
LEMMA HeardNext ==
    ASSUME TypeOK, ListenersHearEveryValue, [Next]_vars
    PROVE  ListenersHearEveryValue'
<1>. SUFFICES ASSUME NEW c \in Characteristics, q'[c].value # NoValue,
                     NEW i \in DOMAIN listeners'[c]
              PROVE  listeners'[c][i] \in {q'[c].value, NoValue}
  BY DEF ListenersHearEveryValue, Range
<1>1. /\ MaxWrites \in Nat /\ DOMAIN q = Characteristics
      /\ q[c] \in Requests(MaxWrites) /\ DOMAIN listeners = Characteristics
  BY BoundsAssumption DEF TypeOK
<1>2. ASSUME q'[c].value \in {q[c].value, NoValue}, listeners' = listeners
      PROVE  listeners'[c][i] \in {q'[c].value, NoValue}
  BY <1>2 DEF ListenersHearEveryValue, Range
<1>3. ASSUME NEW d \in Characteristics, NEW v, Hear(d, v),
             q'[d].value = v, d # c => q'[c] = q[c]
      PROVE  listeners'[c][i] \in {q'[c].value, NoValue}
  <2>1. CASE d = c
    <3>1. listeners'[c] = [j \in DOMAIN listeners[c] |-> v]
      BY <1>1, <1>3, <2>1 DEF Hear
    <3>. QED BY <1>3, <2>1, <3>1
  <2>2. CASE d # c
    <3>1. listeners'[c] = listeners[c] /\ q'[c] = q[c]
      BY <1>1, <1>3, <2>2 DEF Hear
    <3>. QED BY <3>1 DEF ListenersHearEveryValue, Range
  <2>. QED BY <2>1, <2>2
<1>4. ASSUME NEW d \in Characteristics, DidReadValue(d)
      PROVE  listeners'[c][i] \in {q'[c].value, NoValue}
  <2>1. q[d] \in Requests(MaxWrites) /\ Hear(d, Head(q[d].readOps))
    BY <1>4 DEF DidReadValue, TypeOK
  <2>2. q'[d] = ReadAnswered(q[d]) /\ (d # c => q'[c] = q[c])
    BY <1>1, <1>4 DEF DidReadValue
  <2>. QED BY <1>1, <1>3, <2>1, <2>2, ValueSet
<1>5. ASSUME NEW d \in Characteristics, DidNotify(d)
      PROVE  listeners'[c][i] \in {q'[c].value, NoValue}
  <2>1. PICK v : q' = [q EXCEPT ![d] = Notified(q[d], v)] /\ Hear(d, v)
    BY <1>5 DEF DidNotify
  <2>2. q[d] \in Requests(MaxWrites)
    BY DEF TypeOK
  <2>3. q'[d].value = v /\ (d # c => q'[c] = q[c])
    BY <1>1, <2>1, <2>2, ValueSet
  <2>. QED BY <1>3, <2>1, <2>3
<1>6. ASSUME NEW d \in Characteristics, Subscribe(d)
      PROVE  listeners'[c][i] \in {q'[c].value, NoValue}
  <2>. DEFINE T == 0 .. MaxWrites \union {NoValue}
  <2>1. listeners[c] \in Seq(T) /\ q' = q
    BY <1>6 DEF Subscribe, TypeOK
  <2>2. listeners'[c] = listeners[c] \/ listeners'[c] = Append(listeners[c], NoValue)
    BY <1>1, <1>6 DEF Subscribe
  <2>3. CASE listeners'[c] = listeners[c]
    BY <2>1, <2>3 DEF ListenersHearEveryValue, Range
  <2>4. CASE listeners'[c] = Append(listeners[c], NoValue)
    <3>1. NoValue \in T
      OBVIOUS
    <3>. HIDE DEF T
    <3>2. /\ Len(listeners[c]) \in Nat /\ listeners'[c] \in Seq(T)
          /\ Len(listeners'[c]) = Len(listeners[c]) + 1
          /\ \A j \in 1 .. Len(listeners[c]) : listeners'[c][j] = listeners[c][j]
          /\ listeners'[c][Len(listeners[c]) + 1] = NoValue
      BY <2>1, <2>4, <3>1, AppendFacts
    <3>3. DOMAIN listeners[c] = 1 .. Len(listeners[c])
      BY <2>1, LenProperties
    <3>4. i \in 1 .. Len(listeners[c]) \/ i = Len(listeners[c]) + 1
      BY <3>2, LenProperties
    <3>. QED BY <2>1, <3>2, <3>3, <3>4 DEF ListenersHearEveryValue, Range
  <2>. QED BY <2>2, <2>3, <2>4
<1>7. ASSUME NEW d \in Characteristics,
             Write(d) \/ Read(d) \/ DidWriteValue(d) \/ DidFailToRead(d)
      PROVE  listeners'[c][i] \in {q'[c].value, NoValue}
  <2>1. \/ q'[c] = q[c]
        \/ \E handed \in BOOLEAN :
              q'[c] = SubmitWrite(q[c], handed) \/ q'[c] = SubmitRead(q[c], handed)
        \/ \E recognised : q'[c] = WriteAnswered(q[c], recognised)
        \/ q'[c] = ReadFailed(q[c])
    BY <1>1, <1>7, MayBeHandedType DEF Write, Read, DidWriteValue, DidFailToRead
  <2>2. q'[c].value = q[c].value
    BY <1>1, <2>1, ValueKept
  <2>3. listeners' = listeners
    BY <1>7 DEF Write, Read, DidWriteValue, DidFailToRead, app
  <2>. QED BY <1>2, <2>2, <2>3
<1>8. ASSUME PoweredOff \/ \E p \in Peripherals : LinkLost(p)
      PROVE  listeners'[c][i] \in {q'[c].value, NoValue}
  <2>1. q' = q \/ \E v : q'[c] = DropOps(q[c], v)
    BY <1>8 DEF PoweredOff, LinkLost, OpsDropped
  <2>2. q'[c].value = q[c].value /\ listeners' = listeners
    BY <1>1, <1>8, <2>1, ValueKept DEF PoweredOff, LinkLost, app
  <2>. QED BY <1>2, <2>2
<1>9. ASSUME NEW p \in Peripherals, DidDiscoverCharacteristics(p)
      PROVE  listeners'[c][i] \in {q'[c].value, NoValue}
  <2>1. q'[c] = q[c] \/ q'[c] = [q[c] EXCEPT !.value = NoValue]
    BY <1>9 DEF DidDiscoverCharacteristics
  <2>2. q'[c].value \in {q[c].value, NoValue}
    BY <1>1, <2>1 DEF Requests
  <2>3. listeners' = listeners
    BY <1>9 DEF DidDiscoverCharacteristics
  <2>. QED BY <1>2, <2>2, <2>3
<1>10. ASSUME \/ UNCHANGED vars \/ PoweredOn
              \/ \E p \in Peripherals :
                    \/ Advertise(p) \/ DidDiscover(p) \/ DidConnect(p)
                    \/ DidDiscoverServices(p) \/ DiscoveryFailed(p)
       PROVE  listeners'[c][i] \in {q'[c].value, NoValue}
  <2>1. q' = q /\ listeners' = listeners
    BY <1>10 DEF vars, app, PoweredOn, Advertise, DidDiscover, DidConnect,
                 DidDiscoverServices, DiscoveryFailed
  <2>. QED BY <1>2, <2>1
<1>. QED BY Steps, <1>4, <1>5, <1>6, <1>7, <1>8, <1>9, <1>10

(* The listeners of a characteristic and the readers of its cached value   *)
(* never disagree, for any number of listeners, devices and links lost.    *)
THEOREM ListenersAgreeWithCache == Spec => []ListenersHearEveryValue
<1>1. Init => ListenersHearEveryValue
  BY DEF Init, ListenersHearEveryValue, EmptyQueues
<1>2. TypeOK /\ ListenersHearEveryValue /\ [Next]_vars => ListenersHearEveryValue'
  BY HeardNext
<1>. QED BY <1>1, <1>2, TypeCorrect, PTL DEF Spec

-----------------------------------------------------------------------------
(* What a caller of write is promised. *)

(* What a step of a record does to the three numbers of RequestPromise. *)
Submitted(r, s) ==
    /\ s.issued = r.issued + 1 /\ s.applied = r.applied
    /\ Completed(s) = Completed(r)

Advanced(r, s) ==
    /\ s.issued = r.issued /\ s.applied \in r.applied .. r.issued
    /\ Completed(s) \in {Completed(r), Completed(r) + 1}
    /\ Completed(s) <= s.applied

(* A request is one more write, and no closure runs. *)
LEMMA SubmitIsSubmitted ==
    ASSUME NEW n \in Nat, NEW r \in Requests(n), NEW handed \in BOOLEAN
    PROVE  Submitted(r, SubmitWrite(r, handed))
<1>. DEFINE cb == r.writeCallbacks
            id == r.issued + 1
            s  == SubmitWrite(r, handed)
<1>1. /\ s.issued = id /\ s.applied = r.applied /\ s.writeCallbacks = Append(cb, id)
  BY DEF SubmitWrite, Requests
<1>2. cb \in Seq(Nat) /\ r.issued \in Nat /\ id \in Nat
  BY WritesType
<1>3. Len(Append(cb, id)) = Len(cb) + 1 /\ Len(cb) \in Nat
  BY <1>2, AppendFacts
<1>4. Completed(r) = r.issued - Len(cb) /\ Completed(s) = id - (Len(cb) + 1)
  BY <1>1, <1>3 DEF Completed
<1>. DEFINE k     == r.issued
            m     == Len(cb)
            done  == Completed(r)
            done2 == Completed(s)
<1>5. Completed(s) = Completed(r)
  <2>1. k \in Nat /\ m \in Nat /\ done = k - m /\ done2 = (k + 1) - (m + 1)
    BY <1>2, <1>3, <1>4
  <2>. HIDE DEF k, m, done, done2
  <2>2. done = done2
    BY <2>1
  <2>. QED BY <2>2 DEF done, done2
<1>. QED BY <1>1, <1>5 DEF Submitted, s

(* A step that changes neither the writes requested nor the closures takes *)
(* the device no further than the writes requested.                        *)
LEMMA AdvanceOnly ==
    ASSUME NEW n \in Nat, NEW r \in Requests(n), ClosuresInOrder(r), NEW s,
           s.issued = r.issued, s.writeCallbacks = r.writeCallbacks,
           s.applied \in r.applied .. r.issued
    PROVE  Advanced(r, s)
<1>1. /\ r.issued \in Nat /\ r.applied \in Nat /\ r.writeCallbacks \in Seq(Nat)
      /\ Len(r.writeCallbacks) \in Nat
  BY WritesType, LenProperties
<1>2. Completed(s) = Completed(r)
  BY DEF Completed
<1>3. Completed(r) <= r.applied /\ Completed(r) \in Int
  BY <1>1 DEF ClosuresInOrder, InOrder, Completed
<1>4. Completed(r) <= s.applied
  <2>. DEFINE done == Completed(r)
              now  == s.applied
              old  == r.applied
              top  == r.issued
  <2>1. done <= old /\ done \in Int /\ now \in old .. top /\ old \in Nat /\ top \in Nat
    BY <1>1, <1>3
  <2>. HIDE DEF done, now, old, top
  <2>2. done <= now
    BY <2>1
  <2>. QED BY <2>2 DEF done, now
<1>. QED BY <1>2, <1>4 DEF Advanced

(* The answer to a write runs one closure or none, and none too early. *)
LEMMA AnswerIsAdvanced ==
    ASSUME NEW n \in Nat, NEW r \in Requests(n), r.writeOps # <<>>,
           NEW recognised \in BOOLEAN, ClosuresInOrder(r), AnswersAscend(r)
    PROVE  Advanced(r, WriteAnswered(r, recognised))
<1>. DEFINE cb  == r.writeCallbacks
            ops == r.writeOps
            s   == WriteAnswered(r, recognised)
<1>1. /\ s.issued = r.issued /\ s.applied = Head(ops)
      /\ s.writeCallbacks = IF recognised /\ Len(cb) > 0 THEN Tail(cb) ELSE cb
  BY DEF WriteAnswered, Requests
<1>2. /\ cb \in Seq(Nat) /\ ops \in Seq(Nat) /\ Len(cb) \in Nat
      /\ r.issued \in Nat /\ r.applied \in Nat
      /\ Head(ops) = ops[1] /\ 1 \in 1 .. Len(ops) /\ ops[1] \in Nat
  <2>1. cb \in Seq(Nat) /\ ops \in Seq(Nat) /\ r.issued \in Nat /\ r.applied \in Nat
    BY WritesType
  <2>2. Len(ops) \in Nat /\ Len(ops) > 0 /\ Head(ops) = ops[1] /\ Head(ops) \in Nat
    BY <2>1, TailFacts
  <2>. QED BY <2>1, <2>2, LenProperties
<1>3. r.applied < ops[1] /\ ops[1] <= r.issued
  BY <1>2 DEF AnswersAscend, ClosuresInOrder, InOrder
<1>4. ClosuresInOrder(s)
  BY WriteAnsweredOrder
<1>. HIDE DEF s
<1>5. Len(s.writeCallbacks) \in {Len(cb), Len(cb) - 1}
  <2>1. CASE recognised /\ Len(cb) > 0
    <3>1. cb # << >> /\ s.writeCallbacks = Tail(cb)
      BY <1>1, <2>1
    <3>. QED BY <1>2, <3>1, TailFacts
  <2>2. CASE ~(recognised /\ Len(cb) > 0)
    <3>1. s.writeCallbacks = cb
      BY <1>1, <2>2
    <3>. QED BY <3>1
  <2>. QED BY <2>1, <2>2
<1>6. /\ Completed(s) = r.issued - Len(s.writeCallbacks)
      /\ Completed(r) = r.issued - Len(cb)
  BY <1>1 DEF Completed
<1>7. Completed(s) <= s.applied
  BY <1>4 DEF ClosuresInOrder, InOrder, Completed
<1>8. Completed(s) \in {Completed(r), Completed(r) + 1}
  <2>. DEFINE k     == r.issued
              m     == Len(cb)
              m2    == Len(s.writeCallbacks)
              done  == Completed(r)
              done2 == Completed(s)
  <2>1. k \in Nat /\ m \in Nat /\ m2 \in {m, m - 1} /\ done = k - m /\ done2 = k - m2
    BY <1>2, <1>5, <1>6
  <2>. HIDE DEF k, m, m2, done, done2
  <2>2. done2 \in {done, done + 1}
    BY <2>1
  <2>. QED BY <2>2 DEF done, done2
<1>9. s.applied \in r.applied .. r.issued
  BY <1>1, <1>2, <1>3
<1>. QED BY <1>1, <1>7, <1>8, <1>9 DEF Advanced, s

(* With the link the outstanding writes go, of which the device may have   *)
(* processed some.                                                         *)
LEMMA DropIsAdvanced ==
    ASSUME NEW n \in Nat, NEW r \in Requests(n), NEW v \in ReportableValues(r),
           ClosuresInOrder(r), AnswersAscend(r)
    PROVE  Advanced(r, DropOps(r, v))
<1>. DEFINE s == DropOps(r, v)
<1>1. s.issued = r.issued /\ s.writeCallbacks = r.writeCallbacks /\ s.applied = v
  BY DEF DropOps, Requests
<1>2. /\ r.writeOps \in Seq(Nat) /\ r.issued \in Nat /\ r.applied \in Nat
      /\ Len(r.writeOps) \in Nat
  BY WritesType, LenProperties
<1>3. v = r.applied \/ \E i \in 1 .. Len(r.writeOps) : v = r.writeOps[i]
  BY <1>2, LenProperties DEF ReportableValues, Range
<1>4. /\ r.applied <= r.issued
      /\ \A i \in 1 .. Len(r.writeOps) :
            r.writeOps[i] \in Nat /\ r.applied < r.writeOps[i] /\ r.writeOps[i] <= r.issued
  BY <1>2, ElementOfSeq DEF AnswersAscend, ClosuresInOrder, InOrder
<1>5. v \in r.applied .. r.issued
  BY <1>2, <1>3, <1>4
<1>. HIDE DEF s
<1>6. Advanced(r, s)
  BY <1>1, <1>5, AdvanceOnly
<1>. QED BY <1>6 DEF s

(* A step of BluetoothManager does one of these to each characteristic. *)
LEMMA WritesAdvance ==
    ASSUME TypeOK, IndInv, [Next]_vars, NEW c \in Characteristics
    PROVE  \/ q[c].issued < MaxWrites /\ Submitted(q[c], q'[c])
           \/ Advanced(q[c], q'[c])
<1>. DEFINE n == MaxWrites
            Goal == \/ q[c].issued < n /\ Submitted(q[c], q'[c])
                    \/ Advanced(q[c], q'[c])
<1>1. /\ n \in Nat /\ q[c] \in Requests(n) /\ DOMAIN q = Characteristics
      /\ ClosuresInOrder(q[c]) /\ AnswersAscend(q[c])
  BY BoundsAssumption DEF TypeOK, IndInv
<1>2. ASSUME q'[c].issued = q[c].issued, q'[c].applied = q[c].applied,
             q'[c].writeCallbacks = q[c].writeCallbacks
      PROVE  Goal
  <2>1. q[c].applied \in q[c].applied .. q[c].issued
    BY <1>1, WritesType DEF ClosuresInOrder, InOrder
  <2>. QED BY <1>1, <1>2, <2>1, AdvanceOnly
<1>3. ASSUME \/ q'[c] = q[c]
             \/ \E handed \in BOOLEAN : q'[c] = SubmitRead(q[c], handed)
             \/ q'[c] = ReadAnswered(q[c]) \/ q'[c] = ReadFailed(q[c])
             \/ \E v : q'[c] = Notified(q[c], v)
             \/ q'[c] = [q[c] EXCEPT !.value = NoValue]
      PROVE  Goal
  <2>1. /\ q'[c].issued = q[c].issued /\ q'[c].applied = q[c].applied
        /\ q'[c].writeCallbacks = q[c].writeCallbacks
    BY <1>1, <1>3, ReadsTouchNoWrite
  <2>. QED BY <1>2, <2>1
<1>4. ASSUME NEW d \in Characteristics, Write(d) PROVE Goal
  <2>1. PICK handed \in BOOLEAN : q' = [q EXCEPT ![d] = SubmitWrite(q[d], handed)]
    BY <1>4, MayBeHandedType DEF Write
  <2>2. CASE d = c
    <3>1. q[c].issued < n /\ q'[c] = SubmitWrite(q[c], handed)
      BY <1>1, <1>4, <2>1, <2>2 DEF Write
    <3>. QED BY <1>1, <3>1, SubmitIsSubmitted
  <2>3. CASE d # c
    BY <1>1, <1>3, <2>1, <2>3
  <2>. QED BY <2>2, <2>3
<1>5. ASSUME NEW d \in Characteristics, DidWriteValue(d) PROVE Goal
  <2>1. \/ q'[c] = q[c]
        \/ q[c].writeOps # << >> /\ q'[c] = WriteAnswered(q[c], c \in Recognised)
    BY <1>1, <1>5 DEF DidWriteValue, WriteIsNext
  <2>2. (c \in Recognised) \in BOOLEAN
    OBVIOUS
  <2>. QED BY <1>1, <1>3, <2>1, <2>2, AnswerIsAdvanced
<1>6. ASSUME NEW d \in Characteristics,
             Read(d) \/ DidReadValue(d) \/ DidFailToRead(d) \/ DidNotify(d)
      PROVE  Goal
  <2>1. \/ q'[c] = q[c]
        \/ \E handed \in BOOLEAN : q'[c] = SubmitRead(q[c], handed)
        \/ q'[c] = ReadAnswered(q[c]) \/ q'[c] = ReadFailed(q[c])
        \/ \E v : q'[c] = Notified(q[c], v)
    BY <1>1, <1>6, MayBeHandedType DEF Read, DidReadValue, DidFailToRead, DidNotify
  <2>. QED BY <1>3, <2>1
<1>7. ASSUME PoweredOff \/ \E p \in Peripherals : LinkLost(p) PROVE Goal
  <2>1. q' = q \/ \E v \in ReportableValues(q[c]) : q'[c] = DropOps(q[c], v)
    BY <1>7 DEF PoweredOff, LinkLost, OpsDropped
  <2>. QED BY <1>1, <1>3, <2>1, DropIsAdvanced
<1>8. ASSUME NEW p \in Peripherals, DidDiscoverCharacteristics(p) PROVE Goal
  BY <1>3, <1>8 DEF DidDiscoverCharacteristics
<1>9. ASSUME \/ UNCHANGED vars \/ PoweredOn
             \/ \E d \in Characteristics : Subscribe(d)
             \/ \E p \in Peripherals :
                   \/ Advertise(p) \/ DidDiscover(p) \/ DidConnect(p)
                   \/ DidDiscoverServices(p) \/ DiscoveryFailed(p)
      PROVE  Goal
  <2>1. q' = q
    BY <1>9 DEF vars, PoweredOn, Subscribe, Advertise, DidDiscover, DidConnect,
                DidDiscoverServices, DiscoveryFailed
  <2>. QED BY <1>3, <2>1
<1>. QED BY Steps, <1>4, <1>5, <1>6, <1>7, <1>8, <1>9

(* The manager keeps its promise to a caller of write, for every           *)
(* characteristic: closures run one at a time, in the order of the calls,  *)
(* once each, and none before the device is done with its write, whatever  *)
(* links are lost.                                                         *)
THEOREM PromiseKept == Spec => KeepsPromise
<1>1. Init => Promise!Init
  <2>. SUFFICES ASSUME Init PROVE Promise!Init
    OBVIOUS
  <2>1. q[char] = EmptyQueues
    BY CharAssumption DEF Init
  <2>. QED BY <2>1 DEF EmptyQueues, Completed, Promise!Init
<1>2. TypeOK /\ IndInv /\ [Next]_vars => [Promise!Next]_(Promise!vars)
  <2>. SUFFICES ASSUME TypeOK, IndInv, [Next]_vars PROVE Promise!Next
    OBVIOUS
  <2>1. CASE q[char].issued < MaxWrites /\ Submitted(q[char], q'[char])
    BY <2>1 DEF Submitted, Promise!Next, Promise!Submit
  <2>2. CASE Advanced(q[char], q'[char])
    BY <2>2 DEF Advanced, Promise!Next, Promise!Advance
  <2>. QED BY <2>1, <2>2, CharAssumption, WritesAdvance
<1>. QED BY <1>1, <1>2, TypeCorrect, Invariance, PTL DEF Spec, Promise!Spec, KeepsPromise

-----------------------------------------------------------------------------
(* What a screen meets that uses one characteristic. *)

(* What RequestChannel calls up. *)
IsUp == connectedPeripheral \in ready /\ characteristicMap[char] = connectedPeripheral

(* RequestChannel means the same operations on a record. *)
LEMMA SameOperations ==
    ASSUME NEW r
    PROVE  /\ \A b : /\ Channel!SubmitWrite(r, b) = SubmitWrite(r, b)
                     /\ Channel!SubmitRead(r, b) = SubmitRead(r, b)
                     /\ Channel!WriteAnswered(r, b) = WriteAnswered(r, b)
                     /\ Channel!ServedFromCache(r, b) <=> ServedFromCache(r, b)
                     /\ Channel!Notified(r, b) = Notified(r, b)
                     /\ Channel!DropOps(r, b) = DropOps(r, b)
           /\ Channel!ReadAnswered(r) = ReadAnswered(r)
           /\ Channel!ReadFailed(r) = ReadFailed(r)
           /\ Channel!WriteIsNext(r) <=> WriteIsNext(r)
           /\ Channel!ReadIsNext(r) <=> ReadIsNext(r)
           /\ Channel!ReportableValues(r) = ReportableValues(r)
           /\ Channel!NoValue = NoValue /\ Channel!EmptyQueues = EmptyQueues
<1>1. /\ Channel!NoValue = NoValue
      /\ Channel!EmptyQueues = EmptyQueues
      /\ Channel!Latest(r) = Latest(r)
      /\ Channel!ReportableValues(r) = ReportableValues(r)
  <2>1. Channel!NoValue = NoValue
    BY DEF Channel!NoValue, NoValue
  <2>2. Channel!EmptyQueues = EmptyQueues
    BY <2>1 DEF Channel!EmptyQueues, EmptyQueues
  <2>3. Channel!Latest(r) = Latest(r)
    BY DEF Channel!Latest, Latest
  <2>4. Channel!ReportableValues(r) = ReportableValues(r)
    BY DEF Channel!ReportableValues, ReportableValues, Channel!Range, Range
  <2>. QED BY <2>1, <2>2, <2>3, <2>4
<1>2. /\ Channel!WriteIsNext(r) <=> WriteIsNext(r)
      /\ Channel!ReadIsNext(r) <=> ReadIsNext(r)
      /\ \A b : Channel!ServedFromCache(r, b) <=> ServedFromCache(r, b)
  BY <1>1 DEF Channel!WriteIsNext, WriteIsNext, Channel!ReadIsNext, ReadIsNext,
              Channel!ServedFromCache, ServedFromCache
<1>3. /\ \A b : Channel!SubmitWrite(r, b) = SubmitWrite(r, b)
      /\ \A b : Channel!WriteAnswered(r, b) = WriteAnswered(r, b)
      /\ \A b : Channel!DropOps(r, b) = DropOps(r, b)
  BY DEF Channel!SubmitWrite, SubmitWrite, Channel!WriteAnswered, WriteAnswered,
         Channel!DropOps, DropOps
<1>4. \A b : Channel!SubmitRead(r, b) = SubmitRead(r, b)
  BY <1>1 DEF Channel!SubmitRead, SubmitRead
<1>5. /\ \A b : Channel!Notified(r, b) = Notified(r, b)
      /\ Channel!ReadAnswered(r) = ReadAnswered(r)
      /\ Channel!ReadFailed(r) = ReadFailed(r)
  BY DEF Channel!Notified, Notified, Channel!ReadAnswered, ReadAnswered,
         Channel!ReadFailed, ReadFailed, Channel!HandleUpdate, HandleUpdate
<1>. QED BY <1>1, <1>2, <1>3, <1>4, <1>5

(* A request for a characteristic that is up is delivered. *)
LEMMA HandedWhenUp ==
    ASSUME TypeOK, RadioInv
    PROVE  MayBeHanded(char) \subseteq Channel!Handed
<1>1. ASSUME IsUp PROVE MayBeHanded(char) = {TRUE}
  <2>1. connectedPeripheral \in Peripherals /\ Up(connectedPeripheral)
    BY <1>1 DEF IsUp, TypeOK, RadioInv
  <2>. QED BY <1>1, <2>1, NoneAssumption DEF IsUp, MayBeHanded
<1>2. Channel!Handed = IF IsUp THEN {TRUE} ELSE BOOLEAN
  BY DEF Channel!Handed, IsUp
<1>. QED BY <1>1, <1>2 DEF MayBeHanded

(* A request, an answer or a notification is one of the channel, if it is  *)
(* for its characteristic.                                                 *)
LEMMA ChannelRequests ==
    ASSUME TypeOK, RadioInv, NEW c \in Characteristics,
           Write(c) \/ Read(c) \/ DidWriteValue(c) \/ DidReadValue(c)
             \/ DidFailToRead(c) \/ DidNotify(c)
    PROVE  [Channel!Next]_(Channel!vars)
<1>1. /\ DOMAIN q = Characteristics /\ char \in Characteristics
      /\ UNCHANGED <<connectedPeripheral, characteristicMap, ready>>
  BY CharAssumption
  DEF TypeOK, Write, Read, DidWriteValue, DidReadValue, DidFailToRead, DidNotify, app, radio
<1>2. CASE c # char
  <2>1. q'[char] = q[char]
    BY <1>1, <1>2 DEF Write, Read, DidWriteValue, DidReadValue, DidFailToRead, DidNotify
  <2>. QED BY <1>1, <2>1 DEF Channel!vars
<1>3. CASE Write(char)
  <2>1. PICK handed \in Channel!Handed : q'[char] = SubmitWrite(q[char], handed)
    BY <1>1, <1>3, HandedWhenUp DEF Write
  <2>2. Channel!Write
    BY <1>1, <1>3, <2>1, SameOperations DEF Write, Channel!Write
  <2>. QED BY <2>2 DEF Channel!Next
<1>4. CASE Read(char)
  <2>1. PICK handed \in Channel!Handed : q'[char] = SubmitRead(q[char], handed)
    BY <1>1, <1>4, HandedWhenUp DEF Read
  <2>2. Channel!Read
    BY <1>1, <1>4, <2>1, SameOperations DEF Read, Channel!Read
  <2>. QED BY <2>2 DEF Channel!Next
<1>5. CASE DidWriteValue(char)
  <2>1. Channel!AnswerWrite
    BY <1>1, <1>5, SameOperations DEF DidWriteValue, Channel!AnswerWrite
  <2>. QED BY <2>1 DEF Channel!Next
<1>6. CASE DidReadValue(char)
  <2>1. Channel!AnswerRead
    BY <1>1, <1>6, SameOperations DEF DidReadValue, Channel!AnswerRead
  <2>. QED BY <2>1 DEF Channel!Next
<1>7. CASE DidFailToRead(char)
  <2>1. Channel!FailRead
    BY <1>1, <1>7, SameOperations DEF DidFailToRead, Channel!FailRead
  <2>. QED BY <2>1 DEF Channel!Next
<1>8. CASE DidNotify(char)
  <2>1. PICK v \in ReportableValues(q[char]) : q'[char] = Notified(q[char], v)
    BY <1>1, <1>8 DEF DidNotify
  <2>2. IsUp /\ char \in Notifying
    BY <1>1, <1>8 DEF DidNotify, IsUp, RadioInv, TypeOK
  <2>3. Channel!Notify
    BY <1>1, <2>1, <2>2, SameOperations DEF IsUp, Channel!Notify
  <2>. QED BY <2>3 DEF Channel!Next
<1>. QED BY <1>2, <1>3, <1>4, <1>5, <1>6, <1>7, <1>8

(* A step of the radio connects the channel, disconnects it, or is none of *)
(* its concern.                                                            *)
LEMMA ChannelRadio ==
    ASSUME TypeOK, RadioInv,
           \/ PoweredOn \/ PoweredOff
           \/ \E p \in Peripherals :
                 \/ Advertise(p) \/ DidDiscover(p) \/ DidConnect(p) \/ LinkLost(p)
                 \/ DidDiscoverServices(p) \/ DidDiscoverCharacteristics(p)
                 \/ DiscoveryFailed(p)
    PROVE  [Channel!Next]_(Channel!vars)
<1>1. DOMAIN q = Characteristics /\ char \in Characteristics
  BY CharAssumption DEF TypeOK
<1>2. ASSUME OpsDropped(q, q'), ~IsUp', characteristicMap' = characteristicMap
      PROVE  [Channel!Next]_(Channel!vars)
  <2>1. PICK v \in ReportableValues(q[char]) : q'[char] = DropOps(q[char], v)
    BY <1>1, <1>2 DEF OpsDropped
  <2>2. Channel!Disconnect
    BY <1>2, <2>1, SameOperations DEF IsUp, Channel!Disconnect
  <2>. QED BY <2>2 DEF Channel!Next
<1>3. CASE PoweredOff
  <2>1. ~IsUp' /\ OpsDropped(q, q') /\ characteristicMap' = characteristicMap
    BY <1>3 DEF PoweredOff, IsUp, app
  <2>. QED BY <1>2, <2>1
<1>4. ASSUME NEW p \in Peripherals, LinkLost(p) PROVE [Channel!Next]_(Channel!vars)
  <2>1. /\ ready' = ready \ {p}
        /\ UNCHANGED <<connectedPeripheral, characteristicMap>>
    BY <1>4 DEF LinkLost, app
  <2>2. CASE p = connectedPeripheral
    <3>1. ~IsUp' /\ OpsDropped(q, q')
      BY <1>4, <2>1, <2>2 DEF LinkLost, IsUp
    <3>. QED BY <1>2, <2>1, <3>1
  <2>3. CASE p # connectedPeripheral
    <3>1. q' = q /\ (connectedPeripheral' \in ready' <=> connectedPeripheral \in ready)
      BY <1>4, <2>1, <2>3 DEF LinkLost
    <3>. QED BY <2>1, <3>1 DEF Channel!vars
  <2>. QED BY <2>2, <2>3
<1>5. ASSUME NEW p \in Peripherals, DidDiscover(p) PROVE [Channel!Next]_(Channel!vars)
  <2>1. ready = {} /\ ready' = ready /\ q' = q /\ characteristicMap' = characteristicMap
    BY <1>5 DEF DidDiscover, RadioInv, TypeOK
  <2>. QED BY <2>1 DEF Channel!vars
<1>6. ASSUME NEW p \in Peripherals, DidDiscoverCharacteristics(p)
      PROVE  [Channel!Next]_(Channel!vars)
  <2>1. /\ p = connectedPeripheral' /\ p \in ready' /\ characteristicMap'[char] = p
        /\ p # None
    BY <1>1, <1>6, NoneAssumption DEF DidDiscoverCharacteristics, RadioInv
  <2>2. q'[char] = q[char] \/ q'[char] = [q[char] EXCEPT !.value = NoValue]
    BY <1>1, <1>6 DEF DidDiscoverCharacteristics
  <2>3. Channel!Connect
    BY <2>1, <2>2, SameOperations DEF Channel!Connect
  <2>. QED BY <2>3 DEF Channel!Next
<1>7. ASSUME \/ PoweredOn
             \/ \E p \in Peripherals :
                   Advertise(p) \/ DidConnect(p) \/ DidDiscoverServices(p) \/ DiscoveryFailed(p)
      PROVE  [Channel!Next]_(Channel!vars)
  <2>1. UNCHANGED <<connectedPeripheral, characteristicMap, ready, q>>
    BY <1>7 DEF PoweredOn, Advertise, DidConnect, DidDiscoverServices, DiscoveryFailed, app
  <2>. QED BY <2>1 DEF Channel!vars
<1>. QED BY <1>3, <1>4, <1>5, <1>6, <1>7

(* BluetoothManager implements RequestChannel, the module that the screens *)
(* of the gauge layout are specified over, for every characteristic: what  *)
(* is shown of the screens over RequestChannel holds over the manager.     *)
THEOREM ChannelImplemented == Spec => ImplementsChannel
<1>1. Init => Channel!Init
  <2>. SUFFICES ASSUME Init PROVE Channel!Init
    OBVIOUS
  <2>1. q[char] = EmptyQueues /\ ready = {} /\ characteristicMap[char] = None
    BY CharAssumption DEF Init
  <2>. QED BY <2>1, SameOperations DEF Channel!Init
<1>2. TypeOK /\ IndInv /\ [Next]_vars => [Channel!Next]_(Channel!vars)
  <2>. SUFFICES ASSUME TypeOK, RadioInv, [Next]_vars
                PROVE  [Channel!Next]_(Channel!vars)
    BY DEF IndInv
  <2>1. ASSUME UNCHANGED vars \/ \E c \in Characteristics : Subscribe(c)
        PROVE  [Channel!Next]_(Channel!vars)
    <3>1. UNCHANGED <<connectedPeripheral, characteristicMap, ready, q>>
      BY <2>1 DEF vars, app, radio, Subscribe
    <3>. QED BY <3>1 DEF Channel!vars
  <2>. QED BY <2>1, Steps, ChannelRequests, ChannelRadio
<1>. QED BY <1>1, <1>2, TypeCorrect, Invariance, PTL DEF Spec, Channel!Spec, ImplementsChannel
=============================================================================
