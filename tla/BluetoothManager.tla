-------------------------- MODULE BluetoothManager --------------------------
(***************************************************************************)
(* The app's only way to the engine computer: Managers/BluetoothManager    *)
(* with the CoreBluetooth framework and the devices it talks to.           *)
(*                                                                         *)
(* The central manager is created with queue: nil, so every delegate       *)
(* method and every call of the app runs on the main thread: a handler is  *)
(* one atomic action, and what interleaves is their order.  CoreBluetooth  *)
(* is external and modelled from what the handlers see of it.              *)
(***************************************************************************)
EXTENDS RequestQueues

CONSTANTS
    Peripherals,      \* devices that offer the app's service
    None,             \* nil
    Characteristics,  \* characteristics the app reads and writes
    Notifying,        \* those whose properties contain .notify
    Recognised,       \* those whose printed UUID is a rawValue of the enum
    MaxWrites,        \* bound: writes per characteristic
    MaxReads,         \* bound: outstanding reads per characteristic
    MaxListeners,     \* bound: closures subscribed per characteristic
    MaxLosses,        \* bound: links lost, and times Bluetooth is turned off
    MaxErrors         \* bound: discoveries and reads that fail

ASSUME NoneAssumption == None \notin Peripherals
ASSUME CharacteristicsAssumption == /\ Notifying \subseteq Characteristics
                                    /\ Recognised \subseteq Characteristics
ASSUME BoundsAssumption == /\ MaxWrites \in Nat
                           /\ MaxReads \in Nat
                           /\ MaxListeners \in Nat
                           /\ MaxLosses \in Nat
                           /\ MaxErrors \in Nat

VARIABLES
    connectedPeripheral,  \* the last device discovered, or None
    characteristicMap,    \* per characteristic, the device its object is of
    state,                \* the Observable the status line shows
    listeners,            \* per characteristic, the closures subscribed, each
                          \* as the value it was last called with, or NoValue
    q,                    \* per characteristic, a record of RequestQueues
    \* CoreBluetooth:
    poweredOn, scanning,
    found,                \* didDiscover events on their way to the app
    link,                 \* per device: see LinkStates
    ready,                \* devices whose characteristics are discovered
    \* history:
    losses, errors

app     == <<connectedPeripheral, characteristicMap, state, listeners>>
radio   == <<poweredOn, scanning, found, link, ready>>
history == <<losses, errors>>
vars    == <<app, q, radio, history>>

(* "services" and "characteristics" are a connected device with that       *)
(* discovery outstanding.                                                  *)
LinkStates == {"idle", "connecting", "connected", "services", "characteristics"}
Up(p) == link[p] \notin {"idle", "connecting"}

(* The members of BluetoothState that the manager ever sends; it has five  *)
(* more, for a radio that is off, on or searching and for a connection     *)
(* that is active or stalled.                                              *)
BluetoothState == {"unknown", "connecting", "connected"}

Init ==
    /\ connectedPeripheral = None
    /\ characteristicMap = [c \in Characteristics |-> None]
    /\ state = "unknown"
    /\ listeners = [c \in Characteristics |-> <<>>]
    /\ q = [c \in Characteristics |-> EmptyQueues]
    /\ poweredOn = FALSE /\ scanning = FALSE
    /\ found = {}
    /\ link = [p \in Peripherals |-> "idle"]
    /\ ready = {}
    /\ losses = 0 /\ errors = 0

-----------------------------------------------------------------------------
(* Requests of the app. *)

(* What becomes of a request for c: CoreBluetooth takes it if the object   *)
(* belongs to the current connection of connectedPeripheral; if the device *)
(* has been reconnected and not discovered yet, it may or may not accept   *)
(* the object of the previous connection; otherwise it drops it silently.  *)
MayBeHanded(c) ==
    LET p == connectedPeripheral IN
    IF p = None \/ characteristicMap[c] # p THEN {FALSE}
    ELSE IF ~Up(p) THEN {FALSE}
    ELSE IF p \in ready THEN {TRUE} ELSE BOOLEAN

(* Mutant: the guard on characteristicMap is dropped. *)
Write_Unguarded(c) ==
    /\ q[c].issued < MaxWrites
    /\ \E handed \in MayBeHanded(c) : q' = [q EXCEPT ![c] = SubmitWrite(@, handed)]
    /\ UNCHANGED <<app, radio, history>>

(* write(data:forCharacteristic:_:).  The closure is appended behind a     *)
(* guard on characteristicMap alone; the write it goes with has one more,  *)
(* on connectedPeripheral.                                                 *)
Write(c) ==
    /\ characteristicMap[c] # None
    /\ q[c].issued < MaxWrites
    /\ \E handed \in MayBeHanded(c) : q' = [q EXCEPT ![c] = SubmitWrite(@, handed)]
    /\ UNCHANGED <<app, radio, history>>

(* read(characteristic:_:), when it is not answered from the cache. *)
Read(c) ==
    /\ characteristicMap[c] # None /\ connectedPeripheral # None
    /\ ~ServedFromCache(q[c], c \in Notifying)
    /\ Len(q[c].readCallbacks) < MaxReads /\ Len(q[c].readOps) < MaxReads
    /\ \E handed \in MayBeHanded(c) : q' = [q EXCEPT ![c] = SubmitRead(@, handed)]
    /\ UNCHANGED <<app, radio, history>>

(* subscribe(to:_:): no guard, and nobody unsubscribes. *)
Subscribe(c) ==
    /\ Len(listeners[c]) < MaxListeners
    /\ listeners' = [listeners EXCEPT ![c] = Append(@, NoValue)]
    /\ UNCHANGED <<connectedPeripheral, characteristicMap, state, q, radio, history>>

-----------------------------------------------------------------------------
(* CBCentralManagerDelegate. *)

(* Every outstanding request of every characteristic is dropped. *)
OpsDropped(old, new) ==
    \E v \in [Characteristics -> 0 .. MaxWrites] :
        /\ \A c \in Characteristics : v[c] \in ReportableValues(old[c])
        /\ new = [c \in Characteristics |-> DropOps(old[c], v[c])]

(* Mutant: the scan is shown. *)
PoweredOn_Searching ==
    /\ ~poweredOn
    /\ poweredOn' = TRUE /\ scanning' = TRUE
    /\ state' = "searching"
    /\ UNCHANGED <<connectedPeripheral, characteristicMap, listeners, q, found, link,
                   ready, history>>

(* centralManagerDidUpdateState, .poweredOn: scan. *)
PoweredOn ==
    /\ ~poweredOn
    /\ poweredOn' = TRUE /\ scanning' = TRUE
    /\ UNCHANGED <<app, q, found, link, ready, history>>

(* centralManagerDidUpdateState, any other state: the handler prints; the  *)
(* framework has dropped every connection.                                 *)
PoweredOff ==
    /\ poweredOn /\ losses < MaxLosses
    /\ poweredOn' = FALSE /\ scanning' = FALSE
    /\ found' = {} /\ ready' = {}
    /\ link' = [p \in Peripherals |-> "idle"]
    /\ OpsDropped(q, q')
    /\ losses' = losses + 1
    /\ UNCHANGED <<app, errors>>

(* A device in range is seen while the scan is on. *)
Advertise(p) ==
    /\ scanning /\ link[p] = "idle" /\ p \notin found
    /\ found' = found \union {p}
    /\ UNCHANGED <<app, q, poweredOn, scanning, link, ready, history>>

(* Mutant: a device is taken only if there was none before. *)
DidDiscover_FirstOnly(p) ==
    /\ p \in found
    /\ found' = found \ {p}
    /\ IF connectedPeripheral = None
       THEN /\ state' = "connecting" /\ connectedPeripheral' = p
            /\ scanning' = FALSE
            /\ link' = [link EXCEPT ![p] = "connecting"]
       ELSE UNCHANGED <<state, connectedPeripheral, scanning, link>>
    /\ UNCHANGED <<characteristicMap, listeners, q, poweredOn, ready, history>>

(* centralManager(_:didDiscover:...): take the device, whichever the last  *)
(* one was, stop the scan and connect.                                     *)
DidDiscover(p) ==
    /\ p \in found
    /\ found' = found \ {p}
    /\ state' = "connecting"
    /\ connectedPeripheral' = p
    /\ scanning' = FALSE
    /\ link' = [link EXCEPT ![p] = "connecting"]
    /\ UNCHANGED <<characteristicMap, listeners, q, poweredOn, ready, history>>

(* Mutant: services are asked of the device that connected. *)
DidConnect_OfArgument(p) ==
    /\ link[p] = "connecting" /\ found = {}
    /\ link' = [link EXCEPT ![p] = "services"]
    /\ UNCHANGED <<app, q, poweredOn, scanning, found, ready, history>>

(* centralManager(_:didConnect:): services are asked of                    *)
(* connectedPeripheral, not of the device that connected; the framework    *)
(* ignores the call for a device that is not connected.  The sightings of  *)
(* the scan were sent before this event and are delivered before it.       *)
DidConnect(p) ==
    /\ link[p] = "connecting" /\ found = {}
    /\ LET connected == [link EXCEPT ![p] = "connected"]
           cp == connectedPeripheral
       IN  link' = IF cp # None /\ connected[cp] \notin {"idle", "connecting"}
                   THEN [connected EXCEPT ![cp] = "services"]
                   ELSE connected
    /\ UNCHANGED <<app, q, poweredOn, scanning, found, ready, history>>

(* The link to a device is lost, or cannot be established.  The app        *)
(* implements neither didDisconnectPeripheral nor didFailToConnect:        *)
(* nothing of its own state changes.                                       *)
LinkLost(p) ==
    /\ link[p] # "idle" /\ losses < MaxLosses
    /\ link' = [link EXCEPT ![p] = "idle"]
    /\ ready' = ready \ {p}
    /\ IF p = connectedPeripheral THEN OpsDropped(q, q') ELSE UNCHANGED q
    /\ losses' = losses + 1
    /\ UNCHANGED <<app, poweredOn, scanning, found, errors>>

(* shutdown(): a write without response, behind the same two guards, which *)
(* changes nothing here.  A device that gets it obeys, and is gone.        *)
Shutdown ==
    /\ connectedPeripheral # None
    /\ \A c \in Characteristics : TRUE \in MayBeHanded(c)
    /\ LinkLost(connectedPeripheral)

-----------------------------------------------------------------------------
(* CBPeripheralDelegate. *)

(* peripheral(_:didDiscoverServices:) *)
DidDiscoverServices(p) ==
    /\ link[p] = "services"
    /\ link' = [link EXCEPT ![p] = "characteristics"]
    /\ UNCHANGED <<app, q, poweredOn, scanning, found, ready, history>>

(* peripheral(_:didDiscoverCharacteristicsFor:error:): the objects of this *)
(* connection replace those of any other.  They are new, with no value,    *)
(* unless this connection was discovered before.                           *)
DidDiscoverCharacteristics(p) ==
    /\ link[p] = "characteristics"
    /\ link' = [link EXCEPT ![p] = "connected"]
    /\ ready' = ready \union {p}
    /\ state' = "connected"
    /\ characteristicMap' = [c \in Characteristics |-> p]
    /\ q' = IF p \in ready THEN q
            ELSE [c \in Characteristics |-> [q[c] EXCEPT !.value = NoValue]]
    /\ UNCHANGED <<connectedPeripheral, listeners, poweredOn, scanning, found, history>>

(* Either discovery ends without a list: the handler returns, and nothing  *)
(* asks again.                                                             *)
DiscoveryFailed(p) ==
    /\ link[p] \in {"services", "characteristics"} /\ errors < MaxErrors
    /\ link' = [link EXCEPT ![p] = "connected"]
    /\ errors' = errors + 1
    /\ UNCHANGED <<app, q, poweredOn, scanning, found, ready, losses>>

(* peripheral(_:didWriteValueFor:error:) *)
DidWriteValue(c) ==
    /\ WriteIsNext(q[c])
    /\ q' = [q EXCEPT ![c] = WriteAnswered(@, c \in Recognised)]
    /\ UNCHANGED <<app, radio, history>>

(* Mutant: the error is not looked at, and the closures get the old value. *)
DidFailToRead_Handled(c) ==
    /\ ReadIsNext(q[c]) /\ errors < MaxErrors
    /\ q' = [q EXCEPT ![c] = HandleUpdate(ReadFailed(@), @.value)]
    /\ errors' = errors + 1
    /\ UNCHANGED <<app, radio, losses>>

(* handleUpdate calls every listener with the new value, before the read   *)
(* closures.                                                               *)
Hear(c, v) == listeners' = [listeners EXCEPT ![c] = [i \in DOMAIN @ |-> v]]

(* Mutant: listeners are called for notifications only. *)
DidReadValue_NotHeard(c) ==
    /\ ReadIsNext(q[c])
    /\ q' = [q EXCEPT ![c] = ReadAnswered(@)]
    /\ UNCHANGED <<app, radio, history>>

(* peripheral(_:didUpdateValueFor:error:), for a read *)
DidReadValue(c) ==
    /\ ReadIsNext(q[c])
    /\ q' = [q EXCEPT ![c] = ReadAnswered(@)]
    /\ Hear(c, Head(q[c].readOps))
    /\ UNCHANGED <<connectedPeripheral, characteristicMap, state, radio, history>>

DidFailToRead(c) ==
    /\ ReadIsNext(q[c]) /\ errors < MaxErrors
    /\ q' = [q EXCEPT ![c] = ReadFailed(@)]
    /\ errors' = errors + 1
    /\ UNCHANGED <<app, radio, losses>>

(* Mutant: a listener is called once and forgotten, as a read closure is. *)
DidNotify_Once(c) ==
    /\ c \in Notifying
    /\ connectedPeripheral \in ready
    /\ \E v \in ReportableValues(q[c]) :
          /\ q' = [q EXCEPT ![c] = Notified(@, v)]
          /\ listeners' = [listeners EXCEPT ![c] = [i \in DOMAIN @ |->
                               IF @[i] = NoValue THEN v ELSE @[i]]]
    /\ UNCHANGED <<connectedPeripheral, characteristicMap, state, radio, history>>

(* peripheral(_:didUpdateValueFor:error:), for a notification: every       *)
(* discovery turns them on, for the device it discovers.                   *)
DidNotify(c) ==
    /\ c \in Notifying
    /\ connectedPeripheral \in ready
    /\ \E v \in ReportableValues(q[c]) : /\ q' = [q EXCEPT ![c] = Notified(@, v)]
                                          /\ Hear(c, v)
    /\ UNCHANGED <<connectedPeripheral, characteristicMap, state, radio, history>>

-----------------------------------------------------------------------------
Next ==
    \/ PoweredOn \/ PoweredOff \/ Shutdown
    \/ \E p \in Peripherals :
          \/ Advertise(p) \/ DidDiscover(p) \/ DidConnect(p) \/ LinkLost(p)
          \/ DidDiscoverServices(p) \/ DidDiscoverCharacteristics(p)
          \/ DiscoveryFailed(p)
    \/ \E c \in Characteristics :
          \/ Write(c) \/ Read(c) \/ Subscribe(c)
          \/ DidWriteValue(c) \/ DidReadValue(c) \/ DidFailToRead(c)
          \/ DidNotify(c)

Spec == Init /\ [][Next]_vars

(* The main thread serves its events, devices in range advertise and       *)
(* answer.  Nothing is assumed of the user or of failures.                 *)
Fairness ==
    /\ WF_vars(PoweredOn)
    /\ \A p \in Peripherals :
          /\ WF_vars(Advertise(p)) /\ WF_vars(DidDiscover(p))
          /\ WF_vars(DidConnect(p)) /\ WF_vars(DidDiscoverServices(p))
          /\ WF_vars(DidDiscoverCharacteristics(p))
    /\ \A c \in Characteristics :
          /\ WF_vars(DidWriteValue(c)) /\ WF_vars(DidReadValue(c))

FairSpec == Spec /\ Fairness

(* A device that notifies goes on notifying, as the engine computer does. *)
StreamingSpec == FairSpec /\ \A c \in Notifying : WF_vars(DidNotify(c))
-----------------------------------------------------------------------------
(* Properties. *)

(* The types of the state, the history and the bounds; of the eight states *)
(* that BluetoothState declares, the manager sends three.                  *)
TypeOK ==
    /\ connectedPeripheral \in Peripherals \union {None}
    /\ characteristicMap \in [Characteristics -> Peripherals \union {None}]
    /\ state \in BluetoothState
    /\ listeners \in [Characteristics -> Seq(0 .. MaxWrites \union {NoValue})]
    /\ \A c \in Characteristics : Len(listeners[c]) <= MaxListeners
    /\ q \in [Characteristics -> Requests(MaxWrites)]
    /\ poweredOn \in BOOLEAN /\ scanning \in BOOLEAN
    /\ found \subseteq Peripherals
    /\ link \in [Peripherals -> LinkStates]
    /\ ready \subseteq Peripherals
    /\ losses \in 0 .. MaxLosses /\ errors \in 0 .. MaxErrors

(* didWriteValueFor does not say which write it answers, and the manager   *)
(* runs whatever closure is the oldest.  Even so a closure never runs      *)
(* before the answer to its own write if that answer is still to come: a   *)
(* write closure runs only at an answer, at that to its own write or to a  *)
(* later one, and at that to a later one only if a link was lost and with  *)
(* it the answer to its own.  (In that last case the caller is told that   *)
(* its write is done although the device may never have seen it.)          *)
WrongClosureOnlyIfDropped ==
    [][\A c \in Characteristics :
          \A id \in Range(q[c].writeCallbacks) \ Range(q'[c].writeCallbacks) :
              /\ q[c].writeOps # <<>> /\ q'[c].writeOps = Tail(q[c].writeOps)
              /\ LET answered == Head(q[c].writeOps)
                 IN  \/ id = answered
                     \/ /\ id < answered /\ losses > 0
                        /\ id \notin Range(q[c].writeOps)]_vars

(* As long as no link was lost, the closures that wait are those of the    *)
(* writes the device still has to answer, one by one and in order: each    *)
(* runs at the answer to its own write and none is left behind.  (A device *)
(* whose printed UUID is not recognised answers in vain.)                  *)
WritesStrandedOnlyByLoss ==
    \A c \in Recognised :
        losses = 0 => q[c].writeCallbacks = q[c].writeOps

(* A read closure is left without an outstanding read only by a lost link  *)
(* or by a read that failed.                                               *)
ReadsForgottenOnlyByFault ==
    \A c \in Characteristics :
        ReadStranded(q[c]) => losses > 0 \/ errors > 0

(* A read closure that was registered when no other read was outstanding   *)
(* gets a value at least as new as every write requested before the read,  *)
(* unless a link was lost meanwhile or the characteristic notifies.  (One  *)
(* that joins an outstanding read is answered by that read: it may miss    *)
(* writes that were requested in between.)                                 *)
ReadsAreFresh ==
    [][\A c \in Characteristics \ Notifying :
          q[c].readCallbacks # <<>> /\ q'[c].readCallbacks = <<>> =>
              \A i \in DOMAIN q[c].readCallbacks :
                  q[c].readCallbacks[i].alone =>
                      q'[c].value >= q[c].readCallbacks[i].asOf]_vars

(* The status line says Connected only when requests get through, as long  *)
(* as no link was lost: connectedPeripheral is up and every characteristic *)
(* is one of its own, also when several devices were in range.             *)
Usable == /\ connectedPeripheral \in ready
          /\ \A c \in Characteristics : characteristicMap[c] = connectedPeripheral

StatusIsHonest == losses = 0 /\ state = "connected" => Usable

(* Whatever happened before, a scan ends with a device that can be used,   *)
(* unless something else goes wrong: turning Bluetooth off and on is a way *)
(* out of every failure.                                                   *)
ScanEndsUsable ==
    \A m \in 0 .. MaxLosses, n \in 0 .. MaxErrors :
        scanning /\ losses = m /\ errors = n
            ~> Usable \/ losses > m \/ errors > n

(* The listeners of a characteristic and the readers of its cached value   *)
(* never disagree: as long as CoreBluetooth has a value, a listener was    *)
(* last called with that value, also when it came as the answer to         *)
(* somebody's read; or it subscribed since, and was called with nothing.   *)
ListenersHearEveryValue ==
    \A c \in Characteristics : q[c].value # NoValue =>
        Range(listeners[c]) \subseteq {q[c].value, NoValue}

(* Whatever happened before, a scan ends with every listener being called  *)
(* with what the device reports now, without subscribing again, unless     *)
(* something else goes wrong.                                              *)
ScanFeedsListeners ==
    \A m \in 0 .. MaxLosses, n \in 0 .. MaxErrors :
        scanning /\ losses = m /\ errors = n ~>
            \/ /\ Usable
               /\ \A c \in Notifying : /\ q[c].value # NoValue
                                       /\ Range(listeners[c]) \subseteq {q[c].value}
            \/ losses > m \/ errors > n

(* Whatever happens to links: a scan is only on while no link is up, the   *)
(* device is chosen before any is connected, only that device is           *)
(* discovered, and what is known of it are characteristics of its own.     *)
RadioInv ==
    /\ ~poweredOn \/ scanning => \A p \in Peripherals : link[p] = "idle"
    /\ ~poweredOn => ~scanning /\ found = {}
    /\ \A p \in Peripherals :
          /\ Up(p) => found = {}
          /\ link[p] \in {"services", "characteristics"} => p = connectedPeripheral
          /\ p \in ready => /\ Up(p) /\ p = connectedPeripheral
                            /\ \A c \in Characteristics : characteristicMap[c] = p

(* While no link was lost: nothing is known before a device is up. *)
LinkInv ==
    /\ ~poweredOn \/ scanning => connectedPeripheral = None
    /\ \A c \in Characteristics : characteristicMap[c] # None => Usable
    /\ state = "connected" => Usable

(* The inductive invariant behind WrongClosureOnlyIfDropped,               *)
(* WritesStrandedOnlyByLoss, ReadsForgottenOnlyByFault and StatusIsHonest: *)
(* order among closures and answers whatever happens, and an exact match   *)
(* of closures and answers while nothing went wrong.  ReadsAreFresh and    *)
(* what a caller sees of one characteristic follow from it as well.        *)
IndInv ==
    /\ \A c \in Characteristics : /\ ClosuresInOrder(q[c])
                                   /\ AnswersAscend(q[c]) /\ AloneIsFresh(q[c])
    /\ RadioInv
    /\ losses = 0 => LinkInv
    /\ WritesStrandedOnlyByLoss
    /\ ReadsForgottenOnlyByFault

(* Whatever was lost or failed before: once a read is on its way, every    *)
(* closure that waits for a value is run, those of older reads included,   *)
(* unless something else goes wrong.                                       *)
EveryReadAnswered ==
    \A m \in 0 .. MaxLosses, n \in 0 .. MaxErrors, c \in Characteristics :
        q[c].readOps # <<>> /\ losses = m /\ errors = n
            ~> q[c].readCallbacks = <<>> \/ losses > m \/ errors > n
=============================================================================
