-------------------------- MODULE ThresholdsProofs --------------------------
(***************************************************************************)
(* Proofs about Thresholds, for any stored thresholds, any range of the    *)
(* stepper, a characteristic that notifies or not, and any bounds.         *)
(***************************************************************************)
EXTENDS Thresholds, RequestQueuesProofs

-----------------------------------------------------------------------------
(* The channel. *)

(* The operations that RequestChannel uses are those of RequestQueues. *)
LEMMA SameOperations ==
    ASSUME NEW r
    PROVE  /\ \A b : /\ Channel!SubmitRead(r, b) = SubmitRead(r, b)
                     /\ Channel!ServedFromCache(r, b) <=> ServedFromCache(r, b)
                     /\ Channel!Notified(r, b) = Notified(r, b)
                     /\ Channel!DropOps(r, b) = DropOps(r, b)
           /\ Channel!ReadAnswered(r) = ReadAnswered(r)
           /\ Channel!ReadFailed(r) = ReadFailed(r)
           /\ Channel!ReadIsNext(r) <=> ReadIsNext(r)
           /\ Channel!ReportableValues(r) = ReportableValues(r)
           /\ Channel!NoValue = NoValue /\ Channel!EmptyQueues = EmptyQueues
<1>1. Channel!NoValue = NoValue
  BY DEF Channel!NoValue, NoValue
<1>2. Channel!EmptyQueues = EmptyQueues
  BY <1>1 DEF Channel!EmptyQueues, EmptyQueues
<1>3. Channel!Latest(r) = Latest(r)
  BY DEF Channel!Latest, Latest
<1>4. Channel!ReportableValues(r) = ReportableValues(r)
  BY DEF Channel!ReportableValues, ReportableValues, Channel!Range, Range
<1>5. /\ Channel!ReadIsNext(r) <=> ReadIsNext(r)
      /\ \A b : Channel!ServedFromCache(r, b) <=> ServedFromCache(r, b)
  BY <1>1 DEF Channel!ReadIsNext, ReadIsNext, Channel!ServedFromCache, ServedFromCache
<1>6. \A b : Channel!DropOps(r, b) = DropOps(r, b)
  BY DEF Channel!DropOps, DropOps
<1>7. \A b : Channel!SubmitRead(r, b) = SubmitRead(r, b)
  BY <1>3 DEF Channel!SubmitRead, SubmitRead
<1>8. /\ \A b : Channel!Notified(r, b) = Notified(r, b)
      /\ Channel!ReadAnswered(r) = ReadAnswered(r)
      /\ Channel!ReadFailed(r) = ReadFailed(r)
  BY DEF Channel!Notified, Notified, Channel!ReadAnswered, ReadAnswered,
         Channel!ReadFailed, ReadFailed, Channel!HandleUpdate, HandleUpdate
<1>. QED BY <1>1, <1>2, <1>4, <1>5, <1>6, <1>7, <1>8

ChannelType == q \in Requests(0) /\ up \in BOOLEAN /\ mapped \in BOOLEAN

(* Finding the device changes no closure. *)
LEMMA ConnectFacts ==
    ASSUME ChannelType, Channel!Connect
    PROVE  ChannelType' /\ q'.readCallbacks = q.readCallbacks
<1>1. q' \in {q, [q EXCEPT !.value = NoValue]} /\ up' = TRUE /\ mapped' = TRUE
  BY SameOperations DEF Channel!Connect
<1>. QED BY <1>1 DEF ChannelType, Requests, NoValue

(* A lost link drops no closure. *)
LEMMA DisconnectFacts ==
    ASSUME ChannelType, Channel!Disconnect
    PROVE  ChannelType' /\ (q.readCallbacks # <<>> => q'.readCallbacks # <<>>)
<1>1. PICK v \in ReportableValues(q) : q' = DropOps(q, v)
  BY SameOperations DEF Channel!Disconnect
<1>2. up' = FALSE /\ mapped' = mapped
  BY DEF Channel!Disconnect
<1>3. v \in 0 .. 0
  BY <1>1, ReportableType DEF ChannelType
<1>4. q' \in Requests(0)
  BY <1>1, <1>3, DropOpsType DEF ChannelType
<1>5. ASSUME q.readCallbacks # <<>> PROVE q'.readCallbacks # <<>>
  <2>. DEFINE cb == q.readCallbacks
              late == [i \in DOMAIN cb |-> [cb[i] EXCEPT !.alone = FALSE]]
  <2>1. q'.readCallbacks = late
    BY <1>1 DEF DropOps, ChannelType, Requests
  <2>2. cb \in Seq(ReadClosures(0)) /\ cb # << >>
    BY <1>5 DEF ChannelType, Requests
  <2>3. Len(cb) \in Nat /\ Len(cb) > 0 /\ DOMAIN cb = 1 .. Len(cb)
    BY <2>2, TailFacts, LenProperties
  <2>4. DOMAIN late # {} /\ DOMAIN << >> = {}
    BY <2>3
  <2>. QED BY <2>1, <2>4
<1>. QED BY <1>2, <1>4, <1>5 DEF ChannelType

(* A read registers its closure, whether CoreBluetooth takes it or not. *)
LEMMA ReadFacts ==
    ASSUME ChannelType, Channel!Read
    PROVE  ChannelType' /\ q'.readCallbacks # <<>>
<1>1. PICK handed \in BOOLEAN : q' = SubmitRead(q, handed)
  BY SameOperations DEF Channel!Read, Channel!Handed
<1>2. q' \in Requests(0) /\ up' = up /\ mapped' = mapped
  BY <1>1, SubmitReadType DEF ChannelType, Channel!Read
<1>3. PICK closure \in ReadClosures(0) : q'.readCallbacks = Append(q.readCallbacks, closure)
  <2>. DEFINE closure == [asOf |-> Latest(q), alone |-> q.readOps = <<>> /\ handed]
  <2>1. q'.readCallbacks = Append(q.readCallbacks, closure)
    BY <1>1 DEF SubmitRead, ChannelType, Requests
  <2>2. closure \in ReadClosures(0)
    BY LatestType DEF ReadClosures, ChannelType
  <2>. QED BY <2>1, <2>2
<1>4. q.readCallbacks \in Seq(ReadClosures(0))
  BY DEF ChannelType, Requests
<1>5. Len(q'.readCallbacks) = Len(q.readCallbacks) + 1 /\ Len(q.readCallbacks) \in Nat
  BY <1>3, <1>4, AppendFacts
<1>6. Len(q'.readCallbacks) # 0
  BY <1>5
<1>. QED BY <1>2, <1>6 DEF ChannelType

(* A read that fails leaves every closure where it is. *)
LEMMA FailReadFacts ==
    ASSUME ChannelType, Channel!FailRead
    PROVE  ChannelType' /\ q'.readCallbacks = q.readCallbacks
<1>1. q.readOps # <<>> /\ q' = ReadFailed(q) /\ up' = up /\ mapped' = mapped
  BY SameOperations DEF Channel!FailRead, ReadIsNext
<1>. QED BY <1>1, ReadFailedType DEF ChannelType, ReadFailed, Requests

(* An answer or a notification keeps the types. *)
LEMMA AnswerType ==
    ASSUME ChannelType, Channel!AnswerRead \/ Channel!Notify
    PROVE  ChannelType'
<1>1. CASE Channel!AnswerRead
  <2>1. q.readOps # <<>> /\ q' = ReadAnswered(q) /\ up' = up /\ mapped' = mapped
    BY <1>1, SameOperations DEF Channel!AnswerRead, ReadIsNext
  <2>. QED BY <2>1, ReadAnsweredType DEF ChannelType
<1>2. CASE Channel!Notify
  <2>1. up' = up /\ mapped' = mapped
    BY <1>2 DEF Channel!Notify
  <2>2. PICK v \in ReportableValues(q) : q' = Notified(q, v)
    BY <1>2, SameOperations DEF Channel!Notify
  <2>3. q' \in Requests(0)
    BY <2>2, ReportableType, HandleUpdateType DEF Notified, ChannelType
  <2>. QED BY <2>1, <2>3 DEF ChannelType
<1>. QED BY <1>1, <1>2

-----------------------------------------------------------------------------
(* The types and the controls. *)

EditorInv ==
    /\ model \in [Types -> ThresholdItem] /\ controls \in [Types -> Controls]
    /\ ControlsShowModel

ScreenType ==
    /\ created \in BOOLEAN /\ awaiting \in BOOLEAN
    /\ hasFetchedData \in BOOLEAN /\ missed \in BOOLEAN
    /\ top \in {"settings", "list", "editor"} /\ appeared \in BOOLEAN
    /\ losses \in 0 .. MaxLosses

(* The configuration of the singleton: it is fetched, or awaited with a    *)
(* closure, or was missed when the singleton was created.                  *)
FetchInv ==
    /\ ~created => ~awaiting /\ ~hasFetchedData /\ ~missed
    /\ missed => ~awaiting /\ ~hasFetchedData
    /\ awaiting => q.readCallbacks # <<>>
    /\ created /\ ~missed => hasFetchedData \/ awaiting

(* A touch of one type's control shows what it does. *)
LEMMA TouchShows ==
    ASSUME EditorInv, NEW t \in Types, NEW value \in ThresholdItem, NEW shown \in Controls,
           shown.toggle = value.enabled, shown.stepper = value.value,
           shown.text \in {value.value, Typed},
           value.greaterThan # Stored[t].greaterThan =>
               shown.segment = Segment(value.greaterThan),
           Touch(t, value, shown)
    PROVE  EditorInv'
<1>1. /\ model' = [model EXCEPT ![t] = value]
      /\ controls' = [controls EXCEPT ![t] = shown]
  BY DEF Touch
<1>2. /\ model' \in [Types -> ThresholdItem] /\ controls' \in [Types -> Controls]
      /\ model'[t] = value /\ controls'[t] = shown
      /\ \A u \in Types \ {t} : model'[u] = model[u] /\ controls'[u] = controls[u]
  BY <1>1 DEF EditorInv
<1>3. ControlsShowModel'
  BY <1>2 DEF EditorInv, ControlsShowModel
<1>. QED BY <1>2, <1>3 DEF EditorInv

(* The editor, when it appears, shows the stored threshold. *)
LEMMA AppearShows ==
    ASSUME NEW segment \in [Types -> 0 .. 1], WillAppear(segment)
    PROVE  EditorInv'
<1>1. model' = Stored /\ controls' = [t \in Types |-> Shows(t, segment[t])]
  BY DEF WillAppear
<1>2. \A t \in Types : Shows(t, segment[t]) \in Controls
  BY StoredAssumption DEF Shows, Controls, ThresholdItem
<1>3. model' \in [Types -> ThresholdItem] /\ controls' \in [Types -> Controls]
  BY <1>1, <1>2, StoredAssumption
<1>4. ControlsShowModel'
  BY <1>1 DEF ControlsShowModel, Shows
<1>. QED BY <1>3, <1>4 DEF EditorInv

(* Every touch of a control keeps the editor's invariant. *)
LEMMA ControlStep ==
    ASSUME EditorInv, NEW t \in Types,
           \/ Toggle(t) \/ Type(t)
           \/ \E segment \in 0 .. 1 : Choose(t, segment)
           \/ \E value \in {controls[t].stepper - 1, controls[t].stepper + 1} :
                 Step(t, value)
    PROVE  EditorInv'
<1>1. /\ model[t] \in ThresholdItem /\ controls[t] \in Controls
      /\ controls[t].toggle = model[t].enabled
      /\ controls[t].stepper = model[t].value
      /\ controls[t].text \in {model[t].value, Typed}
      /\ model[t].greaterThan # Stored[t].greaterThan =>
            controls[t].segment = Segment(model[t].greaterThan)
  BY DEF EditorInv, ControlsShowModel
<1>2. CASE Toggle(t)
  <2>. DEFINE on == ~controls[t].toggle
              value == [model[t] EXCEPT !.enabled = on]
              shown == [controls[t] EXCEPT !.toggle = on]
  <2>1. on \in BOOLEAN
    OBVIOUS
  <2>2. Touch(t, value, shown)
    BY <1>2 DEF Toggle
  <2>. HIDE DEF on
  <2>3. value \in ThresholdItem /\ shown \in Controls
    BY <1>1, <2>1 DEF ThresholdItem, Controls
  <2>4. /\ value.enabled = on /\ value.value = model[t].value
        /\ value.greaterThan = model[t].greaterThan
        /\ shown.toggle = on /\ shown.text = controls[t].text
        /\ shown.stepper = controls[t].stepper /\ shown.segment = controls[t].segment
    BY <1>1 DEF ThresholdItem, Controls
  <2>. HIDE DEF value, shown
  <2>. QED BY <1>1, <2>2, <2>3, <2>4, TouchShows
<1>3. CASE Type(t)
  <2>. DEFINE shown == [controls[t] EXCEPT !.text = Typed]
  <2>1. shown \in Controls
    BY <1>1 DEF Controls
  <2>2. /\ shown.toggle = controls[t].toggle /\ shown.text = Typed
        /\ shown.stepper = controls[t].stepper /\ shown.segment = controls[t].segment
    BY <1>1 DEF Controls
  <2>3. Touch(t, model[t], shown)
    BY <1>3 DEF Type
  <2>. HIDE DEF shown
  <2>. QED BY <1>1, <2>1, <2>2, <2>3, TouchShows
<1>4. ASSUME NEW segment \in 0 .. 1, Choose(t, segment) PROVE EditorInv'
  <2>. DEFINE greater == (segment = 0)
              value == [model[t] EXCEPT !.greaterThan = greater]
              shown == [controls[t] EXCEPT !.segment = segment]
  <2>1. greater \in BOOLEAN /\ Segment(greater) = segment
    BY DEF Segment
  <2>2. Touch(t, value, shown)
    BY <1>4 DEF Choose
  <2>. HIDE DEF greater
  <2>3. value \in ThresholdItem /\ shown \in Controls
    BY <1>1, <2>1 DEF ThresholdItem, Controls
  <2>4. /\ value.enabled = model[t].enabled /\ value.value = model[t].value
        /\ value.greaterThan = greater
        /\ shown.toggle = controls[t].toggle /\ shown.text = controls[t].text
        /\ shown.stepper = controls[t].stepper /\ shown.segment = segment
    BY <1>1 DEF ThresholdItem, Controls
  <2>. HIDE DEF value, shown
  <2>. QED BY <1>1, <2>1, <2>2, <2>3, <2>4, TouchShows
<1>5. ASSUME NEW v, Step(t, v) PROVE EditorInv'
  <2>. DEFINE value == [model[t] EXCEPT !.value = v]
              shown == [controls[t] EXCEPT !.stepper = v, !.text = v]
  <2>1. v \in 0 .. High /\ Touch(t, value, shown)
    BY <1>5 DEF Step, StepTo
  <2>2. value \in ThresholdItem /\ shown \in Controls
    BY <1>1, <2>1 DEF ThresholdItem, Controls
  <2>3. /\ value.enabled = model[t].enabled /\ value.value = v
        /\ value.greaterThan = model[t].greaterThan
        /\ shown.toggle = controls[t].toggle /\ shown.text = v
        /\ shown.stepper = v /\ shown.segment = controls[t].segment
    BY <1>1 DEF ThresholdItem, Controls
  <2>. HIDE DEF value, shown
  <2>. QED BY <1>1, <2>1, <2>2, <2>3, TouchShows
<1>. QED BY <1>2, <1>3, <1>4, <1>5

-----------------------------------------------------------------------------
(* The invariant, step by step. *)

Inv == ChannelType /\ ScreenType /\ EditorInv /\ FetchInv

(* The initial state satisfies it. *)
LEMMA InvInit == Init => Inv
<1>. SUFFICES ASSUME Init PROVE Inv
  OBVIOUS
<1>1. ChannelType
  BY SameOperations, EmptyQueuesType DEF Init, Channel!Init, ChannelType
<1>2. ScreenType
  <2>1. losses \in 0 .. MaxLosses
    BY BoundsAssumption DEF Init
  <2>2. top \in {"settings", "list", "editor"}
    BY DEF Init
  <2>. QED BY <2>1, <2>2 DEF Init, ScreenType
<1>3. \A t \in Types : Shows(t, 0) \in Controls
  BY StoredAssumption DEF Shows, Controls, ThresholdItem
<1>4. EditorInv
  BY <1>3, StoredAssumption DEF Init, EditorInv, ControlsShowModel, Shows
<1>5. FetchInv
  BY DEF Init, FetchInv
<1>. QED BY <1>1, <1>2, <1>4, <1>5 DEF Inv

(* So does what the link and its answers do: a closure is lost only when   *)
(* an answer runs it, and an answer runs all of them.                      *)
LEMMA LinkStep ==
    ASSUME Inv, Connect \/ LinkLost \/ DidFailToRead \/ DidRead \/ DidNotify
    PROVE  Inv'
<1>. USE DEF Inv
<1>1. UNCHANGED <<created, missed, top, appeared, editor>>
  BY DEF Connect, LinkLost, DidFailToRead, DidRead, DidNotify, DidUpdateValue, Fault,
         singleton
<1>2. EditorInv'
  BY <1>1 DEF EditorInv, ControlsShowModel, editor
<1>3. CASE Connect \/ LinkLost \/ DidFailToRead
  <2>1. ChannelType' /\ (q.readCallbacks # <<>> => q'.readCallbacks # <<>>)
    BY <1>3, ConnectFacts, DisconnectFacts, FailReadFacts
    DEF Connect, LinkLost, DidFailToRead, Fault
  <2>2. UNCHANGED singleton /\ losses' \in 0 .. MaxLosses
    BY <1>3, BoundsAssumption DEF Connect, LinkLost, DidFailToRead, Fault, ScreenType
  <2>3. ScreenType'
    BY <1>1, <2>2 DEF ScreenType, singleton
  <2>4. FetchInv'
    BY <2>1, <2>2 DEF FetchInv, singleton
  <2>. QED BY <1>2, <2>1, <2>3, <2>4
<1>4. CASE DidRead \/ DidNotify
  <2>1. ChannelType'
    BY <1>4, AnswerType DEF DidRead, DidNotify
  <2>2. /\ hasFetchedData' = (hasFetchedData \/ awaiting) /\ awaiting' = FALSE
        /\ losses' = losses
    BY <1>4 DEF DidRead, DidNotify, DidUpdateValue
  <2>3. hasFetchedData' \in BOOLEAN
    BY <2>2
  <2>4. ScreenType'
    BY <1>1, <2>2, <2>3 DEF ScreenType
  <2>5. FetchInv'
    BY <1>1, <2>2 DEF FetchInv
  <2>. QED BY <1>2, <2>1, <2>4, <2>5
<1>. QED BY <1>3, <1>4

(* So does the creation of the singleton: it registers a closure, is       *)
(* answered at once, or misses the device.                                 *)
LEMMA ShowListStep ==
    ASSUME Inv, ShowList
    PROVE  Inv'
<1>. USE DEF Inv
<1>1. /\ created' = TRUE /\ top' = "list" /\ appeared' = FALSE
      /\ UNCHANGED editor /\ losses' = losses
  BY DEF ShowList, Create
<1>2. EditorInv'
  BY <1>1 DEF EditorInv, ControlsShowModel, editor
<1>3. CASE created
  <2>1. UNCHANGED <<channel, awaiting, hasFetchedData, missed>>
    BY <1>3 DEF ShowList, Create
  <2>. QED BY <1>1, <1>2, <1>3, <2>1 DEF ChannelType, ScreenType, FetchInv, channel
<1>4. CASE ~created
  <2>1. /\ Read /\ missed' = ~mapped
        /\ awaiting' = (mapped /\ ~Cached) /\ hasFetchedData' = Cached
    BY <1>4 DEF ShowList, Create
  <2>2. ChannelType' /\ (mapped /\ ~Cached => q'.readCallbacks # <<>>)
    <3>1. CASE mapped /\ ~Cached
      BY <2>1, <3>1, ReadFacts DEF Read
    <3>2. CASE ~(mapped /\ ~Cached)
      BY <2>1, <3>2 DEF Read, channel, ChannelType
    <3>. QED BY <3>1, <3>2
  <2>3. Cached \in BOOLEAN /\ (Cached => mapped) /\ mapped \in BOOLEAN
    BY DEF Cached, ChannelType
  <2>. HIDE DEF Cached
  <2>4. ScreenType'
    BY <1>1, <2>1, <2>3 DEF ScreenType
  <2>5. FetchInv'
    BY <1>1, <2>1, <2>2, <2>3 DEF FetchInv
  <2>. QED BY <1>2, <2>2, <2>4, <2>5
<1>. QED BY <1>3, <1>4 DEF ScreenType

(* So do the other steps of the screens. *)
LEMMA ScreenStep ==
    ASSUME Inv, DidAppear \/ Select \/ Reappear \/ Back
    PROVE  Inv'
<1>. USE DEF Inv
<1>1. UNCHANGED singleton /\ losses' = losses
  BY DEF DidAppear, Select, Reappear, Back
<1>2. top' \in {"settings", "list", "editor"} /\ appeared' \in BOOLEAN
  BY DEF DidAppear, Select, Reappear, Back, ScreenType
<1>3. ScreenType'
  BY <1>1, <1>2 DEF ScreenType, singleton
<1>4. ChannelType' /\ (q.readCallbacks # <<>> => q'.readCallbacks # <<>>)
  <2>1. CASE UNCHANGED channel
    BY <2>1 DEF channel, ChannelType
  <2>2. CASE Channel!Read
    BY <2>2, ReadFacts
  <2>. QED BY <2>1, <2>2 DEF DidAppear, Select, Reappear, Back, Read
<1>5. FetchInv'
  BY <1>1, <1>4 DEF FetchInv, singleton
<1>6. EditorInv'
  <2>1. CASE UNCHANGED editor
    BY <2>1 DEF editor, EditorInv, ControlsShowModel
  <2>2. ASSUME NEW segment \in [Types -> 0 .. 1], WillAppear(segment) PROVE EditorInv'
    BY <2>2, AppearShows
  <2>3. /\ [t \in Types |-> 0] \in [Types -> 0 .. 1]
        /\ [t \in Types |-> controls[t].segment] \in [Types -> 0 .. 1]
    BY DEF EditorInv, Controls
  <2>. QED BY <2>1, <2>2, <2>3 DEF DidAppear, Select, Reappear, Back
<1>. QED BY <1>3, <1>4, <1>5, <1>6

(* Every step keeps the invariant. *)
LEMMA InvNext == Inv /\ [Next]_vars => Inv'
<1>. SUFFICES ASSUME Inv, [Next]_vars PROVE Inv'
  OBVIOUS
<1>1. CASE UNCHANGED vars
  BY <1>1 DEF vars, channel, singleton, editor, Inv, ChannelType, ScreenType, EditorInv,
              ControlsShowModel, FetchInv
<1>2. ASSUME NEW t \in Types,
             \/ Toggle(t) \/ Type(t)
             \/ \E segment \in 0 .. 1 : Choose(t, segment)
             \/ \E value \in {controls[t].stepper - 1, controls[t].stepper + 1} :
                   Step(t, value)
      PROVE  Inv'
  <2>1. EditorInv'
    BY <1>2, ControlStep DEF Inv
  <2>2. UNCHANGED <<channel, singleton, top, appeared, losses>>
    BY <1>2 DEF Toggle, Type, Choose, Step, StepTo, Touch
  <2>. QED BY <2>1, <2>2 DEF Inv, ChannelType, ScreenType, FetchInv, channel, singleton
<1>. QED BY <1>1, <1>2, LinkStep, ShowListStep, ScreenStep DEF Next

(* Every reachable state satisfies the invariant. *)
THEOREM Invariance == Spec => []Inv
BY InvInit, InvNext, PTL DEF Spec

-----------------------------------------------------------------------------
(* What follows from it. *)

(* The threshold screens, the singleton and the channel never leave their  *)
(* types; in particular the stepper stays within its limits.               *)
THEOREM TypeCorrect == Spec => []TypeOK
<1>1. Inv => TypeOK
  BY DEF Inv, ChannelType, ScreenType, EditorInv, TypeOK
<1>. QED BY <1>1, Invariance, PTL

(* The controls show the view models, however often the editor appears.    *)
THEOREM ControlsFollow == Spec => []ControlsShowModel
<1>1. Inv => ControlsShowModel
  BY DEF Inv, EditorInv
<1>. QED BY <1>1, Invariance, PTL

(* The configuration is fetched, or awaited with a closure that the next   *)
(* answer runs, or was missed for good.                                    *)
THEOREM FetchNotForgotten == Spec => []FetchIsPending
<1>1. Inv => FetchIsPending
  BY DEF Inv, FetchInv, FetchIsPending
<1>. QED BY <1>1, Invariance, PTL
=============================================================================
