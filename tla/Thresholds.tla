----------------------------- MODULE Thresholds -----------------------------
(***************************************************************************)
(* The threshold screens: the list of items, the editor of one item, the   *)
(* singleton ThresholdConfigManager that reads its configuration when it   *)
(* is created, and the thresholdConfig characteristic (RequestChannel).    *)
(*                                                                         *)
(* At this commit the thresholds are fixed, only rpm has one, nothing is   *)
(* sent to the device and of the answer only the arrival is recorded; the  *)
(* editor works on a copy.  Values are counted in steps of the stepper     *)
(* from its minimum.                                                       *)
(***************************************************************************)
EXTENDS RequestQueues

CONSTANTS
    Types,        \* members of ThresholdType: warning, critical
    Stored,       \* the threshold of rpm: an item per type
    High,         \* the largest value
    Typed,        \* a text the user typed into the input field
    Notifies,     \* BOOLEAN: the characteristic notifies
    MaxReads,     \* bound: read closures, and reads, before one more read
    MaxLosses     \* bound: links lost and reads failed

ThresholdItem == [enabled : BOOLEAN, greaterThan : BOOLEAN, value : 0 .. High]

(* The xib selects the first segment, which stands for "greater than", as  *)
(* both thresholds of rpm do.                                              *)
ASSUME StoredAssumption ==
    /\ Notifies \in BOOLEAN /\ High \in Nat /\ Typed \notin 0 .. High
    /\ Stored \in [Types -> ThresholdItem]
    /\ \A t \in Types : Stored[t].greaterThan

ASSUME BoundsAssumption == MaxLosses \in Nat

VARIABLES
    q, up, mapped,    \* the channel: see RequestChannel
    created,          \* the singleton exists
    awaiting,         \* its read closure is registered
    hasFetchedData,   \* its read was answered
    missed,           \* history: the device was unknown when it was created
    top,              \* the screen on top: "settings", "list" or "editor"
    appeared,         \* the list has appeared
    model,            \* the view models of the editor, per type
    controls,         \* its views, per type
    losses

(* These screens write nothing: whether the answer to a write would find   *)
(* its closure makes no difference.                                        *)
Channel == INSTANCE RequestChannel WITH Recognised <- TRUE

channel   == <<q, up, mapped>>
singleton == <<created, awaiting, hasFetchedData, missed>>
editor    == <<model, controls>>
vars == <<channel, singleton, top, appeared, editor, losses>>

(* The segment that stands for a direction. *)
Segment(greaterThan) == IF greaterThan THEN 0 ELSE 1

(* didSet of EditThresholdView.viewModel: setEnabled(_:forSegmentAt:) makes *)
(* a segment usable and does not select it.                                *)
Shows(t, segment) ==
    [toggle |-> Stored[t].enabled, segment |-> segment,
     text |-> Stored[t].value, stepper |-> Stored[t].value]

Init ==
    /\ Channel!Init
    /\ created = FALSE /\ awaiting = FALSE
    /\ hasFetchedData = FALSE /\ missed = FALSE
    /\ top = "settings" /\ appeared = FALSE
    /\ model = Stored /\ controls = [t \in Types |-> Shows(t, 0)]
    /\ losses = 0

-----------------------------------------------------------------------------
(* The link and its answers. *)

Connect ==
    /\ ~up /\ Channel!Connect
    /\ UNCHANGED <<singleton, top, appeared, editor, losses>>

Fault(step) ==
    /\ losses < MaxLosses /\ losses' = losses + 1
    /\ step
    /\ UNCHANGED <<singleton, top, appeared, editor>>

(* Also between reconnecting and the discovery, while the channel is down. *)
LinkLost == Fault(mapped /\ Channel!Disconnect)

DidFailToRead == Fault(Channel!FailRead)

(* Mutant: an answer runs one closure, the newest, as the no-op of the     *)
(* list may be.                                                            *)
DidUpdateValue_NewestOnly ==
    /\ hasFetchedData' = (hasFetchedData \/ (awaiting /\ Len(q.readCallbacks) = 1))
    /\ awaiting' = FALSE
    /\ UNCHANGED <<created, missed, top, appeared, editor, losses>>

(* Every closure runs: that of the singleton, and the no-ops of the list.  *)
DidUpdateValue ==
    /\ hasFetchedData' = (hasFetchedData \/ awaiting)
    /\ awaiting' = FALSE
    /\ UNCHANGED <<created, missed, top, appeared, editor, losses>>

DidRead == Channel!AnswerRead /\ DidUpdateValue

DidNotify == Channel!Notify /\ DidUpdateValue

-----------------------------------------------------------------------------
(* The screens. *)

(* read: at once with the value that was last notified, or by an answer;   *)
(* dropped if the characteristic was never discovered.                     *)
Cached == mapped /\ ServedFromCache(q, Notifies)

Read == IF mapped /\ ~Cached THEN Channel!Read ELSE UNCHANGED channel

(* Mutant: the answer at once is not told apart from an answer to come.    *)
Create_Waits ==
    /\ created' = TRUE
    /\ IF created THEN UNCHANGED <<channel, awaiting, hasFetchedData, missed>>
       ELSE /\ Read
            /\ missed' = ~mapped /\ awaiting' = mapped
            /\ UNCHANGED hasFetchedData

(* ThresholdConfigManager.init: the only read whose answer counts. *)
Create ==
    /\ created' = TRUE
    /\ IF created THEN UNCHANGED <<channel, awaiting, hasFetchedData, missed>>
       ELSE /\ Read
            /\ missed' = ~mapped
            /\ awaiting' = (mapped /\ ~Cached) /\ hasFetchedData' = Cached

(* The settings screen pushes the list, whose first cell asks for a        *)
(* threshold and so creates the singleton.                                 *)
ShowList ==
    /\ top = "settings" /\ top' = "list" /\ appeared' = FALSE
    /\ Create
    /\ UNCHANGED <<editor, losses>>

(* viewDidAppear: a read for nobody, each time. *)
DidAppear ==
    /\ top = "list" /\ ~appeared
    /\ Len(q.readCallbacks) < MaxReads /\ Len(q.readOps) < MaxReads
    /\ appeared' = TRUE
    /\ Read
    /\ UNCHANGED <<singleton, top, editor, losses>>

(* viewWillAppear of the editor: new view models from the threshold that   *)
(* the editor was opened with.                                             *)
WillAppear(segment) ==
    /\ model' = Stored
    /\ controls' = [t \in Types |-> Shows(t, segment[t])]

(* didSelectRowAt, on rpm; on any other row nothing happens. *)
Select ==
    /\ top = "list" /\ top' = "editor"
    /\ WillAppear([t \in Types |-> 0])
    /\ UNCHANGED <<channel, singleton, appeared, losses>>

(* The user goes to another tab and comes back, or begins to swipe back    *)
(* and lets go: the same views appear again.                               *)
Reappear ==
    \/ /\ top = "list" /\ appeared' = FALSE
       /\ UNCHANGED <<channel, singleton, top, editor, losses>>
    \/ /\ top = "editor" /\ WillAppear([t \in Types |-> controls[t].segment])
       /\ UNCHANGED <<channel, singleton, top, appeared, losses>>

(* Back by one screen, or to the settings with the tab. *)
Back ==
    /\ \/ top = "editor" /\ top' = "list" /\ appeared' = FALSE
       \/ top # "settings" /\ top' = "settings" /\ UNCHANGED appeared
    /\ UNCHANGED <<channel, singleton, editor, losses>>

-----------------------------------------------------------------------------
(* The controls of the editor. *)

Touch(t, value, shown) ==
    /\ top = "editor"
    /\ model' = [model EXCEPT ![t] = value]
    /\ controls' = [controls EXCEPT ![t] = shown]
    /\ UNCHANGED <<channel, singleton, top, appeared, losses>>

Toggle(t) ==
    LET on == ~controls[t].toggle
    IN  Touch(t, [model[t] EXCEPT !.enabled = on], [controls[t] EXCEPT !.toggle = on])

(* A segment that is selected already sends no event. *)
Choose(t, segment) ==
    /\ segment # controls[t].segment
    /\ Touch(t, [model[t] EXCEPT !.greaterThan = (segment = 0)],
                [controls[t] EXCEPT !.segment = segment])

StepTo(t, value) ==
    Touch(t, [model[t] EXCEPT !.value = value],
             [controls[t] EXCEPT !.stepper = value, !.text = value])

(* Mutants: the stepper has no maximum; the text field does not follow. *)
Step_NoMaximum(t, value) == value >= 0 /\ StepTo(t, value)

Step_TextStays(t, value) ==
    /\ value \in 0 .. High
    /\ Touch(t, [model[t] EXCEPT !.value = value],
                [controls[t] EXCEPT !.stepper = value])

(* The stepper stops at its limits; the text follows the value. *)
Step(t, value) == value \in 0 .. High /\ StepTo(t, value)

(* Nothing reads what is typed. *)
Type(t) == Touch(t, model[t], [controls[t] EXCEPT !.text = Typed])

Next ==
    \/ Connect \/ LinkLost \/ DidFailToRead \/ DidRead \/ DidNotify
    \/ ShowList \/ DidAppear \/ Select \/ Reappear \/ Back
    \/ \E t \in Types :
          \/ Toggle(t) \/ Type(t)
          \/ \E segment \in 0 .. 1 : Choose(t, segment)
          \/ \E value \in {controls[t].stepper - 1, controls[t].stepper + 1} :
                Step(t, value)

Spec == Init /\ [][Next]_vars

(* The device answers. *)
FairSpec == Spec /\ WF_vars(DidRead)

-----------------------------------------------------------------------------
(* Properties. *)

Controls == [toggle : BOOLEAN, segment : 0 .. 1,
             text : 0 .. High \union {Typed}, stepper : 0 .. High]

(* The types of the state. *)
TypeOK ==
    /\ q \in Requests(0) /\ up \in BOOLEAN /\ mapped \in BOOLEAN
    /\ created \in BOOLEAN /\ awaiting \in BOOLEAN
    /\ hasFetchedData \in BOOLEAN /\ missed \in BOOLEAN
    /\ top \in {"settings", "list", "editor"} /\ appeared \in BOOLEAN
    /\ model \in [Types -> ThresholdItem] /\ controls \in [Types -> Controls]
    /\ losses \in 0 .. MaxLosses

(* The controls show the view models through any touches and however often *)
(* the editor appears again: the switch and the stepper always, the text   *)
(* unless the user typed, and the direction when it was changed.  (When    *)
(* the editor appears again the direction is the stored one, and the       *)
(* segments may still show the one that was chosen before.)                *)
ControlsShowModel ==
    \A t \in Types :
        /\ controls[t].toggle = model[t].enabled
        /\ controls[t].stepper = model[t].value
        /\ controls[t].text \in {model[t].value, Typed}
        /\ model[t].greaterThan # Stored[t].greaterThan =>
              controls[t].segment = Segment(model[t].greaterThan)

(* The singleton has its configuration, or waits for it with a closure     *)
(* that the next answer runs, also when links were lost and reads failed;  *)
(* but created before the device was found it never gets it, however often *)
(* the list reads.                                                         *)
FetchIsPending ==
    created => IF missed THEN ~hasFetchedData
               ELSE hasFetchedData \/ (awaiting /\ q.readCallbacks # <<>>)

(* A singleton whose read was lost is served by the next read, which the   *)
(* list makes when it appears: while any read is outstanding, the          *)
(* configuration comes, unless the link or the read fails once more.       *)
FetchRecovers ==
    \A n \in 0 .. MaxLosses :
        awaiting /\ q.readOps # <<>> /\ losses = n ~> hasFetchedData \/ losses # n
=============================================================================
