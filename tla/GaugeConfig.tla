----------------------------- MODULE GaugeConfig -----------------------------
(***************************************************************************)
(* The screen on which the user lays out the gauges: the view controller   *)
(* with its table and its "add" screen, its view model, the singleton      *)
(* GaugeLayoutConfigManager, and the layoutConfig characteristic behind    *)
(* them (RequestChannel).                                                  *)
(*                                                                         *)
(* All of it runs on the main thread.  What interleaves is the order of    *)
(* touches, of answers of the device, and of the blocks that observers     *)
(* and the add screen put on the main queue with DispatchQueue.main.async: *)
(* between a change of the view model and the block that shows it, other   *)
(* events are served.                                                      *)
(*                                                                         *)
(* A layout is a pair of lists, <<gauges, monitors>>; its bytes are the    *)
(* subject of module GaugeLayoutConfigManager.  Indices start at 1.        *)
(***************************************************************************)
EXTENDS RequestQueues, SequencesExt, FiniteSetsExt

CONSTANTS
    Recognised,   \* BOOLEAN: the printed UUID is one of the app's, so that
                  \* the answer to a write finds its closure
    Items,        \* members of EngineDataItem
    Short,        \* the answer of a device that has no layout: <= 2 bytes
    Originals,    \* what the device may hold at first: layouts, or Short
    Add,          \* a table row: the one that adds an item
    None,         \* no add screen
    MaxSessions,  \* bound: times the screen is opened
    MaxEdits,     \* bound: edits in all
    MaxSaves,     \* bounds on presses of the save button: none after so
    MaxBlocks,    \* many writes, or with so many blocks on the queue
    MaxRefusals,  \* bound: writes that the device refuses
    MaxLosses     \* bound: links lost

Sections == 1 .. 2
Layouts == [Sections -> Seq(Items)]
AddScreens == [section : Sections, row : Nat \ {0}, picked : BOOLEAN]

ASSUME RecognisedAssumption == Recognised \in BOOLEAN
ASSUME MarkersAssumption == Add \notin Items /\ None \notin AddScreens
ASSUME OriginalsAssumption == Originals \subseteq Layouts \union {Short}
ASSUME BoundsAssumption == {MaxSessions, MaxEdits, MaxLosses} \subseteq Nat

VARIABLES
    q, up, mapped,     \* the channel: see RequestChannel
    original,          \* what the device held at first
    writes,            \* per write, its layout, the screen that asked, and
                       \* whether the device will accept it
    readers,           \* screens whose read closure is registered
    manager,           \* GaugeLayoutConfigManager: gauges, monitors
    session, open,     \* the screen: how many there were, is one on
    lists, hasLoaded, configHasChanged, isSaving, saveError,  \* its view model
    rows, overlay, saveShown,                        \* what it shows
    addScreen,         \* None, or the index path it was opened from
    blocks,            \* its blocks on the main queue
    crash,             \* "", or the reason for which the app crashed
    early, raced, leftover,   \* history of this screen, see below
    edits, losses

Channel == INSTANCE RequestChannel WITH Notifies <- FALSE

channel   == <<q, up, mapped>>
viewModel == <<lists, hasLoaded, configHasChanged, isSaving, saveError>>
table     == <<rows, overlay, saveShown>>
screen    == <<session, open>>
history   == <<early, raced, leftover, edits, losses>>
vars == <<channel, original, writes, readers, manager, screen, viewModel,
          table, addScreen, blocks, crash, history>>

Empty == <<<< >>, << >>>>

(* What the device holds once it has processed write v: the layout of the  *)
(* last write it accepted.                                                 *)
Content(v) ==
    LET last == {id \in 1 .. v : /\ writes[id].accepted
                                 /\ \A later \in id + 1 .. v : ~writes[later].accepted}
    IN  IF last = {} THEN original ELSE writes[CHOOSE id \in last : TRUE].layout

Refused == {id \in DOMAIN writes : ~writes[id].accepted}

(* numberOfRowsInSection and cellForRowAt: the items, then the add row. *)
Shown(ls) == [s \in Sections |-> Append(ls[s], Add)]

(* Closures of this screen's saves that are still registered. *)
OwnWritePending ==
    \E id \in Range(q.writeCallbacks) : writes[id].session = session

Init ==
    /\ Channel!Init
    /\ original \in Originals
    /\ writes = <<>> /\ readers = {} /\ manager = Empty
    /\ session = 0 /\ open = FALSE
    /\ lists = Empty /\ hasLoaded = FALSE
    /\ configHasChanged = FALSE /\ isSaving = FALSE /\ saveError = FALSE
    /\ rows = Shown(Empty) /\ overlay = FALSE /\ saveShown = FALSE
    /\ addScreen = None /\ blocks = <<>> /\ crash = ""
    /\ early = FALSE /\ raced = FALSE /\ leftover = FALSE
    /\ edits = 0 /\ losses = 0

-----------------------------------------------------------------------------
(* The link (BluetoothManager). *)

Connect ==
    /\ ~up /\ Channel!Connect
    /\ UNCHANGED <<original, writes, readers, manager, screen, viewModel, table,
                   addScreen, blocks, crash, history>>

(* Also between reconnecting and the discovery, while the channel is down. *)
LinkLost ==
    /\ mapped /\ losses < MaxLosses
    /\ Channel!Disconnect
    /\ losses' = losses + 1
    /\ UNCHANGED <<original, writes, readers, manager, screen, viewModel, table,
                   addScreen, blocks, crash, early, raced, leftover, edits>>

(* Mutant: a short answer is no answer. *)
LayoutRead_ShortIgnored ==
    /\ crash = "" /\ Channel!AnswerRead
    /\ LET answer == Content(Head(q.readOps))
       IN  IF answer # Short /\ open /\ session \in readers
           THEN /\ manager' = answer /\ lists' = answer /\ hasLoaded' = TRUE
                /\ blocks' = Append(blocks, <<"reload">>)
           ELSE UNCHANGED <<manager, lists, hasLoaded, blocks>>
    /\ readers' = {}
    /\ UNCHANGED <<original, writes, screen, configHasChanged, isSaving, saveError,
                   table, addScreen, crash, history>>

(* Mutant: the closures are not forgotten when the answer comes. *)
LayoutRead_ReadersKept ==
    /\ crash = "" /\ Channel!AnswerRead
    /\ LET answer == Content(Head(q.readOps))
           parsed == IF answer = Short THEN manager ELSE answer
       IN  /\ manager' = IF readers = {} THEN manager ELSE parsed
           /\ IF open /\ session \in readers
              THEN /\ lists' = parsed /\ hasLoaded' = TRUE
                   /\ leftover' = (answer = Short /\ manager # Empty)
                   /\ blocks' = Append(blocks, <<"reload">>)
              ELSE UNCHANGED <<lists, hasLoaded, leftover, blocks>>
    /\ UNCHANGED <<original, writes, readers, screen, configHasChanged, isSaving,
                   saveError, table, addScreen, crash, early, raced, edits, losses>>

(* The closure of readGauges: the singleton parses the answer, and the     *)
(* view model that asked takes the lists, if it is still there.  A short   *)
(* answer leaves the singleton as it was: the view model gets what an      *)
(* earlier screen left there (leftover).                                   *)
LayoutRead ==
    /\ crash = "" /\ Channel!AnswerRead
    /\ LET answer == Content(Head(q.readOps))
           parsed == IF answer = Short THEN manager ELSE answer
       IN  /\ manager' = IF readers = {} THEN manager ELSE parsed
           /\ IF open /\ session \in readers
              THEN /\ lists' = parsed /\ hasLoaded' = TRUE
                   /\ leftover' = (answer = Short /\ manager # Empty)
                   /\ blocks' = Append(blocks, <<"reload">>)
              ELSE UNCHANGED <<lists, hasLoaded, leftover, blocks>>
    /\ readers' = {}
    /\ UNCHANGED <<original, writes, screen, configHasChanged, isSaving, saveError,
                   table, addScreen, crash, early, raced, edits, losses>>

(* Mutant: the save is not marked as over. *)
LayoutWritten_StillSaving ==
    /\ crash = "" /\ Channel!AnswerWrite
    /\ IF Recognised /\ open /\ q.writeCallbacks # <<>>
               /\ writes[Head(q.writeCallbacks)].session = session
       THEN /\ configHasChanged' = FALSE
            /\ blocks' = Append(blocks, <<"save", FALSE>>)
       ELSE UNCHANGED <<configHasChanged, blocks>>
    /\ UNCHANGED <<original, writes, readers, manager, screen, lists, hasLoaded,
                   isSaving, saveError, table, addScreen, crash, history>>

(* What the closure of setGauges is told: success, whatever was answered.  *)
wasSuccessful(accepted) == TRUE

(* The closure of setGauges, if the manager finds it: the save is over, if *)
(* the view model that asked is still there.                               *)
LayoutWritten ==
    /\ crash = "" /\ Channel!AnswerWrite
    /\ IF Recognised /\ open /\ q.writeCallbacks # <<>>
               /\ writes[Head(q.writeCallbacks)].session = session
       THEN /\ configHasChanged' = FALSE /\ isSaving' = FALSE
            /\ saveError' = ~wasSuccessful(writes[Head(q.writeOps)].accepted)
            /\ blocks' = blocks \o << <<"save", FALSE>>, <<"overlay", FALSE>> >>
       ELSE UNCHANGED <<configHasChanged, isSaving, saveError, blocks>>
    /\ UNCHANGED <<original, writes, readers, manager, screen, lists, hasLoaded,
                   table, addScreen, crash, history>>

-----------------------------------------------------------------------------
(* Opening, saving and leaving. *)

(* The settings screen pushes a new controller with a new view model,      *)
(* whose init reads the layout.  Its first blocks show what Init shows.    *)
(* A screen opened while an older read is outstanding is answered by it.   *)
Open ==
    /\ crash = "" /\ ~open /\ session < MaxSessions
    /\ session' = session + 1 /\ open' = TRUE
    /\ IF mapped THEN Channel!Read /\ readers' = readers \union {session + 1}
                 ELSE UNCHANGED <<channel, readers>>
    /\ early' = (q.readOps # <<>>) /\ raced' = FALSE /\ leftover' = FALSE
    /\ lists' = Empty /\ hasLoaded' = FALSE
    /\ configHasChanged' = FALSE /\ isSaving' = FALSE /\ saveError' = FALSE
    /\ rows' = Shown(Empty) /\ overlay' = FALSE /\ saveShown' = FALSE
    /\ UNCHANGED <<original, writes, manager, addScreen, blocks, crash, edits, losses>>

(* The device decides; it refuses MaxRefusals writes at most. *)
MayBeAccepted == IF Cardinality(Refused) < MaxRefusals THEN BOOLEAN ELSE {TRUE}

(* A write of a layout, with its closure, if the characteristic was        *)
(* discovered.                                                             *)
WriteLayout(layout) ==
    IF mapped
    THEN /\ Channel!Write
         /\ \E accepted \in MayBeAccepted :
               writes' = Append(writes, [layout |-> layout, session |-> session,
                                         accepted |-> accepted])
    ELSE UNCHANGED <<channel, writes>>

(* Mutant: only the gauges are sent. *)
setGauges_GaugesOnly == manager' = lists /\ WriteLayout(<<lists[1], << >>>>)

setGauges == manager' = lists /\ WriteLayout(lists)

(* save() while the screen stays. *)
save ==
    /\ configHasChanged
    /\ Len(writes) < MaxSaves /\ Len(blocks) < MaxBlocks
    /\ isSaving' = TRUE
    /\ setGauges
    /\ blocks' = Append(blocks, <<"overlay", TRUE>>)
    /\ UNCHANGED <<original, readers, screen, lists, hasLoaded, configHasChanged,
                   saveError, table, addScreen, crash, history>>

(* didPressSave.  The overlay covers the table and the save button. *)
PressSave ==
    /\ crash = "" /\ open /\ addScreen = None /\ ~overlay /\ saveShown
    /\ save

(* The user begins to swipe back, which nothing covers, and lets go:       *)
(* willMove(toParent:) is called when the gesture begins, and saves.       *)
SwipeAndStay ==
    /\ crash = "" /\ open /\ addScreen = None
    /\ save

(* The back button, which nothing covers, or, from the add screen too, the *)
(* Settings tab tapped a second time, which pops to the root:              *)
(* willMove(toParent:) saves, then the controllers and the view model go,  *)
(* and with them their blocks, an item that was picked included.           *)
Close ==
    /\ crash = "" /\ open
    /\ open' = FALSE /\ addScreen' = None
    /\ IF configHasChanged THEN setGauges ELSE UNCHANGED <<channel, writes, manager>>
    /\ blocks' = <<>>
    /\ UNCHANGED <<original, readers, session, viewModel, table, crash, history>>

-----------------------------------------------------------------------------
(* Editing. *)

(* Mutant: the change is not flagged. *)
Edited_Unflagged ==
    /\ edits' = edits + 1
    /\ raced' = (raced \/ OwnWritePending)
    /\ UNCHANGED <<configHasChanged, hasLoaded, isSaving, saveError, channel, original,
                   writes, readers, manager, screen, leftover, losses>>

(* History of the screen.  early: it was edited before its layout came, or *)
(* its layout came from an older read.  raced: it was edited while one of  *)
(* its own saves was not answered.  leftover: it was loaded by a short     *)
(* answer while the singleton still held a layout, and shows that layout.  *)
Edited ==
    /\ edits' = edits + 1
    /\ raced' = (raced \/ OwnWritePending)
    /\ configHasChanged' = TRUE
    /\ UNCHANGED <<hasLoaded, isSaving, saveError, channel, original, writes, readers,
                   manager, screen, leftover, losses>>

(* A row can be touched: its screen is on top and not covered. *)
Touchable == crash = "" /\ open /\ addScreen = None /\ ~overlay

(* didSelectRowAt, on the row that isAddButton says is the add row. *)
TapAdd(s) ==
    /\ Touchable /\ edits < MaxEdits
    /\ Len(lists[s]) + 1 \in DOMAIN rows[s]
    /\ addScreen' = [section |-> s, row |-> Len(lists[s]) + 1, picked |-> FALSE]
    /\ early' = (early \/ ~hasLoaded)
    /\ UNCHANGED <<channel, original, writes, readers, manager, screen, viewModel,
                   table, blocks, crash, raced, leftover, edits, losses>>

(* The add screen: the user takes an item, and addItemCallback queues a    *)
(* block; or goes back.                                                    *)
PickItem(item) ==
    /\ crash = "" /\ addScreen # None /\ ~addScreen.picked
    /\ addScreen' = [addScreen EXCEPT !.picked = TRUE]
    /\ blocks' = Append(blocks, <<"add", item>>)
    /\ UNCHANGED <<channel, original, writes, readers, manager, screen, viewModel,
                   table, crash, history>>

LeaveAddScreen ==
    /\ crash = "" /\ addScreen # None /\ ~addScreen.picked
    /\ addScreen' = None
    /\ UNCHANGED <<channel, original, writes, readers, manager, screen, viewModel,
                   table, blocks, crash, history>>

(* UITableView raises an exception when the rows it has after an insertion *)
(* or a deletion are not as many as the data source says.                  *)
Consistent(rs, ls) == \A s \in Sections : Len(rs[s]) = Len(ls[s]) + 1

UpdateRows(rs, ls, reason) ==
    IF Consistent(rs, ls) THEN rows' = rs /\ UNCHANGED crash
                          ELSE crash' = reason /\ UNCHANGED rows

(* Mutant: the gauge stays in the list, as a monitor does. *)
deleteItem_Nothing(s, r) == UNCHANGED lists

(* commit editingStyle, .delete: deleteItem, then deleteRows.  Any row can *)
(* be deleted as far as the table is concerned.  deleteItem removes a      *)
(* gauge; the branch for monitors tests for section 0 a second time, so    *)
(* for a monitor it only marks the layout as changed.                      *)
deleteItem(s, r) ==
    IF s = 1 /\ r <= Len(lists[1])
    THEN lists' = [lists EXCEPT ![1] = RemoveAt(@, r)]
    ELSE UNCHANGED lists

DeleteReason(s, r) == IF rows[s][r] = Add THEN "add row"
                      ELSE IF s = 2 THEN "monitor" ELSE "stale"

DeleteRow(s, r) ==
    /\ Touchable /\ edits < MaxEdits /\ r \in DOMAIN rows[s]
    /\ deleteItem(s, r)
    /\ IF s = 1 /\ r > Len(lists[1])
       THEN UNCHANGED <<channel, original, writes, readers, manager, screen,
                        viewModel, blocks, raced, leftover, edits, losses>>
       ELSE Edited /\ blocks' = Append(blocks, <<"save", TRUE>>)
    /\ UpdateRows([rows EXCEPT ![s] = RemoveAt(@, r)], lists', DeleteReason(s, r))
    /\ early' = (early \/ ~hasLoaded)
    /\ UNCHANGED <<overlay, saveShown, addScreen>>

(* moveRowAt, after the table has moved the row: remove(at:) and           *)
(* insert(_:at:) trap on an index out of range.                            *)
Moved(ls, s, r, t, u) ==
    LET without == [ls EXCEPT ![s] = RemoveAt(@, r)]
    IN  [without EXCEPT ![t] = InsertAt(@, u, ls[s][r])]

(* Mutant: between the sections, the moved item stays where it was too. *)
moveItem_Copied(s, r, t, u) ==
    /\ lists' = IF s = t THEN Moved(lists, s, r, t, u)
                ELSE [lists EXCEPT ![t] = InsertAt(@, u, lists[s][r])]
    /\ Edited /\ blocks' = Append(blocks, <<"save", TRUE>>)

(* Mutant: the lists are taken from the rows, with their add rows. *)
moveItem_FromRows(s, r, t, u) ==
    /\ lists' = Moved(rows, s, r, t, u)
    /\ Edited /\ blocks' = Append(blocks, <<"save", TRUE>>)

moveItem(s, r, t, u) ==
    /\ lists' = Moved(lists, s, r, t, u)
    /\ Edited /\ blocks' = Append(blocks, <<"save", TRUE>>)

MoveReason(s, r, t, u) ==
    IF rows[s][r] = Add THEN "add row"
    ELSE IF u = Len(rows[t]) + (IF s = t THEN 0 ELSE 1) THEN "past the end"
    ELSE "stale"

MoveRow(s, r, t, u) ==
    /\ Touchable /\ r \in DOMAIN rows[s]
    /\ u \in 1 .. Len(rows[t]) + (IF s = t THEN 0 ELSE 1)
    /\ <<s, r>> # <<t, u>> /\ edits < MaxEdits
    /\ IF r <= Len(lists[s]) /\ u <= Len(lists[t]) + (IF s = t THEN 0 ELSE 1)
       THEN /\ moveItem(s, r, t, u)
            /\ rows' = Moved(rows, s, r, t, u)
            /\ UNCHANGED crash
       ELSE /\ crash' = MoveReason(s, r, t, u)
            /\ UNCHANGED <<channel, original, writes, readers, manager, screen,
                           viewModel, rows, blocks, raced, leftover, edits,
                           losses>>
    /\ early' = (early \/ ~hasLoaded)
    /\ UNCHANGED <<overlay, saveShown, addScreen>>

-----------------------------------------------------------------------------
(* The next block on the main queue. *)

RunReload ==
    /\ rows' = Shown(lists)
    /\ UNCHANGED <<channel, original, writes, readers, manager, screen, viewModel,
                   overlay, saveShown, addScreen, crash, history>>

RunOverlay(shown) ==
    /\ overlay' = shown
    /\ UNCHANGED <<channel, original, writes, readers, manager, screen, viewModel,
                   rows, saveShown, addScreen, crash, history>>

RunSaveButton(shown) ==
    /\ saveShown' = shown
    /\ UNCHANGED <<channel, original, writes, readers, manager, screen, viewModel,
                   rows, overlay, addScreen, crash, history>>

(* The block of addItemCallback: pop the add screen, add the item at the   *)
(* end of the section, insert a row where the add row was when it was      *)
(* tapped, which the cell of that index path fills if there is one.        *)
RunAdd(item) ==
    LET s == addScreen.section
        added == [lists EXCEPT ![s] = Append(@, item)]
        row   == addScreen.row
    IN  /\ addScreen' = None
        /\ lists' = added
        /\ Edited
        /\ IF row <= Len(added[s]) + 1 /\ row <= Len(rows[s]) + 1
           THEN UpdateRows([rows EXCEPT ![s] = InsertAt(@, row, Shown(added)[s][row])],
                           added, "stale")
           ELSE crash' = "stale" /\ UNCHANGED rows
        /\ UNCHANGED <<overlay, saveShown, early>>

RunBlock ==
    /\ crash = "" /\ blocks # <<>>
    /\ LET block == Head(blocks)
           rest  == Tail(blocks)
       IN  \/ block[1] = "reload"  /\ RunReload /\ blocks' = rest
           \/ block[1] = "overlay" /\ RunOverlay(block[2]) /\ blocks' = rest
           \/ block[1] = "save"    /\ RunSaveButton(block[2]) /\ blocks' = rest
           \/ block[1] = "add"     /\ RunAdd(block[2])
                                   /\ blocks' = Append(rest, <<"save", TRUE>>)

-----------------------------------------------------------------------------
Next ==
    \/ Connect \/ LinkLost \/ LayoutRead \/ LayoutWritten
    \/ Open \/ PressSave \/ SwipeAndStay \/ Close
    \/ \E s \in Sections :
          \/ TapAdd(s)
          \/ \E r \in DOMAIN rows[s] :
                \/ DeleteRow(s, r)
                \/ \E t \in Sections : \E u \in 1 .. Len(rows[t]) + 1 :
                      MoveRow(s, r, t, u)
    \/ \E item \in Items : PickItem(item)
    \/ LeaveAddScreen
    \/ RunBlock

Spec == Init /\ [][Next]_vars

(* The main thread serves its queue, and the device answers. *)
Fairness == /\ WF_vars(Connect) /\ WF_vars(LayoutRead) /\ WF_vars(LayoutWritten)
            /\ WF_vars(RunBlock)

FairSpec == Spec /\ Fairness

-----------------------------------------------------------------------------
(* Properties. *)

Blocks == {<<"reload">>} \union ({"overlay", "save"} \X BOOLEAN) \union ({"add"} \X Items)

(* The types of the state.  In particular the lists hold items only, never *)
(* the add row, and the app crashes for four reasons only.                 *)
TypeOK ==
    /\ up \in BOOLEAN /\ mapped \in BOOLEAN
    /\ original \in Originals
    /\ writes \in Seq([layout : Layouts, session : 1 .. MaxSessions, accepted : BOOLEAN])
    /\ Len(writes) = q.issued
    /\ readers \subseteq 1 .. session
    /\ manager \in Layouts /\ lists \in Layouts
    /\ session \in 0 .. MaxSessions
    /\ {open, hasLoaded, configHasChanged, isSaving, saveError, overlay, saveShown,
         early, raced, leftover} \subseteq BOOLEAN
    /\ rows \in [Sections -> Seq(Items \union {Add})]
    /\ addScreen # None => open /\ addScreen.section \in Sections
    /\ blocks \in Seq(Blocks)
    /\ crash \in {"", "add row", "past the end", "monitor", "stale"}
    /\ edits \in 0 .. MaxEdits /\ losses \in 0 .. MaxLosses

(* The table never disagrees with the view model when it is updated: the   *)
(* app crashes on an ordinary edit (adding an item, deleting a gauge,      *)
(* moving an item among the items) only if the user edited before the      *)
(* layout had been shown.  The blocks that reload the table and that       *)
(* insert a row run later than the changes they show.                      *)
StaleTableOnlyIfEarly == crash = "stale" => early

(* Once its blocks have run, the screen shows the view model: its rows are *)
(* the items and the add rows, the overlay is there while a save is        *)
(* pending, the save button while there is something to save.              *)
ScreenShowsModel ==
    open /\ blocks = <<>> /\ crash = "" /\ ~early =>
        /\ rows = Shown(lists)
        /\ overlay = isSaving
        /\ saveShown = configHasChanged

(* A device without a layout holds the empty one. *)
DeviceHolds(ls, v) == Content(v) = ls \/ (Content(v) = Short /\ ls = Empty)

(* The exception to it: the device has no layout, and the screen shows the *)
(* one that an earlier screen left in the singleton, as if the device had  *)
(* it (an edit that was lost with a link, or made before the device was    *)
(* found, comes back unflagged).                                           *)
ShowsLeftover(v) == leftover /\ Content(v) = Short

(* A layout that is not flagged as changed is the one on the device, or on *)
(* its way there, also when links were lost: the flag is not lowered by    *)
(* the answer to an older save, or to a save of an earlier screen.  Not so *)
(* if the screen was edited before it had loaded or while one of its saves *)
(* was pending, if the device refused a write, or if the device has no     *)
(* layout and the screen shows one left over in the singleton.             *)
UnsavedIsFlagged ==
    open /\ hasLoaded /\ ~configHasChanged /\ ~early /\ ~raced /\ crash = ""
        => \/ DeviceHolds(lists, Latest(q)) \/ Refused # {}
           \/ ShowsLeftover(Latest(q))

(* GaugeConfigViewControllerViewModel, on a save that fails: "Error saving *)
(* gauge config."  When the screen shows neither that nor the save button, *)
(* its layout was saved.                                                   *)
FailedSaveIsReported ==
    open /\ hasLoaded /\ ~configHasChanged /\ ~early /\ ~raced /\ crash = ""
        => \/ DeviceHolds(lists, Latest(q)) \/ saveError
           \/ ShowsLeftover(Latest(q))

(* Leaving the screen loses no edit: what it held when the user left is    *)
(* what the device will hold, with the same exceptions, if no link is lost *)
(* (an edit that is lost with the link is lost silently).                  *)
LeavingSaves ==
    [][Close /\ hasLoaded /\ ~early /\ ~raced /\ losses = 0 =>
          (DeviceHolds(lists, Latest(q)) \/ Refused # {} \/ ShowsLeftover(Latest(q)))']_vars

(* A view model that is saving has a closure registered that would end it, *)
(* also when links were lost; otherwise the overlay would stay for ever,   *)
(* whatever is answered.  (It does if the user edits and saves before the  *)
(* device was ever found.  Whether answers find the closure is for         *)
(* Recognised to say.)                                                     *)
SavingIsPending == open /\ isSaving /\ ~early => OwnWritePending

(* As long as no link was lost, nobody waits in vain: a screen whose read  *)
(* closure is registered has an answer coming and, if the printed UUID is  *)
(* recognised, the i-th answer that the device still owes to a write is    *)
(* that of the write whose closure is the i-th registered, whichever       *)
(* screens asked.  (The manager pairs answers with closures by their order *)
(* alone; if it does not recognise the UUID, no closure of a write runs.)  *)
NobodyWaitsInVain ==
    losses = 0 => /\ Recognised => q.writeCallbacks = q.writeOps
                  /\ readers # {} => q.readOps # <<>>

(* If the printed UUID is recognised, a save ends: the overlay goes, unless*)
(* a link is lost (then only the answer to another save takes it away).    *)
SavingEnds ==
    \A n \in 1 .. MaxSessions :
        Recognised /\ open /\ session = n /\ isSaving /\ ~early /\ losses = 0
            ~> ~isSaving \/ ~open \/ session # n \/ losses > 0 \/ crash # ""

(* A screen opened with the device found shows its layout in the end.      *)
Loads ==
    \A n \in 1 .. MaxSessions :
        open /\ session = n /\ n \in readers /\ losses = 0
            ~> hasLoaded \/ ~open \/ losses > 0 \/ crash # ""

(* GaugeConfigViewController, on the delete control of a row: "Delete the  *)
(* row from the data source".                                              *)
DeleteRemovesItem ==
    [][\A s \in Sections : \A r \in DOMAIN rows[s] :
          DeleteRow(s, r) /\ r <= Len(lists[s]) =>
              lists'[s] = RemoveAt(lists[s], r)]_vars
=============================================================================
