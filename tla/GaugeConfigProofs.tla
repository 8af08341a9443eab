------------------------- MODULE GaugeConfigProofs -------------------------
(***************************************************************************)
(* Proofs about GaugeConfig, for any items, any layout the device may hold *)
(* at first, and any bounds: the types, and what the table shows.          *)
(***************************************************************************)
EXTENDS GaugeConfig, RequestQueuesProofs

-----------------------------------------------------------------------------
(* Lists and rows. *)

(* The elements after a removal, and after an insertion. *)
ElementWithout(s, i, k) == IF k < i THEN s[k] ELSE s[k + 1]
ElementWith(s, i, e, k) == IF k < i THEN s[k] ELSE IF k = i THEN e ELSE s[k - 1]

(* Removing an element. *)
LEMMA RemoveAtFacts ==
    ASSUME NEW S, NEW s \in Seq(S), NEW i \in 1 .. Len(s)
    PROVE  /\ RemoveAt(s, i) \in Seq(S) /\ Len(RemoveAt(s, i)) = Len(s) - 1
           /\ \A k \in 1 .. Len(s) - 1 :
                 RemoveAt(s, i)[k] = ElementWithout(s, i, k)
<1>1. Len(s) \in Nat /\ i \in Nat /\ 1 <= i /\ i <= Len(s)
  BY LenProperties
<1>. DEFINE a == SubSeq(s, 1, i - 1)
            b == SubSeq(s, i + 1, Len(s))
<1>2. /\ a \in Seq(S) /\ Len(a) = i - 1
      /\ \A k \in 1 .. i - 1 : a[k] = s[k]
  BY <1>1
<1>3. /\ b \in Seq(S) /\ Len(b) = Len(s) - i
      /\ \A k \in 1 .. Len(s) - i : b[k] = s[i + k]
  BY <1>1
<1>4. RemoveAt(s, i) = a \o b
  BY DEF RemoveAt
<1>. HIDE DEF a, b
<1>5. a \o b \in Seq(S) /\ Len(a \o b) = Len(s) - 1
  <2>1. Len(a) + Len(b) = Len(s) - 1
    BY <1>1, <1>2, <1>3
  <2>. QED BY <1>2, <1>3, <2>1, ConcatProperties
<1>6. ASSUME NEW k \in 1 .. Len(s) - 1
      PROVE  (a \o b)[k] = ElementWithout(s, i, k)
  <2>1. (a \o b)[k] = IF k <= Len(a) THEN a[k] ELSE b[k - Len(a)]
    BY <1>1, <1>2, <1>3, ConcatProperties
  <2>2. CASE k < i
    <3>1. k \in 1 .. i - 1
      BY <1>1, <2>2
    <3>. QED BY <1>1, <1>2, <2>1, <2>2, <3>1 DEF ElementWithout
  <2>3. CASE ~(k < i)
    <3>1. k - (i - 1) \in 1 .. Len(s) - i /\ i + (k - (i - 1)) = k + 1
      BY <1>1, <2>3
    <3>2. b[k - (i - 1)] = s[k + 1]
      BY <1>3, <3>1
    <3>. QED BY <1>1, <1>2, <2>1, <2>3, <3>2 DEF ElementWithout
  <2>. QED BY <2>2, <2>3
<1>. QED BY <1>4, <1>5, <1>6

(* Inserting an element, at the end or before another. *)
LEMMA InsertAtFacts ==
    ASSUME NEW S, NEW s \in Seq(S), NEW i \in 1 .. Len(s) + 1, NEW e \in S
    PROVE  /\ InsertAt(s, i, e) \in Seq(S) /\ Len(InsertAt(s, i, e)) = Len(s) + 1
           /\ \A k \in 1 .. Len(s) + 1 :
                 InsertAt(s, i, e)[k] = ElementWith(s, i, e, k)
<1>1. Len(s) \in Nat /\ i \in Nat /\ 1 <= i /\ i <= Len(s) + 1
  BY LenProperties
<1>. DEFINE a == SubSeq(s, 1, i - 1)
            b == <<e>>
            c == SubSeq(s, i, Len(s))
<1>2. /\ a \in Seq(S) /\ Len(a) = i - 1
      /\ \A k \in 1 .. i - 1 : a[k] = s[k]
  BY <1>1
<1>3. b \in Seq(S) /\ Len(b) = 1 /\ b[1] = e
  OBVIOUS
<1>4. /\ c \in Seq(S) /\ Len(c) = Len(s) - i + 1
      /\ \A k \in 1 .. Len(s) - i + 1 : c[k] = s[i + k - 1]
  BY <1>1
<1>5. InsertAt(s, i, e) = (a \o b) \o c
  BY DEF InsertAt
<1>. HIDE DEF a, b, c
<1>6. /\ a \o b \in Seq(S) /\ Len(a \o b) = i
      /\ \A k \in 1 .. i : (a \o b)[k] = IF k <= Len(a) THEN a[k] ELSE b[k - Len(a)]
  <2>1. Len(a) + Len(b) = i
    BY <1>1, <1>2, <1>3
  <2>2. \A k \in 1 .. Len(a) + Len(b) :
            (a \o b)[k] = IF k <= Len(a) THEN a[k] ELSE b[k - Len(a)]
    BY <1>2, <1>3, ConcatProperties
  <2>. QED BY <1>2, <1>3, <2>1, <2>2, ConcatProperties
<1>7. /\ (a \o b) \o c \in Seq(S) /\ Len((a \o b) \o c) = Len(s) + 1
      /\ \A k \in 1 .. Len(s) + 1 : ((a \o b) \o c)[k] =
            IF k <= i THEN (a \o b)[k] ELSE c[k - i]
  <2>. DEFINE d == a \o b
  <2>1. Len(d) + Len(c) = Len(s) + 1 /\ d \in Seq(S) /\ Len(d) = i
    BY <1>1, <1>4, <1>6
  <2>. HIDE DEF d
  <2>2. /\ d \o c \in Seq(S) /\ Len(d \o c) = Len(d) + Len(c)
        /\ \A k \in 1 .. Len(d) + Len(c) :
              (d \o c)[k] = IF k <= Len(d) THEN d[k] ELSE c[k - Len(d)]
    BY <1>4, <2>1, ConcatProperties
  <2>. QED BY <2>1, <2>2 DEF d
<1>8. ASSUME NEW k \in 1 .. Len(s) + 1
      PROVE  ((a \o b) \o c)[k] = ElementWith(s, i, e, k)
  <2>1. CASE k < i
    <3>1. k \in 1 .. i - 1 /\ k \in 1 .. i /\ k <= i
      BY <1>1, <2>1
    <3>2. (a \o b)[k] = a[k]
      BY <1>1, <1>2, <1>6, <3>1
    <3>. QED BY <1>2, <1>7, <2>1, <3>1, <3>2 DEF ElementWith
  <2>2. CASE k = i
    <3>1. k \in 1 .. i /\ ~(k <= Len(a)) /\ k - Len(a) = 1
      BY <1>1, <1>2, <2>2
    <3>2. (a \o b)[k] = e
      BY <1>3, <1>6, <3>1
    <3>3. i <= i /\ ~(i < i)
      BY <1>1
    <3>. QED BY <1>7, <2>2, <3>2, <3>3 DEF ElementWith
  <2>3. CASE k > i
    <3>1. /\ k - i \in 1 .. Len(s) - i + 1 /\ i + (k - i) - 1 = k - 1
          /\ ~(k <= i) /\ ~(k < i) /\ k # i
      BY <1>1, <2>3
    <3>2. c[k - i] = s[k - 1]
      BY <1>4, <3>1
    <3>. QED BY <1>7, <3>1, <3>2 DEF ElementWith
  <2>4. k < i \/ k = i \/ k > i
    BY <1>1
  <2>. QED BY <2>1, <2>2, <2>3, <2>4
<1>. QED BY <1>5, <1>7, <1>8

(* The row that adds an item stays the last one. *)
LEMMA RemoveBeforeLast ==
    ASSUME NEW S, NEW s \in Seq(S), NEW a \in S, NEW i \in 1 .. Len(s)
    PROVE  RemoveAt(Append(s, a), i) = Append(RemoveAt(s, i), a)
<1>. DEFINE t == Append(s, a)
            n == Len(s)
            x == RemoveAt(s, i)
            y == RemoveAt(t, i)
<1>1. n \in Nat /\ i \in Nat /\ 1 <= i /\ i <= n
  BY LenProperties
<1>2. t \in Seq(S) /\ Len(t) = n + 1 /\ t[n + 1] = a /\ \A k \in 1 .. n : t[k] = s[k]
  BY AppendFacts
<1>. HIDE DEF t
<1>3. /\ x \in Seq(S) /\ Len(x) = n - 1
      /\ \A k \in 1 .. n - 1 : x[k] = ElementWithout(s, i, k)
  BY RemoveAtFacts
<1>4. /\ y \in Seq(S) /\ Len(y) = n
      /\ \A k \in 1 .. n : y[k] = ElementWithout(t, i, k)
  <2>1. i \in 1 .. Len(t) /\ Len(t) - 1 = n
    BY <1>1, <1>2
  <2>. QED BY <1>2, <2>1, RemoveAtFacts
<1>. HIDE DEF x, y, n
<1>5. /\ Append(x, a) \in Seq(S) /\ Len(Append(x, a)) = n
      /\ \A k \in 1 .. n - 1 : Append(x, a)[k] = x[k]
      /\ Append(x, a)[n] = a
  <2>1. Len(x) + 1 = n
    BY <1>1, <1>3
  <2>. QED BY <1>3, <2>1, AppendFacts
<1>6. ASSUME NEW k \in 1 .. n PROVE y[k] = Append(x, a)[k]
  <2>1. CASE k = n
    <3>1. ~(k < i)
      BY <1>1, <2>1
    <3>. QED BY <1>2, <1>4, <1>5, <2>1, <3>1 DEF ElementWithout
  <2>2. CASE k # n
    <3>1. k \in 1 .. n - 1 /\ k + 1 \in 1 .. n
      BY <1>1, <2>2
    <3>. QED BY <1>2, <1>3, <1>4, <1>5, <3>1 DEF ElementWithout
  <2>. QED BY <2>1, <2>2
<1>7. y = Append(x, a)
  BY <1>4, <1>5, <1>6, SeqEqual
<1>. QED BY <1>7 DEF x, y, t

LEMMA InsertBeforeLast ==
    ASSUME NEW S, NEW s \in Seq(S), NEW a \in S, NEW i \in 1 .. Len(s) + 1, NEW e \in S
    PROVE  InsertAt(Append(s, a), i, e) = Append(InsertAt(s, i, e), a)
<1>. DEFINE t == Append(s, a)
            n == Len(s)
            x == InsertAt(s, i, e)
            y == InsertAt(t, i, e)
<1>1. n \in Nat /\ i \in Nat /\ 1 <= i /\ i <= n + 1
  BY LenProperties
<1>2. t \in Seq(S) /\ Len(t) = n + 1 /\ t[n + 1] = a /\ \A k \in 1 .. n : t[k] = s[k]
  BY AppendFacts
<1>. HIDE DEF t
<1>3. /\ x \in Seq(S) /\ Len(x) = n + 1
      /\ \A k \in 1 .. n + 1 : x[k] = ElementWith(s, i, e, k)
  BY InsertAtFacts
<1>4. /\ y \in Seq(S) /\ Len(y) = n + 2
      /\ \A k \in 1 .. n + 2 : y[k] = ElementWith(t, i, e, k)
  <2>1. i \in 1 .. Len(t) + 1 /\ Len(t) + 1 = n + 2
    BY <1>1, <1>2
  <2>. QED BY <1>2, <2>1, InsertAtFacts
<1>. HIDE DEF x, y, n
<1>5. /\ Append(x, a) \in Seq(S) /\ Len(Append(x, a)) = n + 2
      /\ \A k \in 1 .. n + 1 : Append(x, a)[k] = x[k]
      /\ Append(x, a)[n + 2] = a
  <2>1. Len(x) + 1 = n + 2
    BY <1>1, <1>3
  <2>. QED BY <1>3, <2>1, AppendFacts
<1>6. ASSUME NEW k \in 1 .. n + 2 PROVE y[k] = Append(x, a)[k]
  <2>1. CASE k = n + 2
    <3>1. ~(k < i) /\ k # i /\ k - 1 = n + 1
      BY <1>1, <2>1
    <3>. QED BY <1>2, <1>4, <1>5, <2>1, <3>1 DEF ElementWith
  <2>2. CASE k # n + 2
    <3>1. k \in 1 .. n + 1 /\ k \in 1 .. n + 2
      BY <1>1, <2>2
    <3>2. CASE k < i
      <4>1. k \in 1 .. n
        BY <1>1, <3>1, <3>2
      <4>. QED BY <1>2, <1>3, <1>4, <1>5, <3>1, <3>2, <4>1 DEF ElementWith
    <3>3. CASE k = i
      <4>1. ~(i < i) /\ i \in 1 .. n + 2
        BY <1>1
      <4>. QED BY <1>3, <1>4, <1>5, <3>1, <3>3, <4>1 DEF ElementWith
    <3>4. CASE k > i
      <4>1. k - 1 \in 1 .. n /\ ~(k < i) /\ k # i
        BY <1>1, <3>1, <3>4
      <4>. QED BY <1>2, <1>3, <1>4, <1>5, <3>1, <4>1 DEF ElementWith
    <3>5. k < i \/ k = i \/ k > i
      BY <1>1, <3>1
    <3>. QED BY <3>2, <3>3, <3>4, <3>5
  <2>. QED BY <2>1, <2>2
<1>7. y = Append(x, a)
  BY <1>4, <1>5, <1>6, SeqEqual
<1>. QED BY <1>7 DEF x, y, t

(* Inserting at the end is appending. *)
LEMMA InsertAtEnd ==
    ASSUME NEW S, NEW s \in Seq(S), NEW e \in S
    PROVE  InsertAt(s, Len(s) + 1, e) = Append(s, e)
<1>. DEFINE n == Len(s)
            x == InsertAt(s, n + 1, e)
<1>1. n \in Nat
  BY LenProperties
<1>2. /\ x \in Seq(S) /\ Len(x) = n + 1
      /\ \A k \in 1 .. n + 1 :
            x[k] = ElementWith(s, n + 1, e, k)
  <2>1. n + 1 \in 1 .. Len(s) + 1
    BY <1>1
  <2>. QED BY <2>1, InsertAtFacts
<1>3. /\ Append(s, e) \in Seq(S) /\ Len(Append(s, e)) = n + 1
      /\ \A k \in 1 .. n : Append(s, e)[k] = s[k]
      /\ Append(s, e)[n + 1] = e
  BY AppendFacts
<1>. HIDE DEF x, n
<1>4. ASSUME NEW k \in 1 .. n + 1 PROVE x[k] = Append(s, e)[k]
  <2>1. CASE k = n + 1
    BY <1>1, <1>2, <1>3, <2>1 DEF ElementWith
  <2>2. CASE k # n + 1
    <3>1. k \in 1 .. n /\ k < n + 1
      BY <1>1, <2>2
    <3>. QED BY <1>2, <1>3, <3>1 DEF ElementWith
  <2>. QED BY <2>1, <2>2
<1>5. x = Append(s, e)
  BY <1>2, <1>3, <1>4, SeqEqual
<1>. QED BY <1>5 DEF x, n
-----------------------------------------------------------------------------
(* Types. *)

(* The operations that RequestChannel uses are those of RequestQueues. *)
LEMMA SameOperations ==
    ASSUME NEW r
    PROVE  /\ \A b : /\ Channel!SubmitRead(r, b) = SubmitRead(r, b)
                     /\ Channel!SubmitWrite(r, b) = SubmitWrite(r, b)
                     /\ Channel!WriteAnswered(r, b) = WriteAnswered(r, b)
                     /\ Channel!DropOps(r, b) = DropOps(r, b)
                     /\ Channel!ServedFromCache(r, b) <=> ServedFromCache(r, b)
           /\ Channel!ReadAnswered(r) = ReadAnswered(r)
           /\ Channel!ReadIsNext(r) <=> ReadIsNext(r)
           /\ Channel!WriteIsNext(r) <=> WriteIsNext(r)
           /\ Channel!ReportableValues(r) = ReportableValues(r)
           /\ Channel!NoValue = NoValue /\ Channel!EmptyQueues = EmptyQueues
<1>1. Channel!NoValue = NoValue
  BY DEF Channel!NoValue, NoValue
<1>2. Channel!EmptyQueues = EmptyQueues
  BY <1>1 DEF Channel!EmptyQueues, EmptyQueues
<1>3. Channel!Latest(r) = Latest(r)
  BY DEF Channel!Latest, Latest
<1>4. Channel!ReportableValues(r) = ReportableValues(r)
  BY DEF Channel!ReportableValues, ReportableValues, Channel!Range, Range
<1>5. /\ Channel!ReadIsNext(r) <=> ReadIsNext(r)
      /\ Channel!WriteIsNext(r) <=> WriteIsNext(r)
      /\ \A b : Channel!ServedFromCache(r, b) <=> ServedFromCache(r, b)
  BY <1>1 DEF Channel!ReadIsNext, ReadIsNext, Channel!WriteIsNext, WriteIsNext,
              Channel!ServedFromCache, ServedFromCache
<1>6. \A b : Channel!DropOps(r, b) = DropOps(r, b)
  BY DEF Channel!DropOps, DropOps
<1>7. \A b : /\ Channel!SubmitRead(r, b) = SubmitRead(r, b)
             /\ Channel!SubmitWrite(r, b) = SubmitWrite(r, b)
             /\ Channel!WriteAnswered(r, b) = WriteAnswered(r, b)
  BY <1>3 DEF Channel!SubmitRead, SubmitRead, Channel!SubmitWrite, SubmitWrite,
              Channel!WriteAnswered, WriteAnswered
<1>8. Channel!ReadAnswered(r) = ReadAnswered(r)
  BY DEF Channel!ReadAnswered, ReadAnswered, Channel!HandleUpdate, HandleUpdate
<1>. QED BY <1>1, <1>2, <1>4, <1>5, <1>6, <1>7, <1>8

WriteRecords == [layout : Layouts, session : 1 .. MaxSessions, accepted : BOOLEAN]

ChannelTypes ==
    /\ writes \in Seq(WriteRecords)
    /\ q \in Requests(Len(writes)) /\ q.issued = Len(writes)
    /\ up \in BOOLEAN /\ mapped \in BOOLEAN

SessionTypes ==
    /\ session \in 0 .. MaxSessions /\ readers \subseteq 1 .. session
    /\ losses \in 0 .. MaxLosses
    /\ open => session > 0

ModelTypes ==
    /\ original \in Originals /\ manager \in Layouts /\ lists \in Layouts
    /\ open \in BOOLEAN /\ hasLoaded \in BOOLEAN /\ configHasChanged \in BOOLEAN
    /\ isSaving \in BOOLEAN /\ saveError \in BOOLEAN
    /\ early \in BOOLEAN /\ raced \in BOOLEAN /\ leftover \in BOOLEAN

TableTypes ==
    /\ rows \in [Sections -> Seq(Items \union {Add})]
    /\ overlay \in BOOLEAN /\ saveShown \in BOOLEAN
    /\ crash \in {"", "add row", "past the end", "monitor", "stale"}

(* An item that was picked is on its way in one block, from the add screen *)
(* that is still there, and there is room for it in the bound.             *)
AddTypes ==
    /\ blocks \in Seq(Blocks)
    /\ addScreen \in AddScreens \union {None}
    /\ edits \in 0 .. MaxEdits
    /\ addScreen # None => edits < MaxEdits
    /\ ~open => addScreen = None /\ blocks = << >>
    /\ \A i \in 1 .. Len(blocks) : blocks[i][1] = "add" =>
          /\ addScreen # None /\ addScreen.picked
          /\ \A j \in 1 .. Len(blocks) : blocks[j][1] = "add" => j = i

TypeInv == ChannelTypes /\ SessionTypes /\ ModelTypes /\ TableTypes /\ AddTypes

(* The steps of the user and of the main queue that touch neither the      *)
(* channel nor the history of the screens.                                 *)
EditStep ==
    \/ \E s \in Sections :
          \/ TapAdd(s)
          \/ \E r \in DOMAIN rows[s] :
                \/ DeleteRow(s, r)
                \/ \E t \in Sections : \E u \in 1 .. Len(rows[t]) + 1 : MoveRow(s, r, t, u)
    \/ \E item \in Items : PickItem(item)
    \/ LeaveAddScreen
    \/ RunBlock

LEMMA NextSteps ==
    ASSUME Next
    PROVE  \/ Connect \/ LinkLost \/ LayoutRead \/ LayoutWritten
           \/ Open \/ PressSave \/ SwipeAndStay \/ Close \/ EditStep
BY DEF Next, EditStep

LEMMA EditStepLeaves ==
    ASSUME EditStep
    PROVE  UNCHANGED <<channel, original, writes, readers, manager, screen, hasLoaded,
                       isSaving, saveError, leftover, losses>>
<1>1. ASSUME NEW t \in Sections, TapAdd(t) PROVE UNCHANGED <<channel, original, writes,
          readers, manager, screen, hasLoaded, isSaving, saveError, leftover, losses>>
  BY <1>1 DEF TapAdd, viewModel
<1>2. ASSUME NEW t \in Sections, NEW r, DeleteRow(t, r)
      PROVE  UNCHANGED <<channel, original, writes, readers, manager, screen, hasLoaded,
                         isSaving, saveError, leftover, losses>>
  <2>1. CASE t = 1 /\ r > Len(lists[1])
    BY <1>2, <2>1 DEF DeleteRow, viewModel
  <2>2. CASE ~(t = 1 /\ r > Len(lists[1]))
    BY <1>2, <2>2 DEF DeleteRow, Edited
  <2>. QED BY <2>1, <2>2
<1>3. ASSUME NEW t \in Sections, NEW r, NEW x, NEW y, MoveRow(t, r, x, y)
      PROVE  UNCHANGED <<channel, original, writes, readers, manager, screen, hasLoaded,
                         isSaving, saveError, leftover, losses>>
  BY <1>3 DEF MoveRow, moveItem, Edited, viewModel
<1>4. CASE LeaveAddScreen \/ \E item \in Items : PickItem(item)
  BY <1>4 DEF PickItem, LeaveAddScreen, viewModel, history
<1>5. CASE RunBlock
  BY <1>5 DEF RunBlock, RunReload, RunOverlay, RunSaveButton, RunAdd, Edited,
              viewModel, history
<1>. QED BY <1>1, <1>2, <1>3, <1>4, <1>5 DEF EditStep

(* What saving does, with or without leaving. *)
LEMMA SaveFacts ==
    ASSUME PressSave \/ SwipeAndStay
    PROVE  save /\ open /\ crash = "" /\ addScreen = None
BY DEF PressSave, SwipeAndStay

LEMMA MoreRequests ==
    ASSUME NEW n \in Nat
    PROVE  Requests(n) \subseteq Requests(n + 1)
<1>. SUFFICES ASSUME NEW r \in Requests(n) PROVE r \in Requests(n + 1)
  OBVIOUS
<1>1. 1 .. n \subseteq 1 .. n + 1 /\ 0 .. n \subseteq 0 .. n + 1
  OBVIOUS
<1>2. ReadClosures(n) \subseteq ReadClosures(n + 1)
  BY <1>1 DEF ReadClosures
<1>3. /\ Seq(1 .. n) \subseteq Seq(1 .. n + 1) /\ Seq(0 .. n) \subseteq Seq(0 .. n + 1)
      /\ Seq(ReadClosures(n)) \subseteq Seq(ReadClosures(n + 1))
  BY <1>1, <1>2, SeqMonotonic
<1>. QED BY <1>1, <1>3 DEF Requests

(* A write, if there is one, is recorded with its number. *)
LEMMA WriteLayoutFacts ==
    ASSUME ChannelTypes, SessionTypes, open, lists \in Layouts, WriteLayout(lists), mapped
    PROVE  /\ mapped' = mapped /\ up' = up
           /\ \E handed \in BOOLEAN : /\ q' = SubmitWrite(q, handed)
                                      /\ up => handed
           /\ \E accepted \in BOOLEAN :
                 LET w == [layout |-> lists, session |-> session, accepted |-> accepted]
                 IN  w \in WriteRecords /\ writes' = Append(writes, w)
<1>1. Channel!Write
  BY DEF WriteLayout
<1>2. \E handed \in BOOLEAN : q' = SubmitWrite(q, handed) /\ (up => handed)
  BY <1>1, SameOperations DEF Channel!Write, Channel!Handed
<1>3. PICK accepted \in BOOLEAN :
          writes' = Append(writes, [layout |-> lists, session |-> session,
                                    accepted |-> accepted])
  BY DEF WriteLayout, MayBeAccepted
<1>4. session \in 1 .. MaxSessions
  BY BoundsAssumption DEF SessionTypes
<1>. QED BY <1>1, <1>2, <1>3, <1>4 DEF Channel!Write, WriteRecords

LEMMA WriteLayoutType ==
    ASSUME ChannelTypes, SessionTypes, open, lists \in Layouts, WriteLayout(lists)
    PROVE  ChannelTypes'
<1>1. CASE ~mapped
  BY <1>1 DEF WriteLayout, channel, ChannelTypes
<1>2. CASE mapped
  <2>. DEFINE n == Len(writes)
  <2>1. PICK handed \in BOOLEAN : q' = SubmitWrite(q, handed)
    BY <1>2, WriteLayoutFacts
  <2>2. PICK w \in WriteRecords : writes' = Append(writes, w)
    BY <1>2, WriteLayoutFacts
  <2>3. n \in Nat /\ Len(writes') = n + 1 /\ writes' \in Seq(WriteRecords)
    BY <2>2, AppendFacts DEF ChannelTypes
  <2>4. q \in Requests(n + 1) /\ q.issued < n + 1 /\ n + 1 \in Nat
    BY <2>3, MoreRequests DEF ChannelTypes
  <2>5. q' \in Requests(n + 1)
    BY <2>1, <2>4, SubmitWriteType
  <2>6. q'.issued = n + 1
    BY <2>1 DEF SubmitWrite, ChannelTypes, Requests
  <2>7. up' = up /\ mapped' = mapped
    BY <1>2, WriteLayoutFacts
  <2>. QED BY <2>3, <2>5, <2>6, <2>7 DEF ChannelTypes
<1>. QED BY <1>1, <1>2

(* The types of the channel and of what was written to it. *)
LEMMA ChannelTypesStep ==
    ASSUME TypeInv, Next
    PROVE  ChannelTypes'
<1>. DEFINE n == Len(writes)
<1>0. n \in Nat /\ q \in Requests(n) /\ q.issued = n
  BY LenProperties DEF TypeInv, ChannelTypes
<1>1. CASE Connect
  <2>1. q' \in {q, [q EXCEPT !.value = NoValue]} /\ up' = TRUE /\ mapped' = TRUE
    BY <1>1, SameOperations DEF Connect, Channel!Connect
  <2>2. q' \in Requests(n) /\ q'.issued = n
    BY <1>0, <2>1 DEF Requests, NoValue
  <2>3. writes' = writes
    BY <1>1 DEF Connect
  <2>. QED BY <2>1, <2>2, <2>3 DEF TypeInv, ChannelTypes
<1>2. CASE LinkLost
  <2>1. PICK v \in ReportableValues(q) : q' = DropOps(q, v)
    BY <1>2, SameOperations DEF LinkLost, Channel!Disconnect
  <2>2. v \in 0 .. n
    BY <1>0, <2>1, ReportableType
  <2>3. q' \in Requests(n)
    BY <1>0, <2>1, <2>2, DropOpsType
  <2>4. q'.issued = n
    BY <1>0, <2>1 DEF DropOps, Requests
  <2>5. writes' = writes /\ up' = FALSE /\ mapped' = mapped
    BY <1>2 DEF LinkLost, Channel!Disconnect
  <2>. QED BY <2>3, <2>4, <2>5 DEF TypeInv, ChannelTypes
<1>3. CASE LayoutRead
  <2>1. q.readOps # <<>> /\ q' = ReadAnswered(q) /\ up' = up /\ mapped' = mapped
    BY <1>3, SameOperations DEF LayoutRead, Channel!AnswerRead, ReadIsNext
  <2>2. q' \in Requests(n)
    BY <1>0, <2>1, ReadAnsweredType
  <2>3. q'.issued = n
    BY <1>0, <2>1, ReadsTouchNoWrite
  <2>4. writes' = writes
    BY <1>3 DEF LayoutRead
  <2>. QED BY <2>1, <2>2, <2>3, <2>4 DEF TypeInv, ChannelTypes
<1>4. CASE LayoutWritten
  <2>1. q.writeOps # <<>> /\ q' = WriteAnswered(q, Recognised) /\ up' = up /\ mapped' = mapped
    BY <1>4, SameOperations DEF LayoutWritten, Channel!AnswerWrite, WriteIsNext
  <2>2. q' \in Requests(n)
    BY <1>0, <2>1, RecognisedAssumption, WriteAnsweredType
  <2>3. q'.issued = n
    BY <1>0, <2>1 DEF WriteAnswered, Requests
  <2>4. writes' = writes
    BY <1>4 DEF LayoutWritten
  <2>. QED BY <2>1, <2>2, <2>3, <2>4 DEF TypeInv, ChannelTypes
<1>5. CASE Open
  <2>1. writes' = writes
    BY <1>5 DEF Open
  <2>2. CASE UNCHANGED channel
    BY <2>1, <2>2 DEF channel, TypeInv, ChannelTypes
  <2>3. CASE Channel!Read
    <3>1. PICK handed \in BOOLEAN : q' = SubmitRead(q, handed)
      BY <2>3, SameOperations DEF Channel!Read, Channel!Handed
    <3>2. q' \in Requests(n)
      BY <1>0, <3>1, SubmitReadType
    <3>3. q'.issued = n
      BY <1>0, <3>1 DEF SubmitRead, Requests
    <3>4. up' = up /\ mapped' = mapped
      BY <2>3 DEF Channel!Read
    <3>. QED BY <2>1, <3>2, <3>3, <3>4 DEF TypeInv, ChannelTypes
  <2>. QED BY <1>5, <2>2, <2>3 DEF Open
<1>6. CASE PressSave \/ SwipeAndStay
  <2>1. open /\ WriteLayout(lists)
    BY <1>6, SaveFacts DEF save, setGauges
  <2>. QED BY <2>1, WriteLayoutType DEF TypeInv, ModelTypes
<1>7. CASE Close
  <2>1. CASE configHasChanged
    BY <1>7, <2>1, WriteLayoutType DEF Close, setGauges, TypeInv, ModelTypes
  <2>2. CASE ~configHasChanged
    BY <1>7, <2>2 DEF Close, channel, TypeInv, ChannelTypes
  <2>. QED BY <2>1, <2>2
<1>8. CASE EditStep
  BY <1>8, EditStepLeaves DEF channel, TypeInv, ChannelTypes
<1>. QED BY <1>1, <1>2, <1>3, <1>4, <1>5, <1>6, <1>7, <1>8, NextSteps
(* The types of the screens and of the faults. *)
LEMMA SessionTypesStep ==
    ASSUME TypeInv, Next
    PROVE  SessionTypes'
<1>. USE BoundsAssumption DEF TypeInv, SessionTypes
<1>1. CASE Connect
  BY <1>1 DEF Connect, screen, history
<1>2. CASE LinkLost
  <2>1. losses' \in 0 .. MaxLosses
    BY <1>2 DEF LinkLost
  <2>. QED BY <1>2, <2>1 DEF LinkLost, screen
<1>3. CASE LayoutRead
  BY <1>3 DEF LayoutRead, screen, history
<1>4. CASE LayoutWritten
  BY <1>4 DEF LayoutWritten, screen, history
<1>5. CASE Open
  <2>1. session < MaxSessions /\ session' = session + 1 /\ losses' = losses
    BY <1>5 DEF Open, screen
  <2>2. session \in Nat /\ MaxSessions \in Nat
    OBVIOUS
  <2>3. session' \in 0 .. MaxSessions /\ session' > 0
    BY <2>1, <2>2
  <2>4. readers' \subseteq 1 .. session'
    <3>1. 1 .. session \subseteq 1 .. session' /\ session' \in 1 .. session'
      BY <2>1, <2>2
    <3>2. readers' = readers \/ readers' = readers \union {session'}
      BY <1>5, <2>1 DEF Open
    <3>3. readers \subseteq 1 .. session
      OBVIOUS
    <3>. QED BY <3>1, <3>2, <3>3
  <2>5. losses' \in 0 .. MaxLosses
    BY <2>1
  <2>. QED BY <2>3, <2>4, <2>5
<1>6. CASE PressSave \/ SwipeAndStay
  BY <1>6, SaveFacts DEF save, screen, history
<1>7. CASE Close
  BY <1>7 DEF Close, history
<1>8. CASE EditStep
  <2>1. /\ session' = session /\ readers' = readers /\ losses' = losses
        /\ open' = open
    BY <1>8, EditStepLeaves DEF screen
  <2>. QED BY <2>1
<1>. QED BY <1>1, <1>2, <1>3, <1>4, <1>5, <1>6, <1>7, <1>8, NextSteps

(* What the device may hold is a layout, or too short for one. *)
LEMMA ContentType ==
    ASSUME ChannelTypes, original \in Originals, NEW v \in 0 .. Len(writes)
    PROVE  Content(v) \in Layouts \union {Short}
<1>. DEFINE last == {id \in 1 .. v : /\ writes[id].accepted
                                 /\ \A later \in id + 1 .. v : ~writes[later].accepted}
            id0 == CHOOSE id \in last : TRUE
<1>1. CASE last = {}
  BY <1>1, OriginalsAssumption DEF Content
<1>2. CASE last # {}
  <2>1. id0 \in last
    BY <1>2
  <2>2. id0 \in 1 .. Len(writes) /\ writes \in Seq(WriteRecords)
    BY <2>1, LenProperties DEF ChannelTypes
  <2>3. writes[id0] \in WriteRecords
    BY <2>2, ElementOfSeq
  <2>4. Content(v) = writes[id0].layout
    BY <1>2 DEF Content
  <2>. QED BY <2>3, <2>4 DEF WriteRecords
<1>. QED BY <1>1, <1>2

(* Moving an element, within a list or to the other one. *)
LEMMA MovedType ==
    ASSUME NEW S, NEW ls \in [Sections -> Seq(S)], NEW s \in Sections, NEW t \in Sections,
           NEW r \in 1 .. Len(ls[s]), NEW u \in Nat \ {0},
           u <= Len(ls[t]) + (IF s = t THEN 0 ELSE 1)
    PROVE  Moved(ls, s, r, t, u) \in [Sections -> Seq(S)]
<1>. DEFINE without == [ls EXCEPT ![s] = RemoveAt(@, r)]
<1>1. ls[s] \in Seq(S) /\ ls[t] \in Seq(S)
  OBVIOUS
<1>2. RemoveAt(ls[s], r) \in Seq(S) /\ Len(RemoveAt(ls[s], r)) = Len(ls[s]) - 1
  BY <1>1, RemoveAtFacts
<1>3. ls[s][r] \in S
  BY <1>1, ElementOfSeq
<1>4. without \in [Sections -> Seq(S)] /\ without[s] = RemoveAt(ls[s], r)
      /\ (s # t => without[t] = ls[t])
  BY <1>2
<1>5. Len(ls[s]) \in Nat /\ Len(ls[t]) \in Nat
  BY <1>1, LenProperties
<1>6. u \in 1 .. Len(without[t]) + 1
  BY <1>2, <1>4, <1>5
<1>. HIDE DEF without
<1>7. InsertAt(without[t], u, ls[s][r]) \in Seq(S)
  BY <1>3, <1>4, <1>6, InsertAtFacts
<1>8. [without EXCEPT ![t] = InsertAt(@, u, ls[s][r])] \in [Sections -> Seq(S)]
  BY <1>4, <1>7
<1>. QED BY <1>8 DEF Moved, without

(* What an edit does to the view model. *)
LEMMA ListsAfterEdit ==
    ASSUME TypeInv, EditStep
    PROVE  lists' \in Layouts
<1>. USE DEF TypeInv, ModelTypes
<1>0. lists \in [Sections -> Seq(Items)]
  BY DEF Layouts
<1>1. ASSUME NEW s \in Sections, NEW r \in DOMAIN rows[s], DeleteRow(s, r) PROVE lists' \in Layouts
  <2>1. CASE s = 1 /\ r <= Len(lists[1])
    <3>1. rows[s] \in Seq(Items \union {Add})
      BY DEF TableTypes
    <3>2. r \in 1 .. Len(lists[1])
      BY <1>0, <2>1, <3>1, LenProperties
    <3>3. RemoveAt(lists[1], r) \in Seq(Items)
      BY <1>0, <3>2, RemoveAtFacts DEF Sections
    <3>4. lists' = [lists EXCEPT ![1] = RemoveAt(@, r)]
      BY <1>1, <2>1 DEF DeleteRow, deleteItem
    <3>. QED BY <1>0, <3>3, <3>4 DEF Layouts
  <2>2. CASE ~(s = 1 /\ r <= Len(lists[1]))
    BY <1>1, <2>2 DEF DeleteRow, deleteItem
  <2>. QED BY <2>1, <2>2
<1>2. ASSUME NEW s \in Sections, NEW r \in DOMAIN rows[s], NEW t \in Sections,
             NEW u \in 1 .. Len(rows[t]) + 1, MoveRow(s, r, t, u)
      PROVE  lists' \in Layouts
  <2>1. CASE r <= Len(lists[s]) /\ u <= Len(lists[t]) + (IF s = t THEN 0 ELSE 1)
    <3>1. rows[s] \in Seq(Items \union {Add}) /\ rows[t] \in Seq(Items \union {Add})
      BY DEF TableTypes
    <3>2. r \in 1 .. Len(lists[s]) /\ u \in Nat \ {0}
      BY <1>0, <2>1, <3>1, LenProperties
    <3>3. Moved(lists, s, r, t, u) \in [Sections -> Seq(Items)]
      BY <1>0, <2>1, <3>2, MovedType
    <3>4. lists' = Moved(lists, s, r, t, u)
      BY <1>2, <2>1 DEF MoveRow, moveItem
    <3>. QED BY <3>3, <3>4 DEF Layouts
  <2>2. CASE ~(r <= Len(lists[s]) /\ u <= Len(lists[t]) + (IF s = t THEN 0 ELSE 1))
    BY <1>2, <2>2 DEF MoveRow, viewModel
  <2>. QED BY <2>1, <2>2
<1>3. CASE RunBlock
  <2>1. CASE UNCHANGED viewModel
    BY <2>1 DEF viewModel
  <2>2. ASSUME RunAdd(Head(blocks)[2]), Head(blocks)[1] = "add", blocks # <<>>
        PROVE  lists' \in Layouts
    <3>1. /\ 1 \in 1 .. Len(blocks) /\ Head(blocks) = blocks[1] /\ Head(blocks) \in Blocks
      BY <2>2, TailFacts DEF AddTypes
    <3>2. Head(blocks)[2] \in Items
      BY <2>2, <3>1 DEF Blocks
    <3>3. addScreen \in AddScreens
      BY <2>2, <3>1 DEF AddTypes
    <3>4. addScreen.section \in Sections
      BY <3>3 DEF AddScreens
    <3>5. Append(lists[addScreen.section], Head(blocks)[2]) \in Seq(Items)
      BY <1>0, <3>2, <3>4, AppendFacts
    <3>6. lists' = [lists EXCEPT ![addScreen.section] = Append(@, Head(blocks)[2])]
      BY <2>2 DEF RunAdd
    <3>. QED BY <1>0, <3>5, <3>6 DEF Layouts
  <2>. QED BY <1>3, <2>1, <2>2 DEF RunBlock, RunReload, RunOverlay, RunSaveButton
<1>4. ASSUME UNCHANGED viewModel PROVE lists' \in Layouts
  BY <1>4 DEF viewModel
<1>. QED BY <1>1, <1>2, <1>3, <1>4 DEF EditStep, TapAdd, PickItem, LeaveAddScreen
(* The types of the view model. *)
LEMMA ModelTypesStep ==
    ASSUME TypeInv, Next
    PROVE  ModelTypes'
<1>. USE DEF TypeInv, ModelTypes
<1>0. Empty \in Layouts
  <2>1. << >> \in Seq(Items)
    OBVIOUS
  <2>2. \A S : \A e \in S : <<e, e>> \in [1 .. 2 -> S]
    OBVIOUS
  <2>. QED BY <2>1, <2>2 DEF Empty, Layouts, Sections
<1>1. CASE Connect
  BY <1>1 DEF Connect, viewModel, screen, history
<1>2. CASE LinkLost
  BY <1>2 DEF LinkLost, viewModel, screen
<1>3. CASE LayoutRead
  <2>. DEFINE answer == Content(Head(q.readOps))
              parsed == IF answer = Short THEN manager ELSE answer
  <2>1. q.readOps # <<>>
    BY <1>3, SameOperations DEF LayoutRead, Channel!AnswerRead, ReadIsNext
  <2>2. q.readOps \in Seq(0 .. Len(writes))
    BY DEF ChannelTypes, Requests
  <2>3. Head(q.readOps) \in 0 .. Len(writes)
    BY <2>1, <2>2, TailFacts
  <2>4. parsed \in Layouts
    BY <2>3, ContentType
  <2>. HIDE DEF parsed
  <2>5. /\ manager' \in {manager, parsed} /\ lists' \in {lists, parsed}
        /\ hasLoaded' \in {hasLoaded, TRUE}
        /\ leftover' \in {leftover, TRUE, FALSE}
    BY <1>3 DEF LayoutRead, parsed
  <2>6. UNCHANGED <<original, open, configHasChanged, isSaving, saveError, early, raced>>
    BY <1>3 DEF LayoutRead, screen, history
  <2>. QED BY <2>4, <2>5, <2>6
<1>4. CASE LayoutWritten
  <2>1. UNCHANGED <<original, manager, lists, open, hasLoaded, early, raced, leftover>>
    BY <1>4 DEF LayoutWritten, screen, history
  <2>2. /\ configHasChanged' \in {configHasChanged, FALSE}
        /\ isSaving' \in {isSaving, FALSE} /\ saveError' \in {saveError, FALSE}
    BY <1>4 DEF LayoutWritten, wasSuccessful
  <2>. QED BY <2>1, <2>2
<1>5. CASE Open
  BY <1>0, <1>5 DEF Open
<1>6. CASE PressSave \/ SwipeAndStay
  BY <1>6, SaveFacts DEF save, setGauges, screen, history
<1>7. CASE Close
  <2>1. manager' \in {manager, lists}
    BY <1>7 DEF Close, setGauges
  <2>. QED BY <1>7, <2>1 DEF Close, viewModel, history
<1>8. CASE EditStep
  <2>1. UNCHANGED <<original, manager, open, hasLoaded, isSaving, saveError, leftover>>
    BY <1>8, EditStepLeaves DEF screen
  <2>2. configHasChanged' \in BOOLEAN /\ raced' \in BOOLEAN /\ early' \in BOOLEAN
    <3>1. ASSUME Edited
          PROVE  configHasChanged' \in BOOLEAN /\ raced' \in BOOLEAN
      BY <3>1 DEF Edited
    <3>2. ASSUME UNCHANGED viewModel, raced' = raced
          PROVE  configHasChanged' \in BOOLEAN /\ raced' \in BOOLEAN
      BY <3>2 DEF viewModel
    <3>3. ASSUME early' = early \/ early' = (early \/ ~hasLoaded)
          PROVE  early' \in BOOLEAN
      BY <3>3
    <3>4. ASSUME NEW s \in Sections, TapAdd(s)
          PROVE  configHasChanged' \in BOOLEAN /\ raced' \in BOOLEAN /\ early' \in BOOLEAN
      BY <3>2, <3>3, <3>4 DEF TapAdd
    <3>5. ASSUME NEW s \in Sections, NEW r, DeleteRow(s, r)
          PROVE  configHasChanged' \in BOOLEAN /\ raced' \in BOOLEAN /\ early' \in BOOLEAN
      <4>1. early' \in BOOLEAN
        BY <3>3, <3>5 DEF DeleteRow
      <4>2. CASE s = 1 /\ r > Len(lists[1])
        BY <3>2, <3>5, <4>1, <4>2 DEF DeleteRow
      <4>3. CASE ~(s = 1 /\ r > Len(lists[1]))
        <5>1. Edited
          BY <3>5, <4>3 DEF DeleteRow
        <5>. QED BY <3>1, <4>1, <5>1
      <4>. QED BY <4>2, <4>3
    <3>6. ASSUME NEW s \in Sections, NEW r, NEW t, NEW u, MoveRow(s, r, t, u)
          PROVE  configHasChanged' \in BOOLEAN /\ raced' \in BOOLEAN /\ early' \in BOOLEAN
      <4>1. early' \in BOOLEAN
        BY <3>3, <3>6 DEF MoveRow
      <4>2. CASE r <= Len(lists[s]) /\ u <= Len(lists[t]) + (IF s = t THEN 0 ELSE 1)
        <5>1. Edited
          BY <3>6, <4>2 DEF MoveRow, moveItem
        <5>. QED BY <3>1, <4>1, <5>1
      <4>3. CASE ~(r <= Len(lists[s]) /\ u <= Len(lists[t]) + (IF s = t THEN 0 ELSE 1))
        BY <3>2, <3>6, <4>1, <4>3 DEF MoveRow
      <4>. QED BY <4>2, <4>3
    <3>7. ASSUME UNCHANGED viewModel, UNCHANGED history
          PROVE  configHasChanged' \in BOOLEAN /\ raced' \in BOOLEAN /\ early' \in BOOLEAN
      BY <3>2, <3>3, <3>7 DEF history
    <3>8. ASSUME RunAdd(Head(blocks)[2])
          PROVE  configHasChanged' \in BOOLEAN /\ raced' \in BOOLEAN /\ early' \in BOOLEAN
      <4>1. Edited /\ early' = early
        BY <3>8 DEF RunAdd
      <4>. QED BY <3>1, <3>3, <4>1
    <3>9. CASE RunBlock
      BY <3>7, <3>8, <3>9 DEF RunBlock, RunReload, RunOverlay, RunSaveButton
    <3>10. CASE LeaveAddScreen \/ \E item \in Items : PickItem(item)
      BY <3>7, <3>10 DEF PickItem, LeaveAddScreen
    <3>. QED BY <1>8, <3>4, <3>5, <3>6, <3>9, <3>10 DEF EditStep
  <2>. QED BY <1>8, <2>1, <2>2, ListsAfterEdit
<1>. QED BY <1>1, <1>2, <1>3, <1>4, <1>5, <1>6, <1>7, <1>8, NextSteps

-----------------------------------------------------------------------------
(* The blocks on the main queue. *)

(* What AddTypes says of a queue of blocks and the add screen. *)
AddBlocks(bs, add) ==
    \A i \in 1 .. Len(bs) : bs[i][1] = "add" =>
        /\ add # None /\ add.picked
        /\ \A j \in 1 .. Len(bs) : bs[j][1] = "add" => j = i

NoAdd(bs) == \A i \in 1 .. Len(bs) : bs[i][1] # "add"

(* The blocks by kind. *)
LEMMA BlockFacts ==
    /\ <<"reload">> \in Blocks /\ <<"reload">>[1] = "reload"
    /\ \A b \in BOOLEAN : /\ <<"save", b>> \in Blocks /\ <<"overlay", b>> \in Blocks
                          /\ <<"save", b>>[1] = "save" /\ <<"save", b>>[2] = b
                          /\ <<"overlay", b>>[1] = "overlay" /\ <<"overlay", b>>[2] = b
    /\ \A item \in Items : <<"add", item>> \in Blocks /\ <<"add", item>>[1] = "add"
BY DEF Blocks

(* A block that adds nothing joins the queue. *)
LEMMA AppendOther ==
    ASSUME NEW bs \in Seq(Blocks), NEW b \in Blocks, b[1] # "add", NEW add, AddBlocks(bs, add)
    PROVE  Append(bs, b) \in Seq(Blocks) /\ AddBlocks(Append(bs, b), add)
<1>. DEFINE n == Len(bs)
            cs == Append(bs, b)
<1>1. /\ n \in Nat /\ cs \in Seq(Blocks) /\ Len(cs) = n + 1
      /\ \A i \in 1 .. n : cs[i] = bs[i]
      /\ cs[n + 1] = b
  BY AppendFacts
<1>. HIDE DEF cs
<1>2. ASSUME NEW i \in 1 .. n + 1, cs[i][1] = "add"
      PROVE  i \in 1 .. n /\ bs[i][1] = "add"
  BY <1>1, <1>2
<1>. QED BY <1>1, <1>2 DEF AddBlocks, cs

(* The block that adds an item joins a queue without one. *)
LEMMA AppendAdd ==
    ASSUME NEW bs \in Seq(Blocks), NoAdd(bs), NEW item \in Items,
           NEW add, add # None, add.picked
    PROVE  /\ Append(bs, <<"add", item>>) \in Seq(Blocks)
           /\ AddBlocks(Append(bs, <<"add", item>>), add)
<1>. DEFINE n == Len(bs)
            b == <<"add", item>>
            cs == Append(bs, b)
<1>0. b \in Blocks
  BY BlockFacts
<1>. HIDE DEF b
<1>1. /\ n \in Nat /\ cs \in Seq(Blocks) /\ Len(cs) = n + 1
      /\ \A i \in 1 .. n : cs[i] = bs[i]
  BY <1>0, AppendFacts
<1>. HIDE DEF cs
<1>2. ASSUME NEW i \in 1 .. n + 1, cs[i][1] = "add"
      PROVE  i = n + 1
  BY <1>1, <1>2 DEF NoAdd
<1>. QED BY <1>1, <1>2 DEF AddBlocks, cs, b

(* The next block leaves the queue. *)
LEMMA TailBlocks ==
    ASSUME NEW bs \in Seq(Blocks), bs # << >>, NEW add, AddBlocks(bs, add)
    PROVE  /\ Tail(bs) \in Seq(Blocks) /\ AddBlocks(Tail(bs), add)
           /\ Head(bs) \in Blocks /\ Head(bs) = bs[1] /\ 1 \in 1 .. Len(bs)
           /\ Head(bs)[1] = "add" => NoAdd(Tail(bs))
<1>. DEFINE n == Len(bs)
            cs == Tail(bs)
<1>1. /\ n \in Nat /\ n > 0 /\ cs \in Seq(Blocks) /\ Len(cs) = n - 1
      /\ \A i \in 1 .. n - 1 : cs[i] = bs[i + 1]
      /\ Head(bs) = bs[1] /\ Head(bs) \in Blocks
  BY TailFacts
<1>. HIDE DEF cs
<1>2. \A i \in 1 .. n - 1 : i + 1 \in 1 .. n /\ i + 1 # 1
  BY <1>1
<1>3. \A i, j \in 1 .. n - 1 : i + 1 = j + 1 => i = j
  BY <1>1
<1>4. 1 \in 1 .. n
  BY <1>1
<1>5. ASSUME NEW i \in 1 .. n - 1, cs[i][1] = "add"
      PROVE  /\ add # None /\ add.picked
             /\ \A j \in 1 .. n - 1 : cs[j][1] = "add" => j = i
  <2>1. i + 1 \in 1 .. n /\ bs[i + 1][1] = "add"
    BY <1>1, <1>2, <1>5
  <2>2. /\ add # None /\ add.picked
        /\ \A j \in 1 .. n : bs[j][1] = "add" => j = i + 1
    BY <2>1 DEF AddBlocks
  <2>3. ASSUME NEW j \in 1 .. n - 1, cs[j][1] = "add" PROVE j = i
    <3>1. j + 1 \in 1 .. n /\ bs[j + 1][1] = "add"
      BY <1>1, <1>2, <2>3
    <3>2. j + 1 = i + 1
      BY <2>2, <3>1
    <3>. QED BY <1>3, <3>2
  <2>. QED BY <2>2, <2>3
<1>6. ASSUME bs[1][1] = "add" PROVE NoAdd(cs)
  BY <1>1, <1>2, <1>4, <1>6 DEF AddBlocks, NoAdd
<1>7. AddBlocks(cs, add)
  BY <1>1, <1>5, Zenon DEF AddBlocks
<1>. QED BY <1>1, <1>4, <1>6, <1>7 DEF cs

(* What RunBlock runs. *)
LEMMA RunBlockCases ==
    ASSUME TypeInv, RunBlock
    PROVE  /\ crash = "" /\ blocks # << >> /\ open
           /\ blocks \in Seq(Blocks) /\ AddBlocks(blocks, addScreen)
           /\ Head(blocks) = blocks[1] /\ 1 \in 1 .. Len(blocks)
           /\ \/ /\ Head(blocks)[1] = "reload" /\ RunReload /\ blocks' = Tail(blocks)
              \/ /\ Head(blocks)[1] = "overlay" /\ Head(blocks)[2] \in BOOLEAN
                 /\ RunOverlay(Head(blocks)[2]) /\ blocks' = Tail(blocks)
              \/ /\ Head(blocks)[1] = "save" /\ Head(blocks)[2] \in BOOLEAN
                 /\ RunSaveButton(Head(blocks)[2]) /\ blocks' = Tail(blocks)
              \/ /\ Head(blocks)[1] = "add" /\ Head(blocks)[2] \in Items
                 /\ addScreen \in AddScreens /\ addScreen # None /\ RunAdd(Head(blocks)[2])
                 /\ blocks' = Append(Tail(blocks), <<"save", TRUE>>)
<1>1. /\ crash = "" /\ blocks # << >> /\ open /\ blocks \in Seq(Blocks)
      /\ AddBlocks(blocks, addScreen)
  BY DEF RunBlock, TypeInv, AddTypes, AddBlocks, ModelTypes
<1>2. Head(blocks) \in Blocks /\ Head(blocks) = blocks[1] /\ 1 \in 1 .. Len(blocks)
  BY <1>1, TailBlocks
<1>3. CASE Head(blocks)[1] = "reload"
  BY <1>1, <1>2, <1>3 DEF RunBlock
<1>4. ASSUME Head(blocks)[1] \in {"overlay", "save"} PROVE Head(blocks)[2] \in BOOLEAN
  BY <1>2, <1>4 DEF Blocks
<1>5. CASE Head(blocks)[1] \in {"overlay", "save"}
  BY <1>1, <1>2, <1>4, <1>5 DEF RunBlock
<1>6. CASE Head(blocks)[1] = "add"
  <2>1. Head(blocks)[2] \in Items
    BY <1>2, <1>6 DEF Blocks
  <2>2. addScreen \in AddScreens /\ addScreen # None
    BY <1>2, <1>6 DEF TypeInv, AddTypes
  <2>3. RunAdd(Head(blocks)[2]) /\ blocks' = Append(Tail(blocks), <<"save", TRUE>>)
    BY <1>6 DEF RunBlock
  <2>. QED BY <1>1, <1>2, <1>6, <2>1, <2>2, <2>3
<1>7. Head(blocks)[1] \in {"reload", "overlay", "save", "add"}
  BY <1>2 DEF Blocks
<1>. QED BY <1>3, <1>5, <1>6, <1>7

(* The main queue, when the block of the add screen stays where it is. *)
QueueStep ==
    \/ blocks' = blocks
    \/ open /\ \E b \in Blocks : b[1] # "add" /\ blocks' = Append(blocks, b)
    \/ open /\ blocks' = blocks \o << <<"save", FALSE>>, <<"overlay", FALSE>> >>
    \/ open /\ blocks # << >> /\ blocks' = Tail(blocks)

LEMMA QueueStepFacts ==
    ASSUME blocks \in Seq(Blocks), AddBlocks(blocks, addScreen), QueueStep,
           ~open => blocks = << >>
    PROVE  /\ blocks' \in Seq(Blocks) /\ AddBlocks(blocks', addScreen)
           /\ ~open => blocks' = << >>
<1>1. CASE blocks' = blocks
  BY <1>1
<1>2. CASE open /\ \E b \in Blocks : b[1] # "add" /\ blocks' = Append(blocks, b)
  BY <1>2, AppendOther
<1>3. CASE open /\ blocks' = blocks \o << <<"save", FALSE>>, <<"overlay", FALSE>> >>
  <2>. DEFINE x == <<"save", FALSE>>
              y == <<"overlay", FALSE>>
  <2>1. x \in Blocks /\ y \in Blocks /\ x[1] # "add" /\ y[1] # "add"
    BY BlockFacts
  <2>2. blocks' = blocks \o <<x, y>>
    BY <1>3
  <2>. HIDE DEF x, y
  <2>3. blocks' = Append(Append(blocks, x), y)
    BY <2>1, <2>2
  <2>4. Append(blocks, x) \in Seq(Blocks) /\ AddBlocks(Append(blocks, x), addScreen)
    BY <2>1, AppendOther
  <2>5. blocks' \in Seq(Blocks) /\ AddBlocks(blocks', addScreen)
    BY <2>1, <2>3, <2>4, AppendOther
  <2>. QED BY <1>3, <2>5
<1>4. CASE open /\ blocks # << >> /\ blocks' = Tail(blocks)
  BY <1>4, TailBlocks
<1>. QED BY <1>1, <1>2, <1>3, <1>4 DEF QueueStep

(* What an edit of the table does to the queue and to the count of edits. *)
LEMMA TableEditFacts ==
    ASSUME NEW s \in Sections, NEW r, NEW t, NEW u, DeleteRow(s, r) \/ MoveRow(s, r, t, u)
    PROVE  /\ crash = "" /\ open /\ addScreen = None /\ addScreen' = None
           /\ edits < MaxEdits
           /\ \/ edits' = edits /\ blocks' = blocks
              \/ edits' = edits + 1 /\ blocks' = Append(blocks, <<"save", TRUE>>)
<1>1. CASE DeleteRow(s, r)
  <2>1. crash = "" /\ open /\ addScreen = None /\ addScreen' = None /\ edits < MaxEdits
    BY <1>1 DEF DeleteRow, Touchable
  <2>2. CASE s = 1 /\ r > Len(lists[1])
    BY <1>1, <2>1, <2>2 DEF DeleteRow
  <2>3. CASE ~(s = 1 /\ r > Len(lists[1]))
    <3>1. Edited /\ blocks' = Append(blocks, <<"save", TRUE>>)
      BY <1>1, <2>3 DEF DeleteRow
    <3>. QED BY <2>1, <3>1 DEF Edited
  <2>. QED BY <2>2, <2>3
<1>2. CASE MoveRow(s, r, t, u)
  <2>1. crash = "" /\ open /\ addScreen = None /\ addScreen' = None /\ edits < MaxEdits
    BY <1>2 DEF MoveRow, Touchable
  <2>2. CASE r <= Len(lists[s]) /\ u <= Len(lists[t]) + (IF s = t THEN 0 ELSE 1)
    <3>1. Edited /\ blocks' = Append(blocks, <<"save", TRUE>>)
      BY <1>2, <2>2 DEF MoveRow, moveItem
    <3>. QED BY <2>1, <3>1 DEF Edited
  <2>3. CASE ~(r <= Len(lists[s]) /\ u <= Len(lists[t]) + (IF s = t THEN 0 ELSE 1))
    BY <1>2, <2>1, <2>3 DEF MoveRow
  <2>. QED BY <2>2, <2>3
<1>. QED BY <1>1, <1>2

(* The types of what waits on the main queue. *)
LEMMA AddTypesStep ==
    ASSUME TypeInv, Next
    PROVE  AddTypes'
<1>0. /\ blocks \in Seq(Blocks) /\ addScreen \in AddScreens \union {None}
      /\ edits \in 0 .. MaxEdits /\ open \in BOOLEAN
      /\ addScreen # None => edits < MaxEdits
      /\ ~open => addScreen = None /\ blocks = << >>
      /\ AddBlocks(blocks, addScreen)
  BY DEF TypeInv, AddTypes, AddBlocks, ModelTypes
<1>21. edits \in Nat /\ MaxEdits \in Nat
  BY <1>0, BoundsAssumption
<1>22. None \notin AddScreens
  BY MarkersAssumption
<1>23. << >> \in Seq(Blocks) /\ \A add : AddBlocks(<< >>, add)
  BY DEF AddBlocks
<1>. SUFFICES /\ blocks' \in Seq(Blocks) /\ addScreen' \in AddScreens \union {None}
              /\ edits' \in 0 .. MaxEdits
              /\ addScreen' # None => edits' < MaxEdits
              /\ ~open' => addScreen' = None /\ blocks' = << >>
              /\ AddBlocks(blocks', addScreen')
  BY DEF AddTypes, AddBlocks
<1>20. ASSUME UNCHANGED <<open, addScreen, edits>>, QueueStep
      PROVE  /\ blocks' \in Seq(Blocks) /\ addScreen' \in AddScreens \union {None}
             /\ edits' \in 0 .. MaxEdits
             /\ addScreen' # None => edits' < MaxEdits
             /\ ~open' => addScreen' = None /\ blocks' = << >>
             /\ AddBlocks(blocks', addScreen')
  BY <1>0, <1>20, QueueStepFacts
<1>1. CASE Connect
  BY <1>1, <1>20 DEF Connect, screen, history, QueueStep
<1>2. CASE LinkLost
  BY <1>2, <1>20 DEF LinkLost, screen, QueueStep
<1>3. CASE LayoutRead
  <2>1. blocks' = blocks \/ (open /\ blocks' = Append(blocks, <<"reload">>))
    <3>1. CASE open /\ session \in readers
      BY <1>3, <3>1 DEF LayoutRead
    <3>2. CASE ~(open /\ session \in readers)
      BY <1>3, <3>2 DEF LayoutRead
    <3>. QED BY <3>1, <3>2
  <2>2. QueueStep
    BY <2>1, BlockFacts DEF QueueStep
  <2>. QED BY <1>3, <1>20, <2>2 DEF LayoutRead, screen, history
<1>4. CASE LayoutWritten
  <2>1. QueueStep
    BY <1>4 DEF LayoutWritten, QueueStep
  <2>. QED BY <1>4, <1>20, <2>1 DEF LayoutWritten, screen, history
<1>5. CASE Open
  BY <1>0, <1>5 DEF Open
<1>6. CASE PressSave \/ SwipeAndStay
  <2>1. open /\ blocks' = Append(blocks, <<"overlay", TRUE>>)
    BY <1>6, SaveFacts DEF save
  <2>2. QueueStep
    BY <2>1, BlockFacts DEF QueueStep
  <2>. QED BY <1>6, <1>20, <2>2, SaveFacts DEF save, screen, history
<1>7. CASE Close
  BY <1>0, <1>23, <1>7 DEF Close, history
<1>8. CASE EditStep
  <2>0. open' = open
    BY <1>8, EditStepLeaves DEF screen
  <2>1. ASSUME NEW s \in Sections, TapAdd(s)
        PROVE  /\ blocks' \in Seq(Blocks) /\ addScreen' \in AddScreens \union {None}
               /\ edits' \in 0 .. MaxEdits
               /\ addScreen' # None => edits' < MaxEdits
               /\ ~open' => addScreen' = None /\ blocks' = << >>
               /\ AddBlocks(blocks', addScreen')
    <3>1. /\ open /\ addScreen = None /\ edits < MaxEdits /\ edits' = edits
          /\ blocks' = blocks
          /\ addScreen' = [section |-> s, row |-> Len(lists[s]) + 1, picked |-> FALSE]
      BY <2>1 DEF TapAdd, Touchable
    <3>2. Len(lists[s]) \in Nat
      BY LenProperties DEF TypeInv, ModelTypes, Layouts
    <3>3. addScreen' \in AddScreens
      BY <3>1, <3>2 DEF AddScreens
    <3>4. AddBlocks(blocks', addScreen')
      BY <1>0, <3>1 DEF AddBlocks
    <3>. QED BY <1>0, <2>0, <3>1, <3>3, <3>4
  <2>2. ASSUME NEW s \in Sections, NEW r, NEW t, NEW u, DeleteRow(s, r) \/ MoveRow(s, r, t, u)
        PROVE  /\ blocks' \in Seq(Blocks) /\ addScreen' \in AddScreens \union {None}
               /\ edits' \in 0 .. MaxEdits
               /\ addScreen' # None => edits' < MaxEdits
               /\ ~open' => addScreen' = None /\ blocks' = << >>
               /\ AddBlocks(blocks', addScreen')
    <3>1. /\ open /\ addScreen = None /\ addScreen' = None /\ edits < MaxEdits
          /\ edits' = edits \/ edits' = edits + 1
          /\ blocks' = blocks \/ blocks' = Append(blocks, <<"save", TRUE>>)
      BY <2>2, TableEditFacts
    <3>2. QueueStep
      BY <3>1, BlockFacts DEF QueueStep
    <3>3. edits' \in 0 .. MaxEdits
      BY <1>21, <3>1
    <3>. QED BY <1>0, <2>0, <3>1, <3>2, <3>3, QueueStepFacts
  <2>3. ASSUME NEW item \in Items, PickItem(item)
        PROVE  /\ blocks' \in Seq(Blocks) /\ addScreen' \in AddScreens \union {None}
               /\ edits' \in 0 .. MaxEdits
               /\ addScreen' # None => edits' < MaxEdits
               /\ ~open' => addScreen' = None /\ blocks' = << >>
               /\ AddBlocks(blocks', addScreen')
    <3>1. /\ addScreen # None /\ ~addScreen.picked /\ edits' = edits
          /\ addScreen' = [addScreen EXCEPT !.picked = TRUE]
          /\ blocks' = Append(blocks, <<"add", item>>)
      BY <2>3 DEF PickItem, history
    <3>2. addScreen' \in AddScreens /\ addScreen'.picked
      BY <1>0, <3>1 DEF AddScreens
    <3>3. NoAdd(blocks)
      BY <1>0, <3>1 DEF AddBlocks, NoAdd
    <3>4. blocks' \in Seq(Blocks) /\ AddBlocks(blocks', addScreen')
      BY <1>0, <1>22, <3>1, <3>2, <3>3, AppendAdd
    <3>. QED BY <1>0, <2>0, <3>1, <3>2, <3>4
  <2>4. CASE LeaveAddScreen
    <3>1. /\ addScreen # None /\ ~addScreen.picked /\ edits' = edits /\ addScreen' = None
          /\ blocks' = blocks
      BY <2>4 DEF LeaveAddScreen, history
    <3>2. NoAdd(blocks)
      BY <1>0, <3>1 DEF AddBlocks, NoAdd
    <3>3. AddBlocks(blocks', addScreen')
      BY <3>1, <3>2 DEF AddBlocks, NoAdd
    <3>. QED BY <1>0, <2>0, <3>1, <3>3
  <2>5. CASE RunBlock
    <3>1. CASE blocks' = Tail(blocks) /\ UNCHANGED <<addScreen, edits>>
      <4>1. QueueStep
        BY <2>5, <3>1, RunBlockCases DEF QueueStep
      <4>. QED BY <1>20, <2>0, <3>1, <4>1
    <3>2. CASE RunAdd(Head(blocks)[2]) /\ Head(blocks)[1] = "add" /\ addScreen # None
               /\ blocks' = Append(Tail(blocks), <<"save", TRUE>>)
      <4>1. open /\ blocks # << >>
        BY <2>5, RunBlockCases
      <4>2. addScreen' = None
        BY <3>2 DEF RunAdd
      <4>3. edits' = edits + 1
        BY <3>2 DEF RunAdd, Edited
      <4>4. edits' \in 0 .. MaxEdits
        BY <1>0, <1>21, <3>2, <4>3
      <4>5. Tail(blocks) \in Seq(Blocks) /\ NoAdd(Tail(blocks))
        BY <1>0, <3>2, <4>1, TailBlocks
      <4>6. AddBlocks(Tail(blocks), None)
        BY <4>5 DEF NoAdd, AddBlocks
      <4>7. blocks' \in Seq(Blocks) /\ AddBlocks(blocks', None)
        BY <3>2, <4>5, <4>6, BlockFacts, AppendOther
      <4>. QED BY <2>0, <4>1, <4>2, <4>4, <4>7
    <3>. QED BY <2>5, <3>1, <3>2, RunBlockCases
         DEF RunReload, RunOverlay, RunSaveButton, history
  <2>. QED BY <1>8, <2>1, <2>2, <2>3, <2>4, <2>5 DEF EditStep
<1>. QED BY <1>1, <1>2, <1>3, <1>4, <1>5, <1>6, <1>7, <1>8, NextSteps
-----------------------------------------------------------------------------
(* The types of the table. *)

RowTypes == [Sections -> Seq(Items \union {Add})]

LEMMA ShownType ==
    ASSUME NEW ls \in Layouts
    PROVE  /\ Shown(ls) \in RowTypes
           /\ \A s \in Sections : /\ Shown(ls)[s] = Append(ls[s], Add)
                                   /\ Len(Shown(ls)[s]) = Len(ls[s]) + 1
<1>1. ASSUME NEW s \in Sections
      PROVE  /\ Append(ls[s], Add) \in Seq(Items \union {Add})
             /\ Len(Append(ls[s], Add)) = Len(ls[s]) + 1
  <2>1. Seq(Items) \subseteq Seq(Items \union {Add})
    BY SeqMonotonic
  <2>2. ls[s] \in Seq(Items \union {Add})
    BY <2>1 DEF Layouts
  <2>. QED BY <2>2, AppendFacts
<1>. QED BY <1>1 DEF Shown, RowTypes

(* A move that the data source takes is one the rows can make. *)
LEMMA RowsMoved ==
    ASSUME TypeInv, NEW s \in Sections, NEW r \in DOMAIN rows[s], NEW t \in Sections,
           NEW u \in 1 .. Len(rows[t]) + 1, MoveRow(s, r, t, u)
    PROVE  /\ r \in 1 .. Len(rows[s]) /\ u \in Nat \ {0}
           /\ u <= Len(rows[t]) + (IF s = t THEN 0 ELSE 1)
           /\ Moved(rows, s, r, t, u) \in RowTypes
<1>1. rows \in [Sections -> Seq(Items \union {Add})]
  BY DEF TypeInv, TableTypes
<1>2. r \in 1 .. Len(rows[s])
  BY <1>1, LenProperties
<1>3. u \in 1 .. Len(rows[t]) + (IF s = t THEN 0 ELSE 1)
  BY DEF MoveRow
<1>4. Len(rows[t]) \in Nat
  BY <1>1, LenProperties
<1>5. u \in Nat \ {0} /\ u <= Len(rows[t]) + (IF s = t THEN 0 ELSE 1)
  <2>1. CASE s = t
    BY <1>3, <1>4, <2>1
  <2>2. CASE s # t
    BY <1>3, <1>4, <2>2
  <2>. QED BY <2>1, <2>2
<1>. QED BY <1>1, <1>2, <1>5, MovedType DEF RowTypes

LEMMA TableTypesStep ==
    ASSUME TypeInv, Next
    PROVE  TableTypes'
<1>. DEFINE Reasons == {"", "add row", "past the end", "monitor", "stale"}
<1>0. /\ rows \in RowTypes /\ overlay \in BOOLEAN /\ saveShown \in BOOLEAN
      /\ crash \in Reasons /\ lists \in Layouts
  BY DEF TypeInv, TableTypes, ModelTypes, RowTypes
<1>. SUFFICES rows' \in RowTypes /\ overlay' \in BOOLEAN /\ saveShown' \in BOOLEAN
              /\ crash' \in Reasons
  BY DEF TableTypes, RowTypes
<1>10. ASSUME UNCHANGED table, crash' = crash
       PROVE  rows' \in RowTypes /\ overlay' \in BOOLEAN /\ saveShown' \in BOOLEAN
              /\ crash' \in Reasons
  BY <1>0, <1>10 DEF table
<1>1. CASE Connect
  BY <1>1, <1>10 DEF Connect
<1>2. CASE LinkLost
  BY <1>2, <1>10 DEF LinkLost
<1>3. CASE LayoutRead
  BY <1>3, <1>10 DEF LayoutRead
<1>4. CASE LayoutWritten
  BY <1>4, <1>10 DEF LayoutWritten
<1>5. CASE Open
  <2>1. Empty \in Layouts
    <3>1. << >> \in Seq(Items)
      OBVIOUS
    <3>2. \A S : \A e \in S : <<e, e>> \in [1 .. 2 -> S]
      OBVIOUS
    <3>. QED BY <3>1, <3>2 DEF Empty, Layouts, Sections
  <2>. QED BY <1>0, <1>5, <2>1, ShownType DEF Open
<1>6. CASE PressSave \/ SwipeAndStay
  BY <1>6, <1>10, SaveFacts DEF save
<1>7. CASE Close
  BY <1>7, <1>10 DEF Close
<1>8. CASE EditStep
  <2>1. CASE LeaveAddScreen \/ (\E s \in Sections : TapAdd(s)) \/ \E item \in Items : PickItem(item)
    BY <1>10, <2>1 DEF TapAdd, PickItem, LeaveAddScreen
  <2>2. ASSUME NEW s \in Sections, NEW r \in DOMAIN rows[s], DeleteRow(s, r)
        PROVE  rows' \in RowTypes /\ overlay' \in BOOLEAN /\ saveShown' \in BOOLEAN
               /\ crash' \in Reasons
    <3>. DEFINE rs == [rows EXCEPT ![s] = RemoveAt(@, r)]
    <3>1. rows[s] \in Seq(Items \union {Add})
      BY <1>0 DEF RowTypes
    <3>2. r \in 1 .. Len(rows[s])
      BY <3>1, LenProperties
    <3>3. rs \in RowTypes
      BY <1>0, <3>1, <3>2, RemoveAtFacts DEF RowTypes
    <3>. HIDE DEF rs
    <3>4. UpdateRows(rs, lists', DeleteReason(s, r)) /\ UNCHANGED <<overlay, saveShown>>
      BY <2>2 DEF DeleteRow, rs
    <3>5. DeleteReason(s, r) \in Reasons
      BY DEF DeleteReason
    <3>. QED BY <1>0, <3>3, <3>4, <3>5 DEF UpdateRows
  <2>3. ASSUME NEW s \in Sections, NEW r \in DOMAIN rows[s], NEW t \in Sections,
               NEW u \in 1 .. Len(rows[t]) + 1, MoveRow(s, r, t, u)
        PROVE  rows' \in RowTypes /\ overlay' \in BOOLEAN /\ saveShown' \in BOOLEAN
               /\ crash' \in Reasons
    <3>1. Moved(rows, s, r, t, u) \in RowTypes
      BY <2>3, RowsMoved
    <3>2. MoveReason(s, r, t, u) \in Reasons
      BY DEF MoveReason
    <3>3. /\ rows' = rows \/ rows' = Moved(rows, s, r, t, u)
          /\ crash' = crash \/ crash' = MoveReason(s, r, t, u)
          /\ UNCHANGED <<overlay, saveShown>>
      BY <2>3 DEF MoveRow
    <3>. QED BY <1>0, <3>1, <3>2, <3>3
  <2>4. CASE RunBlock
    <3>1. CASE RunReload
      BY <1>0, <3>1, ShownType DEF RunReload
    <3>2. CASE Head(blocks)[2] \in BOOLEAN /\ RunOverlay(Head(blocks)[2])
      BY <1>0, <3>2 DEF RunOverlay
    <3>3. CASE Head(blocks)[2] \in BOOLEAN /\ RunSaveButton(Head(blocks)[2])
      BY <1>0, <3>3 DEF RunSaveButton
    <3>4. CASE Head(blocks)[2] \in Items /\ addScreen \in AddScreens /\ RunAdd(Head(blocks)[2])
      <4>. DEFINE s == addScreen.section
                  row == addScreen.row
                  item == Head(blocks)[2]
                  added == [lists EXCEPT ![s] = Append(@, item)]
                  rs == [rows EXCEPT ![s] = InsertAt(@, row, Shown(added)[s][row])]
      <4>1. s \in Sections /\ row \in Nat \ {0}
        BY <3>4 DEF AddScreens
      <4>2. Append(lists[s], item) \in Seq(Items) /\ lists[s] \in Seq(Items)
        BY <1>0, <3>4, <4>1, AppendFacts DEF Layouts
      <4>3. added \in Layouts
        BY <1>0, <4>2 DEF Layouts
      <4>4. UNCHANGED <<overlay, saveShown>>
        BY <3>4 DEF RunAdd
      <4>5. CASE row <= Len(added[s]) + 1 /\ row <= Len(rows[s]) + 1
        <5>1. UpdateRows(rs, added, "stale")
          BY <3>4, <4>5 DEF RunAdd
        <5>. HIDE DEF added, s, row
        <5>2. Shown(added) \in RowTypes /\ Len(Shown(added)[s]) = Len(added[s]) + 1
          BY <4>1, <4>3, ShownType
        <5>3. Shown(added)[s] \in Seq(Items \union {Add}) /\ rows[s] \in Seq(Items \union {Add})
          BY <1>0, <4>1, <5>2 DEF RowTypes
        <5>4. row \in 1 .. Len(Shown(added)[s]) /\ row \in 1 .. Len(rows[s]) + 1
          BY <4>1, <4>5, <5>2, <5>3, LenProperties
        <5>5. Shown(added)[s][row] \in Items \union {Add}
          BY <5>3, <5>4, ElementOfSeq
        <5>6. InsertAt(rows[s], row, Shown(added)[s][row]) \in Seq(Items \union {Add})
          BY <5>3, <5>4, <5>5, InsertAtFacts
        <5>7. rs \in RowTypes
          BY <1>0, <5>6 DEF RowTypes
        <5>. HIDE DEF rs
        <5>. QED BY <1>0, <4>4, <5>1, <5>7 DEF UpdateRows
      <4>6. CASE ~(row <= Len(added[s]) + 1 /\ row <= Len(rows[s]) + 1)
        <5>1. crash' = "stale" /\ rows' = rows
          BY <3>4, <4>6 DEF RunAdd
        <5>. QED BY <1>0, <4>4, <5>1
      <4>. QED BY <4>5, <4>6
    <3>. QED BY <2>4, <3>1, <3>2, <3>3, <3>4, RunBlockCases
  <2>. QED BY <1>8, <2>1, <2>2, <2>3, <2>4 DEF EditStep
<1>. QED BY <1>1, <1>2, <1>3, <1>4, <1>5, <1>6, <1>7, <1>8, NextSteps

LEMMA TypeInvInit ==
    ASSUME Init
    PROVE  TypeInv
<1>1. << >> \in Seq(Items) /\ << >> \in Seq(Blocks) /\ << >> \in Seq(WriteRecords)
  OBVIOUS
<1>2. \A S : \A e \in S : <<e, e>> \in [1 .. 2 -> S]
  OBVIOUS
<1>3. Empty \in Layouts
  BY <1>1, <1>2 DEF Empty, Layouts, Sections
<1>4. ChannelTypes
  <2>1. q = EmptyQueues /\ up = FALSE /\ mapped = FALSE /\ writes = << >>
    BY SameOperations DEF Init, Channel!Init
  <2>2. Len(writes) = 0 /\ 0 \in Nat
    BY <2>1
  <2>3. q \in Requests(0) /\ q.issued = 0
    BY <2>1, <2>2, EmptyQueuesType DEF EmptyQueues
  <2>. QED BY <1>1, <2>1, <2>2, <2>3 DEF ChannelTypes
<1>9. MaxSessions \in Nat /\ MaxEdits \in Nat /\ MaxLosses \in Nat
  BY BoundsAssumption
<1>5. SessionTypes
  <2>1. 0 \in 0 .. MaxSessions /\ 0 \in 0 .. MaxLosses
    BY <1>9
  <2>. QED BY <2>1 DEF Init, SessionTypes
<1>6. ModelTypes
  BY <1>3 DEF Init, ModelTypes
<1>7. TableTypes
  BY <1>3, ShownType DEF Init, TableTypes, RowTypes
<1>8. AddTypes
  <2>1. 0 \in 0 .. MaxEdits /\ Len(<< >>) = 0 /\ 1 .. 0 = {}
    BY <1>9
  <2>. QED BY <1>1, <2>1 DEF Init, AddTypes
<1>. QED BY <1>4, <1>5, <1>6, <1>7, <1>8 DEF TypeInv

LEMMA TypeInvStep ==
    ASSUME TypeInv, [Next]_vars
    PROVE  TypeInv'
<1>1. CASE Next
  BY <1>1, ChannelTypesStep, SessionTypesStep, ModelTypesStep, TableTypesStep, AddTypesStep
  DEF TypeInv
<1>2. CASE UNCHANGED vars
  <2>. USE <1>2 DEF vars, channel, screen, viewModel, table, history, TypeInv
  <2>1. ChannelTypes' BY DEF ChannelTypes
  <2>2. SessionTypes' BY DEF SessionTypes
  <2>3. ModelTypes' BY DEF ModelTypes
  <2>4. TableTypes' BY DEF TableTypes
  <2>5. AddTypes' BY DEF AddTypes
  <2>. QED BY <2>1, <2>2, <2>3, <2>4, <2>5
<1>. QED BY <1>1, <1>2

(* The types hold in every reachable state: in particular the lists hold   *)
(* items only, whatever the table shows when the user moves its rows.      *)
THEOREM TypeCorrect == Spec => []TypeOK
<1>1. TypeInv => TypeOK
  <2>. SUFFICES ASSUME TypeInv PROVE TypeOK
    OBVIOUS
  <2>. USE DEF TypeInv
  <2>1. /\ up \in BOOLEAN /\ mapped \in BOOLEAN
        /\ writes \in Seq([layout : Layouts, session : 1 .. MaxSessions, accepted : BOOLEAN])
        /\ Len(writes) = q.issued
    BY DEF ChannelTypes, WriteRecords
  <2>2. /\ session \in 0 .. MaxSessions /\ readers \subseteq 1 .. session
        /\ losses \in 0 .. MaxLosses
    BY DEF SessionTypes
  <2>3. /\ original \in Originals /\ manager \in Layouts /\ lists \in Layouts
        /\ {open, hasLoaded, configHasChanged, isSaving, saveError, overlay, saveShown,
             early, raced, leftover} \subseteq BOOLEAN
    BY ZenonT(30) DEF ModelTypes, TableTypes
  <2>4. /\ rows \in [Sections -> Seq(Items \union {Add})]
        /\ crash \in {"", "add row", "past the end", "monitor", "stale"}
    BY DEF TableTypes
  <2>5. blocks \in Seq(Blocks) /\ edits \in 0 .. MaxEdits
    BY DEF AddTypes
  <2>6. addScreen # None => open /\ addScreen.section \in Sections
    BY DEF AddTypes, AddScreens, ModelTypes
  <2>. QED BY <2>1, <2>2, <2>3, <2>4, <2>5, <2>6 DEF TypeOK
<1>. QED BY <1>1, TypeInvInit, TypeInvStep, PTL DEF Spec
-----------------------------------------------------------------------------
(* The overlay and the save button. *)

(* What is shown of a flag is its value once the blocks of one kind have   *)
(* run: the last of them carries it.                                       *)
ShowsLast(bs, kind, shown, flag) ==
    /\ (\A i \in 1 .. Len(bs) : bs[i][1] # kind) => shown = flag
    /\ \A i \in 1 .. Len(bs) :
          bs[i][1] = kind /\ (\A j \in i + 1 .. Len(bs) : bs[j][1] # kind)
              => bs[i][2] = flag

ButtonsInv ==
    open => /\ ShowsLast(blocks, "overlay", overlay, isSaving)
            /\ ShowsLast(blocks, "save", saveShown, configHasChanged)

LEMMA ShowsAppend ==
    ASSUME NEW bs \in Seq(Blocks), NEW b \in Blocks, NEW kind, NEW shown, NEW flag
    PROVE  /\ b[1] # kind /\ ShowsLast(bs, kind, shown, flag)
                => ShowsLast(Append(bs, b), kind, shown, flag)
           /\ b[1] = kind /\ b[2] = flag => ShowsLast(Append(bs, b), kind, shown, flag)
<1>. DEFINE n == Len(bs)
            cs == Append(bs, b)
<1>1. /\ n \in Nat /\ cs \in Seq(Blocks) /\ Len(cs) = n + 1
      /\ \A i \in 1 .. n : cs[i] = bs[i]
      /\ cs[n + 1] = b
  BY AppendFacts
<1>. HIDE DEF cs, n
<1>2. n + 1 \in 1 .. n + 1 /\ \A i \in 1 .. n : i \in 1 .. n + 1
  BY <1>1
<1>3. \A i \in 1 .. n + 1 : i = n + 1 \/ (i \in 1 .. n /\ n + 1 \in i + 1 .. n + 1)
  BY <1>1
<1>4. \A i \in 1 .. n : \A j \in i + 1 .. n : j \in 1 .. n /\ j \in i + 1 .. n + 1
  BY <1>1
<1>5. ASSUME b[1] # kind, ShowsLast(bs, kind, shown, flag)
      PROVE  ShowsLast(cs, kind, shown, flag)
  <2>1. ASSUME \A i \in 1 .. n + 1 : cs[i][1] # kind PROVE shown = flag
    <3>1. \A i \in 1 .. n : bs[i][1] # kind
      BY <1>1, <1>2, <2>1
    <3>. QED BY <1>5, <3>1 DEF ShowsLast, n
  <2>2. ASSUME NEW i \in 1 .. n + 1, cs[i][1] = kind,
               \A j \in i + 1 .. n + 1 : cs[j][1] # kind
        PROVE  cs[i][2] = flag
    <3>1. i \in 1 .. n
      BY <1>1, <1>3, <1>5, <2>2
    <3>2. cs[i] = bs[i] /\ \A j \in i + 1 .. n : bs[j][1] # kind
      BY <1>1, <1>4, <2>2, <3>1
    <3>. QED BY <1>5, <2>2, <3>1, <3>2 DEF ShowsLast, n
  <2>. QED BY <1>1, <2>1, <2>2 DEF ShowsLast
<1>6. ASSUME b[1] = kind, b[2] = flag PROVE ShowsLast(cs, kind, shown, flag)
  <2>1. ~\A i \in 1 .. n + 1 : cs[i][1] # kind
    BY <1>1, <1>2, <1>6
  <2>2. ASSUME NEW i \in 1 .. n + 1, \A j \in i + 1 .. n + 1 : cs[j][1] # kind
        PROVE  cs[i][2] = flag
    <3>1. i = n + 1
      BY <1>1, <1>3, <1>6, <2>2
    <3>. QED BY <1>1, <1>6, <3>1
  <2>. QED BY <1>1, <2>1, <2>2 DEF ShowsLast
<1>. QED BY <1>5, <1>6 DEF cs

LEMMA ShowsTail ==
    ASSUME NEW bs \in Seq(Blocks), bs # << >>, NEW kind, NEW shown, NEW flag,
           ShowsLast(bs, kind, shown, flag)
    PROVE  /\ Head(bs)[1] # kind => ShowsLast(Tail(bs), kind, shown, flag)
           /\ Head(bs)[1] = kind => ShowsLast(Tail(bs), kind, Head(bs)[2], flag)
<1>. DEFINE n == Len(bs)
            cs == Tail(bs)
<1>1. /\ n \in Nat /\ n > 0 /\ cs \in Seq(Blocks) /\ Len(cs) = n - 1
      /\ \A i \in 1 .. n - 1 : cs[i] = bs[i + 1]
      /\ Head(bs) = bs[1]
  BY TailFacts
<1>. HIDE DEF cs, n
<1>2. 1 \in 1 .. n /\ \A i \in 1 .. n - 1 : i + 1 \in 1 .. n
  BY <1>1
<1>3. \A i \in 1 .. n : i = 1 \/ (i - 1 \in 1 .. n - 1 /\ i = (i - 1) + 1)
  BY <1>1
<1>4. \A i \in 1 .. n - 1 : \A j \in i + 2 .. n :
          j - 1 \in i + 1 .. n - 1 /\ j - 1 \in 1 .. n - 1 /\ j = (j - 1) + 1
  BY <1>1
<1>5. \A j \in 2 .. n : j - 1 \in 1 .. n - 1 /\ j = (j - 1) + 1
  BY <1>1
<1>6. ASSUME NEW i \in 1 .. n - 1, cs[i][1] = kind,
             \A j \in i + 1 .. n - 1 : cs[j][1] # kind
      PROVE  cs[i][2] = flag
  <2>1. cs[i] = bs[i + 1] /\ i + 1 \in 1 .. n
    BY <1>1, <1>2
  <2>2. ASSUME NEW j \in i + 2 .. n PROVE bs[j][1] # kind
    <3>1. j - 1 \in i + 1 .. n - 1 /\ j - 1 \in 1 .. n - 1 /\ j = (j - 1) + 1
      BY <1>4
    <3>2. cs[j - 1] = bs[j]
      BY <1>1, <3>1
    <3>. QED BY <1>6, <3>1, <3>2
  <2>3. (i + 1) + 1 = i + 2
    OBVIOUS
  <2>. QED BY <1>6, <2>1, <2>2, <2>3 DEF ShowsLast, n
<1>7. ASSUME \A i \in 1 .. n - 1 : cs[i][1] # kind
      PROVE  /\ bs[1][1] # kind => shown = flag
             /\ bs[1][1] = kind => bs[1][2] = flag
  <2>1. \A j \in 2 .. n : bs[j][1] # kind
    BY <1>1, <1>5, <1>7
  <2>2. ASSUME bs[1][1] # kind PROVE \A i \in 1 .. n : bs[i][1] # kind
    BY <1>1, <1>3, <1>7, <2>2
  <2>. QED BY <1>2, <2>1, <2>2 DEF ShowsLast, n
<1>. QED BY <1>1, <1>6, <1>7 DEF ShowsLast, cs
(* A block of another kind, or none, joins the queue: nothing else changes. *)
LEMMA ButtonsKept ==
    ASSUME blocks \in Seq(Blocks), ButtonsInv, open,
           UNCHANGED <<overlay, saveShown, isSaving, configHasChanged>>,
           \/ blocks' = blocks
           \/ \E b \in Blocks : b[1] \in {"reload", "add"} /\ blocks' = Append(blocks, b)
    PROVE  ButtonsInv'
<1>1. CASE blocks' = blocks
  BY <1>1 DEF ButtonsInv
<1>2. CASE \E b \in Blocks : b[1] \in {"reload", "add"} /\ blocks' = Append(blocks, b)
  <2>1. PICK b \in Blocks : b[1] \in {"reload", "add"} /\ blocks' = Append(blocks, b)
    BY <1>2
  <2>2. b[1] # "overlay" /\ b[1] # "save"
    BY <2>1
  <2>3. /\ ShowsLast(blocks', "overlay", overlay, isSaving)
        /\ ShowsLast(blocks', "save", saveShown, configHasChanged)
    BY <2>1, <2>2, ShowsAppend DEF ButtonsInv
  <2>. QED BY <2>3 DEF ButtonsInv
<1>. QED BY <1>1, <1>2

(* An edit shows the save button. *)
LEMMA ButtonsEdited ==
    ASSUME NEW bs \in Seq(Blocks), ShowsLast(bs, "overlay", overlay, isSaving),
           UNCHANGED <<overlay, saveShown, isSaving>>, configHasChanged' = TRUE,
           blocks' = Append(bs, <<"save", TRUE>>)
    PROVE  ButtonsInv'
<1>. DEFINE b == <<"save", TRUE>>
<1>1. b \in Blocks /\ b[1] = "save" /\ b[2] = TRUE /\ b[1] # "overlay"
  BY BlockFacts
<1>. HIDE DEF b
<1>2. blocks' = Append(bs, b)
  BY DEF b
<1>3. ShowsLast(blocks', "overlay", overlay, isSaving)
  BY <1>1, <1>2, ShowsAppend
<1>4. ShowsLast(blocks', "save", saveShown, TRUE)
  BY <1>1, <1>2, ShowsAppend
<1>. QED BY <1>3, <1>4 DEF ButtonsInv

(* Until their blocks have run, the overlay and the save button lag behind *)
(* the view model; then they show it.                                      *)
LEMMA ButtonsStep ==
    ASSUME TypeInv, ButtonsInv, Next
    PROVE  ButtonsInv'
<1>0. /\ blocks \in Seq(Blocks) /\ open \in BOOLEAN /\ (~open => blocks = << >>)
  BY DEF TypeInv, AddTypes, ModelTypes
<1>9. ASSUME ~open' PROVE ButtonsInv'
  BY <1>9 DEF ButtonsInv
<1>10. ASSUME open' = open, blocks' = blocks,
              UNCHANGED <<overlay, saveShown, isSaving, configHasChanged>>
       PROVE  ButtonsInv'
  BY <1>10 DEF ButtonsInv
<1>1. CASE Connect
  BY <1>1, <1>10 DEF Connect, screen, viewModel, table
<1>2. CASE LinkLost
  BY <1>2, <1>10 DEF LinkLost, screen, viewModel, table
<1>3. CASE LayoutRead
  <2>1. UNCHANGED <<open, overlay, saveShown, isSaving, configHasChanged>>
    BY <1>3 DEF LayoutRead, screen, table
  <2>2. CASE open /\ session \in readers
    <3>1. blocks' = Append(blocks, <<"reload">>)
      BY <1>3, <2>2 DEF LayoutRead
    <3>2. \E b \in Blocks : b[1] \in {"reload", "add"} /\ blocks' = Append(blocks, b)
      BY <3>1, BlockFacts
    <3>. QED BY <1>0, <2>1, <2>2, <3>2, ButtonsKept
  <2>3. CASE ~(open /\ session \in readers)
    <3>1. blocks' = blocks
      BY <1>3, <2>3 DEF LayoutRead
    <3>. QED BY <1>10, <2>1, <3>1
  <2>. QED BY <2>2, <2>3
<1>4. CASE LayoutWritten
  <2>1. UNCHANGED <<open, overlay, saveShown>>
    BY <1>4 DEF LayoutWritten, screen, table
  <2>. DEFINE own == Recognised /\ open /\ q.writeCallbacks # <<>>
                          /\ writes[Head(q.writeCallbacks)].session = session
  <2>2. CASE own
    <3>. DEFINE x == <<"save", FALSE>>
                y == <<"overlay", FALSE>>
    <3>1. /\ x \in Blocks /\ y \in Blocks /\ x[1] = "save" /\ y[1] = "overlay"
          /\ x[2] = FALSE /\ y[2] = FALSE /\ x[1] # "overlay" /\ y[1] # "save"
      BY BlockFacts
    <3>2. blocks' = blocks \o <<x, y>> /\ configHasChanged' = FALSE /\ isSaving' = FALSE
      BY <1>4, <2>2 DEF LayoutWritten
    <3>. HIDE DEF x, y
    <3>3. blocks' = Append(Append(blocks, x), y)
      BY <1>0, <3>1, <3>2
    <3>4. Append(blocks, x) \in Seq(Blocks) /\ ShowsLast(Append(blocks, x), "save", saveShown, FALSE)
      BY <1>0, <3>1, AppendFacts, ShowsAppend
    <3>5. ShowsLast(blocks', "save", saveShown, FALSE)
      BY <3>1, <3>3, <3>4, ShowsAppend
    <3>6. ShowsLast(blocks', "overlay", overlay, FALSE)
      BY <3>1, <3>3, <3>4, ShowsAppend
    <3>. QED BY <2>1, <3>2, <3>5, <3>6 DEF ButtonsInv
  <2>3. CASE ~own
    BY <1>4, <1>10, <2>1, <2>3 DEF LayoutWritten
  <2>. QED BY <2>2, <2>3
<1>5. CASE Open
  <2>1. /\ blocks' = << >> /\ overlay' = FALSE /\ saveShown' = FALSE
        /\ isSaving' = FALSE /\ configHasChanged' = FALSE
    BY <1>0, <1>5 DEF Open
  <2>2. Len(blocks') = 0 /\ 1 .. 0 = {}
    BY <2>1
  <2>. QED BY <2>1, <2>2 DEF ButtonsInv, ShowsLast
<1>6. CASE PressSave \/ SwipeAndStay
  <2>1. open /\ UNCHANGED <<open, overlay, saveShown, configHasChanged>> /\ isSaving' = TRUE
    BY <1>6, SaveFacts DEF save, screen, table
  <2>. DEFINE b == <<"overlay", TRUE>>
  <2>2. b \in Blocks /\ b[1] = "overlay" /\ b[2] = TRUE /\ b[1] # "save"
    BY BlockFacts
  <2>3. blocks' = Append(blocks, b)
    BY <1>6, SaveFacts DEF save
  <2>. HIDE DEF b
  <2>4. ShowsLast(blocks', "save", saveShown, configHasChanged)
    BY <1>0, <2>1, <2>2, <2>3, ShowsAppend DEF ButtonsInv
  <2>5. ShowsLast(blocks', "overlay", overlay, TRUE)
    BY <1>0, <2>2, <2>3, ShowsAppend
  <2>. QED BY <2>1, <2>4, <2>5 DEF ButtonsInv
<1>7. CASE Close
  BY <1>7, <1>9 DEF Close
<1>8. CASE EditStep
  <2>0. open' = open /\ isSaving' = isSaving
    BY <1>8, EditStepLeaves DEF screen
  <2>1. ASSUME NEW s \in Sections, TapAdd(s) PROVE ButtonsInv'
    BY <1>10, <2>0, <2>1 DEF TapAdd, viewModel, table
  <2>2. ASSUME NEW s \in Sections, NEW r, DeleteRow(s, r) PROVE ButtonsInv'
    <3>1. open /\ UNCHANGED <<overlay, saveShown>>
      BY <2>2 DEF DeleteRow, Touchable
    <3>2. CASE s = 1 /\ r > Len(lists[1])
      <4>1. blocks' = blocks /\ configHasChanged' = configHasChanged
        BY <2>2, <3>2 DEF DeleteRow, viewModel
      <4>. QED BY <1>10, <2>0, <3>1, <4>1
    <3>3. CASE ~(s = 1 /\ r > Len(lists[1]))
      <4>1. Edited /\ blocks' = Append(blocks, <<"save", TRUE>>)
        BY <2>2, <3>3 DEF DeleteRow
      <4>2. configHasChanged' = TRUE
        BY <4>1 DEF Edited
      <4>. QED BY <1>0, <2>0, <3>1, <4>1, <4>2, ButtonsEdited DEF ButtonsInv
    <3>. QED BY <3>2, <3>3
  <2>3. ASSUME NEW s \in Sections, NEW r, NEW t, NEW u, MoveRow(s, r, t, u) PROVE ButtonsInv'
    <3>1. open /\ UNCHANGED <<overlay, saveShown>>
      BY <2>3 DEF MoveRow, Touchable
    <3>2. CASE r <= Len(lists[s]) /\ u <= Len(lists[t]) + (IF s = t THEN 0 ELSE 1)
      <4>1. Edited /\ blocks' = Append(blocks, <<"save", TRUE>>)
        BY <2>3, <3>2 DEF MoveRow, moveItem
      <4>2. configHasChanged' = TRUE
        BY <4>1 DEF Edited
      <4>. QED BY <1>0, <2>0, <3>1, <4>1, <4>2, ButtonsEdited DEF ButtonsInv
    <3>3. CASE ~(r <= Len(lists[s]) /\ u <= Len(lists[t]) + (IF s = t THEN 0 ELSE 1))
      <4>1. blocks' = blocks /\ configHasChanged' = configHasChanged
        BY <2>3, <3>3 DEF MoveRow, viewModel
      <4>. QED BY <1>10, <2>0, <3>1, <4>1
    <3>. QED BY <3>2, <3>3
  <2>4. ASSUME NEW item \in Items, PickItem(item) PROVE ButtonsInv'
    <3>1. /\ blocks' = Append(blocks, <<"add", item>>)
          /\ UNCHANGED <<overlay, saveShown, configHasChanged>> /\ addScreen # None
      BY <2>4 DEF PickItem, viewModel, table
    <3>2. \E b \in Blocks : b[1] \in {"reload", "add"} /\ blocks' = Append(blocks, b)
      BY <3>1, BlockFacts
    <3>3. open
      BY <3>1 DEF TypeInv, AddTypes
    <3>. QED BY <1>0, <2>0, <3>1, <3>2, <3>3, ButtonsKept
  <2>5. CASE LeaveAddScreen
    BY <1>10, <2>0, <2>5 DEF LeaveAddScreen, viewModel, table
  <2>6. CASE RunBlock
    <3>. DEFINE b == Head(blocks)
    <3>0. /\ blocks # << >> /\ open /\ blocks \in Seq(Blocks)
          /\ Tail(blocks) \in Seq(Blocks)
      BY <2>6, RunBlockCases, TailFacts
    <3>1. /\ b[1] # "overlay" => ShowsLast(Tail(blocks), "overlay", overlay, isSaving)
          /\ b[1] = "overlay" => ShowsLast(Tail(blocks), "overlay", b[2], isSaving)
          /\ b[1] # "save" => ShowsLast(Tail(blocks), "save", saveShown, configHasChanged)
          /\ b[1] = "save" => ShowsLast(Tail(blocks), "save", b[2], configHasChanged)
      BY <3>0, ShowsTail DEF ButtonsInv
    <3>2. CASE b[1] = "reload" /\ RunReload /\ blocks' = Tail(blocks)
      BY <2>0, <3>1, <3>2 DEF RunReload, viewModel, ButtonsInv
    <3>3. CASE b[1] = "overlay" /\ RunOverlay(b[2]) /\ blocks' = Tail(blocks)
      BY <2>0, <3>1, <3>3 DEF RunOverlay, viewModel, ButtonsInv
    <3>4. CASE b[1] = "save" /\ RunSaveButton(b[2]) /\ blocks' = Tail(blocks)
      BY <2>0, <3>1, <3>4 DEF RunSaveButton, viewModel, ButtonsInv
    <3>5. CASE b[1] = "add" /\ RunAdd(b[2]) /\ blocks' = Append(Tail(blocks), <<"save", TRUE>>)
      <4>1. Edited /\ UNCHANGED <<overlay, saveShown>>
        BY <3>5 DEF RunAdd
      <4>2. configHasChanged' = TRUE
        BY <4>1 DEF Edited
      <4>3. ShowsLast(Tail(blocks), "overlay", overlay, isSaving)
        BY <3>1, <3>5
      <4>. QED BY <2>0, <3>0, <3>5, <4>1, <4>2, <4>3, ButtonsEdited
    <3>. QED BY <2>6, <3>2, <3>3, <3>4, <3>5, RunBlockCases
  <2>. QED BY <1>8, <2>1, <2>2, <2>3, <2>4, <2>5, <2>6 DEF EditStep
<1>. QED BY <1>1, <1>2, <1>3, <1>4, <1>5, <1>6, <1>7, <1>8, NextSteps
-----------------------------------------------------------------------------
(* The rows. *)

(* Edits of the lists are edits of what is shown. *)
LEMMA ShownExcept ==
    ASSUME NEW S, NEW ls \in [Sections -> S], NEW s \in Sections, NEW x
    PROVE  Shown([ls EXCEPT ![s] = x]) = [Shown(ls) EXCEPT ![s] = Append(x, Add)]
BY DEF Shown

LEMMA ShownRow ==
    ASSUME NEW ls \in Layouts, NEW s \in Sections
    PROVE  /\ ls[s] \in Seq(Items \union {Add}) /\ Len(ls[s]) \in Nat
           /\ Shown(ls)[s] = Append(ls[s], Add) /\ Len(Shown(ls)[s]) = Len(ls[s]) + 1
           /\ \A r \in 1 .. Len(ls[s]) : Shown(ls)[s][r] = ls[s][r] /\ ls[s][r] \in Items
           /\ Shown(ls)[s][Len(ls[s]) + 1] = Add
<1>1. ls[s] \in Seq(Items) /\ Seq(Items) \subseteq Seq(Items \union {Add})
  BY SeqMonotonic DEF Layouts
<1>2. ls[s] \in Seq(Items \union {Add})
  BY <1>1
<1>3. /\ Len(ls[s]) \in Nat /\ Len(Append(ls[s], Add)) = Len(ls[s]) + 1
      /\ \A r \in 1 .. Len(ls[s]) : Append(ls[s], Add)[r] = ls[s][r]
      /\ Append(ls[s], Add)[Len(ls[s]) + 1] = Add
  BY <1>2, AppendFacts
<1>4. \A r \in 1 .. Len(ls[s]) : ls[s][r] \in Items
  BY <1>1, ElementOfSeq
<1>5. Shown(ls)[s] = Append(ls[s], Add)
  BY DEF Shown
<1>. QED BY <1>2, <1>3, <1>4, <1>5

LEMMA ShownDeleted ==
    ASSUME NEW ls \in Layouts, NEW s \in Sections, NEW r \in 1 .. Len(ls[s])
    PROVE  [Shown(ls) EXCEPT ![s] = RemoveAt(@, r)] = Shown([ls EXCEPT ![s] = RemoveAt(@, r)])
<1>1. RemoveAt(Append(ls[s], Add), r) = Append(RemoveAt(ls[s], r), Add)
  <2>1. ls[s] \in Seq(Items \union {Add})
    BY ShownRow
  <2>2. Add \in Items \union {Add}
    OBVIOUS
  <2>. QED BY <2>1, <2>2, RemoveBeforeLast
<1>2. Shown(ls)[s] = Append(ls[s], Add)
  BY ShownRow
<1>3. ls \in [Sections -> Seq(Items)]
  BY DEF Layouts
<1>. DEFINE x == RemoveAt(ls[s], r)
<1>. HIDE DEF x
<1>4. Shown([ls EXCEPT ![s] = x]) = [Shown(ls) EXCEPT ![s] = Append(x, Add)]
  BY <1>3, ShownExcept
<1>. QED BY <1>1, <1>2, <1>4 DEF x

(* An item can be moved from row r of section s to row u of section t. *)
Movable(ls, s, r, t, u) ==
    /\ ls \in Layouts /\ s \in Sections /\ t \in Sections
    /\ r \in 1 .. Len(ls[s]) /\ u \in Nat \ {0}
    /\ u <= Len(ls[t]) + (IF s = t THEN 0 ELSE 1)

LEMMA ShownMoved ==
    ASSUME NEW ls, NEW s, NEW r, NEW t, NEW u, Movable(ls, s, r, t, u)
    PROVE  Moved(Shown(ls), s, r, t, u) = Shown(Moved(ls, s, r, t, u))
<1>0. /\ ls \in Layouts /\ s \in Sections /\ t \in Sections
      /\ r \in 1 .. Len(ls[s]) /\ u \in Nat \ {0}
      /\ u <= Len(ls[t]) + (IF s = t THEN 0 ELSE 1)
  BY DEF Movable
<1>. USE <1>0
<1>. DEFINE without == [ls EXCEPT ![s] = RemoveAt(@, r)]
            e == ls[s][r]
<1>1. ls \in [Sections -> Seq(Items)] /\ ls[s] \in Seq(Items) /\ ls[t] \in Seq(Items)
  BY DEF Layouts
<1>2. RemoveAt(ls[s], r) \in Seq(Items) /\ Len(RemoveAt(ls[s], r)) = Len(ls[s]) - 1
  BY <1>1, RemoveAtFacts
<1>3. without \in Layouts /\ without[s] = RemoveAt(ls[s], r) /\ (s # t => without[t] = ls[t])
  BY <1>1, <1>2 DEF Layouts
<1>4. Len(ls[s]) \in Nat /\ Len(ls[t]) \in Nat /\ Len(without[t]) \in Nat
  BY <1>1, <1>3, ShownRow
<1>5. u \in 1 .. Len(without[t]) + 1
  <2>1. CASE s = t
    BY <1>2, <1>3, <1>4, <2>1
  <2>2. CASE s # t
    BY <1>3, <1>4, <2>2
  <2>. QED BY <2>1, <2>2
<1>6. [Shown(ls) EXCEPT ![s] = RemoveAt(@, r)] = Shown(without)
  BY ShownDeleted
<1>7. Shown(ls)[s][r] = e /\ e \in Items
  BY ShownRow
<1>. HIDE DEF without
<1>8. InsertAt(Append(without[t], Add), u, e) = Append(InsertAt(without[t], u, e), Add)
  <2>1. without[t] \in Seq(Items \union {Add})
    BY <1>3, ShownRow
  <2>2. Add \in Items \union {Add} /\ e \in Items \union {Add}
    BY <1>7
  <2>. HIDE DEF e
  <2>. QED BY ONLY <1>5, <2>1, <2>2, InsertBeforeLast
<1>9. [Shown(without) EXCEPT ![t] = InsertAt(@, u, e)]
        = Shown([without EXCEPT ![t] = InsertAt(@, u, e)])
  <2>. DEFINE x == InsertAt(without[t], u, e)
  <2>1. Shown(without)[t] = Append(without[t], Add)
    BY <1>3, ShownRow
  <2>2. without \in [Sections -> Seq(Items)]
    BY <1>3 DEF Layouts
  <2>. HIDE DEF x
  <2>3. Shown([without EXCEPT ![t] = x]) = [Shown(without) EXCEPT ![t] = Append(x, Add)]
    BY <2>2, ShownExcept
  <2>. QED BY <1>8, <2>1, <2>3 DEF x
<1>. QED BY <1>6, <1>7, <1>9 DEF Moved, without

(* The lists with one more item, and the rows with one more row. *)
ListsWith(ls, s, item) == [ls EXCEPT ![s] = Append(@, item)]
RowsWith(rs, s, row, e) == [rs EXCEPT ![s] = InsertAt(@, row, e)]

LEMMA ShownAdded ==
    ASSUME NEW ls \in Layouts, NEW s \in Sections, NEW item \in Items
    PROVE  LET added == ListsWith(ls, s, item)
               row   == Len(ls[s]) + 1
           IN  /\ added \in Layouts /\ Len(added[s]) = row /\ row \in Nat
               /\ RowsWith(Shown(ls), s, row, Shown(added)[s][row]) = Shown(added)
<1>. DEFINE added == [ls EXCEPT ![s] = Append(@, item)]
            row == Len(ls[s]) + 1
<1>1. ls \in [Sections -> Seq(Items)] /\ ls[s] \in Seq(Items)
  BY DEF Layouts
<1>2. /\ Len(ls[s]) \in Nat /\ Append(ls[s], item) \in Seq(Items)
      /\ Len(Append(ls[s], item)) = row /\ Append(ls[s], item)[row] = item
  BY <1>1, AppendFacts
<1>3. added \in Layouts /\ added[s] = Append(ls[s], item)
  BY <1>1, <1>2 DEF Layouts
<1>4. row \in 1 .. Len(added[s]) /\ row \in Nat
  BY <1>2, <1>3
<1>. HIDE DEF added
<1>5. Shown(added)[s][row] = item
  BY <1>2, <1>3, <1>4, ShownRow
<1>6. /\ Append(ls[s], Add) \in Seq(Items \union {Add})
      /\ ls[s] \in Seq(Items \union {Add}) /\ item \in Items \union {Add}
  BY ShownRow, AppendFacts
<1>7. InsertAt(Append(ls[s], Add), row, item) = Append(Append(ls[s], item), Add)
  <2>1. row \in 1 .. Len(ls[s]) + 1
    BY <1>2
  <2>2. InsertAt(Append(ls[s], Add), row, item) = Append(InsertAt(ls[s], row, item), Add)
    <3>1. \A i \in 1 .. Len(ls[s]) + 1 :
              InsertAt(Append(ls[s], Add), i, item) = Append(InsertAt(ls[s], i, item), Add)
      <4>1. Add \in Items \union {Add}
        OBVIOUS
      <4>. QED BY <1>6, <4>1, InsertBeforeLast
    <3>. QED BY <2>1, <3>1
  <2>3. InsertAt(ls[s], row, item) = Append(ls[s], item)
    BY <1>6, InsertAtEnd
  <2>. QED BY <2>2, <2>3
<1>8. [Shown(ls) EXCEPT ![s] = InsertAt(@, row, item)] = Shown(added)
  <2>. DEFINE x == Append(ls[s], item)
  <2>1. Shown(ls)[s] = Append(ls[s], Add)
    BY ShownRow
  <2>. HIDE DEF x
  <2>2. Shown([ls EXCEPT ![s] = x]) = [Shown(ls) EXCEPT ![s] = Append(x, Add)]
    BY <1>1, ShownExcept
  <2>. QED BY <1>7, <2>1, <2>2 DEF added, x
<1>. QED BY <1>2, <1>3, <1>4, <1>5, <1>8 DEF added, ListsWith, RowsWith

(* The lists and the rows have as many elements as they should. *)
LEMMA ShownConsistent ==
    ASSUME NEW ls \in Layouts
    PROVE  Consistent(Shown(ls), ls)
BY ShownRow DEF Consistent

-----------------------------------------------------------------------------
(* The block that reloads the table. *)

NoReload(bs) == \A i \in 1 .. Len(bs) : bs[i][1] # "reload"

(* There is one at most, and no row is added before it has run. *)
ReloadFirst(bs) ==
    \A i, j \in 1 .. Len(bs) : bs[i][1] = "reload" =>
        /\ bs[j][1] = "reload" => j = i
        /\ bs[j][1] = "add" => i < j

LEMMA ReloadAppend ==
    ASSUME NEW bs \in Seq(Blocks), NEW b \in Blocks, b[1] # "reload"
    PROVE  /\ NoReload(Append(bs, b)) <=> NoReload(bs)
           /\ ReloadFirst(bs) => ReloadFirst(Append(bs, b))
           /\ b[1] # "add" /\ NoAdd(bs) => NoAdd(Append(bs, b))
<1>. DEFINE n == Len(bs)
            cs == Append(bs, b)
<1>1. /\ n \in Nat /\ Len(cs) = n + 1 /\ cs[n + 1] = b
      /\ \A i \in 1 .. n : cs[i] = bs[i]
  BY AppendFacts
<1>. HIDE DEF cs, n
<1>2. \A i \in 1 .. n : i \in 1 .. n + 1 /\ i < n + 1
  BY <1>1
<1>3. \A i \in 1 .. n + 1 : i = n + 1 \/ i \in 1 .. n
  BY <1>1
<1>4. NoReload(cs) <=> NoReload(bs)
  BY <1>1, <1>2, <1>3 DEF NoReload, n
<1>5. ReloadFirst(bs) => ReloadFirst(cs)
  BY <1>1, <1>2, <1>3 DEF ReloadFirst, n
<1>6. b[1] # "add" /\ NoAdd(bs) => NoAdd(cs)
  BY <1>1, <1>2, <1>3 DEF NoAdd, n
<1>. QED BY <1>4, <1>5, <1>6 DEF cs

LEMMA ReloadQueued ==
    ASSUME NEW bs \in Seq(Blocks), NoReload(bs), NoAdd(bs)
    PROVE  /\ ReloadFirst(Append(bs, <<"reload">>)) /\ ~NoReload(Append(bs, <<"reload">>))
<1>. DEFINE n == Len(bs)
            b == <<"reload">>
            cs == Append(bs, b)
<1>0. b \in Blocks /\ b[1] = "reload"
  BY BlockFacts
<1>. HIDE DEF b
<1>1. /\ n \in Nat /\ Len(cs) = n + 1 /\ cs[n + 1] = b
      /\ \A i \in 1 .. n : cs[i] = bs[i]
  BY <1>0, AppendFacts
<1>. HIDE DEF cs, n
<1>2. n + 1 \in 1 .. n + 1 /\ \A i \in 1 .. n + 1 : i = n + 1 \/ i \in 1 .. n
  BY <1>1
<1>3. \A i \in 1 .. n : cs[i][1] # "reload" /\ cs[i][1] # "add"
  BY <1>1 DEF NoReload, NoAdd, n
<1>4. \A i \in 1 .. n + 1 : cs[i][1] # "add" /\ (cs[i][1] = "reload" => i = n + 1)
  BY <1>0, <1>1, <1>2, <1>3
<1>. QED BY <1>0, <1>1, <1>2, <1>4 DEF ReloadFirst, NoReload, cs, b

LEMMA ReloadTail ==
    ASSUME NEW bs \in Seq(Blocks), bs # << >>
    PROVE  /\ ReloadFirst(bs) => ReloadFirst(Tail(bs))
           /\ NoReload(bs) => NoReload(Tail(bs))
           /\ NoReload(Tail(bs)) /\ Head(bs)[1] # "reload" => NoReload(bs)
           /\ ReloadFirst(bs) /\ Head(bs)[1] = "reload" => NoReload(Tail(bs))
           /\ ReloadFirst(bs) /\ Head(bs)[1] = "add" => NoReload(bs)
           /\ NoAdd(bs) => NoAdd(Tail(bs)) /\ Head(bs)[1] # "add"
           /\ NoReload(bs) => Head(bs)[1] # "reload"
<1>. DEFINE n == Len(bs)
            cs == Tail(bs)
<1>1. /\ n \in Nat /\ n > 0 /\ Len(cs) = n - 1
      /\ \A i \in 1 .. n - 1 : cs[i] = bs[i + 1]
      /\ Head(bs) = bs[1]
  BY TailFacts
<1>. HIDE DEF cs, n
<1>2. 1 \in 1 .. n /\ \A i \in 1 .. n - 1 : i + 1 \in 1 .. n /\ i + 1 # 1
  BY <1>1
<1>3. \A i \in 1 .. n : ~(i < 1) /\ (i = 1 \/ (i - 1 \in 1 .. n - 1 /\ i = (i - 1) + 1))
  BY <1>1
<1>4. \A i, j \in 1 .. n - 1 : (j + 1 = i + 1 => j = i) /\ (i + 1 < j + 1 => i < j)
  BY <1>1
<1>5. ReloadFirst(bs) => ReloadFirst(cs)
  BY <1>1, <1>2, <1>4, SMTT(30) DEF ReloadFirst, n
<1>6. NoReload(bs) => NoReload(cs) /\ bs[1][1] # "reload"
  BY <1>1, <1>2 DEF NoReload, n
<1>7. NoReload(cs) /\ bs[1][1] # "reload" => NoReload(bs)
  BY <1>1, <1>3 DEF NoReload, n
<1>8. ReloadFirst(bs) /\ bs[1][1] = "reload" => NoReload(cs)
  BY <1>1, <1>2 DEF ReloadFirst, NoReload, n
<1>9. ReloadFirst(bs) /\ bs[1][1] = "add" => NoReload(bs)
  BY <1>2, <1>3 DEF ReloadFirst, NoReload, n
<1>10. NoAdd(bs) => NoAdd(cs) /\ bs[1][1] # "add"
  BY <1>1, <1>2 DEF NoAdd, n
<1>. QED BY <1>1, <1>5, <1>6, <1>7, <1>8, <1>9, <1>10 DEF cs
(* Blocks for the overlay and the save button join the queue, or none. *)
QuietQueue ==
    \/ blocks' = blocks
    \/ \E b \in Blocks : b[1] \in {"overlay", "save"} /\ blocks' = Append(blocks, b)
    \/ blocks' = blocks \o << <<"save", FALSE>>, <<"overlay", FALSE>> >>

LEMMA QuietFacts ==
    ASSUME blocks \in Seq(Blocks), QuietQueue
    PROVE  /\ NoReload(blocks') <=> NoReload(blocks)
           /\ ReloadFirst(blocks) => ReloadFirst(blocks')
           /\ NoAdd(blocks) => NoAdd(blocks')
<1>1. CASE blocks' = blocks
  BY <1>1
<1>2. ASSUME NEW b \in Blocks, b[1] \in {"overlay", "save"}, blocks' = Append(blocks, b)
      PROVE  /\ NoReload(blocks') <=> NoReload(blocks)
             /\ ReloadFirst(blocks) => ReloadFirst(blocks')
             /\ NoAdd(blocks) => NoAdd(blocks')
  <2>1. b[1] # "reload" /\ b[1] # "add"
    BY <1>2
  <2>. QED BY <1>2, <2>1, ReloadAppend
<1>3. CASE blocks' = blocks \o << <<"save", FALSE>>, <<"overlay", FALSE>> >>
  <2>. DEFINE x == <<"save", FALSE>>
              y == <<"overlay", FALSE>>
  <2>1. /\ x \in Blocks /\ y \in Blocks /\ x[1] # "add" /\ y[1] # "add"
        /\ x[1] # "reload" /\ y[1] # "reload"
    BY BlockFacts
  <2>2. blocks' = blocks \o <<x, y>>
    BY <1>3
  <2>. HIDE DEF x, y
  <2>. DEFINE bs == Append(blocks, x)
  <2>3. blocks' = Append(bs, y) /\ bs \in Seq(Blocks)
    BY <2>1, <2>2
  <2>4. /\ NoReload(bs) <=> NoReload(blocks)
        /\ ReloadFirst(blocks) => ReloadFirst(bs)
        /\ NoAdd(blocks) => NoAdd(bs)
    BY <2>1, ReloadAppend
  <2>. HIDE DEF bs
  <2>5. /\ NoReload(Append(bs, y)) <=> NoReload(bs)
        /\ ReloadFirst(bs) => ReloadFirst(Append(bs, y))
        /\ NoAdd(bs) => NoAdd(Append(bs, y))
    BY <2>1, <2>3, ReloadAppend
  <2>. QED BY <2>3, <2>4, <2>5
<1>. QED BY <1>1, <1>2, <1>3 DEF QuietQueue

-----------------------------------------------------------------------------
(* The table. *)

(* The rows show the lists, unless the layout has just come and the block  *)
(* that shows it has not run: then there are only rows that add.           *)
RowsFollow ==
    /\ ~hasLoaded => /\ lists = Empty /\ rows = Shown(Empty) /\ NoReload(blocks)
                     /\ addScreen = None /\ NoAdd(blocks)
    /\ hasLoaded /\ NoReload(blocks) => rows = Shown(lists)
    /\ ~NoReload(blocks) => rows \in [Sections -> Seq({Add})]
    /\ ReloadFirst(blocks)
    /\ addScreen # None => addScreen.row = Len(lists[addScreen.section]) + 1

RowsInv == open /\ ~early /\ crash = "" => RowsFollow

(* A screen whose layout has come asks for it no more. *)
ReadInv == open /\ hasLoaded => session \notin readers

LEMMA ReadInvStep ==
    ASSUME TypeInv, ReadInv, Next
    PROVE  ReadInv'
<1>1. CASE Connect
  BY <1>1 DEF Connect, viewModel, screen, ReadInv
<1>2. CASE LinkLost
  BY <1>2 DEF LinkLost, viewModel, screen, ReadInv
<1>3. CASE LayoutRead
  BY <1>3 DEF LayoutRead, ReadInv
<1>4. CASE LayoutWritten
  BY <1>4 DEF LayoutWritten, screen, ReadInv
<1>5. CASE Open
  BY <1>5 DEF Open, ReadInv
<1>6. CASE PressSave \/ SwipeAndStay
  <2>1. UNCHANGED <<readers, session, open, hasLoaded>>
    BY <1>6, SaveFacts DEF save, screen
  <2>. QED BY <2>1 DEF ReadInv
<1>7. CASE Close
  BY <1>7 DEF Close, ReadInv
<1>8. CASE EditStep
  <2>1. UNCHANGED <<readers, session, open, hasLoaded>>
    BY <1>8, EditStepLeaves DEF screen
  <2>. QED BY <2>1 DEF ReadInv
<1>. QED BY <1>1, <1>2, <1>3, <1>4, <1>5, <1>6, <1>7, <1>8, NextSteps

(* Nothing that the rows depend on changes. *)
LEMMA RowsKept ==
    ASSUME TypeInv, RowsInv, StaleTableOnlyIfEarly, QuietQueue,
           UNCHANGED <<open, early, crash, hasLoaded, lists, rows, addScreen>>
    PROVE  RowsInv' /\ StaleTableOnlyIfEarly'
<1>1. /\ NoReload(blocks') <=> NoReload(blocks)
      /\ ReloadFirst(blocks) => ReloadFirst(blocks')
      /\ NoAdd(blocks) => NoAdd(blocks')
  BY QuietFacts DEF TypeInv, AddTypes
<1>2. RowsFollow => RowsFollow'
  BY <1>1 DEF RowsFollow
<1>. QED BY <1>2 DEF RowsInv, StaleTableOnlyIfEarly

(* The rows and the lists can disagree about a deletion only on a row that *)
(* adds or on a monitor.                                                   *)
LEMMA RowsDelete ==
    ASSUME TypeInv, RowsInv, NEW s \in Sections, NEW r \in DOMAIN rows[s], DeleteRow(s, r)
    PROVE  RowsInv' /\ StaleTableOnlyIfEarly'
<1>. DEFINE rs == [rows EXCEPT ![s] = RemoveAt(@, r)]
            reason == DeleteReason(s, r)
<1>1. /\ open /\ crash = "" /\ addScreen = None /\ addScreen' = None
      /\ early' = (early \/ ~hasLoaded) /\ UpdateRows(rs, lists', reason)
      /\ deleteItem(s, r)
  BY DEF DeleteRow, Touchable
<1>2. open' = open /\ hasLoaded' = hasLoaded
  <2>1. EditStep
    BY DEF EditStep
  <2>. QED BY <2>1, EditStepLeaves DEF screen
<1>3. QuietQueue
  <2>1. blocks' = blocks \/ blocks' = Append(blocks, <<"save", TRUE>>)
    BY TableEditFacts
  <2>. QED BY <2>1, BlockFacts DEF QuietQueue
<1>4. CASE early'
  BY <1>4 DEF RowsInv, StaleTableOnlyIfEarly
<1>5. CASE ~early'
  <2>1. ~early /\ hasLoaded /\ RowsFollow
    BY <1>1, <1>5 DEF RowsInv
  <2>2. /\ NoReload(blocks') <=> NoReload(blocks)
        /\ ReloadFirst(blocks')
    BY <1>3, <2>1, QuietFacts DEF TypeInv, AddTypes, RowsFollow
  <2>3. rows[s] \in Seq(Items \union {Add}) /\ r \in 1 .. Len(rows[s]) /\ lists \in Layouts
    <3>1. rows[s] \in Seq(Items \union {Add})
      BY DEF TypeInv, TableTypes
    <3>. QED BY <3>1, LenProperties DEF TypeInv, ModelTypes
  <2>. HIDE DEF rs, reason
  <2>4. CASE ~NoReload(blocks)
    <3>1. rows \in [Sections -> Seq({Add})]
      BY <2>1, <2>4 DEF RowsFollow
    <3>2. rows[s][r] = Add
      BY <2>3, <3>1, ElementOfSeq
    <3>3. reason = "add row"
      BY <3>2 DEF reason, DeleteReason
    <3>4. rs \in [Sections -> Seq({Add})]
      BY <2>3, <3>1, RemoveAtFacts DEF rs
    <3>5. rows' \in [Sections -> Seq({Add})] /\ crash' # "stale"
      BY <1>1, <3>1, <3>3, <3>4 DEF UpdateRows
    <3>. QED BY <1>1, <1>2, <2>1, <2>2, <2>4, <3>5 DEF RowsInv, RowsFollow, StaleTableOnlyIfEarly
  <2>5. CASE NoReload(blocks)
    <3>1. rows = Shown(lists)
      BY <2>1, <2>5 DEF RowsFollow
    <3>2. Len(rows[s]) = Len(lists[s]) + 1 /\ Len(lists[s]) \in Nat
          /\ rows[s][Len(lists[s]) + 1] = Add
      BY <2>3, <3>1, ShownRow
    <3>3. CASE s = 1 /\ r <= Len(lists[1])
      <4>1. lists' = [lists EXCEPT ![s] = RemoveAt(@, r)]
        BY <1>1, <3>3 DEF deleteItem
      <4>2. r \in 1 .. Len(lists[s])
        BY <2>3, <3>2, <3>3
      <4>3. rs = Shown(lists')
        <5>1. [Shown(lists) EXCEPT ![s] = RemoveAt(@, r)]
                = Shown([lists EXCEPT ![s] = RemoveAt(@, r)])
          BY <2>3, <4>2, ShownDeleted
        <5>. QED BY <3>1, <4>1, <5>1 DEF rs
      <4>4. lists' \in Layouts
        <5>1. EditStep
          BY DEF EditStep
        <5>. QED BY <5>1, ListsAfterEdit
      <4>5. Consistent(rs, lists')
        BY <4>3, <4>4, ShownConsistent
      <4>6. rows' = Shown(lists') /\ crash' = ""
        BY <1>1, <4>3, <4>5 DEF UpdateRows
      <4>. QED BY <1>1, <2>1, <2>2, <2>5, <4>6, <1>2 DEF RowsInv, RowsFollow, StaleTableOnlyIfEarly
    <3>4. CASE ~(s = 1 /\ r <= Len(lists[1]))
      <4>1. lists' = lists
        BY <1>1, <3>4 DEF deleteItem
      <4>2. reason # "stale"
        <5>1. CASE s = 2
          BY <5>1 DEF reason, DeleteReason
        <5>2. CASE s = 1
          <6>1. r = Len(lists[s]) + 1
            BY <2>3, <3>2, <3>4, <5>2
          <6>. QED BY <3>2, <6>1 DEF reason, DeleteReason
        <5>. QED BY <5>1, <5>2 DEF Sections
      <4>3. Len(RemoveAt(rows[s], r)) = Len(rows[s]) - 1
        BY <2>3, RemoveAtFacts
      <4>4. Len(rs[s]) # Len(lists[s]) + 1
        <5>1. rs[s] = RemoveAt(rows[s], r)
          BY DEF rs, TypeInv, TableTypes
        <5>. QED BY <3>2, <4>3, <5>1
      <4>5. ~Consistent(rs, lists')
        BY <4>1, <4>4 DEF Consistent
      <4>6. crash' = reason /\ crash' # "" /\ crash' # "stale"
        BY <1>1, <4>2, <4>5 DEF UpdateRows, reason, DeleteReason
      <4>. QED BY <4>6 DEF RowsInv, StaleTableOnlyIfEarly
    <3>. QED BY <3>3, <3>4
  <2>. QED BY <2>4, <2>5
<1>. QED BY <1>4, <1>5

(* A move is taken by the lists as by the rows, or is one of a row that    *)
(* adds, or past the last item.                                            *)
LEMMA RowsMove ==
    ASSUME TypeInv, RowsInv, NEW s \in Sections, NEW r \in DOMAIN rows[s],
           NEW t \in Sections, NEW u \in 1 .. Len(rows[t]) + 1, MoveRow(s, r, t, u)
    PROVE  RowsInv' /\ StaleTableOnlyIfEarly'
<1>. DEFINE taken == r <= Len(lists[s]) /\ u <= Len(lists[t]) + (IF s = t THEN 0 ELSE 1)
            reason == MoveReason(s, r, t, u)
<1>1. /\ open /\ crash = "" /\ addScreen = None /\ addScreen' = None
      /\ early' = (early \/ ~hasLoaded)
  BY DEF MoveRow, Touchable
<1>2. open' = open /\ hasLoaded' = hasLoaded
  <2>1. EditStep
    BY DEF EditStep
  <2>. QED BY <2>1, EditStepLeaves DEF screen
<1>3. QuietQueue
  <2>1. blocks' = blocks \/ blocks' = Append(blocks, <<"save", TRUE>>)
    BY TableEditFacts
  <2>. QED BY <2>1, BlockFacts DEF QuietQueue
<1>4. /\ taken => /\ lists' = Moved(lists, s, r, t, u)
                  /\ rows' = Moved(rows, s, r, t, u) /\ crash' = crash
      /\ ~taken => crash' = reason
  <2>1. CASE taken
    BY <2>1 DEF MoveRow, moveItem
  <2>2. CASE ~taken
    BY <2>2 DEF MoveRow
  <2>. QED BY <2>1, <2>2
<1>5. CASE early'
  BY <1>5 DEF RowsInv, StaleTableOnlyIfEarly
<1>6. CASE ~early'
  <2>1. ~early /\ hasLoaded /\ RowsFollow
    BY <1>1, <1>6 DEF RowsInv
  <2>2. /\ NoReload(blocks') <=> NoReload(blocks)
        /\ ReloadFirst(blocks')
    BY <1>3, <2>1, QuietFacts DEF TypeInv, AddTypes, RowsFollow
  <2>3. /\ r \in 1 .. Len(rows[s]) /\ u \in Nat \ {0}
        /\ u <= Len(rows[t]) + (IF s = t THEN 0 ELSE 1) /\ lists \in Layouts
    BY RowsMoved DEF TypeInv, ModelTypes
  <2>. HIDE DEF taken, reason
  <2>4. CASE ~NoReload(blocks)
    <3>1. rows \in [Sections -> Seq({Add})]
      BY <2>1, <2>4 DEF RowsFollow
    <3>2. rows[s][r] = Add
      BY <2>3, <3>1, ElementOfSeq
    <3>3. reason = "add row"
      BY <3>2 DEF reason, MoveReason
    <3>4. Moved(rows, s, r, t, u) \in [Sections -> Seq({Add})]
      BY <2>3, <3>1, MovedType
    <3>5. CASE taken
      BY <1>1, <1>2, <1>4, <2>1, <2>2, <2>4, <3>4, <3>5
      DEF RowsInv, RowsFollow, StaleTableOnlyIfEarly
    <3>6. CASE ~taken
      BY <1>4, <3>3, <3>6 DEF RowsInv, StaleTableOnlyIfEarly
    <3>. QED BY <3>5, <3>6
  <2>5. CASE NoReload(blocks)
    <3>1. rows = Shown(lists)
      BY <2>1, <2>5 DEF RowsFollow
    <3>2. /\ Len(rows[s]) = Len(lists[s]) + 1 /\ Len(lists[s]) \in Nat
          /\ Len(rows[t]) = Len(lists[t]) + 1 /\ Len(lists[t]) \in Nat
          /\ rows[s][Len(lists[s]) + 1] = Add
      BY <2>3, <3>1, ShownRow
    <3>3. CASE taken
      <4>1. r \in 1 .. Len(lists[s]) /\ u <= Len(lists[t]) + (IF s = t THEN 0 ELSE 1)
        <5>1. r <= Len(lists[s]) /\ u <= Len(lists[t]) + (IF s = t THEN 0 ELSE 1)
          BY <3>3 DEF taken
        <5>2. r \in Nat /\ r >= 1
          BY <2>3, <3>2
        <5>3. r \in 1 .. Len(lists[s])
          BY <3>2, <5>1, <5>2
        <5>. QED BY <5>1, <5>3
      <4>2. Moved(Shown(lists), s, r, t, u) = Shown(Moved(lists, s, r, t, u))
        <5>1. Movable(lists, s, r, t, u)
          BY <2>3, <4>1 DEF Movable
        <5>. QED BY ONLY <5>1, ShownMoved
      <4>3. Moved(rows, s, r, t, u) = Shown(Moved(lists, s, r, t, u))
        BY <3>1, <4>2
      <4>. QED BY <1>1, <1>2, <1>4, <2>1, <2>2, <2>5, <3>3, <4>3
           DEF RowsInv, RowsFollow, StaleTableOnlyIfEarly
    <3>4. CASE ~taken
      <4>1. CASE r > Len(lists[s])
        <5>1. r = Len(lists[s]) + 1
          BY <2>3, <3>2, <4>1
        <5>2. reason = "add row"
          BY <3>2, <5>1 DEF reason, MoveReason
        <5>. QED BY <1>4, <3>4, <5>2 DEF RowsInv, StaleTableOnlyIfEarly
      <4>2. CASE ~(r > Len(lists[s]))
        <5>1. u > Len(lists[t]) + (IF s = t THEN 0 ELSE 1)
          <6>1. r \in Nat /\ r <= Len(lists[s])
            BY <2>3, <3>2, <4>2
          <6>2. ~(u <= Len(lists[t]) + (IF s = t THEN 0 ELSE 1))
            BY <3>4, <6>1 DEF taken
          <6>3. CASE s = t
            BY <2>3, <3>2, <6>2, <6>3
          <6>4. CASE s # t
            BY <2>3, <3>2, <6>2, <6>4
          <6>. QED BY <6>3, <6>4
        <5>2. u = Len(rows[t]) + (IF s = t THEN 0 ELSE 1)
          <6>1. CASE s = t
            BY <2>3, <3>2, <5>1, <6>1
          <6>2. CASE s # t
            BY <2>3, <3>2, <5>1, <6>2
          <6>. QED BY <6>1, <6>2
        <5>3. reason \in {"add row", "past the end"}
          BY <5>2 DEF reason, MoveReason
        <5>. QED BY <1>4, <3>4, <5>3 DEF RowsInv, StaleTableOnlyIfEarly
      <4>. QED BY <4>1, <4>2
    <3>. QED BY <3>3, <3>4
  <2>. QED BY <2>4, <2>5
<1>. QED BY <1>5, <1>6

(* The layout comes once, to a screen that has no rows but those that add. *)
LEMMA RowsRead ==
    ASSUME TypeInv, ReadInv, RowsInv, StaleTableOnlyIfEarly, LayoutRead
    PROVE  RowsInv' /\ StaleTableOnlyIfEarly'
<1>1. UNCHANGED <<open, early, crash, rows, addScreen>>
  BY DEF LayoutRead, screen, table, history
<1>2. CASE open /\ session \in readers
  <2>1. hasLoaded' = TRUE /\ blocks' = Append(blocks, <<"reload">>) /\ ~hasLoaded
    BY <1>2 DEF LayoutRead, ReadInv
  <2>2. ASSUME RowsFollow PROVE RowsFollow'
    <3>1. /\ NoReload(blocks) /\ NoAdd(blocks) /\ addScreen = None
          /\ lists = Empty /\ rows = Shown(Empty)
      BY <2>1, <2>2 DEF RowsFollow
    <3>2. ReloadFirst(blocks') /\ ~NoReload(blocks')
      BY <2>1, <3>1, ReloadQueued DEF TypeInv, AddTypes
    <3>3. rows \in [Sections -> Seq({Add})]
      <4>1. ASSUME NEW s \in Sections PROVE Append(Empty[s], Add) = <<Add>>
        <5>1. Empty[s] = << >>
          BY DEF Empty, Sections
        <5>2. Append(<< >>, Add) = <<Add>>
          OBVIOUS
        <5>. QED BY <5>1, <5>2
      <4>2. <<Add>> \in Seq({Add})
        OBVIOUS
      <4>. QED BY <3>1, <4>1, <4>2 DEF Shown
    <3>. QED BY <1>1, <2>1, <3>1, <3>2, <3>3 DEF RowsFollow
  <2>. QED BY <1>1, <2>2 DEF RowsInv, StaleTableOnlyIfEarly
<1>3. CASE ~(open /\ session \in readers)
  <2>1. UNCHANGED <<lists, hasLoaded, blocks>>
    BY <1>3 DEF LayoutRead
  <2>. QED BY <1>1, <2>1, RowsKept DEF QuietQueue
<1>. QED BY <1>2, <1>3

(* Every screen starts with no layout and no rows but those that add. *)
LEMMA RowsOpen ==
    ASSUME TypeInv, StaleTableOnlyIfEarly, Open
    PROVE  RowsInv' /\ StaleTableOnlyIfEarly'
<1>1. /\ ~open /\ crash = "" /\ crash' = "" /\ blocks' = blocks /\ addScreen' = addScreen
      /\ lists' = Empty /\ rows' = Shown(Empty) /\ hasLoaded' = FALSE
  BY DEF Open
<1>2. blocks' = << >> /\ addScreen' = None
  BY <1>1 DEF TypeInv, AddTypes
<1>3. NoReload(blocks') /\ NoAdd(blocks') /\ ReloadFirst(blocks')
  BY <1>2 DEF NoReload, NoAdd, ReloadFirst
<1>4. RowsFollow'
  BY <1>1, <1>2, <1>3 DEF RowsFollow
<1>. QED BY <1>1, <1>4 DEF RowsInv, StaleTableOnlyIfEarly

(* An item is added from the row that was the last one when it was tapped, *)
(* and still is: nothing changes the lists while the add screen is there.  *)
LEMMA RowsAdd ==
    ASSUME TypeInv, RowsInv, NEW item \in Items, RunAdd(item), addScreen \in AddScreens,
           open, ~early, crash = "", blocks # << >>, Head(blocks)[1] = "add",
           blocks' = Append(Tail(blocks), <<"save", TRUE>>)
    PROVE  RowsFollow' /\ crash' = ""
<1>. DEFINE s == addScreen.section
            row == Len(lists[s]) + 1
            added == ListsWith(lists, s, item)
            rs == RowsWith(rows, s, row, Shown(added)[s][row])
<1>1. RowsFollow /\ addScreen # None /\ s \in Sections /\ lists \in Layouts
  BY MarkersAssumption DEF RowsInv, AddScreens, TypeInv, ModelTypes
<1>2. hasLoaded /\ addScreen.row = row
  BY <1>1 DEF RowsFollow
<1>3. blocks \in Seq(Blocks) /\ Tail(blocks) \in Seq(Blocks)
  BY TailFacts DEF TypeInv, AddTypes
<1>4. NoReload(blocks) /\ NoReload(Tail(blocks)) /\ ReloadFirst(Tail(blocks))
  BY <1>1, <1>3, ReloadTail DEF RowsFollow
<1>5. NoReload(blocks') /\ ReloadFirst(blocks')
  <2>1. <<"save", TRUE>> \in Blocks /\ <<"save", TRUE>>[1] # "reload"
    BY BlockFacts
  <2>. QED BY <1>3, <1>4, <2>1, ReloadAppend
<1>6. rows = Shown(lists)
  BY <1>1, <1>2, <1>4 DEF RowsFollow
<1>7. /\ added \in Layouts /\ Len(added[s]) = row /\ row \in Nat
      /\ RowsWith(Shown(lists), s, row, Shown(added)[s][row]) = Shown(added)
  BY <1>1, ShownAdded
<1>8. Len(rows[s]) = row
  BY <1>1, <1>6, ShownRow
<1>9. addScreen' = None /\ lists' = added /\ hasLoaded' = hasLoaded
  BY DEF RunAdd, Edited, ListsWith
<1>10. UpdateRows(rs, added, "stale")
  <2>. HIDE DEF row, added
  <2>1. addScreen.row <= Len(added[s]) + 1 /\ addScreen.row <= Len(rows[s]) + 1
    <3>1. row <= row + 1
      BY ONLY <1>7
    <3>2. addScreen.row = row /\ Len(added[s]) = row /\ Len(rows[s]) = row
      BY <1>2, <1>7, <1>8
    <3>. QED BY ONLY <3>1, <3>2
  <2>. QED BY <1>2, <2>1 DEF RunAdd, added, ListsWith, RowsWith
<1>11. rs = Shown(added)
  BY <1>6, <1>7
<1>. HIDE DEF added, rs, s, row
<1>12. Consistent(rs, added)
  BY <1>7, <1>11, ShownConsistent
<1>13. rows' = Shown(added) /\ crash' = ""
  BY <1>10, <1>11, <1>12 DEF UpdateRows
<1>. QED BY <1>2, <1>5, <1>9, <1>13 DEF RowsFollow

LEMMA RowsStep ==
    ASSUME TypeInv, ReadInv, RowsInv, StaleTableOnlyIfEarly, Next
    PROVE  RowsInv' /\ StaleTableOnlyIfEarly'
<1>0. blocks \in Seq(Blocks)
  BY DEF TypeInv, AddTypes
<1>1. CASE Connect
  BY <1>1, RowsKept DEF Connect, screen, viewModel, table, history, QuietQueue
<1>2. CASE LinkLost
  BY <1>2, RowsKept DEF LinkLost, screen, viewModel, table, QuietQueue
<1>3. CASE LayoutRead
  BY <1>3, RowsRead
<1>4. CASE LayoutWritten
  <2>1. QuietQueue
    BY <1>4 DEF LayoutWritten, QuietQueue
  <2>2. UNCHANGED <<open, early, crash, hasLoaded, lists, rows, addScreen>>
    BY <1>4 DEF LayoutWritten, screen, table, history
  <2>. QED BY <2>1, <2>2, RowsKept
<1>5. CASE Open
  BY <1>5, RowsOpen
<1>6. CASE PressSave \/ SwipeAndStay
  <2>1. save
    BY <1>6, SaveFacts
  <2>2. QuietQueue
    BY <2>1, BlockFacts DEF save, QuietQueue
  <2>3. UNCHANGED <<open, early, crash, hasLoaded, lists, rows, addScreen>>
    BY <2>1 DEF save, screen, table, history
  <2>. QED BY <2>2, <2>3, RowsKept
<1>7. CASE Close
  BY <1>7 DEF Close, history, RowsInv, StaleTableOnlyIfEarly
<1>8. CASE EditStep
  <2>0. open' = open /\ hasLoaded' = hasLoaded
    BY <1>8, EditStepLeaves DEF screen
  <2>1. ASSUME NEW s \in Sections, TapAdd(s) PROVE RowsInv' /\ StaleTableOnlyIfEarly'
    <3>1. /\ crash = "" /\ UNCHANGED <<lists, rows, blocks, crash>>
          /\ early' = (early \/ ~hasLoaded) /\ addScreen'.row = Len(lists[s]) + 1
          /\ addScreen'.section = s
      BY <2>1 DEF TapAdd, Touchable, viewModel, table
    <3>2. ASSUME RowsFollow, hasLoaded PROVE RowsFollow'
      BY <2>0, <3>1, <3>2 DEF RowsFollow
    <3>. QED BY <2>0, <3>1, <3>2 DEF RowsInv, StaleTableOnlyIfEarly
  <2>2. ASSUME NEW s \in Sections, NEW r \in DOMAIN rows[s], DeleteRow(s, r)
        PROVE  RowsInv' /\ StaleTableOnlyIfEarly'
    BY <2>2, RowsDelete
  <2>3. ASSUME NEW s \in Sections, NEW r \in DOMAIN rows[s], NEW t \in Sections,
               NEW u \in 1 .. Len(rows[t]) + 1, MoveRow(s, r, t, u)
        PROVE  RowsInv' /\ StaleTableOnlyIfEarly'
    BY <2>3, RowsMove
  <2>4. ASSUME NEW item \in Items, PickItem(item) PROVE RowsInv' /\ StaleTableOnlyIfEarly'
    <3>1. /\ addScreen # None /\ addScreen' = [addScreen EXCEPT !.picked = TRUE]
          /\ blocks' = Append(blocks, <<"add", item>>)
          /\ UNCHANGED <<lists, rows, crash, early>>
      BY <2>4 DEF PickItem, viewModel, table, history
    <3>2. addScreen \in AddScreens
      BY <3>1 DEF TypeInv, AddTypes
    <3>3. addScreen'.row = addScreen.row /\ addScreen'.section = addScreen.section
      BY <3>1, <3>2 DEF AddScreens
    <3>4. <<"add", item>> \in Blocks /\ <<"add", item>>[1] # "reload"
      BY BlockFacts
    <3>5. /\ NoReload(blocks') <=> NoReload(blocks)
          /\ ReloadFirst(blocks) => ReloadFirst(blocks')
      BY <1>0, <3>1, <3>4, ReloadAppend
    <3>6. ASSUME RowsFollow PROVE RowsFollow'
      BY <2>0, <3>1, <3>3, <3>5, <3>6 DEF RowsFollow
    <3>. QED BY <2>0, <3>1, <3>6 DEF RowsInv, StaleTableOnlyIfEarly
  <2>5. CASE LeaveAddScreen
    <3>1. UNCHANGED <<lists, rows, crash, early, blocks>> /\ addScreen' = None
      BY <2>5 DEF LeaveAddScreen, viewModel, table, history
    <3>2. ASSUME RowsFollow PROVE RowsFollow'
      BY <2>0, <3>1, <3>2 DEF RowsFollow
    <3>. QED BY <2>0, <3>1, <3>2 DEF RowsInv, StaleTableOnlyIfEarly
  <2>6. CASE RunBlock
    <3>. DEFINE b == Head(blocks)
    <3>0. blocks # << >> /\ open /\ crash = ""
      BY <2>6, RunBlockCases
    <3>1. CASE b[1] = "reload" /\ RunReload /\ blocks' = Tail(blocks)
      <4>1. UNCHANGED <<lists, early, crash, addScreen>> /\ rows' = Shown(lists)
        BY <3>1 DEF RunReload, viewModel, history
      <4>2. ReloadFirst(blocks) => NoReload(blocks') /\ ReloadFirst(blocks')
        BY <1>0, <3>0, <3>1, ReloadTail
      <4>3. ~hasLoaded /\ RowsFollow => FALSE
        BY <1>0, <3>0, <3>1, ReloadTail DEF RowsFollow
      <4>4. ASSUME RowsFollow PROVE RowsFollow'
        BY <2>0, <4>1, <4>2, <4>3, <4>4 DEF RowsFollow
      <4>. QED BY <2>0, <4>1, <4>4 DEF RowsInv, StaleTableOnlyIfEarly
    <3>2. ASSUME b[1] # "reload", b[1] # "add", blocks' = Tail(blocks),
                 UNCHANGED <<lists, rows, early, crash, addScreen>>
          PROVE  RowsInv' /\ StaleTableOnlyIfEarly'
      <4>1. /\ NoReload(blocks') <=> NoReload(blocks)
            /\ ReloadFirst(blocks) => ReloadFirst(blocks')
            /\ NoAdd(blocks) => NoAdd(blocks')
        BY <1>0, <3>0, <3>2, ReloadTail
      <4>2. ASSUME RowsFollow PROVE RowsFollow'
        BY <2>0, <3>2, <4>1, <4>2 DEF RowsFollow
      <4>. QED BY <2>0, <3>2, <4>2 DEF RowsInv, StaleTableOnlyIfEarly
    <3>3. CASE b[1] = "overlay" /\ RunOverlay(b[2]) /\ blocks' = Tail(blocks)
      BY <3>2, <3>3 DEF RunOverlay, viewModel, history
    <3>4. CASE b[1] = "save" /\ RunSaveButton(b[2]) /\ blocks' = Tail(blocks)
      BY <3>2, <3>4 DEF RunSaveButton, viewModel, history
    <3>5. CASE /\ b[1] = "add" /\ b[2] \in Items /\ addScreen \in AddScreens /\ RunAdd(b[2])
               /\ blocks' = Append(Tail(blocks), <<"save", TRUE>>)
      <4>1. early' = early
        BY <3>5 DEF RunAdd
      <4>2. ~early => RowsFollow' /\ crash' = ""
        BY <3>0, <3>5, RowsAdd
      <4>. QED BY <4>1, <4>2 DEF RowsInv, StaleTableOnlyIfEarly
    <3>. QED BY <2>6, <3>1, <3>3, <3>4, <3>5, RunBlockCases
  <2>. QED BY <1>8, <2>1, <2>2, <2>3, <2>4, <2>5, <2>6 DEF EditStep
<1>. QED BY <1>1, <1>2, <1>3, <1>4, <1>5, <1>6, <1>7, <1>8, NextSteps

-----------------------------------------------------------------------------
(* The inductive invariant of the screen. *)

ScreenInv == TypeInv /\ ReadInv /\ RowsInv /\ ButtonsInv /\ StaleTableOnlyIfEarly

LEMMA ScreenInvInit ==
    ASSUME Init
    PROVE  ScreenInv
<1>1. TypeInv
  BY TypeInvInit
<1>. QED BY <1>1 DEF Init, ScreenInv, ReadInv, RowsInv, ButtonsInv, StaleTableOnlyIfEarly

LEMMA ScreenInvStep ==
    ASSUME ScreenInv, [Next]_vars
    PROVE  ScreenInv'
<1>1. TypeInv'
  BY TypeInvStep DEF ScreenInv
<1>2. CASE Next
  BY <1>1, <1>2, ReadInvStep, RowsStep, ButtonsStep DEF ScreenInv
<1>3. CASE UNCHANGED vars
  <2>. USE <1>3 DEF vars, screen, viewModel, table, history
  <2>1. ReadInv' BY DEF ScreenInv, ReadInv
  <2>2. RowsInv' BY DEF ScreenInv, RowsInv, RowsFollow
  <2>3. ButtonsInv' BY DEF ScreenInv, ButtonsInv
  <2>4. StaleTableOnlyIfEarly' BY DEF ScreenInv, StaleTableOnlyIfEarly
  <2>. QED BY <1>1, <2>1, <2>2, <2>3, <2>4 DEF ScreenInv
<1>. QED BY <1>2, <1>3

LEMMA EmptyQueue == Len(<< >>) = 0 /\ \A i \in 1 .. 0 : FALSE
OBVIOUS

LEMMA ScreenInvAlways == Spec => []ScreenInv
BY ScreenInvInit, ScreenInvStep, PTL DEF Spec

(* The blocks that show the changes run later than the changes, and other  *)
(* events come between; all the same, the table and the view model agree   *)
(* at every insertion and deletion, on a screen that was not edited before *)
(* its layout came.                                                        *)
THEOREM StaleTable == Spec => []StaleTableOnlyIfEarly
<1>1. ScreenInv => StaleTableOnlyIfEarly
  BY DEF ScreenInv
<1>. QED BY <1>1, ScreenInvAlways, PTL

(* When nothing is left on the main queue, the rows, the overlay and the   *)
(* save button show what the view model holds.                             *)
THEOREM ScreenShows == Spec => []ScreenShowsModel
<1>1. ScreenInv => ScreenShowsModel
  <2>. SUFFICES ASSUME ScreenInv, open, blocks = << >>, crash = "", ~early
                PROVE  rows = Shown(lists) /\ overlay = isSaving /\ saveShown = configHasChanged
    BY DEF ScreenShowsModel
  <2>1. RowsFollow
    BY DEF ScreenInv, RowsInv
  <2>0. Len(blocks) = 0 /\ \A i \in 1 .. 0 : FALSE
    BY ONLY EmptyQueue, blocks = << >>
  <2>2. NoReload(blocks)
    BY <2>0 DEF NoReload
  <2>3. rows = Shown(lists)
    BY <2>1, <2>2 DEF RowsFollow
  <2>4. overlay = isSaving /\ saveShown = configHasChanged
    <3>1. /\ ShowsLast(blocks, "overlay", overlay, isSaving)
          /\ ShowsLast(blocks, "save", saveShown, configHasChanged)
      BY DEF ScreenInv, ButtonsInv
    <3>. QED BY <2>0, <3>1 DEF ShowsLast
  <2>. QED BY <2>3, <2>4
<1>. QED BY <1>1, ScreenInvAlways, PTL
=============================================================================
