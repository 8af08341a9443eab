-------------------------- MODULE GaugeSavesProofs --------------------------
(***************************************************************************)
(* Proofs about GaugeConfig: that a layout which is not on the device is   *)
(* flagged or on its way, that a pending save will be told that it is      *)
(* over, that leaving the screen loses no edit, and that as long as no     *)
(* link is lost every closure has its own answer coming.                   *)
(***************************************************************************)
EXTENDS GaugeConfigProofs

-----------------------------------------------------------------------------
(* The invariant. *)

QueueInv == ClosuresInOrder(q) /\ AnswersAscend(q) /\ AloneIsFresh(q)

(* Screens follow each other, and so do their writes. *)
WritesInv ==
    /\ \A id \in 1 .. Len(writes) : writes[id].session <= session
    /\ \A id, later \in 1 .. Len(writes) :
          id <= later => writes[id].session <= writes[later].session

(* What is asked or known of the layout came over a discovered channel. *)
MappedInv ==
    /\ readers # {} => mapped
    /\ open /\ hasLoaded => mapped
    /\ losses = 0 /\ mapped => up

(* Until its layout comes, a screen that was not edited has written        *)
(* nothing, and its read is behind every write that is outstanding.        *)
FreshInv ==
    open /\ ~early /\ ~hasLoaded =>
        /\ ~configHasChanged
        /\ \A id \in 1 .. Len(writes) : writes[id].session # session
        /\ \A i \in 1 .. Len(q.readOps) : q.readOps[i] = Latest(q)

(* What a screen that was not edited meanwhile has on its way is what it   *)
(* shows.                                                                  *)
PendingInv ==
    open /\ ~early /\ ~raced =>
        \A i \in 1 .. Len(q.writeCallbacks) :
            LET w == writes[q.writeCallbacks[i]]
            IN  w.session = session => w.layout = lists

(* What is not flagged is what the device has, whatever part of the writes *)
(* it has processed or will process, or it is left over from a screen      *)
(* before and the device has nothing.                                      *)
HeldInv ==
    open /\ ~early /\ ~raced /\ hasLoaded /\ ~configHasChanged /\ Refused = {} =>
        \A v \in ReportableValues(q) : DeviceHolds(lists, v) \/ ShowsLeftover(v)

SavesInv == /\ QueueInv /\ WritesInv /\ MappedInv
            /\ FreshInv /\ PendingInv /\ HeldInv /\ SavingIsPending

-----------------------------------------------------------------------------
(* Requests. *)

(* What the operations do to the fields of the record. *)
LEMMA OperationFields ==
    ASSUME NEW n \in Nat, NEW r \in Requests(n)
    PROVE  /\ \A v : LET s == DropOps(r, v)
                     IN  /\ s.writeCallbacks = r.writeCallbacks /\ s.issued = r.issued
                         /\ s.writeOps = << >> /\ s.readOps = << >> /\ s.applied = v
           /\ \A b \in BOOLEAN :
                 LET s == WriteAnswered(r, b)
                 IN  s.writeCallbacks = IF b /\ Len(r.writeCallbacks) > 0
                                        THEN Tail(r.writeCallbacks) ELSE r.writeCallbacks
           /\ \A b \in BOOLEAN :
                 LET s == WriteAnswered(r, b)
                 IN  /\ s.issued = r.issued /\ s.readOps = r.readOps
                     /\ s.writeOps = Tail(r.writeOps) /\ s.applied = Head(r.writeOps)
           /\ \A handed \in BOOLEAN :
                 LET s == SubmitWrite(r, handed)
                 IN  /\ s.writeCallbacks = Append(r.writeCallbacks, r.issued + 1)
                     /\ s.issued = r.issued + 1 /\ s.readOps = r.readOps
                     /\ s.applied = r.applied
                     /\ s.writeOps = IF handed THEN Append(r.writeOps, r.issued + 1)
                                     ELSE r.writeOps
           /\ \A handed \in BOOLEAN :
                 LET s == SubmitRead(r, handed)
                 IN  /\ s.writeCallbacks = r.writeCallbacks /\ s.issued = r.issued
                     /\ s.writeOps = r.writeOps /\ s.applied = r.applied
                     /\ s.readOps \in {r.readOps, Append(r.readOps, Latest(r))}
           /\ LET s == ReadAnswered(r)
              IN  /\ s.writeCallbacks = r.writeCallbacks /\ s.issued = r.issued
                  /\ s.writeOps = r.writeOps /\ s.applied = r.applied
                  /\ s.readOps = Tail(r.readOps)
           /\ LET s == [r EXCEPT !.value = NoValue]
              IN  /\ s.writeCallbacks = r.writeCallbacks /\ s.issued = r.issued
                  /\ s.writeOps = r.writeOps /\ s.applied = r.applied
                  /\ s.readOps = r.readOps
BY DEF DropOps, WriteAnswered, SubmitWrite, SubmitRead, ReadAnswered, HandleUpdate, Requests

(* What the device may report is what it has processed, or will process. *)
LEMMA ReportableFacts ==
    ASSUME NEW n \in Nat, NEW r \in Requests(n)
    PROVE  /\ Latest(r) \in ReportableValues(r)
           /\ \A v : v \in ReportableValues(r) <=>
                        v = r.applied \/ \E i \in 1 .. Len(r.writeOps) : v = r.writeOps[i]
<1>1. r.writeOps \in Seq(1 .. n) /\ Len(r.writeOps) \in Nat
  BY LenProperties DEF Requests
<1>2. DOMAIN r.writeOps = 1 .. Len(r.writeOps)
  BY <1>1, LenProperties
<1>3. \A v : v \in ReportableValues(r) <=>
                v = r.applied \/ \E i \in 1 .. Len(r.writeOps) : v = r.writeOps[i]
  BY <1>2 DEF ReportableValues, Range
<1>4. Latest(r) = r.applied \/ \E i \in 1 .. Len(r.writeOps) : Latest(r) = r.writeOps[i]
  <2>1. CASE r.writeOps = << >>
    BY <2>1 DEF Latest
  <2>2. CASE r.writeOps # << >>
    <3>1. Len(r.writeOps) \in 1 .. Len(r.writeOps)
      BY <1>1, <2>2, TailFacts
    <3>. QED BY <2>2, <3>1 DEF Latest
  <2>. QED BY <2>1, <2>2
<1>. QED BY <1>3, <1>4

(* After an answer the device reports the write it answered or a later one. *)
LEMMA ReportableAnswered ==
    ASSUME NEW n \in Nat, NEW r \in Requests(n), r.writeOps # << >>,
           NEW b \in BOOLEAN, NEW v \in ReportableValues(WriteAnswered(r, b))
    PROVE  \E i \in 1 .. Len(r.writeOps) : v = r.writeOps[i]
<1>. DEFINE s == WriteAnswered(r, b)
<1>1. s \in Requests(n)
  BY WriteAnsweredType
<1>2. s.applied = Head(r.writeOps) /\ s.writeOps = Tail(r.writeOps)
  BY OperationFields
<1>3. v \in ReportableValues(s)
  OBVIOUS
<1>. HIDE DEF s
<1>4. /\ Len(r.writeOps) \in Nat /\ Len(r.writeOps) > 0
      /\ s.applied = r.writeOps[1] /\ Len(s.writeOps) = Len(r.writeOps) - 1
      /\ \A i \in 1 .. Len(r.writeOps) - 1 : s.writeOps[i] = r.writeOps[i + 1]
  BY <1>2, TailFacts DEF Requests
<1>5. /\ 1 \in 1 .. Len(r.writeOps)
      /\ \A i \in 1 .. Len(r.writeOps) - 1 : i + 1 \in 1 .. Len(r.writeOps)
  BY <1>4
<1>6. v = s.applied \/ \E i \in 1 .. Len(s.writeOps) : v = s.writeOps[i]
  BY <1>1, <1>3, ReportableFacts
<1>. QED BY <1>4, <1>5, <1>6

(* Nothing new can be reported after an answer or a loss. *)
LEMMA ReportableShrinks ==
    ASSUME NEW n \in Nat, NEW r \in Requests(n)
    PROVE  /\ \A v \in ReportableValues(r) :
                 ReportableValues(DropOps(r, v)) \subseteq ReportableValues(r)
           /\ \A b \in BOOLEAN : r.writeOps # << >> =>
                 ReportableValues(WriteAnswered(r, b)) \subseteq ReportableValues(r)
<1>1. ASSUME NEW v \in ReportableValues(r)
      PROVE  ReportableValues(DropOps(r, v)) \subseteq ReportableValues(r)
  <2>1. v \in 0 .. n
    BY <1>1, ReportableType
  <2>2. DropOps(r, v) \in Requests(n)
    BY <2>1, DropOpsType
  <2>3. DropOps(r, v).applied = v /\ Len(DropOps(r, v).writeOps) = 0
    <3>1. DropOps(r, v).applied = v /\ DropOps(r, v).writeOps = << >>
      BY DEF DropOps, Requests
    <3>. QED BY <3>1, EmptyQueue
  <2>. QED BY <1>1, <2>2, <2>3, EmptyQueue, ReportableFacts
<1>2. ASSUME r.writeOps # << >>, NEW b \in BOOLEAN
      PROVE  ReportableValues(WriteAnswered(r, b)) \subseteq ReportableValues(r)
  BY <1>2, ReportableAnswered, ReportableFacts
<1>. QED BY <1>1, <1>2

(* Those writes all have closures waiting, behind that of the oldest one. *)
LEMMA AnsweredOwn ==
    ASSUME NEW n \in Nat, NEW r \in Requests(n), ClosuresInOrder(r), r.writeOps # << >>,
           NEW b \in BOOLEAN, NEW v \in ReportableValues(WriteAnswered(r, b))
    PROVE  /\ 1 \in 1 .. Len(r.writeCallbacks) /\ r.writeCallbacks[1] <= v
           /\ \E i \in 1 .. Len(r.writeCallbacks) : v = r.writeCallbacks[i]
<1>. DEFINE cb == r.writeCallbacks
            ops == r.writeOps
            m == Len(cb)
            l == Len(ops)
            completed == r.issued - m
<1>1. /\ m \in Nat /\ l \in Nat /\ l > 0 /\ r.issued \in Nat
      /\ ops \in Seq(1 .. n) /\ cb \in Seq(1 .. n)
  BY TailFacts, LenProperties DEF Requests
<1>2. /\ l <= m /\ \A i \in 1 .. m : cb[i] = completed + i
      /\ \A i \in 1 .. l : cb[i] <= ops[i] /\ ops[i] <= r.issued
      /\ 0 <= completed
  BY DEF ClosuresInOrder, InOrder
<1>3. PICK k \in 1 .. l : v = ops[k]
  BY ReportableAnswered
<1>4. v \in Nat
  <2>1. ops[k] \in 1 .. n
    BY <1>1, ElementOfSeq
  <2>. QED BY <1>3, <2>1
<1>5. cb[k] <= v /\ v <= r.issued
  BY <1>2, <1>3
<1>. HIDE DEF m, l, cb, ops
<1>6. k \in 1 .. m /\ 1 \in 1 .. m
  BY <1>1, <1>2
<1>7. cb[k] = completed + k /\ cb[1] = completed + 1
  BY <1>2, <1>6
<1>8. completed + k <= v /\ v <= completed + m /\ completed \in Nat
  <2>1. completed \in Nat
    BY <1>1, <1>2
  <2>2. r.issued = completed + m
    BY <1>1
  <2>. HIDE DEF completed
  <2>. QED BY <1>5, <1>7, <2>1, <2>2
<1>. HIDE DEF completed
<1>9. /\ v - completed \in 1 .. m /\ completed + (v - completed) = v
      /\ completed + 1 <= v
  BY <1>1, <1>4, <1>6, <1>8
<1>10. v = cb[v - completed] /\ cb[1] <= v
  BY <1>2, <1>7, <1>9
<1>. QED BY <1>6, <1>9, <1>10 DEF m, cb

(* The latest write that was sent stays the latest. *)
LEMMA LatestKept ==
    ASSUME NEW n \in Nat, NEW r \in Requests(n), r.writeOps # << >>, NEW b \in BOOLEAN
    PROVE  Latest(WriteAnswered(r, b)) = Latest(r)
<1>. DEFINE s == WriteAnswered(r, b)
<1>1. s.applied = Head(r.writeOps) /\ s.writeOps = Tail(r.writeOps)
  BY OperationFields
<1>. HIDE DEF s
<1>2. /\ Len(r.writeOps) \in Nat /\ Len(r.writeOps) > 0 /\ s.writeOps \in Seq(1 .. n)
      /\ s.applied = r.writeOps[1] /\ Len(s.writeOps) = Len(r.writeOps) - 1
      /\ \A i \in 1 .. Len(r.writeOps) - 1 : s.writeOps[i] = r.writeOps[i + 1]
  BY <1>1, TailFacts DEF Requests
<1>3. CASE Len(r.writeOps) = 1
  <2>1. s.writeOps = << >>
    BY <1>2, <1>3
  <2>. QED BY <1>2, <1>3, <2>1 DEF Latest, s
<1>4. CASE Len(r.writeOps) # 1
  <2>. DEFINE m == Len(r.writeOps)
  <2>0. m \in Nat /\ m > 0 /\ m # 1
    BY <1>2, <1>4
  <2>. HIDE DEF m
  <2>3. m - 1 \in 1 .. m - 1 /\ (m - 1) + 1 = m /\ m - 1 # 0
    BY <2>0
  <2>4. s.writeOps # << >>
    BY <1>2, <2>3, EmptyQueue DEF m
  <2>1. Len(r.writeOps) - 1 \in 1 .. Len(r.writeOps) - 1 /\ s.writeOps # << >>
        /\ (Len(r.writeOps) - 1) + 1 = Len(r.writeOps)
    BY <2>3, <2>4 DEF m
  <2>2. s.writeOps[Len(s.writeOps)] = r.writeOps[Len(r.writeOps)]
    BY <1>2, <2>1
  <2>. QED BY <2>1, <2>2 DEF Latest, s
<1>. QED BY <1>3, <1>4

(* A read that is behind every write is answered when all writes are. *)
LEMMA ReadIsLast ==
    ASSUME NEW n \in Nat, NEW r \in Requests(n), ReadIsNext(r), AnswersAscend(r),
           Head(r.readOps) = Latest(r)
    PROVE  ReportableValues(r) = {Head(r.readOps)}
<1>1. CASE r.writeOps = << >>
  <2>1. Latest(r) = r.applied
    BY <1>1 DEF Latest
  <2>2. Len(r.writeOps) = 0 /\ \A i \in 1 .. 0 : FALSE
    BY <1>1, EmptyQueue
  <2>. QED BY <2>1, <2>2, ReportableFacts
<1>2. CASE r.writeOps # << >>
  <2>1. /\ Len(r.writeOps) \in Nat /\ Len(r.writeOps) > 0 /\ Head(r.writeOps) = r.writeOps[1]
        /\ r.writeOps \in Seq(1 .. n)
    BY <1>2, TailFacts DEF Requests
  <2>2. 1 \in 1 .. Len(r.writeOps) /\ Len(r.writeOps) \in 1 .. Len(r.writeOps)
    BY <2>1
  <2>3. r.writeOps[1] \in Nat /\ r.writeOps[Len(r.writeOps)] \in Nat
    BY <2>1, <2>2, ElementOfSeq
  <2>4. r.writeOps[1] > r.writeOps[Len(r.writeOps)]
    BY <1>2, <2>1 DEF ReadIsNext, Latest
  <2>5. Len(r.writeOps) # 1
    BY <2>3, <2>4
  <2>6. 1 \in 1 .. Len(r.writeOps) - 1
    <3>. DEFINE m == Len(r.writeOps)
    <3>1. m \in Nat /\ m > 0 /\ m # 1
      BY <2>1, <2>5
    <3>. HIDE DEF m
    <3>2. 1 \in 1 .. m - 1
      BY <3>1
    <3>. QED BY <3>2 DEF m
  <2>7. r.writeOps[1] < r.writeOps[Len(r.writeOps)]
    BY <2>2, <2>6 DEF AnswersAscend
  <2>. QED BY <2>3, <2>4, <2>7
<1>. QED BY <1>1, <1>2

(* Every step makes, answers or drops requests, or leaves them alone. *)
LEMMA RequestSteps ==
    ASSUME TypeInv, Next
    PROVE  \/ q' = q
           \/ q' = [q EXCEPT !.value = NoValue]
           \/ \E v \in ReportableValues(q) : q' = DropOps(q, v)
           \/ q.readOps # << >> /\ q' = ReadAnswered(q)
           \/ q.writeOps # << >> /\ q' = WriteAnswered(q, Recognised)
           \/ \E handed \in BOOLEAN : q' = SubmitRead(q, handed)
           \/ \E handed \in BOOLEAN : q' = SubmitWrite(q, handed)
<1>1. CASE Connect
  BY <1>1, SameOperations DEF Connect, Channel!Connect
<1>2. CASE LinkLost
  BY <1>2, SameOperations DEF LinkLost, Channel!Disconnect
<1>3. CASE LayoutRead
  BY <1>3, SameOperations DEF LayoutRead, Channel!AnswerRead, ReadIsNext
<1>4. CASE LayoutWritten
  BY <1>4, SameOperations DEF LayoutWritten, Channel!AnswerWrite, WriteIsNext
<1>5. CASE Open
  <2>1. CASE mapped
    BY <1>5, <2>1, SameOperations DEF Open, Channel!Read, Channel!Handed
  <2>2. CASE ~mapped
    BY <1>5, <2>2 DEF Open, channel
  <2>. QED BY <2>1, <2>2
<1>6. ASSUME WriteLayout(lists)
      PROVE  q' = q \/ \E handed \in BOOLEAN : q' = SubmitWrite(q, handed)
  BY <1>6, SameOperations DEF WriteLayout, channel, Channel!Write, Channel!Handed
<1>7. CASE PressSave \/ SwipeAndStay
  BY <1>6, <1>7, SaveFacts DEF save, setGauges
<1>8. CASE Close
  BY <1>6, <1>8 DEF Close, setGauges, channel
<1>9. CASE EditStep
  BY <1>9, EditStepLeaves DEF channel
<1>. QED BY <1>1, <1>2, <1>3, <1>4, <1>5, <1>7, <1>8, <1>9, NextSteps

LEMMA QueueInvStep ==
    ASSUME TypeInv, QueueInv, Next
    PROVE  QueueInv'
<1>. DEFINE n == Len(writes)
<1>0. n \in Nat /\ q \in Requests(n)
  BY LenProperties DEF TypeInv, ChannelTypes
<1>. HIDE DEF n
<1>. USE <1>0 DEF QueueInv
<1>1. CASE q' = q
  BY <1>1 DEF ClosuresInOrder, AnswersAscend, AloneIsFresh
<1>2. ASSUME NEW s, s = q', \/ s = ReadAnswered(q) \/ s = [q EXCEPT !.value = NoValue]
      PROVE  QueueInv'
  <2>1. ClosuresInOrder(s)
    BY <1>2, ReadsTouchNoWrite, SameWritesOrder
  <2>2. AnswersAscend(s) /\ AloneIsFresh(s)
    BY <1>2, OtherAnswers
  <2>. QED BY <1>2, <2>1, <2>2
<1>3. ASSUME NEW v \in ReportableValues(q), q' = DropOps(q, v)
      PROVE  QueueInv'
  BY <1>3, DropOpsOrder, OtherAnswers
<1>4. CASE q.writeOps # << >> /\ q' = WriteAnswered(q, Recognised)
  BY <1>4, RecognisedAssumption, WriteAnsweredOrder, WriteAnsweredAnswers
<1>5. ASSUME NEW handed \in BOOLEAN, q' = SubmitRead(q, handed)
      PROVE  QueueInv'
  BY <1>5, ReadsTouchNoWrite, SameWritesOrder, SubmitReadAnswers
<1>6. ASSUME NEW handed \in BOOLEAN, q' = SubmitWrite(q, handed)
      PROVE  QueueInv'
  BY <1>6, SubmitWriteOrder, SubmitWriteAnswers
<1>. QED BY <1>1, <1>2, <1>3, <1>4, <1>5, <1>6, RequestSteps

-----------------------------------------------------------------------------
(* Screens and their writes. *)

(* Saving and leaving write what the screen shows, and record it. *)
LEMMA WritesAdded ==
    ASSUME TypeInv, PressSave \/ SwipeAndStay \/ Close
    PROVE  /\ UNCHANGED <<original, session, readers, lists, hasLoaded, configHasChanged,
                          early, raced, losses>>
           /\ open /\ crash = ""
           /\ Close => open' = FALSE
           /\ ~Close => open' = open /\ isSaving' = TRUE /\ configHasChanged
           /\ configHasChanged => WriteLayout(lists)
           /\ ~configHasChanged => UNCHANGED <<channel, writes>>
<1>1. CASE PressSave \/ SwipeAndStay
  <2>1. save /\ open /\ crash = ""
    BY <1>1, SaveFacts
  <2>2. ~Close
    BY <2>1 DEF save, screen, Close
  <2>. QED BY <2>1, <2>2 DEF save, setGauges, screen, history
<1>2. CASE Close
  <2>1. configHasChanged => WriteLayout(lists)
    BY <1>2 DEF Close, setGauges
  <2>2. ~configHasChanged => UNCHANGED <<channel, writes>>
    BY <1>2 DEF Close
  <2>. QED BY <1>2, <2>1, <2>2 DEF Close, viewModel, history
<1>. QED BY <1>1, <1>2

LEMMA WritesInvStep ==
    ASSUME TypeInv, WritesInv, Next
    PROVE  WritesInv'
<1>0. session \in Nat /\ \A id \in 1 .. Len(writes) : writes[id].session \in Nat
  <2>1. session \in Nat
    BY BoundsAssumption DEF TypeInv, SessionTypes
  <2>2. \A id \in 1 .. Len(writes) : writes[id] \in WriteRecords
    BY ElementOfSeq DEF TypeInv, ChannelTypes
  <2>. QED BY <2>1, <2>2, BoundsAssumption DEF WriteRecords
<1>1. CASE writes' = writes /\ session' = session
  BY <1>1 DEF WritesInv
<1>2. CASE Open
  <2>1. writes' = writes /\ session' = session + 1
    BY <1>2 DEF Open
  <2>. QED BY <1>0, <2>1 DEF WritesInv
<1>3. ASSUME open, mapped, WriteLayout(lists), session' = session
      PROVE  WritesInv'
  <2>. DEFINE n == Len(writes)
  <2>1. PICK accepted \in BOOLEAN :
            LET w == [layout |-> lists, session |-> session, accepted |-> accepted]
            IN  w \in WriteRecords /\ writes' = Append(writes, w)
    BY <1>3, WriteLayoutFacts DEF TypeInv, ModelTypes
  <2>2. /\ n \in Nat /\ Len(writes') = n + 1
        /\ \A i \in 1 .. n : writes'[i] = writes[i]
        /\ writes'[n + 1].session = session
    BY <2>1, AppendFacts DEF TypeInv, ChannelTypes
  <2>. HIDE DEF n
  <2>3. \A i \in 1 .. n + 1 : i = n + 1 \/ i \in 1 .. n
    BY <2>2
  <2>4. \A i \in 1 .. n : writes[i].session <= session
    BY DEF WritesInv, n
  <2>5. \A i \in 1 .. n + 1 : writes'[i].session <= session
    BY <1>0, <2>2, <2>3, <2>4
  <2>6. ASSUME NEW i \in 1 .. n + 1, NEW j \in 1 .. n + 1, i <= j
        PROVE  writes'[i].session <= writes'[j].session
    <3>1. CASE j = n + 1
      BY <2>2, <2>5, <3>1
    <3>2. CASE j # n + 1
      <4>1. i \in 1 .. n /\ j \in 1 .. n
        BY <2>2, <2>6, <3>2
      <4>. QED BY <2>2, <2>6, <4>1 DEF WritesInv, n
    <3>. QED BY <3>1, <3>2
  <2>. QED BY <1>3, <2>2, <2>5, <2>6 DEF WritesInv
<1>4. CASE PressSave \/ SwipeAndStay \/ Close
  <2>1. open /\ session' = session
    BY <1>4, WritesAdded
  <2>2. CASE configHasChanged /\ mapped
    BY <1>3, <1>4, <2>1, <2>2, WritesAdded
  <2>3. CASE configHasChanged /\ ~mapped
    <3>1. writes' = writes
      BY <1>4, <2>3, WritesAdded DEF WriteLayout
    <3>. QED BY <1>1, <2>1, <3>1
  <2>4. CASE ~configHasChanged
    BY <1>1, <1>4, <2>1, <2>4, WritesAdded
  <2>. QED BY <2>2, <2>3, <2>4
<1>5. CASE Connect \/ LinkLost \/ LayoutRead \/ LayoutWritten
  BY <1>1, <1>5 DEF Connect, LinkLost, LayoutRead, LayoutWritten, screen
<1>6. CASE EditStep
  BY <1>1, <1>6, EditStepLeaves DEF screen
<1>. QED BY <1>2, <1>4, <1>5, <1>6, NextSteps

(* The next screen has written nothing yet. *)
LEMMA NoFutureWrite ==
    ASSUME TypeInv, WritesInv
    PROVE  \A id \in 1 .. Len(writes) : writes[id].session # session + 1
<1>1. session \in Nat
  BY BoundsAssumption DEF TypeInv, SessionTypes
<1>2. \A id \in 1 .. Len(writes) : writes[id] \in WriteRecords
  BY ElementOfSeq DEF TypeInv, ChannelTypes
<1>3. \A id \in 1 .. Len(writes) : writes[id].session \in Nat
  BY <1>2, BoundsAssumption DEF WriteRecords
<1>. QED BY <1>1, <1>3 DEF WritesInv

LEMMA MappedInvStep ==
    ASSUME TypeInv, MappedInv, Next
    PROVE  MappedInv'
<1>0. losses \in Nat
  BY BoundsAssumption DEF TypeInv, SessionTypes
<1>1. CASE Connect
  BY <1>1 DEF Connect, Channel!Connect, screen, viewModel, history, MappedInv
<1>2. CASE LinkLost
  BY <1>0, <1>2 DEF LinkLost, Channel!Disconnect, screen, viewModel, MappedInv
<1>3. CASE LayoutRead
  <2>1. UNCHANGED <<up, mapped, open, losses>> /\ readers' = {}
    BY <1>3 DEF LayoutRead, Channel!AnswerRead, screen, history
  <2>2. hasLoaded' = hasLoaded \/ session \in readers
    BY <1>3 DEF LayoutRead
  <2>. QED BY <2>1, <2>2 DEF MappedInv
<1>4. CASE LayoutWritten
  BY <1>4 DEF LayoutWritten, Channel!AnswerWrite, screen, history, MappedInv
<1>5. CASE Open
  <2>1. CASE mapped
    BY <1>5, <2>1 DEF Open, Channel!Read, MappedInv
  <2>2. CASE ~mapped
    BY <1>5, <2>2 DEF Open, channel, MappedInv
  <2>. QED BY <2>1, <2>2
<1>6. CASE PressSave \/ SwipeAndStay \/ Close
  <2>1. UNCHANGED <<readers, hasLoaded, losses>> /\ open
    BY <1>6, WritesAdded
  <2>2. UNCHANGED <<up, mapped>>
    <3>1. ASSUME WriteLayout(lists) PROVE UNCHANGED <<up, mapped>>
      BY <3>1 DEF WriteLayout, channel, Channel!Write
    <3>. QED BY <1>6, <3>1, WritesAdded DEF channel
  <2>. QED BY <2>1, <2>2 DEF MappedInv
<1>7. CASE EditStep
  BY <1>7, EditStepLeaves DEF channel, screen, MappedInv
<1>. QED BY <1>1, <1>2, <1>3, <1>4, <1>5, <1>6, <1>7, NextSteps

-----------------------------------------------------------------------------
(* What edits leave, on a screen that was not edited early. *)

Unedited == UNCHANGED <<lists, configHasChanged, raced>>

NoOwnWrite == \A i \in 1 .. Len(q.writeCallbacks) : writes[q.writeCallbacks[i]].session # session

LEMMA OwnWriteFacts ==
    ASSUME TypeInv
    PROVE  /\ OwnWritePending <=> ~NoOwnWrite
           /\ \A i \in 1 .. Len(q.writeCallbacks) : q.writeCallbacks[i] \in 1 .. Len(writes)
<1>1. q.writeCallbacks \in Seq(1 .. Len(writes))
  BY DEF TypeInv, ChannelTypes, Requests
<1>2. DOMAIN q.writeCallbacks = 1 .. Len(q.writeCallbacks)
  BY <1>1, LenProperties
<1>3. \A i \in 1 .. Len(q.writeCallbacks) : q.writeCallbacks[i] \in 1 .. Len(writes)
  BY <1>1, ElementOfSeq
<1>. QED BY <1>2, <1>3 DEF OwnWritePending, NoOwnWrite, Range

(* An edit either changes nothing that is to be saved, or flags it and     *)
(* notes whether a save was pending; before the layout came it is early.   *)
LEMMA EditFacts ==
    ASSUME ScreenInv, EditStep
    PROVE  /\ ~early' => ~early
           /\ \/ Unedited
              \/ /\ configHasChanged' = TRUE
                 /\ ~raced' => NoOwnWrite
                 /\ ~early' => hasLoaded
<1>0. TypeInv
  BY DEF ScreenInv
<1>1. ASSUME Edited
      PROVE  configHasChanged' = TRUE /\ (~raced' => NoOwnWrite)
  BY <1>0, <1>1, OwnWriteFacts DEF Edited
<1>2. ASSUME NEW s \in Sections, TapAdd(s)
      PROVE  (~early' => ~early) /\ Unedited
  BY <1>2 DEF TapAdd, viewModel, Unedited
<1>3. ASSUME NEW s \in Sections, NEW r, DeleteRow(s, r)
      PROVE  /\ ~early' => ~early
             /\ Unedited \/ (Edited /\ (~early' => hasLoaded))
  <2>1. early' = (early \/ ~hasLoaded)
    BY <1>3 DEF DeleteRow
  <2>2. CASE s = 1 /\ r > Len(lists[1])
    BY <1>3, <2>1, <2>2 DEF DeleteRow, viewModel, Unedited
  <2>3. CASE ~(s = 1 /\ r > Len(lists[1]))
    <3>1. Edited
      BY <1>3, <2>3 DEF DeleteRow
    <3>. QED BY <2>1, <3>1
  <2>. QED BY <2>2, <2>3
<1>4. ASSUME NEW s \in Sections, NEW r, NEW t, NEW u, MoveRow(s, r, t, u)
      PROVE  /\ ~early' => ~early
             /\ Unedited \/ (Edited /\ (~early' => hasLoaded))
  <2>1. early' = (early \/ ~hasLoaded)
    BY <1>4 DEF MoveRow
  <2>2. CASE r <= Len(lists[s]) /\ u <= Len(lists[t]) + (IF s = t THEN 0 ELSE 1)
    <3>1. Edited
      BY <1>4, <2>2 DEF MoveRow, moveItem
    <3>. QED BY <2>1, <3>1
  <2>3. CASE ~(r <= Len(lists[s]) /\ u <= Len(lists[t]) + (IF s = t THEN 0 ELSE 1))
    <3>1. Unedited
      BY <1>4, <2>3 DEF MoveRow, viewModel, Unedited
    <3>. QED BY <2>1, <3>1
  <2>. QED BY <2>2, <2>3
<1>5. CASE LeaveAddScreen
  BY <1>5 DEF LeaveAddScreen, viewModel, history, Unedited
<1>7. ASSUME NEW item \in Items, PickItem(item)
      PROVE  (~early' => ~early) /\ Unedited
  BY <1>7 DEF PickItem, viewModel, history, Unedited
<1>6. CASE RunBlock
  <2>1. CASE RunReload \/ RunOverlay(Head(blocks)[2]) \/ RunSaveButton(Head(blocks)[2])
    BY <2>1 DEF RunReload, RunOverlay, RunSaveButton, viewModel, history, Unedited
  <2>2. CASE /\ Head(blocks)[1] = "add" /\ addScreen # None /\ RunAdd(Head(blocks)[2])
    <3>1. early' = early /\ Edited
      BY <2>2 DEF RunAdd
    <3>2. ~early => hasLoaded
      <4>1. open /\ crash = ""
        BY <1>0, <1>6, RunBlockCases
      <4>. QED BY <2>2, <4>1 DEF ScreenInv, RowsInv, RowsFollow
    <3>. QED BY <1>1, <3>1, <3>2
  <2>. QED BY <1>0, <1>6, <2>1, <2>2, RunBlockCases
<1>. QED BY <1>1, <1>2, <1>3, <1>4, <1>5, <1>6, <1>7 DEF EditStep

-----------------------------------------------------------------------------
(* A screen whose layout has not come. *)

LEMMA FreshInvStep ==
    ASSUME ScreenInv, QueueInv, WritesInv, FreshInv, Next
    PROVE  FreshInv'
<1>. DEFINE n == Len(writes)
<1>0. TypeInv /\ n \in Nat /\ q \in Requests(n) /\ q.readOps \in Seq(0 .. n)
  BY LenProperties DEF ScreenInv, TypeInv, ChannelTypes, Requests
<1>. HIDE DEF n
<1>1. ASSUME UNCHANGED <<open, early, hasLoaded, writes, session>>,
             configHasChanged' \in {configHasChanged, FALSE},
             \/ q'.readOps = q.readOps
             \/ q'.readOps = << >>
             \/ q.readOps # << >> /\ q'.readOps = Tail(q.readOps),
             Latest(q') = Latest(q) \/ q'.readOps = << >>
      PROVE  FreshInv'
  <2>. SUFFICES ASSUME open, ~early, ~hasLoaded
                PROVE  \A i \in 1 .. Len(q'.readOps) : q'.readOps[i] = Latest(q')
    BY <1>1 DEF FreshInv
  <2>1. \A i \in 1 .. Len(q.readOps) : q.readOps[i] = Latest(q)
    BY DEF FreshInv
  <2>2. CASE q'.readOps = << >>
    <3>1. Len(q'.readOps) = 0
      BY <2>2, EmptyQueue
    <3>. QED BY <3>1, EmptyQueue
  <2>3. CASE q'.readOps = q.readOps /\ Latest(q') = Latest(q)
    BY <2>1, <2>3
  <2>4. CASE q.readOps # << >> /\ q'.readOps = Tail(q.readOps) /\ Latest(q') = Latest(q)
    <3>1. /\ Len(q.readOps) \in Nat /\ Len(q'.readOps) = Len(q.readOps) - 1
          /\ \A i \in 1 .. Len(q.readOps) - 1 : q'.readOps[i] = q.readOps[i + 1]
      BY <1>0, <2>4, TailFacts
    <3>2. \A i \in 1 .. Len(q.readOps) - 1 : i + 1 \in 1 .. Len(q.readOps)
      BY <3>1
    <3>. QED BY <2>1, <2>4, <3>1, <3>2
  <2>. QED BY <1>1, <2>2, <2>3, <2>4
<1>2. CASE Connect
  <2>1. q' = q \/ q' = [q EXCEPT !.value = NoValue]
    BY <1>2, SameOperations DEF Connect, Channel!Connect
  <2>2. /\ q'.readOps = q.readOps /\ q'.writeOps = q.writeOps
        /\ q'.applied = q.applied
    BY <1>0, <2>1, OperationFields
  <2>3. q'.readOps = q.readOps /\ Latest(q') = Latest(q)
    BY <2>2 DEF Latest
  <2>. QED BY <1>1, <1>2, <2>3 DEF Connect, screen, viewModel, history
<1>3. CASE LinkLost
  <2>1. PICK v : q' = DropOps(q, v)
    BY <1>3, SameOperations DEF LinkLost, Channel!Disconnect
  <2>2. q'.readOps = << >>
    BY <1>0, <2>1 DEF DropOps, Requests
  <2>. QED BY <1>1, <1>3, <2>2 DEF LinkLost, screen, viewModel
<1>4. CASE LayoutRead
  <2>1. CASE open /\ session \in readers
    BY <1>4, <2>1 DEF LayoutRead, FreshInv
  <2>2. CASE ~(open /\ session \in readers)
    <3>1. q' = ReadAnswered(q) /\ q.readOps # << >>
      BY <1>4, SameOperations DEF LayoutRead, Channel!AnswerRead, ReadIsNext
    <3>2. q'.readOps = Tail(q.readOps) /\ Latest(q') = Latest(q)
      BY <1>0, <3>1, OperationFields DEF Latest
    <3>3. UNCHANGED <<open, early, hasLoaded, writes, session, configHasChanged>>
      BY <1>4, <2>2 DEF LayoutRead, screen, history
    <3>. QED BY <1>1, <3>1, <3>2, <3>3
  <2>. QED BY <2>1, <2>2
<1>5. CASE LayoutWritten
  <2>1. q' = WriteAnswered(q, Recognised) /\ q.writeOps # << >>
    BY <1>5, SameOperations DEF LayoutWritten, Channel!AnswerWrite, WriteIsNext
  <2>2. q'.readOps = q.readOps /\ Latest(q') = Latest(q)
    BY <1>0, <2>1, RecognisedAssumption, OperationFields, LatestKept
  <2>3. configHasChanged' \in {configHasChanged, FALSE}
    BY <1>5 DEF LayoutWritten
  <2>. QED BY <1>1, <1>5, <2>2, <2>3 DEF LayoutWritten, screen, history
<1>6. CASE Open
  <2>1. /\ session' = session + 1 /\ writes' = writes /\ configHasChanged' = FALSE
        /\ early' = (q.readOps # << >>)
    BY <1>6 DEF Open
  <2>2. \A id \in 1 .. Len(writes) : writes[id].session # session + 1
    BY <1>0, NoFutureWrite
  <2>3. ASSUME q.readOps = << >>
        PROVE  \A i \in 1 .. Len(q'.readOps) : q'.readOps[i] = Latest(q')
    <3>1. CASE q'.readOps = << >>
      <4>1. Len(q'.readOps) = 0
        BY <3>1, EmptyQueue
      <4>. QED BY <4>1, EmptyQueue
    <3>2. CASE ~mapped
      BY <1>6, <2>3, <3>1, <3>2 DEF Open, channel
    <3>3. CASE mapped
      <4>1. PICK handed \in BOOLEAN : q' = SubmitRead(q, handed)
        BY <1>6, <3>3, SameOperations DEF Open, Channel!Read, Channel!Handed
      <4>2. /\ q'.readOps = q.readOps \/ q'.readOps = Append(q.readOps, Latest(q))
            /\ Latest(q') = Latest(q)
        BY <1>0, <4>1, OperationFields DEF Latest
      <4>3. CASE q'.readOps = Append(<< >>, Latest(q))
        <5>1. Len(q'.readOps) = 1 /\ q'.readOps[1] = Latest(q)
          BY <4>3
        <5>. QED BY <4>2, <5>1
      <4>. QED BY <2>3, <3>1, <4>2, <4>3
    <3>. QED BY <3>2, <3>3
  <2>. QED BY <2>1, <2>2, <2>3 DEF FreshInv
<1>7. CASE PressSave \/ SwipeAndStay \/ Close
  BY <1>0, <1>7, WritesAdded DEF FreshInv
<1>8. CASE EditStep
  <2>1. UNCHANGED <<channel, writes, session, open, hasLoaded>>
    BY <1>8, EditStepLeaves DEF screen
  <2>2. (~early' => ~early) /\ (Unedited \/ (~early' => hasLoaded))
    BY <1>8, EditFacts
  <2>3. Latest(q)' = Latest(q)
    BY <2>1 DEF Latest, channel
  <2>. QED BY <2>1, <2>2, <2>3 DEF FreshInv, Unedited, channel
<1>. QED BY <1>2, <1>3, <1>4, <1>5, <1>6, <1>7, <1>8, NextSteps

-----------------------------------------------------------------------------
(* What is on its way, and what the device holds. *)

(* Nothing that a pending write is compared with changes. *)
LEMMA PendingKept ==
    ASSUME TypeInv, PendingInv, UNCHANGED <<open, writes, session, lists>>,
           ~early' => ~early, ~raced' => ~raced,
           \/ q'.writeCallbacks = q.writeCallbacks
           \/ q.writeCallbacks # << >> /\ q'.writeCallbacks = Tail(q.writeCallbacks)
    PROVE  PendingInv'
<1>1. CASE q'.writeCallbacks = q.writeCallbacks
  BY <1>1 DEF PendingInv
<1>2. CASE q.writeCallbacks # << >> /\ q'.writeCallbacks = Tail(q.writeCallbacks)
  <2>1. /\ Len(q.writeCallbacks) \in Nat
        /\ Len(q'.writeCallbacks) = Len(q.writeCallbacks) - 1
        /\ \A i \in 1 .. Len(q.writeCallbacks) - 1 :
              q'.writeCallbacks[i] = q.writeCallbacks[i + 1]
    BY <1>2, TailFacts DEF TypeInv, ChannelTypes, Requests
  <2>2. \A i \in 1 .. Len(q.writeCallbacks) - 1 : i + 1 \in 1 .. Len(q.writeCallbacks)
    BY <2>1
  <2>. QED BY <2>1, <2>2 DEF PendingInv
<1>. QED BY <1>1, <1>2

LEMMA PendingInvStep ==
    ASSUME ScreenInv, WritesInv, FreshInv, PendingInv, Next
    PROVE  PendingInv'
<1>. DEFINE n == Len(writes)
<1>0. TypeInv /\ n \in Nat /\ q \in Requests(n) /\ q.issued = n
  BY LenProperties DEF ScreenInv, TypeInv, ChannelTypes
<1>. HIDE DEF n
<1>1. CASE Connect
  <2>1. q' = q \/ q' = [q EXCEPT !.value = NoValue]
    BY <1>1, SameOperations DEF Connect, Channel!Connect
  <2>2. q'.writeCallbacks = q.writeCallbacks
    BY <1>0, <2>1, OperationFields
  <2>. QED BY <1>0, <1>1, <2>2, PendingKept DEF Connect, screen, viewModel, history
<1>2. CASE LinkLost
  <2>1. PICK v : q' = DropOps(q, v)
    BY <1>2, SameOperations DEF LinkLost, Channel!Disconnect
  <2>2. q'.writeCallbacks = q.writeCallbacks
    BY <1>0, <2>1 DEF DropOps, Requests
  <2>. QED BY <1>0, <1>2, <2>2, PendingKept DEF LinkLost, screen, viewModel
<1>3. CASE LayoutRead
  <2>1. q' = ReadAnswered(q)
    BY <1>3, SameOperations DEF LayoutRead, Channel!AnswerRead
  <2>2. q'.writeCallbacks = q.writeCallbacks
    BY <1>0, <2>1, OperationFields
  <2>3. UNCHANGED <<open, writes, session, early, raced>>
    BY <1>3 DEF LayoutRead, screen, history
  <2>4. CASE open /\ session \in readers
    <3>1. ~hasLoaded
      BY <2>4 DEF ScreenInv, ReadInv
    <3>2. ~early => NoOwnWrite
      BY <1>0, <2>4, <3>1, OwnWriteFacts DEF FreshInv, NoOwnWrite
    <3>. QED BY <2>2, <2>3, <3>2 DEF PendingInv, NoOwnWrite
  <2>5. CASE ~(open /\ session \in readers)
    <3>1. lists' = lists
      BY <1>3, <2>5 DEF LayoutRead
    <3>. QED BY <1>0, <2>2, <2>3, <2>5, <3>1, PendingKept
  <2>. QED BY <2>4, <2>5
<1>4. CASE LayoutWritten
  <2>1. q' = WriteAnswered(q, Recognised)
    BY <1>4, SameOperations DEF LayoutWritten, Channel!AnswerWrite
  <2>2. \/ q'.writeCallbacks = q.writeCallbacks
        \/ q.writeCallbacks # << >> /\ q'.writeCallbacks = Tail(q.writeCallbacks)
    <3>1. q'.writeCallbacks = IF Recognised /\ Len(q.writeCallbacks) > 0
                              THEN Tail(q.writeCallbacks) ELSE q.writeCallbacks
      BY <1>0, <2>1, RecognisedAssumption, OperationFields
    <3>2. q.writeCallbacks = << >> => Len(q.writeCallbacks) = 0
      BY EmptyQueue
    <3>. QED BY <3>1, <3>2
  <2>. QED BY <1>0, <1>4, <2>2, PendingKept DEF LayoutWritten, screen, history
<1>5. CASE Open
  <2>1. /\ session' = session + 1 /\ writes' = writes /\ open' = TRUE
    BY <1>5 DEF Open
  <2>2. q'.writeCallbacks = q.writeCallbacks
    <3>1. CASE ~mapped
      BY <1>5, <3>1 DEF Open, channel
    <3>2. CASE mapped
      <4>1. PICK handed \in BOOLEAN : q' = SubmitRead(q, handed)
        BY <1>5, <3>2, SameOperations DEF Open, Channel!Read, Channel!Handed
      <4>. QED BY <1>0, <4>1, OperationFields
    <3>. QED BY <3>1, <3>2
  <2>3. \A id \in 1 .. Len(writes) : writes[id].session # session + 1
    BY <1>0, NoFutureWrite
  <2>4. \A i \in 1 .. Len(q.writeCallbacks) : writes[q.writeCallbacks[i]].session # session + 1
    BY <1>0, <2>3, OwnWriteFacts
  <2>. QED BY <2>1, <2>2, <2>4 DEF PendingInv
<1>6. CASE PressSave \/ SwipeAndStay \/ Close
  <2>1. /\ UNCHANGED <<session, lists, early, raced>> /\ open
        /\ configHasChanged => WriteLayout(lists)
        /\ ~configHasChanged => UNCHANGED <<channel, writes>>
        /\ open' = open \/ open' = FALSE
    BY <1>0, <1>6, WritesAdded
  <2>2. CASE ~open'
    BY <2>2 DEF PendingInv
  <2>3. CASE ~(configHasChanged /\ mapped) /\ open' = open
    <3>1. UNCHANGED <<channel, writes>>
      BY <2>1, <2>3 DEF WriteLayout
    <3>. QED BY <1>0, <2>1, <2>3, <3>1, PendingKept DEF channel
  <2>4. CASE configHasChanged /\ mapped /\ open' = open
    <3>1. PICK handed \in BOOLEAN : q' = SubmitWrite(q, handed)
      BY <1>0, <2>1, <2>4, WriteLayoutFacts DEF TypeInv, ModelTypes
    <3>2. PICK accepted \in BOOLEAN :
            LET w == [layout |-> lists, session |-> session, accepted |-> accepted]
            IN  w \in WriteRecords /\ writes' = Append(writes, w)
      BY <1>0, <2>1, <2>4, WriteLayoutFacts DEF TypeInv, ModelTypes
    <3>. DEFINE cb == q.writeCallbacks
                m == Len(cb)
    <3>3. /\ \A i \in 1 .. n : writes'[i] = writes[i]
          /\ writes'[n + 1].layout = lists
      BY <1>0, <3>2, AppendFacts DEF TypeInv, ChannelTypes, n
    <3>4. q'.writeCallbacks = Append(cb, n + 1)
      BY <1>0, <3>1, OperationFields
    <3>5. cb \in Seq(Nat) /\ n + 1 \in Nat /\ \A i \in 1 .. m : cb[i] \in 1 .. n
      BY <1>0, WritesType, OwnWriteFacts DEF n
    <3>. HIDE DEF cb
    <3>6. /\ m \in Nat /\ Len(q'.writeCallbacks) = m + 1
          /\ \A i \in 1 .. m : q'.writeCallbacks[i] = cb[i]
          /\ q'.writeCallbacks[m + 1] = n + 1
      BY <3>4, <3>5, AppendFacts
    <3>. HIDE DEF m
    <3>7. \A i \in 1 .. m + 1 : i = m + 1 \/ i \in 1 .. m
      BY <3>6
    <3>8. ASSUME open, ~early, ~raced, NEW i \in 1 .. m,
                 writes'[q'.writeCallbacks[i]].session = session
          PROVE  writes'[q'.writeCallbacks[i]].layout = lists
      <4>1. q'.writeCallbacks[i] = cb[i] /\ writes'[cb[i]] = writes[cb[i]]
        BY <3>3, <3>5, <3>6
      <4>. QED BY <3>8, <4>1 DEF PendingInv, cb, m
    <3>. QED BY <2>1, <2>4, <3>3, <3>6, <3>7, <3>8 DEF PendingInv
  <2>. QED BY <2>1, <2>2, <2>3, <2>4
<1>7. CASE EditStep
  <2>1. UNCHANGED <<channel, writes, session, open>>
    BY <1>7, EditStepLeaves DEF screen
  <2>2. (~early' => ~early) /\ (Unedited \/ (~raced' => NoOwnWrite))
    BY <1>7, EditFacts
  <2>3. CASE Unedited
    BY <1>0, <2>1, <2>2, <2>3, PendingKept DEF channel, Unedited
  <2>4. CASE ~raced' => NoOwnWrite
    BY <2>1, <2>4 DEF channel, NoOwnWrite, PendingInv
  <2>. QED BY <2>2, <2>3, <2>4
<1>. QED BY <1>1, <1>2, <1>3, <1>4, <1>5, <1>6, <1>7, NextSteps

(* A write that was accepted is the last one that was, when it has just    *)
(* been processed.                                                         *)
LEMMA OnlyLast ==
    ASSUME NEW ws, NEW v \in Nat \ {0}, ws[v].accepted
    PROVE  {id \in 1 .. v : /\ ws[id].accepted
                            /\ \A later \in id + 1 .. v : ~ws[later].accepted} = {v}
<1>1. v \in 1 .. v /\ \A later \in v + 1 .. v : FALSE
  OBVIOUS
<1>2. \A id \in 1 .. v : id = v \/ v \in id + 1 .. v
  OBVIOUS
<1>. QED BY <1>1, <1>2

LEMMA AcceptedContent ==
    ASSUME NEW v \in Nat \ {0}
    PROVE  /\ writes[v].accepted => Content(v) = writes[v].layout
           /\ writes'[v].accepted => Content(v)' = writes'[v].layout
BY OnlyLast DEF Content

(* What the device holds, and may hold, is as it was. *)
LEMMA HeldKept ==
    ASSUME HeldInv, UNCHANGED <<open, hasLoaded, writes, original, lists, leftover>>,
           ~early' => ~early, ~raced' => ~raced, ~configHasChanged' => ~configHasChanged,
           ReportableValues(q') \subseteq ReportableValues(q)
    PROVE  HeldInv'
<1>1. Refused' = Refused
  BY DEF Refused
<1>2. \A v : (DeviceHolds(lists, v) \/ ShowsLeftover(v))'
                <=> DeviceHolds(lists, v) \/ ShowsLeftover(v)
  BY DEF DeviceHolds, ShowsLeftover, Content
<1>3. ReportableValues(q)' = ReportableValues(q')
  BY DEF ReportableValues, Range
<1>. QED BY <1>1, <1>2, <1>3 DEF HeldInv

LEMMA HeldInvStep ==
    ASSUME ScreenInv, QueueInv, WritesInv, FreshInv, PendingInv, HeldInv, Next
    PROVE  HeldInv'
<1>. DEFINE n == Len(writes)
<1>0. TypeInv /\ n \in Nat /\ q \in Requests(n) /\ writes \in Seq(WriteRecords)
  BY LenProperties DEF ScreenInv, TypeInv, ChannelTypes
<1>. HIDE DEF n
<1>10. ASSUME q'.writeOps = q.writeOps, q'.applied = q.applied
       PROVE  ReportableValues(q') = ReportableValues(q)
  BY <1>10 DEF ReportableValues, Range
<1>1. CASE Connect
  <2>1. q' = q \/ q' = [q EXCEPT !.value = NoValue]
    BY <1>1, SameOperations DEF Connect, Channel!Connect
  <2>2. ReportableValues(q') = ReportableValues(q)
    BY <1>0, <1>10, <2>1, OperationFields
  <2>. QED BY <1>1, <2>2, HeldKept DEF Connect, screen, viewModel, history
<1>2. CASE LinkLost
  <2>1. PICK v \in ReportableValues(q) : q' = DropOps(q, v)
    BY <1>2, SameOperations DEF LinkLost, Channel!Disconnect
  <2>2. ReportableValues(q') \subseteq ReportableValues(q)
    BY <1>0, <2>1, ReportableShrinks
  <2>. QED BY <1>2, <2>2, HeldKept DEF LinkLost, screen, viewModel
<1>3. CASE LayoutRead
  <2>1. q' = ReadAnswered(q) /\ ReadIsNext(q)
    BY <1>3, SameOperations DEF LayoutRead, Channel!AnswerRead
  <2>2. ReportableValues(q') = ReportableValues(q)
    BY <1>0, <1>10, <2>1, OperationFields
  <2>3. UNCHANGED <<open, writes, original, early, raced, configHasChanged>>
    BY <1>3 DEF LayoutRead, screen, history
  <2>4. CASE open /\ session \in readers
    <3>. SUFFICES ASSUME ~early, NEW v \in ReportableValues(q)
                  PROVE  (DeviceHolds(lists, v) \/ ShowsLeftover(v))'
      <4>1. ReportableValues(q)' = ReportableValues(q')
        BY DEF ReportableValues, Range
      <4>. QED BY <2>2, <2>3, <4>1 DEF HeldInv
    <3>1. ~hasLoaded
      BY <2>4 DEF ScreenInv, ReadInv
    <3>2. q.readOps # << >> /\ q.readOps \in Seq(0 .. n)
      BY <1>0, <2>1 DEF ReadIsNext, Requests
    <3>3. Head(q.readOps) = q.readOps[1] /\ 1 \in 1 .. Len(q.readOps)
      BY <3>2, TailFacts
    <3>4. Head(q.readOps) = Latest(q)
      BY <2>4, <3>1, <3>3 DEF FreshInv
    <3>5. ReportableValues(q) = {Head(q.readOps)}
      BY <1>0, <2>1, <3>4, ReadIsLast DEF QueueInv
    <3>6. v = Head(q.readOps)
      BY <3>5
    <3>7. /\ lists' = IF Content(Head(q.readOps)) = Short THEN manager
                      ELSE Content(Head(q.readOps))
          /\ leftover' = (Content(Head(q.readOps)) = Short /\ manager # Empty)
      BY <1>3, <2>4 DEF LayoutRead
    <3>8. Content(v)' = Content(v)
      BY <2>3 DEF Content
    <3>9. \/ Content(v) = lists'
          \/ Content(v) = Short /\ lists' = Empty
          \/ Content(v) = Short /\ leftover'
      BY <3>6, <3>7
    <3>. QED BY <3>8, <3>9 DEF DeviceHolds, ShowsLeftover
  <2>5. CASE ~(open /\ session \in readers)
    <3>1. UNCHANGED <<lists, hasLoaded, leftover>>
      BY <1>3, <2>5 DEF LayoutRead
    <3>2. ReportableValues(q') \subseteq ReportableValues(q)
      BY <2>2
    <3>. QED BY <2>3, <3>1, <3>2, HeldKept
  <2>. QED BY <2>4, <2>5
<1>4. CASE LayoutWritten
  <2>1. q' = WriteAnswered(q, Recognised) /\ q.writeOps # << >>
    BY <1>4, SameOperations DEF LayoutWritten, Channel!AnswerWrite, WriteIsNext
  <2>2. UNCHANGED <<open, writes, original, early, raced, leftover, hasLoaded, lists,
                    session>>
    BY <1>4 DEF LayoutWritten, screen, history
  <2>3. ReportableValues(q') \subseteq ReportableValues(q)
    BY <1>0, <2>1, RecognisedAssumption, ReportableShrinks
  <2>4. CASE Recognised /\ open /\ q.writeCallbacks # <<>>
             /\ writes[Head(q.writeCallbacks)].session = session
    <3>. SUFFICES ASSUME ~early, ~raced, Refused = {}, NEW v \in ReportableValues(q')
                  PROVE  DeviceHolds(lists, v)'
      <4>0. ReportableValues(q)' = ReportableValues(q')
        BY DEF ReportableValues, Range
      <4>1. Refused' = Refused
        BY <2>2 DEF Refused
      <4>. QED BY <2>2, <4>0, <4>1 DEF HeldInv
    <3>1. /\ 1 \in 1 .. Len(q.writeCallbacks) /\ q.writeCallbacks[1] <= v
      BY <1>0, <2>1, RecognisedAssumption, AnsweredOwn DEF QueueInv
    <3>2. PICK i \in 1 .. Len(q.writeCallbacks) : v = q.writeCallbacks[i]
      BY <1>0, <2>1, RecognisedAssumption, AnsweredOwn DEF QueueInv
    <3>3. v \in 1 .. n /\ q.writeCallbacks[1] \in 1 .. n
      BY <1>0, <3>1, <3>2, OwnWriteFacts DEF n
    <3>4. writes[v].session = session
      <4>1. writes[q.writeCallbacks[1]].session = session
        BY <1>0, <2>4, TailFacts DEF Requests
      <4>2. session <= writes[v].session /\ writes[v].session <= session
        BY <3>1, <3>3, <4>1 DEF WritesInv, n
      <4>3. session \in Nat
        BY <1>0, BoundsAssumption DEF TypeInv, SessionTypes
      <4>4. writes[v].session \in Nat
        <5>1. writes[v] \in WriteRecords
          BY <1>0, <3>3, ElementOfSeq DEF n
        <5>. QED BY <5>1, BoundsAssumption DEF WriteRecords
      <4>. QED BY <4>2, <4>3, <4>4
    <3>5. writes[v].layout = lists
      BY <2>4, <3>2, <3>4 DEF PendingInv
    <3>6. writes[v].accepted
      <4>1. DOMAIN writes = 1 .. n
        BY <1>0, LenProperties DEF n
      <4>. QED BY <3>3, <4>1 DEF Refused
    <3>7. Content(v)' = lists
      <4>1. v \in Nat \ {0}
        BY <1>0, <3>3
      <4>. QED BY <2>2, <3>5, <3>6, <4>1, AcceptedContent
    <3>. QED BY <2>2, <3>7 DEF DeviceHolds
  <2>5. CASE ~(Recognised /\ open /\ q.writeCallbacks # <<>>
               /\ writes[Head(q.writeCallbacks)].session = session)
    <3>1. configHasChanged' = configHasChanged
      BY <1>4, <2>5 DEF LayoutWritten
    <3>. QED BY <2>2, <2>3, <3>1, HeldKept
  <2>. QED BY <2>4, <2>5
<1>5. CASE Open
  BY <1>5 DEF Open, HeldInv
<1>6. CASE PressSave \/ SwipeAndStay \/ Close
  <2>1. ~open' \/ (configHasChanged /\ configHasChanged' = configHasChanged)
    BY <1>0, <1>6, WritesAdded
  <2>. QED BY <2>1 DEF HeldInv
<1>7. CASE EditStep
  <2>1. UNCHANGED <<channel, original, writes, open, hasLoaded, leftover>>
    BY <1>7, EditStepLeaves DEF screen
  <2>2. (~early' => ~early) /\ (Unedited \/ configHasChanged' = TRUE)
    BY <1>7, EditFacts
  <2>3. CASE Unedited
    <3>1. ReportableValues(q') = ReportableValues(q)
      BY <2>1, <1>10 DEF channel
    <3>. QED BY <2>1, <2>2, <2>3, <3>1, HeldKept DEF Unedited
  <2>4. CASE configHasChanged' = TRUE
    BY <2>4 DEF HeldInv
  <2>. QED BY <2>2, <2>3, <2>4
<1>. QED BY <1>1, <1>2, <1>3, <1>4, <1>5, <1>6, <1>7, NextSteps

-----------------------------------------------------------------------------
(* The end of a save. *)

LEMMA SavingStep ==
    ASSUME ScreenInv, MappedInv, FreshInv, SavingIsPending, Next
    PROVE  SavingIsPending'
<1>. DEFINE n == Len(writes)
<1>0. TypeInv /\ n \in Nat /\ q \in Requests(n) /\ q.issued = n
  BY LenProperties DEF ScreenInv, TypeInv, ChannelTypes
<1>. HIDE DEF n
<1>1. TypeInv'
  BY <1>0, TypeInvStep
<1>2. OwnWritePending' <=> \E i \in 1 .. Len(q'.writeCallbacks) :
                               writes'[q'.writeCallbacks[i]].session = session'
  <2>1. q'.writeCallbacks \in Seq(1 .. Len(writes'))
    BY <1>1 DEF TypeInv, ChannelTypes, Requests
  <2>2. DOMAIN q'.writeCallbacks = 1 .. Len(q'.writeCallbacks)
    BY <2>1, LenProperties
  <2>. QED BY <2>2 DEF OwnWritePending, Range
<1>3. OwnWritePending <=> \E i \in 1 .. Len(q.writeCallbacks) :
                              writes[q.writeCallbacks[i]].session = session
  BY <1>0, OwnWriteFacts DEF NoOwnWrite
<1>4. ASSUME UNCHANGED <<open, isSaving, writes, session>>, ~early' => ~early,
             q'.writeCallbacks = q.writeCallbacks
      PROVE  SavingIsPending'
  BY <1>2, <1>3, <1>4 DEF SavingIsPending
<1>5. CASE Connect
  <2>1. q' = q \/ q' = [q EXCEPT !.value = NoValue]
    BY <1>5, SameOperations DEF Connect, Channel!Connect
  <2>2. q'.writeCallbacks = q.writeCallbacks
    BY <1>0, <2>1, OperationFields
  <2>. QED BY <1>4, <1>5, <2>2 DEF Connect, screen, viewModel, history
<1>6. CASE LinkLost
  <2>1. PICK v : q' = DropOps(q, v)
    BY <1>6, SameOperations DEF LinkLost, Channel!Disconnect
  <2>2. q'.writeCallbacks = q.writeCallbacks
    BY <1>0, <2>1 DEF DropOps, Requests
  <2>. QED BY <1>4, <1>6, <2>2 DEF LinkLost, screen, viewModel
<1>7. CASE LayoutRead
  <2>1. q' = ReadAnswered(q)
    BY <1>7, SameOperations DEF LayoutRead, Channel!AnswerRead
  <2>2. q'.writeCallbacks = q.writeCallbacks
    BY <1>0, <2>1, OperationFields
  <2>. QED BY <1>4, <1>7, <2>2 DEF LayoutRead, screen, history
<1>8. CASE LayoutWritten
  <2>. DEFINE cb == q.writeCallbacks
  <2>1. q' = WriteAnswered(q, Recognised)
    BY <1>8, SameOperations DEF LayoutWritten, Channel!AnswerWrite
  <2>2. q'.writeCallbacks = IF Recognised /\ Len(cb) > 0 THEN Tail(cb) ELSE cb
    BY <1>0, <2>1, RecognisedAssumption, OperationFields
  <2>3. UNCHANGED <<open, writes, session, early>>
    BY <1>8 DEF LayoutWritten, screen, history
  <2>4. CASE Recognised /\ open /\ cb # <<>> /\ writes[Head(cb)].session = session
    BY <1>8, <2>4 DEF LayoutWritten, SavingIsPending
  <2>5. CASE ~(Recognised /\ open /\ cb # <<>> /\ writes[Head(cb)].session = session)
    <3>1. isSaving' = isSaving
      BY <1>8, <2>5 DEF LayoutWritten
    <3>2. CASE cb = << >> \/ ~Recognised
      <4>1. Len(cb) = 0 \/ ~Recognised
        BY <3>2, EmptyQueue
      <4>2. q'.writeCallbacks = cb
        BY <2>2, <4>1
      <4>. QED BY <1>4, <2>3, <3>1, <4>2
    <3>3. CASE Recognised /\ cb # << >> /\ open /\ OwnWritePending
      <4>1. cb \in Seq(1 .. n)
        BY <1>0 DEF Requests
      <4>2. /\ Len(cb) \in Nat /\ Len(cb) > 0 /\ Len(Tail(cb)) = Len(cb) - 1
            /\ \A i \in 1 .. Len(cb) - 1 : Tail(cb)[i] = cb[i + 1]
            /\ Head(cb) = cb[1]
        BY <3>3, <4>1, TailFacts
      <4>3. PICK i \in 1 .. Len(cb) : writes[cb[i]].session = session
        BY <1>3, <3>3
      <4>4. i # 1
        BY <2>5, <3>3, <4>2, <4>3
      <4>. DEFINE m == Len(cb)
      <4>. HIDE DEF m
      <4>5. i \in 1 .. m /\ m \in Nat
        BY <4>2, <4>3 DEF m
      <4>6. i - 1 \in 1 .. m - 1 /\ (i - 1) + 1 = i
        BY <4>4, <4>5
      <4>7. Tail(cb)[i - 1] = cb[i] /\ i - 1 \in 1 .. Len(Tail(cb))
        BY <4>2, <4>6 DEF m
      <4>8. q'.writeCallbacks = Tail(cb)
        BY <2>2, <3>3, <4>2
      <4>. HIDE DEF cb
      <4>. QED BY <1>2, <2>3, <4>3, <4>7, <4>8 DEF SavingIsPending
    <3>4. CASE ~open \/ ~OwnWritePending
      BY <2>3, <3>1, <3>4 DEF SavingIsPending
    <3>. QED BY <3>2, <3>3, <3>4
  <2>. QED BY <2>4, <2>5
<1>9. CASE Open
  BY <1>9 DEF Open, SavingIsPending
<1>10. CASE PressSave \/ SwipeAndStay \/ Close
  <2>1. CASE Close
    BY <2>1 DEF Close, SavingIsPending
  <2>2. CASE ~Close
    <3>1. /\ open /\ configHasChanged /\ WriteLayout(lists)
          /\ UNCHANGED <<open, session, early, hasLoaded>>
      BY <1>0, <1>10, <2>2, WritesAdded
    <3>. SUFFICES ASSUME ~early PROVE OwnWritePending'
      BY <3>1 DEF SavingIsPending
    <3>2. mapped
      BY <3>1 DEF FreshInv, MappedInv
    <3>3. PICK handed \in BOOLEAN : q' = SubmitWrite(q, handed)
      BY <1>0, <3>1, <3>2, WriteLayoutFacts DEF TypeInv, ModelTypes
    <3>4. PICK accepted \in BOOLEAN :
            LET w == [layout |-> lists, session |-> session, accepted |-> accepted]
            IN  w \in WriteRecords /\ writes' = Append(writes, w)
      BY <1>0, <3>1, <3>2, WriteLayoutFacts DEF TypeInv, ModelTypes
    <3>5. writes'[n + 1].session = session
      BY <1>0, <3>4, AppendFacts DEF TypeInv, ChannelTypes, n
    <3>6. q'.writeCallbacks = Append(q.writeCallbacks, n + 1)
      BY <1>0, <3>3, OperationFields
    <3>. DEFINE cb == q.writeCallbacks
    <3>7. cb \in Seq(Nat) /\ n + 1 \in Nat
      BY <1>0, WritesType
    <3>8. /\ Len(cb) \in Nat /\ Len(q'.writeCallbacks) = Len(cb) + 1
          /\ q'.writeCallbacks[Len(cb) + 1] = n + 1
      BY <3>6, <3>7, AppendFacts
    <3>9. Len(cb) + 1 \in 1 .. Len(q'.writeCallbacks)
      BY <3>8
    <3>. QED BY <1>2, <3>1, <3>5, <3>8, <3>9
  <2>. QED BY <2>1, <2>2
<1>11. CASE EditStep
  <2>1. UNCHANGED <<channel, writes, session, open, isSaving>>
    BY <1>11, EditStepLeaves DEF screen
  <2>2. ~early' => ~early
    BY <1>11, EditFacts
  <2>. QED BY <1>4, <2>1, <2>2 DEF channel
<1>. QED BY <1>5, <1>6, <1>7, <1>8, <1>9, <1>10, <1>11, NextSteps

-----------------------------------------------------------------------------
(* Nobody waits in vain. *)

LEMMA NobodyWaitsStep ==
    ASSUME TypeInv, MappedInv, NobodyWaitsInVain, Next
    PROVE  NobodyWaitsInVain'
<1>. DEFINE n == Len(writes)
<1>1. n \in Nat /\ q \in Requests(n) /\ losses \in Nat
  BY LenProperties, BoundsAssumption DEF TypeInv, ChannelTypes, SessionTypes
<1>. HIDE DEF n
<1>2. CASE LinkLost
  BY <1>1, <1>2 DEF LinkLost, NobodyWaitsInVain
<1>. SUFFICES ASSUME ~LinkLost, losses' = 0
              PROVE  /\ Recognised => q'.writeCallbacks = q'.writeOps
                     /\ readers' # {} => q'.readOps # << >>
  BY <1>2 DEF NobodyWaitsInVain
<1>3. losses' = losses
  <2>1. CASE PressSave \/ SwipeAndStay \/ Close
    BY <2>1, WritesAdded
  <2>2. CASE EditStep
    BY <2>2, EditStepLeaves
  <2>. QED BY <2>1, <2>2, NextSteps
           DEF Connect, LayoutRead, LayoutWritten, Open, history
<1>4. /\ Recognised => q.writeCallbacks = q.writeOps
      /\ readers # {} => q.readOps # << >>
      /\ mapped => up
  BY <1>3 DEF NobodyWaitsInVain, MappedInv
<1>5. CASE Connect
  <2>1. (q' = q \/ q' = [q EXCEPT !.value = NoValue]) /\ readers' = readers
    BY <1>5, SameOperations DEF Connect, Channel!Connect
  <2>2. q'.writeCallbacks = q.writeCallbacks /\ q'.writeOps = q.writeOps /\ q'.readOps = q.readOps
    BY <1>1, <2>1, OperationFields
  <2>. QED BY <1>4, <2>1, <2>2
<1>6. CASE LayoutRead
  <2>1. q' = ReadAnswered(q) /\ readers' = {}
    BY <1>6, SameOperations DEF LayoutRead, Channel!AnswerRead
  <2>2. q'.writeCallbacks = q.writeCallbacks /\ q'.writeOps = q.writeOps
    BY <1>1, <2>1, OperationFields
  <2>. QED BY <1>4, <2>1, <2>2
<1>7. CASE LayoutWritten
  <2>1. q' = WriteAnswered(q, Recognised) /\ q.writeOps # << >> /\ readers' = readers
    BY <1>7, SameOperations DEF LayoutWritten, Channel!AnswerWrite, WriteIsNext
  <2>2. Len(q.writeOps) > 0
    BY <1>1, <2>1 DEF Requests
  <2>3. /\ q'.writeCallbacks = IF Recognised /\ Len(q.writeCallbacks) > 0
                               THEN Tail(q.writeCallbacks) ELSE q.writeCallbacks
        /\ q'.writeOps = Tail(q.writeOps) /\ q'.readOps = q.readOps
    BY <1>1, <2>1, RecognisedAssumption, OperationFields
  <2>. QED BY <1>4, <2>1, <2>2, <2>3
<1>8. CASE Open
  <2>1. CASE ~mapped
    BY <1>4, <1>8, <2>1 DEF Open, channel
  <2>2. CASE mapped
    <3>1. Channel!Read
      BY <1>8, <2>2 DEF Open
    <3>2. q' = SubmitRead(q, TRUE)
      BY <1>4, <2>2, <3>1, SameOperations DEF Channel!Read, Channel!Handed
    <3>3. q'.writeCallbacks = q.writeCallbacks /\ q'.writeOps = q.writeOps
      BY <1>1, <3>2, OperationFields
    <3>4. q'.readOps = Append(q.readOps, Latest(q))
      BY <1>1, <3>2 DEF SubmitRead, Requests
    <3>5. q.readOps \in Seq(0 .. n) /\ Latest(q) \in 0 .. n
      BY <1>1, LatestType DEF Requests
    <3>6. q'.readOps # << >>
      BY <3>4, <3>5, AppendFacts, EmptyQueue
    <3>. QED BY <1>4, <3>3, <3>6
  <2>. QED BY <2>1, <2>2
<1>9. CASE PressSave \/ SwipeAndStay \/ Close
  <2>1. readers' = readers /\ open /\ (configHasChanged => WriteLayout(lists))
        /\ (~configHasChanged => UNCHANGED <<channel, writes>>)
    BY <1>9, WritesAdded
  <2>2. CASE ~(configHasChanged /\ mapped)
    <3>1. q' = q
      BY <2>1, <2>2 DEF WriteLayout, channel
    <3>. QED BY <1>4, <2>1, <3>1
  <2>3. CASE configHasChanged /\ mapped
    <3>1. PICK handed \in BOOLEAN : q' = SubmitWrite(q, handed) /\ (up => handed)
      BY <2>1, <2>3, WriteLayoutFacts DEF TypeInv, ModelTypes
    <3>2. /\ q'.writeCallbacks = Append(q.writeCallbacks, q.issued + 1)
          /\ q'.writeOps = Append(q.writeOps, q.issued + 1)
          /\ q'.readOps = q.readOps
      BY <1>1, <1>4, <2>3, <3>1, OperationFields
    <3>. QED BY <1>4, <2>1, <3>2
  <2>. QED BY <2>2, <2>3
<1>10. CASE EditStep
  BY <1>4, <1>10, EditStepLeaves DEF channel
<1>. QED BY <1>5, <1>6, <1>7, <1>8, <1>9, <1>10, NextSteps

-----------------------------------------------------------------------------
(* All of it together. *)

LEMMA SavesInvInit ==
    ASSUME Init
    PROVE  SavesInv
<1>1. q = EmptyQueues /\ up = FALSE /\ mapped = FALSE
  BY SameOperations DEF Init, Channel!Init
<1>2. QueueInv
  <2>1. q.writeCallbacks = << >> /\ q.writeOps = << >> /\ q.readCallbacks = << >>
    BY <1>1 DEF EmptyQueues
  <2>2. q.issued = 0 /\ q.applied = 0
    BY <1>1 DEF EmptyQueues
  <2>3. ClosuresInOrder(q)
    BY <2>1, <2>2, EmptyQueue DEF ClosuresInOrder, InOrder
  <2>4. AnswersAscend(q) /\ AloneIsFresh(q)
    BY <2>1, EmptyQueue DEF AnswersAscend, AloneIsFresh
  <2>. QED BY <2>3, <2>4 DEF QueueInv
<1>3. WritesInv
  BY EmptyQueue DEF Init, WritesInv
<1>4. MappedInv /\ FreshInv /\ PendingInv /\ HeldInv /\ SavingIsPending
  BY <1>1 DEF Init, MappedInv, FreshInv, PendingInv, HeldInv, SavingIsPending
<1>. QED BY <1>2, <1>3, <1>4 DEF SavesInv

LEMMA SavesInvStep ==
    ASSUME ScreenInv, SavesInv, [Next]_vars
    PROVE  SavesInv'
<1>1. CASE Next
  <2>1. TypeInv
    BY DEF ScreenInv
  <2>2. QueueInv' /\ WritesInv' /\ MappedInv'
    BY <1>1, <2>1, QueueInvStep, WritesInvStep, MappedInvStep DEF SavesInv
  <2>3. FreshInv' /\ PendingInv'
    BY <1>1, FreshInvStep, PendingInvStep DEF SavesInv
  <2>4. HeldInv' /\ SavingIsPending'
    BY <1>1, HeldInvStep, SavingStep DEF SavesInv
  <2>. QED BY <2>2, <2>3, <2>4 DEF SavesInv
<1>2. CASE UNCHANGED vars
  <2>0. /\ UNCHANGED <<q, up, mapped, original, writes, readers, session, open, early, raced,
                      leftover>>
        /\ UNCHANGED <<lists, hasLoaded, configHasChanged, isSaving, losses>>
    BY <1>2 DEF vars, channel, screen, viewModel, history
  <2>1. QueueInv'
    BY <2>0 DEF SavesInv, QueueInv, ClosuresInOrder, InOrder, AnswersAscend,
                AloneIsFresh, Latest
  <2>2. WritesInv' /\ MappedInv'
    BY <2>0 DEF SavesInv, WritesInv, MappedInv
  <2>3. FreshInv' /\ PendingInv'
    BY <2>0 DEF SavesInv, FreshInv, PendingInv, Latest
  <2>4. HeldInv'
    <3>1. ReportableValues(q') \subseteq ReportableValues(q)
      BY <2>0
    <3>. QED BY <2>0, <3>1, HeldKept DEF SavesInv
  <2>5. SavingIsPending'
    BY <2>0 DEF SavesInv, SavingIsPending, OwnWritePending, Range
  <2>. QED BY <2>1, <2>2, <2>3, <2>4, <2>5 DEF SavesInv
<1>. QED BY <1>1, <1>2

LEMMA SavesAlways == Spec => [](ScreenInv /\ SavesInv)
<1>1. Init => ScreenInv /\ SavesInv
  BY ScreenInvInit, SavesInvInit
<1>2. ScreenInv /\ SavesInv /\ [Next]_vars => (ScreenInv /\ SavesInv)'
  BY ScreenInvStep, SavesInvStep
<1>. QED BY <1>1, <1>2, PTL DEF Spec

(* While the screen says that it is saving, a closure is registered that   *)
(* will end that, on a screen that was not edited before its layout came;  *)
(* no number of lost links, and no save of another screen, takes it away.  *)
THEOREM SavesWillEnd == Spec => []SavingIsPending
<1>1. SavesInv => SavingIsPending
  BY DEF SavesInv
<1>. QED BY <1>1, SavesAlways, PTL

(* A layout that is not flagged as changed is on the device or on its way, *)
(* with the exceptions that the property names.                            *)
THEOREM UnsavedFlagged == Spec => []UnsavedIsFlagged
<1>1. ScreenInv /\ SavesInv => UnsavedIsFlagged
  <2>. SUFFICES ASSUME ScreenInv, SavesInv, open, hasLoaded, ~configHasChanged,
                       ~early, ~raced, Refused = {}
                PROVE  DeviceHolds(lists, Latest(q)) \/ ShowsLeftover(Latest(q))
    BY DEF UnsavedIsFlagged
  <2>1. Len(writes) \in Nat /\ q \in Requests(Len(writes))
    BY LenProperties DEF ScreenInv, TypeInv, ChannelTypes
  <2>2. Latest(q) \in ReportableValues(q)
    BY <2>1, ReportableFacts
  <2>. QED BY <2>2 DEF SavesInv, HeldInv
<1>. QED BY <1>1, SavesAlways, PTL

(* Leaving the screen writes the last edits: after it the device has, or   *)
(* will have, what the screen showed, as long as no link was lost, with    *)
(* the exceptions that the property names.                                 *)
THEOREM LeavingLosesNothing == Spec => LeavingSaves
<1>1. ASSUME ScreenInv, SavesInv, Close, hasLoaded, ~early, ~raced, losses = 0
      PROVE  (DeviceHolds(lists, Latest(q)) \/ Refused # {} \/ ShowsLeftover(Latest(q)))'
  <2>. DEFINE n == Len(writes)
  <2>0. TypeInv /\ n \in Nat /\ q \in Requests(n) /\ q.issued = n
    BY <1>1, LenProperties DEF ScreenInv, TypeInv, ChannelTypes
  <2>1. open /\ lists' = lists /\ original' = original /\ leftover' = leftover
    BY <1>1 DEF Close, viewModel, history
  <2>. SUFFICES ASSUME Refused' = {}
                PROVE  (DeviceHolds(lists, Latest(q)) \/ ShowsLeftover(Latest(q)))'
    OBVIOUS
  <2>2. CASE configHasChanged
    <3>1. WriteLayout(lists) /\ mapped /\ up
      BY <1>1, <2>1, <2>2 DEF Close, setGauges, SavesInv, MappedInv
    <3>2. PICK handed \in BOOLEAN : q' = SubmitWrite(q, handed) /\ (up => handed)
      BY <2>0, <2>1, <3>1, WriteLayoutFacts DEF TypeInv, ModelTypes
    <3>3. PICK accepted \in BOOLEAN :
            LET w == [layout |-> lists, session |-> session, accepted |-> accepted]
            IN  w \in WriteRecords /\ writes' = Append(writes, w)
      BY <2>0, <2>1, <3>1, WriteLayoutFacts DEF TypeInv, ModelTypes
    <3>. HIDE DEF n
    <3>4. /\ Len(writes') = n + 1 /\ DOMAIN writes' = 1 .. n + 1
          /\ writes'[n + 1].layout = lists
      BY <2>0, <3>3, AppendFacts, LenProperties DEF TypeInv, ChannelTypes, n
    <3>5. writes'[n + 1].accepted
      <4>1. n + 1 \in DOMAIN writes'
        BY <2>0, <3>4
      <4>. QED BY <4>1 DEF Refused
    <3>. PICK last \in Nat \ {0} : last = n + 1
      BY <2>0
    <3>6. Content(last)' = lists
      BY <3>4, <3>5, AcceptedContent
    <3>7. Latest(q)' = last
      <4>1. q'.writeOps = Append(q.writeOps, n + 1)
        <5>1. handed
          BY <3>1, <3>2
        <5>2. SubmitWrite(q, handed).writeOps = IF handed THEN Append(q.writeOps, n + 1)
                                                ELSE q.writeOps
          BY <2>0 DEF SubmitWrite, Requests
        <5>. QED BY <3>2, <5>1, <5>2
      <4>2. q.writeOps \in Seq(Nat) /\ n + 1 \in Nat
        BY <2>0, WritesType
      <4>3. /\ Len(q.writeOps) \in Nat /\ Len(q'.writeOps) = Len(q.writeOps) + 1
            /\ q'.writeOps[Len(q.writeOps) + 1] = n + 1
        BY <4>1, <4>2, AppendFacts
      <4>4. q'.writeOps # << >>
        BY <4>3, EmptyQueue
      <4>. QED BY <4>3, <4>4 DEF Latest
    <3>8. DeviceHolds(lists, last)'
      BY <2>1, <3>6 DEF DeviceHolds
    <3>. QED BY <3>7, <3>8 DEF DeviceHolds
  <2>3. CASE ~configHasChanged
    <3>1. UNCHANGED <<channel, writes>>
      BY <1>1, <2>3 DEF Close
    <3>2. Refused = {}
      BY <3>1 DEF Refused
    <3>3. Latest(q) \in ReportableValues(q)
      BY <2>0, ReportableFacts
    <3>4. DeviceHolds(lists, Latest(q)) \/ ShowsLeftover(Latest(q))
      BY <1>1, <2>1, <2>3, <3>2, <3>3 DEF SavesInv, HeldInv
    <3>. QED BY <2>1, <3>1, <3>4 DEF DeviceHolds, ShowsLeftover, Content, Latest, channel
  <2>. QED BY <2>2, <2>3
<1>2. ScreenInv /\ SavesInv
        => (Close /\ hasLoaded /\ ~early /\ ~raced /\ losses = 0
              => (DeviceHolds(lists, Latest(q)) \/ Refused # {}
                    \/ ShowsLeftover(Latest(q)))')
  BY <1>1
<1>. QED BY <1>2, SavesAlways, PTL DEF LeavingSaves

(* Readers have an answer coming while no link is lost and, if the printed *)
(* UUID is recognised, answers and closures of writes stay in step: a save *)
(* is never ended by the answer to another one.                            *)
THEOREM NobodyWaits == Spec => []NobodyWaitsInVain
<1>1. Init => NobodyWaitsInVain
  <2>. SUFFICES ASSUME Init PROVE NobodyWaitsInVain
    OBVIOUS
  <2>1. q = EmptyQueues /\ readers = {}
    BY SameOperations DEF Init, Channel!Init
  <2>. QED BY <2>1 DEF EmptyQueues, NobodyWaitsInVain
<1>2. ScreenInv /\ SavesInv /\ NobodyWaitsInVain /\ [Next]_vars => NobodyWaitsInVain'
  <2>1. ScreenInv /\ SavesInv /\ NobodyWaitsInVain /\ Next => NobodyWaitsInVain'
    BY NobodyWaitsStep DEF ScreenInv, SavesInv
  <2>2. NobodyWaitsInVain /\ UNCHANGED vars => NobodyWaitsInVain'
    BY DEF NobodyWaitsInVain, vars, channel, history
  <2>. QED BY <2>1, <2>2
<1>. QED BY <1>1, <1>2, SavesAlways, PTL DEF Spec
=============================================================================
