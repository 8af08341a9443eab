------------------------ MODULE RequestQueuesProofs ------------------------
(***************************************************************************)
(* What the operations of RequestQueues preserve, for any record and any   *)
(* bound: its types, the order of closures and answers, and the freshness  *)
(* of what readers get.                                                    *)
(***************************************************************************)
EXTENDS RequestQueues, SequenceTheorems, TLAPS

-----------------------------------------------------------------------------
(* Types. *)

(* Head and Tail of a sequence that is not empty. *)
LEMMA TailFacts ==
    ASSUME NEW S, NEW s \in Seq(S), s # << >>
    PROVE  /\ Len(s) \in Nat /\ Len(s) > 0
           /\ Tail(s) \in Seq(S) /\ Len(Tail(s)) = Len(s) - 1
           /\ \A i \in 1 .. Len(s) - 1 : Tail(s)[i] = s[i + 1]
           /\ Head(s) = s[1] /\ Head(s) \in S
OBVIOUS

(* Append to a sequence. *)
LEMMA AppendFacts ==
    ASSUME NEW S, NEW s \in Seq(S), NEW e \in S
    PROVE  /\ Len(s) \in Nat
           /\ Append(s, e) \in Seq(S) /\ Len(Append(s, e)) = Len(s) + 1
           /\ \A i \in 1 .. Len(s) : Append(s, e)[i] = s[i]
           /\ Append(s, e)[Len(s) + 1] = e
OBVIOUS

(* The empty record is well typed. *)
LEMMA EmptyQueuesType ==
    ASSUME NEW n \in Nat
    PROVE  EmptyQueues \in Requests(n)
BY DEF EmptyQueues, Requests, NoValue

(* Latest is the number of a write, or 0. *)
LEMMA LatestType ==
    ASSUME NEW n \in Nat, NEW r \in Requests(n)
    PROVE  Latest(r) \in 0 .. n
BY DEF Latest, Requests

(* Requesting a write keeps the record well typed, within the bound. *)
LEMMA SubmitWriteType ==
    ASSUME NEW n \in Nat, NEW r \in Requests(n), r.issued < n, NEW handed \in BOOLEAN
    PROVE  SubmitWrite(r, handed) \in Requests(n)
<1>1. /\ r.issued + 1 \in 0 .. n
      /\ r.issued + 1 \in 1 .. n
      /\ r.writeCallbacks \in Seq(1 .. n)
      /\ r.writeOps \in Seq(1 .. n)
  BY DEF Requests
<1>2. /\ Append(r.writeCallbacks, r.issued + 1) \in Seq(1 .. n)
      /\ Append(r.writeOps, r.issued + 1) \in Seq(1 .. n)
  BY <1>1
<1>. QED BY <1>1, <1>2 DEF SubmitWrite, Requests

(* Requesting a read keeps the record well typed. *)
LEMMA SubmitReadType ==
    ASSUME NEW n \in Nat, NEW r \in Requests(n), NEW handed \in BOOLEAN
    PROVE  SubmitRead(r, handed) \in Requests(n)
<1>. DEFINE closure == [asOf |-> Latest(r), alone |-> r.readOps = <<>> /\ handed]
<1>1. Latest(r) \in 0 .. n
  BY LatestType
<1>2. closure \in ReadClosures(n)
  BY <1>1 DEF ReadClosures
<1>3. r.readCallbacks \in Seq(ReadClosures(n)) /\ r.readOps \in Seq(0 .. n)
  BY DEF Requests
<1>4. Append(r.readCallbacks, closure) \in Seq(ReadClosures(n))
  BY <1>2, <1>3
<1>5. Append(r.readOps, Latest(r)) \in Seq(0 .. n)
  BY <1>1, <1>3
<1>6. SubmitRead(r, handed) =
        [r EXCEPT !.readCallbacks = Append(r.readCallbacks, closure),
                  !.readOps = IF handed THEN Append(r.readOps, Latest(r)) ELSE r.readOps]
  BY DEF SubmitRead
<1>. HIDE DEF closure
<1>. QED BY <1>3, <1>4, <1>5, <1>6 DEF Requests

(* So does the answer to a write. *)
LEMMA WriteAnsweredType ==
    ASSUME NEW n \in Nat, NEW r \in Requests(n), r.writeOps # <<>>,
           NEW recognised \in BOOLEAN
    PROVE  WriteAnswered(r, recognised) \in Requests(n)
<1>1. r.writeOps \in Seq(1 .. n) /\ r.writeCallbacks \in Seq(1 .. n)
  BY DEF Requests
<1>2. Tail(r.writeOps) \in Seq(1 .. n) /\ Head(r.writeOps) \in 0 .. n
  <2>1. Head(r.writeOps) \in 1 .. n /\ Tail(r.writeOps) \in Seq(1 .. n)
    BY <1>1, TailFacts
  <2>. QED BY <2>1
<1>3. ASSUME Len(r.writeCallbacks) > 0
      PROVE  Tail(r.writeCallbacks) \in Seq(1 .. n)
  <2>1. r.writeCallbacks # << >>
    BY <1>3
  <2>. QED BY <1>1, <2>1, TailFacts
<1>. QED BY <1>1, <1>2, <1>3 DEF WriteAnswered, Requests

(* handleUpdate with the number of a write keeps the record well typed. *)
LEMMA HandleUpdateType ==
    ASSUME NEW n \in Nat, NEW r \in Requests(n), NEW v \in 0 .. n
    PROVE  HandleUpdate(r, v) \in Requests(n)
<1>1. << >> \in Seq(ReadClosures(n))
  OBVIOUS
<1>. DEFINE none == << >>
<1>2. HandleUpdate(r, v) = [r EXCEPT !.value = v, !.readCallbacks = none]
  BY DEF HandleUpdate
<1>3. none \in Seq(ReadClosures(n))
  BY <1>1
<1>. HIDE DEF none
<1>. QED BY <1>2, <1>3 DEF Requests

(* So does a read that fails; its answer is the number of a write, or 0. *)
LEMMA ReadFailedType ==
    ASSUME NEW n \in Nat, NEW r \in Requests(n), r.readOps # <<>>
    PROVE  ReadFailed(r) \in Requests(n) /\ Head(r.readOps) \in 0 .. n
<1>1. r.readOps \in Seq(0 .. n)
  BY DEF Requests
<1>2. Tail(r.readOps) \in Seq(0 .. n) /\ Head(r.readOps) \in 0 .. n
  BY <1>1, TailFacts
<1>. QED BY <1>2 DEF ReadFailed, Requests

(* The answer to a read, with its value, keeps the record well typed. *)
LEMMA ReadAnsweredType ==
    ASSUME NEW n \in Nat, NEW r \in Requests(n), r.readOps # <<>>
    PROVE  ReadAnswered(r) \in Requests(n)
BY ReadFailedType, HandleUpdateType DEF ReadAnswered, ReadFailed

(* A value that may be reported is the number of a write, or 0. *)
LEMMA ReportableType ==
    ASSUME NEW n \in Nat, NEW r \in Requests(n), NEW v \in ReportableValues(r)
    PROVE  v \in 0 .. n
BY DEF ReportableValues, Requests, Range

(* The loss of the link keeps the record well typed. *)
LEMMA DropOpsType ==
    ASSUME NEW n \in Nat, NEW r \in Requests(n), NEW v \in 0 .. n
    PROVE  DropOps(r, v) \in Requests(n)
<1>. DEFINE rcs == r.readCallbacks
            late == [i \in DOMAIN rcs |-> [rcs[i] EXCEPT !.alone = FALSE]]
            none == << >>
<1>1. rcs \in Seq(ReadClosures(n))
  BY DEF Requests
<1>2. \A i \in 1 .. Len(rcs) : late[i] \in ReadClosures(n)
  <2>. SUFFICES ASSUME NEW i \in 1 .. Len(rcs)
                PROVE  late[i] \in ReadClosures(n)
    OBVIOUS
  <2>1. rcs[i] \in ReadClosures(n) /\ i \in DOMAIN rcs
    BY <1>1, ElementOfSeq, LenProperties
  <2>2. [rcs[i] EXCEPT !.alone = FALSE] \in ReadClosures(n)
    BY <2>1 DEF ReadClosures
  <2>3. late[i] = [rcs[i] EXCEPT !.alone = FALSE]
    BY <2>1
  <2>. QED BY <2>2, <2>3
<1>3. late \in Seq(ReadClosures(n))
  <2>1. Len(rcs) \in Nat /\ DOMAIN late = 1 .. Len(rcs)
    BY <1>1, LenProperties
  <2>2. late \in [1 .. Len(rcs) -> ReadClosures(n)]
    BY <1>2, <2>1
  <2>. HIDE DEF late
  <2>. QED BY <2>1, <2>2, SeqDef
<1>4. none \in Seq(1 .. n) /\ none \in Seq(0 .. n)
  OBVIOUS
<1>5. DropOps(r, v) = [r EXCEPT !.writeOps = none, !.readOps = none,
                                !.applied = v, !.readCallbacks = late]
  BY DEF DropOps
<1>. HIDE DEF late, none
<1>. QED BY <1>3, <1>4, <1>5 DEF Requests
-----------------------------------------------------------------------------
(* The order of closures and answers. *)

(* InOrder with one more closure, and with one more answer or not. *)
LEMMA OneMoreInOrder ==
    ASSUME NEW cb \in Seq(Nat), NEW ops \in Seq(Nat), NEW cb2, NEW ops2,
           NEW issued \in Nat, NEW applied \in Nat,
           InOrder(cb, ops, issued, applied),
           Len(cb2) = Len(cb) + 1, cb2[Len(cb) + 1] = issued + 1,
           \A i \in 1 .. Len(cb) : cb2[i] = cb[i],
           \/ ops2 = ops
           \/ /\ Len(ops2) = Len(ops) + 1 /\ ops2[Len(ops) + 1] = issued + 1
              /\ \A i \in 1 .. Len(ops) : ops2[i] = ops[i]
    PROVE  InOrder(cb2, ops2, issued + 1, applied)
<1>. DEFINE m  == Len(cb)
            k  == Len(ops)
            m2 == Len(cb2)
            k2 == Len(ops2)
<1>1. m \in Nat /\ k \in Nat /\ m2 = m + 1 /\ (k2 = k \/ k2 = k + 1)
  BY LenProperties
<1>2. /\ k <= m
      /\ \A i \in 1 .. m : cb[i] = issued - m + i
      /\ \A i \in 1 .. k : cb[i] <= ops[i] /\ ops[i] <= issued
      /\ 0 <= issued - m /\ issued - m <= applied /\ applied <= issued
  BY DEF InOrder
<1>3. /\ \A i \in 1 .. m : cb2[i] = cb[i]
      /\ cb2[m + 1] = issued + 1
  OBVIOUS
<1>4. /\ \A i \in 1 .. k : ops2[i] = ops[i]
      /\ k2 = k + 1 => ops2[k + 1] = issued + 1
  BY <1>1
<1>5. \A i \in 1 .. k : ops[i] \in Nat
  BY ElementOfSeq
<1>. HIDE DEF m, k, m2, k2
<1>6. ASSUME NEW i \in 1 .. m2 PROVE cb2[i] = (issued + 1) - m2 + i
  <2>1. CASE i \in 1 .. m
    BY <1>1, <1>2, <1>3, <2>1
  <2>2. CASE i = m + 1
    BY <1>1, <1>3, <2>2
  <2>. QED BY <1>1, <2>1, <2>2
<1>7. ASSUME NEW i \in 1 .. k2 PROVE cb2[i] <= ops2[i] /\ ops2[i] <= issued + 1
  <2>1. CASE i \in 1 .. k
    <3>1. i \in 1 .. m
      BY <1>1, <1>2, <2>1
    <3>2. cb2[i] = cb[i] /\ ops2[i] = ops[i]
      BY <1>3, <1>4, <2>1, <3>1
    <3>3. cb[i] <= ops[i] /\ ops[i] <= issued /\ ops[i] \in Nat
      BY <1>2, <1>5, <2>1
    <3>4. ops[i] <= issued + 1
      BY <3>3
    <3>. QED BY <3>2, <3>3, <3>4
  <2>2. CASE i = k + 1 /\ k2 = k + 1
    <3>1. ops2[i] = issued + 1 /\ i \in 1 .. m2
      BY <1>1, <1>2, <1>4, <2>2
    <3>2. cb2[i] = (issued + 1) - m2 + i
      BY <1>6, <3>1
    <3>. QED BY <1>1, <3>1, <3>2
  <2>. QED BY <1>1, <2>1, <2>2
<1>8. /\ k2 <= m2 /\ 0 <= (issued + 1) - m2
      /\ (issued + 1) - m2 <= applied /\ applied <= issued + 1
  BY <1>1, <1>2
<1>. QED BY <1>6, <1>7, <1>8 DEF InOrder, m2, k2

(* InOrder with the oldest answer gone, and the oldest closure too or not. *)
LEMMA OneLessInOrder ==
    ASSUME NEW cb \in Seq(Nat), NEW ops \in Seq(Nat), NEW cb2, NEW ops2,
           NEW issued \in Nat, NEW applied \in Nat,
           InOrder(cb, ops, issued, applied),
           Len(ops) > 0, Len(ops2) = Len(ops) - 1,
           \A i \in 1 .. Len(ops) - 1 : ops2[i] = ops[i + 1],
           \/ cb2 = cb
           \/ /\ Len(cb2) = Len(cb) - 1
              /\ \A i \in 1 .. Len(cb) - 1 : cb2[i] = cb[i + 1]
    PROVE  InOrder(cb2, ops2, issued, ops[1])
<1>. DEFINE m  == Len(cb)
            k  == Len(ops)
            m2 == Len(cb2)
            k2 == Len(ops2)
<1>1. m \in Nat /\ k \in Nat /\ k > 0 /\ k2 = k - 1 /\ (m2 = m \/ m2 = m - 1)
  BY LenProperties
<1>2. /\ k <= m
      /\ \A i \in 1 .. m : cb[i] = issued - m + i
      /\ \A i \in 1 .. k : cb[i] <= ops[i] /\ ops[i] <= issued
      /\ 0 <= issued - m
  BY DEF InOrder
<1>3. \A i \in 1 .. k - 1 : ops2[i] = ops[i + 1]
  OBVIOUS
<1>4. \/ m2 = m /\ \A i \in 1 .. m : cb2[i] = cb[i]
      \/ m2 = m - 1 /\ \A i \in 1 .. m - 1 : cb2[i] = cb[i + 1]
  OBVIOUS
<1>5. \A i \in 1 .. k : ops[i] \in Nat
  BY ElementOfSeq
<1>. HIDE DEF m, k, m2, k2
<1>6. ASSUME NEW i \in 1 .. m2 PROVE cb2[i] = issued - m2 + i
  <2>1. CASE m2 = m /\ \A j \in 1 .. m : cb2[j] = cb[j]
    BY <1>1, <1>2, <2>1
  <2>2. CASE m2 = m - 1 /\ \A j \in 1 .. m - 1 : cb2[j] = cb[j + 1]
    <3>1. i + 1 \in 1 .. m /\ cb2[i] = cb[i + 1]
      BY <1>1, <2>2
    <3>2. cb[i + 1] = issued - m + (i + 1)
      BY <1>2, <3>1
    <3>. QED BY <1>1, <2>2, <3>1, <3>2
  <2>. QED BY <1>4, <2>1, <2>2
<1>7. ASSUME NEW i \in 1 .. k2 PROVE cb2[i] <= ops2[i] /\ ops2[i] <= issued
  <2>1. i \in 1 .. k - 1 /\ i + 1 \in 1 .. k /\ i + 1 \in 1 .. m /\ i \in 1 .. m2
    BY <1>1, <1>2
  <2>2. ops2[i] = ops[i + 1] /\ cb[i + 1] <= ops[i + 1] /\ ops[i + 1] <= issued
    BY <1>2, <1>3, <2>1
  <2>3. cb[i + 1] = issued - m + (i + 1) /\ cb2[i] = issued - m2 + i
    BY <1>2, <1>6, <2>1
  <2>. DEFINE x == cb[i + 1]  y == ops[i + 1]  z == cb2[i]
  <2>4. /\ x = issued - m + (i + 1) /\ z = issued - m2 + i
        /\ x <= y /\ y \in Nat /\ i \in Int
    BY <1>5, <2>1, <2>2, <2>3
  <2>. HIDE DEF x, y, z
  <2>5. z <= y
    BY <1>1, <2>4
  <2>6. cb2[i] <= ops[i + 1]
    BY <2>5 DEF y, z
  <2>. QED BY <2>2, <2>6
<1>8. cb[1] = issued - m + 1 /\ cb[1] <= ops[1] /\ ops[1] <= issued /\ ops[1] \in Nat
  BY <1>1, <1>2, <1>5
<1>9. /\ k2 <= m2 /\ 0 <= issued - m2
      /\ issued - m2 <= ops[1] /\ ops[1] <= issued
  BY <1>1, <1>2, <1>8
<1>. QED BY <1>6, <1>7, <1>9 DEF InOrder, m2, k2

(* InOrder with no answer to come, whatever was processed. *)
LEMMA NoAnswerInOrder ==
    ASSUME NEW cb \in Seq(Nat), NEW ops \in Seq(Nat),
           NEW issued \in Nat, NEW applied \in Nat,
           InOrder(cb, ops, issued, applied),
           NEW v \in Nat, v = applied \/ \E i \in 1 .. Len(ops) : v = ops[i]
    PROVE  InOrder(cb, << >>, issued, v)
<1>1. Len(cb) \in Nat /\ Len(ops) \in Nat /\ Len(<< >>) = 0
  OBVIOUS
<1>2. /\ Len(ops) <= Len(cb)
      /\ \A i \in 1 .. Len(cb) : cb[i] = issued - Len(cb) + i
      /\ \A i \in 1 .. Len(ops) : cb[i] <= ops[i] /\ ops[i] <= issued
      /\ 0 <= issued - Len(cb)
      /\ issued - Len(cb) <= applied /\ applied <= issued
  BY DEF InOrder
<1>3. issued - Len(cb) <= v /\ v <= issued
  <2>1. CASE v = applied
    BY <1>2, <2>1
  <2>2. ASSUME NEW i \in 1 .. Len(ops), v = ops[i]
        PROVE  issued - Len(cb) <= v /\ v <= issued
    <3>1. i \in 1 .. Len(cb) /\ cb[i] <= v /\ v <= issued
      BY <1>1, <1>2, <2>2
    <3>2. cb[i] = issued - Len(cb) + i
      BY <1>2, <3>1
    <3>. QED BY <1>1, <3>1, <3>2
  <2>. QED BY <2>1, <2>2
<1>. QED BY <1>1, <1>2, <1>3 DEF InOrder

(* The sequences of a record are sequences of numbers. *)
LEMMA WritesType ==
    ASSUME NEW n \in Nat, NEW r \in Requests(n)
    PROVE  /\ r.writeCallbacks \in Seq(Nat) /\ r.writeOps \in Seq(Nat)
           /\ r.issued \in Nat /\ r.applied \in Nat
<1>1. 1 .. n \subseteq Nat
  OBVIOUS
<1>2. /\ r.writeCallbacks \in Seq(1 .. n) /\ r.writeOps \in Seq(1 .. n)
      /\ r.issued \in 0 .. n /\ r.applied \in 0 .. n
  BY DEF Requests
<1>. QED BY <1>1, <1>2, SeqMonotonic

(* Requesting a write keeps closures and answers in order. *)
LEMMA SubmitWriteOrder ==
    ASSUME NEW n \in Nat, NEW r \in Requests(n), NEW handed \in BOOLEAN,
           ClosuresInOrder(r)
    PROVE  ClosuresInOrder(SubmitWrite(r, handed))
<1>. DEFINE id   == r.issued + 1
            cb   == r.writeCallbacks
            ops  == r.writeOps
            cb2  == Append(cb, id)
            ops2 == IF handed THEN Append(ops, id) ELSE ops
            s    == SubmitWrite(r, handed)
<1>1. /\ s.issued = id /\ s.applied = r.applied
      /\ s.writeCallbacks = cb2 /\ s.writeOps = ops2
  BY DEF SubmitWrite, Requests
<1>2. /\ cb \in Seq(Nat) /\ ops \in Seq(Nat) /\ id \in Nat
      /\ r.issued \in Nat /\ r.applied \in Nat
  BY WritesType
<1>3. /\ cb2 \in Seq(Nat) /\ Len(cb2) = Len(cb) + 1 /\ cb2[Len(cb) + 1] = id
      /\ \A i \in 1 .. Len(cb) : cb2[i] = cb[i]
  BY <1>2, AppendFacts
<1>4. /\ ops2 \in Seq(Nat)
      /\ \/ ops2 = ops
         \/ /\ Len(ops2) = Len(ops) + 1 /\ ops2[Len(ops) + 1] = id
            /\ \A i \in 1 .. Len(ops) : ops2[i] = ops[i]
  BY <1>2, AppendFacts
<1>5. InOrder(cb, ops, r.issued, r.applied)
  BY DEF ClosuresInOrder
<1>. HIDE DEF s, cb, ops, cb2, ops2
<1>6. InOrder(cb2, ops2, id, r.applied)
  BY <1>2, <1>3, <1>4, <1>5, OneMoreInOrder
<1>7. ClosuresInOrder(s)
  BY <1>1, <1>6 DEF ClosuresInOrder
<1>. QED BY <1>7 DEF s

(* The oldest answer to come is that of a write at least as new as the     *)
(* oldest closure, and running that closure keeps it so.                   *)
LEMMA WriteAnsweredOrder ==
    ASSUME NEW n \in Nat, NEW r \in Requests(n), r.writeOps # <<>>,
           NEW recognised \in BOOLEAN, ClosuresInOrder(r)
    PROVE  ClosuresInOrder(WriteAnswered(r, recognised))
<1>. DEFINE cb   == r.writeCallbacks
            ops  == r.writeOps
            cb2  == IF recognised /\ Len(cb) > 0 THEN Tail(cb) ELSE cb
            ops2 == Tail(ops)
            s    == WriteAnswered(r, recognised)
<1>1. /\ s.issued = r.issued /\ s.applied = Head(ops)
      /\ s.writeCallbacks = cb2 /\ s.writeOps = ops2
  BY DEF WriteAnswered, Requests
<1>2. /\ cb \in Seq(Nat) /\ ops \in Seq(Nat) /\ ops # << >>
      /\ r.issued \in Nat /\ r.applied \in Nat
  BY WritesType
<1>3. /\ ops2 \in Seq(Nat) /\ Len(ops) > 0 /\ Len(ops2) = Len(ops) - 1
      /\ \A i \in 1 .. Len(ops) - 1 : ops2[i] = ops[i + 1]
      /\ Head(ops) = ops[1]
  BY <1>2, TailFacts
<1>4. /\ cb2 \in Seq(Nat)
      /\ \/ cb2 = cb
         \/ /\ Len(cb2) = Len(cb) - 1
            /\ \A i \in 1 .. Len(cb) - 1 : cb2[i] = cb[i + 1]
  <2>1. CASE recognised /\ Len(cb) > 0
    <3>1. cb # << >> /\ cb2 = Tail(cb)
      BY <2>1
    <3>. QED BY <1>2, <3>1, TailFacts
  <2>2. CASE ~(recognised /\ Len(cb) > 0)
    BY <1>2, <2>2
  <2>. QED BY <2>1, <2>2
<1>5. InOrder(cb, ops, r.issued, r.applied)
  BY DEF ClosuresInOrder
<1>. HIDE DEF s, cb, ops, cb2, ops2
<1>6. InOrder(cb2, ops2, r.issued, ops[1])
  BY <1>2, <1>3, <1>4, <1>5, OneLessInOrder
<1>7. ClosuresInOrder(s)
  BY <1>1, <1>3, <1>6 DEF ClosuresInOrder
<1>. QED BY <1>7 DEF s

(* The loss of the link keeps order, whatever the device had processed. *)
LEMMA DropOpsOrder ==
    ASSUME NEW n \in Nat, NEW r \in Requests(n), NEW v \in ReportableValues(r),
           ClosuresInOrder(r)
    PROVE  ClosuresInOrder(DropOps(r, v))
<1>. DEFINE cb  == r.writeCallbacks
            ops == r.writeOps
            s   == DropOps(r, v)
<1>1. /\ s.issued = r.issued /\ s.applied = v
      /\ s.writeOps = << >> /\ s.writeCallbacks = cb
  BY DEF DropOps, Requests
<1>2. /\ cb \in Seq(Nat) /\ ops \in Seq(Nat)
      /\ r.issued \in Nat /\ r.applied \in Nat
  BY WritesType
<1>3. v \in Nat
  BY ReportableType
<1>4. v = r.applied \/ \E i \in 1 .. Len(ops) : v = ops[i]
  BY <1>2, LenProperties DEF ReportableValues, Range
<1>5. InOrder(cb, ops, r.issued, r.applied)
  BY DEF ClosuresInOrder
<1>. HIDE DEF s, cb, ops
<1>6. InOrder(cb, << >>, r.issued, v)
  BY <1>2, <1>3, <1>4, <1>5, NoAnswerInOrder
<1>7. ClosuresInOrder(s)
  BY <1>1, <1>6 DEF ClosuresInOrder
<1>. QED BY <1>7 DEF s

(* An operation that touches no write keeps order. *)
LEMMA SameWritesOrder ==
    ASSUME NEW r, NEW s, ClosuresInOrder(r),
           s.writeCallbacks = r.writeCallbacks, s.writeOps = r.writeOps,
           s.issued = r.issued, s.applied = r.applied
    PROVE  ClosuresInOrder(s)
BY DEF ClosuresInOrder

(* The reads, and a discovery, touch no write. *)
LEMMA ReadsTouchNoWrite ==
    ASSUME NEW n, NEW r \in Requests(n), NEW s,
           \/ \E handed \in BOOLEAN : s = SubmitRead(r, handed)
           \/ s = ReadAnswered(r) \/ s = ReadFailed(r)
           \/ \E v : s = Notified(r, v)
           \/ s = [r EXCEPT !.value = NoValue]
    PROVE  /\ s.writeCallbacks = r.writeCallbacks /\ s.writeOps = r.writeOps
           /\ s.issued = r.issued /\ s.applied = r.applied
BY DEF SubmitRead, ReadAnswered, ReadFailed, Notified, HandleUpdate, Requests

-----------------------------------------------------------------------------
(* The answers to come. *)

(* Reads are sequences of closures and of numbers. *)
LEMMA ReadsType ==
    ASSUME NEW n \in Nat, NEW r \in Requests(n)
    PROVE  /\ r.readOps \in Seq(Nat) /\ Len(r.readOps) \in Nat
           /\ r.readCallbacks \in Seq(ReadClosures(n)) /\ Len(r.readCallbacks) \in Nat
           /\ \A i \in 1 .. Len(r.readCallbacks) :
                 r.readCallbacks[i].asOf \in Nat /\ r.readCallbacks[i].alone \in BOOLEAN
<1>1. 0 .. n \subseteq Nat
  OBVIOUS
<1>2. r.readOps \in Seq(0 .. n) /\ r.readCallbacks \in Seq(ReadClosures(n))
  BY DEF Requests
<1>3. \A i \in 1 .. Len(r.readCallbacks) : r.readCallbacks[i] \in ReadClosures(n)
  BY <1>2, ElementOfSeq
<1>4. \A i \in 1 .. Len(r.readCallbacks) :
          r.readCallbacks[i].asOf \in Nat /\ r.readCallbacks[i].alone \in BOOLEAN
  BY <1>3 DEF ReadClosures
<1>5. r.readOps \in Seq(Nat)
  BY <1>1, <1>2, SeqMonotonic
<1>. QED BY <1>2, <1>4, <1>5, LenProperties

(* The device has no further to go than the last write requested.          *)
LEMMA LatestBound ==
    ASSUME NEW n \in Nat, NEW r \in Requests(n), ClosuresInOrder(r)
    PROVE  Latest(r) \in Nat /\ Latest(r) <= r.issued
<1>1. /\ r.writeOps \in Seq(Nat) /\ Len(r.writeOps) \in Nat
      /\ r.applied \in Nat /\ r.issued \in Nat
  BY WritesType, LenProperties
<1>2. /\ r.applied <= r.issued
      /\ \A i \in 1 .. Len(r.writeOps) : r.writeOps[i] <= r.issued
  BY <1>1 DEF ClosuresInOrder, InOrder
<1>3. CASE r.writeOps = << >>
  BY <1>1, <1>2, <1>3 DEF Latest
<1>4. CASE r.writeOps # << >>
  <2>1. Len(r.writeOps) \in 1 .. Len(r.writeOps)
    BY <1>1, <1>4, EmptySeq
  <2>2. r.writeOps[Len(r.writeOps)] \in Nat
    BY <1>1, <2>1, ElementOfSeq
  <2>. QED BY <1>2, <1>4, <2>1, <2>2 DEF Latest
<1>. QED BY <1>3, <1>4

(* Closures that were alone stay fresh when no read changes and the last   *)
(* write to be processed is no older.                                      *)
LEMMA SameReadsFresh ==
    ASSUME NEW n \in Nat, NEW r \in Requests(n), NEW s, AloneIsFresh(r),
           s.readCallbacks = r.readCallbacks, s.readOps = r.readOps,
           Latest(r) \in Int, Latest(s) \in Int, Latest(r) <= Latest(s)
    PROVE  AloneIsFresh(s)
<1>1. \A i \in 1 .. Len(r.readCallbacks) : r.readCallbacks[i].asOf \in Nat
  BY ReadsType
<1>. DEFINE old == Latest(r)
            new == Latest(s)
<1>2. old \in Int /\ new \in Int /\ old <= new
  OBVIOUS
<1>3. AloneIsFresh(s) =
        \A i \in 1 .. Len(r.readCallbacks) : r.readCallbacks[i].alone =>
            /\ r.readCallbacks[i].asOf <= new
            /\ \A j \in 1 .. Len(r.readOps) : r.readCallbacks[i].asOf <= r.readOps[j]
  BY DEF AloneIsFresh
<1>4. \A i \in 1 .. Len(r.readCallbacks) : r.readCallbacks[i].alone =>
            /\ r.readCallbacks[i].asOf <= old
            /\ \A j \in 1 .. Len(r.readOps) : r.readCallbacks[i].asOf <= r.readOps[j]
  BY DEF AloneIsFresh
<1>. HIDE DEF old, new
<1>5. \A i \in 1 .. Len(r.readCallbacks) : r.readCallbacks[i].asOf <= old
                                              => r.readCallbacks[i].asOf <= new
  BY <1>1, <1>2
<1>. QED BY <1>3, <1>4, <1>5

(* A write requested is the last to be answered. *)
LEMMA SubmitWriteAnswers ==
    ASSUME NEW n \in Nat, NEW r \in Requests(n), NEW handed \in BOOLEAN,
           ClosuresInOrder(r), AnswersAscend(r), AloneIsFresh(r)
    PROVE  /\ AnswersAscend(SubmitWrite(r, handed))
           /\ AloneIsFresh(SubmitWrite(r, handed))
<1>. DEFINE id   == r.issued + 1
            ops  == r.writeOps
            ops2 == IF handed THEN Append(ops, id) ELSE ops
            s    == SubmitWrite(r, handed)
<1>1. /\ s.applied = r.applied /\ s.writeOps = ops2
      /\ s.readOps = r.readOps /\ s.readCallbacks = r.readCallbacks
  BY DEF SubmitWrite, Requests
<1>2. /\ ops \in Seq(Nat) /\ Len(ops) \in Nat /\ id \in Nat
      /\ r.issued \in Nat /\ r.applied \in Nat
  BY WritesType, LenProperties
<1>3. /\ r.applied < id /\ \A i \in 1 .. Len(ops) : ops[i] < id /\ ops[i] \in Nat
  <2>1. r.applied <= r.issued /\ \A i \in 1 .. Len(ops) : ops[i] <= r.issued
    BY <1>2 DEF ClosuresInOrder, InOrder
  <2>. QED BY <1>2, <2>1, ElementOfSeq
<1>4. \A i \in 1 .. Len(ops) : r.applied < ops[i] /\ \A j \in 1 .. i - 1 : ops[j] < ops[i]
  BY DEF AnswersAscend
<1>5. Latest(r) \in Nat /\ Latest(r) < id
  <2>. DEFINE last == Latest(r)
  <2>1. last \in Nat /\ last <= r.issued
    BY LatestBound
  <2>. HIDE DEF last
  <2>2. last < id
    BY <1>2, <2>1
  <2>. QED BY <2>1, <2>2 DEF last
<1>6. CASE ~handed
  <2>1. ops2 = ops /\ Latest(s) = Latest(r)
    BY <1>1, <1>6 DEF Latest
  <2>2. Latest(r) <= Latest(s) /\ Latest(s) \in Int
    BY <1>5, <2>1
  <2>. HIDE DEF s, ops2
  <2>3. AnswersAscend(s)
    BY <1>1, <1>4, <2>1 DEF AnswersAscend
  <2>4. AloneIsFresh(s)
    BY <1>1, <1>5, <2>2, SameReadsFresh
  <2>. QED BY <2>3, <2>4 DEF s
<1>7. CASE handed
  <2>1. /\ ops2 = Append(ops, id) /\ Len(ops2) = Len(ops) + 1 /\ ops2[Len(ops) + 1] = id
        /\ ops2 # << >>
        /\ \A i \in 1 .. Len(ops) : ops2[i] = ops[i]
    BY <1>2, <1>7, AppendFacts
  <2>. HIDE DEF id, ops, ops2, s
  <2>2. Latest(s) = id
    BY <1>1, <2>1 DEF Latest
  <2>3. Latest(r) <= Latest(s) /\ Latest(s) \in Int
    BY <1>2, <1>5, <2>2
  <2>4. AloneIsFresh(s)
    BY <1>1, <1>5, <2>3, SameReadsFresh
  <2>5. \A i \in 1 .. Len(ops2) :
            r.applied < ops2[i] /\ \A j \in 1 .. i - 1 : ops2[j] < ops2[i]
    <3>. SUFFICES ASSUME NEW i \in 1 .. Len(ops2)
                  PROVE  r.applied < ops2[i] /\ \A j \in 1 .. i - 1 : ops2[j] < ops2[i]
      OBVIOUS
    <3>1. CASE i \in 1 .. Len(ops)
      <4>1. \A j \in 1 .. i - 1 : j \in 1 .. Len(ops)
        BY <1>2, <3>1
      <4>. QED BY <1>4, <2>1, <3>1, <4>1
    <3>2. CASE i = Len(ops) + 1
      <4>1. \A j \in 1 .. i - 1 : j \in 1 .. Len(ops)
        BY <1>2, <3>2
      <4>. QED BY <1>3, <2>1, <3>2, <4>1
    <3>. QED BY <1>2, <2>1, <3>1, <3>2
  <2>6. AnswersAscend(s)
    BY <1>1, <2>5 DEF AnswersAscend
  <2>. QED BY <2>4, <2>6 DEF s
<1>. QED BY <1>6, <1>7

(* The answer to the oldest write leaves younger ones. *)
LEMMA WriteAnsweredAnswers ==
    ASSUME NEW n \in Nat, NEW r \in Requests(n), r.writeOps # <<>>,
           NEW recognised \in BOOLEAN,
           ClosuresInOrder(r), AnswersAscend(r), AloneIsFresh(r)
    PROVE  /\ AnswersAscend(WriteAnswered(r, recognised))
           /\ AloneIsFresh(WriteAnswered(r, recognised))
<1>. DEFINE ops  == r.writeOps
            ops2 == Tail(ops)
            s    == WriteAnswered(r, recognised)
<1>1. /\ s.applied = Head(ops) /\ s.writeOps = ops2
      /\ s.readOps = r.readOps /\ s.readCallbacks = r.readCallbacks
  BY DEF WriteAnswered, Requests
<1>2. /\ ops \in Seq(Nat) /\ Len(ops) \in Nat /\ Len(ops) > 0
      /\ ops2 \in Seq(Nat) /\ Len(ops2) = Len(ops) - 1 /\ Head(ops) = ops[1]
      /\ \A i \in 1 .. Len(ops) - 1 : ops2[i] = ops[i + 1]
  BY WritesType, TailFacts
<1>3. \A i \in 1 .. Len(ops) : \A j \in 1 .. i - 1 : ops[j] < ops[i]
  BY DEF AnswersAscend
<1>4. Latest(r) = ops[Len(ops)] /\ Latest(r) \in Nat
  BY LatestBound DEF Latest
<1>. HIDE DEF ops, ops2, s
<1>5. Latest(s) = ops[Len(ops)]
  <2>1. CASE Len(ops) = 1
    <3>1. ops2 = << >>
      BY <1>2, <2>1, EmptySeq
    <3>. QED BY <1>1, <1>2, <2>1, <3>1 DEF Latest
  <2>2. CASE Len(ops) > 1
    <3>1. /\ ops2 # << >> /\ Len(ops2) = Len(ops) - 1
          /\ Len(ops) - 1 \in 1 .. Len(ops) - 1 /\ (Len(ops) - 1) + 1 = Len(ops)
      BY <1>2, <2>2
    <3>2. ops2[Len(ops2)] = ops[Len(ops)]
      BY <1>2, <3>1
    <3>. QED BY <1>1, <3>1, <3>2 DEF Latest
  <2>. QED BY <1>2, <2>1, <2>2
<1>6. AloneIsFresh(s)
  <2>1. Latest(s) \in Nat /\ Latest(r) = Latest(s)
    BY <1>4, <1>5
  <2>2. Latest(r) <= Latest(s) /\ Latest(r) \in Int /\ Latest(s) \in Int
    BY <2>1
  <2>. QED BY <1>1, <2>2, SameReadsFresh
<1>7. ASSUME NEW i \in 1 .. Len(ops2)
      PROVE  ops[1] < ops2[i] /\ \A j \in 1 .. i - 1 : ops2[j] < ops2[i]
  <2>1. /\ i \in 1 .. Len(ops) - 1 /\ i + 1 \in 1 .. Len(ops) /\ 1 \in 1 .. (i + 1) - 1
        /\ \A j \in 1 .. i - 1 : j \in 1 .. Len(ops) - 1 /\ j + 1 \in 1 .. (i + 1) - 1
    BY <1>2
  <2>2. ops2[i] = ops[i + 1]
    BY <1>2, <2>1
  <2>3. \A j \in 1 .. (i + 1) - 1 : ops[j] < ops[i + 1]
    BY <1>3, <2>1
  <2>4. ASSUME NEW j \in 1 .. i - 1 PROVE ops2[j] < ops2[i]
    <3>1. ops2[j] = ops[j + 1] /\ ops[j + 1] < ops[i + 1]
      BY <1>2, <2>1, <2>3
    <3>. QED BY <2>2, <3>1
  <2>. QED BY <2>1, <2>2, <2>3, <2>4
<1>8. AnswersAscend(s)
  BY <1>1, <1>2, <1>7 DEF AnswersAscend
<1>. QED BY <1>6, <1>8 DEF s

(* A read that CoreBluetooth takes will reflect the last write there is;   *)
(* nothing is promised to a closure whose own read was dropped.            *)
LEMMA SubmitReadAnswers ==
    ASSUME NEW n \in Nat, NEW r \in Requests(n), NEW handed \in BOOLEAN,
           ClosuresInOrder(r), AnswersAscend(r), AloneIsFresh(r)
    PROVE  /\ AnswersAscend(SubmitRead(r, handed))
           /\ AloneIsFresh(SubmitRead(r, handed))
<1>. DEFINE last    == Latest(r)
            cb      == r.readCallbacks
            ops     == r.readOps
            closure == [asOf |-> last, alone |-> ops = <<>> /\ handed]
            cb2     == Append(cb, closure)
            ops2    == IF handed THEN Append(ops, last) ELSE ops
            s       == SubmitRead(r, handed)
<1>1. /\ s.applied = r.applied /\ s.writeOps = r.writeOps
      /\ s.readCallbacks = cb2 /\ s.readOps = ops2
  BY DEF SubmitRead, Requests
<1>2. Latest(s) = last
  BY <1>1 DEF Latest
<1>3. /\ last \in Nat /\ ops \in Seq(Nat) /\ Len(ops) \in Nat
      /\ cb \in Seq(ReadClosures(n)) /\ Len(cb) \in Nat
      /\ \A i \in 1 .. Len(cb) : cb[i].asOf \in Nat
  BY LatestBound, ReadsType
<1>4. closure \in ReadClosures(n)
  BY LatestType DEF ReadClosures
<1>5. closure.asOf = last /\ (closure.alone <=> ops = <<>> /\ handed)
  OBVIOUS
<1>6. \A i \in 1 .. Len(cb) : cb[i].alone =>
          cb[i].asOf <= last /\ \A j \in 1 .. Len(ops) : cb[i].asOf <= ops[j]
  BY DEF AloneIsFresh
<1>. HIDE DEF s, last, cb, ops, closure
<1>7. /\ Len(cb2) = Len(cb) + 1 /\ cb2[Len(cb) + 1] = closure
      /\ \A i \in 1 .. Len(cb) : cb2[i] = cb[i]
  BY <1>3, <1>4, AppendFacts
<1>8. \A j \in 1 .. Len(ops2) : ops2[j] = last \/ (j \in 1 .. Len(ops) /\ ops2[j] = ops[j])
  <2>1. CASE handed
    <3>1. /\ ops2 = Append(ops, last) /\ Len(ops2) = Len(ops) + 1 /\ ops2[Len(ops) + 1] = last
          /\ \A i \in 1 .. Len(ops) : ops2[i] = ops[i]
      BY <1>3, <2>1, AppendFacts
    <3>. HIDE DEF ops2
    <3>. QED BY <1>3, <3>1
  <2>2. CASE ~handed
    BY <2>2
  <2>. QED BY <2>1, <2>2
<1>. HIDE DEF cb2, ops2
<1>9. ASSUME NEW i \in 1 .. Len(cb2), cb2[i].alone
      PROVE  cb2[i].asOf <= last /\ \A j \in 1 .. Len(ops2) : cb2[i].asOf <= ops2[j]
  <2>1. CASE i \in 1 .. Len(cb)
    <3>1. /\ cb[i].alone /\ cb[i].asOf <= last /\ cb2[i].asOf = cb[i].asOf
          /\ \A j \in 1 .. Len(ops) : cb[i].asOf <= ops[j]
      BY <1>6, <1>7, <1>9, <2>1
    <3>2. ASSUME NEW j \in 1 .. Len(ops2) PROVE cb2[i].asOf <= ops2[j]
      BY <1>8, <3>1
    <3>. QED BY <3>1, <3>2
  <2>2. CASE i = Len(cb) + 1
    <3>1. cb2[i].asOf = last /\ ops = << >>
      BY <1>5, <1>7, <1>9, <2>2
    <3>2. ASSUME NEW j \in 1 .. Len(ops2) PROVE ops2[j] = last
      <4>1. Len(ops) = 0
        BY <3>1
      <4>. QED BY <1>8, <4>1
    <3>3. last <= last
      BY <1>3
    <3>. QED BY <3>1, <3>2, <3>3
  <2>. QED BY <1>3, <1>7, <2>1, <2>2
<1>10. AloneIsFresh(s)
  BY <1>1, <1>2, <1>9 DEF AloneIsFresh
<1>11. AnswersAscend(s)
  BY <1>1 DEF AnswersAscend
<1>. QED BY <1>10, <1>11 DEF s

(* A read that fails leaves the other reads. *)
LEMMA ReadFailedAnswers ==
    ASSUME NEW n \in Nat, NEW r \in Requests(n), r.readOps # << >>,
           AnswersAscend(r), AloneIsFresh(r)
    PROVE  AnswersAscend(ReadFailed(r)) /\ AloneIsFresh(ReadFailed(r))
<1>. DEFINE ops == r.readOps
            s   == ReadFailed(r)
<1>1. /\ s.applied = r.applied /\ s.writeOps = r.writeOps
      /\ s.readCallbacks = r.readCallbacks /\ s.readOps = Tail(ops)
  BY DEF ReadFailed, Requests
<1>2. /\ Len(ops) \in Nat /\ Len(Tail(ops)) = Len(ops) - 1
      /\ \A i \in 1 .. Len(ops) - 1 : Tail(ops)[i] = ops[i + 1]
  BY ReadsType, TailFacts
<1>3. Latest(s) = Latest(r)
  BY <1>1 DEF Latest
<1>. HIDE DEF s
<1>4. AnswersAscend(s)
  BY <1>1 DEF AnswersAscend
<1>5. \A j \in 1 .. Len(Tail(ops)) : j + 1 \in 1 .. Len(ops) /\ Tail(ops)[j] = ops[j + 1]
  BY <1>2
<1>6. AloneIsFresh(s)
  BY <1>1, <1>3, <1>5 DEF AloneIsFresh
<1>. QED BY <1>4, <1>6 DEF s

(* handleUpdate leaves no read closure, and a lost link no answer and no   *)
(* closure that something is promised to; a discovery touches neither.     *)
LEMMA OtherAnswers ==
    ASSUME NEW n \in Nat, NEW r \in Requests(n), AnswersAscend(r), AloneIsFresh(r),
           NEW s,
           \/ s = ReadAnswered(r)
           \/ \E v : s = Notified(r, v) \/ s = DropOps(r, v)
           \/ s = [r EXCEPT !.value = NoValue]
    PROVE  AnswersAscend(s) /\ AloneIsFresh(s)
<1>1. CASE s = ReadAnswered(r) \/ \E v : s = Notified(r, v)
  <2>1. s.applied = r.applied /\ s.writeOps = r.writeOps /\ s.readCallbacks = << >>
    BY <1>1 DEF ReadAnswered, Notified, HandleUpdate, Requests
  <2>. QED BY <2>1 DEF AnswersAscend, AloneIsFresh
<1>2. ASSUME NEW v, s = DropOps(r, v) PROVE AnswersAscend(s) /\ AloneIsFresh(s)
  <2>. DEFINE cb   == r.readCallbacks
              late == [i \in DOMAIN cb |-> [cb[i] EXCEPT !.alone = FALSE]]
  <2>1. s.writeOps = << >> /\ s.readCallbacks = late
    BY <1>2 DEF DropOps, Requests
  <2>2. /\ DOMAIN cb = 1 .. Len(cb) /\ Len(cb) \in Nat /\ cb \in Seq(ReadClosures(n))
    BY ReadsType, LenProperties
  <2>3. \A i \in 1 .. Len(cb) : late[i].alone = FALSE
    <3>. TAKE i \in 1 .. Len(cb)
    <3>1. cb[i] \in ReadClosures(n) /\ late[i] = [cb[i] EXCEPT !.alone = FALSE]
      BY <2>2, ElementOfSeq
    <3>. QED BY <3>1 DEF ReadClosures
  <2>4. Len(late) = Len(cb)
    BY <2>2
  <2>. HIDE DEF late, cb
  <2>. QED BY <2>1, <2>3, <2>4 DEF AnswersAscend, AloneIsFresh
<1>3. CASE s = [r EXCEPT !.value = NoValue]
  <2>1. /\ s.applied = r.applied /\ s.writeOps = r.writeOps
        /\ s.readCallbacks = r.readCallbacks /\ s.readOps = r.readOps
    BY <1>3 DEF Requests
  <2>. QED BY <2>1 DEF AnswersAscend, AloneIsFresh, Latest
<1>. QED BY <1>1, <1>2, <1>3

(* No operation on a record but handleUpdate changes its value.            *)
LEMMA ValueKept ==
    ASSUME NEW n \in Nat, NEW r \in Requests(n), NEW s,
           \/ \E handed \in BOOLEAN : s = SubmitWrite(r, handed) \/ s = SubmitRead(r, handed)
           \/ \E recognised : s = WriteAnswered(r, recognised)
           \/ s = ReadFailed(r)
           \/ \E v : s = DropOps(r, v)
    PROVE  s.value = r.value
BY DEF SubmitWrite, SubmitRead, WriteAnswered, ReadFailed, DropOps, Requests

(* handleUpdate gives the characteristic the value that it calls with.     *)
LEMMA ValueSet ==
    ASSUME NEW n \in Nat, NEW r \in Requests(n)
    PROVE  /\ ReadAnswered(r).value = Head(r.readOps)
           /\ \A v : Notified(r, v).value = v
BY DEF ReadAnswered, Notified, HandleUpdate, Requests
=============================================================================
