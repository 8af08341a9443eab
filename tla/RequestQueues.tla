--------------------------- MODULE RequestQueues ---------------------------
(***************************************************************************)
(* What BluetoothManager keeps for one characteristic, as a record, and    *)
(* the operations on it.  Two of its fields are the dictionaries of the    *)
(* manager at that characteristic's key; the others are the CoreBluetooth  *)
(* side, which the manager cannot see: the requests it handed over and     *)
(* that are not answered yet, and how far the device has got.              *)
(*                                                                         *)
(*   writeCallbacks  closures waiting for a write, oldest first            *)
(*   writeOps        writes handed to CoreBluetooth and not yet answered   *)
(*   readCallbacks   closures waiting for a value                          *)
(*   readOps         reads handed to CoreBluetooth and not yet answered    *)
(*   issued          number of writes requested so far                     *)
(*   applied         the last write the device has processed               *)
(*   value           CBCharacteristic.value                                *)
(*                                                                         *)
(* A write is its number (1, 2, ...); a value of the characteristic is the *)
(* number of the last write it reflects, 0 being what the device held      *)
(* before the app wrote anything.  A pending read is the number of the     *)
(* last write that the device processes before it.  The closure of a read  *)
(* carries two facts it was registered with: the last write requested      *)
(* before it (asOf), and whether no other read was outstanding (alone).    *)
(***************************************************************************)
EXTENDS Integers, Sequences, Functions

NoValue == -1

ReadClosures(n) == [asOf : 0 .. n, alone : BOOLEAN]

(* The records with at most n writes. *)
Requests(n) ==
    [ writeCallbacks : Seq(1 .. n), writeOps : Seq(1 .. n),
      readCallbacks  : Seq(ReadClosures(n)), readOps : Seq(0 .. n),
      issued : 0 .. n, applied : 0 .. n, value : 0 .. n \union {NoValue} ]

EmptyQueues ==
    [ writeCallbacks |-> <<>>, writeOps |-> <<>>,
      readCallbacks  |-> <<>>, readOps  |-> <<>>,
      issued |-> 0, applied |-> 0, value |-> NoValue ]

(* The last write the device will have processed once it has answered      *)
(* everything that is outstanding now.                                     *)
Latest(q) == IF q.writeOps = <<>> THEN q.applied
             ELSE q.writeOps[Len(q.writeOps)]

(* Writes whose closure has run. *)
Completed(q) == q.issued - Len(q.writeCallbacks)

(* write(data:forCharacteristic:_:) behind its guard: the closure is       *)
(* appended whatever happens to the request; "handed" says whether         *)
(* CoreBluetooth accepted it.                                              *)
SubmitWrite(q, handed) ==
    LET id == q.issued + 1
    IN  [q EXCEPT !.issued = id,
                  !.writeCallbacks = Append(@, id),
                  !.writeOps = IF handed THEN Append(@, id) ELSE @]

(* read(characteristic:_:) behind its guards, off the cached path. *)
SubmitRead(q, handed) ==
    [q EXCEPT !.readCallbacks = Append(@, [asOf  |-> Latest(q),
                                           alone |-> q.readOps = <<>> /\ handed]),
              !.readOps = IF handed THEN Append(@, Latest(q)) ELSE @]

(* read(characteristic:_:) answers from CBCharacteristic.value when the    *)
(* characteristic notifies.                                                *)
ServedFromCache(q, notifying) == notifying /\ q.value # NoValue

(* The device answers requests in the order in which they were sent. *)
WriteIsNext(q) == /\ q.writeOps # <<>>
                  /\ q.readOps # <<>> => Head(q.readOps) >= Head(q.writeOps)

ReadIsNext(q) == /\ q.readOps # <<>>
                 /\ q.writeOps # <<>> => Head(q.writeOps) > Head(q.readOps)

(* Mutant: the newest closure is the one removed. *)
WriteAnswered_RemoveLast(q, recognised) ==
    [q EXCEPT !.writeOps = Tail(@),
              !.applied = Head(q.writeOps),
              !.writeCallbacks =
                  IF recognised /\ Len(@) > 0 THEN SubSeq(@, 1, Len(@) - 1) ELSE @]

(* Mutant: all closures are run, as handleUpdate does. *)
WriteAnswered_RunAll(q, recognised) ==
    [q EXCEPT !.writeOps = Tail(@),
              !.applied = Head(q.writeOps),
              !.writeCallbacks = IF recognised THEN <<>> ELSE @]

(* didWriteValueFor: the answer to the oldest write, accepted or refused   *)
(* (the error is not looked at), runs and removes the oldest closure,      *)
(* unless the printed UUID is not one of the app's.                        *)
WriteAnswered(q, recognised) ==
    [q EXCEPT !.writeOps = Tail(@),
              !.applied = Head(q.writeOps),
              !.writeCallbacks =
                  IF recognised /\ Len(@) > 0 THEN Tail(@) ELSE @]

(* Mutant: the closures are not forgotten. *)
HandleUpdate_Kept(q, v) == [q EXCEPT !.value = v]

(* handleUpdate runs every read closure with the new value and forgets     *)
(* them all.                                                               *)
HandleUpdate(q, v) == [q EXCEPT !.value = v, !.readCallbacks = <<>>]

(* didUpdateValueFor for the oldest read: with a value, or with an error,  *)
(* on which the handler returns before it touches the closures.            *)
ReadAnswered(q) == HandleUpdate([q EXCEPT !.readOps = Tail(@)], Head(q.readOps))

ReadFailed(q) == [q EXCEPT !.readOps = Tail(@)]

(* didUpdateValueFor for a notification: the device reports what it held   *)
(* at some point between the last answered write and the last one sent.    *)
ReportableValues(q) == {q.applied} \union Range(q.writeOps)

Notified(q, v) == HandleUpdate(q, v)

(* The link goes: no outstanding request will be answered.  The device may *)
(* have processed some of the writes.  Closures stay where they are.       *)
DropOps(q, v) ==
    [q EXCEPT !.writeOps = <<>>, !.readOps = <<>>, !.applied = v,
              !.readCallbacks = [i \in DOMAIN @ |-> [@[i] EXCEPT !.alone = FALSE]]]

(* The write closures are those of the last writes requested, in order;    *)
(* there are at least as many as answers to come, and the i-th answer is   *)
(* that of the i-th write or of a later one.                               *)
InOrder(closures, ops, issued, applied) ==
    LET completed == issued - Len(closures)
    IN  /\ Len(ops) <= Len(closures)
        /\ \A i \in 1 .. Len(closures) : closures[i] = completed + i
        /\ \A i \in 1 .. Len(ops) : closures[i] <= ops[i] /\ ops[i] <= issued
        /\ 0 <= completed /\ completed <= applied /\ applied <= issued

ClosuresInOrder(q) == InOrder(q.writeCallbacks, q.writeOps, q.issued, q.applied)

(* Answers come in the order of the writes, each of a write the device has *)
(* still to process.                                                       *)
AnswersAscend(q) ==
    \A i \in 1 .. Len(q.writeOps) :
        /\ q.applied < q.writeOps[i]
        /\ \A j \in 1 .. i - 1 : q.writeOps[j] < q.writeOps[i]

(* Every answer that can reach a closure that was alone is recent enough.  *)
AloneIsFresh(q) ==
    \A i \in 1 .. Len(q.readCallbacks) : q.readCallbacks[i].alone =>
        /\ q.readCallbacks[i].asOf <= Latest(q)
        /\ \A j \in 1 .. Len(q.readOps) : q.readCallbacks[i].asOf <= q.readOps[j]

(* A read closure that no outstanding read will answer. *)
ReadStranded(q) == q.readCallbacks # <<>> /\ q.readOps = <<>>
=============================================================================
