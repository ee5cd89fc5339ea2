-------------------------- MODULE ListChanges_proofs --------------------------
(* Proofs about ListChanges, for lists of any length. *)
EXTENDS ListChanges, SequenceTheorems, TLAPS

-----------------------------------------------------------------------------
(* The operations of the iterator keep its type *)

\* A new iterator has its type.
LEMMA NewIteratorType == \A V : NewIterator \in IteratorType(V)
  BY DEF NewIterator, IteratorType

\* Pushed values are answers or wait, and no more calls are answered than wait.
LEMMA PushType ==
    ASSUME NEW V, NEW it \in IteratorType(V), NEW vs \in Seq(V)
    PROVE  Push(it, vs) \in IteratorType(V)
  <1> DEFINE k == IF it.pullQueue < Len(vs) THEN it.pullQueue ELSE Len(vs)
  <1>1. it.pullQueue \in Nat /\ Len(vs) \in Nat /\ k \in 0..Len(vs) /\ it.pullQueue - k \in Nat
    BY DEF IteratorType
  <1>2. SubSeq(vs, 1, k) \in Seq(V) /\ SubSeq(vs, k + 1, Len(vs)) \in Seq(V)
    BY <1>1, SubSeqProperties
  <1>3. it.received \o SubSeq(vs, 1, k) \in Seq(V) /\ it.pushQueue \o SubSeq(vs, k + 1, Len(vs)) \in Seq(V)
    BY <1>2, ConcatProperties DEF IteratorType
  <1>4. QED
    BY <1>1, <1>3 DEF Push, IteratorType

\* A call is answered from the queue, or waits, or sees the end.
LEMMA NextCallType ==
    ASSUME NEW V, NEW it \in IteratorType(V)
    PROVE  NextCall(it) \in IteratorType(V)
  <1>1. CASE ~it.running
    BY <1>1 DEF NextCall, IteratorType
  <1>2. CASE it.running /\ it.pushQueue # <<>>
    <2>1. Head(it.pushQueue) \in V /\ Tail(it.pushQueue) \in Seq(V)
      BY <1>2, HeadTailProperties DEF IteratorType
    <2>2. Append(it.received, Head(it.pushQueue)) \in Seq(V)
      BY <2>1, AppendProperties DEF IteratorType
    <2>3. QED
      BY <1>2, <2>1, <2>2 DEF NextCall, IteratorType
  <1>3. CASE it.running /\ it.pushQueue = <<>>
    BY <1>3 DEF NextCall, IteratorType
  <1>4. QED
    BY <1>1, <1>2, <1>3

\* A closed iterator has no calls that wait.
LEMMA CloseType ==
    ASSUME NEW V, NEW it \in IteratorType(V), NEW how \in {"done", "error"}
    PROVE  Close(it, how) \in IteratorType(V)
  BY DEF Close, IteratorType

-----------------------------------------------------------------------------
(* Type correctness *)

\* What the loop pushes are receipts.
LEMMA NewItemsType ==
    ASSUME TypeOK, reply > processed, reply # NoReply
    PROVE  NewItems \in Seq(Nat)
  <1>1. reply - processed \in Nat
    BY DEF TypeOK, NoReply
  <1>2. \A i \in 1..(reply - processed) : processed + i \in Nat
    BY DEF TypeOK
  <1>3. QED
    BY <1>1, <1>2 DEF NewItems

\* pushNext() keeps the types.
LEMMA PushNextType ==
    ASSUME TypeOK, PushNext
    PROVE  /\ reply' \in Nat \cup {NoReply} /\ processed' \in Nat
           /\ out' \in IteratorType(Nat) /\ timer' \in {"off", "first", "after"}
  <1>1. CASE reply > processed
    <2>1. Push(out, NewItems) \in IteratorType(Nat)
      BY <1>1, NewItemsType, PushType DEF TypeOK, PushNext
    <2>2. QED
      BY <1>1, <2>1 DEF PushNext, TypeOK, NoReply
  <1>2. CASE ~(reply > processed)
    BY <1>2 DEF PushNext, TypeOK, NoReply
  <1>3. QED
    BY <1>1, <1>2

\* Closing the channel's iterator keeps the types.
LEMMA CloseChangesType ==
    ASSUME TypeOK, NEW how \in {"done", "error"}, CloseChanges(how)
    PROVE  /\ list' \in 0..MaxReceipts /\ channel' \in {"off", "on"} /\ notes' \in Nat
           /\ changes' \in IteratorType({"change"})
  BY CloseType DEF CloseChanges, TypeOK

\* close() of the returned iterator keeps the types.
LEMMA CloseOutType ==
    ASSUME TypeOK, NEW how \in {"done", "error"}, CloseOut(how)
    PROVE  /\ list' \in 0..MaxReceipts /\ channel' \in {"off", "on"} /\ notes' \in Nat
           /\ changes' \in IteratorType({"change"}) /\ out' \in IteratorType(Nat)
           /\ timer' \in {"off", "first", "after"}
  <1>1. out' \in IteratorType(Nat)
    BY CloseType DEF CloseOut, TypeOK
  <1>2. CASE out.running /\ hooked
    BY <1>1, <1>2, CloseChangesType DEF CloseOut
  <1>3. CASE ~(out.running /\ hooked)
    BY <1>1, <1>3 DEF CloseOut, TypeOK, redis
  <1>4. QED
    BY <1>2, <1>3

\* Every step keeps the types.
LEMMA TypeStep == TypeOK /\ [Next]_vars => TypeOK'
  <1> SUFFICES ASSUME TypeOK, [Next]_vars PROVE TypeOK'
    OBVIOUS
  <1> USE MaxReceiptsAssumption
  <1>1. CASE AppendReceipt
    BY <1>1 DEF AppendReceipt, TypeOK
  <1>2. CASE ExecuteList
    BY <1>2 DEF ExecuteList, TypeOK, redis
  <1>3. CASE ExecuteSubscribe
    BY <1>3 DEF ExecuteSubscribe, TypeOK
  <1>4. CASE DeliverNotification
    <2>1. <<"change">> \in Seq({"change"})
      OBVIOUS
    <2>2. changes' \in IteratorType({"change"})
      BY <1>4, <2>1, PushType DEF DeliverNotification, TypeOK
    <2>3. QED
      BY <1>4, <2>2 DEF DeliverNotification, TypeOK
  <1>5. CASE FirstRead
    BY <1>5, PushNextType DEF FirstRead, TypeOK, redis
  <1>6. CASE Subscribed
    BY <1>6, NextCallType DEF Subscribed, TypeOK, redis
  <1>7. CASE Changed \/ LoopDone
    BY <1>7 DEF Changed, LoopDone, TypeOK, redis
  <1>8. CASE LaterRead
    BY <1>8, PushNextType, NextCallType DEF LaterRead, TypeOK, redis
  <1>9. CASE RedisRejects \/ ChangesRejects
    BY <1>9, CloseOutType DEF RedisRejects, ChangesRejects, LoopFailed, TypeOK
  <1>10. CASE SubscriberError
    BY <1>10, CloseChangesType DEF SubscriberError, TypeOK
  <1>11. CASE Timeout
    <2>1. out' \in IteratorType(Nat)
      BY <1>11, CloseType DEF Timeout, TypeOK
    <2>2. CASE out.running /\ hooked
      BY <1>11, <2>1, <2>2, CloseChangesType DEF Timeout, TypeOK
    <2>3. CASE ~(out.running /\ hooked)
      BY <1>11, <2>1, <2>3 DEF Timeout, TypeOK, redis
    <2>4. QED
      BY <2>2, <2>3
  <1>12. CASE ConsumerNext
    BY <1>12, NextCallType DEF ConsumerNext, TypeOK, redis
  <1>13. CASE ConsumerReturn
    BY <1>13, CloseOutType DEF ConsumerReturn, TypeOK
  <1>14. CASE UNCHANGED vars
    BY <1>14 DEF vars, TypeOK
  <1>15. QED
    BY <1>1, <1>2, <1>3, <1>4, <1>5, <1>6, <1>7, <1>8, <1>9, <1>10, <1>11, <1>12, <1>13, <1>14
       DEF Next

\* The first state has its types.
LEMMA InitType == Init => TypeOK
  <1> SUFFICES ASSUME Init PROVE TypeOK
    OBVIOUS
  <1>1. out \in IteratorType(Nat) /\ changes \in IteratorType({"change"})
    BY NewIteratorType DEF Init
  <1>2. subscribedAt \in Nat /\ notes \in Nat /\ processed \in Nat
    BY DEF Init
  <1>3. QED
    BY <1>1, <1>2 DEF Init, TypeOK, NoReply

\* The state has its types: the iterators hold receipts and notifications, and
\* never fewer than no calls wait (push() answers no call that does not wait).
THEOREM TypeCorrect == Spec => []TypeOK
  BY InitType, TypeStep, PTL DEF Spec

-----------------------------------------------------------------------------
(* No receipt is left unread but in the gap *)

\* The iterator of notifications: the loop has at most one call of next() waiting,
\* and only while nothing is queued; what is closed does not run again.
OneCallWaits ==
    /\ changes.pullQueue \in {0, 1}
    /\ changes.pullQueue = 1 => pc = "next" /\ changes.pushQueue = <<>> /\ changes.running
    /\ changes.seen # "open" => ~changes.running
    /\ ~changes.running => hooked /\ channel = "off"

\* What holds at which await of the loop.
LoopStage ==
    /\ hooked => pc \in {"next", "list", "exit"}
    /\ channel = "on" => pc \in {"subscribed", "next", "list", "exit"}
    /\ pc \in {"subscribe", "subscribed", "next"} => reply = NoReply
    /\ processed <= list /\ reply <= list

\* While the channel is subscribed there is a reason to read what is not read yet,
\* in the order in which it moves on: a notification, one that is queued, one that
\* has answered the loop, a read that has not been executed or is of the whole list.
ReadingGoesOn ==
    channel = "on" /\ pc # "exit" =>
        \/ list = subscribedAt
        \/ notes > 0
        \/ changes.pushQueue # <<>>
        \/ pc = "next" /\ (changes.pullQueue = 0 \/ processed = list)
        \/ pc = "list" /\ reply \in {NoReply, list}

\* What UnreadOnlyInTheGap rests on.
ReadInv == TypeOK /\ OneCallWaits /\ LoopStage /\ ReadingGoesOn

\* A notification answers the call that waits, or is queued.
LEMMA PushNotification ==
    ASSUME NEW it \in IteratorType({"change"}), it.running,
           it.pullQueue \in {0, 1}, it.pullQueue = 1 => it.pushQueue = <<>>
    PROVE  LET p == Push(it, <<"change">>)
           IN /\ p.pullQueue = 0 /\ p.running /\ p.seen = it.seen
              /\ it.pullQueue = 0 => p.pushQueue # <<>>
  <1> DEFINE k == IF it.pullQueue < Len(<<"change">>) THEN it.pullQueue ELSE Len(<<"change">>)
             q == it.pushQueue \o SubSeq(<<"change">>, k + 1, Len(<<"change">>))
             r == it.received \o SubSeq(<<"change">>, 1, k)
  <1>1. <<"change">> \in Seq({"change"}) /\ Len(<<"change">>) = 1
    OBVIOUS
  <1>2. it.pushQueue \in Seq({"change"}) /\ it.pullQueue \in {0, 1} /\ k = it.pullQueue
    BY <1>1 DEF IteratorType
  <1>3. Push(it, <<"change">>) = [it EXCEPT !.received = r, !.pullQueue = it.pullQueue - k, !.pushQueue = q]
    BY Zenon DEF Push
  <1>4. it.pullQueue = 0 => q # <<>>
    <2>1. CASE it.pullQueue = 0
      <3>1. SubSeq(<<"change">>, 1, 1) \in Seq({"change"}) /\ Len(SubSeq(<<"change">>, 1, 1)) = 1
        BY <1>1, SubSeqProperties
      <3>2. Len(it.pushQueue \o SubSeq(<<"change">>, 1, 1)) = Len(it.pushQueue) + 1 /\ Len(it.pushQueue) \in Nat
        BY <1>2, <3>1, ConcatProperties
      <3>3. q = it.pushQueue \o SubSeq(<<"change">>, 1, 1)
        BY <1>1, <1>2, <2>1
      <3>4. it.pushQueue \o SubSeq(<<"change">>, 1, 1) # <<>>
        BY <3>2
      <3>5. QED
        BY <3>3, <3>4
    <2>2. QED
      BY <2>1
  <1> HIDE DEF k, q, r
  <1>5. /\ Push(it, <<"change">>).pullQueue = it.pullQueue - k
        /\ Push(it, <<"change">>).pushQueue = q
        /\ Push(it, <<"change">>).running = it.running
        /\ Push(it, <<"change">>).seen = it.seen
    BY <1>3 DEF IteratorType
  <1>6. it.pullQueue - k = 0
    BY <1>2
  <1>7. QED
    BY <1>4, <1>5, <1>6, Zenon

\* The loop's call takes a queued notification, or waits, or sees the end.
LEMMA NextNotification ==
    ASSUME NEW it \in IteratorType({"change"}), it.pullQueue = 0, it.seen # "open" => ~it.running
    PROVE  LET n == NextCall(it)
           IN /\ n.running = it.running
              /\ n.pullQueue \in {0, 1}
              /\ n.pullQueue = 1 => n.pushQueue = <<>> /\ it.pushQueue = <<>> /\ n.running
              /\ n.seen # "open" => ~n.running
  BY DEF NextCall, IteratorType

\* A closed iterator has no call waiting.
LEMMA CloseNotifications ==
    ASSUME NEW it \in IteratorType({"change"}), NEW how \in {"done", "error"},
           it.pullQueue = 1 => it.running, it.pullQueue \in {0, 1}
    PROVE  Close(it, how).pullQueue = 0 /\ ~Close(it, how).running
  BY DEF Close, IteratorType

\* Steps after which the channel is closed, or that leave it and the loop alone.
LEMMA CloseKeeps ==
    ASSUME TypeOK, OneCallWaits, LoopStage, NEW how \in {"done", "error"}, CloseChanges(how),
           hooked, UNCHANGED <<hooked, processed>>,
           UNCHANGED <<pc, reply>> \/ (pc' = "exit" /\ reply' = NoReply)
    PROVE  OneCallWaits' /\ LoopStage' /\ ReadingGoesOn'
  <1>1. changes'.pullQueue = 0 /\ ~changes'.running /\ channel' = "off" /\ list' = list
    BY CloseNotifications DEF CloseChanges, TypeOK, OneCallWaits
  <1>2. -1 <= list
    BY DEF TypeOK
  <1>3. OneCallWaits'
    BY <1>1 DEF OneCallWaits
  <1>4. LoopStage'
    BY <1>1, <1>2 DEF LoopStage, NoReply
  <1>5. ReadingGoesOn'
    BY <1>1 DEF ReadingGoesOn
  <1>6. QED
    BY <1>3, <1>4, <1>5

\* pushNext() reads up to its reply.
LEMMA PushNextReads ==
    ASSUME ReadInv, PushNext, UNCHANGED list
    PROVE  /\ reply' = NoReply /\ processed' <= list' /\ reply' <= list'
           /\ reply = list => processed' = list'
  BY DEF ReadInv, TypeOK, LoopStage, PushNext, NoReply

\* Every step of the system keeps the invariant.
LEMMA ReadStep == ReadInv /\ [Next]_vars => ReadInv'
  <1> SUFFICES ASSUME ReadInv, [Next]_vars PROVE OneCallWaits' /\ LoopStage' /\ ReadingGoesOn'
    BY TypeStep DEF ReadInv
  <1> USE DEF ReadInv
  <1>1. CASE AppendReceipt
    <2>1. list \in Nat /\ processed \in Nat /\ reply \in Nat \cup {-1} /\ notes \in Nat
      BY MaxReceiptsAssumption DEF TypeOK, NoReply
    <2>2. list' = list + 1 /\ (channel = "on" => notes' > 0)
      BY <1>1, <2>1 DEF AppendReceipt
    <2>3. QED
      BY <1>1, <2>1, <2>2 DEF AppendReceipt, OneCallWaits, LoopStage, ReadingGoesOn
  <1>2. CASE ExecuteList
    BY <1>2 DEF ExecuteList, TypeOK, OneCallWaits, LoopStage, ReadingGoesOn, redis
  <1>3. CASE ExecuteSubscribe
    BY <1>3 DEF ExecuteSubscribe, TypeOK, OneCallWaits, LoopStage, ReadingGoesOn
  <1>4. CASE DeliverNotification
    <2>1. CASE changes.running
      <3>1. /\ changes'.pullQueue = 0 /\ changes'.running /\ changes'.seen = changes.seen
            /\ changes.pullQueue = 0 => changes'.pushQueue # <<>>
        BY <1>4, <2>1, PushNotification DEF DeliverNotification, TypeOK, OneCallWaits
      <3>2. OneCallWaits' /\ LoopStage'
        BY <1>4, <2>1, <3>1 DEF DeliverNotification, OneCallWaits, LoopStage
      <3>3. ReadingGoesOn'
        BY <1>4, <3>1 DEF DeliverNotification, OneCallWaits, ReadingGoesOn
      <3>4. QED
        BY <3>2, <3>3
    <2>2. CASE ~changes.running
      BY <1>4, <2>2 DEF DeliverNotification, Push, OneCallWaits, LoopStage, ReadingGoesOn
    <2>3. QED
      BY <2>1, <2>2
  <1>5. CASE FirstRead
    <2>1. channel' = "off"
      BY <1>5 DEF FirstRead, LoopStage, TypeOK, redis
    <2>2. /\ reply' = NoReply /\ processed' <= list' /\ reply' <= list'
      BY <1>5, PushNextReads DEF FirstRead, redis
    <2>3. QED
      BY <1>5, <2>1, <2>2 DEF FirstRead, OneCallWaits, LoopStage, ReadingGoesOn, redis
  <1>6. CASE Subscribed
    <2>1. changes.pullQueue = 0 /\ changes.running
      BY <1>6 DEF Subscribed, OneCallWaits, LoopStage
    <2>2. /\ changes'.running /\ changes'.pullQueue \in {0, 1}
          /\ changes'.pullQueue = 1 => changes'.pushQueue = <<>> /\ changes.pushQueue = <<>>
          /\ changes'.seen # "open" => ~changes'.running
      BY <1>6, <2>1, NextNotification DEF Subscribed, TypeOK, OneCallWaits
    <2>3. QED
      BY <1>6, <2>2 DEF Subscribed, OneCallWaits, LoopStage, ReadingGoesOn, redis
  <1>7. CASE Changed
    BY <1>7 DEF Changed, OneCallWaits, LoopStage, ReadingGoesOn, redis
  <1>8. CASE LaterRead
    <2>1. changes.pullQueue = 0
      BY <1>8 DEF LaterRead, OneCallWaits
    <2>2. /\ changes'.running = changes.running /\ changes'.pullQueue \in {0, 1}
          /\ changes'.pullQueue = 1 => changes'.pushQueue = <<>> /\ changes.pushQueue = <<>> /\ changes'.running
          /\ changes'.seen # "open" => ~changes'.running
      BY <1>8, <2>1, NextNotification DEF LaterRead, TypeOK, OneCallWaits
    <2>3. /\ reply' = NoReply /\ processed' <= list' /\ reply' <= list' /\ reply # NoReply
          /\ reply = list => processed' = list'
      BY <1>8, PushNextReads DEF LaterRead, redis, PushNext
    <2>4. QED
      BY <1>8, <2>2, <2>3 DEF LaterRead, OneCallWaits, LoopStage, ReadingGoesOn, redis
  <1>9. CASE LoopDone
    BY <1>9 DEF LoopDone, OneCallWaits, LoopStage, ReadingGoesOn, redis
  <1>10. CASE RedisRejects \/ ChangesRejects
    <2>1. /\ CloseOut("error") /\ pc' = "exit" /\ reply' = NoReply /\ UNCHANGED <<hooked, processed>>
          /\ changes.pullQueue = 0
      BY <1>10 DEF RedisRejects, ChangesRejects, LoopFailed, OneCallWaits
    <2>2. CASE out.running /\ hooked
      BY <2>1, <2>2, CloseKeeps DEF CloseOut
    <2>3. CASE ~(out.running /\ hooked)
      <3>1. UNCHANGED <<list, channel, changes>>
        BY <2>1, <2>3 DEF CloseOut, redis
      <3>2. -1 <= list
        BY DEF TypeOK
      <3>3. QED
        BY <2>1, <3>1, <3>2 DEF OneCallWaits, LoopStage, ReadingGoesOn, NoReply
    <2>4. QED
      BY <2>2, <2>3
  <1>11. CASE SubscriberError
    <2>1. /\ CloseChanges("error") /\ hooked /\ UNCHANGED <<hooked, processed>>
          /\ UNCHANGED <<pc, reply>>
      BY <1>11 DEF SubscriberError
    <2>2. QED
      BY <2>1, CloseKeeps
  <1>12. CASE Timeout
    <2>1. CASE out.running /\ hooked
      <3>1. /\ CloseChanges("done") /\ hooked /\ UNCHANGED <<hooked, processed>>
            /\ UNCHANGED <<pc, reply>>
        BY <1>12, <2>1 DEF Timeout
      <3>2. QED
        BY <3>1, CloseKeeps
    <2>2. CASE ~(out.running /\ hooked)
      BY <1>12, <2>2 DEF Timeout, OneCallWaits, LoopStage, ReadingGoesOn, redis
    <2>3. QED
      BY <2>1, <2>2
  <1>13. CASE ConsumerNext
    BY <1>13 DEF ConsumerNext, OneCallWaits, LoopStage, ReadingGoesOn, redis
  <1>14. CASE ConsumerReturn
    <2>1. CASE out.running /\ hooked
      <3>1. /\ CloseChanges("done") /\ hooked /\ UNCHANGED <<hooked, processed>>
            /\ UNCHANGED <<pc, reply>>
        BY <1>14, <2>1 DEF ConsumerReturn, CloseOut
      <3>2. QED
        BY <3>1, CloseKeeps
    <2>2. CASE ~(out.running /\ hooked)
      BY <1>14, <2>2 DEF ConsumerReturn, CloseOut, OneCallWaits, LoopStage, ReadingGoesOn, redis
    <2>3. QED
      BY <2>1, <2>2
  <1>15. CASE UNCHANGED vars
    BY <1>15 DEF vars, OneCallWaits, LoopStage, ReadingGoesOn
  <1>16. QED
    BY <1>1, <1>2, <1>3, <1>4, <1>5, <1>6, <1>7, <1>8, <1>9, <1>10, <1>11, <1>12, <1>13, <1>14, <1>15
       DEF Next

\* The first state satisfies it.
LEMMA InitReadInv == Init => ReadInv
  <1> SUFFICES ASSUME Init PROVE ReadInv
    OBVIOUS
  <1>1. TypeOK
    BY InitType
  <1>2. OneCallWaits
    BY DEF Init, NewIterator, OneCallWaits
  <1>3. LoopStage /\ ReadingGoesOn
    BY MaxReceiptsAssumption DEF Init, LoopStage, ReadingGoesOn, NoReply
  <1>4. QED
    BY <1>1, <1>2, <1>3 DEF ReadInv

\* For lists of any length: while the loop waits for a notification and none is on
\* its way, the only receipts it has not read are those appended between its first
\* read and the subscription, and only until one more is appended.
THEOREM UnreadOnlyInTheGap == Spec => []UnreadOnlyFromTheGap
  <1>1. ReadInv => UnreadOnlyFromTheGap
    BY DEF ReadInv, TypeOK, OneCallWaits, ReadingGoesOn, UnreadOnlyFromTheGap
  <1>2. QED
    BY <1>1, InitReadInv, ReadStep, PTL DEF Spec

-----------------------------------------------------------------------------
(* The subscription implements the stream of receipts *)

\* The first n receipts of the list reach an iterator: those received, then those
\* that wait.  Of the executor's calls at most one waits, while no receipt does.
Counted(it, n) ==
    /\ it.pullQueue \in {0, 1} /\ (it.pullQueue = 1 => it.pushQueue = <<>> /\ it.running)
    /\ \A i \in 1..Len(it.received) : it.received[i] = i
    /\ \A i \in 1..Len(it.pushQueue) : it.pushQueue[i] = Len(it.received) + i
    /\ Len(it.received) + Len(it.pushQueue) <= n
    /\ it.running => Len(it.received) + Len(it.pushQueue) = n

\* The channel's iterator is closed as done together with the client's only, and
\* the loop has seen the end it was closed with.
ClosedTogether ==
    /\ changes.running => changes.closedWith = "open" /\ changes.seen = "open"
    /\ changes.seen \in {"open", changes.closedWith}
    /\ changes.closedWith = "done" => ~out.running
    /\ pc = "exit" => ~out.running

\* The inductive invariant of the stream of receipts.
StreamInv == ReadInv /\ Counted(out, processed) /\ ClosedTogether

\* What a step of the iterator is to the stream: nothing, one more receipt, or the end.
Follows(it, jt) ==
    \/ jt.received = it.received /\ jt.running = it.running
    \/ /\ it.running /\ jt.running
       /\ jt.received = Append(it.received, Len(it.received) + 1)
    \/ jt.received = it.received /\ it.running /\ ~jt.running

\* A run of numbers with the next ones behind it is a run of numbers.
LEMMA RunGrows ==
    ASSUME NEW p \in Seq(Nat), NEW vs \in Seq(Nat), NEW a \in Nat,
           \A i \in 1..Len(p) : p[i] = a + i, \A i \in 1..Len(vs) : vs[i] = (a + Len(p)) + i
    PROVE  /\ p \o vs \in Seq(Nat) /\ Len(p \o vs) = Len(p) + Len(vs)
           /\ \A i \in 1..Len(p \o vs) : (p \o vs)[i] = a + i
  <1>1. Len(p) \in Nat /\ Len(vs) \in Nat
    OBVIOUS
  <1>2. p \o vs \in Seq(Nat) /\ Len(p \o vs) = Len(p) + Len(vs)
    BY ConcatProperties
  <1>3. ASSUME NEW i \in 1..(Len(p) + Len(vs)) PROVE (p \o vs)[i] = a + i
    <2>1. CASE i <= Len(p)
      <3>1. (p \o vs)[i] = p[i] /\ i \in 1..Len(p)
        BY <1>1, <2>1, ConcatProperties
      <3> QED
        BY <3>1
    <2>2. CASE i > Len(p)
      <3>1. (p \o vs)[i] = vs[i - Len(p)] /\ i - Len(p) \in 1..Len(vs)
        BY <1>1, <2>2, ConcatProperties
      <3>2. vs[i - Len(p)] = (a + Len(p)) + (i - Len(p))
        BY <3>1
      <3> QED
        BY <1>1, <3>1, <3>2
    <2> QED
      BY <1>1, <2>1, <2>2
  <1> QED
    BY <1>2, <1>3

\* The items read are the next receipts: one answers the call that waits, the
\* others are queued.
LEMMA PushCounts ==
    ASSUME NEW it \in IteratorType(Nat), NEW n \in Nat, NEW m \in Nat \ {0}, Counted(it, n),
           NEW vs \in Seq(Nat), Len(vs) = m, \A i \in 1..m : vs[i] = n + i
    PROVE  Counted(Push(it, vs), n + m) /\ Follows(it, Push(it, vs)) /\ Push(it, vs).running = it.running
  <1>1. CASE ~it.running
    <2>1. Push(it, vs) = it
      BY <1>1 DEF Push
    <2>2. Counted(it, n + m) /\ Follows(it, it)
      BY <1>1 DEF Counted, Follows, IteratorType
    <2> QED
      BY <2>1, <2>2
  <1>2. CASE it.running
    <2> DEFINE k == IF it.pullQueue < Len(vs) THEN it.pullQueue ELSE Len(vs)
               r == it.received \o SubSeq(vs, 1, k)
               q == it.pushQueue \o SubSeq(vs, k + 1, Len(vs))
    <2>1. /\ it.received \in Seq(Nat) /\ it.pushQueue \in Seq(Nat)
          /\ Len(it.received) \in Nat /\ Len(it.pushQueue) \in Nat
          /\ Len(it.received) + Len(it.pushQueue) = n
      BY <1>2 DEF Counted, IteratorType
    <2>2. k = it.pullQueue /\ k \in {0, 1}
      BY DEF Counted
    <2>3. Push(it, vs) = [it EXCEPT !.received = r, !.pullQueue = it.pullQueue - k, !.pushQueue = q]
      BY <1>2, Zenon DEF Push
    <2>4. r = it.received \o SubSeq(vs, 1, k) /\ q = it.pushQueue \o SubSeq(vs, k + 1, m)
      OBVIOUS
    <2> HIDE DEF k, r, q
    <2>5. /\ Push(it, vs).received = r /\ Push(it, vs).pushQueue = q /\ Push(it, vs).pullQueue = 0
          /\ Push(it, vs).running = it.running
      BY <2>2, <2>3 DEF IteratorType
    <2>6. /\ r = it.received \/ r = Append(it.received, Len(it.received) + 1)
          /\ Len(r) + Len(q) = n + m
          /\ \A i \in 1..Len(r) : r[i] = i
          /\ \A i \in 1..Len(q) : q[i] = Len(r) + i
      <3>1. CASE k = 0
        <4>1. SubSeq(vs, 1, 0) = <<>> /\ SubSeq(vs, 1, m) = vs
          <5>1. SubSeq(vs, 1, 0) \in Seq(Nat) /\ Len(SubSeq(vs, 1, 0)) = 0
            BY SubSeqProperties
          <5>2. /\ SubSeq(vs, 1, m) \in Seq(Nat) /\ Len(SubSeq(vs, 1, m)) = m
                /\ \A i \in 1..m : SubSeq(vs, 1, m)[i] = vs[i]
            BY SubSeqProperties
          <5>3. SubSeq(vs, 1, m) = vs
            BY <5>2, SeqEqual
          <5> QED
            BY <5>1, <5>3, EmptySeq
        <4>2. r = it.received /\ q = it.pushQueue \o vs
          <5>1. SubSeq(vs, 1, k) = SubSeq(vs, 1, 0) /\ SubSeq(vs, k + 1, m) = SubSeq(vs, 1, m)
            BY <3>1
          <5>2. r = it.received \o <<>> /\ q = it.pushQueue \o vs
            BY <2>4, <4>1, <5>1, Zenon
          <5> QED
            BY <2>1, <5>2, ConcatEmptySeq
        <4>3. /\ Len(q) = Len(it.pushQueue) + m
              /\ \A i \in 1..Len(q) : q[i] = Len(it.received) + i
          <5>1. \A i \in 1..Len(it.pushQueue) : it.pushQueue[i] = Len(it.received) + i
            BY DEF Counted
          <5>2. \A i \in 1..Len(vs) : vs[i] = (Len(it.received) + Len(it.pushQueue)) + i
            BY <2>1
          <5>3. /\ Len(it.pushQueue \o vs) = Len(it.pushQueue) + m
                /\ \A i \in 1..Len(it.pushQueue \o vs) : (it.pushQueue \o vs)[i] = Len(it.received) + i
            BY <2>1, <5>1, <5>2, RunGrows
          <5> QED
            BY <4>2, <5>3
        <4>4. Len(r) = Len(it.received) /\ \A i \in 1..Len(r) : r[i] = i
          BY <4>2 DEF Counted
        <4>5. Len(r) + Len(q) = n + m
          <5>1. /\ Len(r) = Len(it.received) /\ Len(q) = Len(it.pushQueue) + m
                /\ Len(it.received) \in Nat /\ Len(it.pushQueue) \in Nat /\ Len(it.received) + Len(it.pushQueue) = n
            BY <2>1, <4>3, <4>4, Zenon
          <5>2. PICK x \in Nat, y \in Nat : x = Len(it.received) /\ y = Len(it.pushQueue)
            BY <5>1
          <5>3. Len(r) = x /\ Len(q) = y + m /\ x + y = n
            BY <5>1, <5>2, Zenon
          <5> QED
            BY <5>3
        <4> QED
          BY <4>2, <4>3, <4>4, <4>5
      <3>2. CASE k = 1
        <4>1. it.pushQueue = <<>> /\ Len(it.received) = n
          <5>1. it.pullQueue = 1
            BY <2>2, <3>2
          <5>2. it.pushQueue = <<>>
            BY <5>1 DEF Counted
          <5> QED
            BY <2>1, <5>2, EmptySeq
        <4>2. SubSeq(vs, 1, 1) \in Seq(Nat) /\ Len(SubSeq(vs, 1, 1)) = 1 /\ SubSeq(vs, 1, 1)[1] = n + 1
          BY SubSeqProperties
        <4>3. /\ SubSeq(vs, 2, m) \in Seq(Nat) /\ Len(SubSeq(vs, 2, m)) = m - 1
              /\ \A i \in 1..(m - 1) : SubSeq(vs, 2, m)[i] = vs[i + 1]
          BY SubSeqProperties
        <4>4. r = it.received \o SubSeq(vs, 1, 1) /\ q = SubSeq(vs, 2, m)
          BY <2>4, <3>2, <4>1, <4>3, ConcatEmptySeq
        <4>5. SubSeq(vs, 1, 1) = <<n + 1>>
          <5>1. <<n + 1>> \in Seq(Nat) /\ Len(<<n + 1>>) = 1 /\ <<n + 1>>[1] = n + 1
            OBVIOUS
          <5> QED
            <6>1. Len(SubSeq(vs, 1, 1)) = Len(<<n + 1>>) /\ SubSeq(vs, 1, 1) \in Seq(Nat)
              BY <4>2, <5>1
            <6>2. \A i \in 1..Len(SubSeq(vs, 1, 1)) : SubSeq(vs, 1, 1)[i] = <<n + 1>>[i]
              BY <4>2, <5>1
            <6> QED
              BY <5>1, <6>1, <6>2, SeqEqual, Zenon
        <4>6. r = Append(it.received, n + 1)
          BY <2>1, <4>4, <4>5, AppendIsConcat
        <4>7. Len(r) = n + 1 /\ r[n + 1] = n + 1 /\ \A i \in 1..n : r[i] = it.received[i]
          BY <2>1, <4>1, <4>6, AppendProperties
        <4>8. \A i \in 1..Len(r) : r[i] = i
          BY <4>1, <4>7 DEF Counted
        <4>9. \A i \in 1..Len(q) : q[i] = Len(r) + i
          <5>1. Len(q) = m - 1
            BY <4>3, <4>4
          <5>2. ASSUME NEW i \in 1..(m - 1) PROVE q[i] = (n + 1) + i
            <6>1. q[i] = vs[i + 1] /\ i + 1 \in 1..m
              BY <4>3, <4>4
            <6> QED
              BY <6>1
          <5> QED
            BY <4>7, <5>1, <5>2
        <4>10. Len(r) + Len(q) = n + m
          <5>1. Len(r) = n + 1 /\ Len(q) = m - 1
            BY <4>3, <4>4, <4>7, Zenon
          <5> QED
            BY <5>1
        <4> QED
          BY <4>1, <4>6, <4>8, <4>9, <4>10
      <3> QED
        BY <2>2, <3>1, <3>2
    <2>7. Counted(Push(it, vs), n + m)
      BY <2>5, <2>6 DEF Counted
    <2>8. Follows(it, Push(it, vs))
      BY <1>2, <2>5, <2>6 DEF Follows
    <2> QED
      BY <2>5, <2>7, <2>8
  <1> QED
    BY <1>1, <1>2 DEF IteratorType

\* The executor's call takes the next receipt, or waits for it, or sees the end.
LEMMA NextCallCounts ==
    ASSUME NEW it \in IteratorType(Nat), NEW n \in Nat, Counted(it, n), it.pullQueue = 0
    PROVE  Counted(NextCall(it), n) /\ Follows(it, NextCall(it)) /\ NextCall(it).running = it.running
  <1>1. CASE it.running /\ it.pushQueue # <<>>
    <2> DEFINE r == Append(it.received, Head(it.pushQueue))
               q == Tail(it.pushQueue)
    <2>1. /\ it.received \in Seq(Nat) /\ it.pushQueue \in Seq(Nat)
          /\ Len(it.received) \in Nat /\ Len(it.pushQueue) \in Nat /\ Len(it.pushQueue) > 0
      BY <1>1, EmptySeq DEF IteratorType
    <2>2. /\ Head(it.pushQueue) = it.pushQueue[1] /\ Len(q) = Len(it.pushQueue) - 1
          /\ \A i \in 1..Len(q) : q[i] = it.pushQueue[i + 1]
      BY <1>1, <2>1, HeadTailProperties
    <2>3. Head(it.pushQueue) = Len(it.received) + 1
      BY <2>1, <2>2 DEF Counted
    <2>4. /\ Len(r) = Len(it.received) + 1 /\ r[Len(it.received) + 1] = Len(it.received) + 1
          /\ \A i \in 1..Len(it.received) : r[i] = it.received[i]
      BY <2>1, <2>3, AppendProperties
    <2>5. \A i \in 1..Len(r) : r[i] = i
      BY <2>1, <2>4 DEF Counted
    <2>6. \A i \in 1..Len(q) : q[i] = Len(r) + i
      BY <2>1, <2>2, <2>4 DEF Counted
    <2>8. NextCall(it) = [it EXCEPT !.received = r, !.pushQueue = q]
      BY <1>1 DEF NextCall
    <2>9. r = Append(it.received, Len(it.received) + 1)
      BY <2>3
    <2> HIDE DEF r, q
    <2>7. Len(r) + Len(q) = Len(it.received) + Len(it.pushQueue)
      <3>1. PICK x \in Nat, y \in Nat : x = Len(it.received) /\ y = Len(it.pushQueue)
        BY <2>1
      <3>2. Len(r) = x + 1 /\ Len(q) = y - 1
        BY <2>2, <2>4, <3>1, Zenon
      <3>3. Len(r) + Len(q) = x + y
        BY <3>2
      <3> QED
        BY <3>1, <3>3, Zenon
    <2>10. /\ NextCall(it).received = r /\ NextCall(it).pullQueue = 0 /\ NextCall(it).pushQueue = q
           /\ NextCall(it).running = it.running
      BY <2>8 DEF IteratorType
    <2> QED
      BY <1>1, <2>5, <2>6, <2>7, <2>9, <2>10 DEF Counted, Follows
  <1>2. CASE ~it.running
    BY <1>2 DEF NextCall, Counted, Follows, IteratorType
  <1>3. CASE it.running /\ it.pushQueue = <<>>
    <2>1. /\ NextCall(it).received = it.received /\ NextCall(it).pullQueue = 1
          /\ NextCall(it).pushQueue = it.pushQueue /\ NextCall(it).running = it.running
      <3>1. NextCall(it) = [it EXCEPT !.pullQueue = it.pullQueue + 1]
        BY <1>3 DEF NextCall
      <3> QED
        BY <3>1 DEF IteratorType
    <2> QED
      BY <1>3, <2>1 DEF Counted, Follows
  <1> QED
    BY <1>1, <1>2, <1>3

\* A closed iterator answers no call with a receipt.
LEMMA CloseCounts ==
    ASSUME NEW it \in IteratorType(Nat), NEW n \in Nat, Counted(it, n), NEW how \in {"done", "error"}
    PROVE  Counted(Close(it, how), n) /\ Follows(it, Close(it, how)) /\ ~Close(it, how).running
  <1>1. /\ Close(it, how).received = it.received /\ Close(it, how).pushQueue = it.pushQueue
        /\ ~Close(it, how).running /\ Close(it, how).pullQueue = 0
    BY DEF Close, Counted, IteratorType
  <1>2. it.running \in BOOLEAN /\ Close(it, how).running \in BOOLEAN
    BY DEF Close, IteratorType
  <1>3. Counted(Close(it, how), n)
    <2> DEFINE jt == Close(it, how)
    <2> HIDE DEF jt
    <2>1. jt.received = it.received /\ jt.pushQueue = it.pushQueue /\ ~jt.running /\ jt.pullQueue = 0
      BY <1>1 DEF jt
    <2>2. Counted(jt, n)
      <3>1. /\ \A i \in 1..Len(it.received) : it.received[i] = i
            /\ \A i \in 1..Len(it.pushQueue) : it.pushQueue[i] = Len(it.received) + i
            /\ Len(it.received) + Len(it.pushQueue) <= n
        BY DEF Counted
      <3>2. /\ \A i \in 1..Len(jt.received) : jt.received[i] = i
            /\ \A i \in 1..Len(jt.pushQueue) : jt.pushQueue[i] = Len(jt.received) + i
            /\ Len(jt.received) + Len(jt.pushQueue) <= n
        BY <2>1, <3>1, Zenon
      <3>3. jt.pullQueue \in {0, 1} /\ jt.pullQueue # 1
        BY <2>1
      <3> QED
        BY <2>1, <3>2, <3>3, Zenon DEF Counted
    <2> QED
      BY <2>2 DEF jt
  <1> QED
    BY <1>1, <1>2, <1>3 DEF Follows

\* A step of the iterator with the same list, or of the list alone, is a step of
\* the stream or none.
LEMMA FollowsStream ==
    ASSUME StreamInv, UNCHANGED list, Follows(out, out'), Len(out'.received) <= list
    PROVE  [Stream!Next]_(Stream!stream)
  <1>1. Len(out.received) + Len(out.pushQueue) <= list /\ Len(out.received) \in Nat /\ Len(out.pushQueue) \in Nat
    BY DEF StreamInv, ReadInv, Counted, LoopStage, TypeOK, IteratorType
  <1>2. CASE out'.received = out.received /\ out'.running = out.running
    BY <1>2 DEF Stream!stream
  <1>3. CASE out'.received = out.received /\ out.running /\ ~out'.running
    BY <1>3 DEF Stream!Next, Stream!End
  <1>4. CASE out'.received = Append(out.received, Len(out.received) + 1) /\ out.running /\ out'.running
    <2>1. Len(out'.received) = Len(out.received) + 1 /\ Len(out'.received) \in Nat
      BY <1>1, <1>4, AppendProperties DEF StreamInv, ReadInv, TypeOK, IteratorType
    <2>2. Len(out.received) < list /\ (~out'.running) = (~out.running)
      <3>1. list \in Nat
        BY MaxReceiptsAssumption DEF StreamInv, ReadInv, TypeOK
      <3>2. Len(out.received) < list
        BY <1>1, <2>1, <3>1
      <3>3. (~out'.running) = (~out.running)
        BY <1>4, Zenon
      <3> QED
        BY <3>2, <3>3
    <2> QED
      BY <1>1, <1>4, <2>1, <2>2 DEF Stream!Next, Stream!Deliver
  <1> QED
    BY <1>2, <1>3, <1>4 DEF Follows

\* pushNext() hands over what the reply holds beyond the items processed.
LEMMA PushNextFollows ==
    ASSUME StreamInv, PushNext
    PROVE  Counted(out', processed') /\ Follows(out, out') /\ out'.running = out.running
  <1>1. CASE reply > processed
    <2>1. reply \in Nat /\ processed \in Nat /\ reply - processed \in Nat \ {0} /\ out \in IteratorType(Nat)
      BY <1>1 DEF StreamInv, ReadInv, TypeOK, NoReply
    <2>2. NewItems \in Seq(Nat) /\ Len(NewItems) = reply - processed
      BY <1>1, <2>1, NewItemsType DEF StreamInv, ReadInv, NewItems, PushNext
    <2>3. \A i \in 1..(reply - processed) : NewItems[i] = processed + i
      BY DEF NewItems
    <2>4. out' = Push(out, NewItems) /\ processed' = processed + (reply - processed)
      BY <1>1, <2>1 DEF PushNext
    <2> QED
      BY <2>1, <2>2, <2>3, <2>4, PushCounts DEF StreamInv
  <1>2. CASE ~(reply > processed)
    BY <1>2 DEF PushNext, StreamInv, Follows
  <1> QED
    BY <1>1, <1>2

\* close() of the returned iterator.
LEMMA CloseOutFollows ==
    ASSUME StreamInv, NEW how \in {"done", "error"}, CloseOut(how)
    PROVE  Counted(out', processed) /\ Follows(out, out') /\ ~out'.running /\ UNCHANGED list
  <1>1. UNCHANGED list
    BY DEF CloseOut, CloseChanges, redis
  <1> QED
    BY <1>1, CloseCounts DEF CloseOut, StreamInv, ReadInv, TypeOK

\* What a step is to the stream.
LEMMA StepFollows ==
    ASSUME StreamInv, [Next]_vars
    PROVE  /\ Counted(out', processed')
           /\ \/ UNCHANGED list /\ Follows(out, out')
              \/ list' = list + 1 /\ UNCHANGED out
           /\ ~out.running => ~out'.running
  <1>1. CASE AppendReceipt
    BY <1>1 DEF AppendReceipt, StreamInv
  <1>2. CASE \/ ExecuteList \/ ExecuteSubscribe \/ DeliverNotification \/ Subscribed \/ Changed
             \/ LoopDone \/ SubscriberError \/ UNCHANGED vars
    <2>1. UNCHANGED <<list, processed, out>>
      BY <1>2 DEF ExecuteList, ExecuteSubscribe, DeliverNotification, Subscribed, Changed, LoopDone,
                  SubscriberError, CloseChanges, vars, redis
    <2> QED
      BY <2>1 DEF StreamInv, Follows
  <1>3. CASE FirstRead \/ LaterRead
    BY <1>3, PushNextFollows DEF FirstRead, LaterRead, redis
  <1>4. CASE RedisRejects \/ ChangesRejects \/ ConsumerReturn
    <2>1. UNCHANGED processed /\ \E how \in {"done", "error"} : CloseOut(how)
      BY <1>4 DEF RedisRejects, ChangesRejects, LoopFailed, ConsumerReturn
    <2> QED
      BY <2>1, CloseOutFollows
  <1>5. CASE Timeout
    <2>1. UNCHANGED <<list, processed>> /\ out' = Close(out, "error")
      BY <1>5 DEF Timeout, CloseChanges, redis
    <2> QED
      BY <2>1, CloseCounts DEF StreamInv, ReadInv, TypeOK
  <1>6. CASE ConsumerNext
    <2>1. UNCHANGED <<list, processed>> /\ out' = NextCall(out) /\ out.pullQueue = 0
      BY <1>6 DEF ConsumerNext, redis
    <2> QED
      BY <2>1, NextCallCounts DEF StreamInv, ReadInv, TypeOK
  <1> QED
    BY <1>1, <1>2, <1>3, <1>4, <1>5, <1>6 DEF Next

\* What the operations do to the end of the channel's iterator.
LEMMA EndOfChanges ==
    ASSUME NEW V, NEW it \in IteratorType(V), NEW vs, NEW how \in {"done", "error"},
           it.running => it.closedWith = "open" /\ it.seen = "open", it.seen \in {"open", it.closedWith}
    PROVE  /\ Push(it, vs).closedWith = it.closedWith /\ Push(it, vs).seen = it.seen
           /\ Push(it, vs).running = it.running
           /\ NextCall(it).closedWith = it.closedWith /\ NextCall(it).running = it.running
           /\ NextCall(it).seen \in {"open", it.closedWith} /\ (it.running => NextCall(it).seen = it.seen)
           /\ ~Close(it, how).running /\ Close(it, how).seen \in {"open", Close(it, how).closedWith}
           /\ Close(it, how).closedWith = "done" => how = "done" \/ it.closedWith = "done"
  BY DEF Push, NextCall, Close, IteratorType

\* Every step keeps the two iterators' ends together.
LEMMA ClosedTogetherStep ==
    ASSUME StreamInv, [Next]_vars
    PROVE  ClosedTogether'
  <1>1. ~out.running => ~out'.running
    BY StepFollows
  <1>2. changes \in IteratorType({"change"}) /\ ClosedTogether
    BY DEF StreamInv, ReadInv, TypeOK
  <1>3. CASE \/ AppendReceipt \/ ExecuteList \/ ExecuteSubscribe \/ Changed \/ FirstRead
             \/ ConsumerNext \/ UNCHANGED vars
    <2>1. UNCHANGED changes /\ (pc' # "exit" \/ UNCHANGED pc)
      BY <1>3 DEF AppendReceipt, ExecuteList, ExecuteSubscribe, Changed, FirstRead, ConsumerNext, vars
    <2> QED
      BY <1>1, <1>2, <2>1 DEF ClosedTogether
  <1>4. CASE DeliverNotification \/ Subscribed \/ LaterRead
    <2>1. /\ changes' = Push(changes, <<"change">>) \/ changes' = NextCall(changes)
          /\ UNCHANGED pc \/ pc' # "exit"
      BY <1>4 DEF DeliverNotification, Subscribed, LaterRead
    <2>2. /\ changes'.closedWith = changes.closedWith /\ changes'.running = changes.running
          /\ changes'.seen \in {"open", changes.closedWith} /\ (changes.running => changes'.seen = changes.seen)
      BY <1>2, <2>1, EndOfChanges DEF ClosedTogether
    <2> QED
      BY <1>1, <1>2, <2>1, <2>2 DEF ClosedTogether
  <1>5. CASE LoopDone
    BY <1>1, <1>2, <1>5 DEF LoopDone, ClosedTogether
  <1>6. CASE RedisRejects \/ ChangesRejects \/ ConsumerReturn
    <2>1. PICK how \in {"done", "error"} : CloseOut(how)
      BY <1>6 DEF RedisRejects, ChangesRejects, LoopFailed, ConsumerReturn
    <2>2. ~out'.running /\ (UNCHANGED changes \/ changes' = Close(changes, "done"))
      BY <2>1, CloseOutFollows DEF CloseOut, CloseChanges
    <2>3. /\ changes'.running => changes'.closedWith = "open" /\ changes'.seen = "open"
          /\ changes'.seen \in {"open", changes'.closedWith}
      BY <1>2, <2>2, EndOfChanges DEF ClosedTogether
    <2> QED
      BY <2>2, <2>3 DEF ClosedTogether
  <1>7. CASE Timeout
    <2>1. out' = Close(out, "error") /\ UNCHANGED pc /\ (UNCHANGED changes \/ changes' = Close(changes, "done"))
      BY <1>7 DEF Timeout, CloseChanges
    <2>2. ~out'.running
      BY <2>1, CloseCounts DEF StreamInv, ReadInv, TypeOK
    <2>3. /\ changes'.running => changes'.closedWith = "open" /\ changes'.seen = "open"
          /\ changes'.seen \in {"open", changes'.closedWith}
      BY <1>2, <2>1, EndOfChanges DEF ClosedTogether
    <2> QED
      BY <2>2, <2>3 DEF ClosedTogether
  <1>8. CASE SubscriberError
    <2>1. changes' = Close(changes, "error") /\ UNCHANGED <<pc, out>>
      BY <1>8 DEF SubscriberError, CloseChanges
    <2>2. /\ ~changes'.running /\ changes'.seen \in {"open", changes'.closedWith}
          /\ changes'.closedWith = "done" => changes.closedWith = "done"
      BY <1>2, <2>1, EndOfChanges DEF ClosedTogether
    <2> QED
      BY <1>2, <2>1, <2>2 DEF ClosedTogether
  <1> QED
    BY <1>3, <1>4, <1>5, <1>6, <1>7, <1>8 DEF Next

\* The invariant holds first, and every step keeps it.
LEMMA StreamInvariant == (Init => StreamInv) /\ (StreamInv /\ [Next]_vars => StreamInv')
  <1>1. Init => StreamInv
    <2> SUFFICES ASSUME Init PROVE StreamInv
      OBVIOUS
    <2>1. out = NewIterator /\ changes = NewIterator /\ processed = 0 /\ pc = "first"
      BY DEF Init
    <2>2. Counted(out, processed)
      BY <2>1, EmptySeq DEF Counted, NewIterator
    <2>3. ClosedTogether
      BY <2>1 DEF ClosedTogether, NewIterator
    <2> QED
      BY <2>2, <2>3, InitReadInv DEF StreamInv
  <1>2. ASSUME StreamInv, [Next]_vars PROVE StreamInv'
    BY <1>2, ReadStep, StepFollows, ClosedTogetherStep DEF StreamInv
  <1> QED
    BY <1>1, <1>2

\* A subscription gives its client the receipts of the list, each once, in the
\* order the service appended them, never one that is not there, and none after it
\* has ended: it implements the stream it promises (startListChangesIterator() of
\* data/kv-list-changes.ts over the iterator of data/kv-provider.ts).
THEOREM ReceiptsAreStreamed == Spec => ImplementsStream
  <1>1. Init => Stream!Init
    BY MaxReceiptsAssumption DEF Init, NewIterator, Stream!Init
  <1>2. ASSUME StreamInv, StreamInv', [Next]_vars PROVE [Stream!Next]_(Stream!stream)
    <2>1. CASE UNCHANGED list /\ Follows(out, out')
      <3>1. Len(out'.received) <= list
        <4>1. /\ Len(out'.received) + Len(out'.pushQueue) <= processed' /\ processed' <= list'
              /\ out'.received \in Seq(Nat) /\ out'.pushQueue \in Seq(Nat) /\ processed' \in Nat /\ list' \in Nat
          BY <1>2, MaxReceiptsAssumption DEF StreamInv, ReadInv, Counted, LoopStage, TypeOK, IteratorType
        <4>2. Len(out'.received) \in Nat /\ Len(out'.pushQueue) \in Nat
          BY <4>1
        <4>3. PICK x \in Nat, y \in Nat : x = Len(out'.received) /\ y = Len(out'.pushQueue)
          BY <4>2
        <4>4. x + y <= processed'
          BY <4>1, <4>3, Zenon
        <4>5. x <= list'
          BY <4>1, <4>4
        <4> QED
          BY <2>1, <4>3, <4>5, Zenon
      <3> QED
        BY <1>2, <2>1, <3>1, FollowsStream
    <2>2. CASE list' = list + 1 /\ UNCHANGED out
      BY <2>2 DEF Stream!Next, Stream!Publish
    <2> QED
      BY <1>2, <2>1, <2>2, StepFollows
  <1> QED
    BY <1>1, <1>2, StreamInvariant, PTL DEF Spec, ImplementsStream, Stream!Spec

\* What the client got and what waits for it are the receipts 1, 2, 3, ..., and
\* while the subscription runs none that the loop has processed is missing.
THEOREM NothingMissing == Spec => []InOrder
  <1>1. ASSUME StreamInv PROVE InOrder
    <2>1. /\ out.received \in Seq(Nat) /\ out.pushQueue \in Seq(Nat) /\ Counted(out, processed)
          /\ processed <= list
      BY <1>1 DEF StreamInv, ReadInv, TypeOK, IteratorType, LoopStage
    <2>2. /\ out.received \o out.pushQueue \in Seq(Nat)
          /\ Len(out.received \o out.pushQueue) = Len(out.received) + Len(out.pushQueue)
      BY <2>1, ConcatProperties
    <2>3. \A i \in 1..Len(out.received \o out.pushQueue) : (out.received \o out.pushQueue)[i] = i
      <3>1. \A i \in 1..Len(out.received) : out.received[i] = 0 + i
        BY <2>1 DEF Counted
      <3>2. \A i \in 1..Len(out.pushQueue) : out.pushQueue[i] = (0 + Len(out.received)) + i
        BY <2>1 DEF Counted
      <3>3. \A i \in 1..Len(out.received \o out.pushQueue) : (out.received \o out.pushQueue)[i] = 0 + i
        <4>1. 0 \in Nat
          OBVIOUS
        <4> QED
          BY <2>1, <3>1, <3>2, <4>1, RunGrows, Zenon
      <3>4. \A i \in Int : 0 + i = i
        OBVIOUS
      <3>5. \A i \in 1..Len(out.received \o out.pushQueue) : i \in Int
        OBVIOUS
      <3> QED
        BY <3>3, <3>4, <3>5, Zenon
    <2>4. DOMAIN (out.received \o out.pushQueue) = 1..Len(out.received \o out.pushQueue)
      BY <2>2
    <2> QED
      BY <2>1, <2>2, <2>3, <2>4, Zenon DEF Counted, InOrder
  <1> QED
    BY <1>1, StreamInvariant, PTL DEF Spec

\* However the loop ends, the client's iterator is closed and no call of next()
\* waits: the end of the loop never leaves a client waiting.
THEOREM NobodyLeftWaiting == Spec => []FailureIsReported
  <1>1. StreamInv => FailureIsReported
    BY DEF StreamInv, ClosedTogether, Counted, FailureIsReported
  <1> QED
    BY <1>1, StreamInvariant, PTL DEF Spec
=============================================================================
