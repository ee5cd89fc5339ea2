---------------------------- MODULE ListChanges -----------------------------
(***************************************************************************)
(* A subscription to the receipts of one message (graphql/remp.ts): a list *)
(* kept in Redis by the REMP service is read once, then a Redis channel    *)
(* tells of its changes and each notification makes the server read what   *)
(* the list holds beyond the items it has processed                        *)
(* (startListChangesIterator in data/kv-list-changes.ts).                  *)
(*                                                                         *)
(* The receipts of the list are numbered in the order the service appends  *)
(* them, so the list is its length.                                        *)
(***************************************************************************)
EXTENDS KVIterator, Integers

CONSTANT MaxReceipts    \* bound on the length of the Redis list

ASSUME MaxReceiptsAssumption == MaxReceipts \in Nat

NoReply == -1           \* Redis has not executed the LRANGE command yet

VARIABLES
    list,       \* Redis: length of the receipts list
    channel,    \* Redis: "off", "on": the keyspace channel is subscribed
    notes,      \* notifications on their way from Redis to the server
    pc,         \* where the reading loop waits
    reply,      \* length of the list when LRANGE was executed, or NoReply
    processed,  \* the loop's count of items taken from the list
    timer,      \* the timer of timeoutHandle: "off", "first", "after"
    hooked,     \* iterator.onClose is set
    out,        \* the iterator returned to the GraphQL executor
    changes,    \* the iterator of the channel's notifications
    gone,       \* the client has unsubscribed
    subscribedAt \* history: length of the list when SUBSCRIBE was executed

redis == <<list, channel, notes>>
vars == <<list, channel, notes, pc, reply, processed, timer, hooked, out, changes, gone,
          subscribedAt>>

TypeOK ==
    /\ list \in 0..MaxReceipts
    /\ channel \in {"off", "on"}
    /\ notes \in Nat
    /\ pc \in {"first", "subscribe", "subscribed", "next", "list", "exit"}
    /\ reply \in Nat \cup {NoReply}
    /\ processed \in Nat
    /\ timer \in {"off", "first", "after"}
    /\ hooked \in BOOLEAN
    /\ gone \in BOOLEAN
    /\ subscribedAt \in Nat
    /\ out \in IteratorType(Nat)
    /\ changes \in IteratorType({"change"})

Init ==
    /\ list \in 0..MaxReceipts
    /\ channel = "off" /\ notes = 0
    /\ pc = "first" /\ reply = NoReply /\ processed = 0
    /\ timer = "first" /\ hooked = FALSE
    /\ out = NewIterator /\ changes = NewIterator
    /\ gone = FALSE /\ subscribedAt = 0

-----------------------------------------------------------------------------
(* Redis and the REMP service *)

\* The service pushes a receipt to the list; Redis notifies the subscribers.
AppendReceipt ==
    /\ list < MaxReceipts
    /\ list' = list + 1
    /\ notes' = IF channel = "on" THEN notes + 1 ELSE notes
    /\ UNCHANGED <<channel, pc, reply, processed, timer, hooked, out, changes, gone, subscribedAt>>

\* Redis executes the LRANGE of a pushNext() that waits for it.
ExecuteList ==
    /\ pc \in {"first", "list"} /\ reply = NoReply
    /\ reply' = list
    /\ UNCHANGED <<redis, pc, processed, timer, hooked, out, changes, gone, subscribedAt>>

\* Redis executes the SUBSCRIBE of provider.subscribe().
ExecuteSubscribe ==
    /\ pc = "subscribe"
    /\ channel' = "on" /\ pc' = "subscribed"
    /\ subscribedAt' = list
    /\ UNCHANGED <<list, notes, reply, processed, timer, hooked, out, changes, gone>>

\* A notification reaches the listener given to subscriber.subscribe().
DeliverNotification ==
    /\ notes > 0
    /\ notes' = notes - 1
    /\ changes' = Push(changes, <<"change">>)
    /\ UNCHANGED <<list, channel, pc, reply, processed, timer, hooked, out, gone, subscribedAt>>

-----------------------------------------------------------------------------
(* The reading loop *)

\* Closing the changes iterator unsubscribes the channel; what is still on its
\* way reaches a closed iterator, which drops it.
CloseChanges(how) ==
    /\ changes' = Close(changes, how)
    /\ channel' = "off" /\ notes' = 0
    /\ UNCHANGED list

\* Mutant of CloseOut: onClose clears the timer and forgets the channel.
CloseOutOnly(how) ==
    /\ out' = Close(out, how)
    /\ timer' = IF out.running /\ hooked THEN "off" ELSE timer
    /\ UNCHANGED <<redis, changes>>

\* close() of the returned iterator.  Its onClose closes the changes iterator
\* and clears the timer; before the subscription is made there is no onClose.
CloseOut(how) ==
    /\ out' = Close(out, how)
    /\ IF out.running /\ hooked
       THEN CloseChanges("done") /\ timer' = "off"
       ELSE UNCHANGED <<redis, changes, timer>>

\* The items of the reply that are not processed yet, oldest first.
NewItems == [i \in 1..(reply - processed) |-> processed + i]

\* Mutant of PushNext: the timer is cleared and not started again.
PushNextNoTimer ==
    /\ reply # NoReply
    /\ reply' = NoReply
    /\ IF reply > processed
       THEN processed' = reply /\ out' = Push(out, NewItems) /\ timer' = "off"
       ELSE UNCHANGED <<processed, out, timer>>

\* Mutant of PushNext: the range is one item short, -(processed + 2).
PushNextShort ==
    /\ reply # NoReply
    /\ reply' = NoReply
    /\ IF reply > processed + 1
       THEN /\ processed' = reply - 1
            /\ out' = Push(out, Tail(NewItems))
            /\ timer' = "after"
       ELSE UNCHANGED <<processed, out, timer>>

\* pushNext() with the reply of list(): new items are pushed and start the
\* timer again, even when the iterator was closed meanwhile.
PushNext ==
    /\ reply # NoReply
    /\ reply' = NoReply
    /\ IF reply > processed
       THEN /\ processed' = reply
            /\ out' = Push(out, NewItems)
            /\ timer' = "after"
       ELSE UNCHANGED <<processed, out, timer>>

\* The first read, then subscribe() is called.
FirstRead ==
    /\ pc = "first" /\ PushNext
    /\ pc' = "subscribe"
    /\ UNCHANGED <<redis, hooked, changes, gone, subscribedAt>>

\* subscribe() resolves: onClose is set and the loop calls changes.next().
Subscribed ==
    /\ pc = "subscribed"
    /\ hooked' = TRUE
    /\ changes' = NextCall(changes)
    /\ pc' = "next"
    /\ UNCHANGED <<redis, reply, processed, timer, out, gone, subscribedAt>>

\* changes.next() gives a notification: pushNext() is called.
Changed ==
    /\ pc = "next" /\ changes.pullQueue = 0 /\ changes.seen = "open"
    /\ pc' = "list"
    /\ UNCHANGED <<redis, reply, processed, timer, hooked, out, changes, gone, subscribedAt>>

\* A later read, then changes.next() is called again.
LaterRead ==
    /\ pc = "list" /\ PushNext
    /\ changes' = NextCall(changes)
    /\ pc' = "next"
    /\ UNCHANGED <<redis, hooked, gone, subscribedAt>>

\* changes.next() gives done: the loop ends.
LoopDone ==
    /\ pc = "next" /\ changes.seen = "done"
    /\ pc' = "exit"
    /\ UNCHANGED <<redis, reply, processed, timer, hooked, out, changes, gone, subscribedAt>>

\* The catch of the loop: the client's iterator fails with "Internal server error".
LoopFailed ==
    /\ pc' = "exit" /\ reply' = NoReply
    /\ CloseOut("error")
    /\ UNCHANGED <<processed, hooked, gone, subscribedAt>>

\* list() or subscribe() rejects.
RedisRejects == pc \in {"first", "list", "subscribe"} /\ LoopFailed

\* changes.next() rejects, after an error of the subscriber.
ChangesRejects == pc = "next" /\ changes.seen = "error" /\ LoopFailed

\* The "error" event of the subscriber's connection.
SubscriberError ==
    /\ hooked /\ changes.running
    /\ CloseChanges("error")
    /\ UNCHANGED <<pc, reply, processed, timer, hooked, out, gone, subscribedAt>>

\* The timer fires: iterator.throw("Timeout").
Timeout ==
    /\ timer # "off"
    /\ out' = Close(out, "error")
    /\ timer' = "off"
    /\ IF out.running /\ hooked THEN CloseChanges("done") ELSE UNCHANGED <<redis, changes>>
    /\ UNCHANGED <<pc, reply, processed, hooked, gone, subscribedAt>>

-----------------------------------------------------------------------------
(* The GraphQL executor, which has one next() call at a time *)

ConsumerNext ==
    /\ ~gone /\ out.pullQueue = 0 /\ out.seen = "open"
    /\ out' = NextCall(out)
    /\ UNCHANGED <<redis, pc, reply, processed, timer, hooked, changes, gone, subscribedAt>>

\* The client unsubscribes or disconnects: iterator.return().
ConsumerReturn ==
    /\ ~gone /\ out.seen = "open"
    /\ gone' = TRUE
    /\ CloseOut("done")
    /\ UNCHANGED <<pc, reply, processed, hooked, subscribedAt>>

Next ==
    \/ AppendReceipt \/ ExecuteList \/ ExecuteSubscribe \/ DeliverNotification
    \/ FirstRead \/ Subscribed \/ Changed \/ LaterRead \/ LoopDone
    \/ RedisRejects \/ ChangesRejects \/ SubscriberError \/ Timeout
    \/ ConsumerNext \/ ConsumerReturn

\* Redis answers the commands it is sent, and the event loop runs every
\* handler that is ready.
Spec ==
    /\ Init /\ [][Next]_vars
    /\ WF_vars(ExecuteList) /\ WF_vars(ExecuteSubscribe) /\ WF_vars(DeliverNotification)
    /\ WF_vars(FirstRead \/ LaterRead) /\ WF_vars(Subscribed) /\ WF_vars(Changed)
    /\ WF_vars(LoopDone) /\ WF_vars(ChangesRejects)

-----------------------------------------------------------------------------
(* Properties *)

\* The subscription implements the stream of receipts it promises: each
\* receipt once, in order, and none after the iterator was closed.
Stream == INSTANCE ReceiptStream
          WITH published <- list, delivered <- out.received, ended <- ~out.running
ImplementsStream == Stream!Spec

\* What the client got and what waits for it are the receipts 1, 2, 3, ... of
\* the list, each once and in the order the service appended them, and nothing
\* the loop has processed is lost while the subscription runs.
InOrder ==
    LET all == out.received \o out.pushQueue
    IN /\ \A i \in DOMAIN all : all[i] = i
       /\ Len(all) <= processed /\ processed <= list
       /\ out.running => Len(all) = processed

\* Receipts can wait in Redis unread while the loop waits for a notification
\* and none is on its way, only when all of them were appended before the
\* subscription took effect: one more receipt and they are all read.
UnreadOnlyFromTheGap ==
    (pc = "next" /\ changes.pullQueue > 0 /\ notes = 0 /\ channel = "on") =>
        (processed = list \/ list = subscribedAt)

\* With no timer's help, a change that was notified is read: the receipts in
\* the list while a notification is on its way are processed, or one of the
\* two iterators is closed.
NotifiedIsRead ==
    \A n \in 1..MaxReceipts :
        (list >= n /\ notes > 0) ~> (processed >= n \/ ~out.running \/ ~changes.running)

\* An armed timer fires in the end, unless it is cleared.  NotifiedIsRead does
\* without: a notification is no use if only the timeout ends the wait for it.
TimersFire == WF_vars(Timeout)

\* A client never waits forever: each call of next() is answered by a receipt
\* or by the end of the subscription, which the timers bring at the latest.
NextIsAnswered == TimersFire => ((out.pullQueue > 0) ~> (out.pullQueue = 0))

\* When a client leaves, or the subscription ends in any other way, after the
\* channel was subscribed, the channel is unsubscribed, the loop ends, and no
\* timer stays armed.
ReleasedAfterClose ==
    TimersFire =>
        [](out.running /\ hooked =>
            [](~out.running => <>(pc = "exit" /\ channel = "off" /\ timer = "off")))

\* When Redis fails the client is told: a loop that ended leaves no client
\* waiting, and one that calls next() again gets the end of the subscription.
FailureIsReported == pc = "exit" => ~out.running /\ out.pullQueue = 0
=============================================================================
