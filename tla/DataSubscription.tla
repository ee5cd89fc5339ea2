--------------------------- MODULE DataSubscription ---------------------------
(***************************************************************************)
(* The queues of a document subscription (QDataSubscription of             *)
(* data/listener.ts): documents that no call of next() has taken yet, and  *)
(* calls of next() that no document has answered yet.                      *)
(***************************************************************************)
EXTENDS Naturals, Sequences

CONSTANT QueueLimit   \* entries at which a new document is dropped (10)

\* A new subscription.
NewSubscription == [pushQueue |-> <<>>, pulls |-> 0, running |-> TRUE]

\* isQueueOverflow(), getQueueSize()
IsOverflow(q) == Len(q.pushQueue) + q.pulls >= QueueLimit

\* pushValue(): the document answers the oldest call, or is queued.  value is
\* what a call got: nothing, or the document.  A call that waits is a call of a
\* running subscription, as the end of a subscription answers them all; only a
\* call made later could be answered by a document and done at once.
PushValue(q, doc) ==
    IF q.pulls > 0
    THEN [queue |-> [q EXCEPT !.pulls = @ - 1],
          value |-> IF q.running THEN <<doc>> ELSE <<>>]
    ELSE [queue |-> [q EXCEPT !.pushQueue = Append(@, doc)], value |-> <<>>]

\* Mutant of NextCall: the document a call got stays in the queue.
NextCallPeeks(q) ==
    IF q.pushQueue # <<>>
    THEN [queue |-> q, value |-> IF q.running THEN <<Head(q.pushQueue)>> ELSE <<>>]
    ELSE [queue |-> [q EXCEPT !.pulls = @ + 1], value |-> <<>>]

\* next(): takes the oldest document, or waits.
NextCall(q) ==
    IF q.pushQueue # <<>>
    THEN [queue |-> [q EXCEPT !.pushQueue = Tail(@)],
          value |-> IF q.running THEN <<Head(q.pushQueue)>> ELSE <<>>]
    ELSE [queue |-> [q EXCEPT !.pulls = @ + 1], value |-> <<>>]

\* Mutant of EmptyQueue: the subscription goes on.
EmptyQueueRunning(q) == [pushQueue |-> <<>>, pulls |-> 0, running |-> TRUE]

\* emptyQueue(): all calls are answered with done, all documents dropped.
EmptyQueue(q) ==
    IF q.running THEN [pushQueue |-> <<>>, pulls |-> 0, running |-> FALSE] ELSE q
=============================================================================
