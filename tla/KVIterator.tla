----------------------------- MODULE KVIterator -----------------------------
(***************************************************************************)
(* The asynchronous iterator of data/kv-provider.ts, as a value and the    *)
(* operations of its class on that value.  It carries the notifications of *)
(* a Redis channel (data/kv-redis.ts) and the items of a list subscription *)
(* (data/kv-list-changes.ts); module ListChanges composes one of each.     *)
(*                                                                         *)
(*   pushQueue   values pushed that no call of next() has taken yet        *)
(*   pullQueue   number of next() calls still waiting; they are answered   *)
(*               first in, first out, so that their number is enough       *)
(*   closedWith  the settled state of the promise every next() races with  *)
(*   received    the values next() calls were answered with, in order      *)
(*   seen        how the iterator ended, for the reader: the first answer  *)
(*               to a next() that came from closedWith                     *)
(***************************************************************************)
EXTENDS Naturals, Sequences

NewIterator ==
    [pushQueue |-> <<>>, pullQueue |-> 0, running |-> TRUE,
     closedWith |-> "open", received |-> <<>>, seen |-> "open"]

IteratorType(Value) ==
    [pushQueue : Seq(Value), pullQueue : Nat, running : BOOLEAN,
     closedWith : {"open", "done", "error"}, received : Seq(Value),
     seen : {"open", "done", "error"}]

\* Mutant of Push: a value no call waits for is not queued.
PushUnqueued(it, vs) ==
    LET k == IF it.pullQueue < Len(vs) THEN it.pullQueue ELSE Len(vs)
    IN [it EXCEPT !.received = @ \o SubSeq(vs, 1, k), !.pullQueue = @ - k]

\* push(value), called once for each of the values vs in one synchronous run:
\* the calls that wait are answered first, the other values are queued, and a
\* closed iterator drops them all.
Push(it, vs) ==
    LET k == IF it.pullQueue < Len(vs) THEN it.pullQueue ELSE Len(vs)
    IN IF it.running
       THEN [it EXCEPT !.received = @ \o SubSeq(vs, 1, k),
                       !.pullQueue = @ - k,
                       !.pushQueue = @ \o SubSeq(vs, k + 1, Len(vs))]
       ELSE it

\* Mutant of NextCall: a closed iterator still serves what is queued.
NextCallDrains(it) ==
    IF it.pushQueue # <<>>
    THEN [it EXCEPT !.received = Append(@, Head(it.pushQueue)), !.pushQueue = Tail(@)]
    ELSE IF ~it.running THEN [it EXCEPT !.seen = it.closedWith]
    ELSE [it EXCEPT !.pullQueue = @ + 1]

\* next(): a closed iterator answers with closedWith, whatever is queued.
NextCall(it) ==
    IF ~it.running THEN [it EXCEPT !.seen = it.closedWith]
    ELSE IF it.pushQueue # <<>>
         THEN [it EXCEPT !.received = Append(@, Head(it.pushQueue)),
                         !.pushQueue = Tail(@)]
         ELSE [it EXCEPT !.pullQueue = @ + 1]

\* close(resolved, error), return() and throw(): the calls that wait lose the
\* race to closedWith.  emptyQueue() finds running = false and does nothing.
Close(it, how) ==
    IF it.running
    THEN [it EXCEPT !.running = FALSE, !.closedWith = how, !.pullQueue = 0,
                    !.seen = IF it.pullQueue > 0 THEN how ELSE @]
    ELSE it
=============================================================================
