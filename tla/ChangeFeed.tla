------------------------------ MODULE ChangeFeed ------------------------------
(***************************************************************************)
(* Document subscriptions over the change feed of a database: the listener *)
(* of the database's write-ahead log (data/database-provider.ts), the      *)
(* collections it feeds and their subscriptions (data/collection.ts,       *)
(* data/listener.ts), and the start and the stop of the server that owns   *)
(* them (server.ts, index.ts, data/data.ts).                               *)
(*                                                                         *)
(* The documents of the log are numbered by their place in it.             *)
(***************************************************************************)
EXTENDS Integers, FiniteSets, SequencesExt, DataSubscription

CONSTANTS
    Collection,   \* the collections kept in the database
    Messages,     \* the collection whose patches are skipped
    Starts,       \* the collections each start() of the provider asks to follow, in order
    Subscriber,   \* subscriptions of clients
    MaxDocs,      \* bound on the documents in the log
    MaxFailures   \* bound on the failures of listeners

VARIABLES
    subscriptionsMode, \* of the configuration
    wal,          \* log of the database: the documents written, [coll, patch]
    toStart,      \* calls of start() still to be made by data.start()
    stopState,    \* stop() of the server: "running", "closing", "stopped"
    crashed,      \* the process has ended
    following,    \* collectionsForSubscribe
    subscribed,   \* the collections registered with listenerSubscribers
    listeners,    \* the listeners made so far: [state, handlers, read]
    current,      \* the provider's listener, 0 if none
    failures,     \* number of failures of listeners
    heard,        \* documents a collection was told of, in order
    counting,     \* documents that wait for the collection's counter (statDoc)
    collOf,       \* the collection of each subscription
    phase,        \* "idle", "counting", "open", "closed"
    registered,   \* subscriptions whose listener is on docInsertOrUpdate
    subscriptionCount, \* the collections' counters
    queue,        \* queues of each subscription
    joining,      \* documents of a subscription whose joins are under way
    accepted,     \* documents a subscription took
    lost,         \* documents whose join has failed
    delivered,    \* documents its client got, in order
    ended         \* its client was told of its end

database == <<subscriptionsMode, wal>>
server == <<toStart, stopState, crashed>>
provider == <<following, subscribed, listeners, current, failures>>
feed == <<heard, counting>>
subs == <<collOf, phase, registered, subscriptionCount, queue, joining, accepted, lost, delivered,
          ended>>
vars == <<database, server, provider, feed, subs>>

Docs == 1..MaxDocs
Modes == {"arango", "external", "disabled"}

\* The server runs, with subscriptions over the change feed (useListener).
Up == ~crashed /\ subscriptionsMode = "arango"

Init ==
    /\ subscriptionsMode \in Modes
    /\ wal = <<>>
    /\ toStart = Starts /\ stopState = "running" /\ crashed = FALSE
    /\ following = {}
    /\ subscribed = IF subscriptionsMode = "arango" THEN Collection ELSE {}
    /\ listeners = <<>> /\ current = 0 /\ failures = 0
    /\ heard = <<>> /\ counting = {}
    /\ collOf = [s \in Subscriber |-> Messages]
    /\ phase = [s \in Subscriber |-> "idle"]
    /\ registered = {} /\ subscriptionCount = [c \in Collection |-> 0]
    /\ queue = [s \in Subscriber |-> NewSubscription]
    /\ joining = [s \in Subscriber |-> {}] /\ accepted = [s \in Subscriber |-> {}]
    /\ lost = [s \in Subscriber |-> {}] /\ delivered = [s \in Subscriber |-> <<>>]
    /\ ended = [s \in Subscriber |-> FALSE]

TypeOK ==
    /\ subscriptionsMode \in Modes
    /\ wal \in Seq([coll : Collection, patch : BOOLEAN])
    /\ IsSuffix(toStart, Starts) /\ stopState \in {"running", "closing", "stopped"}
    /\ crashed \in BOOLEAN
    /\ following \subseteq Collection /\ subscribed \subseteq Collection
    /\ listeners \in Seq([state : {"following", "failed", "stopped"},
                          handlers : SUBSET Collection, read : 0..MaxDocs])
    /\ current \in 0..Len(listeners) /\ failures \in 0..MaxFailures
    /\ heard \in Seq(Docs) /\ counting \subseteq Docs
    /\ collOf \in [Subscriber -> Collection]
    /\ phase \in [Subscriber -> {"idle", "counting", "open", "closed"}]
    /\ registered \subseteq Subscriber /\ subscriptionCount \in [Collection -> Nat]
    /\ queue \in [Subscriber -> [pushQueue : Seq(Docs), pulls : {0, 1}, running : BOOLEAN]]
    /\ joining \in [Subscriber -> SUBSET Docs] /\ accepted \in [Subscriber -> SUBSET Docs]
    /\ lost \in [Subscriber -> SUBSET Docs] /\ delivered \in [Subscriber -> Seq(Docs)]
    /\ ended \in [Subscriber -> BOOLEAN]

-----------------------------------------------------------------------------
(* The database *)

\* A document is written.  A patch of a message has no source and destination.
Write ==
    /\ Up /\ Len(wal) < MaxDocs
    /\ \E c \in Collection, patch \in BOOLEAN :
          /\ patch => c = Messages
          /\ wal' = Append(wal, [coll |-> c, patch |-> patch])
    /\ UNCHANGED <<subscriptionsMode, server, provider, feed, subs>>

-----------------------------------------------------------------------------
(* The listener of the database *)

\* Mutant of StopListener: the listener keeps its handlers.
StopListenerOnly(ls) ==
    [i \in DOMAIN ls |->
        IF i = current /\ ls[i].state = "following" THEN [ls[i] EXCEPT !.state = "stopped"] ELSE ls[i]]

\* checkStopListener(): the handlers are removed and the listener is stopped.
\* The timer of a failed listener is not cleared.
StopListener(ls) ==
    [i \in DOMAIN ls |->
        IF i = current
        THEN [ls[i] EXCEPT !.handlers = {},
                           !.state = IF @ = "following" THEN "stopped" ELSE @]
        ELSE ls[i]]

\* createAndStartListener(): follows the log from its end.
NewListener(colls) == [state |-> "following", handlers |-> colls, read |-> Len(wal)]

\* Mutant of StartProvider: a listener that runs is left as it is.
StartProviderOnce ==
    /\ Up /\ toStart # <<>>
    /\ toStart' = Tail(toStart)
    /\ following' = following \cup Head(toStart)
    /\ IF current = 0 /\ following' # {} /\ subscribed # {}
       THEN listeners' = Append(listeners, NewListener(following')) /\ current' = Len(listeners')
       ELSE UNCHANGED <<listeners, current>>
    /\ UNCHANGED <<database, stopState, crashed, subscribed, failures, feed, subs>>

\* start() of the provider: new collections stop the listener; one is made if
\* there is none, some collection is to be followed and somebody hears it.
StartProvider ==
    /\ Up /\ toStart # <<>>
    /\ toStart' = Tail(toStart)
    /\ following' = following \cup Head(toStart)
    /\ LET changed == following' # following
           ls == IF changed THEN StopListener(listeners) ELSE listeners
       IN IF (changed \/ current = 0) /\ following' # {} /\ subscribed # {}
          THEN listeners' = Append(ls, NewListener(following')) /\ current' = Len(listeners')
          ELSE listeners' = ls /\ current' = IF changed THEN 0 ELSE current
    /\ UNCHANGED <<database, stopState, crashed, subscribed, failures, feed, subs>>

\* The connection of a listener fails: its handler of errors sets a timer.  An
\* error of a listener without handlers is thrown, and ends the process.
ListenerFails(i) ==
    /\ Up /\ failures < MaxFailures
    /\ i \in DOMAIN listeners /\ listeners[i].state = "following"
    /\ failures' = failures + 1
    /\ IF listeners[i].handlers = {}
       THEN crashed' = TRUE /\ UNCHANGED listeners
       ELSE listeners' = [listeners EXCEPT ![i].state = "failed"] /\ UNCHANGED crashed
    /\ UNCHANGED <<database, toStart, stopState, following, subscribed, current, feed, subs>>

\* The timer fires: the listener follows the log again from its end, also if it
\* was stopped meanwhile.
RestartListener(i) ==
    /\ Up /\ i \in DOMAIN listeners /\ listeners[i].state = "failed"
    /\ listeners' = [listeners EXCEPT ![i].state = "following", ![i].read = Len(wal)]
    /\ UNCHANGED <<database, server, following, subscribed, current, failures, feed, subs>>

\* A listener reads the next document of the log; onDataEvent() tells the
\* collection, if it is followed and registered, which counts it.
Follow(i) ==
    /\ Up /\ i \in DOMAIN listeners /\ listeners[i].state = "following"
    /\ listeners[i].handlers # {} /\ listeners[i].read < Len(wal)
    /\ LET d == listeners[i].read + 1
       IN /\ listeners' = [listeners EXCEPT ![i].read = d]
          /\ IF wal[d].coll \in listeners[i].handlers \cap subscribed
             THEN heard' = Append(heard, d) /\ counting' = counting \cup {d}
             ELSE UNCHANGED feed
    /\ UNCHANGED <<database, server, following, subscribed, current, failures, subs>>

-----------------------------------------------------------------------------
(* Collections and their subscriptions *)

\* The subscriptions that take a document if it matches their filters.
Takers(d) == {s \in registered : collOf[s] = wal[d].coll /\ ~IsOverflow(queue[s])}

\* The counter of documents is done: onDocumentInsertOrUpdate() skips patches
\* and emits the document; the subscriptions whose filter it matches (any) and
\* whose queue is not full take it and start its joins.
Emit(d) ==
    /\ Up /\ d \in counting
    /\ counting' = counting \ {d}
    /\ \E takers \in IF wal[d].patch THEN {{}} ELSE SUBSET Takers(d) :
          /\ joining' = [s \in Subscriber |-> joining[s] \cup (IF s \in takers THEN {d} ELSE {})]
          /\ accepted' = [s \in Subscriber |-> accepted[s] \cup (IF s \in takers THEN {d} ELSE {})]
    /\ UNCHANGED <<database, server, provider, heard, collOf, phase, registered, subscriptionCount,
                   queue, lost, delivered, ended>>

\* fetchJoinedRecords() is done: the document is pushed.
Joined(s, d) ==
    /\ Up /\ d \in joining[s]
    /\ joining' = [joining EXCEPT ![s] = @ \ {d}]
    /\ LET push == PushValue(queue[s], d)
       IN /\ queue' = [queue EXCEPT ![s] = push.queue]
          /\ delivered' = [delivered EXCEPT ![s] = @ \o push.value]
          /\ ended' = [ended EXCEPT ![s] = @ \/ (queue[s].pulls > 0 /\ ~queue[s].running)]
    /\ UNCHANGED <<database, server, provider, feed, collOf, phase, registered, subscriptionCount,
                   accepted, lost>>

\* fetchJoinedRecords() fails: the document is logged and dropped.
JoinFails(s, d) ==
    /\ Up /\ d \in joining[s]
    /\ joining' = [joining EXCEPT ![s] = @ \ {d}]
    /\ lost' = [lost EXCEPT ![s] = @ \cup {d}]
    /\ UNCHANGED <<database, server, provider, feed, collOf, phase, registered, subscriptionCount,
                   queue, accepted, delivered, ended>>

\* A client subscribes to a collection: the counter of subscriptions is awaited.
Subscribe(s) ==
    /\ Up /\ phase[s] = "idle"
    /\ \E c \in Collection : collOf' = [collOf EXCEPT ![s] = c]
    /\ phase' = [phase EXCEPT ![s] = "counting"]
    /\ UNCHANGED <<database, server, provider, feed, registered, subscriptionCount, queue, joining,
                  accepted, lost, delivered, ended>>

\* The subscription is made and its listener registered.
Open(s) ==
    /\ Up /\ phase[s] = "counting"
    /\ phase' = [phase EXCEPT ![s] = "open"]
    /\ registered' = registered \cup {s}
    /\ subscriptionCount' = [subscriptionCount EXCEPT ![collOf[s]] = @ + 1]
    /\ UNCHANGED <<database, server, provider, feed, collOf, queue, joining, accepted, lost,
                   delivered, ended>>

\* The executor asks for the next document, unless it was told of the end.
ConsumerNext(s) ==
    /\ Up /\ phase[s] \in {"open", "closed"} /\ queue[s].pulls = 0 /\ ~ended[s]
    /\ LET next == NextCall(queue[s])
       IN /\ queue' = [queue EXCEPT ![s] = next.queue]
          /\ delivered' = [delivered EXCEPT ![s] = @ \o next.value]
          /\ ended' = [ended EXCEPT ![s] = queue[s].pushQueue # <<>> /\ ~queue[s].running]
    /\ UNCHANGED <<database, server, provider, feed, collOf, phase, registered, subscriptionCount,
                   joining, accepted, lost>>

\* Mutant of ConsumerReturn: the queues are emptied, onClose() is not called.
ConsumerReturnQuietly(s) ==
    /\ Up /\ phase[s] = "open"
    /\ phase' = [phase EXCEPT ![s] = "closed"]
    /\ queue' = [queue EXCEPT ![s] = EmptyQueue(@)]
    /\ ended' = [ended EXCEPT ![s] = @ \/ queue[s].pulls > 0]
    /\ UNCHANGED <<database, server, provider, feed, collOf, registered, subscriptionCount, joining,
                   accepted, lost, delivered>>

\* The client leaves: return() calls onClose() and empties the queues.
ConsumerReturn(s) ==
    /\ Up /\ phase[s] = "open"
    /\ phase' = [phase EXCEPT ![s] = "closed"]
    /\ registered' = registered \ {s}
    /\ subscriptionCount' = [subscriptionCount EXCEPT ![collOf[s]] = IF @ > 0 THEN @ - 1 ELSE 0]
    /\ queue' = [queue EXCEPT ![s] = EmptyQueue(@)]
    /\ ended' = [ended EXCEPT ![s] = @ \/ queue[s].pulls > 0]
    /\ UNCHANGED <<database, server, provider, feed, collOf, joining, accepted, lost, delivered>>

-----------------------------------------------------------------------------
(* The end of the server *)

\* SIGHUP, at any time after the server was made, also while it starts; a
\* second one is ignored (reloadLock).  stop() waits for the HTTP server, or
\* 50 ms.
StopBegins ==
    /\ Up /\ stopState = "running"
    /\ stopState' = "closing"
    /\ UNCHANGED <<database, toStart, crashed, provider, feed, subs>>

\* Mutant of Stop: the collections are not closed.
StopProviders ==
    /\ Up /\ stopState = "closing"
    /\ stopState' = "stopped"
    /\ listeners' = StopListener(listeners) /\ current' = 0
    /\ UNCHANGED <<database, toStart, crashed, following, subscribed, failures, feed, subs>>

\* The rest of stop(): collections are closed, which takes them off the
\* provider, and the provider stops its listener.
Stop ==
    /\ Up /\ stopState = "closing"
    /\ stopState' = "stopped"
    /\ subscribed' = {}
    /\ listeners' = StopListener(listeners) /\ current' = 0
    /\ UNCHANGED <<database, toStart, crashed, following, failures, feed, subs>>

Next ==
    \/ Write \/ StartProvider \/ StopBegins \/ Stop
    \/ \E i \in DOMAIN listeners : ListenerFails(i) \/ RestartListener(i) \/ Follow(i)
    \/ \E d \in counting : Emit(d)
    \/ \E s \in Subscriber :
          \/ \E d \in joining[s] : Joined(s, d) \/ JoinFails(s, d)
          \/ Subscribe(s) \/ Open(s) \/ ConsumerNext(s) \/ ConsumerReturn(s)

\* Timers fire, promises of the server's own steps are settled, and a listener
\* that is connected reads on.
Fairness ==
    /\ WF_vars(StartProvider) /\ WF_vars(Stop)
    /\ \A i \in 1..(Len(Starts) + 1) : WF_vars(RestartListener(i)) /\ WF_vars(Follow(i))
    /\ \A d \in Docs : WF_vars(Emit(d))

Spec == Init /\ [][Next]_vars /\ Fairness
-----------------------------------------------------------------------------
(* Properties *)

\* The current listener follows all collections that were to be started.
Followed ==
    /\ current # 0
    /\ listeners[current].state = "following"
    /\ listeners[current].handlers = UNION {Starts[i] : i \in DOMAIN Starts}

\* However often the listener is replaced, fails, and comes back, a document
\* reaches its collection at most once, and those of the log in the log's order.
HeardOnceInOrder == \A i, j \in DOMAIN heard : i < j => heard[i] < heard[j]

\* A stopped server does not go on with its feed, even when it was stopped
\* while it still started or while a failed listener was to be started again.
StoppedIsSilent ==
    [][stopState = "stopped" => heard' = heard /\ current' = 0]_vars

\* What a subscription took is, until it ends, in one place: with its joins,
\* in its queue, lost by a failed join, or delivered, once; and no call of
\* next() waits while a document is queued.
NothingLostNothingTwice ==
    \A s \in Subscriber :
        LET held == joining[s] \cup lost[s] \cup Range(queue[s].pushQueue) \cup Range(delivered[s])
        IN /\ phase[s] = "open" => held = accepted[s]
           /\ Cardinality(joining[s]) + Cardinality(lost[s]) + Len(queue[s].pushQueue)
                 + Len(delivered[s]) = Cardinality(held)
           /\ queue[s].running /\ queue[s].pulls > 0 => queue[s].pushQueue = <<>>

\* Nothing is delivered to a subscription that has ended, although joins that
\* were under way then still push their documents.
NothingAfterEnd ==
    [][\A s \in Subscriber : phase[s] = "closed" => delivered'[s] = delivered[s]]_vars

\* The listeners of a collection are those of its open subscriptions, whose
\* number it keeps, and the end of one answers the call that waited for it.
ReleasedWhenClosed ==
    /\ \A c \in Collection :
          subscriptionCount[c] = Cardinality({s \in registered : collOf[s] = c})
    /\ \A s \in Subscriber : s \in registered <=> phase[s] = "open"

\* The feed comes back: unless it is stopped, or its process has ended, the
\* server always comes to follow again all collections it was to follow.
FeedComesBack == []<>(~Up \/ stopState # "running" \/ Followed)
=============================================================================
