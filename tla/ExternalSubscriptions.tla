------------------------- MODULE ExternalSubscriptions -------------------------
(***************************************************************************)
(* Document subscriptions served by external services (subscriptions mode  *)
(* "external"): the server posts the filter of a subscription to Kafka,    *)
(* then its key alone again and again to keep it alive, and passes on the  *)
(* documents that come from a channel of Redis                             *)
(* (externalSubscriptionResolver of data/collection.ts, QAsyncIterator of  *)
(* utils.ts, post-subscription.ts, subcriptions-redis.ts, and ensureShared *)
(* of request.ts).                                                         *)
(*                                                                         *)
(* The services are external: they know a filter from the post of its text *)
(* until they have missed Patience posts of its key in a row, and only by  *)
(* its text would they know it again.                                      *)
(***************************************************************************)
EXTENDS Integers, FiniteSets, Sequences

CONSTANTS Subscriber,    \* subscriptions of clients, each with a filter of its own
          HasHealth,     \* a health channel is configured
          MaxDocs,       \* bound on the documents published
          MaxErrors,     \* bound on the errors of Redis and of its health channel
          Patience       \* posts in a row after which the services forget a filter

VARIABLES
    subscriptionsMode, \* of the configuration
    \* the server
    healthy,      \* of each client of Redis made so far
    shared,       \* the client of Redis in the server's shared values, 0 if none
    producers,    \* number of Kafka producers made
    producer,     \* the producer in the shared values, 0 if none
    crashed,      \* the process has ended
    \* the subscriptions
    phase,        \* of subscribe(): "idle", "redis", "check", "connect", "send",
                  \* "open" when it has returned its iterator, "rejected"
    redisOf,      \* the client of Redis a subscription uses
    closed,       \* isClosed of its iterator
    timer,        \* the interval that keeps its filter alive
    onError,      \* terminate() is on the error event of its client of Redis
    subscriptionCount, \* of the collection
    failedPosts,  \* posts of the interval that have failed in a row, up to Patience
    call,         \* next(): "none", "waiting" for the channel, "joining"
    outcome,      \* how the client's iteration ended: "none", "done", "error"
    returned,     \* the clients that have called return()
    listens,      \* the subscriptions whose channel is subscribed, from their first next()
    \* the external services
    lease,        \* of each filter, how many more posts the services may miss; 0: it is not known
    channel,      \* documents that the client of Redis holds for the subscription
    published,    \* number of documents published
    errors

server == <<healthy, shared, producers, producer, crashed>>
resolver == <<phase, redisOf, closed, timer, onError, subscriptionCount, failedPosts>>
client == <<call, outcome, returned, listens>>
services == <<subscriptionsMode, lease, channel, published, errors>>
vars == <<server, resolver, client, services>>

Modes == {"arango", "external", "disabled"}
Redis == 1..Cardinality(Subscriber)
Message == {"document", "STOP"}

\* The server runs, with external subscriptions.
Up == ~crashed /\ subscriptionsMode = "external"

Init ==
    /\ subscriptionsMode \in Modes
    /\ healthy = <<>> /\ shared = 0 /\ producers = 0 /\ producer = 0 /\ crashed = FALSE
    /\ phase = [s \in Subscriber |-> "idle"] /\ redisOf = [s \in Subscriber |-> 0]
    /\ closed = [s \in Subscriber |-> FALSE] /\ timer = [s \in Subscriber |-> FALSE]
    /\ onError = {} /\ subscriptionCount = 0
    /\ call = [s \in Subscriber |-> "none"] /\ outcome = [s \in Subscriber |-> "none"]
    /\ returned = {} /\ listens = {}
    /\ lease = [s \in Subscriber |-> 0] /\ channel = [s \in Subscriber |-> <<>>]
    /\ published = 0 /\ errors = 0 /\ failedPosts = [s \in Subscriber |-> 0]

TypeOK ==
    /\ subscriptionsMode \in Modes
    /\ healthy \in Seq(BOOLEAN) /\ shared \in 0..Len(healthy) /\ crashed \in BOOLEAN
    /\ producers \in Nat /\ producer \in 0..producers
    /\ phase \in [Subscriber -> {"idle", "redis", "check", "connect", "send", "open", "rejected"}]
    /\ redisOf \in [Subscriber -> 0..Len(healthy)]
    /\ closed \in [Subscriber -> BOOLEAN] /\ timer \in [Subscriber -> BOOLEAN]
    /\ onError \subseteq Subscriber /\ subscriptionCount \in Nat
    /\ call \in [Subscriber -> {"none", "waiting", "joining"}]
    /\ outcome \in [Subscriber -> {"none", "done", "error"}] /\ returned \cup listens \subseteq Subscriber
    /\ lease \in [Subscriber -> 0..Patience] /\ channel \in [Subscriber -> Seq(Message)]
    /\ published \in 0..MaxDocs /\ errors \in 0..MaxErrors
    /\ failedPosts \in [Subscriber -> 0..Patience]

-----------------------------------------------------------------------------
(* The iterator of a subscription *)

\* Mutant of Close: the interval is not cleared.
CloseKeepsTimer(ss, how) ==
    /\ closed' = [s \in Subscriber |-> closed[s] \/ s \in ss]
    /\ onError' = onError \ ss
    /\ subscriptionCount' = IF subscriptionCount > Cardinality(ss)
                            THEN subscriptionCount - Cardinality(ss) ELSE 0
    /\ failedPosts' = [s \in Subscriber |-> IF s \in ss THEN 0 ELSE failedPosts[s]]
    /\ listens' = listens \ ss
    /\ LET waiting == {s \in ss : call[s] = "waiting"}
       IN /\ call' = [s \in Subscriber |-> IF s \in waiting THEN "none" ELSE call[s]]
          /\ outcome' = [s \in Subscriber |-> IF s \in waiting THEN how ELSE outcome[s]]
    /\ UNCHANGED timer

\* onClose() of some subscriptions, by return() or throw(): their timers are
\* cleared and terminate() is taken off the error event, and they leave their
\* channels.  The call of next() that waits for the channel ends at once; one
\* whose document is being joined does not.
Close(ss, how) ==
    /\ closed' = [s \in Subscriber |-> closed[s] \/ s \in ss]
    /\ timer' = [s \in Subscriber |-> timer[s] /\ s \notin ss]
    /\ onError' = onError \ ss
    /\ subscriptionCount' = IF subscriptionCount > Cardinality(ss)
                            THEN subscriptionCount - Cardinality(ss) ELSE 0
    /\ failedPosts' = [s \in Subscriber |-> IF s \in ss THEN 0 ELSE failedPosts[s]]
    /\ listens' = listens \ ss
    /\ LET waiting == {s \in ss : call[s] = "waiting"}
       IN /\ call' = [s \in Subscriber |-> IF s \in waiting THEN "none" ELSE call[s]]
          /\ outcome' = [s \in Subscriber |-> IF s \in waiting THEN how ELSE outcome[s]]

\* next(), by an executor that was not told of the end: a closed iterator is done.
ConsumerNext(s) ==
    /\ Up /\ phase[s] = "open" /\ call[s] = "none" /\ outcome[s] = "none"
    /\ IF closed[s]
       THEN outcome' = [outcome EXCEPT ![s] = "done"] /\ UNCHANGED <<call, listens>>
       ELSE /\ call' = [call EXCEPT ![s] = "waiting"] /\ listens' = listens \cup {s}
            /\ UNCHANGED outcome
    /\ UNCHANGED <<server, resolver, returned, services>>

\* The channel has a message: a document is joined; anything else terminates
\* the subscription, and the call is rejected.
Receive(s) ==
    /\ Up /\ call[s] = "waiting" /\ channel[s] # <<>>
    /\ channel' = [channel EXCEPT ![s] = Tail(@)]
    /\ IF Head(channel[s]) = "document"
       THEN /\ call' = [call EXCEPT ![s] = "joining"]
            /\ UNCHANGED <<resolver, outcome, listens>>
       ELSE Close({s}, "error") /\ UNCHANGED <<phase, redisOf>>
    /\ UNCHANGED <<subscriptionsMode, server, returned, lease, published, errors>>

\* The joins of the document are done and the client gets it, or they fail and
\* the call is rejected, which ends the iteration and closes nothing.
JoinEnds(s) ==
    /\ Up /\ call[s] = "joining"
    /\ call' = [call EXCEPT ![s] = "none"]
    /\ \E failed \in BOOLEAN :
          outcome' = IF failed THEN [outcome EXCEPT ![s] = "error"] ELSE outcome
    /\ UNCHANGED <<server, resolver, returned, listens, services>>

\* The client leaves, or has got the end: return().
ConsumerReturn(s) ==
    /\ Up /\ phase[s] = "open" /\ s \notin returned
    /\ returned' = returned \cup {s}
    /\ Close({s}, "done")
    /\ UNCHANGED <<server, phase, redisOf, services>>

-----------------------------------------------------------------------------
(* subscribe() *)

\* ensureShared("subscr-redis"), from its check to its await: the shared client
\* of Redis, or a new one.
EnsureRedis(s) ==
    /\ Up /\ phase[s] = "idle"
    /\ IF shared # 0
       THEN /\ redisOf' = [redisOf EXCEPT ![s] = shared]
            /\ phase' = [phase EXCEPT ![s] = "check"]
            /\ UNCHANGED healthy
       ELSE /\ healthy' = Append(healthy, TRUE)
            /\ redisOf' = [redisOf EXCEPT ![s] = Len(healthy')]
            /\ phase' = [phase EXCEPT ![s] = "redis"]
    /\ UNCHANGED <<shared, producers, producer, crashed, closed, timer, onError, subscriptionCount,
                   failedPosts, client, services>>

\* The new client becomes the shared one, also when another one is by now.
RedisMade(s) ==
    /\ Up /\ phase[s] = "redis"
    /\ shared' = redisOf[s]
    /\ phase' = [phase EXCEPT ![s] = "check"]
    /\ UNCHANGED <<healthy, producers, producer, crashed, redisOf, closed, timer, onError,
                   subscriptionCount, failedPosts, client, services>>

\* The first check of the health, then postSubscription() up to its await:
\* ensureShared("subscr-producer").
Check(s) ==
    /\ Up /\ phase[s] = "check"
    /\ phase' = [phase EXCEPT ![s] =
                   IF ~healthy[redisOf[s]] THEN "rejected" ELSE IF producer = 0 THEN "connect" ELSE "send"]
    /\ producers' = producers + (IF phase'[s] = "connect" THEN 1 ELSE 0)
    /\ UNCHANGED <<healthy, shared, producer, crashed, redisOf, closed, timer, onError,
                   subscriptionCount, failedPosts, client, services>>

\* The new producer has connected and becomes the shared one, or has failed to.
Connect(s) ==
    /\ Up /\ phase[s] = "connect"
    /\ \E connected \in BOOLEAN :
          /\ phase' = [phase EXCEPT ![s] = IF connected THEN "send" ELSE "rejected"]
          /\ producer' = IF connected THEN producers ELSE producer
    /\ UNCHANGED <<healthy, shared, producers, crashed, redisOf, closed, timer, onError,
                   subscriptionCount, failedPosts, client, services>>

\* The filter cannot be posted.
SendFails(s) ==
    /\ Up /\ phase[s] = "send"
    /\ phase' = [phase EXCEPT ![s] = "rejected"]
    /\ UNCHANGED <<server, redisOf, closed, timer, onError, subscriptionCount, failedPosts,
                   client, services>>

\* Mutant of Open: the health is not checked again after the filter is posted.
OpenUnchecked(s) ==
    /\ Up /\ phase[s] = "send"
    /\ lease' = [lease EXCEPT ![s] = Patience]
    /\ phase' = [phase EXCEPT ![s] = "open"]
    /\ subscriptionCount' = subscriptionCount + 1
    /\ timer' = [timer EXCEPT ![s] = TRUE] /\ onError' = onError \cup {s}
    /\ UNCHANGED <<subscriptionsMode, server, redisOf, closed, client, channel, published, errors, failedPosts>>

\* The filter is posted: the timer, the counter, the iterator and the listener
\* of errors are set, and the health is checked again.  An unhealthy Redis
\* terminates the new iterator, which undoes them, and rejects subscribe().
Open(s) ==
    /\ Up /\ phase[s] = "send"
    /\ lease' = [lease EXCEPT ![s] = Patience]
    /\ IF healthy[redisOf[s]]
       THEN /\ phase' = [phase EXCEPT ![s] = "open"]
            /\ timer' = [timer EXCEPT ![s] = TRUE] /\ onError' = onError \cup {s}
            /\ subscriptionCount' = subscriptionCount + 1
            /\ UNCHANGED closed
       ELSE /\ phase' = [phase EXCEPT ![s] = "rejected"]
            /\ closed' = [closed EXCEPT ![s] = TRUE]
            /\ UNCHANGED <<timer, onError, subscriptionCount>>
    /\ UNCHANGED <<subscriptionsMode, server, redisOf, client, channel, published, errors, failedPosts>>

\* The services miss a post of a filter that they know, and may forget it.
Missed(s) == lease' = [lease EXCEPT ![s] = IF @ = 0 THEN 0 ELSE @ - 1]

\* The key alone is posted: it renews the lease of a filter that is known and
\* tells nothing of one that is forgotten.
Posted(s) ==
    /\ lease' = [lease EXCEPT ![s] = IF @ = 0 THEN 0 ELSE Patience]
    /\ failedPosts' = [failedPosts EXCEPT ![s] = IF @ = Patience THEN @ ELSE 0]

PostFails(s) ==
    /\ Missed(s)
    /\ failedPosts' = [failedPosts EXCEPT ![s] = IF @ = Patience THEN @ ELSE @ + 1]

\* Mutant of KeepAlive: the error of a post is not caught and ends the interval.
KeepAliveUntilError(s) ==
    /\ Up /\ timer[s]
    /\ \/ Posted(s) /\ UNCHANGED timer
       \/ PostFails(s) /\ timer' = [timer EXCEPT ![s] = FALSE]
    /\ UNCHANGED <<subscriptionsMode, server, phase, redisOf, closed, onError, subscriptionCount, client, channel,
                   published, errors>>

\* The interval fires and posts the key; an error is only logged, and the
\* interval goes on.
KeepAlive(s) ==
    /\ Up /\ timer[s]
    /\ Posted(s) \/ PostFails(s)
    /\ UNCHANGED <<subscriptionsMode, server, phase, redisOf, closed, timer, onError, subscriptionCount, client,
                   channel, published, errors>>

-----------------------------------------------------------------------------
(* Redis and its health *)

\* A connection lost for long, a bad message of the health channel, or none of
\* it for too long: every subscription of the client of Redis is terminated.
\* "error" events nobody listens to are thrown.  The promises that terminate()
\* returns are rejected and unhandled, which ends the process or not by the
\* version and the flags of Node.js.
RedisError(r) ==
    /\ Up /\ r \in DOMAIN healthy /\ errors < MaxErrors
    /\ errors' = errors + 1
    /\ healthy' = [healthy EXCEPT ![r] = FALSE]
    /\ LET hear == {s \in onError : redisOf[s] = r}
       IN Close(hear, "error") /\ crashed' \in IF hear = {} THEN {TRUE} ELSE BOOLEAN
    /\ UNCHANGED <<subscriptionsMode, shared, producers, producer, phase, redisOf, returned, lease, channel, published>>

\* An "OK" of the health channel.
RedisHealthy(r) ==
    /\ Up /\ HasHealth /\ r \in DOMAIN healthy /\ ~healthy[r]
    /\ healthy' = [healthy EXCEPT ![r] = TRUE]
    /\ UNCHANGED <<shared, producers, producer, crashed, resolver, client, services>>

\* The services publish a message for a filter they know; the client of Redis
\* holds it if it listens to the channel, from the first call of next() on.
Publish(s) ==
    /\ Up /\ lease[s] > 0 /\ published < MaxDocs
    /\ published' = published + 1
    /\ \E m \in Message :
          channel' = IF s \in listens
                     THEN [channel EXCEPT ![s] = Append(@, m)] ELSE channel
    /\ UNCHANGED <<subscriptionsMode, server, resolver, client, lease, errors>>

\* Another interval has passed for a filter that nobody posts: its subscription has
\* ended, in subscribe() or later.
LeaseExpires(s) ==
    /\ Up /\ lease[s] > 0 /\ ~timer[s]
    /\ Missed(s)
    /\ UNCHANGED <<subscriptionsMode, server, resolver, client, channel, published, errors>>

Resolver(s) ==
    \/ EnsureRedis(s) \/ RedisMade(s) \/ Check(s) \/ Connect(s) \/ Open(s) \/ SendFails(s)

Next ==
    \/ \E s \in Subscriber :
          \/ Resolver(s) \/ KeepAlive(s)
          \/ ConsumerNext(s) \/ Receive(s) \/ JoinEnds(s) \/ ConsumerReturn(s)
          \/ Publish(s) \/ LeaseExpires(s)
    \/ \E r \in Redis : RedisError(r) \/ RedisHealthy(r)

\* The services forget in the end what nobody posts.
Fairness == \A s \in Subscriber : WF_vars(LeaseExpires(s))

Spec == Init /\ [][Next]_vars /\ Fairness
-----------------------------------------------------------------------------
(* Properties *)

\* A subscription that its client can read.
Alive(s) == phase[s] = "open" /\ ~closed[s]

\* However a subscription ends -- by its client, a message, an error of Redis,
\* or in subscribe() -- its timer and its listener of errors go with it, and the
\* counter never counts one that has ended.
ReleasedWhenClosed ==
    /\ \A s \in Subscriber : Alive(s) <=> timer[s]
    /\ \A s \in Subscriber : Alive(s) <=> s \in onError
    /\ subscriptionCount <= Cardinality({s \in Subscriber : Alive(s)})

\* No subscription goes on over a client of Redis that has failed, even if it
\* failed while the filter was being posted, or is one of two made at once.
NoneOnFailedRedis ==
    ~crashed => \A s \in Subscriber : Alive(s) => healthy[redisOf[s]]

\* The services know the filter of a subscription in use, unless so many of its
\* own posts have failed in a row as they wait for.
LeaseIsKept == \A s \in Subscriber : Alive(s) => lease[s] > 0 \/ failedPosts[s] = Patience

\* However a subscription has ended, also at the end of subscribe(), with its
\* filter posted already, the services are let forget its filter.
EndedAreForgotten == \A s \in Subscriber : []<>(~Up \/ Alive(s) \/ lease[s] = 0)
=============================================================================
