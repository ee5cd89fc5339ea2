---------------------------- MODULE Subscriptions ----------------------------
(***************************************************************************)
(* The subscriptions of a collection, in the mode the server is configured *)
(* with (subscriptionResolver and the constructor of data/collection.ts):  *)
(* "arango" over the change feed of the database, "external" over Kafka    *)
(* and Redis, "disabled" not at all.  The two backends share the process.  *)
(***************************************************************************)
EXTENDS Integers, FiniteSets, Sequences

CONSTANTS Collection, Messages, Starts, Subscriber, MaxDocs, MaxFailures, QueueLimit,
          Client, HasHealth, MaxPublished, MaxErrors, Patience

ASSUME SubscriptionsAssumption ==
    /\ Messages \in Collection /\ Starts \in Seq(SUBSET Collection)
    /\ IsFiniteSet(Subscriber) /\ IsFiniteSet(Client) /\ HasHealth \in BOOLEAN
    /\ QueueLimit \in Nat \ {0} /\ MaxDocs \in Nat /\ MaxFailures \in Nat
    /\ MaxPublished \in Nat /\ MaxErrors \in Nat
    /\ Patience \in Nat \ {0}

VARIABLES subscriptionsMode, crashed

VARIABLES wal, toStart, stopState, following, subscribed, listeners, current, failures, heard,
          counting, collOf, phase, registered, subscriptionCount, queue, joining, accepted, lost,
          delivered, ended

VARIABLES healthy, shared, producers, producer, stage, redisOf, closed, timer, onError,
          activeCount, call, outcome, returned, listens, lease, channel, published, errors,
          failedPosts

feedVars == <<wal, toStart, stopState, following, subscribed, listeners, current, failures, heard,
              counting, collOf, phase, registered, subscriptionCount, queue, joining, accepted,
              lost, delivered, ended>>
externalVars == <<healthy, shared, producers, producer, stage, redisOf, closed, timer, onError,
                  activeCount, call, outcome, returned, listens, lease, channel, published, errors,
                  failedPosts>>
vars == <<subscriptionsMode, crashed, feedVars, externalVars>>

Feed == INSTANCE ChangeFeed
External == INSTANCE ExternalSubscriptions
                WITH Subscriber <- Client, MaxDocs <- MaxPublished, phase <- stage,
                     subscriptionCount <- activeCount

\* The mode is one for the whole life of the server.
Init == Feed!Init /\ External!Init

OverArango == Feed!Next /\ UNCHANGED externalVars

OverExternal == External!Next /\ UNCHANGED feedVars

Next == OverArango \/ OverExternal

Spec ==
    /\ Init /\ [][Next]_vars
    /\ Feed!Fairness /\ External!Fairness
-----------------------------------------------------------------------------
(* Properties of the backends, see their modules *)

\* The variables of both backends have their types, and only the backend of the
\* mode is ever used: the other has no subscription.
TypeOK ==
    /\ Feed!TypeOK /\ External!TypeOK
    /\ subscriptionsMode # "arango" => registered = {} /\ heard = <<>>
    /\ subscriptionsMode # "external" => lease = [c \in Client |-> 0] /\ healthy = <<>>

\* A document reaches its collection at most once and in the log's order, through
\* all replacements, failures and restarts of the listener.
HeardOnceInOrder == Feed!HeardOnceInOrder

\* What has ended stays silent: a server stopped while it started, or while a failed
\* listener was to be started again, does not go on with its feed, and nothing is
\* delivered to a subscription that has ended while joins were under way.
EndsAreSilent == Feed!StoppedIsSilent /\ Feed!NothingAfterEnd

\* What a subscription of the feed took is in one place: joining, queued, lost by
\* a failed join, or delivered, once.
NothingLostNothingTwice == Feed!NothingLostNothingTwice

\* The server's feed comes back after every failure of its listener.
FeedComesBack == Feed!FeedComesBack

\* A subscription of either backend that has ended, however it ended, holds
\* neither a listener nor a timer, nor a place in the counter; and one whose
\* client of Redis has failed, even while it was opened, is at its end.
ReleasedWhenClosed ==
    Feed!ReleasedWhenClosed /\ External!ReleasedWhenClosed /\ External!NoneOnFailedRedis

\* The external services know the filter of a subscription in use, unless so many of
\* its own posts have failed in a row as they wait for, and forget it after its end.
LeaseFollowsUse == []External!LeaseIsKept /\ External!EndedAreForgotten
=============================================================================
