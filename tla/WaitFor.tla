------------------------------- MODULE WaitFor -------------------------------
(***************************************************************************)
(* Collection queries with a timeout (queryWaitFor in data/collection.ts): *)
(* a query polls the database, listens to the feed of changed documents,   *)
(* and ends by whichever comes first of an answer of the database, a       *)
(* document of the feed, the timeout, or the end of the client's           *)
(* connection.  The waits of this module are fields of one GraphQL         *)
(* request: they share its context, whose CLOSE event tells each of them   *)
(* that the client has gone, and the collection's counter of waits.        *)
(*                                                                         *)
(* A document is the set of the waits whose filter it matches.             *)
(*                                                                         *)
(* Some waits ask for the next block of a chain; they leave this module's  *)
(* handlers for those of WalkingCache, which composes both.                *)
(***************************************************************************)
EXTENDS Integers, FiniteSets

CONSTANTS Wait,     \* the waits, fields of one request
          Walks,    \* sets of waits that may be the walking ones
          MaxDocs   \* bound on the documents inserted while they run

ASSUME WaitForAssumption ==
    MaxDocs \in Nat /\ IsFiniteSet(Wait) /\ Walks \subseteq SUBSET Wait

VARIABLES
    matched,      \* database: the waits that some document matches
    feed,         \* documents on their way from the change feed
    docs,         \* number of documents inserted
    closed,       \* the client has disconnected
    walking,      \* the waits that canUseWalkingCache() is true of
    phase,        \* "idle", "waiting", "cleaning", "done", "returned"
    poll,         \* the query of queryOnce(): "none", "sent", an answer, or "timer";
                  \* "cache" while a walking wait asks the cache
    lastQuery,    \* no query follows the one under way
    answered,     \* firstQueryCompleted
    finishedBy,   \* who ended the wait, or "nobody"
    result,       \* the settled result: "pending", "docs", "empty", "error"
    deadline,     \* the timer of the timeout is armed
    listening,    \* the waits whose listener is on docInsertOrUpdate
    closeHeard,   \* the waits whose listener is on the request's CLOSE event
    waitForCount  \* the collection's counter

env == <<matched, feed, docs, closed, walking>>
wait == <<phase, poll, lastQuery, answered, finishedBy, result, deadline>>
shared == <<listening, closeHeard, waitForCount>>
vars == <<env, wait, shared>>

Reasons == {"query", "listener", "timeout", "close", "query-error", "cache"}

TypeOK ==
    /\ matched \subseteq Wait /\ feed \subseteq SUBSET Wait
    /\ docs \in 0..MaxDocs /\ closed \in BOOLEAN /\ walking \in Walks
    /\ phase \in [Wait -> {"idle", "waiting", "cleaning", "done", "returned"}]
    /\ poll \in [Wait -> {"none", "sent", "found", "nothing", "timer", "cache"}]
    /\ lastQuery \in [Wait -> BOOLEAN] /\ answered \in [Wait -> BOOLEAN]
    /\ finishedBy \in [Wait -> Reasons \cup {"nobody"}]
    /\ result \in [Wait -> {"pending", "docs", "empty", "error"}]
    /\ deadline \in [Wait -> BOOLEAN]
    /\ listening \subseteq Wait /\ closeHeard \subseteq Wait
    /\ waitForCount \in Nat

Init ==
    /\ matched \in SUBSET Wait /\ feed = {} /\ docs = 0 /\ closed = FALSE /\ walking \in Walks
    /\ phase = [w \in Wait |-> "idle"] /\ poll = [w \in Wait |-> "none"]
    /\ lastQuery = [w \in Wait |-> FALSE] /\ answered = [w \in Wait |-> FALSE]
    /\ finishedBy = [w \in Wait |-> "nobody"] /\ result = [w \in Wait |-> "pending"]
    /\ deadline = [w \in Wait |-> FALSE]
    /\ listening = {} /\ closeHeard = {} /\ waitForCount = 0

-----------------------------------------------------------------------------
(* Outside *)

\* A document is inserted into the database; the change feed will tell.
Insert ==
    /\ docs < MaxDocs
    /\ docs' = docs + 1
    /\ \E doc \in (SUBSET Wait) \ {{}} :
          matched' = matched \cup doc /\ feed' = feed \cup {doc}
    /\ UNCHANGED <<closed, walking, wait, shared>>

\* The database executes the query of a poll.
Execute(w) ==
    /\ poll[w] = "sent"
    /\ poll' = [poll EXCEPT ![w] = IF w \in matched THEN "found" ELSE "nothing"]
    /\ UNCHANGED <<env, phase, lastQuery, answered, finishedBy, result, deadline, shared>>

-----------------------------------------------------------------------------
(* One wait *)

\* Mutant of Finish: resolveBy() and failBy() do not look at finishedBy.
FinishAgain(ws, reason, how) ==
    /\ finishedBy' = [w \in Wait |-> IF w \in ws THEN reason ELSE finishedBy[w]]
    /\ result' = [w \in Wait |-> IF w \in ws THEN how ELSE result[w]]

\* resolveBy() and failBy(), for every wait of a set: the first reason counts.
\* A walking wait only notes it, and its loop makes the result.
Finish(ws, reason, how) ==
    LET first == {w \in ws : finishedBy[w] = "nobody"}
    IN /\ finishedBy' = [w \in Wait |-> IF w \in first THEN reason ELSE finishedBy[w]]
       /\ result' = [w \in Wait |-> IF w \in first \ walking THEN how ELSE result[w]]

\* Mutant of Start: nobody listens to the CLOSE event.
StartDeaf(w) ==
    /\ phase[w] = "idle" /\ w \notin walking
    /\ phase' = [phase EXCEPT ![w] = "waiting"]
    /\ poll' = [poll EXCEPT ![w] = "sent"]
    /\ deadline' = [deadline EXCEPT ![w] = TRUE]
    /\ listening' = listening \cup {w}
    /\ waitForCount' = waitForCount + 1
    /\ UNCHANGED <<env, lastQuery, answered, finishedBy, result, closeHeard>>

\* queryWaitFor() up to its await: the first query is sent, the listeners are
\* registered and the timeout is set.
Start(w) ==
    /\ phase[w] = "idle" /\ w \notin walking
    /\ phase' = [phase EXCEPT ![w] = "waiting"]
    /\ poll' = [poll EXCEPT ![w] = "sent"]
    /\ deadline' = [deadline EXCEPT ![w] = TRUE]
    /\ closeHeard' = closeHeard \cup {w}
    /\ listening' = listening \cup {w}
    /\ waitForCount' = waitForCount + 1
    /\ UNCHANGED <<env, lastQuery, answered, finishedBy, result>>

\* Mutant of Answer: the next query is scheduled even if the wait is over.
AnswerAlways(w) ==
    /\ poll[w] \in {"found", "nothing"} /\ w \notin walking
    /\ answered' = [answered EXCEPT ![w] = TRUE]
    /\ IF poll[w] = "found"
       THEN Finish({w}, "query", "docs") /\ poll' = [poll EXCEPT ![w] = "none"]
       ELSE UNCHANGED <<finishedBy, result>> /\ poll' = [poll EXCEPT ![w] = "timer"]
    /\ UNCHANGED <<env, phase, lastQuery, deadline, shared>>

\* A query of queryOnce() is answered: documents end the wait; without any the
\* next query is scheduled, unless it was the last or the wait is over.
Answer(w) ==
    /\ poll[w] \in {"found", "nothing"} /\ w \notin walking
    /\ answered' = [answered EXCEPT ![w] = TRUE]
    /\ IF poll[w] = "found"
       THEN Finish({w}, "query", "docs")
       ELSE UNCHANGED <<finishedBy, result>>
    /\ IF poll[w] = "nothing" /\ finishedBy[w] = "nobody" /\ ~lastQuery[w]
       THEN /\ poll' = [poll EXCEPT ![w] = "timer"]
            /\ \E last \in BOOLEAN : lastQuery' = [lastQuery EXCEPT ![w] = last]
       ELSE /\ poll' = [poll EXCEPT ![w] = "none"]
            /\ UNCHANGED lastQuery
    /\ UNCHANGED <<env, phase, deadline, shared>>

\* A query of queryOnce() fails.
QueryFails(w) ==
    /\ poll[w] = "sent" /\ w \notin walking
    /\ poll' = [poll EXCEPT ![w] = "none"]
    /\ Finish({w}, "query-error", "error")
    /\ UNCHANGED <<env, phase, lastQuery, answered, deadline, shared>>

\* queryTimer fires: queryOnce() sends the next query.
PollAgain(w) ==
    /\ poll[w] = "timer" /\ w \notin walking
    /\ poll' = [poll EXCEPT ![w] = "sent"]
    /\ UNCHANGED <<env, phase, lastQuery, answered, finishedBy, result, deadline, shared>>

\* Mutant of TimeoutFires: a timeout leaves the wait to the query under way.
TimeoutYields(w) ==
    /\ deadline[w] /\ w \notin walking
    /\ deadline' = [deadline EXCEPT ![w] = FALSE]
    /\ IF poll[w] = "sent"
       THEN UNCHANGED <<finishedBy, result>>
       ELSE Finish({w}, "timeout", IF answered[w] THEN "empty" ELSE "error")
    /\ UNCHANGED <<env, phase, poll, lastQuery, answered, shared>>

\* The timer of the timeout fires.  Nothing ever clears it.
TimeoutFires(w) ==
    /\ deadline[w] /\ w \notin walking
    /\ deadline' = [deadline EXCEPT ![w] = FALSE]
    /\ Finish({w}, "timeout", IF answered[w] THEN "empty" ELSE "error")
    /\ UNCHANGED <<env, phase, poll, lastQuery, answered, shared>>

\* Mutant of FeedDocument: a wait hears the feed only after its first answer.
FeedAfterAnswer ==
    /\ \E doc \in feed :
          /\ feed' = feed \ {doc}
          /\ Finish({w \in doc \cap listening : answered[w]}, "listener", "docs")
    /\ UNCHANGED <<matched, docs, closed, walking, phase, poll, lastQuery, answered, deadline, shared>>

\* onDocumentInsertOrUpdate() emits a document of the feed to every listener.
FeedDocument ==
    /\ \E doc \in feed :
          feed' = feed \ {doc} /\ Finish(doc \cap listening, "listener", "docs")
    /\ UNCHANGED <<matched, docs, closed, walking, phase, poll, lastQuery, answered, deadline, shared>>

\* The client disconnects: emitClose() calls the listeners of CLOSE.
ClientCloses ==
    /\ ~closed /\ closed' = TRUE
    /\ Finish(closeHeard, "close", "empty")
    /\ UNCHANGED <<matched, feed, docs, walking, phase, poll, lastQuery, answered, deadline, shared>>

\* The await of the result continues with the finally block, up to the await of
\* the statistics: the listener of the feed is removed.
CleanUp(w) ==
    /\ phase[w] = "waiting" /\ finishedBy[w] # "nobody" /\ w \notin walking
    /\ phase' = [phase EXCEPT ![w] = "cleaning"]
    /\ listening' = listening \ {w}
    /\ waitForCount' = IF waitForCount > 0 THEN waitForCount - 1 ELSE 0
    /\ UNCHANGED <<env, poll, lastQuery, answered, finishedBy, result, deadline, closeHeard>>

\* The rest of the finally block: queryTimer is cleared.
CleanUpEnds(w) ==
    /\ phase[w] = "cleaning"
    /\ phase' = [phase EXCEPT ![w] = "done"]
    /\ poll' = [poll EXCEPT ![w] = IF @ = "timer" THEN "none" ELSE @]
    /\ UNCHANGED <<env, lastQuery, answered, finishedBy, result, deadline, shared>>

\* The resolver of the field returns, and its finally block finishes the whole
\* request: removeAllListeners() of the context its other fields share.
Return(w) ==
    /\ phase[w] = "done"
    /\ phase' = [phase EXCEPT ![w] = "returned"]
    /\ closeHeard' = {}
    /\ UNCHANGED <<env, poll, lastQuery, answered, finishedBy, result, deadline, listening,
                   waitForCount>>

Handlers(w) ==
    Start(w) \/ Answer(w) \/ PollAgain(w) \/ CleanUp(w) \/ CleanUpEnds(w) \/ Return(w)

Next ==
    \/ \E w \in Wait : Execute(w) \/ QueryFails(w) \/ Handlers(w) \/ TimeoutFires(w)
    \/ Insert \/ FeedDocument \/ ClientCloses

\* The event loop fires the timers and runs the handlers that are ready.  The
\* database and the feed need not ever answer.
Fairness ==
    \A w \in Wait :
        WF_vars(TimeoutFires(w)) /\ WF_vars(CleanUp(w) \/ CleanUpEnds(w) \/ Return(w))
-----------------------------------------------------------------------------
(* Properties *)

\* A wait that is over has left nothing behind that would poll the database or
\* hear the feed again, even if a query was under way when it ended, and the
\* counter of waits is the number of listeners on the feed and of walking waits:
\* each wait adds itself once and takes itself away once, however it ends.
NothingLeftBehind ==
    /\ \A w \in Wait : phase[w] \in {"done", "returned"} => poll[w] # "timer" /\ w \notin listening
    /\ waitForCount = Cardinality(listening \cup {w \in walking : phase[w] = "waiting"})

\* Polling and the feed leave no gap between them: while a wait goes on, a
\* document that matches it is on its way, in a query's answer or in the feed.
NoDocumentMissed ==
    \A w \in Wait \ walking :
        phase[w] = "waiting" /\ finishedBy[w] = "nobody" /\ w \in matched =>
            poll[w] \in {"sent", "found"} \/ \E doc \in feed : w \in doc

\* Of the answers, the feed, the timeout, the failures and the client's leaving
\* the first one decides, and no later one changes the result.  "If query timeout
\* was triggered before the db responded ... the client will receive error": an
\* empty result is given to a client that is still there only after the database
\* has answered at least once.  A client that goes away ends its waits at once, as
\* long as no field of their request has returned.
FirstReasonDecides ==
    [][\A w \in Wait :
          /\ ClientCloses /\ phase[w] = "waiting" /\ (\A v \in Wait : phase[v] # "returned") =>
                finishedBy'[w] # "nobody"
          /\ finishedBy[w] # "nobody" /\ w \notin walking =>
                finishedBy'[w] = finishedBy[w] /\ result'[w] = result[w]
          /\ result[w] # "pending" => result'[w] = result[w]
          /\ result[w] = "pending" /\ result'[w] = "empty" => answered'[w] \/ closed']_vars

\* Every wait returns, so that the server comes to a state where none is under
\* way: with the timeout at the latest, even if the database never answers or
\* the last query is behind it, and whatever the other waits did.  A walking wait
\* returns if the cache and the database answer it or fail.
EveryWaitReturns == []<>(\A w \in Wait : phase[w] \in {"idle", "returned"})

\* The test "Release Aborted Requests": the waits of an aborted request end.
AbortReleases ==
    [][ClientCloses =>
          \A w \in Wait : phase[w] = "waiting" => finishedBy'[w] # "nobody"]_vars
=============================================================================
