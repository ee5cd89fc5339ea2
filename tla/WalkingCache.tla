----------------------------- MODULE WalkingCache -----------------------------
(***************************************************************************)
(* Waiting queries that walk a chain (data/resolveUsingCache.ts): a query  *)
(* for the block after a given one looks into a cache that another service *)
(* fills, and once into the database, until it has the block or its time   *)
(* is over.  It shares the request's CLOSE event and the collection's      *)
(* counter with the waits of WaitFor.                                      *)
(***************************************************************************)
EXTENDS WaitFor

VARIABLE cached   \* the walking waits whose block the cache holds

walkVars == <<vars, cached>>

WalkInit == Init /\ cached \in SUBSET walking

WalkTypeOK == TypeOK /\ cached \subseteq walking

\* Another service puts the next block into the cache.
CacheBlock(w) ==
    /\ w \in walking \ cached
    /\ cached' = cached \cup {w}
    /\ UNCHANGED vars

\* queryWaitFor() and resolveUsingCache() up to the first await that takes time.
StartWalk(w) ==
    /\ phase[w] = "idle" /\ w \in walking
    /\ phase' = [phase EXCEPT ![w] = "waiting"]
    /\ poll' = [poll EXCEPT ![w] = "cache"]
    /\ deadline' = [deadline EXCEPT ![w] = TRUE]
    /\ closeHeard' = closeHeard \cup {w}
    /\ waitForCount' = waitForCount + 1
    /\ UNCHANGED <<env, lastQuery, answered, finishedBy, result, listening, cached>>

\* The loop ends, with its finally block.  The reason replaces one of before.
EndWalk(w, reason, how) ==
    /\ phase' = [phase EXCEPT ![w] = "done"]
    /\ poll' = [poll EXCEPT ![w] = "none"]
    /\ finishedBy' = [finishedBy EXCEPT ![w] = reason]
    /\ result' = [result EXCEPT ![w] = how]
    /\ waitForCount' = IF waitForCount > 0 THEN waitForCount - 1 ELSE 0

\* Neither has the block: the loop sleeps, unless its time is over.
SleepOrEnd(w) ==
    IF deadline[w]
    THEN poll' = [poll EXCEPT ![w] = "timer"] /\ UNCHANGED <<phase, finishedBy, result, waitForCount>>
    ELSE EndWalk(w, "timeout", "empty")

\* The cache answers.  The database is asked only once, after the first answer.
CacheAnswers(w) ==
    /\ poll[w] = "cache"
    /\ IF w \in cached THEN EndWalk(w, "cache", "docs")
       ELSE IF answered[w] THEN SleepOrEnd(w)
       ELSE poll' = [poll EXCEPT ![w] = "sent"] /\ UNCHANGED <<phase, finishedBy, result, waitForCount>>
    /\ UNCHANGED <<env, lastQuery, answered, deadline, listening, closeHeard, cached>>

\* The database has executed the query.
DatabaseAnswers(w) ==
    /\ poll[w] \in {"found", "nothing"} /\ w \in walking
    /\ answered' = [answered EXCEPT ![w] = TRUE]
    /\ IF poll[w] = "found" THEN EndWalk(w, "query", "docs") ELSE SleepOrEnd(w)
    /\ UNCHANGED <<env, lastQuery, deadline, listening, closeHeard, cached>>

\* The cache or the database fails, and the query with it.
WalkFails(w) ==
    /\ poll[w] \in {"cache", "sent"} /\ w \in walking
    /\ EndWalk(w, "query-error", "error")
    /\ UNCHANGED <<env, lastQuery, answered, deadline, listening, closeHeard, cached>>

\* The sleep is over.  Only here is the end of the connection noticed.
WakeUp(w) ==
    /\ poll[w] = "timer" /\ w \in walking
    /\ IF finishedBy[w] # "nobody" THEN EndWalk(w, finishedBy[w], "empty")
       ELSE poll' = [poll EXCEPT ![w] = "cache"] /\ UNCHANGED <<phase, finishedBy, result, waitForCount>>
    /\ UNCHANGED <<env, lastQuery, answered, deadline, listening, closeHeard, cached>>

\* The time of a walking wait passes; it has no timer.
TimePasses(w) ==
    /\ deadline[w] /\ w \in walking
    /\ deadline' = [deadline EXCEPT ![w] = FALSE]
    /\ UNCHANGED <<env, phase, poll, lastQuery, answered, finishedBy, result, shared, cached>>

Walk(w) ==
    \/ CacheAnswers(w) \/ WalkFails(w) \/ DatabaseAnswers(w) \/ WakeUp(w)
    \/ w \in walking /\ Execute(w) /\ UNCHANGED cached

WalkNext ==
    \/ Next /\ UNCHANGED cached
    \/ \E w \in Wait : CacheBlock(w) \/ StartWalk(w) \/ Walk(w) \/ TimePasses(w)

\* Of a walking wait, the cache and the database answer or fail (their clients
\* give up after a number of retries and a run time), and sleeps end.
WalkSpec ==
    /\ WalkInit /\ [][WalkNext]_walkVars
    /\ Fairness /\ \A w \in Wait : WF_walkVars(Walk(w)) /\ WF_walkVars(TimePasses(w))
=============================================================================
