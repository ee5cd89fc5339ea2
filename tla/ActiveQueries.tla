---------------------------- MODULE ActiveQueries ----------------------------
(***************************************************************************)
(* The queries of one database that are running or kept for a while        *)
(* (ActiveQueries in data/database-provider.ts), and the pages made of     *)
(* their results (processPaginatedQueryResult in                           *)
(* graphql/blockchain/helpers.ts).                                         *)
(*                                                                         *)
(* Requests with the same text and variables share one flight: one query   *)
(* sent to the database, and the array of rows it returns.  A flight is    *)
(* named after the request that started it.  With resultTTL the flight     *)
(* stays among the items when it has landed, until a later request drains  *)
(* the items that are over time.  Each request cuts its page out of the    *)
(* array of its flight in place.                                           *)
(***************************************************************************)
EXTENDS Integers

CONSTANTS Request,   \* calls of query()
          Key,       \* the text and variables of a query
          NoOne,     \* no flight
          KeyOf,     \* the key of each request
          TTL,       \* resultTTL; 0: none
          Limit,     \* the LIMIT of the queries: the size of a page and one more
          MaxTime    \* bound on the clock

ASSUME ActiveQueriesAssumption ==
    /\ KeyOf \in [Request -> Key] /\ NoOne \notin Request
    /\ TTL \in Nat /\ Limit \in Nat \ {0} /\ MaxTime \in Nat \ {0}

VARIABLES
    now,        \* Date.now()
    items,      \* the flight each key is served by, or NoOne
    planned,    \* this.drainTime; 0: undefined
    flight,     \* of each request that started a query: "none", "running", "landed", "failed"
    drainTime,  \* of each flight: its drainTime; 0: undefined
    landedAt,   \* of each flight: when its result came
    found,      \* of each flight: how many rows the database returned
    rows,       \* of each flight: how many rows its array has now
    asked,      \* of each request: when query() was called; 0: not yet
    source,     \* of each request: the flight it waits for
    page        \* of each request: its page, or NoPage

vars == <<now, items, planned, flight, drainTime, landedAt, found, rows, asked, source, page>>

Time == 1..MaxTime
NoPage == [rows |-> 0, more |-> FALSE, made |-> FALSE]

TypeOK ==
    /\ now \in Time
    /\ items \in [Key -> Request \cup {NoOne}]
    /\ planned \in Nat
    /\ flight \in [Request -> {"none", "running", "landed", "failed"}]
    /\ drainTime \in [Request -> Nat] /\ landedAt \in [Request -> {0} \cup Time]
    /\ found \in [Request -> 0..Limit] /\ rows \in [Request -> 0..Limit]
    /\ asked \in [Request -> {0} \cup Time]
    /\ source \in [Request -> Request \cup {NoOne}]
    /\ page \in [Request -> [rows : 0..Limit, more : BOOLEAN, made : BOOLEAN]]

Init ==
    /\ now = 1
    /\ items = [k \in Key |-> NoOne] /\ planned = 0
    /\ flight = [r \in Request |-> "none"]
    /\ drainTime = [r \in Request |-> 0] /\ landedAt = [r \in Request |-> 0]
    /\ found = [r \in Request |-> 0] /\ rows = [r \in Request |-> 0]
    /\ asked = [r \in Request |-> 0] /\ source = [r \in Request |-> NoOne]
    /\ page = [r \in Request |-> NoPage]

-----------------------------------------------------------------------------
Tick ==
    /\ now < MaxTime /\ now' = now + 1
    /\ UNCHANGED <<items, planned, flight, drainTime, landedAt, found, rows, asked, source, page>>

\* Mutant of DrainDue: once planned, the drain is forgotten.
DrainDueOnce == TTL > 0 /\ planned = 0

\* drainIfRequired(): the items are looked through when the planned time has come.
DrainDue == TTL > 0 /\ planned <= now

\* Mutant of OverTime: an item without a drain time is over time.
OverTimeRunning(f) == drainTime[f] < now

\* A flight whose drain time is set and over.
OverTime(f) == drainTime[f] # 0 /\ drainTime[f] < now

\* The items that query() looks its key up in.
Kept ==
    [k \in Key |-> IF DrainDue /\ items[k] \in Request /\ OverTime(items[k])
                   THEN NoOne ELSE items[k]]

\* query(): the request joins the flight of its key or starts one.
Query(r) ==
    /\ asked[r] = 0
    /\ asked' = [asked EXCEPT ![r] = now]
    /\ planned' = IF DrainDue THEN now + TTL ELSE planned
    /\ IF Kept[KeyOf[r]] # NoOne
       THEN /\ items' = Kept
            /\ source' = [source EXCEPT ![r] = Kept[KeyOf[r]]]
            /\ UNCHANGED flight
       ELSE /\ items' = [Kept EXCEPT ![KeyOf[r]] = r]
            /\ source' = [source EXCEPT ![r] = r]
            /\ flight' = [flight EXCEPT ![r] = "running"]
    /\ UNCHANGED <<now, drainTime, landedAt, found, rows, page>>

\* The database returns the rows of a flight: it gets its drain time, or leaves
\* the items.
Land(f) ==
    /\ flight[f] = "running"
    /\ flight' = [flight EXCEPT ![f] = "landed"]
    /\ landedAt' = [landedAt EXCEPT ![f] = now]
    /\ \E n \in 0..Limit : found' = [found EXCEPT ![f] = n] /\ rows' = [rows EXCEPT ![f] = n]
    /\ IF TTL > 0
       THEN drainTime' = [drainTime EXCEPT ![f] = asked[f] + TTL] /\ UNCHANGED items
       ELSE items' = [items EXCEPT ![KeyOf[f]] = NoOne] /\ UNCHANGED drainTime
    /\ UNCHANGED <<now, planned, asked, source, page>>

\* The query of a flight fails, and with it the requests that wait for it.
Fail(f) ==
    /\ flight[f] = "running"
    /\ flight' = [flight EXCEPT ![f] = "failed"]
    /\ items' = [items EXCEPT ![KeyOf[f]] = NoOne]
    /\ UNCHANGED <<now, planned, drainTime, landedAt, found, rows, asked, source, page>>

\* Mutant of CutTo: the last row is taken off whether or not there are too many.
CutLast(n) == n - 1

\* What is left of an array of n rows when the page is cut out of it.
CutTo(n) == IF n >= Limit THEN Limit - 1 ELSE n

\* processPaginatedQueryResult() with the array of the flight.
Page(r) ==
    /\ source[r] # NoOne /\ flight[source[r]] = "landed" /\ ~page[r].made
    /\ rows' = [rows EXCEPT ![source[r]] = CutTo(rows[source[r]])]
    /\ page' = [page EXCEPT ![r] = [rows |-> CutTo(rows[source[r]]),
                                    more |-> rows[source[r]] >= Limit,
                                    made |-> TRUE]]
    /\ UNCHANGED <<now, items, planned, flight, drainTime, landedAt, found, asked, source>>

Next ==
    \/ Tick
    \/ \E r \in Request : Query(r) \/ Land(r) \/ Fail(r) \/ Page(r)

Spec == Init /\ [][Next]_vars
-----------------------------------------------------------------------------
(* Properties *)

\* "Database query deduplication": two queries that run at the same time are
\* different, whatever was drained, failed or came back in between.
Deduplicated ==
    \A f, g \in Request :
        flight[f] = "running" /\ flight[g] = "running" /\ KeyOf[f] = KeyOf[g] => f = g

\* A request can only find a flight of its own query that runs, or whose result
\* is kept because resultTTL says so: never a failure.
ItemsAreUsable ==
    \A k \in Key : items[k] # NoOne =>
        /\ KeyOf[items[k]] = k
        /\ \/ flight[items[k]] = "running"
           \/ flight[items[k]] = "landed" /\ TTL > 0

\* The flights that served a request after they had landed.
Hits == {r \in Request : source[r] # NoOne /\ landedAt[source[r]] # 0
                         /\ asked[r] > landedAt[source[r]]}

\* How old a result taken from the items can be: its query was sent less than
\* two resultTTL before, or it came less than one resultTTL before.  (The items
\* are looked through at most once in a resultTTL, and the drain time counts
\* from the start of the query.)
AgeIsBounded ==
    \A r \in Hits : \/ asked[r] - asked[source[r]] < 2 * TTL
                    \/ asked[r] - landedAt[source[r]] < TTL

\* Pages cut out of a shared array have all the rows they should have, in
\* whatever order and number they are cut.
PagesAreWhole ==
    \A r \in Request : page[r].made =>
        page[r].rows = IF found[source[r]] = Limit THEN Limit - 1 ELSE found[source[r]]

\* The expectation of the test of blocks(first: 2): hasNextPage tells whether
\* the database returned more rows than the page has.
HasNextPageIsRight ==
    \A r \in Request : page[r].made => (page[r].more <=> found[source[r]] >= Limit)
=============================================================================
