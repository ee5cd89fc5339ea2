-------------------------- MODULE ChainOrderBoundary --------------------------
(***************************************************************************)
(* The reliable chain order boundary (data/blockchain.ts) and the          *)
(* cursor-based pagination that rests on it (graphql/blockchain).          *)
(*                                                                         *)
(* A client walks a connection page by page.  Each page takes one call of  *)
(* getReliableChainOrderUpperBoundary() for every filter of its query and  *)
(* then a query of the databases for the rows between the cursor and the   *)
(* boundary.  The boundary is cached for a period; it comes from the       *)
(* summaries that a verification service keeps in the databases of         *)
(* chainRangesVerification, and concurrent calls share their queries       *)
(* (ActiveQueries, with no result kept).                                   *)
(*                                                                         *)
(* A chain order is a number.  The strings of the code are prefixed with   *)
(* their length (toU64String), so that they sort as the numbers do; the    *)
(* empty string is 0.                                                      *)
(***************************************************************************)
EXTENDS Integers, Sequences, FiniteSets

CONSTANTS
    Walker,       \* clients, each walking one connection
    Forward,      \* the walkers that use first/after; the others use last/before
    Part,         \* kinds of rows: e.g. the inbound and the outbound messages
    Filters,      \* of each walker: the kinds each filter of its query asks for
    Database,     \* databases the rows are in
    Verifiers,    \* number of databases the summary is in
    Vouches,      \* of each database: the summary that vouches for its rows
    First,        \* rows in a page
    Period,       \* CHAIN_ORDER_UPPER_BOUNDARY_UPDATE_PERIOD, in ticks
    MaxOrder,     \* bound on the chain orders
    LowestSummary \* 1, or 0 if a summary may start without a boundary

Verifier == 1..Verifiers
Order == 1..MaxOrder
Boundary == 0..(MaxOrder + 1)
Age == 0..Period
NotRead == -1
Flight == [db : Verifier, read : Boundary \cup {NotRead}, callers : SUBSET Walker]

ASSUME BoundaryAssumption ==
    /\ Forward \subseteq Walker
    /\ Filters \in [Walker -> Seq(SUBSET Part)]
    /\ \A w \in Walker : Filters[w] # <<>>
    /\ Verifiers \in Nat \ {0} /\ Vouches \in [Database -> Verifier]
    /\ First \in Nat \ {0} /\ Period \in Nat \ {0} /\ MaxOrder \in Nat \ {0}
    /\ LowestSummary \in {0, 1}

VARIABLES
    rows,       \* the rows of the databases
    published,  \* the boundary each summary gives: the rows below are all there
    cache,      \* reliableChainOrderUpperBoundary; age: time since lastCheckTime
    pc,         \* of each walker's page
    bounds,     \* the boundaries its filters have got
    age,        \* of a call that awaits the summaries: time since it began
    summaries,  \* of a call that awaits the summaries: those it has got
    flights,    \* the queries for summaries under way, with their callers
    waiting,    \* of a query for rows: databases that have not answered
    found,      \* of a query for rows: the chain orders found
    delivered   \* history: the chain orders the walker has received

database == <<rows, published>>
call == <<age, summaries>>
page == <<pc, bounds, call, waiting, found>>
vars == <<database, cache, flights, page, delivered>>

TypeOK ==
    /\ rows \subseteq [order : Order, part : Part, db : Database]
    /\ published \in [Verifier -> Boundary]
    /\ cache \in [boundary : Boundary, age : Age]
    /\ pc \in [Walker -> {"idle", "filter", "summary", "rows", "failed"}]
    /\ bounds \in [Walker -> Seq(Boundary)]
    /\ age \in [Walker -> Age]
    /\ summaries \in [Walker -> [Verifier -> Boundary \cup {NotRead}]]
    /\ flights \subseteq Flight
    /\ waiting \in [Walker -> SUBSET Database]
    /\ found \in [Walker -> SUBSET Order]
    /\ delivered \in [Walker -> SUBSET Order]

Least(S) == CHOOSE n \in S : \A m \in S : n <= m
Greatest(S) == CHOOSE n \in S : \A m \in S : m <= n

NothingRead == [v \in Verifier |-> NotRead]

\* lastCheckTime is 0: nothing is cached.
Init ==
    /\ rows = {}
    /\ published = [v \in Verifier |-> LowestSummary]
    /\ cache = [boundary |-> 0, age |-> Period]
    /\ pc = [w \in Walker |-> "idle"]
    /\ bounds = [w \in Walker |-> <<>>]
    /\ age = [w \in Walker |-> 0]
    /\ summaries = [w \in Walker |-> NothingRead]
    /\ flights = {}
    /\ waiting = [w \in Walker |-> {}]
    /\ found = [w \in Walker |-> {}]
    /\ delivered = [w \in Walker |-> {}]

-----------------------------------------------------------------------------
(* The databases and time *)

Inserted == {r.order : r \in rows}

\* The parser inserts a row, never below what is vouched for.
Insert(n, p, d) ==
    /\ n \notin Inserted /\ n >= published[Vouches[d]]
    /\ rows' = rows \cup {[order |-> n, part |-> p, db |-> d]}
    /\ UNCHANGED <<published, cache, flights, page, delivered>>

\* The verification service raises a boundary.
Publish(v, b) ==
    /\ b > published[v]
    /\ published' = [published EXCEPT ![v] = b]
    /\ UNCHANGED <<rows, cache, flights, page, delivered>>

Older(a) == IF a < Period THEN a + 1 ELSE a

Tick ==
    /\ cache' = [cache EXCEPT !.age = Older(@)]
    /\ age' = [w \in Walker |-> IF pc[w] = "summary" THEN Older(age[w]) ELSE age[w]]
    /\ UNCHANGED <<database, flights, pc, bounds, summaries, waiting, found, delivered>>

-----------------------------------------------------------------------------
(* The boundary: getReliableChainOrderUpperBoundary() *)

\* The summaries that are left of those read, combineResults(): every summary
\* has the _key "summary", so that only the first database's is kept.
Distinct(replies) == {replies[1]}

\* result.reduce() from "z"; a summary without a boundary counts as "".
BoundaryOf(replies) == Least(Distinct(replies))

\* Mutant of Fresh: the boundary is cached for good.
FreshForever == cache.boundary # 0

\* now < lastCheckTime + CHAIN_ORDER_UPPER_BOUNDARY_UPDATE_PERIOD
Fresh == cache.age < Period

\* A filter has its boundary: the next filter asks for its own, or the query
\* for the rows is sent to each database.
Bounded(w, b) ==
    /\ bounds' = [bounds EXCEPT ![w] = Append(@, b)]
    /\ IF Len(bounds[w]) + 1 < Len(Filters[w])
         THEN pc' = [pc EXCEPT ![w] = "filter"] /\ UNCHANGED waiting
         ELSE /\ pc' = [pc EXCEPT ![w] = "rows"]
              /\ waiting' = [waiting EXCEPT ![w] = Database]

\* Mutant of Joined: each call sends queries of its own.
Apart(w) == flights \cup [db : Verifier, read : {NotRead}, callers : {{w}}]

\* ActiveQueries.query(): a caller joins the query of a database that is under
\* way, and sends it where there is none.
Joined(w) ==
    {[f EXCEPT !.callers = @ \cup {w}] : f \in flights} \cup
    [db : Verifier \ {f.db : f \in flights}, read : {NotRead}, callers : {{w}}]

UseCached(w) ==
    /\ pc[w] = "filter" /\ Fresh
    /\ Bounded(w, cache.boundary)
    /\ UNCHANGED <<database, cache, flights, call, found, delivered>>

AskSummary(w) ==
    /\ pc[w] = "filter" /\ ~Fresh
    /\ pc' = [pc EXCEPT ![w] = "summary"]
    /\ flights' = Joined(w)
    /\ UNCHANGED <<database, cache, bounds, call, waiting, found, delivered>>

\* The database executes a query for its summary.
ReadSummary(f) ==
    /\ f.read = NotRead
    /\ flights' = (flights \ {f}) \cup {[f EXCEPT !.read = published[f.db]]}
    /\ UNCHANGED <<database, cache, page, delivered>>

\* The answer reaches the server, and each of the callers.
SummaryArrives(f) ==
    /\ f.read # NotRead
    /\ flights' = flights \ {f}
    /\ summaries' = [w \in Walker |->
                       IF w \in f.callers THEN [summaries[w] EXCEPT ![f.db] = f.read]
                       ELSE summaries[w]]
    /\ UNCHANGED <<database, cache, pc, bounds, age, waiting, found, delivered>>

\* All the summaries a call asked for have arrived.
Answered(w) == pc[w] = "summary" /\ \A v \in Verifier : summaries[w][v] # NotRead

\* Its caller goes on before the event loop takes the next event.
Settled == \A w \in Walker : ~Answered(w)

\* lastCheckTime is the time the call was made at, before its queries.
SummaryLands(w) ==
    /\ Answered(w)
    /\ cache' = [boundary |-> BoundaryOf(summaries[w]), age |-> age[w]]
    /\ Bounded(w, BoundaryOf(summaries[w]))
    /\ age' = [age EXCEPT ![w] = 0]
    /\ summaries' = [summaries EXCEPT ![w] = NothingRead]
    /\ UNCHANGED <<database, flights, found, delivered>>

-----------------------------------------------------------------------------
(* The pages *)

\* The cursor of the client: endCursor or startCursor of its last page.
Cursor(w) ==
    IF delivered[w] = {} THEN 0
    ELSE IF w \in Forward THEN Greatest(delivered[w]) ELSE Least(delivered[w])

Start(w) == IF w \in Forward THEN Cursor(w) ELSE 0
Before(w) == IF w \in Forward THEN 0 ELSE Cursor(w)

\* Mutant of End: without `before` there is no bound.
EndWithoutBoundary(w, b) == IF b < Before(w) THEN b ELSE Before(w)

\* end_chain_order: the smaller of `before` and the boundary.
End(w, b) == IF Before(w) # 0 /\ Before(w) < b THEN Before(w) ELSE b

\* The filter on chain_order.  An empty end_chain_order is no bound.
InRange(w, n, b) == n > Start(w) /\ (End(w, b) = 0 \/ n < End(w, b))

Matching(w, d) ==
    {r.order : r \in {s \in rows : s.db = d /\ \E i \in DOMAIN bounds[w] :
                        s.part \in Filters[w][i] /\ InRange(w, s.order, bounds[w][i])}}

\* Mutant of Precedes: the page is cut at the wrong end.
PrecedesBackward(w, m, n) == n < m

\* Which of two rows a walk comes to first: SORT, and the end splice() cuts.
Precedes(w, m, n) == IF w \in Forward THEN m < n ELSE n < m

\* S in the order of the walk, cut at k rows.
IsCut(R, S, k, w) ==
    /\ R \subseteq S
    /\ \A n \in R, m \in S : Precedes(w, m, n) => m \in R
    /\ Cardinality(R) = IF Cardinality(S) < k THEN Cardinality(S) ELSE k

\* The client asks for the next page.
Ask(w) ==
    /\ pc[w] \in {"idle", "failed"}
    /\ pc' = [pc EXCEPT ![w] = "filter"]
    /\ UNCHANGED <<database, cache, flights, bounds, call, waiting, found, delivered>>

\* A database answers: SORT and LIMIT, one row more than the page holds.
ReadRows(w, d) ==
    /\ pc[w] = "rows" /\ d \in waiting[w]
    /\ \E R \in SUBSET Matching(w, d) :
         /\ IsCut(R, Matching(w, d), First + 1, w)
         /\ found' = [found EXCEPT ![w] = @ \cup R]
    /\ waiting' = [waiting EXCEPT ![w] = @ \ {d}]
    /\ UNCHANGED <<database, cache, flights, pc, bounds, call, delivered>>

\* The pages of the walkers W end.
Ended(W, how) ==
    /\ pc' = [w \in Walker |-> IF w \in W THEN how ELSE pc[w]]
    /\ bounds' = [w \in Walker |-> IF w \in W THEN <<>> ELSE bounds[w]]
    /\ age' = [w \in Walker |-> IF w \in W THEN 0 ELSE age[w]]
    /\ summaries' = [w \in Walker |-> IF w \in W THEN NothingRead ELSE summaries[w]]
    /\ waiting' = [w \in Walker |-> IF w \in W THEN {} ELSE waiting[w]]
    /\ found' = [w \in Walker |-> IF w \in W THEN {} ELSE found[w]]
    /\ UNCHANGED <<database, cache>>

\* The page is cut from what was found (processPaginatedQueryResult) and sent.
PageLands(w) ==
    /\ pc[w] = "rows" /\ waiting[w] = {}
    /\ \E R \in SUBSET found[w] :
         /\ IsCut(R, found[w], First, w)
         /\ delivered' = [delivered EXCEPT ![w] = @ \cup R]
    /\ Ended({w}, "idle") /\ UNCHANGED flights

\* A query is rejected, and with it the requests that wait for it; their
\* clients keep their cursors, and their other queries go on.
SummaryFails(f) ==
    /\ flights' = {[g EXCEPT !.callers = @ \ f.callers] : g \in flights \ {f}}
    /\ Ended(f.callers, "failed") /\ UNCHANGED delivered

RowsFail(w) ==
    /\ pc[w] = "rows"
    /\ Ended({w}, "failed") /\ UNCHANGED <<flights, delivered>>

-----------------------------------------------------------------------------
Serve(w) ==
    \/ SummaryLands(w)
    \/ /\ Settled
       /\ \/ Ask(w) \/ UseCached(w) \/ AskSummary(w) \/ PageLands(w)
          \/ \E d \in Database : ReadRows(w, d)

AnswerSummary(v) ==
    /\ Settled
    /\ \E f \in flights : f.db = v /\ (ReadSummary(f) \/ SummaryArrives(f))

Failure ==
    /\ Settled
    /\ (\E f \in flights : SummaryFails(f)) \/ \E w \in Walker : RowsFail(w)

Next ==
    \/ \E n \in Order, p \in Part, d \in Database : Insert(n, p, d)
    \/ \E v \in Verifier, b \in Boundary : Publish(v, b)
    \/ \E v \in Verifier : AnswerSummary(v)
    \/ \E w \in Walker : Serve(w)
    \/ Settled /\ Tick
    \/ Failure

Spec == Init /\ [][Next]_vars

\* The databases answer, the clients go on and time passes.  An event whose
\* turn is put off by reactions keeps its place in the queue of the event loop.
FairSpec ==
    /\ Spec /\ SF_vars(Settled /\ Tick)
    /\ \A v \in Verifier : SF_vars(AnswerSummary(v))
    /\ \A w \in Walker : SF_vars(Serve(w))

-----------------------------------------------------------------------------
(* Properties *)

\* The rows a walk asks for.
Walked(w) == {r.order : r \in {s \in rows : \E i \in DOMAIN Filters[w] : s.part \in Filters[w][i]}}

\* The rows between the first and the last cursor of a walk: those it has passed.
Passed(w, n) ==
    /\ \E m \in delivered[w] : n <= m
    /\ w \in Forward \/ \E m \in delivered[w] : m <= n

\* blockchain.graphql 202-203: no row is inserted between the cursors a client
\* has fetched.
NoInsertBeforeCursor ==
    [][\A r \in rows' \ rows, w \in Walker : ~Passed(w, r.order)]_vars

\* Reliable pagination: a walk has received every row it has passed.
SkipsNothing(w) == \A n \in Walked(w) : Passed(w, n) => n \in delivered[w]
NothingSkipped == \A w \in Walker : SkipsNothing(w)

\* A walk of a query with one filter has received every row it has passed,
\* in either direction.
OneFilterSkipsNothing == \A w \in Walker : Len(Filters[w]) = 1 => SkipsNothing(w)

\* The boundary in the cache never goes back, whatever the order in which
\* calls begin and end: an older one would hide rows from a backward walk.
BoundaryNeverGoesBack == [][cache'.boundary >= cache.boundary]_vars

\* Once the summaries vouch for everything and queries no longer fail, a
\* forward walk receives every row.
CaughtUp == \A v \in Verifier : published[v] = MaxOrder + 1
NoMoreFailures == <>[](\A w \in Walker : pc[w] # "failed")
EveryRowIsReached ==
    NoMoreFailures /\ <>CaughtUp
        => <>[](\A w \in Forward : Len(Filters[w]) = 1 => Walked(w) \subseteq delivered[w])
=============================================================================
