# A verification development for Q-Server

Q-Server answers GraphQL queries and subscriptions over a blockchain's documents
(blocks, transactions, messages, accounts) that other programs write into ArangoDB
databases. The server itself is one Node.js process, or several behind a balancer:
within a process handlers run one at a time and interleave wherever the code awaits;
between processes, Redis, memcached and the databases are shared.

Its core logic is therefore not computation but coordination: results shared by
concurrent requests, caches that are refreshed while they are read, waits that end by
whichever of four events comes first, subscriptions fed by asynchronous notifications.
This directory holds TLA+ modules of that core, TLC configurations that check them on
small instances, and TLAPS proofs of their main invariants for all instances.

Paths below are relative to `src/server/` unless they begin with another directory.

## 1. Inventory

### Modelled

| Part | State | Operations | Talks to |
|---|---|---|---|
| List subscriptions: `data/kv-provider.ts`, `data/kv-list-changes.ts`, `data/kv-redis.ts`, `graphql/remp.ts` | two iterators (push queue, pull queue, running, `closedWith`), `processed`, one timer, `onClose` | `push`, `next`, `close`/`return`/`throw`; `pushNext`, the reading loop, its `catch`, the timeout | Redis (LRANGE, SUBSCRIBE, notifications, connection errors), the GraphQL executor |
| Cached values: `cached-data.ts`, `data/latency.ts`, `graphql/last-key-block.ts` | `data`, `refreshing`, `refreshResolvers`, `refreshTimer` | `get`, `startRefreshData`, `update`, `completeRefresh`, the timer | the database, every request for `info` or the last key block |
| Queries with a timeout: `data/collection.ts` (`queryWaitFor`), `request.ts` | `finishedBy`, the deferred result, `queryTimer`, `firstQueryCompleted`, listeners on `docInsertOrUpdate` and on the request's events, `waitForCount` | poll, feed listener, timeout, CLOSE, clean-up, `request.finish` | the database, the change feed, the other fields of the request |
| Walking cache: `data/resolveUsingCache.ts` | `reason`, `firstQueryCompleted`, the time limit, `waitForCount` | look into the cache, query once, sleep, CLOSE | a Redis that another service fills, the database, the request |
| Memcached front: `data/data-provider.ts` (`QDataPrecachedCombiner`), `data/caching/memjs-datacache.ts` | the shared cache, `configHash` | `query` (get, mark FETCHING, query, store, poll), `hotUpdate` | the servers of the network, memcached |
| Deduplication and pages: `data/database-provider.ts` (`ActiveQueries`), `graphql/blockchain/helpers.ts` | `items`, `drainTime`, the arrays of rows | `query`, `drainIfRequired`, `processPaginatedQueryResult` | all requests of the process |
| Document subscriptions: `data/listener.ts`, `data/collection.ts` 191-314, `data/database-provider.ts` 33-246, `server.ts`, `index.ts` | the listener of the log with its timer, `collectionsForSubscribe`, `listenerSubscribers`; queues, joins under way and counters of subscriptions; the state of `stop()` and the lock of SIGHUP | `start`, the listener's events, `onDocumentInsertOrUpdate`, `subscriptionResolver`, `next`, `return`, `stop` | the database's log, clients, the operator who reloads |
| External subscriptions: `data/collection.ts` 314-422, `utils.ts` 321-461, `data/subcriptions-redis.ts`, `graphql/post-subscription.ts`, `request.ts` 131-142 | clients of Redis and their health, shared values, keep-alive timers, iterators, `subscriptionCount` | opening in five awaits, keep-alive, messages, errors of Redis, closing | Kafka, Redis, the filter services behind them |
| Queries of a collection: `filter/*.ts`, `data/collection-query.ts`, `data/aggregations.ts`, `data/collection.ts`, `QDataCombiner` | `indexes`, `indexesRefreshTime`, `queryStats`; the arguments and partial answers of each request | filters as conditions and as tests, classification, texts, reading, combination, aggregation, missing accounts | databases, the change feed |
| Joins: `data/collection-joins.ts`, `graphql/resolvers-generated.ts` (join fields) | the plan of a join, the records joined so far, its time limit | `buildPlan`, `joinRecordToMain`, `join`, `fetchJoinedRecords` | the queries of the joined collections |
| Blockchain API: `graphql/blockchain/blockchain.ts`, `graphql/blockchain/config.ts`, `graphql/blockchain/helpers.ts`, `graphql/blockchain/fetchers/*.ts` | the boundaries taken, the answers of the databases, the joins still to be fetched | pages by chain order or by lt, single records, blocks before and after, ranges of master blocks; `buildReturnExpression`, `fetchJoins` | databases, the boundary |
| Chain order boundary and pages: `data/blockchain.ts`, `graphql/blockchain/helpers.ts`, `graphql/blockchain/fetchers/*.ts`, `QDataCombiner` | `reliableChainOrderUpperBoundary` (`boundary`, `lastCheckTime`), the boundaries and rows of each page, the queries under way | `getReliableChainOrderUpperBoundary`, `prepareChainOrderFilter`, the queries for rows, `processPaginatedQueryResult` | the parser and the verification service, through the databases; clients, through their cursors |
| Process and configuration: `index.ts`, `server.ts`, `data/data.ts`, `config.ts`, `config-param.ts` | the lock of reloads, the servers made so far and their ports, the default lists of databases, the providers made by their configuration | `main`, the handler of SIGHUP, `resolveConfig`, `checkConfig`, `DataProviderFactory`, `start` of the providers, `TONQServer.start` and `stop` | the operator, the file and the environment, the providers |
| Posted messages: `graphql/post-requests.ts`, `stats.ts` | the shared producer and JSON-RPC client, the messages sent so far; the shared socket of statistics, its reset time, timers of reports | `postRequests`, `checkPostRestrictions`, the four ways of sending; `withImpl`, `ensureImpl`, `dropImpl` | a REST, Kafka, JSON-RPC or lite server, the StatsD daemon, all requests of the process |
| Fields kept elsewhere: `graphql/blockchain/boc-parsers.ts`, `data/boc-provider.ts`, `data/account-provider.ts`, `graphql/block-boc.ts`, `graphql/blockchain/fetchers/*.ts` | the selection that is sent to the database, the rows and what has been added to them | `upgradeSelectionForBocParsing`, `useBlocksArchive` and its likes, `resolveBocs`, `parseBocs`, `getAccounts` | the archive, a storage of BOCs, a node or a lite server |

What makes them hard, and what makes them correct:

* **List subscriptions.** Appends race the reads; the first read precedes the
  subscription; errors of Redis, timeouts and the client's leaving may come at any
  await. Correct: each receipt once and in order, no notified change unread, no client
  left waiting, an error reported, what was acquired released.
* **Cached values.** Callers, the timer and the ends of loads meet in any order; loads
  fail; a replica may answer with older data. Correct: one load and one timer at a
  time, no caller lost, refreshing never stops, values never go back, a value once
  cached is served.
* **Queries with a timeout.** Four sources may end a wait; polling and the feed overlap;
  the clean-up awaits; fields of a request share its events. Correct: the first reason
  decides, nothing keeps running afterwards, no document falls between polling and the
  feed, no empty result before the database has answered, every wait returns.
* **Memcached front.** Check, mark, query and store are four awaits, of several
  processes; the fingerprint in the key changes meanwhile; queries fail and leave the
  mark; memcached loses or refuses values. Correct: no answer older than the
  fingerprint the request began with; no request held up for good.
* **Deduplication and pages.** Flights end, fail and are drained while others begin; one
  array of rows is given to several requests, each of which cuts it in place. Correct:
  never two equal queries at a time, never a failed flight joined, bounded age of kept
  results, whole pages.
* **Chain order boundary and pages.** Rows come out of order, into several databases,
  while clients walk page by page; the boundary below which nothing comes any more is
  cached, shared by all requests, refreshed by concurrent calls and taken once for each
  filter of a query. Correct: no row inserted behind a delivered cursor, no row skipped by
  a walk, a boundary that only rises, every row reached in the end.
* **Document subscriptions.** The listener fails and restarts by a timer that nobody
  clears; it is replaced whenever collections are added; documents are joined one by one
  while the client takes them or leaves; the server is stopped at any time, also while it
  starts. Correct: what the collection hears is heard once and in the log's order; what a
  subscription took is delivered once, unless it overflowed or its join failed; nothing
  after the end; a stopped server is silent; the feed comes back after each failure.
* **External subscriptions.** Opening passes five awaits (two shared values, Redis, Kafka),
  and Redis may fail, or the client leave, at each; the services must be told in time that a
  filter is still in use, and are told its text only once. Correct: no timer, listener or
  place in the counter is held by a closed subscription; none is open on a failed Redis; the
  filter of an open one is forgotten only when too many posts in a row have failed, and that
  of a closed one is forgotten in the end.
* **Queries of a collection.** Databases are read at different moments while documents and
  indexes change; filters are evaluated in two languages; the verdicts of the slow detector
  are cached under concurrent refreshes. Correct: the combined answer is the best of what
  was read; both evaluations agree; a verdict belongs to the indexes known; aggregations
  of parts are aggregations of the whole.
* **Blockchain API.** A page is cut from several databases, from two sides of an account,
  from several types and counterparties, each limited on its own; records are joined partly by
  the page's query and partly by later ones; ranges and neighbours are put together from
  databases of which none may know all. Correct: a page is the rows after its cursor, each
  once and without a gap, and stays so; every record held is joined wherever it belongs;
  neighbours are told all or none; a range holds every block of its time.
* **Process and configuration.** Nothing waits for a start, so that SIGHUP may come in
  the middle of one; the lists of databases default to each other and may share databases
  in any way; objects outlive a reload. Correct: one server listens, and the last one in
  the end; each collection is followed once where its subscriptions listen; a reloaded
  server is what a new process would be.
* **Posted messages.** Posts of several requests share a client and a socket; a report of
  statistics may time out, find the socket dropped, or be called back late; a batch may
  fail in its middle. Correct: a caller told success has all its messages taken, and of a
  refused batch none; one socket; every post ends, whatever becomes of its reports.
* **Fields kept elsewhere.** An archive keeps less than a database, and what it lacks is
  parsed out of a BOC, which may be in a storage or in the row; what to ask the database
  for is decided before it is known where the rows come from. Correct: a call has the
  fields it selected.
* **Joins.** Keys are asked for in portions, again and again, until found or out of time;
  a record may be named by several records and several positions. Correct: each record at
  every place that names it, and nowhere else.

### Not modelled

| Part | Files | What would make it correct; why it is not here |
|---|---|---|
| The other boundary | `data/blockchain.ts` 288-320 | the boundary from the newest masterchain block rests on a gap of ten seconds of real time |
| Parsing of a BOC, block signatures | `graphql/blockchain/boc-parsers.ts` 207-230, `graphql/blockchain/fetchers/blocks.ts` 382-419 | the parser is a library; one query |
| Shards | `data/data-provider.ts` 60-144 (`shardingDegree`), `data/database-provider.ts` 13-31 | which databases are asked; the combination of what they answer is modelled |
| Big integers, addresses, dates | `filter/filters.ts`, `data/aggregations.ts` (`BigIntQuery`) | conversions of scalars; in the model a scalar is a number, in both languages |
| JSON-RPC, counterparties, info, aggregates | `json-rpc.ts`, `graphql/counterparties.ts`, `graphql/info.ts`, `graphql/aggregates.ts` | one request each, no state of their own |
| Schema, generated resolvers, tracing, logs, other parameters and metrics | `schema/`, `graphql/resolvers-generated.ts`, `tracing/`, `logs.ts`, `mem-stat.ts`, `stats.ts` 178-242 | generated, static or observing only |

`PROJECT.json` lists every component, the code behind each definition ("map"), and the
hazards of the code with the properties that watch them.

## 2. Modules

    KVIterator  <-- ListChanges  --refines-->  ReceiptStream
                    ListChanges <-- ListChanges_proofs
    WaitFor <-- WalkingCache  <-- WaitFor_proofs
    ActiveQueries       <-- ActiveQueries_proofs
    ChainOrderBoundary  <-- ChainOrderBoundary_proofs
    DataSubscription    <-- ChangeFeed  \
                  ExternalSubscriptions  >  Subscriptions  <-- Subscriptions_proofs
    Documents <-- Aggregations <-- CollectionQuery  \
    Documents <------------------- JoinQuery         >  Queries  <-- DataApi
    Documents <-- Filters <------- BlockchainApi  -------------------/
                  Filters <-- SlowDetector  (given to Queries as operators)
                                   Queries, Loops  <-- Queries_proofs
    Configuration <-- Providers <-- Lifecycle  \
               Stats <-- Posting, Bocs          >  QServer
               CachedData, PrecachedCombiner   /
    QServer, Loops      <-- QServer_proofs

Each state machine is checked by itself, or as a part of `Subscriptions`, `DataApi` or
`QServer`, by an `MC...` module that gives the constants values. Definitions whose comment
begins "Mutant of" are plausible bugs of the definition that follows them; they are not
part of any specification, and each property is violated when its mutant takes the
place of the original.

**KVIterator** is a value with operations, not a state machine: `ListChanges` has two of
them, the iterator returned to the client (`out`) and the one of the Redis channel
(`changes`). `next()` calls are indistinguishable, so `pullQueue` is their number. The
race with `closedWith` is won by whichever settled first, so that a pull answered before
the close keeps its value, and a closed iterator answers with `closedWith` whatever is
queued. `emptyQueue()` finds `running` false each time the code calls it.

**ListChanges** numbers the receipts in the order of their appending. The Redis list is
its length, and the reply to `LRANGE 0 -(processed+1)` is the length at the time Redis
executed it (`reply`). `pc` is the await at which the reading loop stands. The timer is
one variable because `pushNext()` clears the old handle before it sets the new one; it
sets the new one even if the iterator was closed meanwhile. `hooked` is `onClose` being
set, which happens only after the subscription resolves. The executor calls `next()`
once at a time and may call `return()` at any time.

**ReceiptStream** is what a subscriber is promised: each receipt once, in order, after
its publication and before the end.

**CachedData** has the loads that may be under way as a constant set with room for more
than one: that there is never a second is a result. `KeepNewest` is the difference
between the two caches: `CollectionLatencyCache.loadActual()` keeps the cached value
when the answer is older (`Actual`), `LastKeyBlocksCache` does not, but its source does
not go back either (`ChangeSource`).

Its definitions are named `CachedInit`, `GetCached` and so on, because `QServer` takes them
in together with others.

**WaitFor** has one or more waits, fields of one request. A document is the set of waits
whose filter it matches. The walk through `queryWaitFor()` is: `Start` (to the await of
the result), `Execute`/`Answer`/`PollAgain` (the polling), `FeedDocument`,
`TimeoutFires`, `ClientCloses` (the reasons to finish), `CleanUp`, `CleanUpEnds` (the
finally block, split at its await) and `Return` (the finally block of the resolver, with
`request.finish()`). Whether the next query is the last one depends on times; the choice
is open in `Answer`.

**WalkingCache** takes over the waits that ask for the next block of a chain, whichever
set of them is `walking`. The loop of `resolveUsingCache()` is `StartWalk`, `CacheAnswers`,
`Execute`/`DatabaseAnswers` (once), `WakeUp`. The end of the connection only notes a
reason, which the loop sees when it wakes up and which a block found meanwhile replaces.
The database is asked once: a block that comes after that and never gets into the cache is
missed, so `NoDocumentMissed` is about the other waits. The error
`queryTerminatedOnTimeout` cannot be reached, since the database has answered by then.

**PrecachedCombiner** follows one query. The database only grows, so that its result and
its fingerprint are both the number of documents at the time. The cache maps each
fingerprint, standing for the key, to nothing, the FETCHING mark or a result. `Set` may
fail silently, `Get` may fail and return nothing, marks and results expire at any time.
`Mark` overwrites whatever came under the key since `Get`: the code does not look again.

**ActiveQueries** names a flight after the request that started it. The model has a
clock because drain times are compared with it; one tick is any time unit. A result is
its number of rows, up to the LIMIT of the query, which is one more than the page; `Page`
is `processPaginatedQueryResult()` on the flight's own array. The array of a flight is
shared when the provider of the collection is a plain `QDatabaseProvider`; a combiner of
several shards copies it.

**ChainOrderBoundary** follows clients that each walk one connection. A chain order is a
number (the strings of the code begin with their length and sort like numbers); the empty
string is 0. `rows` is what the parser has inserted and `published` the boundary of the
summary in each verification database; `Insert` never goes below the boundary that vouches
for the row's database, which is all that is assumed of those services. A page is one
request: `Ask`; for each of its filters `UseCached`, or `AskSummary` ... `SummaryLands`;
`ReadRows` for each database; `PageLands`. The queries for summaries are `flights` shared
through `ActiveQueries` with no result kept (the default `resultCacheTTL` is 0; a kept
result is as old as `ActiveQueries`' `AgeIsBounded` allows). `Settled` is the order of the
event loop: the calls that have all their answers go on before the next event, which is
why the calls answered by one query all see its boundary before another query ends.
`Distinct` is what `combineResults` leaves of the summaries: the first.
`ActiveQueries` and this module meet in `Joined`; they are not composed, since the first
needs a clock and the second the callers of a flight.

**DataSubscription** is `QDataSubscription` as a value with operations, like
`KVIterator`: documents that no call has taken, calls that no document has answered.

**ChangeFeed** has the listeners a provider has made as a sequence, the last or none of
them `current`: a listener that was stopped while its restart timer was pending is started
again by it, without handlers, and its next error, which nobody handles, ends the process
(`crashed`). A document of the log is its place in it; one that is written while no
listener follows the log is never heard. `Starts` are the collections of each `start()` of
the provider: two, because the hot provider of several `QData...` parts is shared. `Emit`
chooses which subscriptions' filters a document passes. `Joined` pushes whatever has become
of the subscription meanwhile, as the code does. `StopBegins` and `Stop` are the handler of
SIGHUP with its lock and `TONQServer.stop()`.

**ExternalSubscriptions** follows `subscribe()` through its awaits: `EnsureRedis`,
`RedisMade`, `Check`, `Connect`, `Open` or `SendFails`. Clients of Redis are numbered:
`ensureShared()` lets two be made at a time, of which the later becomes the shared one.
`KeepAlive` is the interval, which posts the key with an empty value; a post that is
rejected is only logged. The services are external. What the code relies on is that they know
a filter from the post of its text, as long as they do not miss `Patience` posts of its key in
a row, which `lease` counts: `KeepAlive` renews it or uses it up, and once the interval is
cleared `LeaseExpires` uses it up. A post without text cannot tell them a filter that they
have forgotten (`Posted`). The post of the text and the start of the interval are one step:
the answer of Kafka is taken to come within an interval. Each subscription has a filter of its
own; in the code, a second one with the same filter has the same key and posts the text again.
An error of a client of Redis that
no subscription listens to is thrown; whether an unhandled rejection ends the process
depends on the options of Node.js, so that the model has both.

**Subscriptions** composes the two: the mode of the configuration decides which one a
subscription uses, and they share the process that a crash ends.

**Documents** is what all of these say of documents: their fields, the scalar operations of
both languages, the elements a loop keeps of a list.

**Filters** evaluates a filter twice: `Condition` is the value of the AQL text that
`filterCondition` makes, for a document of the database (Null where the code makes no
condition), and `Test` is `test()`, in JavaScript. Both orders of values are written down,
since null is less than every number in one and like 0 in the other.

**SlowDetector** is `isFastQuery()`: the operations by which a filter's fields are compared
(`Explain`), whether an index serves them (`IsFastOperand`), whether it serves the order
(`OrderByCanUseIndex`), and the exceptions.

**Aggregations** is what a database answers (`Aggregate`) and what becomes of the answers
of several (`ReduceResults`).

Both are written with RECURSIVE operators over the structure of filters and types. The prover
cannot go where those are, so `CollectionQuery` takes what it needs of them as operators
that are constants: `Matches` (what a database selects), `Accepts` (the server's own test),
`BothCompare` (where the two are comparable), `Operands` (of OR), `Explanation` and
`JudgedFast` (of the slow detector). `MCQueries` gives them the definitions of `Filters` and
`SlowDetector`; what is proved of `Queries` holds for any meaning of filters that satisfies
`QueriesAssumption`.

**CollectionQuery** is the way of a request: `Ask` (with the query for a single result
first), `Classify`, `Refreshed` (the indexes are awaited), `Read` for each database at its
own moment, `Combine` or `Reduce`, and the joins. A query that waits is polled, and ended by
`TimesOut` or by the feed in `Write`; the races of those are the matter of `WaitFor`.
`Best` allows every answer that SORT and LIMIT allow. `fetch` and `seen` are history: what
each database held when it was read.

**JoinQuery** has the records of a request as objects of a heap, since joined records are
shared by all that name them. `frames` is the stack of `fetchJoinedRecords()`, `plan` the
map from missing keys to records, in the order of its insertion. A portion is of `Portion`
keys (100 in the code), a query that is not on an array finds `JoinLimit` records (50), so
that a portion may need several queries. `TimePasses` is the time limit of a join, after
which the query under way is the last.

**BlockchainApi** is one call of each client. A row is a node: a document, its cursor, and
the nodes joined to it so far. `TakeBoundary` is the await of `prepareChainOrderFilter()`,
once for each side of an account's messages; `Read` is the answer of one database, with
what it joins by itself (`Prefetched`); `CombinePage` sorts and cuts
(`processPaginatedQueryResult()`), `CombineRecords` and `CombineRange` put together the other
answers; `FetchJoin` is one join of `fetchJoins()`, in the order of its recursion (`Paths`),
which adds what is missing to the nodes that need it (`AttachedAt`). Its databases are asked
at one moment. A chain order is a number; its hundreds are the number of the master block,
which `parseMasterSeqNo()` takes from the string. Where several blocks have the same time,
`RangesIn` is any answer that SORT and LIMIT allow.

**Queries** composes `CollectionQuery` and `JoinQuery` over the same databases. **DataApi**
adds the blockchain API. Requests and calls only read what they share, so that an
interleaving of both shows nothing that each alone does not: a behaviour follows one `way`,
requests or calls, over documents of its own that are written while they run, and the other
stays in one initial state. What the API's episodes write gets chain orders above the
boundary, which is what `ChainOrderBoundary` is about and what `AboveBoundary` assumes.

**Configuration** is `resolveConfig()` for the parameters that decide which databases a
server uses and whether it starts. A source of values (options, file, environment) is a
function of the names it gives, so that the order of sources is `@@`. `defaults` are the
default arrays of the parameters, which the code pushes into (see the findings).

**Providers** is what `DataProviderFactory` makes: trees of databases, combiners, caches and
archives. The factory keeps what it has made by a key of its configuration, and two parts
with equal keys are one object, which is started once: in the model a provider is its tree,
and equal trees are equal. Of the tree below it a provider has what its methods reach:
`Following` is which databases are told to follow the collections, `Subscribed` which ones
a subscription listens to, `HasCache` whether an update asks for a fingerprint. They are
fields, made with the provider as the objects are, so that nothing is recursive.

**Lifecycle** has the servers of the process one after another. `Main` resolves the
configuration and makes a server; its start (`StartProvider`, `StartSlowProvider`, `Listen`)
is awaited by nobody. `Sighup` takes the lock and closes the port, `Reload` is the rest of
the handler, which calls `main()` again. `ended` is why the process has ended: a refused
configuration, a failed start of whichever server, or a port that is taken.
`overtaken` is history: a signal came during a start, which is the one way to `"port"`.

**Stats** is `QStats`: one socket for all, made when it is needed and dropped by its errors
and after its reset time. A report is known by who makes it; its timer runs until its
callback or its time-out. **Posting** is a request that posts a batch, in one of the four
modes: `Connect` where a client has to be made, `SendAll` where all is sent at once
(REST, Kafka), `SendNext` one by one (JSON-RPC), `SendToLiteServer`; then the report
(`Counted`), which is awaited, and `Answer`. `accepted` is what the service has taken,
which the process does not always know. Of a message only its size and whether it expires
are kept; the time at which messages expire passes once (`late`).

**Bocs** is one call for blocks, transactions or an account: `Queried` is the selection sent
to the database, `InDatabase` what a row has, `GetBocs`, `ParseBocs` and `AnswerRows` what is
done to the rows, in the order that `Proceed` gives. A field is the BOC, kept by an archive,
or parsed, since the code does not tell more apart; where the BOC of a row is (`kept`) is a
constant of the call. Selections are without fragments.

**QServer** takes the five in. They share only the process, so that an interleaving of two
shows nothing that each alone does not: a behaviour follows one `part`, and the others stay
in one initial state (`OneStart`).

**Loops** has what the proofs need of loops: that a recursive function whose value at `i` is made
of that at `i - 1` exists (`Recursion`), and that what each turn keeps holds after all
turns (`ByInduction`, `Stays`). The loops of the models are such functions.

## 3. Runs

All passing runs are exhaustive within their bounds.

| Run | Bounds | Shows |
|---|---|---|
| `list_changes` | 3 receipts, the list initially of 0 to 3 | invariants, refinement of `ReceiptStream`, and the liveness properties |
| `wait_for` | 2 waits of one request, of which the second may walk, 1 inserted document | all properties of waits |
| `wait_for_abort` | same | **violated**: see findings |
| `active_queries` | 3 requests of one key and 1 of another, TTL 2, LIMIT 2, 5 ticks | deduplication, usability, age, pages |
| `active_queries_page` | same, TTL 0 | **violated**: see findings |
| `boundary` | a forward and a backward walk, chain orders 1..3, pages of 1, period of 1 tick, 1 database | all properties of the boundary and the walks |
| `boundary_filters` | two forward walks, one of them with two filters, chain orders 1..2 | **violated**: see findings |
| `boundary_databases` | a forward and a backward walk, 2 databases with a summary each, chain orders 1..2 | **violated**: see findings |
| `subscriptions` | 2 documents, 2 collections started one after the other, 1 subscription with a queue of 1, 2 failures of listeners; 2 external subscriptions, 1 message, 2 errors of Redis, filters forgotten after 2 missed posts, of which any may fail | all properties of both kinds of subscription |
| `queries` | 2 requests, one of five queries and one aggregation, a hot and a cold database that share a document, 4 of their documents written later or earlier, two sets of indexes, portions of 2 and joins of 1; or a client that makes one of 36 calls of the blockchain API, pages of at most 3, a boundary that rises twice, 2 documents written meanwhile | all properties of queries, aggregations, joins and calls |
| `server` | one of: 3 files in 2 environments, up to 3 servers made one after another; 2 posts in each of 4 modes, of 2 batches of 2 messages; 6 deployments of archives, storages and account providers, up to 2 rows; 2 servers and 2 requests on a database that grows to 2; 3 callers, room for 2 loads, versions 0..2, `KeepNewest` | all properties of the process, the posts, the fields, the memcached front and the cached values |
| `reload` | as `server` | **violated**: see findings |

Why these bounds are enough to be of interest: three receipts allow one before the first
read, one in the gap between read and subscription and one notified after it. Three
callers allow one that starts a load, one that joins it and one that comes after it. Two
waits are the least number that share a request and its events; a third adds only
interleavings of the same pairs. Two servers and two requests allow each request to
overtake the other at each of its four awaits, under the same fingerprint or different
ones. Three requests of a key in five ticks of a TTL of two allow a flight to land late,
be kept, be served, be drained and be flown again. Two walkers are the least number whose
calls for the boundary can overlap, join and cross; three chain orders in pages of one row
allow a row behind, between and beyond two cursors, and a period of one tick a boundary
that is fresh, too old, and stored already too old. The invariants that are also theorems
do not depend on the bounds. Two starts of the provider are the number the code makes, and
two failures let a listener fail before and after it is replaced. Two external
subscriptions can make two clients of Redis at once and lose either. The queries of
`queries` are chosen for one case each: operands joined by OR with an array and an
enumeration, the single result that is asked for twice, accounts of which one is missing,
a waiting query that the feed may end, joins over arrays and nested ones, messages of which
one account is missing for good so that a join must give up; a join limit of one below a
portion of two makes every portion of two take two queries. The calls are chosen likewise:
pages in both directions, bounded by a cursor, a range, or neither, smaller and larger than
what there is, of blocks that are in both databases, of messages that an account sends to
itself; joins that one database answers in part; blocks split and merged with a half in
another database or written later; master blocks with the same time and with the last one
above the boundary. A page of 3 stands for 50: it is smaller than a collection. Three servers
allow a reload of a reloaded server, and one that overtakes the start of another. The files
are chosen so that lists take their defaults or not, a database is in several lists, the
first of one and not of another, a cache is before some of them, and a file is refused. Two
posts are the least number that share a socket or a client; a batch of two has a
message that is taken before another fails, and one of its messages can expire or be too large.

`CHECK_DEADLOCK FALSE` is set where the modelled system really stops: a subscription that
ended with its list full (`list_changes`), waits that have all returned (`wait_for`), the
end of the clock (`active_queries`), subscriptions that are closed (`subscriptions`),
requests that are answered (`queries`), a process that has ended, posts and calls that are
answered (`server`).

### The properties

*Type invariants.* Every state machine but `BlockchainApi`, `Lifecycle` and `Bocs` has a
`TypeOK` (`CachedTypeOK` in `CachedData`; that of `Posting` stands beside its proof). In
`CachedData`, `PrecachedCombiner`, `ActiveQueries`, `ChainOrderBoundary`, `ListChanges`
and `Posting` it is a theorem. In the others it says what the variables are, with bounds
that code has to earn (timers and counters never go below zero, a phase has the arguments
and answers it needs); it holds in the same instances, but is not among the properties of
their runs.

*`ListChanges`.* `ImplementsStream`: receipts 1, 2, 3, ... once and in order.
`UnreadOnlyFromTheGap`: receipts stay unread while the loop waits only if they came
before SUBSCRIBE took effect and none has come since. This is the lost wake-up the code
admits; the property says that it is the only one, and that the next receipt heals it.
`NotifiedIsRead`: a notified change is read without the help of timers.
`NextIsAnswered` and `ReleasedAfterClose` assume that timers fire (`TimersFire`);
`ReleasedAfterClose` is stated for subscriptions that end after `onClose` was set: a
client that leaves earlier leaves the channel subscribed.

*`CachedData`.* `SingleFlight`, `NoLostWaiter`, `RefreshGoesOn` (no
step leaves the cache without a load or a timer), `NeverOlder`. `AtMostOneTimer` and
`ServedOnceCached` are proved only.

*`WaitFor`.* `NothingLeftBehind` (a wait that is over neither polls nor listens, and the
counter of waits is the number of listeners and of walking waits), `NoDocumentMissed`,
`FirstReasonDecides` (the result changes once, and an empty result needs an answer of the
database or a client that has gone, CHANGELOG, 0.50.0; a client that has gone ends its
waits), `EveryWaitReturns`.

*`PrecachedCombiner`.* `AnswersAreFresh`, `EveryRequestEnds`.

*`ActiveQueries`.* `Deduplicated`, `AgeIsBounded` (less than two TTL since the query was
sent or less than one since its result came: the items are drained at most once in a TTL,
and the drain time is reckoned from the sending), `PagesAreWhole`. `ItemsAreUsable` (only
flights that run, or results that are kept, can be joined) is proved only.

*`ChainOrderBoundary`.* `NoInsertBeforeCursor` (what the schema promises of pagination),
`OneFilterSkipsNothing` (a walk has received every row it has passed; `NothingSkipped`
says it of all walks and is refuted), `BoundaryNeverGoesBack` (it rests on the sharing of
queries: with a query per call, an older answer could come later), `EveryRowIsReached`
(of forward walks: a backward walk is not meant to see what comes after its start).

*`ChangeFeed`.* `HeardOnceInOrder`: through all replacements, failures and restarts of the
listener. `NothingLostNothingTwice`: what an open subscription took is joining, queued, lost
by a failed join or delivered, in one of them only, and no call waits while a document is
queued. `EndsAreSilent`: nothing is delivered after the end of a subscription, and nothing
heard after the stop of the server (also when the server is stopped while it
starts, or while a failed listener is to be started again). `FeedComesBack`.

*`ExternalSubscriptions`.* `ReleasedWhenClosed` (stated of both backends; the counter may be
lower than the number of open subscriptions, since a message that ends a subscription and
the client's `return()` both decrement it; none is open on a failed Redis). `LeaseFollowsUse`:
the services know the filter of a subscription in use, unless `Patience` of its own posts have
failed in a row (`LeaseIsKept`), and forget it after the subscription has ended, in whichever
of its ways, also when `subscribe()` is rejected after the filter was posted
(`EndedAreForgotten`). It does not say that a forgotten filter comes back: the code never
posts its text again, and the subscription stays open and silent.

*`CollectionQuery`.* `AnswerIsBest`: each document once, only documents the filter selects,
in the order asked for, and none left out that would come before another, of what each
database held when it was read; accounts told as missing are in no database, and all that are
missing are told if the limit allows. It is stated of databases that held one version of each
document when they were read: databases are read one by one, and a document that was written
between the two readings may be answered by its older version. That is its part
`FoundIsBest`; the other, `AggregatesWhole`, is about aggregations: one has the values of the
whole (when no document is in two databases; least, greatest and total values when every
document has the field, and an average between the least and the greatest: the code takes the
mean of the databases' means).
`FeedAgreesWithDatabase`: for documents with the fields the filter orders by.
`StatsAreOfTheIndexes`: what is kept of a query is what the detector says of it by the indexes
known now, although indexes are read again while queries are classified.

*`JoinQuery`.* `JoinedRight`: at any time a joined record is one that its main record refers to,
and each is joined only where its conditions allow; when the joins are done and none was given
up, no reference is left open that a database can answer.

*`BlockchainApi`.* `PageIsRight`: the page is said twice, once as the code makes it and once
as a set of rows of all databases with the number of those before each; without
`allow_latest_inconsistent_data` it is stated of what is stored now, not of what was read,
so that it also says that later writes do not change a page. A record
held by a database is joined wherever it belongs, once, unless a database held only some of
the messages of a transaction (see the observations). `WholeOrNothing`: `NeighboursAreWhole`
and `RangeCoversTime`, the second for blocks that no other block of their shard follows in the
same master block.

*`Lifecycle` and `Providers`.* `OneServerServes`: never do two listen, the last one does as soon
as nothing is under way, and the process ends only by a refused configuration, a failed start
or a start that a reload overtook. `FeedIsWhole`: each collection is followed in one database
of those its subscriptions listen to, however the lists share databases.

*`Posting` and `Stats`.* `OneSocket`: the socket of the current client is open, and no other.
`PostedAsTold`: what is told to be posted has been taken (but for the lite server, whose
errors are swallowed), a batch with a message too large is sent to nobody, and by JSON-RPC the
messages taken are the first ones. `EveryPostEnds`.

*`Bocs`.* `SelectedIsAnswered`: every selected field of a row whose BOC can be had, or an error;
an account has what was selected and is of the block that was given, where the node can tell.

`EveryRequestEnds` and `EveryPostEnds` say that at last all have ended and stay so: each
request and each post is made once.

### Fairness

* `ListChanges`: Redis answers the commands it was sent and delivers notifications; the
  event loop runs ready handlers. Nothing is assumed of the service, the client or
  errors. That timers fire is a hypothesis of two properties only, so that the others do
  not lean on the timeout.
* `CachedData`: a load ends, with a value or an error; an armed timer fires.
* `WaitFor`: timers fire and ready handlers run. The database and the feed may be silent
  forever. `WalkingCache`: the cache and the database answer a walking wait, or fail; the
  code has no timer of its own there and relies on their clients.
* `PrecachedCombiner`: memcached answers (its client has timeouts and resolves on errors)
  and drops expired marks; the database answers or fails (`maxRuntimeInS`). Each poll
  waits for a timer, which fires. Results may expire or not.
* `Posting`: the services answer or fail, and the time-outs of reports fire; nothing is assumed
  of the StatsD client, which may hang. `Lifecycle` and `Bocs` have safety properties only.
* `ActiveQueries` has safety properties only. So have `CollectionQuery`, `JoinQuery` and
  `BlockchainApi`: each of their phases ends with an answer, an error or a time limit, and
  TLC is too slow at the enabledness of actions that compute whole answers.
* `ChangeFeed`: the starts and the stop of the server go on, restart timers fire, a
  listener that is connected reads on, counters of statistics resolve. Failures are bounded
  in number, so that a listener is at last left alone. `ExternalSubscriptions`: the
  services forget in the end a filter whose key nobody posts; nothing is assumed of the
  posts, which may fail each time.
* `ChainOrderBoundary`: the databases answer, the clients ask for the next page and time
  passes. The fairness is strong because an event may be disabled, again and again, by
  reactions that run first (`Settled`), and keeps its place in the queue of the event loop
  meanwhile. Nothing is assumed of the parser and the verification service; that
  the boundary passes all rows, and that queries do not fail forever, are hypotheses of
  `EveryRowIsReached`.

### Findings

* `wait_for_abort`. The `finally` of `queryResolver` calls `request.finish()`, which
  removes all listeners of the request's events. In a request with two waiting fields,
  the return of the first removes the CLOSE listener of the second, whose wait then
  survives the client's disconnection until a document or its timeout ends it. The test
  "Release Aborted Requests" (`src/__tests__/request-tests.ts`) states the release for
  requests of one field. `FirstReasonDecides` states what does hold.
* `active_queries_page`. `processPaginatedQueryResult` cuts the array of rows in place.
  Two deduplicated requests get the same array; the second finds it already cut to the
  size of a page and answers `hasNextPage: false` although there are more rows. The rows
  themselves are right (`PagesAreWhole`).
* `boundary_filters`. A page of the messages of an account takes the reliable boundary
  once for its inbound and once for its outbound filter. If the cached boundary is
  refreshed in between, the page may hold an outbound message above the first boundary and
  not the inbound ones between the two; the cursor passes them, and the walk never
  receives them. A walk with one filter skips nothing (`OneFilterSkipsNothing`).
* `boundary_databases`. `getReliableChainOrderUpperBoundary` takes the least of the
  summaries it gets, as if there were one for each database of `chainRangesVerification`;
  but all summaries have the same `_key`, and the combiner has dropped all but the first.
  Rows of a database that is behind the first one are inserted behind delivered cursors.
* `reload`. `applyDatabaseDefaults` pushes the databases of `hot` and `archive` into the list
  of a parameter (`config.ts:556-560`), which is the parameter's own default array when no
  source gives one (`config-param.ts:239-243`, `394`). After a SIGHUP the default is not
  empty any more: a file with other hot databases leaves accounts, blocks and transactions
  with the old ones. `README.md:531` of the repository says that "QServer can reload config
  file without an actual restart".

Further observations have no run, since no document, comment or test of the repository says
otherwise; the properties are stated so that they leave them out:

* A summary without a boundary counts as the empty string, which `prepareChainOrderFilter`
  takes for "no upper bound" (`LowestSummary = 0` in `MCChainOrderBoundary.cfg` shows rows
  inserted behind cursors).
* Documents written between a failure of the database's listener and its restart reach no
  subscription (`RestartListener` follows the log from its end). A listener that was stopped
  while its restart timer was pending comes back without handlers, and its next error ends
  the process.
* The limit of a subscription's queue is checked before a document's joins: documents that
  are being joined are not counted, and a queue may grow past its limit.
* An error of a client of Redis that no subscription listens to is thrown. `healthy` of a
  client becomes true again only by a message of the health channel
  (`data/subcriptions-redis.ts:23-46`): without one (`HasHealth = FALSE`), one error makes
  external subscriptions impossible until the server is started again.
* The interval of an external subscription posts its key with an empty value
  (`data/collection.ts:344-345`), and an error is only logged: after so many failed posts that
  the services forget the filter, the subscription stays open, no later post restores the
  filter, and the client is not told.
* A message that ends an external subscription decrements the counter of subscriptions, and
  so does the client's `return()` after it: with others open, the counter is too low. A
  failed join ends the client's iteration and closes nothing until it calls `return()`.
* `optimizeSortedQueryWithSingleResult` replaces the filter of the second query by the id
  that the first one found: a document that changed in between is returned although it no
  longer passes the filter.
* A waiting query of accounts by several ids that the feed ends with one document reports
  the others as not existing, although the database was perhaps never asked
  (`data/collection.ts:594`).
* A join that gives up, after its time limit, leaves unresolved references as they are; of
  more than 100 missing keys those beyond the first 100 are never asked for, as long as the
  first ones are missing.
* The least value of several databases is null when a document of one lacks the field; the
  average is the mean of the databases' averages; documents of several databases are counted
  several times.
* `first: 0` and `last: 0` count as absent in `processPaginationArgs`, whose message says
  "should not be less than than 1": the page is empty, `hasNextPage` is true, and `last: 0`
  reads forward.
* `master_seq_no_range` takes its end from `min_shard_gen_utime`, which is of the last block
  of each shard: an earlier block of the shard in the same master block can be older than
  `time_end` and is left out.
* A start that is later than all master blocks becomes the number of the boundary, which may
  be earlier (`graphql/blockchain/blockchain.ts:134-137`).
* `fetchJoins` appends to the messages of a transaction that the page's query has found in
  part, those already there again (`graphql/blockchain/config.ts:430-446`).
* `transaction` and `transactions_by_in_msg` do not fetch joins: what is in another database
  than the transaction is not joined. The second sorts and limits in each database only.
* `prev_shard_blocks` looks for the block and its predecessors in one database: when they are
  in different ones the answer is empty.
* The messages of an account are asked of the provider of transactions
  (`graphql/blockchain/fetchers/messages.ts:285`).
* A reload during a start can make two servers listen on one port; the error of the second
  ends the process. So does a failed start of a server that was replaced meanwhile, and a
  refused file at a reload. A file that cannot be read counts as empty.
* `ensureDataProvider` takes the first of the hot databases only.
* In `checkConfig`, `??` binds its right side, `"" === ""`: "Missing block boc provider in
  archive mode." is thrown exactly when an S3 endpoint is configured, and an archive without
  a storage of BOCs is accepted, whose blocks silently lack the fields to be parsed.
* `QDatabasePool.sameConfig` ignores `maxSockets`; the slow lists of archives get none.
* Hot and cold lists that share a database make subscriptions hear its documents twice.
* With a storage, an archived block whose BOC is only in its row is not parsed; the pattern
  storage gives an URL for a BOC, which is not parsed either. Records joined to archived rows
  are never parsed.
* A lite server is asked for the last state of an account whatever block was given; with an
  account provider, a selection of fragments only asks for nothing and an existing account
  is answered as one that does not exist.
* `postRequestsUsingAdnl` swallows all errors: posts are told posted though nothing was
  accepted. Posting by REST has no time-out.
* `statsd-tags` given as an option are a map without a length, so that they are dropped.
* The cached key block says `hasPreviousPage: false` whatever was asked for, and the order of
  counterparties, a path of two names, sorts nothing over several databases.

## 4. Proofs

TLAPS checks, for any values of the constants that satisfy the named assumptions:

| Module | Theorem | Property |
|---|---|---|
| `ListChanges_proofs` | `TypeCorrect`, `UnreadOnlyInTheGap`, `ReceiptsAreStreamed`, `NothingMissing`, `NobodyLeftWaiting` | `TypeOK`, `UnreadOnlyFromTheGap`, `ImplementsStream`, `InOrder`, `FailureIsReported` |
| `ActiveQueries_proofs` | `TypeCorrect`, `NeverTwiceAtATime`, `ItemsUsable`, `AgeBounded`, `SharedPagesAreWhole` | `TypeOK`, `Deduplicated`, `ItemsAreUsable`, `AgeIsBounded`, `PagesAreWhole` |
| `WaitFor_proofs` | `TypeCorrect`, `WaitsLeaveNothingBehind`, `WaitsMissNoDocument`, `FirstReasonOfWaitDecides` | `WalkTypeOK`, `NothingLeftBehind`, `NoDocumentMissed`, `FirstReasonDecides` |
| `Subscriptions_proofs` | `TypeCorrect`, `FeedInOrder`, `FeedLosesNothing`, `ClosedAreReleased`, `EndedStaySilent`, `LeasesLast` | `TypeOK`, `HeardOnceInOrder`, `NothingLostNothingTwice`, `ReleasedWhenClosed`, `EndsAreSilent`, the first part of `LeaseFollowsUse` |
| `ChainOrderBoundary_proofs` | `TypeCorrect`, `BoundaryOnlyRises`, `NoInsertBeforeACursor`, `WalkSkipsNothing` | `TypeOK`, `BoundaryNeverGoesBack`, `NoInsertBeforeCursor`, `OneFilterSkipsNothing` |
| `QServer_proofs` | `CachedTypeCorrect`, `AtMostOneLoad`, `WaitersAreServed`, `TimersDoNotPileUp`, `RefreshNeverStops`, `DataNeverOlder`, `LastKnownIsServed` | `CachedTypeOK`, `SingleFlight`, `NoLostWaiter`, `AtMostOneTimer`, `RefreshGoesOn`, `NeverOlder`, `ServedOnceCached` |
| | `PrecachedTypeCorrect`, `AnswersFresh` | `TypeOK`, `AnswersAreFresh` |
| | `TypeCorrect`, `SocketIsOne`, `ToldIsTrue` | `PostTypeOK`, `OneSocket`, `PostedAsTold` |
| | `OneServes`, `WholeFeed` | `OneServerServes`, `FeedIsWhole` |
| | `FieldsAreAnswered` | `SelectedIsAnswered` |
| `Queries_proofs` | `RightlyJoined` | `JoinedRight` |
| | `BestAnswers`, of `BestFound` and `WholeAggregates` | `AnswerIsBest`, that is `FoundIsBest` and `AggregatesWhole` |
| | `VerdictsKeepUp`, `StatsKeepUp` | `StatsAreOfTheIndexes` (with `KeysTellVerdicts`) |

Each proof module defines an inductive invariant (`IInv`, or layers of one, each proved
with the help of those before it), shows that `Init` implies it and that every action
preserves it, and derives the properties.

* *ListChanges.* `UnreadOnlyInTheGap` rests on `ReadingGoesOn`: while the channel is
  subscribed, either nothing came since, or there is a reason to read what has not been
  read: a notification on its way, one in the queue, one that has answered the loop, or a
  read that Redis has not executed or has executed on the whole list. That the reason is
  handed on needs that the loop's one call waits only while nothing is queued
  (`OneCallWaits`), and that what is closed is unsubscribed at once (`CloseKeeps`).
  The refinement of `ReceiptStream` adds `StreamInv`: the receipts got and those queued are
  numbered 1, 2, 3, ... and end at `processed` while the iterator runs (`Counted`), and the
  two iterators are closed in the order in which the code closes them (`ClosedTogether`).
  With that, each step of `ListChanges` gives the client its next receipts, ends its stream,
  or leaves the abstract stream as it was.
* *CachedData.* `SingleFlight`, `NoLostWaiter` and `AtMostOneTimer` are inductive only
  together. `NeverOlder` needs two strengthenings: callers wait only while there is no
  value (`WaitersHaveNoData`, also the reason why `ServedOnceCached` holds), and, for a
  cache without the guard of the latencies, that what a load has read lies between the
  cached and the source's version (`LoadsAreInOrder`), which itself needs that there is
  one load. The theorem covers both values of `KeepNewest`; TLC's run has the guard.
* *PrecachedCombiner.* The answers are fresh because the cache is (`CacheIsFresh`: what is
  stored under a key was read after the fingerprint of the key), and that holds because a
  request stores under the key it began with and the database was at least that far then.
* *ActiveQueries.* The invariant ties the items to their flights: an item is a flight of
  its key that runs or is kept, every running flight is the item of its key, and the
  planned drain is never further than one TTL away. The age bound follows from what a
  drain removes and when the next one is planned. `PagesAgree` follows a shared array of
  rows: cut in place or not yet, its page is that of what was found, and a page that was made
  is the page of its flight.
* *WaitFor.* `IInv` is about polling and walking waits together: the listeners are those of
  the polling waits that go on, and the counter is the number of all that go on, from which
  `NothingLeftBehind` follows. What a wait has passed is fixed phase by phase (`Stands`); a
  walk is never in the finally block and decides only at its end (`Walks1`).
  `NoDocumentMissed` is inductive because the first query is sent in the step that registers
  the listener (`Covered`). For `FirstReasonDecides` it must be known that the client's
  leaving is heard by every wait that has begun as long as no field has returned
  (`HearsClose`).
* *Subscriptions.* The feed and the external subscriptions share only the mode and the
  process, so `IInv` is the conjunction of their invariants and of `ModeInv`. `LogInv`: at
  most one listener has handlers, it has read at least up to what was heard last, and what
  is being counted has been heard; so a listener that replaces another, or that starts again
  at the end of the log, repeats nothing. `SubInv`: the documents a subscription took are in
  four disjoint places, under way to it, lost, queued or delivered (`Placed`), all of them
  there while it is open (`Whole`); the numbers in `NothingLostNothingTwice` follow, since no
  sequence holds a document twice (`DistinctSize`). `CountInv`: the counter of a collection
  is the number of its listeners, so that the code's guard against a negative counter never
  acts. `ExternalInv`: an iterator is closed at the earliest at the end of `subscribe()`, so
  that nothing is to be released before, and every subscription that has begun knows its
  client of Redis, which is what its errors are told to. `LeaseInv`, on top of it, for
  `LeasesLast`: what is left of the lease of an open subscription and its posts failed in a row
  make `Patience`, since only filters that have no interval run out by themselves
  (`ReleasedWhenClosed`).
* *ChainOrderBoundary.* The last three theorems assume one verification database, whose
  summary always has a boundary (`OneSummary`); the run `boundary_databases` shows
  why. `TypeInv` adds to the types which variables are reset in which phase,
  and that there is at most one query per database. `CacheInv` orders everything that was
  read: an answer under way lies between the cached boundary and the published one, and the
  bounds of a page are at most, and all rows found or delivered below, the cached one. It
  also says that no query is under way while a call has its answer in hand, which is where
  `Settled` and the sharing of queries come in. So `BoundaryNeverGoesBack` is a step
  property of `CacheInv`, and a row inserted above what is published is above every
  cursor. `WalkInv` says that of the databases that have answered, each row in the range
  is found or preceded by more than a page of rows that are; since no row is inserted in
  the range meanwhile, a page cut at the right end skips nothing.

* *Posting.* `PostInv` is made of the types, of `IsWell` (the numbers of clients are fresh,
  because the current one is at most the number made, and the only open socket is its own)
  and of `Accounted`, which says in each phase of a post which messages are unsent and which
  were taken. `PostedAsTold` alone is not inductive, since it says nothing of a post that is
  being sent; that JSON-RPC takes messages in order is what lets one number tell the taken
  from the unsent. The theorems assume `BatchesAreMessages`.
* *Lifecycle.* `ProcessInv` says of the ports that at most one is open, that the last
  server's is not closed while no signal is handled, and that, unless a signal came during a
  start, every older server's is closed. The last part is what makes `"port"` impossible
  without an overtaken start, and it needs the lock: with two signals handled at a time a
  server could be appended while the one before it listens.
* *Providers.* `WholeFeed` is about any lists of databases, shared in any way. `FeedInv` says
  that every server is made of its configuration, whose lists are lists, and follows exactly
  the collections of the providers that it has started. A provider starts where the code's
  loops over combiners, caches and archives lead; by induction over these loops
  (`DistinctFound`) the databases a combiner asks are those of its lists, each once. The
  property is stated of files that do not put a database into both the hot and the cold list
  of a collection (`SplitByAge`); the observations say what happens otherwise. Of a
  configuration the theorem assumes that its lists are lists (`GivesLists`, in
  `QServerAssumption`).
* *Bocs.* `Progress` says of a call's rows what they have before each await: the fields the
  archive keeps before the BOCs are got, the BOC before it is parsed, and all that was
  selected before the fields are resolved, but for the BOC of an archived block. It is what
  the selection that is sent to the database, made before any of this is known, has to
  provide for.
* *JoinQuery.* `FindInv` is what a join needs of a query: what is read, found and answered are
  lists of documents of the collection asked for. `JoinInv` adds three things. Records and the
  frames of nested joins are lists of objects that exist (`IsHeap`, `AreFrames`), and what is
  joined was got rightly (`GotRight`). A plan has for each link the places in records where it
  occurs (`IsPlan`). And, for completeness, each reference that is still open and can be
  joined is pending, in the plan or in a frame below, unless a join was given up (`Complete`,
  `Pending`): a portion that is read takes links out of the plan only with their places.
* *CollectionQuery.* `BestFound` has three parts. (1) Orders: the order of an answer is a
  strict weak order (`AnotherBetween`; a finite set has a first document, `OneIsFirst`),
  because paths compare numbers or nothing, and a part of a document that a query asks for has
  all that its order compares, so that parts are ordered as their documents (`ShownTop`).
  (2) First documents: `TopOfTops`, the first of the first documents of several sets are the
  first of all of them. It is used twice: of the OR operands of a filter, which one database
  evaluates as queries of their own, each with the limit, and again of the databases. Between
  them, `combineResults` drops what it has and inserts the rest into its order, and what comes
  out is sorted and without repetition (`CombinedRanked`); then it is cut, and the missing
  accounts are told (`FinishedHas`). (3) Steps: `BestInv` says that a request is read by its
  filter and order, or by the key that it has found and no order, that each answer is what its
  database had to say of what it held then (`seen`), and that a database holds one version of
  each document; what is fetched is then the best for every later time.
* *Aggregations.* `WholeAggregates` takes sums to be numbers of elements: a count is of
  documents, a sum is of their units (`Units`, each document with the numbers up to its value),
  so that both add up when no document is in two databases (`TotalOfSets`, `KeptTotal`), in
  whichever order a database goes through its documents (`SumIs`). The least of least values is
  the least of all (`ExtremeIsWhole`). The mean of the databases' means, over
  a common denominator and truncated, is between any bounds of the values (`MeanBetween`). `SumInv` says that an answer of a database
  is of what it held when it was read, and that an answered aggregation is the last of its
  request. The results that are nothing are left out by a loop, of which `KeptPlaces` tells
  which element of its result comes from which place.
* *What is known of queries.* `VerdictsKeepUp` is the invariant: each verdict is the
  detector's by the indexes known now, of some query with the text and the order that it is
  kept under. Indexes that are read anew clear the verdicts in the same step, and a query that
  is under way is classified by the indexes of its own step. That the query is the one that
  asks needs that text and order tell the verdict (`KeysTellVerdicts`, a hypothesis of
  `StatsKeepUp`): the code keeps verdicts by the text, but detects on the filter. A filter by a
  name and one by the number it stands for have one text; TLC evaluates that the queries of the
  instance with one text have one verdict (`KeysAssumption`).

The assumptions are those the modules declare: bounds are natural numbers, the limit of a
page query is positive, a request is not `NoOne`, and so on.

`QueriesAssumption` says of what is stored and asked what the schema and the code make true:
documents tell their collection and key, and the messages of a transaction are a list; one
database holds a key once; limits are natural numbers; joins are selected from what the schema
has; what a filter selects are the documents that one of its OR operands selects, and, if it is
only about ids, the documents of these ids; what an order compares are numbers, which documents
may lack (the code compares texts in the same way, but the model has no order of texts); what
is aggregated are natural numbers, which documents may lack; the detector says yes or no.
`MCQueries` satisfies it with the filters of `Filters`, as TLC evaluates it.

Loops of the code are recursive functions here (`Loops` proves what induction there is:
`ByInduction` is about a set of numbers, which a predicate on the index defines), so that what
they compute is proved for any lists. Recursive operators are beyond the prover.

Model-checked only are

* the liveness properties, the second part of `LeaseFollowsUse` among them: the prover has no
  rule for fairness here;
* `FeedAgreesWithDatabase`, which is about what filters mean in two languages: both meanings
  are recursive over filters, structs and arrays, and are recursive operators;
* `PageIsRight` and `WholeOrNothing`: `BlockchainApi` selects fields by recursive operators.

## 5. Plan

1. The listener of a key-value list, a wait and a subscription are each proved by
   themselves; what is left between them is the feed of `WaitFor`, which is a set of
   documents there and the emitter of a collection in `ChangeFeed`.
2. `BlockchainApi` with its selections as sets of paths, and no recursive operators. The
   facts about first documents in an order (`TopOfTops`) are what a theorem about its pages
   over several databases needs, since chain orders and keys are compared in the same way.
