--------------------------- MODULE CollectionQuery ---------------------------
(***************************************************************************)
(* Queries and aggregations of a collection (data/collection-query.ts,     *)
(* data/collection.ts, the combiner of data/data-provider.ts): they are    *)
(* classified by the indexes the collection knows, read from all the       *)
(* databases of the collection, combined, and cut to their limit.  Joined  *)
(* records come after that, see JoinQuery.                                 *)
(*                                                                         *)
(* What filters and the detector of slow queries say is given to it, see   *)
(* Filters and SlowDetector.                                               *)
(***************************************************************************)
EXTENDS Aggregations

CONSTANTS
    Matches(_, _, _),           \* a database's condition, Selects of Filters
    Accepts(_, _, _, _),        \* the server's test, Test of Filters
    BothCompare(_, _, _),       \* where these compare alike, Comparable of Filters
    Operands(_),                \* SplitOr of Filters
    Explanation(_, _, _),       \* Explain of SlowDetector
    JudgedFast(_, _, _, _, _)   \* IsFastQuery of SlowDetector

CONSTANTS
    Request,        \* requests of clients
    Databases,      \* number of databases; the first is the hot one, with the feed
    Types,          \* the type of each collection
    Asks,           \* of each request: the queries it may ask
    Initially,      \* what the databases may hold at first
    Arrivals,       \* documents written later, also new versions of documents
    IndexHistory    \* sequence of the indexes that the databases get

VARIABLES
    slowQueries,    \* configuration: "ENABLE", "REDIRECT", "DISABLE"
    stored,         \* documents of each database
    actualIndexes,  \* indexes the databases have
    indexes,        \* indexes the collections know
    refreshDue,     \* indexesRefreshTime has passed
    queryStats,     \* what is known of queries: fast or not, by their text
    phase,          \* "idle", "classify", "refresh", "read", "joins", "answered", "failed"
    asked,          \* the query of a request
    filter, orderBy,\* of its arguments, changed by the query for a single result
    single,         \* that query is under way
    isFast,         \* read from the provider, not the one of slow queries
    reads,          \* what each database has answered, Null before
    polled,         \* a query that waits was answered once
    records,        \* the documents found, Null until they are
    aggregated,     \* the answer to an aggregation, Null before
    joining,        \* of the joins of a request (JoinQuery)
    seen,           \* history: documents of each database when it was read
    fetch           \* history: the last answers combined and what they were made of

config == <<slowQueries>>
database == <<stored, actualIndexes>>
statistics == <<indexes, refreshDue, queryStats>>
arguments == <<asked, filter, orderBy, single>>
results == <<reads, polled, seen>>
answers == <<records, aggregated, fetch>>
\* All but joining, which is changed by JoinQuery.
vars == <<config, database, statistics, phase, arguments, isFast, results, answers>>

Database == 1..Databases
NoReads == [db \in Database |-> Null]
Nothing == [db \in Database |-> {}]

Init ==
    /\ slowQueries \in {"ENABLE", "REDIRECT", "DISABLE"}
    /\ stored \in Initially
    /\ actualIndexes = Head(IndexHistory) /\ indexes = actualIndexes
    /\ refreshDue = TRUE /\ queryStats = <<>>
    /\ phase = [r \in Request |-> "idle"] /\ asked = [r \in Request |-> Null]
    /\ filter = [r \in Request |-> Null] /\ orderBy = [r \in Request |-> <<>>]
    /\ single = [r \in Request |-> FALSE] /\ isFast = [r \in Request |-> TRUE]
    /\ reads = [r \in Request |-> NoReads] /\ polled = [r \in Request |-> FALSE]
    /\ records = [r \in Request |-> Null] /\ aggregated = [r \in Request |-> Null]
    /\ seen = [r \in Request |-> Nothing] /\ fetch = [r \in Request |-> Null]

-----------------------------------------------------------------------------
(* A query in one database *)

\* The fields a query returns: its key, what is selected, and what it is ordered by.
ReturnExpression(q, order) ==
    {"_key", "coll"} \cup q.select \cup {OrderByPath(order[i])[1] : i \in DOMAIN order}

Projection(doc, fields) == [f \in DOMAIN doc \cap fields |-> doc[f]]

\* A document comes before another in an order.  The server's own comparison of
\* documents agrees with AQL's: it puts null first too.
Precedes(a, b, order) ==
    \E i \in DOMAIN order :
        LET Value(doc, k) == Field(doc, OrderByPath(order[k])[1])
            before == IF order[i].direction = "DESC" THEN AqlLess(Value(b, i), Value(a, i))
                                                     ELSE AqlLess(Value(a, i), Value(b, i))
        IN before /\ \A j \in 1..(i - 1) : Value(a, j) = Value(b, j)

\* SORT and LIMIT: equal documents come in any order.
Best(docs, order, limit) ==
    LET size == IF Cardinality(docs) < limit THEN Cardinality(docs) ELSE limit
        Sorted(s) == \A i, j \in DOMAIN s :
                        i < j => s[i] # s[j] /\ ~Precedes(s[j], s[i], order)
        Left(s) == docs \ {s[i] : i \in DOMAIN s}
    IN {s \in [1..size -> docs] :
           /\ Sorted(s)
           /\ \A d \in Left(s) : size > 0 => ~Precedes(d, s[size], order)}

\* The text of a query: one sub-query for each operand of the filter, each with
\* the order and the limit, and the same again over their distinct documents.
QueryText(q, selection, order, docs) ==
    LET fields == ReturnExpression(q, order)
        Sub(operand) == {{Projection(s[i], fields) : i \in DOMAIN s} :
                            s \in Best({d \in docs : Matches(Types[q.coll], operand, d)}, order, q.limit)}
        operands == Operands(selection)
        found == [i \in DOMAIN operands |-> Sub(operands[i])]
        chosen == {sets \in [DOMAIN operands -> UNION {found[i] : i \in DOMAIN found}] :
                      \A i \in DOMAIN found : sets[i] \in found[i]}
        unions == {UNION {sets[i] : i \in DOMAIN operands} : sets \in chosen}
    IN UNION {Best(u, order, q.limit) : u \in unions}

-----------------------------------------------------------------------------
(* Combination of the databases' results *)

\* collectDistinctDocs(): the first document of each key.
CollectDistinctDocs(docs) ==
    Kept(docs, {i \in DOMAIN docs : \A k \in 1..(i - 1) : docs[k]._key # docs[i]._key})

\* Mutant of CombineResults: the results stand one after another.
CombineUnsorted(answered, order) == CollectDistinctDocs(FlattenSeq(answered))

\* Sorting in a stable way: a document comes after those that it does not precede.
Inserted(docs, d, order) ==
    LET after == {i \in DOMAIN docs : Precedes(d, docs[i], order)}
    IN Kept(docs, DOMAIN docs \ after) \o <<d>> \o Kept(docs, after)

\* combineResults()
CombineResults(answered, order) ==
    LET docs == CollectDistinctDocs(FlattenSeq(answered))
        sorted[i \in 0..Len(docs)] == IF i = 0 THEN <<>> ELSE Inserted(sorted[i - 1], docs[i], order)
    IN sorted[Len(docs)]

\* extractIdFilter(): the ids that the whole filter is about.
ExtractIdFilter(selection) ==
    IF DOMAIN selection # {"id"} THEN {}
    ELSE IF DOMAIN selection.id = {"eq"} THEN {selection.id.eq}
    ELSE IF DOMAIN selection.id = {"in"} THEN selection.id.in ELSE {}

MissingAccount(id) == [coll |-> "accounts", _key |-> id, acc_type |-> 3]

\* addMissingAccountRecords(): in the order of the filter, which is not told.
AddMissingAccountRecords(docs, ids) ==
    LET missing == SetToSeq(ids \ {docs[i]._key : i \in DOMAIN docs})
    IN docs \o [i \in DOMAIN missing |-> MissingAccount(missing[i])]

\* The rest of fetchRecords() up to the joins.
Finished(q, selection, docs) ==
    LET all == IF q.coll = "accounts" /\ Len(docs) < Cardinality(ExtractIdFilter(selection))
               THEN AddMissingAccountRecords(docs, ExtractIdFilter(selection)) ELSE docs
    IN SubSeq(all, 1, IF Len(all) > q.limit THEN q.limit ELSE Len(all))

-----------------------------------------------------------------------------
(* Classification *)

\* The checks of a query, each under its text and order: a collection query is
\* checked once, an aggregation for each of its fields, none for sums.
Text(q, selection) ==
    [coll |-> q.coll, limit |-> q.limit, fields |-> q.fields, select |-> q.select,
     filter |-> [i \in DOMAIN Operands(selection) |->
                    Explanation(Types[q.coll], <<>>, Operands(selection)[i])]]

Checks(q, selection, order) ==
    LET Check(o) == [text |-> Text(q, selection), coll |-> q.coll, filter |-> selection, orderBy |-> o]
        checked == SelectSeq(q.fields, LAMBDA f : f.fn \in {"COUNT", "MIN", "MAX"})
    IN IF q.fields = <<>> THEN <<Check(order)>>
       ELSE [i \in DOMAIN checked |->
                Check(IF checked[i].fn = "COUNT" THEN <<>>
                      ELSE <<[path |-> <<checked[i].field>>, direction |-> "ASC"]>>)]

Key(check) == <<check.text, check.orderBy>>

\* What the detector says of a check, and what isFastQuery() answers.
Detected(check, known) ==
    JudgedFast(check.coll, Types[check.coll], check.filter, check.orderBy, known[check.coll])
Stat(check, stats, known) ==
    IF Key(check) \in DOMAIN stats THEN stats[Key(check)] ELSE Detected(check, known)

\* checkIsFast() of a request once the indexes are refreshed: with slow queries
\* enabled nothing is asked; checks are made until one is slow, and kept.
Classified(r, stats, known) ==
    LET checks == Checks(asked[r], filter[r], orderBy[r])
        slow == {i \in DOMAIN checks : ~Stat(checks[i], stats, known)}
        made == {i \in DOMAIN checks : \A j \in slow : i <= j}
        keys == {Key(checks[i]) : i \in made}
        fast == slow = {}
    IN /\ queryStats' = [k \in keys \cup DOMAIN stats |->
                            IF k \in DOMAIN stats THEN stats[k]
                            ELSE \A i \in made : Key(checks[i]) = k => Detected(checks[i], known)]
       /\ isFast' = [isFast EXCEPT ![r] = fast]
       /\ phase' = [phase EXCEPT ![r] = IF ~fast /\ slowQueries = "DISABLE" THEN "failed" ELSE "read"]

\* A request is made: a query with an order and a limit of one is for its key first.
Ask(r) ==
    /\ phase[r] = "idle"
    /\ \E q \in Asks[r] :
          /\ asked' = [asked EXCEPT ![r] = q]
          /\ filter' = [filter EXCEPT ![r] = q.filter] /\ orderBy' = [orderBy EXCEPT ![r] = q.orderBy]
          /\ single' = [single EXCEPT ![r] = q.orderBy # <<>> /\ q.limit = 1 /\ q.fields = <<>>]
    /\ phase' = [phase EXCEPT ![r] = "classify"]
    /\ UNCHANGED <<config, database, statistics, isFast, results, answers>>

\* The query is classified at once, or the indexes are read first.
Classify(r) ==
    /\ phase[r] = "classify"
    /\ IF slowQueries = "ENABLE"
       THEN phase' = [phase EXCEPT ![r] = "read"] /\ UNCHANGED <<statistics, isFast>>
       ELSE IF refreshDue
            THEN /\ refreshDue' = FALSE
                 /\ phase' = [phase EXCEPT ![r] = "refresh"]
                 /\ UNCHANGED <<indexes, queryStats, isFast>>
            ELSE Classified(r, queryStats, indexes) /\ UNCHANGED <<indexes, refreshDue>>
    /\ UNCHANGED <<config, database, arguments, results, answers>>

\* Mutant of Refreshed: what is known of queries is kept.
RefreshedOnly(r) ==
    /\ phase[r] = "refresh"
    /\ indexes' = actualIndexes
    /\ Classified(r, queryStats, indexes')
    /\ UNCHANGED <<config, database, refreshDue, arguments, results, answers>>

\* checkRefreshInfo() has the indexes: new ones clear what is known of queries.
Refreshed(r) ==
    /\ phase[r] = "refresh"
    /\ indexes' = actualIndexes
    /\ Classified(r, IF indexes' = indexes THEN queryStats ELSE <<>>, indexes')
    /\ UNCHANGED <<config, database, refreshDue, arguments, results, answers>>

\* The database fails, while indexes or documents are read: so does the request.
DatabaseFails(r) ==
    /\ phase[r] \in {"refresh", "read"}
    /\ phase' = [phase EXCEPT ![r] = "failed"]
    /\ reads' = [reads EXCEPT ![r] = NoReads] /\ seen' = [seen EXCEPT ![r] = Nothing]
    /\ UNCHANGED <<config, database, statistics, arguments, isFast, polled, answers>>

-----------------------------------------------------------------------------
(* Reading *)

\* A database answers a query or an aggregation.
Read(r, db) ==
    /\ phase[r] = "read" /\ reads[r][db] = Null
    /\ LET q == asked[r]
           docs == {d \in stored[db] : d.coll = q.coll}
           selected == {d \in docs : Matches(Types[q.coll], filter[r], d)}
       IN /\ seen' = [seen EXCEPT ![r][db] = docs]
          /\ \E result \in IF q.fields = <<>> THEN QueryText(q, filter[r], orderBy[r], docs)
                           ELSE {[i \in DOMAIN q.fields |->
                                     Aggregate(q.fields[i].fn, q.fields[i].field, selected)]} :
                reads' = [reads EXCEPT ![r][db] = result]
    /\ UNCHANGED <<config, database, statistics, phase, arguments, isFast, polled, answers>>

\* What the requests of a set have fetched: the query for a single result goes on
\* with the key it found, or ends; another one has found its records.
Fetched(rs, docs) ==
    LET found == [r \in rs |-> Finished(asked[r], filter[r], docs[r])]
        keyed == {r \in rs : single[r] /\ found[r] # <<>>}
        empty == {r \in rs : single[r] /\ found[r] = <<>>}
    IN /\ phase' = [r \in Request |-> IF r \in keyed THEN "classify" ELSE IF r \in empty THEN "answered"
                                      ELSE IF r \in rs THEN "joins" ELSE phase[r]]
       /\ filter' = [r \in Request |->
                        IF r \in keyed THEN [id |-> [eq |-> found[r][1]._key]] ELSE filter[r]]
       /\ orderBy' = [r \in Request |-> IF r \in keyed THEN <<>> ELSE orderBy[r]]
       /\ single' = [r \in Request |-> single[r] /\ r \notin keyed]
       /\ reads' = [r \in Request |-> IF r \in keyed THEN NoReads ELSE reads[r]]
       /\ polled' = [r \in Request |-> polled[r] /\ r \notin keyed]
       /\ records' = [r \in Request |-> IF r \in rs \ (keyed \cup empty) THEN found[r] ELSE records[r]]

\* All databases have answered an aggregation.
Reduce(r) ==
    /\ phase[r] = "read" /\ asked[r].fields # <<>> /\ \A db \in Database : reads[r][db] # Null
    /\ aggregated' = [aggregated EXCEPT ![r] = ReduceResults(reads[r], asked[r].fields)]
    /\ fetch' = [fetch EXCEPT ![r] = [docs |-> seen[r]]]
    /\ phase' = [phase EXCEPT ![r] = "answered"]
    /\ UNCHANGED <<config, database, statistics, arguments, isFast, results, records>>

\* All databases have answered a query.  One that waits asks again after nothing.
Combine(r) ==
    /\ phase[r] = "read" /\ asked[r].fields = <<>> /\ \A db \in Database : reads[r][db] # Null
    /\ LET combined == CombineResults(reads[r], orderBy[r])
       IN IF asked[r].waits /\ combined = <<>>
          THEN /\ polled' = [polled EXCEPT ![r] = TRUE] /\ reads' = [reads EXCEPT ![r] = NoReads]
               /\ UNCHANGED <<phase, filter, orderBy, single, records, fetch>>
          ELSE /\ Fetched({r}, [x \in {r} |-> combined])
               /\ fetch' = [fetch EXCEPT ![r] =
                     [docs |-> seen[r], filter |-> filter[r], orderBy |-> orderBy[r],
                      records |-> Finished(asked[r], filter[r], combined)]]
    /\ UNCHANGED <<config, database, statistics, asked, isFast, seen, aggregated>>

\* The timeout of a query that waits: nothing was found, or nothing was answered.
TimesOut(r) ==
    /\ phase[r] = "read" /\ asked[r].waits
    /\ IF polled[r]
       THEN Fetched({r}, [x \in {r} |-> <<>>])
       ELSE /\ phase' = [phase EXCEPT ![r] = "failed"]
            /\ UNCHANGED <<filter, orderBy, single, reads, polled, records>>
    /\ UNCHANGED <<config, database, statistics, asked, isFast, seen, aggregated, fetch>>

\* The records of a request are joined (JoinQuery), or their joins have failed.
Answer(r) ==
    /\ phase[r] = "joins" /\ joining[r] \in {"done", "failed"}
    /\ phase' = [phase EXCEPT ![r] = IF joining[r] = "done" THEN "answered" ELSE "failed"]
    /\ UNCHANGED <<config, database, statistics, arguments, isFast, results, answers>>

-----------------------------------------------------------------------------
(* The databases *)

\* A document is written, a new version in place of the old.  The feed of the hot
\* database tells the queries that wait, and ends those whose filter it passes.
Write(d, db) ==
    /\ d \in Arrivals[db] \ stored[db]
    /\ stored' = [stored EXCEPT ![db] = {x \in @ : x.coll # d.coll \/ x._key # d._key} \cup {d}]
    /\ LET fed == {r \in Request : /\ db = 1 /\ phase[r] = "read" /\ asked[r].waits
                                   /\ asked[r].coll = d.coll
                                   /\ Accepts(Types[d.coll], Null, d, filter[r])}
       IN /\ Fetched(fed, [r \in fed |-> <<d>>])
          /\ fetch' = [r \in Request |-> IF r \in fed THEN Null ELSE fetch[r]]
    /\ UNCHANGED <<config, actualIndexes, statistics, asked, isFast, seen, aggregated>>

\* The indexes of the databases are changed.
Reindex ==
    /\ \E i \in 1..(Len(IndexHistory) - 1) :
          actualIndexes = IndexHistory[i] /\ actualIndexes' = IndexHistory[i + 1]
    /\ UNCHANGED <<config, stored, statistics, phase, arguments, isFast, results, answers>>

\* The interval of the indexes is over.
RefreshIsDue ==
    /\ ~refreshDue /\ refreshDue' = TRUE
    /\ UNCHANGED <<config, database, indexes, queryStats, phase, arguments, isFast, results, answers>>

\* A step of a request that is under way.
Step(r) ==
    \/ DatabaseFails(r) \/ Answer(r) \/ Classify(r) \/ Refreshed(r)
    \/ \E db \in Database : Read(r, db)
    \/ Reduce(r) \/ Combine(r) \/ TimesOut(r)

Next ==
    \/ \E r \in Request : Ask(r) \/ Step(r)
    \/ \E db \in Database : \E d \in Arrivals[db] : Write(d, db)
    \/ Reindex \/ RefreshIsDue
-----------------------------------------------------------------------------
(* Properties *)

\* A request has what it needs in each of its phases: arguments, answers only of
\* databases that were read, and records or an aggregation, not both, at its end.
TypeOK ==
    /\ slowQueries \in {"ENABLE", "REDIRECT", "DISABLE"}
    /\ refreshDue \in BOOLEAN
    /\ \A r \in Request :
          /\ phase[r] \in {"idle", "classify", "refresh", "read", "joins", "answered", "failed"}
          /\ phase[r] = "idle" <=> asked[r] = Null
          /\ phase[r] \in {"classify", "refresh"} => reads[r] = NoReads /\ ~polled[r]
          /\ single[r] => orderBy[r] # <<>>
          /\ phase[r] = "joins" => records[r] # Null /\ ~single[r]
          /\ aggregated[r] # Null => phase[r] = "answered" /\ records[r] = Null

\* Records of documents, by their keys.
Keys(docs) == {d._key : d \in docs}
ByKey(docs, key) == CHOOSE d \in docs : d._key = key

\* Documents of a collection, each in one version.
OneOfEach(docs) == \A d, e \in docs : d._key = e._key => d = e

\* What is fetched for a query, from databases that were read one by one and held
\* the same version of a document: each document once, only documents that its
\* filter selects, in its order, and so many that no other comes before any of
\* them; of accounts asked for by their ids, the missing ones are in no database.
AnswerIsBest ==
    \A r \in Request : fetch[r] # Null /\ asked[r].fields = <<>> =>
        LET q == asked[r]
            held == UNION {fetch[r].docs[db] : db \in Database}
            matching == {d \in held : Matches(Types[q.coll], fetch[r].filter, d)}
            got == fetch[r].records
            found == {i \in DOMAIN got : got[i]._key \in Keys(matching)}
            Source(i) == ByKey(matching, got[i]._key)
            left == {d \in matching : \A i \in found : got[i]._key # d._key}
            absent == IF q.coll = "accounts" THEN ExtractIdFilter(fetch[r].filter) \ Keys(held) ELSE {}
        IN OneOfEach(held) =>
           /\ \A i, j \in DOMAIN got : i # j => got[i]._key # got[j]._key
           /\ \A i, j \in found : i < j => ~Precedes(Source(j), Source(i), fetch[r].orderBy)
           /\ Len(got) <= q.limit
           /\ left # {} => found = 1..q.limit
           /\ \A d \in left : \A i \in found : ~Precedes(d, Source(i), fetch[r].orderBy)
           /\ \A i \in DOMAIN got \ found : got[i]._key \in absent
           /\ Len(got) < q.limit => \A id \in absent : \E i \in DOMAIN got : got[i]._key = id

\* The server's own test of a document, by which a query that waits ends with a
\* document of the feed, agrees with the condition its database evaluates, for
\* all documents written while the filter is read by, where they are comparable.
FeedAgreesWithDatabase ==
    \A r \in Request : phase[r] = "read" =>
        \A db \in Database : \A d \in stored[db] :
            d.coll = asked[r].coll /\ BothCompare(Types[d.coll], d, filter[r]) =>
                (Accepts(Types[d.coll], Null, d, filter[r]) <=> Matches(Types[d.coll], filter[r], d))

\* What is known of a query is what the detector says of it by the indexes known
\* now, for every query that can be asked, although the indexes are read again
\* while queries are classified.
StatsAreOfTheIndexes ==
    \A r \in Request : \A q \in Asks[r] :
        LET checks == Checks(q, q.filter, q.orderBy)
        IN \A i \in DOMAIN checks :
              Key(checks[i]) \in DOMAIN queryStats =>
                  queryStats[Key(checks[i])] = Detected(checks[i], indexes)

\* An aggregation is of all documents of all databases, when each is in one of them
\* only: exact for counts, and for least, greatest and total values when every
\* document has the field; an average is between the least and the greatest.
AggregatesWhole ==
    \A r \in Request : aggregated[r] # Null =>
        LET q == asked[r]
            held == UNION {fetch[r].docs[db] : db \in Database}
            docs == {d \in held : Matches(Types[q.coll], filter[r], d)}
            Whole(fn, field) == Aggregate(fn, field, docs)
            inOne == \A d \in docs : Cardinality({db \in Database : d \in fetch[r].docs[db]}) = 1
        IN \A i \in DOMAIN q.fields : inOne =>
              LET field == q.fields[i].field
                  answer == aggregated[r][i]
              IN IF q.fields[i].fn = "COUNT" THEN answer = Cardinality(docs)
                 ELSE docs # {} /\ (\A d \in docs : Field(d, field) # Null) =>
                        IF q.fields[i].fn = "AVERAGE"
                        THEN Whole("MIN", field) <= answer /\ answer <= Whole("MAX", field)
                        ELSE answer = Whole(q.fields[i].fn, field)
=============================================================================
