------------------------------- MODULE Queries -------------------------------
(***************************************************************************)
(* Queries of collections from their arguments to their answers: found by  *)
(* CollectionQuery, joined by JoinQuery, while documents are written and   *)
(* indexes change.                                                         *)
(***************************************************************************)
EXTENDS Integers, FiniteSets, Sequences

CONSTANTS Null, Request, Databases, Types, Asks, Initially, Arrivals, IndexHistory, Portion, JoinLimit,
          Selections    \* the joins that queries select, and those that joins select

\* Of Filters and SlowDetector, see CollectionQuery.
CONSTANTS Matches(_, _, _), Accepts(_, _, _, _), BothCompare(_, _, _), Operands(_),
          Explanation(_, _, _), JudgedFast(_, _, _, _, _)

VARIABLES stored, asked, records, joining

VARIABLES slowQueries, actualIndexes, indexes, refreshDue, queryStats, phase, filter, orderBy,
          single, isFast, reads, polled, aggregated, seen, fetch

VARIABLES objects, frames, join, plan, joined, late, gaveUp

findVars == <<slowQueries, actualIndexes, indexes, refreshDue, queryStats, phase, filter, orderBy,
              single, isFast, reads, polled, aggregated, seen, fetch>>
joinVars == <<objects, frames, join, plan, joined, late, gaveUp>>
vars == <<stored, asked, records, joining, findVars, joinVars>>

Find == INSTANCE CollectionQuery
Join == INSTANCE JoinQuery

IsSeq(s) == s \in Seq({s[i] : i \in DOMAIN s})

\* Documents tell their collection and key, and the messages of a transaction are a list.
IsDocument(d) == {"coll", "_key"} \subseteq DOMAIN d /\ ("out_msgs" \in DOMAIN d => d.out_msgs = Null \/ IsSeq(d.out_msgs))
AreDocuments(docs) == IsFiniteSet(docs) /\ \A d \in docs : IsDocument(d)

\* All documents of a collection that a database holds at any time.
AllOf(coll) ==
    LET first == UNION {UNION {docs[db] : db \in 1..Databases} : docs \in Initially}
        later == UNION {Arrivals[db] : db \in 1..Databases}
    IN {d \in first \cup later : d.coll = coll}

\* The filters that a query is read by: its own, or for the key that it has found.
FiltersOf(q) ==
    {q.filter} \cup {[id |-> [eq |-> key]] : key \in Find!Keys(AllOf(q.coll)) \cup Find!ExtractIdFilter(q.filter)}

\* What a filter selects are the documents that one of its operands selects, and,
\* if it is only about ids, those of its ids.
IsFilter(selection, coll) ==
    \A d \in AllOf(coll) :
        LET Selects(condition) == Matches(Types[coll], condition, d)
            ids == Find!ExtractIdFilter(selection)
        IN /\ Selects(selection) <=> \E i \in DOMAIN Operands(selection) : Selects(Operands(selection)[i])
           /\ ids # {} => (Selects(selection) <=> d._key \in ids)

\* Null is no document, nor the part of one that is asked for.
IsNothing(docs) == \A d \in docs : d # Null /\ \A fields \in SUBSET DOMAIN d : Find!Projection(d, fields) # Null

\* Documents are ordered by numbers, which they may lack.
IsOrder(order, coll) ==
    /\ IsSeq(order)
    /\ \A d \in AllOf(coll), i \in DOMAIN order :
          Find!Field(d, Find!OrderByPath(order[i])[1]) \in Int \cup {Null}

\* Aggregated fields are natural numbers, which documents may lack.
IsAggregation(fields, coll) ==
    \A i \in DOMAIN fields :
        /\ fields[i].fn \in {"COUNT", "MIN", "MAX", "SUM", "AVERAGE"}
        /\ \A d \in AllOf(coll) : fields[i].fn # "COUNT" => Find!Field(d, fields[i].field) \in Nat \cup {Null}

\* The checks that queries may need, and the indexes that they may be made by.
ChecksOf(q, selection, order) ==
    LET checks == Find!Checks(q, selection, order) IN {checks[i] : i \in DOMAIN checks}
ChecksFor(q) == UNION {ChecksOf(q, selection, q.orderBy) \cup ChecksOf(q, selection, <<>>) : selection \in FiltersOf(q)}
Checked == UNION {UNION {ChecksFor(q) : q \in Asks[r]} : r \in Request}
KnownIndexes == {IndexHistory[i] : i \in DOMAIN IndexHistory}

\* Checks that share a key, by which verdicts are kept, have one verdict.
KeysTellVerdicts ==
    \A a, b \in Checked : Find!Key(a) = Find!Key(b) =>
        \A known \in KnownIndexes : Find!Detected(a, known) = Find!Detected(b, known)

ASSUME QueriesAssumption ==
    /\ IsFiniteSet(Request) /\ Databases \in Nat \ {0} /\ Null \notin Nat \cup (Nat \X Nat)
    /\ Portion \in Nat \ {0} /\ JoinLimit \in Nat \ {0}
    /\ \A docs \in Initially :
          /\ DOMAIN docs = 1..Databases
          /\ \A db \in 1..Databases :
                AreDocuments(docs[db]) /\ \A coll \in DOMAIN Types : Find!OneOfEach({d \in docs[db] : d.coll = coll})
    /\ \A db \in 1..Databases : AreDocuments(Arrivals[db])
    /\ IsSeq(IndexHistory) /\ IndexHistory # <<>>
    /\ \A check \in Checked, known \in KnownIndexes : Find!Detected(check, known) \in BOOLEAN
    /\ \A s \in Selections : IsSeq(s) /\ \A i \in DOMAIN s : s[i].selection \in Selections
    /\ \A r \in Request : \A q \in Asks[r] :
          /\ q.limit \in Nat /\ q.joins \in Selections /\ IsFiniteSet(Find!ExtractIdFilter(q.filter))
          /\ q.coll \in DOMAIN Types /\ IsNothing(AllOf(q.coll)) /\ IsOrder(q.orderBy, q.coll)
          /\ IsAggregation(q.fields, q.coll)
          /\ \A selection \in FiltersOf(q) : IsFilter(selection, q.coll)

Init == Find!Init /\ Join!Init

FindRecords == Find!Next /\ UNCHANGED <<joining, joinVars>>

JoinRecords == Join!Next /\ UNCHANGED findVars

Next == FindRecords \/ JoinRecords

Spec == Init /\ [][Next]_vars
-----------------------------------------------------------------------------
(* Properties, see the modules they are of *)

\* Steps of queries and of their joins keep to each other's phases.
TypeOK ==
    /\ Find!TypeOK /\ Join!TypeOK
    /\ \A r \in Request : /\ joining[r] # "no" => records[r] # Null
                          /\ phase[r] = "answered" /\ records[r] # Null => joining[r] = "done"

\* A query of several databases is answered as by one, and so is an aggregation.
FoundIsBest == Find!AnswerIsBest
AggregatesWhole == Find!AggregatesWhole
AnswerIsBest == FoundIsBest /\ AggregatesWhole

\* The server's test of a document agrees with the database's condition.
FeedAgreesWithDatabase == Find!FeedAgreesWithDatabase

\* What is known of a query is by the indexes known.
StatsAreOfTheIndexes == Find!StatsAreOfTheIndexes

\* Joined records are the ones their records refer to, and all of them.
JoinedRight == Join!JoinedRight
=============================================================================
