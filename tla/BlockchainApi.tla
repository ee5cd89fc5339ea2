---------------------------- MODULE BlockchainApi ----------------------------
(***************************************************************************)
(* Calls of the blockchain API (graphql/blockchain/): pages of blocks,     *)
(* transactions and messages by cursors, single records, neighbours of a   *)
(* block, ranges of master blocks by time.  Each is one query of several   *)
(* databases.  Records that a call joins are first looked for by the query *)
(* itself, in the database of the record they belong to (prefetch), and    *)
(* those not found there are then fetched from all of them (fetchJoins).   *)
(*                                                                         *)
(* A row is a node [doc, order, joins]: the value of its cursor, and by    *)
(* join field the nodes joined, at most one but for "out_messages".  A     *)
(* selection of joins is a function of the join fields to the selections   *)
(* of their records.  A chain order is a number, whose hundreds are the    *)
(* number of its master block.                                             *)
(***************************************************************************)
EXTENDS Documents, TLC

CONSTANTS
    Client,         \* calls of clients
    Episodes,       \* [initially, arrivals, calls]: the documents of each database, at first
                    \* and written later, and what may be called while they are
    Databases,      \* number of databases, in the order of the combiner
    MaxPage,        \* largest page (50)
    FirstBoundary, LastBoundary     \* bounds of the reliable boundary

VARIABLES
    episode,        \* the one that takes place
    stored,         \* documents of each database
    reliable,       \* the boundary of getReliableChainOrderUpperBoundary()
    call,           \* what a client calls, Null before
    stage,          \* "idle", "boundary", "read", "joins", "answered", "failed"
    took,           \* the boundary each filter of a call has taken
    answers,        \* what each database has answered, Null before
    rows,           \* rows of the answer
    hasMore,        \* hasNextPage or hasPreviousPage
    range,          \* range of master blocks
    todo,           \* paths of the joins still to be fetched
    held            \* history: documents of each database when it was read

vars == <<episode, stored, reliable, call, stage, took, answers, rows, hasMore, range, todo, held>>

NoAnswers == [db \in 1..Databases |-> Null]
NoRange == [first |-> Null, start |-> Null, end |-> Null]

Init ==
    /\ episode \in Episodes /\ stored = episode.initially
    /\ reliable = FirstBoundary
    /\ call = [c \in Client |-> Null] /\ stage = [c \in Client |-> "idle"]
    /\ took = [c \in Client |-> <<>>] /\ answers = [c \in Client |-> NoAnswers]
    /\ rows = [c \in Client |-> <<>>] /\ hasMore = [c \in Client |-> FALSE]
    /\ range = [c \in Client |-> NoRange] /\ todo = [c \in Client |-> <<>>]
    /\ held = [c \in Client |-> NoAnswers]

-----------------------------------------------------------------------------
(* Arguments of pages *)

\* processPaginationArgs(): arguments that exclude each other.  Zero counts as none.
Counts(number) == number # Null /\ number # 0
Invalid(q) ==
    \/ Counts(q.first) /\ (Counts(q.last) \/ q.before # Null \/ q.first < 1)
    \/ Counts(q.last) /\ (q.after # Null \/ q.last < 1)

Backward(q) == Counts(q.last) \/ q.before # Null

\* One row more than the page, to know if there are more.
Limit(q) == 1 + CHOOSE n \in {MaxPage, q.first, q.last} \ {Null} :
                   \A m \in {MaxPage, q.first, q.last} \ {Null} : n <= m

Comparison(field, op, value) == [field |-> field, op |-> op, value |-> value]
IfGiven(field, op, value) == IF value = Null THEN {} ELSE {Comparison(field, op, value)}
Meets(d, conditions) == \A c \in conditions : ScalarOp(c.op, Field(d, c.field), c.value, "aql")

\* Chain orders that end before both a requested end and the boundary.
UpTo(q, requested, boundary) ==
    IF q.latest THEN requested
    ELSE IF requested # Null /\ requested < boundary THEN requested ELSE boundary

\* Mutant of ChainOrderFilter: the row of the cursor is in the next page.
ChainOrderFilterInclusive(q, field, boundary) ==
    LET start == IF q.after # Null /\ (q.from = Null \/ q.after > q.from) THEN q.after ELSE q.from
        end == IF q.before # Null /\ (q.to = Null \/ q.before < q.to) THEN q.before ELSE q.to
    IN (IF start # Null THEN {Comparison(field, "ge", start)} ELSE {Comparison(field, "ne", Null)})
       \cup IfGiven(field, "lt", UpTo(q, end, boundary))

\* prepareChainOrderFilter(): the later start, the earlier end.
ChainOrderFilter(q, field, boundary) ==
    LET start == IF q.after # Null /\ (q.from = Null \/ q.after > q.from) THEN q.after ELSE q.from
        end == IF q.before # Null /\ (q.to = Null \/ q.before < q.to) THEN q.before ELSE q.to
    IN (IF start # Null THEN {Comparison(field, "gt", start)} ELSE {Comparison(field, "ne", Null)})
       \cup IfGiven(field, "lt", UpTo(q, end, boundary))

\* prepareNonChainOrderPaginationFilter(): the cursor is another field.
CursorFilter(q, boundary) ==
    IfGiven("chain_order", "gt", q.from) \cup IfGiven("chain_order", "lt", UpTo(q, q.to, boundary))
    \cup IfGiven(q.by, "gt", q.after) \cup IfGiven(q.by, "lt", q.before)

\* The two sides of an account's messages: its own field, the other's, the cursor,
\* and the names of the types that may be asked for.
MessageSides ==
    [in |-> [mine |-> "dst", other |-> "src", order |-> "dst_chain_order",
             types |-> [IntIn |-> 0, ExtIn |-> 1]],
     out |-> [mine |-> "src", other |-> "dst", order |-> "src_chain_order",
              types |-> [IntOut |-> 0, ExtOut |-> 2]]]

TypesAsked(q, side) ==
    {t \in DOMAIN MessageSides[side].types : q.types = {} \/ t \in q.types}

\* The filters of a page that take the boundary, in their order.
Sides(q) ==
    IF q.coll # "messages" THEN <<"all">>
    ELSE SelectSeq(<<"in", "out">>, LAMBDA side : TypesAsked(q, side) # {})

\* The queries of one side of an account's messages: one for each counterparty and
\* type, or one for all types, or for the type.
MessageQueries(q, side, boundary) ==
    LET s == MessageSides[side]
        common == {Comparison(s.mine, "eq", q.account)} \cup q.where
                  \cup ChainOrderFilter(q, s.order, boundary)
        OfType(t) == {Comparison("msg_type", "eq", s.types[t])}
        Counterparty(cp) == {Comparison(s.other, "eq", cp)}
    IN {[order |-> s.order, conditions |-> common \cup more] :
           more \in IF q.counterparties # {}
                    THEN {OfType(t) \cup Counterparty(cp) : t \in TypesAsked(q, side), cp \in q.counterparties}
                    ELSE IF TypesAsked(q, side) = DOMAIN s.types THEN {{}}
                    ELSE {OfType(t) : t \in TypesAsked(q, side)}}

\* The queries of a page, whose rows are united.
PageQueries(q, taken) ==
    IF q.coll = "messages"
    THEN UNION {MessageQueries(q, side, taken[side]) : side \in DOMAIN taken}
    ELSE {[order |-> q.by,
           conditions |-> q.where \cup IF q.by = "chain_order" THEN ChainOrderFilter(q, q.by, taken.all)
                                       ELSE CursorFilter(q, taken.all)]}

-----------------------------------------------------------------------------
(* Joins *)

\* The join configurations: a record is joined if one of its values "on" is one of
\* the values "refOn" of the other.
JoinConfig ==
    [src_transaction |-> [coll |-> "transactions", on |-> "_key", refOn |-> "out_msgs"],
     dst_transaction |-> [coll |-> "transactions", on |-> "_key", refOn |-> "in_msg"],
     in_message |-> [coll |-> "messages", on |-> "in_msg", refOn |-> "_key"],
     out_messages |-> [coll |-> "messages", on |-> "out_msgs", refOn |-> "_key"]]
Joins(coll) ==
    CASE coll = "messages" -> <<"src_transaction", "dst_transaction">>
      [] coll = "transactions" -> <<"in_message", "out_messages">>
      [] OTHER -> <<>>

KeysOf(doc, field) ==
    IF Field(doc, field) = Null THEN {} ELSE IF field = "out_msgs" THEN ToSet(doc[field]) ELSE {doc[field]}

Belongs(d, join, keys) == d.coll = JoinConfig[join].coll /\ KeysOf(d, JoinConfig[join].refOn) \cap keys # {}

\* The return expression of a query in one database: a record with the records of
\* the same database that it joins, and these with theirs.
RECURSIVE Prefetched(_, _, _, _)
Prefetched(doc, order, selection, docs) ==
    LET Found(join) == {d \in docs : Belongs(d, join, KeysOf(doc, JoinConfig[join].on))}
        Node(d, join) == Prefetched(d, Null, selection[join], docs)
    IN [doc |-> doc, order |-> order,
        joins |-> [join \in DOMAIN selection |->
                      LET nodes == SetToSeq({Node(d, join) : d \in Found(join)})
                      IN IF join = "out_messages" \/ nodes = <<>> THEN nodes ELSE <<Head(nodes)>>]]

\* Mutant of NeedFetch: joined messages are complete once there are some.
NeedFetchNone(node, join) ==
    LET got == node.joins[join]
    IN CASE join = "src_transaction" -> got = <<>> /\ node.doc.msg_type # 1
         [] join = "dst_transaction" -> got = <<>> /\ node.doc.msg_type # 2
         [] join = "in_message" -> (got # <<>>) # (node.doc.in_msg # Null)
         [] join = "out_messages" -> got = <<>> /\ node.doc.out_msgs # <<>>

\* A join of a record is not complete by what was found with it.
NeedFetch(node, join) ==
    LET got == node.joins[join]
    IN CASE join = "src_transaction" -> got = <<>> /\ node.doc.msg_type # 1
         [] join = "dst_transaction" -> got = <<>> /\ node.doc.msg_type # 2
         [] join = "in_message" -> (got # <<>>) # (node.doc.in_msg # Null)
         [] join = "out_messages" -> Len(got) # Len(node.doc.out_msgs)

\* The joins of a selection in the order they are fetched, each with its own.
RECURSIVE Paths(_, _)
Paths(coll, selection) ==
    LET selected == SelectSeq(Joins(coll), LAMBDA join : join \in DOMAIN selection)
        Below(join) == Paths(JoinConfig[join].coll, selection[join])
    IN FlattenSeq([i \in DOMAIN selected |->
            <<<<selected[i]>>>> \o [k \in DOMAIN Below(selected[i]) |-> <<selected[i]>> \o Below(selected[i])[k]]])

\* The nodes that the last join of a path belongs to, and its own selection.
RECURSIVE Parents(_, _)
Parents(nodes, path) ==
    IF Len(path) = 1 THEN nodes
    ELSE Parents(UNION {ToSet(n.joins[Head(path)]) : n \in nodes}, Tail(path))
SelectionAt(selection, path) == FoldLeft(LAMBDA s, join : s[join], selection, path)

\* addToParent(): a record fetched is assigned to those that need it, or added.
Attached(node, join, items) ==
    LET own == SetToSeq({n \in items : Belongs(n.doc, join, KeysOf(node.doc, JoinConfig[join].on))})
    IN IF ~NeedFetch(node, join) \/ own = <<>> THEN node
       ELSE [node EXCEPT !.joins[join] = IF join = "out_messages" THEN @ \o own ELSE <<Last(own)>>]

RECURSIVE AttachedAt(_, _, _)
AttachedAt(node, path, items) ==
    IF Len(path) = 1 THEN Attached(node, path[1], items)
    ELSE [node EXCEPT !.joins[Head(path)] = [i \in DOMAIN @ |-> AttachedAt(@[i], Tail(path), items)]]

-----------------------------------------------------------------------------
(* A call in one database *)

\* SORT and LIMIT: the first rows in the direction of a page.
FirstRows(nodes, q) ==
    LET Before(a, b) == IF Backward(q) THEN a.order > b.order ELSE a.order < b.order
    IN {n \in nodes : Cardinality({m \in nodes : Before(m, n)}) < Limit(q)}

PageIn(q, taken, docs) ==
    LET Rows(query) ==
            FirstRows({Prefetched(d, d[query.order], q.joins, docs) :
                          d \in {x \in docs : x.coll = q.coll /\ Meets(x, query.conditions)}}, q)
    IN FirstRows(UNION {Rows(query) : query \in PageQueries(q, taken)}, q)

\* Single records, or all transactions of a message.
RecordsIn(q, docs) ==
    {Prefetched(d, Null, q.joins, docs) : d \in {x \in docs : x.coll = q.coll /\ Meets(x, q.where)}}

Blocks(docs) == {d \in docs : d.coll = "blocks"}
Bare(docs) == {Prefetched(d, Null, <<>>, {}) : d \in docs}

\* The blocks after a block.
NextIn(hash, docs) == Bare({b \in Blocks(docs) : hash \in {b.prev_ref, b.prev_alt_ref}})

\* The blocks before a block, none if one of two that were merged is not there.
PrevIn(hash, docs) ==
    LET found == {p \in Blocks(docs) : \E b \in Blocks(docs) : b._key = hash /\ p._key \in {b.prev_ref, b.prev_alt_ref}}
        merged == \E b \in Blocks(docs) : b._key = hash /\ b.after_merge
    IN IF merged /\ Cardinality(found) = 1 THEN {} ELSE Bare(found)

\* MASTER_SEQ_NO_RANGE_QUERY: numbers of the first master blocks by a time.  Of
\* blocks with the same time any may be the first.
MasterBlocks(docs) == {b \in Blocks(docs) : b.workchain_id = -1}
FirstBy(blocks, field) ==
    IF blocks = {} THEN {Null} ELSE {b.seq_no : b \in {x \in blocks : \A y \in blocks : x[field] <= y[field]}}
RangesIn(q, docs) ==
    LET master == MasterBlocks(docs)
        If(given, numbers) == IF given = Null THEN {Null} ELSE numbers
    IN [first : If(q.timeStart, FirstBy(master, "gen_utime")),
        start : If(q.timeStart, FirstBy({b \in master : b.gen_utime >= q.timeStart}, "gen_utime")),
        end : If(q.timeEnd, FirstBy({b \in master : b.min_shard_gen_utime >= q.timeEnd}, "min_shard_gen_utime"))]

\* What a database may answer.
AnswersIn(q, taken, docs) ==
    CASE q.kind = "page" -> {PageIn(q, taken, docs)}
      [] q.kind = "records" -> {RecordsIn(q, docs)}
      [] q.kind = "next" -> {NextIn(q.hash, docs)}
      [] q.kind = "prev" -> {PrevIn(q.hash, docs)}
      [] q.kind = "range" -> RangesIn(q, docs)

-----------------------------------------------------------------------------
(* Combination of the databases' answers *)

\* Distinct rows: by their key, messages of an account by their chain order.
Combined(q, answered) ==
    LET Id(n) == IF q.kind = "page" /\ q.coll = "messages" THEN n.order ELSE n.doc._key
    IN UNION {{n \in answered[db] : \A i \in 1..(db - 1) : \A m \in answered[i] : Id(m) # Id(n)} :
                 db \in DOMAIN answered}

\* The rows of a page, without the one that tells of more.
CutPage(q, sorted) ==
    IF Len(sorted) < Limit(q) THEN sorted
    ELSE IF Backward(q) THEN SubSeq(sorted, Len(sorted) - Limit(q) + 2, Len(sorted))
    ELSE SubSeq(sorted, 1, Limit(q) - 1)

\* Mutant of NextBlocks: whatever was found is told.
NextBlocksFound(found) == found

\* Half a split is not told.
NextBlocks(found) ==
    IF Cardinality(found) # 2 /\ \E n \in found : n.doc.after_split THEN {} ELSE found

MissingAccount(key) == [coll |-> "accounts", _key |-> key, acc_type |-> 3]

\* Mutant of LeastKnown: of the databases' numbers the last.
LastKnown(numbers) ==
    IF numbers \subseteq {Null} THEN Null ELSE CHOOSE n \in numbers \ {Null} : \A m \in numbers \ {Null} : m <= n

\* The least number that a database knows.
LeastKnown(numbers) ==
    IF numbers \subseteq {Null} THEN Null ELSE CHOOSE n \in numbers \ {Null} : \A m \in numbers \ {Null} : n <= m

\* The range as it is answered: after the last block it begins at the boundary,
\* before the first known one nowhere, and it ends nowhere after the boundary.
LimitRange(q, r, boundary) ==
    LET maxEnd == boundary \div 100
    IN [first |-> r.first,
        start |-> IF q.timeStart # Null /\ r.start = Null THEN maxEnd
                  ELSE IF q.timeStart # Null /\ r.start = r.first /\ r.first > 1 THEN Null ELSE r.start,
        end |-> IF r.end # Null /\ r.end > maxEnd THEN Null ELSE r.end]

-----------------------------------------------------------------------------
(* Steps of a call *)

\* A call is made.  Pages take the boundary first, a range when it has been read.
Call(c) ==
    /\ stage[c] = "idle"
    /\ \E q \in episode.calls :
          /\ call' = [call EXCEPT ![c] = q]
          /\ stage' = [stage EXCEPT ![c] =
                CASE q.kind = "page" -> IF q.coll = "messages" /\ (Invalid(q) \/ Cardinality(q.counterparties) > 5)
                                        THEN "failed" ELSE "boundary"
                  [] q.kind = "range" -> IF q.timeStart # Null /\ q.timeEnd # Null /\ q.timeStart > q.timeEnd
                                         THEN "failed" ELSE "read"
                  [] OTHER -> "read"]
    /\ UNCHANGED <<episode, stored, reliable, took, answers, rows, hasMore, range, todo, held>>

\* The next filter of a page gets the boundary.
TakeBoundary(c) ==
    /\ stage[c] = "boundary" /\ call[c].kind = "page"
    /\ LET side == SelectSeq(Sides(call[c]), LAMBDA s : s \notin DOMAIN took[c])[1]
       IN /\ took' = [took EXCEPT ![c] = (side :> reliable) @@ @]
          /\ stage' = [stage EXCEPT ![c] =
                IF side # Last(Sides(call[c])) THEN "boundary"
                ELSE IF Invalid(call[c]) THEN "failed" ELSE "read"]
    /\ UNCHANGED <<episode, stored, reliable, call, answers, rows, hasMore, range, todo, held>>

\* A range gets the boundary.  One that starts after its end is an error.
EndRange(c) ==
    /\ stage[c] = "boundary" /\ call[c].kind = "range"
    /\ LET limited == LimitRange(call[c], range[c], reliable)
           wrong == limited.start # Null /\ limited.end # Null /\ limited.start > limited.end
       IN /\ range' = [range EXCEPT ![c] = limited]
          /\ stage' = [stage EXCEPT ![c] = IF wrong THEN "failed" ELSE "answered"]
    /\ took' = [took EXCEPT ![c] = [all |-> reliable]]
    /\ UNCHANGED <<episode, stored, reliable, call, answers, rows, hasMore, todo, held>>

\* A database answers.
Read(c, db) ==
    /\ stage[c] = "read" /\ answers[c][db] = Null
    /\ \E answer \in AnswersIn(call[c], took[c], stored[db]) : answers' = [answers EXCEPT ![c][db] = answer]
    /\ held' = [held EXCEPT ![c][db] = stored[db]]
    /\ UNCHANGED <<episode, stored, reliable, call, stage, took, rows, hasMore, range, todo>>

\* A database fails, and the call with it.
DatabaseFails(c) ==
    /\ stage[c] \in {"read", "joins"}
    /\ stage' = [stage EXCEPT ![c] = "failed"]
    /\ answers' = [answers EXCEPT ![c] = NoAnswers] /\ held' = [held EXCEPT ![c] = NoAnswers]
    /\ rows' = [rows EXCEPT ![c] = <<>>] /\ todo' = [todo EXCEPT ![c] = <<>>]
    /\ UNCHANGED <<episode, stored, reliable, call, took, hasMore, range>>

AllAnswered(c) == stage[c] = "read" /\ \A db \in 1..Databases : answers[c][db] # Null

\* processPaginatedQueryResult(): two rows with one cursor are an error.
CombinePage(c) ==
    /\ AllAnswered(c) /\ call[c].kind = "page"
    /\ LET q == call[c]
           found == Combined(q, answers[c])
           sorted == SetToSortSeq(found, LAMBDA a, b : a.order < b.order)
       IN IF \E a, b \in found : a # b /\ a.order = b.order
          THEN stage' = [stage EXCEPT ![c] = "failed"] /\ UNCHANGED <<rows, hasMore, todo>>
          ELSE /\ rows' = [rows EXCEPT ![c] = CutPage(q, sorted)]
               /\ hasMore' = [hasMore EXCEPT ![c] = Len(sorted) >= Limit(q)]
               /\ todo' = [todo EXCEPT ![c] = Paths(q.coll, q.joins)]
               /\ stage' = [stage EXCEPT ![c] = "joins"]
    /\ UNCHANGED <<episode, stored, reliable, call, took, answers, range, held>>

\* Records, and an account that is nowhere.  Joins are fetched for messages only.
CombineRecords(c) ==
    /\ AllAnswered(c) /\ call[c].kind \in {"records", "next", "prev"}
    /\ LET q == call[c]
           found == Combined(q, answers[c])
           all == IF q.kind = "next" THEN NextBlocks(found)
                  ELSE IF q.kind = "records" /\ q.coll = "accounts" /\ found = {}
                  THEN Bare({MissingAccount(cond.value) : cond \in q.where}) ELSE found
       IN /\ rows' = [rows EXCEPT ![c] = SetToSeq(all)]
          /\ todo' = [todo EXCEPT ![c] =
                IF q.kind = "records" /\ q.coll = "messages" THEN Paths(q.coll, q.joins) ELSE <<>>]
    /\ stage' = [stage EXCEPT ![c] = "joins"]
    /\ UNCHANGED <<episode, stored, reliable, call, took, answers, hasMore, range, held>>

\* A range over all databases.
CombineRange(c) ==
    /\ AllAnswered(c) /\ call[c].kind = "range"
    /\ range' = [range EXCEPT ![c] =
          [f \in DOMAIN NoRange |-> LeastKnown({answers[c][db][f] : db \in 1..Databases})]]
    /\ stage' = [stage EXCEPT ![c] = "boundary"]
    /\ UNCHANGED <<episode, stored, reliable, call, took, answers, rows, hasMore, todo, held>>

\* fetchJoins(), one join: what is not complete is asked of all databases, here at
\* one moment.
FetchJoin(c) ==
    /\ stage[c] = "joins" /\ todo[c] # <<>>
    /\ LET path == Head(todo[c])
           join == Last(path)
           wanted == UNION {KeysOf(n.doc, JoinConfig[join].on) :
                               n \in {x \in Parents(ToSet(rows[c]), path) : NeedFetch(x, join)}}
           Items(db) == {Prefetched(d, Null, SelectionAt(call[c].joins, path), stored[db]) :
                            d \in {x \in stored[db] : Belongs(x, join, wanted)}}
           items == Combined([kind |-> "records"], [db \in 1..Databases |-> Items(db)])
       IN rows' = [rows EXCEPT ![c] = [i \in DOMAIN @ |-> AttachedAt(@[i], path, items)]]
    /\ todo' = [todo EXCEPT ![c] = Tail(@)]
    /\ UNCHANGED <<episode, stored, reliable, call, stage, took, answers, hasMore, range, held>>

Answer(c) ==
    /\ stage[c] = "joins" /\ todo[c] = <<>>
    /\ stage' = [stage EXCEPT ![c] = "answered"]
    /\ UNCHANGED <<episode, stored, reliable, call, took, answers, rows, hasMore, range, todo, held>>

\* The boundary is refreshed.
BoundaryRises ==
    /\ reliable < LastBoundary
    /\ reliable' = reliable + 100
    /\ UNCHANGED <<episode, stored, call, stage, took, answers, rows, hasMore, range, todo, held>>

\* Chain orders of a document.
Orders(d) ==
    {d[field] : field \in DOMAIN d \cap {"chain_order", "src_chain_order", "dst_chain_order"}} \ {Null}

\* A document is written, a new version in place of the old.  Its new chain orders are
\* above the boundary, which is what the boundary promises (ChainOrderBoundary).
Write(d, db) ==
    /\ d \in episode.arrivals[db] \ stored[db]
    /\ \A order \in Orders(d) : order >= reliable \/ \E x \in stored[db] : order \in Orders(x)
    /\ stored' = [stored EXCEPT ![db] = {x \in @ : x.coll # d.coll \/ x._key # d._key} \cup {d}]
    /\ UNCHANGED <<episode, reliable, call, stage, took, answers, rows, hasMore, range, todo, held>>

Step(c) ==
    \/ Call(c) \/ TakeBoundary(c) \/ EndRange(c) \/ DatabaseFails(c)
    \/ \E db \in 1..Databases : Read(c, db)
    \/ CombinePage(c) \/ CombineRecords(c) \/ CombineRange(c)
    \/ FetchJoin(c) \/ Answer(c)

Next ==
    \/ \E c \in Client : Step(c)
    \/ BoundaryRises
    \/ \E db \in 1..Databases : \E d \in episode.arrivals[db] : Write(d, db)

Spec == Init /\ [][Next]_vars
-----------------------------------------------------------------------------
(* Properties *)

HeldDocs(c) == UNION {held[c][db] : db \in 1..Databases}
StoredDocs == UNION {stored[db] : db \in 1..Databases}
Combining(c) == stage[c] \in {"joins", "answered"}

\* What a page is of, said of one row at a time: [key, order] of every document of
\* any database within the arguments and the boundary, on either side.
RowsOf(q, taken, docs) ==
    LET Within(order, side) ==
            /\ order # Null
            /\ q.after # Null => order > q.after
            /\ q.before # Null => order < q.before
            /\ q.by # "lt" => /\ q.from # Null => order > q.from
                              /\ q.to # Null => order < q.to
                              /\ ~q.latest => order < taken[side]
        OneSide(side) ==
            LET s == MessageSides[side]
            IN {[key |-> d._key, order |-> d[s.order]] :
                   d \in {x \in docs : /\ x.coll = "messages" /\ Field(x, s.mine) = q.account /\ Meets(x, q.where)
                                       /\ q.types # {} => \E t \in q.types \cap DOMAIN s.types : s.types[t] = x.msg_type
                                       /\ q.counterparties # {} => Field(x, s.other) \in q.counterparties
                                       /\ Within(Field(x, s.order), side)}}
    IN IF q.coll = "messages" THEN OneSide("in") \cup OneSide("out")
       ELSE {[key |-> d._key, order |-> d[q.by]] :
                d \in {x \in docs : /\ x.coll = q.coll /\ Meets(x, q.where) /\ Within(Field(x, q.by), "all")
                                    /\ q.by = "lt" /\ ~q.latest => x.chain_order < taken.all}}

\* A page is the rows after (before) its cursor, of all databases together and with
\* both sides of an account's messages, each once, in the order of their cursors and
\* with no gap; it says whether there are more.  It stays so, whatever is written to
\* the databases later, unless the latest data was asked for: a client that goes on
\* from its cursors gets every row once.
PageHasItsRows ==
    \A c \in Client : Combining(c) /\ call[c].kind = "page" =>
        LET q == call[c]
            all == RowsOf(q, took[c], IF q.latest THEN HeldDocs(c) ELSE StoredDocs)
            size == Limit(q) - 1
            Preceding(x) == {y \in all : IF Backward(q) THEN y.order > x.order ELSE y.order < x.order}
            got == [i \in DOMAIN rows[c] |-> [key |-> rows[c][i].doc._key, order |-> rows[c][i].order]]
        IN /\ ToSet(got) = {x \in all : Cardinality(Preceding(x)) < size}
           /\ \A i, j \in DOMAIN got : i < j => got[i].order < got[j].order
           /\ hasMore[c] <=> Cardinality(all) > size

\* All nodes of an answer with the joins selected of them.
RECURSIVE NodesOf(_, _)
NodesOf(nodes, selection) ==
    {[node |-> n, selection |-> selection] : n \in nodes}
    \cup UNION {NodesOf(UNION {ToSet(n.joins[join]) : n \in nodes}, selection[join]) : join \in DOMAIN selection}

\* A record joined is one its record refers to; when a page, or a message, is
\* answered, every record that a database held at the time of the query is joined
\* wherever it belongs, although it was in another database than its record; and
\* messages are joined once, if no database held only some of those of a transaction.
PageJoinedRight ==
    \A c \in Client : Combining(c) /\ call[c].kind \in {"page", "records"} =>
        \A x \in NodesOf(ToSet(rows[c]), call[c].joins) : \A join \in DOMAIN x.selection :
            LET keys == KeysOf(x.node.doc, JoinConfig[join].on)
                got == x.node.joins[join]
                fetched == call[c].kind = "page" \/ call[c].coll = "messages"
                In(docs) == {d._key : d \in {y \in docs : Belongs(y, join, keys)}}
            IN /\ \A i \in DOMAIN got : Belongs(got[i].doc, join, keys)
               /\ stage[c] = "answered" /\ fetched =>
                     In(HeldDocs(c)) \subseteq {got[i].doc._key : i \in DOMAIN got}
               /\ (\A db \in 1..Databases : In(held[c][db]) \in {{}, keys}) =>
                     \A i, j \in DOMAIN got : i # j => got[i].doc._key # got[j].doc._key

\* A page of the API is the rows after its cursor, and stays so; and records are
\* joined to its rows wherever they are.
PageIsRight == PageHasItsRows /\ PageJoinedRight

\* What is told of the neighbours of a block is whole or nothing: never one half of
\* a split, never one of two blocks that were merged.
NeighboursAreWhole ==
    \A c \in Client : stage[c] = "answered" /\ call[c].kind \in {"next", "prev"} =>
        LET hash == call[c].hash
            got == {rows[c][i].doc : i \in DOMAIN rows[c]}
            next == {b \in Blocks(HeldDocs(c)) : hash \in {b.prev_ref, b.prev_alt_ref}}
        IN got # {} =>
              IF call[c].kind = "next"
              THEN got = next /\ ((\E b \in got : b.after_split) => Cardinality(got) = 2)
              ELSE \E b \in Blocks(HeldDocs(c)) :
                      b._key = hash /\ {p._key : p \in got} = {b.prev_ref, b.prev_alt_ref} \ {Null}

\* The range of master blocks of a time holds every block of that time, of all
\* databases, and ends below the boundary; it begins with no earlier master block, if
\* there was one of that time.  A shard's block that another one of the shard follows
\* in the same master block may be left out at the end: it may be older than
\* min_shard_gen_utime, which is of the last ones.
RangeCoversTime ==
    \A c \in Client : stage[c] = "answered" /\ call[c].kind = "range" =>
        LET q == call[c]
            Starts(b) == q.timeStart # Null => b.gen_utime >= q.timeStart
            Ends(b) == q.timeEnd # Null => b.gen_utime < q.timeEnd
            master == MasterBlocks(HeldDocs(c))
            Follows(x, b) == b._key \in {x.prev_ref, x.prev_alt_ref} /\ x.chain_order \div 100 = b.chain_order \div 100
            blocks == Blocks(HeldDocs(c))
        IN /\ \A b \in blocks : Starts(b) /\ Ends(b) =>
                 /\ range[c].start # Null => b.chain_order >= range[c].start * 100
                 /\ range[c].end # Null /\ (\A x \in blocks : ~Follows(x, b)) => b.chain_order < range[c].end * 100
           /\ range[c].start # Null /\ (\E b \in master : Starts(b)) =>
                 \A b \in master : b.seq_no >= range[c].start => Starts(b)
           /\ range[c].end # Null => range[c].end * 100 <= took[c].all

\* Neighbours are whole, and ranges cover their time.
WholeOrNothing == NeighboursAreWhole /\ RangeCoversTime
=============================================================================
