------------------------------ MODULE MCQueries ------------------------------
(* Instance of DataApi.  Queries: a hot and a cold database share a            *)
(* transaction, two requests each make one of some queries, and documents and  *)
(* indexes come while they do.  Calls of the API: two databases share some     *)
(* documents; in one episode a client makes one of some calls about blocks, in *)
(* the other about transactions and messages.                                  *)
EXTENDS DataApi

Scalar == [kind |-> "scalar"]
Struct(fields) == [kind |-> "struct", fields |-> fields, isCollection |-> TRUE]
ArrayOf(item) == [kind |-> "array", item |-> item]

MCTypes ==
    [transactions |-> Struct([id |-> Scalar, lt |-> Scalar, in_msg |-> Scalar, tr_type |-> Scalar,
                              tr_type_name |-> [kind |-> "enumName", on |-> "tr_type",
                                                values |-> [Ordinary |-> 0, Tick |-> 2]],
                              out_msgs |-> ArrayOf(Scalar)]),
     messages |-> Struct([id |-> Scalar, msg_type |-> Scalar, created_lt |-> Scalar]),
     accounts |-> Struct([id |-> Scalar, balance |-> Scalar])]

Transaction(key, lt, type, in, out) ==
    [coll |-> "transactions", _key |-> key, lt |-> lt, tr_type |-> type, in_msg |-> in, out_msgs |-> out]
Message(key, type) == [coll |-> "messages", _key |-> key, msg_type |-> type, created_lt |-> 1, src |-> 21]
Account(key, balance) == [coll |-> "accounts", _key |-> key, balance |-> balance]

MCInitially ==
    {<<{Transaction(1, 3, 0, 11, <<12, 13>>), Message(12, 0), Account(21, 1)},
      {Transaction(1, 3, 0, 11, <<12, 13>>), Transaction(2, 1, 2, 12, <<>>), Transaction(3, 2, 0, 13, <<14>>),
       Message(11, 1), Message(14, 0)}>>}
MCArrivals ==
    <<{Transaction(4, 4, 2, 14, <<>>), Message(13, 0)}, {}>>

Asc(field) == <<[path |-> <<field>>, direction |-> "ASC"]>>
Desc(field) == <<[path |-> <<field>>, direction |-> "DESC"]>>
JoinOf(field, selection) == [field |-> field, when |-> Null, selection |-> selection]
Query(coll, condition, order, limit) ==
    [coll |-> coll, filter |-> condition, orderBy |-> order, limit |-> limit, waits |-> FALSE,
     select |-> {}, joins |-> <<>>, fields |-> <<>>]
Fields(fns) == [i \in DOMAIN fns |-> [fn |-> fns[i], field |-> "lt"]]

\* Sent or received: the newest two, with the messages they sent.
Newest ==
    [Query("transactions", [out_msgs |-> [any |-> [eq |-> 12]], OR |-> [lt |-> [ge |-> 1], tr_type_name |-> [ne |-> "Tick"]]],
           Desc("lt"), 2)
     EXCEPT !.select = {"out_msgs"}, !.joins = <<JoinOf("out_messages", <<>>)>>]
\* The oldest, by its id once it is found.
Oldest == Query("transactions", [lt |-> [gt |-> 0]], Asc("lt"), 1)
\* Messages with the transactions that sent them, and their common account.
Sent ==
    [Query("messages", [msg_type |-> [notIn |-> {1}]], <<>>, 2)
     EXCEPT !.select = {"msg_type", "created_lt", "src"},
            !.joins = <<JoinOf("src_transaction", <<>>), JoinOf("src_account", <<>>)>>]
\* Accounts by their ids, of which one is missing.
Known == Query("accounts", [id |-> [in |-> {21, 22}]], <<>>, 2)
\* A transaction that is waited for, with its message and the one it came to.
Awaited ==
    [Query("transactions", [lt |-> [gt |-> 3], out_msgs |-> [all |-> [ne |-> 13]]], <<>>, 1)
     EXCEPT !.waits = TRUE, !.select = {"in_msg"}, !.joins = <<JoinOf("in_message", <<JoinOf("dst_transaction", <<>>)>>)>>]
\* Numbers of ticks, of which each database has its own.
Measured ==
    [Query("transactions", [tr_type_name |-> [eq |-> "Tick"]], <<>>, 1)
     EXCEPT !.fields = Fields(<<"COUNT", "MIN", "MAX", "SUM", "AVERAGE">>)]

MCAsks == [r \in Request |-> IF r = "r1" THEN {Newest, Sent, Known, Awaited, Oldest} ELSE {Measured}]

MCIndexHistory ==
    <<[coll \in DOMAIN MCTypes |-> {<<<<"_key">>>>, <<<<"out_msgs", "[*]">>>>}],
      [coll \in DOMAIN MCTypes |-> {<<<<"_key">>>>, <<<<"lt">>>>, <<<<"tr_type">>>>}]>>

SlowQueryExceptions ==
    [transactions |-> {[filter |-> [lt |-> [gt |-> Null], workchain_id |-> [eq |-> Null]], orderBy |-> {<<"lt">>}]},
     messages |-> {}, accounts |-> {}]

Rules == INSTANCE SlowDetector
MCMatches(type, condition, doc) == Rules!Selects(type, condition, doc)
MCAccepts(type, parent, value, condition) == Rules!Test(type, parent, value, condition)
MCBothCompare(type, value, condition) == Rules!Comparable(type, value, condition)
MCOperands(condition) == Rules!SplitOr(condition)
MCExplanation(type, path, condition) == Rules!Explain(type, path, condition)
MCJudgedFast(collection, type, condition, order, known) ==
    Rules!IsFastQuery(collection, type, condition, order, known)

MCSelections == {q.joins : q \in UNION {MCAsks[r] : r \in Request}} \cup {<<JoinOf("dst_transaction", <<>>)>>}

-----------------------------------------------------------------------------
(* Calls of the API *)


\* Blocks: 41 is split into 42 and 43, which are merged into 44, split into 45
\* and 46.  Of the blocks of a master block the hundreds of the order are its number.
Block(key, order, time, prev, alt, more) ==
    [coll |-> "blocks", _key |-> key, chain_order |-> order, gen_utime |-> time, workchain_id |-> 0, key_block |-> 0,
     prev_ref |-> prev, prev_alt_ref |-> alt, after_merge |-> more = "merge", after_split |-> more = "split"]
Master(key, number, time, shards, keyBlock) ==
    [coll |-> "blocks", _key |-> key, chain_order |-> number * 100 + 90, gen_utime |-> time, workchain_id |-> -1,
     key_block |-> keyBlock, seq_no |-> number, min_shard_gen_utime |-> shards,
     prev_ref |-> Null, prev_alt_ref |-> Null, after_merge |-> FALSE, after_split |-> FALSE]
Merged == {Block(43, 230, 10, 41, Null, "split"), Block(44, 310, 12, 42, 43, "merge")}
BlocksAtFirst ==
    <<Merged \cup {Master(91, 1, 8, 7, 0), Master(93, 3, 13, 12, 1), Block(45, 510, 15, 44, Null, "split")},
      Merged \cup {Block(41, 210, 9, 40, Null, ""), Block(42, 220, 10, 41, Null, "split"), Master(92, 2, 11, 10, 1)}>>
BlocksLater == <<{Master(94, 4, 14, 12, 0), Block(46, 520, 15, 44, Null, "split")}, {}>>

Trans(key, order, lt, account, in, out) ==
    [coll |-> "transactions", _key |-> key, chain_order |-> order, lt |-> lt, account_addr |-> account,
     in_msg |-> in, out_msgs |-> out]
Msg(key, type, src, srcOrder, dst, dstOrder) ==
    [coll |-> "messages", _key |-> key, msg_type |-> type, src |-> src, src_chain_order |-> srcOrder,
     dst |-> dst, dst_chain_order |-> dstOrder]
Acc(key) == [coll |-> "accounts", _key |-> key, acc_type |-> 1]
Msg12 == Msg(12, 0, 21, 212, 22, 221)
MessagesAtFirst ==
    <<{Trans(1, 210, 1, 21, 11, <<12, 13, 15>>), Msg(11, 1, Null, Null, 21, 211), Msg12, Acc(21)},
      {Trans(2, 220, 2, 22, 12, <<>>), Trans(3, 230, 3, 21, 13, <<14>>), Msg12,
       Msg(13, 0, 21, 213, 21, 231), Msg(14, 0, 21, 232, 23, Null), Msg(15, 2, 21, 214, Null, Null), Master(92, 2, 11, 10, 1)}>>
MessagesLater ==
    <<{Trans(4, 310, 4, 23, 14, <<>>)}, {Msg(14, 0, 21, 232, 23, 311)}>>

Equals(field, value) == [field |-> field, op |-> "eq", value |-> value]
Page(coll, where) ==
    [kind |-> "page", coll |-> coll, by |-> "chain_order", where |-> where, account |-> Null,
     types |-> {}, counterparties |-> {}, first |-> Null, last |-> Null, after |-> Null, before |-> Null,
     from |-> Null, to |-> Null, latest |-> FALSE, joins |-> <<>>]
Single(coll, field, value, joins) ==
    [kind |-> "records", coll |-> coll, where |-> {Equals(field, value)}, joins |-> joins]
Shards == {Equals("workchain_id", 0)}
KeyBlocks == {Equals("key_block", 1)}
Of(account) == {Equals("account_addr", account)}

BlockCalls ==
    {[Page("blocks", Shards) EXCEPT !.first = 2], [Page("blocks", Shards) EXCEPT !.first = 1, !.after = 220],
     [Page("blocks", KeyBlocks) EXCEPT !.last = 1],
     [Page("blocks", {}) EXCEPT !.before = 490, !.from = 220, !.to = 400],
     [Page("blocks", {}) EXCEPT !.latest = TRUE, !.from = 310],
     [Page("blocks", {}) EXCEPT !.first = 0], [Page("blocks", {}) EXCEPT !.first = 1, !.before = 490],
     Single("blocks", "_key", 43, <<>>),
     [kind |-> "next", hash |-> 41], [kind |-> "next", hash |-> 44],
     [kind |-> "prev", hash |-> 44], [kind |-> "prev", hash |-> 45], [kind |-> "prev", hash |-> 43]}
    \cup {[kind |-> "range", timeStart |-> t[1], timeEnd |-> t[2]] :
             t \in {<<Null, 12>>, <<7, 10>>, <<10, Null>>, <<12, 12>>, <<12, 13>>, <<20, Null>>, <<13, 12>>}}

BothEnds == [src_transaction |-> <<>>, dst_transaction |-> <<>>]
MessageCalls ==
    {[Page("transactions", Of(21)) EXCEPT !.last = 1,
         !.joins = [in_message |-> [src_transaction |-> <<>>], out_messages |-> <<>>]],
     [Page("transactions", Of(21)) EXCEPT !.by = "lt", !.first = 1, !.after = 1],
     [Page("transactions", {}) EXCEPT !.joins = [out_messages |-> [dst_transaction |-> <<>>]]],
     [Page("transactions", {}) EXCEPT !.last = 1, !.after = 220],
     [Page("messages", {}) EXCEPT !.account = 21, !.joins = BothEnds],
     [Page("messages", {}) EXCEPT !.account = 21, !.last = 2, !.types = {"IntIn", "IntOut"}, !.counterparties = {21, 22}],
     [Page("messages", {}) EXCEPT !.account = 21, !.after = 213, !.types = {"ExtOut", "IntOut"}],
     [Page("messages", {}) EXCEPT !.account = 23, !.latest = TRUE],
     [Page("messages", {}) EXCEPT !.account = 21, !.first = 1, !.last = 1],
     [Page("messages", {}) EXCEPT !.account = 21, !.counterparties = 21..26],
     Single("messages", "_key", 13, BothEnds), Single("messages", "_key", 14, BothEnds),
     Single("transactions", "_key", 1, [out_messages |-> <<>>]), Single("transactions", "in_msg", 12, <<>>),
     Single("accounts", "_key", 21, <<>>), Single("accounts", "_key", 29, <<>>)}

MCEpisodes ==
    {[initially |-> BlocksAtFirst, arrivals |-> BlocksLater, calls |-> BlockCalls],
     [initially |-> MessagesAtFirst, arrivals |-> MessagesLater, calls |-> MessageCalls]}
=============================================================================
