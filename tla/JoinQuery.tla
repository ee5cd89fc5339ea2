------------------------------ MODULE JoinQuery ------------------------------
(***************************************************************************)
(* Joins of related records (data/collection-joins.ts): the records of an  *)
(* answer get the records of other collections that they refer to, and     *)
(* these theirs, by queries for the values that are still unresolved, which *)
(* are repeated until the time limit of the join.                          *)
(*                                                                         *)
(* Records are objects that their answers refer to: objects[r] is the heap *)
(* of a request, and a record is a place in it.  A selection is a sequence *)
(* of join fields [field, when, selection].                                *)
(***************************************************************************)
EXTENDS Documents

CONSTANT Accepts(_, _, _, _)   \* the server's test, Test of Filters

CONSTANTS
    Request, Databases,
    Types,
    Portion,        \* values asked for at once (100)
    JoinLimit       \* records that a join's query returns of a database (50)

VARIABLES
    stored,         \* documents of each database
    records,        \* documents found for a request, Null until they are
    asked,          \* the query of a request
    joining,        \* "no", "next" join, "query", "done", "failed"
    objects,        \* [doc, joins, selection] of each record: by join field the joined
                    \* record or Null, and (history) the joins it was fetched for
    frames,         \* selections under way: [coll, records, selection], the innermost last
    join,           \* the join under way
    plan,           \* its unresolved values: [value, records], in their order
    joined,         \* the records it has got
    late,           \* its time limit has passed
    gaveUp          \* history: a join has ended at its time limit

own == <<joining, objects, frames, join, plan, joined, late, gaveUp>>
vars == <<stored, records, asked, own>>

Init ==
    /\ joining = [r \in Request |-> "no"] /\ objects = [r \in Request |-> <<>>]
    /\ frames = [r \in Request |-> <<>>] /\ join = [r \in Request |-> Null]
    /\ plan = [r \in Request |-> <<>>] /\ joined = [r \in Request |-> <<>>]
    /\ late = [r \in Request |-> FALSE] /\ gaveUp = [r \in Request |-> FALSE]

\* joinFields of the generated resolvers: the field a record refers by, the
\* collection, and the field it refers to.
JoinField(on, collection, refOn) == [on |-> on, collection |-> collection, refOn |-> refOn]

JoinFields ==
    [transactions |-> [account |-> JoinField("account_addr", "accounts", "_key"),
                       block |-> JoinField("block_id", "blocks", "_key"),
                       in_message |-> JoinField("in_msg", "messages", "_key"),
                       out_messages |-> JoinField("out_msgs", "messages", "_key")],
     messages |-> [block |-> JoinField("block_id", "blocks", "_key"),
                   src_account |-> JoinField("src", "accounts", "_key"),
                   dst_account |-> JoinField("dst", "accounts", "_key"),
                   src_transaction |-> JoinField("_key", "transactions", "out_msgs"),
                   dst_transaction |-> JoinField("_key", "transactions", "in_msg")],
     blocks |-> [signatures |-> JoinField("_key", "blocks_signatures", "_key")],
     blocks_signatures |-> [block |-> JoinField("_key", "blocks", "_key")]]

RefOnIsArray(j) == j.refOn = "out_msgs"

\* canJoin(): messages from or to outside have no account and no transaction
\* there, and the condition "when" is tested against the fields that were selected.
CanJoin(coll, j, doc) ==
    /\ coll = "messages" /\ j.field \in {"dst_account", "dst_transaction"} => Field(doc, "msg_type") # 2
    /\ coll = "messages" /\ j.field \in {"src_account", "src_transaction"} => Field(doc, "msg_type") # 1
    /\ coll = "messages" /\ j.field = "src_transaction" => Field(doc, "created_lt") # 0
    /\ j.when = Null \/ Accepts(Types[coll], Null, doc, j.when)

-----------------------------------------------------------------------------
(* The plan of a join *)

\* The values a record refers by, one or an array of them.
Values(doc, on) ==
    IF Field(doc, on) = Null THEN <<>> ELSE IF on = "out_msgs" THEN doc[on] ELSE <<doc[on]>>

\* Mutant of ProcessValue: a value has the last of its records.
ProcessLast(pairs, value) == {pairs[CHOOSE i \in DOMAIN pairs : /\ pairs[i][1] = value
                                                               /\ \A k \in (i + 1)..Len(pairs) : pairs[k][1] # value][2]}

\* processValue(): the records that refer by a value are joined by it together.
ProcessValue(pairs, value) == {pairs[i][2] : i \in {k \in DOMAIN pairs : pairs[k][1] = value}}

\* The records of a join that refer to something.
Joinable(heap, coll, j, main) == Kept(main, {i \in DOMAIN main : CanJoin(coll, j, heap[main[i]].doc)})

\* Values in the order in which they come first, each with its records.
BuildPlan(heap, coll, j, main) ==
    LET on == JoinFields[coll][j.field].on
        joinable == Joinable(heap, coll, j, main)
        Pairs(o) == [i \in DOMAIN Values(heap[o].doc, on) |-> <<Values(heap[o].doc, on)[i], o>>]
        pairs == FlattenSeq([k \in DOMAIN joinable |-> Pairs(joinable[k])])
        firsts == Kept(pairs, {i \in DOMAIN pairs : \A k \in 1..(i - 1) : pairs[k][1] # pairs[i][1]})
    IN [i \in DOMAIN firsts |-> [value |-> firsts[i][1], records |-> ProcessValue(pairs, firsts[i][1])]]

\* A record with what it has got for a join field.
With(main, field, got) ==
    [main EXCEPT !.joins = [f \in DOMAIN @ \cup {field} |-> IF f = field THEN got ELSE @[f]]]

\* A record that refers by an array gets as many joined records, none at first.
Prepared(heap, coll, j, main) ==
    LET on == JoinFields[coll][j.field].on
        arrays == {o \in ToSet(Joinable(heap, coll, j, main)) :
                      on = "out_msgs" /\ Field(heap[o].doc, on) # Null}
    IN [o \in DOMAIN heap |->
           IF o \in arrays THEN With(heap[o], j.field, [i \in DOMAIN heap[o].doc[on] |-> Null]) ELSE heap[o]]

\* joinRecordToMain() for the records of an answer, one after another: the records
\* of a value get the first one that has it, and the value is resolved.
JoinRecords(heap, unresolved, new, j, ref) ==
    LET Having(value) == {i \in DOMAIN new : value \in ToSet(Values(new[i], ref.refOn))}
        First(value) == Len(heap) + CHOOSE i \in Having(value) : \A k \in Having(value) : i <= k
        resolved == {p \in ToSet(unresolved) : Having(p.value) # {}}
        values == {p.value : p \in resolved}
        Got(main) ==
            IF ref.on = "out_msgs"
            THEN [i \in DOMAIN main.joins[j.field] |->
                     IF main.doc[ref.on][i] \in values THEN First(main.doc[ref.on][i]) ELSE main.joins[j.field][i]]
            ELSE First(main.doc[ref.on])
    IN [plan |-> Kept(unresolved, {i \in DOMAIN unresolved : Having(unresolved[i].value) = {}}),
        heap |-> [o \in DOMAIN heap |->
                     IF o \in UNION {p.records : p \in resolved} THEN With(heap[o], j.field, Got(heap[o])) ELSE heap[o]]
                 \o [i \in DOMAIN new |-> [doc |-> new[i], joins |-> <<>>, selection |-> j.selection]]]

-----------------------------------------------------------------------------
(* Steps of a request *)

\* fetchJoinedRecords() begins, with the records found.
Begin(r) ==
    /\ joining[r] = "no" /\ records[r] # Null
    /\ joining' = [joining EXCEPT ![r] = "next"]
    /\ objects' = [objects EXCEPT ![r] =
                     [i \in DOMAIN records[r] |->
                         [doc |-> records[r][i], joins |-> <<>>, selection |-> asked[r].joins]]]
    /\ frames' = [frames EXCEPT ![r] = <<[coll |-> asked[r].coll, records |-> [i \in DOMAIN records[r] |-> i],
                                         selection |-> asked[r].joins]>>]
    /\ UNCHANGED <<stored, records, asked, join, plan, joined, late, gaveUp>>

\* The joined records become the main ones of the join's own selection.
EndJoin(r, frame, j, heap, fetched) ==
    /\ frames' = [frames EXCEPT ![r] =
                    Front(@) \o <<frame, [coll |-> JoinFields[frame.coll][j.field].collection,
                                          records |-> fetched, selection |-> j.selection]>>]
    /\ joining' = [joining EXCEPT ![r] = "next"]
    /\ objects' = [objects EXCEPT ![r] = heap]
    /\ join' = [join EXCEPT ![r] = Null] /\ joined' = [joined EXCEPT ![r] = <<>>]
    /\ late' = [late EXCEPT ![r] = FALSE]

\* The next join of the innermost selection gets its plan and its time limit;
\* without anything to join it is over.
StartJoin(r) ==
    /\ joining[r] = "next" /\ Last(frames[r]).selection # <<>>
    /\ LET frame == [Last(frames[r]) EXCEPT !.selection = Tail(@)]
           j == Head(Last(frames[r]).selection)
           unresolved == BuildPlan(objects[r], frame.coll, j, frame.records)
           heap == Prepared(objects[r], frame.coll, j, frame.records)
       IN IF unresolved = <<>>
          THEN EndJoin(r, frame, j, heap, <<>>) /\ UNCHANGED plan
          ELSE /\ frames' = [frames EXCEPT ![r] = Append(Front(@), frame)]
               /\ joining' = [joining EXCEPT ![r] = "query"]
               /\ objects' = [objects EXCEPT ![r] = heap]
               /\ join' = [join EXCEPT ![r] = j] /\ plan' = [plan EXCEPT ![r] = unresolved]
               /\ UNCHANGED <<joined, late>>
    /\ UNCHANGED <<stored, records, asked, gaveUp>>

\* A selection without more joins is left; the outermost leaves the answer.
LeaveSelection(r) ==
    /\ joining[r] = "next" /\ Last(frames[r]).selection = <<>>
    /\ frames' = [frames EXCEPT ![r] = Front(@)]
    /\ joining' = [joining EXCEPT ![r] = IF Len(frames[r]) = 1 THEN "done" ELSE "next"]
    /\ UNCHANGED <<stored, records, asked, objects, join, plan, joined, late, gaveUp>>

\* The first of the unresolved values.
Asked(r) == {plan[r][i].value : i \in {k \in DOMAIN plan[r] : k <= Portion}}

\* What a database may answer: records that are referred to, all of them if by an
\* array, otherwise with the limit of a query and in no order.
Answers(r, db, ref) ==
    LET docs == {d \in stored[db] : d.coll = ref.collection
                                    /\ ToSet(Values(d, ref.refOn)) \cap Asked(r) # {}}
        limit == IF RefOnIsArray(ref) \/ Cardinality(docs) < JoinLimit THEN Cardinality(docs) ELSE JoinLimit
    IN {s \in SUBSET docs : Cardinality(s) = limit}

\* What all the databases may answer together.
Found(r, ref) ==
    LET some == UNION {Answers(r, db, ref) : db \in 1..Databases}
        answered == {s \in [1..Databases -> some] : \A db \in 1..Databases : s[db] \in Answers(r, db, ref)}
    IN {UNION {s[db] : db \in 1..Databases} : s \in answered}

\* A portion of the values is asked for and the records that are found are
\* joined.  The join is over when nothing is unresolved, or after its time limit.
QueryPortion(r) ==
    /\ joining[r] = "query"
    /\ LET frame == Last(frames[r])
           ref == JoinFields[frame.coll][join[r].field]
           size == Len(objects[r])
       IN \E found \in Found(r, ref) :
            LET new == SetToSeq(found)
                after == JoinRecords(objects[r], plan[r], new, join[r], ref)
                fetched == joined[r] \o [i \in DOMAIN new |-> size + i]
            IN IF after.plan = <<>> \/ late[r]
               THEN /\ EndJoin(r, frame, join[r], after.heap, fetched)
                    /\ plan' = [plan EXCEPT ![r] = <<>>]
                    /\ gaveUp' = [gaveUp EXCEPT ![r] = @ \/ after.plan # <<>>]
               ELSE /\ plan' = [plan EXCEPT ![r] = after.plan]
                    /\ objects' = [objects EXCEPT ![r] = after.heap]
                    /\ joined' = [joined EXCEPT ![r] = fetched]
                    /\ UNCHANGED <<joining, frames, join, late, gaveUp>>
    /\ UNCHANGED <<stored, records, asked>>

\* The time limit of the join passes: the query that is under way is its last.
TimePasses(r) ==
    /\ joining[r] = "query" /\ ~late[r]
    /\ late' = [late EXCEPT ![r] = TRUE]
    /\ UNCHANGED <<stored, records, asked, joining, objects, frames, join, plan, joined, gaveUp>>

\* A query of a join fails, and the request with it.
JoinFails(r) ==
    /\ joining[r] = "query"
    /\ joining' = [joining EXCEPT ![r] = "failed"]
    /\ objects' = [objects EXCEPT ![r] = <<>>] /\ frames' = [frames EXCEPT ![r] = <<>>]
    /\ join' = [join EXCEPT ![r] = Null] /\ plan' = [plan EXCEPT ![r] = <<>>]
    /\ joined' = [joined EXCEPT ![r] = <<>>] /\ late' = [late EXCEPT ![r] = FALSE]
    /\ UNCHANGED <<stored, records, asked, gaveUp>>

Step(r) ==
    \/ Begin(r) \/ LeaveSelection(r) \/ StartJoin(r)
    \/ TimePasses(r) \/ JoinFails(r) \/ QueryPortion(r)

Next == \E r \in Request : Step(r)
-----------------------------------------------------------------------------
(* Properties *)

\* The places of records are places of the heap, and what belongs to one join is
\* there only while it is under way: its plan, its records and its time limit.
TypeOK ==
    \A r \in Request :
        LET places == DOMAIN objects[r]
        IN /\ joining[r] \in {"no", "next", "query", "done", "failed"}
           /\ \A i \in DOMAIN frames[r] : ToSet(frames[r][i].records) \subseteq places
           /\ ToSet(joined[r]) \subseteq places
           /\ \A i \in DOMAIN plan[r] : plan[r][i].records # {} /\ plan[r][i].records \subseteq places
           /\ joining[r] = "query" <=> join[r] # Null
           /\ joining[r] # "query" => plan[r] = <<>> /\ joined[r] = <<>> /\ ~late[r]
           /\ joining[r] = "query" => plan[r] # <<>>

\* The values a record refers by and what it has got for them.
LinksOf(main, on, field) ==
    LET values == Values(main.doc, on)
        got == IF field \notin DOMAIN main.joins THEN [i \in DOMAIN values |-> Null]
               ELSE IF on = "out_msgs" THEN main.joins[field] ELSE <<main.joins[field]>>
    IN {[value |-> values[i], record |-> got[i]] : i \in DOMAIN values}

\* However the records of a join come -- in portions, cut by a limit, after they
\* are written, some for several main records -- each record that is joined is the
\* one its main record refers to; and when a join did not end at its time limit,
\* each reference of a record that can be joined has its record.
JoinedRight ==
    \A r \in Request : \A o \in DOMAIN objects[r] : \A j \in ToSet(objects[r][o].selection) :
        LET doc == objects[r][o].doc
            ref == JoinFields[doc.coll][j.field]
        IN \A link \in LinksOf(objects[r][o], ref.on, j.field) :
              /\ link.record # Null =>
                    LET got == objects[r][link.record].doc
                    IN got.coll = ref.collection /\ link.value \in ToSet(Values(got, ref.refOn))
              /\ link.record = Null /\ joining[r] = "done" /\ ~gaveUp[r] => ~CanJoin(doc.coll, j, doc)
=============================================================================
