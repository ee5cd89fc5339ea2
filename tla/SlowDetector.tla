----------------------------- MODULE SlowDetector -----------------------------
(***************************************************************************)
(* Detection of slow queries by the indexes of a collection                *)
(* (filter/slow-detector.ts, filter/slow-query-exceptions.ts,              *)
(* filter/query-pattern.ts).  A path is the sequence of its names, with    *)
(* "[*]" for the items of an array; an index is the sequence of its paths, *)
(* an order a sequence of [path, direction].                               *)
(***************************************************************************)
EXTENDS Filters

CONSTANT SlowQueryExceptions   \* of each collection: patterns [filter, orderBy]

\* explainScalarOperation(): the operations of the condition, by path.
Explained(path, op) ==
    <<path, CASE op \in {"eq", "in"} -> "==" [] op \in {"ne", "notIn"} -> "!=" [] op = "lt" -> "<"
              [] op = "le" -> "<=" [] op = "gt" -> ">" [] op = "ge" -> ">=">>

\* The explanation of a filter's condition.
RECURSIVE Explain(_, _, _)
Explain(type, path, filter) ==
    CASE type.kind = "scalar" -> {Explained(path, op) : op \in DOMAIN filter}
      [] type.kind = "enumName" -> {Explained(Append(Front(path), type.on), op) : op \in DOMAIN filter}
      [] type.kind = "struct" ->
            LET OfOperand(operand) ==
                    UNION {Explain(type.fields[f], Append(path, FieldName(type, f)), operand[f]) :
                              f \in DOMAIN operand}
            IN UNION {OfOperand(SplitOr(filter)[i]) : i \in DOMAIN SplitOr(filter)}
      [] type.kind = "array" ->
            UNION {Explain(type.item, Append(path, "[*]"), filter[op]) : op \in DOMAIN filter}

Operations(explanation, path) == {e[2] : e \in {x \in explanation : x[1] = path}}

CanUseIndexedRange(ops) ==
    ops \in {{"=="}, {"!="}, {">"}, {">="}, {"<"}, {"<="},
             {">", "<"}, {">", "<="}, {">=", "<"}, {">=", "<="}}

\* The fields are the first of the index, in any order.
FieldsCanUseIndex(paths, index) ==
    /\ Cardinality(paths) <= Len(index)
    /\ \A i \in 1..Cardinality(paths) : index[i] \in paths

\* The index sorts as it is asked after fields that are compared for equality;
\* what either has left when the other ends does not count.
OrderByCanUseIndex(orderBy, explanation, index) ==
    \E skipped \in 0..Len(index) :
        /\ \A i \in 1..skipped :
              index[i] # OrderByPath(orderBy[1]) /\ Operations(explanation, index[i]) = {"=="}
        /\ \A i \in 1..(Len(index) - skipped) :
              i <= Len(orderBy) => index[skipped + i] = OrderByPath(orderBy[i])

\* getSlowReasonForOrOperand(): the query of one operand is fast.
IsFastOperand(type, filter, orderBy, indexes) ==
    LET explanation == {e \in Explain(type, <<>>, filter) : e[1] # <<"status">>}
        paths == {e[1] : e \in explanation}
        used == {index \in indexes : FieldsCanUseIndex(paths, index)}
    IN \/ Operations(explanation, <<"_key">>) = {"=="}
       \/ /\ \A path \in paths : CanUseIndexedRange(Operations(explanation, path))
          /\ used # {}
          /\ orderBy = <<>> \/ \E index \in used : OrderByCanUseIndex(orderBy, explanation, index)

\* filterMatch(): a filter has everything its pattern has.
RECURSIVE FilterMatch(_, _)
FilterMatch(filter, pattern) ==
    \A f \in DOMAIN pattern :
        f \in DOMAIN filter /\ (pattern[f] = Null \/ FilterMatch(filter[f], pattern[f]))

\* findCollectionQueryPattern()
IsSlowQueryException(collection, filter, orderBy) ==
    \E pattern \in SlowQueryExceptions[collection] :
        /\ FilterMatch(filter, pattern.filter)
        /\ pattern.orderBy \subseteq {orderBy[i].path : i \in DOMAIN orderBy}

IsFastQuery(collection, type, filter, orderBy, indexes) ==
    \/ IsSlowQueryException(collection, filter, orderBy)
    \/ \A i \in DOMAIN SplitOr(filter) : IsFastOperand(type, SplitOr(filter)[i], orderBy, indexes)
=============================================================================
