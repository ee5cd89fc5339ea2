------------------------------- MODULE Filters -------------------------------
(***************************************************************************)
(* Filters of a collection (filter/filters.ts).  The same filter is used   *)
(* twice: it is turned into the condition of a query (filterCondition),    *)
(* which the database evaluates, and it is tested against the documents of *)
(* the change feed by the server itself (test).  A condition is            *)
(* represented by its value for a document in the database's own           *)
(* arithmetic; "no condition" by Null.                                     *)
(*                                                                         *)
(* A type is [kind |-> "scalar"], [kind |-> "enumName", on, values],       *)
(* [kind |-> "array", item] or [kind |-> "struct", fields, isCollection].  *)
(* A filter of a struct is a record of filters, with "OR" for its next     *)
(* operand; of an array, of "any" and "all"; of a scalar, of operands by   *)
(* operation, with the lists of "in" and "notIn" as sets.                  *)
(***************************************************************************)
EXTENDS Documents

\* The attribute of a filter's field: the id of a document is its _key.
FieldName(type, field) == IF type.isCollection /\ field = "id" THEN "_key" ELSE field

\* splitOr(): the operands of a filter.
RECURSIVE SplitOr(_)
SplitOr(filter) ==
    IF "OR" \in DOMAIN filter
    THEN LET first == [f \in DOMAIN filter \ {"OR"} |-> filter[f]]
         IN <<first>> \o IF filter.OR = Null THEN <<>> ELSE SplitOr(filter.OR)
    ELSE <<filter>>

\* Operands of a filter by the names of an enumeration.
Resolved(type, op, operand) ==
    IF op \in {"in", "notIn"} THEN {type.values[name] : name \in operand} ELSE type.values[operand]

-----------------------------------------------------------------------------
(* Conditions of the database *)

\* combineFilterConditions() with AND: fields without a condition are left out.
Conjunction(conditions) ==
    IF conditions \ {Null} = {} THEN Null ELSE FALSE \notin conditions

RECURSIVE Condition(_, _, _, _)
Condition(type, parent, value, filter) ==
    CASE type.kind = "scalar" ->
            Conjunction({ScalarOp(op, value, filter[op], "aql") : op \in DOMAIN filter})
      [] type.kind = "enumName" ->
            Conjunction({ScalarOp(op, Field(parent, type.on), Resolved(type, op, filter[op]), "aql") :
                            op \in DOMAIN filter})
      [] type.kind = "struct" ->
            LET OfOperand(operand) ==
                    Conjunction({Condition(type.fields[f], value, Field(value, FieldName(type, f)), operand[f]) :
                                    f \in DOMAIN operand})
                operands == SplitOr(filter)
            IN IF Len(operands) = 1 THEN OfOperand(operands[1])
               ELSE \E i \in DOMAIN operands : OfOperand(operands[i]) = TRUE
      [] type.kind = "array" ->
            \* the items that pass, of an array or of nothing
            LET items == IF value = Null THEN <<>> ELSE value
                Passes(op, i) == Condition(type.item, parent, items[i], filter[op]) = TRUE
            IN Conjunction({IF op = "all" THEN \A i \in DOMAIN items : Passes(op, i)
                                          ELSE \E i \in DOMAIN items : Passes(op, i) :
                               op \in DOMAIN filter})

\* The documents a query with the filter selects; without a condition, all.
Selects(type, filter, doc) == Condition(type, Null, doc, filter) # FALSE

-----------------------------------------------------------------------------
(* Tests of documents of the change feed *)

\* Mutant of TestItems: an array without items fails "all".
TestItemsStrictly(op, passed) ==
    IF op = "all" THEN passed = {TRUE} ELSE TRUE \in passed

\* "all" finds no item that fails, "any" finds one that passes.
TestItems(op, passed) == IF op = "all" THEN FALSE \notin passed ELSE TRUE \in passed

RECURSIVE Test(_, _, _, _)
Test(type, parent, value, filter) ==
    CASE type.kind = "scalar" ->
            \A op \in DOMAIN filter : ScalarOp(op, value, filter[op], "js")
      [] type.kind = "enumName" ->
            \A op \in DOMAIN filter :
                ScalarOp(op, Field(parent, type.on), Resolved(type, op, filter[op]), "js")
      [] type.kind = "struct" ->
            /\ value # Null
            /\ \E i \in DOMAIN SplitOr(filter) :
                  LET operand == SplitOr(filter)[i]
                  IN \A f \in DOMAIN operand :
                        Test(type.fields[f], value, Field(value, FieldName(type, f)), operand[f])
      [] type.kind = "array" ->
            /\ value # Null
            /\ \A op \in DOMAIN filter :
                  TestItems(op, {Test(type.item, parent, value[i], filter[op]) : i \in DOMAIN value})

\* The documents on which condition and test have to agree: null is not compared
\* by order (it is less than zero in AQL, zero in JavaScript), the structs and
\* arrays the filter looks into are there (of an absent one a test is false, its
\* condition need not be), and no filter of an item is empty ("FILTER null").
RECURSIVE Comparable(_, _, _)
Comparable(type, value, filter) ==
    CASE type.kind = "scalar" ->
            value # Null \/ DOMAIN filter \subseteq {"eq", "ne", "in", "notIn"}
      [] type.kind = "enumName" -> DOMAIN filter \subseteq {"eq", "ne", "in", "notIn"}
      [] type.kind = "struct" ->
            /\ value # Null
            /\ \A i \in DOMAIN SplitOr(filter) :
                  LET operand == SplitOr(filter)[i]
                  IN \A f \in DOMAIN operand :
                        Comparable(type.fields[f], Field(value, FieldName(type, f)), operand[f])
      [] type.kind = "array" ->
            /\ value # Null
            /\ \A op \in DOMAIN filter :
                  /\ DOMAIN filter[op] # {}
                  /\ \A i \in DOMAIN value : Comparable(type.item, value[i], filter[op])
=============================================================================
