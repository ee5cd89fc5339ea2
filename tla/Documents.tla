------------------------------ MODULE Documents -------------------------------
(***************************************************************************)
(* Documents of a collection: records of their fields and of "coll", the   *)
(* collection they are of; and how the languages they are handled in       *)
(* compare their values.                                                   *)
(***************************************************************************)
EXTENDS Integers, FiniteSets, SequencesExt

CONSTANT Null

\* A field of a document or of a struct in it.  Nothing has no fields.
Field(value, name) ==
    IF value # Null /\ name \in DOMAIN value THEN value[name] ELSE Null

-----------------------------------------------------------------------------
(* Scalars *)

\* Order of AQL: null is less than any number.
AqlLess(a, b) == IF a = Null \/ b = Null THEN a = Null /\ b # Null ELSE a < b

\* Order of JavaScript: null counts as zero.
JsLess(a, b) ==
    LET Number(v) == IF v = Null THEN 0 ELSE v IN Number(a) < Number(b)

\* The operations, in the order of either language, "aql" or "js".
ScalarOp(op, value, operand, language) ==
    LET Less(a, b) == IF language = "aql" THEN AqlLess(a, b) ELSE JsLess(a, b)
    IN  CASE op = "eq" -> value = operand
          [] op = "ne" -> value # operand
          [] op = "lt" -> Less(value, operand)
          [] op = "le" -> ~Less(operand, value)
          [] op = "gt" -> Less(operand, value)
          [] op = "ge" -> ~Less(value, operand)
          [] op = "in" -> value \in operand
          [] op = "notIn" -> value \notin operand

-----------------------------------------------------------------------------
(* Sequences of documents *)

\* The elements of a sequence at some of its places, in their order.
Kept(s, places) ==
    LET kept[i \in 0..Len(s)] ==
          IF i = 0 THEN <<>> ELSE IF i \in places THEN Append(kept[i - 1], s[i]) ELSE kept[i - 1]
    IN kept[Len(s)]

\* The path of a field that documents are ordered by.
OrderByPath(order) == IF order.path = <<"id">> THEN <<"_key">> ELSE order.path
=============================================================================
