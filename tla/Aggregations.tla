----------------------------- MODULE Aggregations -----------------------------
(***************************************************************************)
(* Aggregations (data/aggregations.ts): each database aggregates the       *)
(* documents it selects, and the server reduces the results.  Values are   *)
(* natural numbers; an average is a pair of a sum and a count until it is  *)
(* reduced.                                                                *)
(***************************************************************************)
EXTENDS Documents

\* Sum of the numbers of a sequence, and their product.
Total(numbers) ==
    LET total[i \in 0..Len(numbers)] == IF i = 0 THEN 0 ELSE total[i - 1] + numbers[i]
    IN total[Len(numbers)]
CommonMultiple(numbers) ==
    LET product[i \in 0..Len(numbers)] == IF i = 0 THEN 1 ELSE product[i - 1] * numbers[i]
    IN product[Len(numbers)]

\* The texts of CountQuery, MinMaxQuery and NumberQuery, evaluated on the documents
\* a database selects.  MIN and MAX sort and take the first, a missing one too.
Aggregate(fn, field, docs) ==
    LET values == {Field(d, field) : d \in docs}
        present == SetToSeq({d \in docs : Field(d, field) # Null})
        sum == Total([i \in DOMAIN present |-> present[i][field]])
    IN CASE fn = "COUNT" -> Cardinality(docs)
         [] fn = "MIN" -> IF docs = {} THEN Null ELSE CHOOSE v \in values : \A w \in values : ~AqlLess(w, v)
         [] fn = "MAX" -> IF docs = {} THEN Null ELSE CHOOSE v \in values : \A w \in values : ~AqlLess(v, w)
         [] fn = "SUM" -> IF present = <<>> THEN Null ELSE sum
         [] fn = "AVERAGE" -> IF present = <<>> THEN Null ELSE <<sum, Len(present)>>

\* The mean of averages, truncated; an average is a sum and a count.
Mean(averages) ==
    LET counts == CommonMultiple([i \in DOMAIN averages |-> averages[i][2]])
    IN Total([i \in DOMAIN averages |-> averages[i][1] * (counts \div averages[i][2])])
       \div (Len(averages) * counts)

\* Mutant of ReduceValues: the first value counts twice.
ReduceTwice(fn, values) ==
    CASE values = <<>> -> Null
      [] fn = "MIN" -> CHOOSE v \in ToSet(values) : \A w \in ToSet(values) : v <= w
      [] fn = "MAX" -> CHOOSE v \in ToSet(values) : \A w \in ToSet(values) : v >= w
      [] fn \in {"COUNT", "SUM"} -> values[1] + Total(values)
      [] fn = "AVERAGE" -> Mean(values)

\* reduceValues(): an average is the mean of the databases' averages, truncated.
ReduceValues(fn, values) ==
    CASE values = <<>> -> Null
      [] fn = "MIN" -> CHOOSE v \in ToSet(values) : \A w \in ToSet(values) : v <= w
      [] fn = "MAX" -> CHOOSE v \in ToSet(values) : \A w \in ToSet(values) : v >= w
      [] fn \in {"COUNT", "SUM"} -> Total(values)
      [] fn = "AVERAGE" -> Mean(values)

\* reduceResults(): the results of the databases that have one.
ReduceResults(results, fields) ==
    [i \in DOMAIN fields |->
        LET values == [k \in DOMAIN results |-> results[k][i]]
        IN ReduceValues(fields[i].fn, Kept(values, {k \in DOMAIN values : values[k] # Null}))]
=============================================================================
