----------------------- MODULE ChainOrderBoundary_proofs -----------------------
(***************************************************************************)
(* Proofs about ChainOrderBoundary, for a single database of summaries.    *)
(* The boundary in the cache only rises, and everything that was read      *)
(* under a boundary is below it, where no row is inserted any more.        *)
(***************************************************************************)
EXTENDS ChainOrderBoundary, TLAPS, FiniteSetTheorems, WellFoundedInduction

-----------------------------------------------------------------------------
(* The least and the greatest of a set of numbers *)

\* A non-empty set of naturals has a least element, which Least chooses.
LEMMA LeastOf ==
    ASSUME NEW S \in SUBSET Nat, S # {}
    PROVE  Least(S) \in S /\ \A m \in S : Least(S) <= m
<1> DEFINE Below == {0..m : m \in S}
<1>1. Below \subseteq FiniteSubsetsOf(Nat) /\ Below # {}
  <2>1. ASSUME NEW m \in S PROVE 0..m \in FiniteSubsetsOf(Nat)
    <3>1. IsFiniteSet(0..m) BY FS_Interval, m \in Int
    <3>2. 0..m \in SUBSET Nat OBVIOUS
    <3> QED BY <3>1, <3>2 DEF FiniteSubsetsOf
  <2> QED BY <2>1
<1>2. PICK B \in Below : \A C \in Below : ~ (<<C, B>> \in StrictSubsetOrdering(Nat))
  <2>1. IsWellFoundedOn(StrictSubsetOrdering(Nat), FiniteSubsetsOf(Nat))
    BY FS_StrictSubsetOrderingWellFounded
  <2> HIDE DEF Below
  <2> QED BY <1>1, <2>1, WFMin, Zenon
<1>3. PICK x \in S : B = 0..x BY <1>2
<1>4. \A y \in S : x <= y
  <2> SUFFICES ASSUME NEW y \in S, ~ (x <= y) PROVE FALSE OBVIOUS
  <2>1. 0..y \in Below /\ 0..y \in SUBSET Nat /\ 0..x \in SUBSET Nat OBVIOUS
  <2>2. 0..y \subseteq 0..x /\ x \in 0..x /\ x \notin 0..y OBVIOUS
  <2>3. 0..y # 0..x BY <2>2
  <2>4. <<0..y, 0..x>> \in StrictSubsetOrdering(Nat)
    BY <2>1, <2>2, <2>3 DEF StrictSubsetOrdering
  <2> QED BY <1>2, <1>3, <2>1, <2>4
<1> QED BY <1>4 DEF Least

\* A non-empty set of bounded naturals has a greatest element, which Greatest
\* chooses.
LEMMA GreatestOf ==
    ASSUME NEW n \in Nat, NEW S \in SUBSET (0..n), S # {}
    PROVE  Greatest(S) \in S /\ \A m \in S : m <= Greatest(S)
<1> DEFINE T == {n - m : m \in S}
<1>1. T \in SUBSET Nat /\ T # {}
  <2>1. \A m \in S : n - m \in Nat OBVIOUS
  <2> QED BY <2>1
<1>2. PICK t \in T : \A u \in T : t <= u BY <1>1, LeastOf
<1>3. PICK x \in S : t = n - x OBVIOUS
<1>4. \A m \in S : m <= x
  <2> TAKE m \in S
  <2>1. n - m \in T OBVIOUS
  <2>2. n - x <= n - m BY <2>1, <1>2, <1>3
  <2> QED BY <2>2
<1> QED BY <1>4 DEF Greatest

\* The least of a single number.
LEMMA LeastOfOne == ASSUME NEW n \in Int PROVE Least({n}) = n
  BY DEF Least

-----------------------------------------------------------------------------
(* Types, and what holds in each phase of a page *)

\* A database has one query under way, and its callers await it.
Flights ==
    /\ \A f \in flights, g \in flights : f.db = g.db => f = g
    /\ \A f \in flights : \A w \in f.callers : pc[w] = "summary" /\ summaries[w][f.db] = NotRead

\* What belongs to a phase of a page is reset in the others.
Phases ==
    \A w \in Walker :
        /\ pc[w] \in {"idle", "failed"} => bounds[w] = <<>>
        /\ pc[w] \in {"filter", "summary"} => Len(bounds[w]) < Len(Filters[w])
        /\ pc[w] = "rows" => Len(bounds[w]) = Len(Filters[w])
        /\ pc[w] # "summary" => age[w] = 0 /\ summaries[w] = NothingRead
        /\ pc[w] # "rows" => found[w] = {}

TypeInv == TypeOK /\ Phases /\ Flights

\* The boundary of the summaries read is the one of the first.
LEMMA BoundaryRead ==
    ASSUME TypeOK, NEW w \in Walker, \A v \in Verifier : summaries[w][v] # NotRead
    PROVE  BoundaryOf(summaries[w]) = summaries[w][1] /\ summaries[w][1] \in Boundary
<1>1. 1 \in Verifier BY BoundaryAssumption DEF Verifier
<1>2. summaries[w][1] \in Boundary BY <1>1 DEF TypeOK
<1> QED BY <1>2, LeastOfOne DEF BoundaryOf, Distinct, Boundary

\* The types and the phases hold at the start.
LEMMA InitTypeInv == Init => TypeInv
<1> SUFFICES ASSUME Init PROVE TypeInv OBVIOUS
<1> USE BoundaryAssumption
<1>1. LowestSummary \in Boundary /\ 0 \in Boundary /\ Period \in Age /\ 0 \in Age
  BY DEF Boundary, Age
<1>2. NothingRead \in [Verifier -> Boundary \cup {NotRead}] BY DEF NothingRead
<1>3. TypeOK BY <1>1, <1>2 DEF Init, TypeOK
<1>4. Phases /\ Flights BY DEF Init, Phases, Flights
<1> QED BY <1>3, <1>4 DEF TypeInv

\* A filter that gets a boundary.
LEMMA BoundedTypes ==
    ASSUME TypeInv, NEW w \in Walker, NEW b \in Boundary,
           pc[w] \in {"filter", "summary"}, Bounded(w, b)
    PROVE  /\ pc' \in [Walker -> {"idle", "filter", "summary", "rows", "failed"}]
           /\ bounds' \in [Walker -> Seq(Boundary)]
           /\ waiting' \in [Walker -> SUBSET Database]
           /\ \A u \in Walker \ {w} : pc'[u] = pc[u] /\ bounds'[u] = bounds[u]
           /\ bounds'[w] = Append(bounds[w], b)
           /\ \/ pc'[w] = "filter" /\ Len(bounds'[w]) < Len(Filters[w])
              \/ pc'[w] = "rows" /\ Len(bounds'[w]) = Len(Filters[w]) /\ waiting'[w] = Database
<1> USE BoundaryAssumption DEF TypeInv
<1>1. bounds[w] \in Seq(Boundary) /\ Filters[w] \in Seq(SUBSET Part) BY DEF TypeOK
<1>2. Append(bounds[w], b) \in Seq(Boundary) /\ Len(Append(bounds[w], b)) = Len(bounds[w]) + 1
  BY <1>1
<1>3. Len(bounds[w]) < Len(Filters[w]) /\ Len(bounds[w]) \in Nat /\ Len(Filters[w]) \in Nat
  BY <1>1 DEF Phases
<1>4. bounds' \in [Walker -> Seq(Boundary)] /\ bounds'[w] = Append(bounds[w], b)
      /\ \A u \in Walker \ {w} : bounds'[u] = bounds[u]
  BY <1>2 DEF Bounded, TypeOK
<1>5. CASE Len(bounds[w]) + 1 < Len(Filters[w])
  BY <1>2, <1>4, <1>5 DEF Bounded, TypeOK
<1>6. CASE ~(Len(bounds[w]) + 1 < Len(Filters[w]))
  <2>1. Len(bounds'[w]) = Len(Filters[w]) BY <1>2, <1>3, <1>4, <1>6
  <2>2. pc' = [pc EXCEPT ![w] = "rows"] /\ waiting' = [waiting EXCEPT ![w] = Database]
    BY <1>6 DEF Bounded
  <2>3. waiting' \in [Walker -> SUBSET Database] /\ waiting'[w] = Database BY <2>2 DEF TypeOK
  <2>4. pc' \in [Walker -> {"idle", "filter", "summary", "rows", "failed"}] /\ pc'[w] = "rows"
        /\ \A u \in Walker \ {w} : pc'[u] = pc[u]
    BY <2>2 DEF TypeOK
  <2> QED BY <1>4, <2>1, <2>3, <2>4
<1> QED BY <1>5, <1>6

\* A query finds chain orders.
LEMMA MatchingInOrder ==
    ASSUME TypeOK, NEW w \in Walker, NEW d \in Database PROVE Matching(w, d) \subseteq Order
  BY DEF TypeOK, Matching

\* A query under way with other callers.
LEMMA WithCallers ==
    ASSUME NEW f \in Flight, NEW C \in SUBSET Walker
    PROVE  LET g == [f EXCEPT !.callers = C]
           IN  g \in Flight /\ g.db = f.db /\ g.read = f.read /\ g.callers = C
  BY DEF Flight

\* A query under way with its answer.
LEMMA WithAnswer ==
    ASSUME NEW f \in Flight, NEW b \in Boundary
    PROVE  LET g == [f EXCEPT !.read = b]
           IN  g \in Flight /\ g.db = f.db /\ g.read = b /\ g.callers = f.callers
  BY DEF Flight

\* A query that is sent for a first caller.
LEMMA NewFlight ==
    ASSUME NEW V \in SUBSET Verifier, NEW w \in Walker,
           NEW f \in [db : V, read : {NotRead}, callers : {{w}}]
    PROVE  f \in Flight /\ f.db \in V /\ f.read = NotRead /\ f.callers = {w}
  BY DEF Flight

\* There is one for each database.
LEMMA NewFlightOf ==
    ASSUME NEW V, NEW w, NEW f \in [db : V, read : {NotRead}, callers : {{w}}],
           NEW g \in [db : V, read : {NotRead}, callers : {{w}}], f.db = g.db
    PROVE  f = g
  OBVIOUS

\* The queries under way after a call for the summaries.
LEMMA JoinedFlights ==
    ASSUME TypeInv, NEW w \in Walker
    PROVE  /\ Joined(w) \subseteq Flight
           /\ \A f \in Joined(w), g \in Joined(w) : f.db = g.db => f = g
           /\ \A f \in Joined(w) :
                \/ f.callers = {w} /\ f.read = NotRead
                \/ \E g \in flights : f.db = g.db /\ f.read = g.read /\ f.callers = g.callers \cup {w}
<1> DEFINE V == Verifier \ {f.db : f \in flights}
           New == [db : V, read : {NotRead}, callers : {{w}}]
           Old == {[f EXCEPT !.callers = @ \cup {w}] : f \in flights}
<1>1. Joined(w) = Old \cup New BY DEF Joined
<1>2. flights \subseteq Flight /\ \A f \in flights : f.callers \cup {w} \in SUBSET Walker
  BY DEF TypeInv, TypeOK, Flight
<1>3. ASSUME NEW f \in Old
      PROVE  /\ f \in Flight
             /\ \E g \in flights : /\ f = [g EXCEPT !.callers = @ \cup {w}]
                                   /\ f.db = g.db /\ f.read = g.read /\ f.callers = g.callers \cup {w}
  <2>1. PICK g \in flights : f = [g EXCEPT !.callers = @ \cup {w}] OBVIOUS
  <2>2. g \in Flight /\ g.callers \cup {w} \in SUBSET Walker BY <1>2
  <2> HIDE DEF Old
  <2> QED BY <2>1, <2>2, WithCallers
<1>4. ASSUME NEW f \in New
      PROVE  /\ f \in Flight /\ f.callers = {w} /\ f.read = NotRead
             /\ f.db \notin {g.db : g \in flights}
  <2>1. V \in SUBSET Verifier OBVIOUS
  <2>2. f \in Flight /\ f.db \in V /\ f.read = NotRead /\ f.callers = {w}
    <3> HIDE DEF V
    <3> QED BY <2>1, NewFlight
  <2> QED BY <2>2
<1>5. ASSUME NEW f \in Joined(w), NEW g \in Joined(w), f.db = g.db PROVE f = g
  <2> HIDE DEF Old, New
  <2>1. CASE f \in New /\ g \in New
    <3>1. f \in New /\ g \in New BY <2>1
    <3> HIDE DEF V
    <3> QED BY <1>5, <3>1, NewFlightOf DEF New
  <2>2. CASE f \in Old /\ g \in Old BY <1>3, <1>5, <2>2 DEF TypeInv, Flights
  <2>3. CASE f \in Old /\ g \in New BY <1>3, <1>4, <1>5, <2>3
  <2>4. CASE f \in New /\ g \in Old BY <1>3, <1>4, <1>5, <2>4
  <2> QED BY <1>1, <2>1, <2>2, <2>3, <2>4
<1> HIDE DEF Old, New
<1> QED BY <1>1, <1>3, <1>4, <1>5

\* A set of pages that ends.
LEMMA EndedTypes ==
    ASSUME TypeOK, Phases, NEW W \in SUBSET Walker, NEW how \in {"idle", "failed"}, Ended(W, how)
    PROVE  /\ UNCHANGED <<rows, published, cache>>
           /\ pc' \in [Walker -> {"idle", "filter", "summary", "rows", "failed"}]
           /\ bounds' \in [Walker -> Seq(Boundary)] /\ age' \in [Walker -> Age]
           /\ summaries' \in [Walker -> [Verifier -> Boundary \cup {NotRead}]]
           /\ waiting' \in [Walker -> SUBSET Database] /\ found' \in [Walker -> SUBSET Order]
           /\ \A w \in W : pc'[w] = how /\ bounds'[w] = <<>> /\ found'[w] = {}
                           /\ summaries'[w] = NothingRead
           /\ \A w \in Walker \ W : /\ pc'[w] = pc[w] /\ bounds'[w] = bounds[w]
                                    /\ waiting'[w] = waiting[w] /\ found'[w] = found[w]
                                    /\ summaries'[w] = summaries[w]
           /\ Phases'
<1> USE BoundaryAssumption
<1>1. 0 \in Age /\ <<>> \in Seq(Boundary) BY DEF Age
<1>2. NothingRead \in [Verifier -> Boundary \cup {NotRead}] BY DEF NothingRead
<1>3. Phases' BY DEF Ended, Phases
<1> QED BY <1>1, <1>2, <1>3 DEF Ended, TypeOK, database

\* Every step keeps the types and the phases.
LEMMA NextTypeInv == TypeInv /\ [Next]_vars => TypeInv'
<1> SUFFICES ASSUME TypeInv, [Next]_vars PROVE TypeInv' OBVIOUS
<1> USE BoundaryAssumption DEF TypeInv, database, page, call
<1>0. NothingRead \in [Verifier -> Boundary \cup {NotRead}] BY DEF NothingRead
<1>1. ASSUME NEW n \in Order, NEW p \in Part, NEW d \in Database, Insert(n, p, d) PROVE TypeInv'
  <2>1. TypeOK' BY <1>1 DEF Insert, TypeOK
  <2>2. Phases' /\ Flights' BY <1>1 DEF Insert, Phases, Flights
  <2> QED BY <2>1, <2>2
<1>2. ASSUME NEW v \in Verifier, NEW b \in Boundary, Publish(v, b) PROVE TypeInv'
  <2>1. TypeOK' BY <1>2 DEF Publish, TypeOK
  <2>2. Phases' /\ Flights' BY <1>2 DEF Publish, Phases, Flights
  <2> QED BY <2>1, <2>2
<1>3. ASSUME Tick PROVE TypeInv'
  <2>1. \A a \in Age : Older(a) \in Age BY DEF Older, Age
  <2>2. cache' \in [boundary : Boundary, age : Age] BY <1>3, <2>1 DEF Tick, TypeOK
  <2>3. age' \in [Walker -> Age] BY <1>3, <2>1 DEF Tick, TypeOK
  <2>4. TypeOK' BY <1>3, <2>2, <2>3 DEF Tick, TypeOK
  <2>5. Phases' BY <1>3 DEF Tick, Phases
  <2>6. Flights' BY <1>3 DEF Tick, Flights
  <2> QED BY <2>4, <2>5, <2>6
<1>4. ASSUME NEW w \in Walker, Ask(w) PROVE TypeInv'
  <2>1. TypeOK' BY <1>4 DEF Ask, TypeOK
  <2>2. Len(<<>>) < Len(Filters[w])
    <3>1. Filters[w] \in Seq(SUBSET Part) /\ Filters[w] # <<>> OBVIOUS
    <3> QED BY <3>1
  <2>3. Phases' BY <1>4, <2>2 DEF Ask, Phases, TypeOK
  <2>4. Flights' BY <1>4 DEF Ask, Flights, TypeOK
  <2> QED BY <2>1, <2>3, <2>4
<1>5. ASSUME NEW w \in Walker, UseCached(w) PROVE TypeInv'
  <2>1. cache.boundary \in Boundary BY DEF TypeOK
  <2>2. pc[w] = "filter" /\ Bounded(w, cache.boundary) BY <1>5 DEF UseCached
  <2>3. TypeOK' BY <1>5, <2>1, <2>2, BoundedTypes DEF UseCached, TypeOK
  <2>4. Phases'
    <3> SUFFICES ASSUME NEW u \in Walker PROVE Phases!(u)' BY DEF Phases
    <3>1. CASE u = w BY <1>5, <2>1, <2>2, <3>1, BoundedTypes DEF UseCached, Phases
    <3>2. CASE u # w BY <1>5, <2>1, <2>2, <3>2, BoundedTypes DEF UseCached, Phases
    <3> QED BY <3>1, <3>2
  <2>5. Flights'
    <3>1. flights' = flights /\ summaries' = summaries BY <1>5 DEF UseCached
    <3>2. \A f \in flights : \A u \in f.callers : u \in Walker /\ u # w
      BY <2>2 DEF Flights, TypeOK, Flight
    <3>3. \A u \in Walker \ {w} : pc'[u] = pc[u] BY <2>1, <2>2, BoundedTypes
    <3> QED BY <3>1, <3>2, <3>3 DEF Flights
  <2> QED BY <2>3, <2>4, <2>5
<1>6. ASSUME NEW w \in Walker, AskSummary(w) PROVE TypeInv'
  <2>1. flights' = Joined(w) /\ Joined(w) \subseteq Flight BY <1>6, JoinedFlights DEF AskSummary
  <2>2. TypeOK' BY <1>6, <2>1 DEF AskSummary, TypeOK
  <2>3. Phases' BY <1>6 DEF AskSummary, Phases, TypeOK
  <2>4. pc' = [pc EXCEPT ![w] = "summary"] /\ summaries' = summaries /\ pc[w] = "filter"
    BY <1>6 DEF AskSummary
  <2>6. \A f \in flights', g \in flights' : f.db = g.db => f = g BY <2>1, JoinedFlights
  <2>7. ASSUME NEW f \in flights', NEW u \in f.callers
        PROVE  pc'[u] = "summary" /\ summaries[u][f.db] = NotRead
    <3>1. CASE u = w
      <4>1. summaries[w] = NothingRead BY <2>4 DEF Phases
      <4>2. f.db \in Verifier BY <2>1 DEF Flight
      <4> QED BY <2>4, <3>1, <4>1, <4>2 DEF NothingRead, TypeOK
    <3>2. CASE u # w
      <4>1. PICK g \in flights : f.db = g.db /\ f.callers = g.callers \cup {w}
        BY <2>1, <2>7, <3>2, JoinedFlights
      <4>2. u \in g.callers /\ u \in Walker BY <2>7, <3>2, <4>1 DEF TypeOK, Flight
      <4> QED BY <2>4, <3>2, <4>1, <4>2 DEF Flights, TypeOK
    <3> QED BY <3>1, <3>2
  <2>8. Flights' BY <2>4, <2>6, <2>7 DEF Flights
  <2> QED BY <2>2, <2>3, <2>8
<1>7. ASSUME NEW f \in flights, ReadSummary(f) PROVE TypeInv'
  <2>1. f \in Flight /\ f.db \in Verifier /\ published[f.db] \in Boundary BY DEF TypeOK, Flight
  <2>2. PICK g \in Flight : g = [f EXCEPT !.read = published[f.db]] /\ g.db = f.db /\ g.callers = f.callers
    BY <2>1, WithAnswer
  <2>3. flights' = (flights \ {f}) \cup {g} BY <1>7, <2>2 DEF ReadSummary
  <2>4. TypeOK' BY <1>7, <2>3 DEF ReadSummary, TypeOK
  <2>5. Phases' BY <1>7 DEF ReadSummary, Phases
  <2>6. pc' = pc /\ summaries' = summaries BY <1>7 DEF ReadSummary
  <2>7. \A h \in flights' : \E k \in flights : h.db = k.db /\ h.callers = k.callers
                                              /\ (h = g => k = f) /\ (h # g => k = h /\ h # f)
    BY <2>2, <2>3
  <2>8. Flights' BY <2>6, <2>7 DEF Flights
  <2> QED BY <2>4, <2>5, <2>8
<1>8. ASSUME NEW f \in flights, SummaryArrives(f) PROVE TypeInv'
  <2>1. f.db \in Verifier /\ f.read \in Boundary \cup {NotRead} /\ f.callers \subseteq Walker
    BY DEF TypeOK, Flight
  <2>2. summaries' \in [Walker -> [Verifier -> Boundary \cup {NotRead}]]
    BY <1>8, <2>1 DEF SummaryArrives, TypeOK
  <2>3. TypeOK' BY <1>8, <2>2 DEF SummaryArrives, TypeOK
  <2>4. \A u \in Walker : pc[u] # "summary" => u \notin f.callers BY DEF Flights
  <2>5. Phases' BY <1>8, <2>4 DEF SummaryArrives, Phases
  <2>6. ASSUME NEW g \in flights', NEW u \in g.callers
        PROVE  pc'[u] = "summary" /\ summaries'[u][g.db] = NotRead
    <3>1. g \in flights /\ g # f /\ pc' = pc BY <1>8 DEF SummaryArrives
    <3>2. g.db # f.db BY <3>1 DEF Flights
    <3>3. u \in Walker /\ g.db \in Verifier BY <3>1 DEF TypeOK, Flight
    <3>4. summaries'[u][g.db] = summaries[u][g.db]
      BY <1>8, <2>1, <3>2, <3>3 DEF SummaryArrives, TypeOK
    <3> QED BY <3>1, <3>4 DEF Flights
  <2>7. Flights' BY <1>8, <2>6 DEF SummaryArrives, Flights
  <2> QED BY <2>3, <2>5, <2>7
<1>9. ASSUME NEW w \in Walker, SummaryLands(w) PROVE TypeInv'
  <2> DEFINE b == BoundaryOf(summaries[w])
  <2>1. b \in Boundary BY <1>9, BoundaryRead DEF SummaryLands, Answered
  <2>2. pc[w] = "summary" /\ Bounded(w, b) BY <1>9 DEF SummaryLands, Answered
  <2>3. age[w] \in Age /\ 0 \in Age BY DEF TypeOK, Age
  <2>4. cache' \in [boundary : Boundary, age : Age] BY <1>9, <2>1, <2>3 DEF SummaryLands
  <2>5. age' \in [Walker -> Age] /\ summaries' \in [Walker -> [Verifier -> Boundary \cup {NotRead}]]
    BY <1>0, <1>9, <2>3 DEF SummaryLands, TypeOK
  <2>6. TypeOK' BY <1>9, <2>1, <2>2, <2>4, <2>5, BoundedTypes DEF SummaryLands, TypeOK
  <2>7. found' = found /\ age' = [age EXCEPT ![w] = 0] /\ flights' = flights
        /\ summaries' = [summaries EXCEPT ![w] = NothingRead]
    BY <1>9 DEF SummaryLands
  <2>8. Phases'
    <3> SUFFICES ASSUME NEW u \in Walker PROVE Phases!(u)' BY DEF Phases
    <3>1. CASE u = w
      <4>1. age'[w] = 0 /\ summaries'[w] = NothingRead /\ found'[w] = {}
        BY <2>2, <2>7 DEF TypeOK, Phases
      <4> QED BY <2>1, <2>2, <3>1, <4>1, BoundedTypes
    <3>2. CASE u # w
      <4>1. age'[u] = age[u] /\ summaries'[u] = summaries[u] /\ found'[u] = found[u]
        BY <2>7, <3>2 DEF TypeOK
      <4>2. pc'[u] = pc[u] /\ bounds'[u] = bounds[u] BY <2>1, <2>2, <3>2, BoundedTypes
      <4> QED BY <4>1, <4>2 DEF Phases
    <3> QED BY <3>1, <3>2
  <2>9. Flights'
    <3>1. \A f \in flights : \A u \in f.callers : u \in Walker /\ u # w
      <4> SUFFICES ASSUME NEW f \in flights, w \in f.callers PROVE FALSE BY DEF TypeOK, Flight
      <4>1. f.db \in Verifier /\ summaries[w][f.db] = NotRead BY DEF Flights, TypeOK, Flight
      <4> QED BY <1>9, <4>1 DEF SummaryLands, Answered
    <3>2. \A u \in Walker \ {w} : pc'[u] = pc[u] /\ summaries'[u] = summaries[u]
      BY <2>1, <2>2, <2>7, BoundedTypes DEF TypeOK
    <3> QED BY <2>7, <3>1, <3>2 DEF Flights
  <2> QED BY <2>6, <2>8, <2>9
<1>10. ASSUME NEW w \in Walker, NEW d \in Database, ReadRows(w, d) PROVE TypeInv'
  <2>1. PICK R \in SUBSET Matching(w, d) : found' = [found EXCEPT ![w] = @ \cup R]
    BY <1>10 DEF ReadRows
  <2>2. R \subseteq Order BY MatchingInOrder
  <2>3. TypeOK' BY <1>10, <2>1, <2>2 DEF ReadRows, TypeOK
  <2>4. Phases' BY <1>10, <2>1 DEF ReadRows, Phases, TypeOK
  <2>5. Flights' BY <1>10 DEF ReadRows, Flights
  <2> QED BY <2>3, <2>4, <2>5
<1>11. ASSUME NEW w \in Walker, PageLands(w) \/ RowsFail(w) PROVE TypeInv'
  <2>1. PICK how \in {"idle", "failed"} : Ended({w}, how) BY <1>11 DEF PageLands, RowsFail
  <2>2. delivered' \in [Walker -> SUBSET Order]
    <3>1. PICK R \in SUBSET found[w] :
            delivered' = delivered \/ delivered' = [delivered EXCEPT ![w] = @ \cup R]
      BY <1>11 DEF PageLands, RowsFail
    <3>2. R \subseteq Order BY DEF TypeOK
    <3>3. CASE delivered' = delivered BY <3>3 DEF TypeOK
    <3>4. CASE delivered' = [delivered EXCEPT ![w] = @ \cup R] BY <3>2, <3>4 DEF TypeOK
    <3> QED BY <3>1, <3>3, <3>4
  <2>3. flights' = flights /\ pc[w] = "rows" BY <1>11 DEF PageLands, RowsFail
  <2>4. TypeOK' /\ Phases' BY <2>1, <2>2, <2>3, EndedTypes DEF TypeOK
  <2>5. \A f \in flights : \A u \in f.callers : u \in Walker \ {w}
    BY <2>3 DEF Flights, TypeOK, Flight
  <2>6. \A u \in Walker \ {w} : pc'[u] = pc[u] /\ summaries'[u] = summaries[u]
    BY <2>1, EndedTypes
  <2>7. Flights' BY <2>3, <2>5, <2>6 DEF Flights
  <2> QED BY <2>4, <2>7
<1>12. ASSUME NEW f \in flights, SummaryFails(f) PROVE TypeInv'
  <2>1. f.callers \in SUBSET Walker /\ Ended(f.callers, "failed")
    BY <1>12 DEF SummaryFails, TypeOK, Flight
  <2>2. flights' = {[g EXCEPT !.callers = @ \ f.callers] : g \in flights \ {f}}
        /\ delivered' = delivered
    BY <1>12 DEF SummaryFails
  <2>3. ASSUME NEW h \in flights'
        PROVE  h \in Flight /\ \E g \in flights : /\ h = [g EXCEPT !.callers = @ \ f.callers]
                                                  /\ h.db = g.db /\ h.callers = g.callers \ f.callers
    <3>1. PICK g \in flights : h = [g EXCEPT !.callers = @ \ f.callers] BY <2>2
    <3>2. g \in Flight /\ g.callers \ f.callers \in SUBSET Walker BY DEF TypeOK, Flight
    <3> QED BY <3>1, <3>2, WithCallers
  <2>4. TypeOK' /\ Phases'
    <3>1. flights' \subseteq Flight BY <2>3
    <3> QED BY <2>1, <2>2, <3>1, EndedTypes DEF TypeOK
  <2>5. \A h \in flights' : \E g \in flights : /\ h = [g EXCEPT !.callers = @ \ f.callers]
                                               /\ h.db = g.db /\ h.callers = g.callers \ f.callers
    BY <2>3
  <2>6. \A u \in Walker \ f.callers : pc'[u] = pc[u] /\ summaries'[u] = summaries[u]
    BY <2>1, EndedTypes
  <2>7. \A g \in flights : g.callers \subseteq Walker BY DEF TypeOK, Flight
  <2>8. \A g \in flights', h \in flights' : g.db = h.db => g = h
    <3> SUFFICES ASSUME NEW g \in flights', NEW h \in flights', g.db = h.db PROVE g = h OBVIOUS
    <3>1. PICK k \in flights : g = [k EXCEPT !.callers = @ \ f.callers] /\ g.db = k.db BY <2>5
    <3>2. PICK l \in flights : h = [l EXCEPT !.callers = @ \ f.callers] /\ h.db = l.db BY <2>5
    <3>3. k = l BY <3>1, <3>2 DEF Flights
    <3> QED BY <3>1, <3>2, <3>3
  <2>9. ASSUME NEW h \in flights', NEW u \in h.callers
        PROVE  pc'[u] = "summary" /\ summaries'[u][h.db] = NotRead
    <3>1. PICK g \in flights : h.db = g.db /\ h.callers = g.callers \ f.callers BY <2>5
    <3>2. u \in g.callers /\ u \in Walker \ f.callers BY <2>7, <2>9, <3>1
    <3> QED BY <2>6, <3>1, <3>2 DEF Flights
  <2>10. Flights' BY <2>8, <2>9 DEF Flights
  <2> QED BY <2>4, <2>10
<1>13. CASE UNCHANGED vars
  <2>1. TypeOK' BY <1>13 DEF vars, TypeOK
  <2>2. Phases' /\ Flights' BY <1>13 DEF vars, Phases, Flights
  <2> QED BY <2>1, <2>2
<1> QED BY <1>1, <1>2, <1>3, <1>4, <1>5, <1>6, <1>7, <1>8, <1>9, <1>10, <1>11, <1>12, <1>13
    DEF Next, Serve, AnswerSummary, Failure

\* The types and the phases always hold.
LEMMA AlwaysTypeInv == Spec => []TypeInv
  BY InitTypeInv, NextTypeInv, PTL DEF Spec

\* The pages, the cache and the databases keep their types.
THEOREM TypeCorrect == Spec => []TypeOK
<1>1. TypeInv => TypeOK BY DEF TypeInv
<1> QED BY <1>1, AlwaysTypeInv, PTL

-----------------------------------------------------------------------------
(* The boundary rises, and no row is inserted below it *)

\* A single database of summaries, which has a boundary from the start.
OneSummary == Verifiers = 1 /\ LowestSummary = 1

\* b is a boundary that may enter the cache.
Vouched(b) == 1 <= b /\ cache.boundary <= b /\ b <= published[1]

\* What was read under a boundary is below the cached one.
Covered(w) ==
    /\ \A i \in DOMAIN bounds[w] : 1 <= bounds[w][i] /\ bounds[w][i] <= cache.boundary
    /\ \A n \in found[w] \cup delivered[w] : n < cache.boundary

\* The answers that are under way may enter the cache; the calls an answer has
\* reached have all got the same one.
CacheInv ==
    /\ Vouched(published[1]) /\ (Fresh => 1 <= cache.boundary)
    /\ \A f \in flights : f.read # NotRead => Vouched(f.read)
    /\ \A w \in Walker : summaries[w][1] # NotRead =>
         /\ Vouched(summaries[w][1]) /\ flights = {}
         /\ \A u \in Walker : summaries[u][1] \in {summaries[w][1], NotRead}
    /\ \A w \in Walker : Covered(w)

\* At the start nothing has been read.
LEMMA InitCache == ASSUME OneSummary, Init PROVE CacheInv
<1> USE BoundaryAssumption
<1>1. 1 \in Verifier BY DEF Verifier
<1> QED BY <1>1 DEF Init, CacheInv, Covered, Vouched, OneSummary, Fresh, NothingRead

\* Of a single database of summaries.
LEMMA TheVerifier ==
    ASSUME OneSummary, TypeInv
    PROVE  /\ Verifier = {1} /\ published[1] \in Boundary /\ cache.boundary \in Boundary
           /\ \A d \in Database : Vouches[d] = 1
           /\ \A f \in flights : f.db = 1
           /\ \A f \in flights, g \in flights : f = g
           /\ \A w \in Walker : summaries[w][1] # NotRead <=> Answered(w)
<1> USE BoundaryAssumption DEF OneSummary, TypeInv
<1>1. Verifier = {1} BY DEF Verifier
<1>2. published[1] \in Boundary /\ cache.boundary \in Boundary BY <1>1 DEF TypeOK
<1>3. \A f \in flights : f.db = 1 BY <1>1 DEF TypeOK, Flight
<1>4. \A f \in flights, g \in flights : f = g BY <1>3 DEF Flights
<1>5. \A w \in Walker : summaries[w][1] # NotRead <=> Answered(w)
  BY <1>1 DEF Answered, Phases, NothingRead
<1> QED BY <1>1, <1>2, <1>3, <1>4, <1>5

\* The cursor of a walk is the extreme chain order it has received.
LEMMA CursorOf ==
    ASSUME TypeOK, NEW w \in Walker, delivered[w] # {}
    PROVE  /\ Cursor(w) \in delivered[w] /\ Cursor(w) \in Order
           /\ \A n \in delivered[w] : IF w \in Forward THEN n <= Cursor(w) ELSE Cursor(w) <= n
<1> USE BoundaryAssumption
<1>1. delivered[w] \in SUBSET Order BY DEF TypeOK
<1>2. delivered[w] \in SUBSET (0..MaxOrder) /\ delivered[w] \in SUBSET Nat
  BY <1>1 DEF Order
<1> QED BY <1>1, <1>2, GreatestOf, LeastOf DEF Cursor

\* A filter lets through what is below its boundary.
LEMMA EndOf ==
    ASSUME TypeOK, NEW w \in Walker, NEW b \in Nat, 1 <= b
    PROVE  /\ End(w, b) \in Nat /\ 1 <= End(w, b) /\ End(w, b) <= b
           /\ \A n \in Order : InRange(w, n, b) => n < b /\ n < End(w, b)
<1>1. Cursor(w) \in Nat BY CursorOf DEF Cursor, Order
<1> QED BY <1>1 DEF End, Before, InRange, Order

\* What a query matches is covered.
LEMMA MatchingCovered ==
    ASSUME OneSummary, TypeInv, NEW w \in Walker, NEW d \in Database, Covered(w)
    PROVE  \A n \in Matching(w, d) : n < cache.boundary
<1> SUFFICES ASSUME NEW n \in Matching(w, d) PROVE n < cache.boundary OBVIOUS
<1> USE DEF TypeInv
<1>1. PICK i \in DOMAIN bounds[w] : InRange(w, n, bounds[w][i]) /\ n \in Order
  BY DEF Matching, TypeOK
<1>2. bounds[w][i] \in Nat /\ 1 <= bounds[w][i] /\ bounds[w][i] <= cache.boundary
  BY <1>1, BoundaryAssumption DEF Covered, TypeOK, Boundary
<1>3. n < bounds[w][i] BY <1>1, <1>2, EndOf
<1> QED BY <1>1, <1>2, <1>3, TheVerifier DEF Order, Boundary

\* Every step keeps CacheInv, and no step lowers the boundary.
LEMMA NextCache ==
    ASSUME OneSummary, TypeInv, TypeInv', CacheInv, [Next]_vars
    PROVE  CacheInv' /\ cache'.boundary >= cache.boundary
<1> USE BoundaryAssumption DEF database, page, call
<1>0. Verifier = {1} /\ published[1] \in Int /\ published'[1] \in Int
      /\ cache.boundary \in Int /\ cache'.boundary \in Int
  BY TheVerifier DEF TypeInv, TypeOK, Boundary
<1>1. \A w \in Walker : \A i \in DOMAIN bounds[w] : bounds[w][i] \in Int
  BY DEF TypeInv, TypeOK, Boundary
<1>2. \A w \in Walker : found[w] \subseteq Int /\ delivered[w] \subseteq Int
  BY DEF TypeInv, TypeOK, Order
\* A step that reads nothing new.
<1>3. ASSUME published[1] <= published'[1], cache'.boundary = cache.boundary, Fresh' => Fresh,
             \A f \in flights' : f.read = NotRead \/ \E g \in flights : f.read = g.read,
             flights = {} => flights' = {} \/ Settled,
             \A w \in Walker : summaries'[w][1] \in {summaries[w][1], NotRead},
             \A w \in Walker : bounds'[w] = bounds[w] \/ bounds'[w] = <<>>,
             \A w \in Walker : found'[w] \cup delivered'[w] \subseteq found[w] \cup delivered[w]
      PROVE  CacheInv' /\ cache'.boundary >= cache.boundary
  <2>1. \A x \in Int : Vouched(x) => (Vouched(x))' BY <1>0, <1>3 DEF Vouched
  <2>2. \A w \in Walker : summaries'[w][1] # NotRead =>
          summaries'[w][1] = summaries[w][1] /\ summaries[w][1] \in Int /\ flights' = {}
    <3>1. \A w \in Walker : summaries[w][1] \in Int
      BY <1>0 DEF TypeInv, TypeOK, Boundary, NotRead
    <3>2. Settled => \A w \in Walker : summaries[w][1] = NotRead BY TheVerifier DEF Settled
    <3> QED BY <1>3, <3>1, <3>2 DEF CacheInv
  <2>3. Vouched(published[1])' BY <1>0, <1>3 DEF CacheInv, Vouched
  <2>4. \A f \in flights' : f.read # NotRead => (Vouched(f.read))'
    <3>1. \A g \in flights : g.read \in Int BY DEF TypeInv, TypeOK, Flight, Boundary, NotRead
    <3>2. ASSUME NEW f \in flights', f.read # NotRead PROVE (Vouched(f.read))'
      <4>1. PICK g \in flights : f.read = g.read BY <1>3, <3>2
      <4>2. Vouched(f.read) /\ f.read \in Int BY <3>1, <3>2, <4>1 DEF CacheInv
      <4> QED BY <1>0, <1>3, <4>2 DEF Vouched
    <3> QED BY <3>2
  <2>5. ASSUME NEW w \in Walker, summaries'[w][1] # NotRead
        PROVE  /\ (Vouched(summaries[w][1]))' /\ flights' = {}
               /\ \A u \in Walker : summaries'[u][1] \in {summaries'[w][1], NotRead}
    <3>1. summaries'[w][1] = summaries[w][1] /\ Vouched(summaries[w][1])
          /\ summaries'[w][1] \in Int
      BY <2>2, <2>5 DEF CacheInv
    <3>2. (Vouched(summaries[w][1]))' BY <1>0, <1>3, <3>1 DEF Vouched
    <3> QED BY <1>3, <2>2, <2>5, <3>1, <3>2 DEF CacheInv
  <2>6. \A w \in Walker : Covered(w)' BY <1>0, <1>3, <1>1, <1>2 DEF CacheInv, Covered
  <2> QED BY <1>0, <1>3, <2>3, <2>4, <2>5, <2>6 DEF CacheInv
<1>4. ASSUME NEW n \in Order, NEW p \in Part, NEW d \in Database, Insert(n, p, d)
      PROVE  CacheInv' /\ cache'.boundary >= cache.boundary
  BY <1>0, <1>3, <1>4 DEF Insert, Fresh
<1>5. ASSUME NEW v \in Verifier, NEW b \in Boundary, Publish(v, b)
      PROVE  CacheInv' /\ cache'.boundary >= cache.boundary
  <2>1. published[1] <= published'[1] BY <1>0, <1>5 DEF Publish, TypeInv, TypeOK, Boundary
  <2> QED BY <1>0, <1>3, <1>5, <2>1 DEF Publish, Fresh
<1>6. ASSUME Tick PROVE CacheInv' /\ cache'.boundary >= cache.boundary
  <2>1. Fresh' => Fresh BY <1>6 DEF Tick, Fresh, Older, TypeInv, TypeOK, Age
  <2>2. cache'.boundary = cache.boundary BY <1>6 DEF Tick, TypeInv, TypeOK
  <2> QED BY <1>0, <1>3, <1>6, <2>1, <2>2 DEF Tick
<1>7. ASSUME NEW w \in Walker, Ask(w) PROVE CacheInv' /\ cache'.boundary >= cache.boundary
  BY <1>0, <1>3, <1>7 DEF Ask, Fresh
<1>8. ASSUME NEW w \in Walker, Settled, AskSummary(w)
      PROVE  CacheInv' /\ cache'.boundary >= cache.boundary
  <2>1. \A f \in flights' : f.read = NotRead \/ \E g \in flights : f.read = g.read
    BY <1>8, JoinedFlights DEF AskSummary
  <2> QED BY <1>0, <1>3, <1>8, <2>1 DEF AskSummary, Fresh
<1>9. ASSUME NEW w \in Walker, UseCached(w) PROVE CacheInv' /\ cache'.boundary >= cache.boundary
  <2>1. UNCHANGED <<published, cache, flights, summaries, found, delivered>> BY <1>9 DEF UseCached
  <2>2. bounds' = [bounds EXCEPT ![w] = Append(@, cache.boundary)] /\ 1 <= cache.boundary
    BY <1>9 DEF UseCached, Bounded, CacheInv
  <2>3. ASSUME NEW u \in Walker, NEW i \in DOMAIN bounds'[u]
        PROVE  1 <= bounds'[u][i] /\ bounds'[u][i] <= cache.boundary
    <3>1. cache.boundary \in Boundary BY TheVerifier
    <3> QED BY <1>0, <2>2, <3>1 DEF CacheInv, Covered, TypeInv, TypeOK
  <2>4. \A u \in Walker : Covered(u)' BY <2>1, <2>3 DEF CacheInv, Covered
  <2> QED BY <1>0, <2>1, <2>4 DEF CacheInv, Fresh, Vouched
<1>10. ASSUME NEW f \in flights, Settled, ReadSummary(f)
      PROVE  CacheInv' /\ cache'.boundary >= cache.boundary
  <2>1. UNCHANGED <<published, cache, summaries, bounds, found, delivered>>
    BY <1>10 DEF ReadSummary
  <2>2. \A w \in Walker : summaries[w][1] = NotRead BY <1>10, TheVerifier DEF Settled
  <2>3. \A g \in flights' : g.read = published[1]
    <3>1. f \in Flight /\ published[f.db] = published[1] /\ published[1] \in Boundary
      BY TheVerifier DEF TypeInv, TypeOK
    <3>2. flights = {f} BY TheVerifier
    <3>3. flights' = {[f EXCEPT !.read = published[1]]} BY <1>10, <3>1, <3>2 DEF ReadSummary
    <3>4. [f EXCEPT !.read = published[1]].read = published[1] BY <3>1, WithAnswer
    <3> QED BY <3>3, <3>4
  <2> QED BY <1>0, <2>1, <2>2, <2>3 DEF CacheInv, Covered, Fresh, Vouched
<1>11. ASSUME NEW f \in flights, Settled, SummaryArrives(f)
      PROVE  CacheInv' /\ cache'.boundary >= cache.boundary
  <2>1. UNCHANGED <<published, cache, bounds, found, delivered>> /\ f.read # NotRead
    BY <1>11 DEF SummaryArrives
  <2>2. flights' = {} BY <1>11, TheVerifier DEF SummaryArrives
  <2>3. \A w \in Walker : summaries[w][1] = NotRead BY <1>11, TheVerifier DEF Settled
  <2>4. \A w \in Walker : summaries'[w][1] \in {f.read, NotRead}
    <3>1. f.db = 1 BY TheVerifier
    <3> QED BY <1>0, <1>11, <2>3, <3>1 DEF SummaryArrives, TypeInv, TypeOK
  <2>5. Vouched(f.read) BY <2>1 DEF CacheInv
  <2>6. ASSUME NEW w \in Walker, summaries'[w][1] # NotRead
        PROVE  /\ (Vouched(summaries[w][1]))' /\ flights' = {}
               /\ \A u \in Walker : summaries'[u][1] \in {summaries'[w][1], NotRead}
    <3>1. summaries'[w][1] = f.read BY <2>4, <2>6
    <3> QED BY <2>1, <2>2, <2>4, <2>5, <3>1 DEF Vouched
  <2>7. \A w \in Walker : Covered(w)' BY <2>1 DEF CacheInv, Covered
  <2>8. (Vouched(published[1]))' /\ (Fresh' => 1 <= cache'.boundary)
    BY <2>1 DEF CacheInv, Vouched, Fresh
  <2> QED BY <1>0, <2>1, <2>2, <2>6, <2>7, <2>8 DEF CacheInv
<1>12. ASSUME NEW w \in Walker, SummaryLands(w)
       PROVE  CacheInv' /\ cache'.boundary >= cache.boundary
  <2> DEFINE b == summaries[w][1]
  <2>1. UNCHANGED <<published, flights, found, delivered>> BY <1>12 DEF SummaryLands
  <2>2. b # NotRead /\ BoundaryOf(summaries[w]) = b /\ b \in Boundary
    BY <1>0, <1>12, TheVerifier, BoundaryRead DEF SummaryLands, Answered, TypeInv
  <2>3. Vouched(b) /\ b \in Int BY <2>2 DEF CacheInv, Boundary
  <2>4. cache'.boundary = b /\ bounds' = [bounds EXCEPT ![w] = Append(@, b)]
    BY <1>12, <2>2 DEF SummaryLands, Bounded
  <2>5. 1 <= b /\ cache.boundary <= b /\ b <= published[1] BY <2>3 DEF Vouched
  <2>6. (Vouched(published[1]))' /\ flights' = {}
    BY <1>0, <2>1, <2>2, <2>3, <2>4, <2>5 DEF Vouched, CacheInv
  <2>7. \A u \in Walker : summaries'[u][1] \in {b, NotRead}
    <3>1. \A u \in Walker : summaries'[u] = summaries[u] \/ summaries'[u] = NothingRead
      BY <1>12 DEF SummaryLands, TypeInv, TypeOK
    <3>2. NothingRead[1] = NotRead BY <1>0 DEF NothingRead
    <3>3. \A u \in Walker : summaries[u][1] \in {b, NotRead} BY <2>2 DEF CacheInv
    <3> QED BY <3>1, <3>2, <3>3
  <2>8. ASSUME NEW u \in Walker PROVE Covered(u)'
    <3>1. ASSUME NEW i \in DOMAIN bounds'[u] PROVE 1 <= bounds'[u][i] /\ bounds'[u][i] <= b
      <4>1. \A j \in DOMAIN bounds[u] : 1 <= bounds[u][j] /\ bounds[u][j] <= b
        BY <1>0, <1>1, <2>3, <2>5 DEF CacheInv, Covered
      <4>2. CASE u # w BY <2>4, <3>1, <4>1, <4>2 DEF TypeInv, TypeOK
      <4>3. CASE u = w
        <5>1. bounds[w] \in Seq(Boundary) BY DEF TypeInv, TypeOK
        <5>2. bounds'[w] = Append(bounds[w], b) BY <2>4 DEF TypeInv, TypeOK
        <5> HIDE DEF b
        <5>3. (i \in DOMAIN bounds[w] /\ bounds'[w][i] = bounds[w][i]) \/ bounds'[w][i] = b
          BY <3>1, <4>3, <5>1, <5>2, <2>2
        <5> QED BY <2>3, <2>5, <4>1, <4>3, <5>3
      <4> QED BY <4>2, <4>3
    <3>2. \A n \in found'[u] \cup delivered'[u] : n < b
      <4>1. \A n \in found[u] \cup delivered[u] : n < cache.boundary BY DEF CacheInv, Covered
      <4> QED BY <1>0, <1>2, <2>1, <2>3, <2>5, <4>1
    <3> QED BY <2>4, <3>1, <3>2 DEF Covered
  <2>9. \A f \in flights' : FALSE BY <2>6
  <2> QED BY <1>0, <2>3, <2>4, <2>5, <2>6, <2>7, <2>8, <2>9 DEF CacheInv, Vouched
<1>13. ASSUME NEW w \in Walker, NEW d \in Database, ReadRows(w, d)
       PROVE  CacheInv' /\ cache'.boundary >= cache.boundary
  <2>1. UNCHANGED <<published, cache, flights, summaries, bounds, delivered>> BY <1>13 DEF ReadRows
  <2>2. PICK R \in SUBSET Matching(w, d) : found' = [found EXCEPT ![w] = @ \cup R]
    BY <1>13 DEF ReadRows
  <2>3. \A n \in Matching(w, d) : n < cache.boundary BY MatchingCovered DEF CacheInv
  <2>4. ASSUME NEW u \in Walker PROVE Covered(u)'
    <3>1. found'[u] \subseteq found[u] \cup Matching(w, d) /\ (u # w => found'[u] = found[u])
      BY <2>2 DEF TypeInv, TypeOK
    <3>2. \A n \in found'[u] : n < cache.boundary BY <2>3, <3>1 DEF CacheInv, Covered
    <3> QED BY <2>1, <3>2 DEF CacheInv, Covered
  <2> QED BY <1>0, <2>1, <2>4 DEF CacheInv, Fresh, Vouched
<1>14. ASSUME NEW W \in SUBSET Walker, NEW how \in {"idle", "failed"}, Ended(W, how),
              \A f \in flights' : \E g \in flights : f.read = g.read,
              \A w \in Walker : delivered'[w] \subseteq found[w] \cup delivered[w]
       PROVE  CacheInv' /\ cache'.boundary >= cache.boundary
  <2>1. UNCHANGED <<published, cache>> BY <1>14 DEF Ended
  <2>2. NothingRead[1] = NotRead BY <1>0 DEF NothingRead
  <2>3. \A w \in Walker : /\ summaries'[w][1] \in {summaries[w][1], NotRead}
                          /\ bounds'[w] = bounds[w] \/ bounds'[w] = <<>>
                          /\ found'[w] \subseteq found[w]
    BY <1>14, <2>2 DEF Ended
  <2>4. flights = {} => flights' = {} BY <1>14
  <2> QED BY <1>0, <1>3, <1>14, <2>1, <2>3, <2>4 DEF Fresh
<1>15. ASSUME NEW w \in Walker, PageLands(w) \/ RowsFail(w)
       PROVE  CacheInv' /\ cache'.boundary >= cache.boundary
  <2>1. PICK how \in {"idle", "failed"} : Ended({w}, how) /\ flights' = flights
    BY <1>15 DEF PageLands, RowsFail
  <2>2. \A u \in Walker : delivered'[u] \subseteq found[u] \cup delivered[u]
    <3>1. PICK R \in SUBSET found[w] :
            delivered' = delivered \/ delivered' = [delivered EXCEPT ![w] = @ \cup R]
      BY <1>15 DEF PageLands, RowsFail
    <3>2. CASE delivered' = delivered BY <3>2
    <3>3. CASE delivered' = [delivered EXCEPT ![w] = @ \cup R]
      <4>1. ASSUME NEW u \in Walker
            PROVE  delivered'[u] = IF u = w THEN delivered[w] \cup R ELSE delivered[u]
        BY <3>3 DEF TypeInv, TypeOK
      <4> QED BY <4>1
    <3> QED BY <3>1, <3>2, <3>3
  <2> QED BY <1>14, <2>1, <2>2
<1>16. ASSUME NEW f \in flights, SummaryFails(f)
       PROVE  CacheInv' /\ cache'.boundary >= cache.boundary
  <2>1. f.callers \in SUBSET Walker /\ Ended(f.callers, "failed") /\ delivered' = delivered
    BY <1>16 DEF SummaryFails, TypeInv, TypeOK, Flight
  <2>2. flights' = {} BY <1>16, TheVerifier DEF SummaryFails
  <2> QED BY <1>14, <2>1, <2>2
<1>17. CASE UNCHANGED vars
  BY <1>0, <1>3, <1>17 DEF vars, Fresh
<1> QED
  BY <1>4, <1>5, <1>6, <1>7, <1>8, <1>9, <1>10, <1>11, <1>12, <1>13, <1>15, <1>16, <1>17
  DEF Next, Serve, AnswerSummary, Failure

\* CacheInv always holds.
LEMMA AlwaysCache == ASSUME OneSummary PROVE Spec => []CacheInv
<1>1. Init => CacheInv BY InitCache
<1>2. TypeInv /\ TypeInv' /\ CacheInv /\ [Next]_vars => CacheInv' BY NextCache
<1> QED BY <1>1, <1>2, AlwaysTypeInv, PTL DEF Spec

\* Where there is one database of summaries, the cached boundary never goes
\* back: concurrent calls share one query, so that their answers cannot cross.
THEOREM BoundaryOnlyRises == ASSUME OneSummary PROVE Spec => BoundaryNeverGoesBack
<1>1. TypeInv /\ TypeInv' /\ CacheInv /\ [Next]_vars => [cache'.boundary >= cache.boundary]_vars
  BY NextCache
<1> QED BY <1>1, AlwaysTypeInv, AlwaysCache, PTL DEF Spec, BoundaryNeverGoesBack

\* Where there is one database of summaries, no row is inserted before a cursor
\* a client has fetched, in either direction and with any number of filters.
THEOREM NoInsertBeforeACursor == ASSUME OneSummary PROVE Spec => NoInsertBeforeCursor
<1> USE BoundaryAssumption
<1>1. ASSUME TypeInv, CacheInv, [Next]_vars, NEW r \in rows' \ rows, NEW w \in Walker
      PROVE  ~Passed(w, r.order)
  <2>1. PICK n \in Order, p \in Part, d \in Database : Insert(n, p, d)
    <3>1. rows' # rows BY <1>1
    <3> QED BY <1>1, <3>1 DEF Next, Serve, AnswerSummary, Failure, Publish, Tick, Ask, UseCached,
                          AskSummary, ReadSummary, SummaryArrives, SummaryLands, ReadRows,
                          PageLands, SummaryFails, RowsFail, Ended, vars, database
  <2>2. r.order = n BY <1>1, <2>1 DEF Insert
  <2>3. n >= published[1] BY <1>1, <2>1, TheVerifier DEF Insert
  <2>4. \A m \in delivered[w] : m < cache.boundary BY <1>1 DEF CacheInv, Covered
  <2>5. cache.boundary <= published[1] BY <1>1 DEF CacheInv, Vouched
  <2>6. delivered[w] \subseteq Int /\ published[1] \in Int /\ n \in Int /\ cache.boundary \in Int
    BY <1>1, TheVerifier DEF TypeInv, TypeOK, Order, Boundary
  <2> QED BY <2>2, <2>3, <2>4, <2>5, <2>6 DEF Passed
<1>2. TypeInv /\ CacheInv /\ [Next]_vars
        => [\A r \in rows' \ rows, w \in Walker : ~Passed(w, r.order)]_vars
  BY <1>1
<1> QED BY <1>2, AlwaysTypeInv, AlwaysCache, PTL DEF Spec, NoInsertBeforeCursor

-----------------------------------------------------------------------------
(* A walk of one filter skips nothing *)

Walk == {w \in Walker : Len(Filters[w]) = 1}

\* There are finitely many chain orders.
LEMMA OrderFinite == IsFiniteSet(Order)
  BY BoundaryAssumption, FS_Interval DEF Order

\* What a database has answered with: a row that matches was found, or as many
\* rows before it as are asked for.
Crowded(w, m) ==
    \E R \in SUBSET found[w] : Cardinality(R) = First + 1 /\ \A r \in R : Precedes(w, r, m)
Complete(w) ==
    pc[w] = "rows" => \A d \in Database \ waiting[w] : \A m \in Matching(w, d) :
                          m \in found[w] \/ Crowded(w, m)

\* What is found is in the range of the page, whose boundary is above all that
\* has been received.
FoundInRange(w) == \A n \in found[w] : InRange(w, n, bounds[w][1])
BoundAbove(w) == pc[w] = "rows" => \A n \in delivered[w] : n < bounds[w][1]

WalkInv(w) == SkipsNothing(w) /\ Complete(w) /\ FoundInRange(w) /\ BoundAbove(w)

\* The single boundary of a page.
LEMMA OneBound ==
    ASSUME OneSummary, TypeInv, CacheInv, NEW w \in Walk, pc[w] = "rows"
    PROVE  /\ DOMAIN bounds[w] = {1} /\ DOMAIN Filters[w] = {1}
           /\ bounds[w][1] \in Nat /\ 1 <= bounds[w][1] /\ bounds[w][1] <= published[1]
<1>1. w \in Walker BY DEF Walk
<1>2. bounds[w] \in Seq(Boundary) /\ Filters[w] \in Seq(SUBSET Part) /\ Len(bounds[w]) = Len(Filters[w])
  BY <1>1, BoundaryAssumption DEF TypeInv, TypeOK, Phases
<1>3. Len(bounds[w]) = 1 BY <1>2 DEF Walk
<1>4. DOMAIN bounds[w] = {1} /\ DOMAIN Filters[w] = {1} BY <1>2, <1>3 DEF Walk
<1>5. bounds[w][1] \in Nat BY <1>2, <1>4, BoundaryAssumption DEF Boundary
<1>6. 1 <= bounds[w][1] /\ bounds[w][1] <= cache.boundary BY <1>1, <1>4 DEF CacheInv, Covered
<1>7. cache.boundary <= published[1] /\ cache.boundary \in Int /\ published[1] \in Int
  BY TheVerifier DEF CacheInv, Vouched, Boundary
<1> QED BY <1>4, <1>5, <1>6, <1>7

\* A query of a walk matches the rows in the range of its page.
LEMMA MatchingOf ==
    ASSUME OneSummary, TypeInv, CacheInv, NEW w \in Walk, pc[w] = "rows", NEW d \in Database, NEW n
    PROVE  n \in Matching(w, d) <=>
             \E r \in rows : /\ r.db = d /\ r.order = n /\ r.part \in Filters[w][1]
                             /\ InRange(w, n, bounds[w][1])
  BY OneBound DEF Matching

\* A step that leaves the walk and the rows alone.
LEMMA WalkKept ==
    ASSUME NEW w \in Walk, WalkInv(w), rows' = rows, pc'[w] = pc[w], bounds'[w] = bounds[w],
           waiting'[w] = waiting[w], found'[w] = found[w], delivered'[w] = delivered[w]
    PROVE  WalkInv(w)'
<1>1. \A n, b : InRange(w, n, b)' = InRange(w, n, b) BY DEF InRange, Start, End, Before, Cursor
<1>2. \A d \in Database : (Matching(w, d))' = Matching(w, d) BY <1>1 DEF Matching
<1>3. SkipsNothing(w)' BY DEF WalkInv, SkipsNothing, Walked, Passed
<1>4. Complete(w)' BY <1>2 DEF WalkInv, Complete, Crowded
<1>5. FoundInRange(w)' /\ BoundAbove(w)' BY <1>1 DEF WalkInv, FoundInRange, BoundAbove
<1> QED BY <1>3, <1>4, <1>5 DEF WalkInv

\* A row is inserted above everything the walk has asked for.
LEMMA WalkInsert ==
    ASSUME OneSummary, TypeInv, CacheInv, NEW w \in Walk, WalkInv(w),
           NEW n \in Order, NEW p \in Part, NEW d \in Database, Insert(n, p, d)
    PROVE  WalkInv(w)'
<1>1. w \in Walker BY DEF Walk
<1>2. n \in Int /\ published[1] \in Int /\ n >= published[1]
  BY TheVerifier DEF Insert, Order, Boundary
<1>3. UNCHANGED <<published, pc, bounds, waiting, found, delivered>>
      /\ rows' = rows \cup {[order |-> n, part |-> p, db |-> d]}
  BY DEF Insert, page
<1>4. SkipsNothing(w)'
  <2> SUFFICES ASSUME NEW k \in Walked(w)', Passed(w, k)' PROVE k \in delivered[w]
    BY <1>3 DEF SkipsNothing
  <2>1. PICK m \in delivered[w] : k <= m BY <1>3 DEF Passed
  <2>2. PICK r \in rows' : r.order = k /\ \E i \in DOMAIN Filters[w] : r.part \in Filters[w][i]
    BY DEF Walked
  <2>3. m \in Int /\ m < published[1]
    <3>1. m < cache.boundary /\ cache.boundary <= published[1]
      BY <1>1 DEF CacheInv, Covered, Vouched
    <3>2. m \in Int /\ cache.boundary \in Int
      BY <1>1, TheVerifier DEF TypeInv, TypeOK, Order, Boundary
    <3> QED BY <1>2, <3>1, <3>2
  <2>4. r \in rows
    <3>1. k # n BY <1>2, <2>1, <2>3
    <3> QED BY <1>3, <2>2, <3>1
  <2>5. k \in Walked(w) /\ Passed(w, k) BY <1>3, <2>2, <2>4 DEF Walked, Passed
  <2> QED BY <2>5 DEF WalkInv, SkipsNothing
<1>5. \A k, b : InRange(w, k, b)' = InRange(w, k, b)
  BY <1>3 DEF InRange, Start, End, Before, Cursor
<1>6. Complete(w)'
  <2> SUFFICES ASSUME pc[w] = "rows", NEW e \in Database \ waiting[w], NEW m \in (Matching(w, e))'
               PROVE  m \in found[w] \/ Crowded(w, m)
    BY <1>3 DEF Complete, Crowded
  <2>1. PICK r \in rows' : /\ r.db = e /\ r.order = m
                           /\ \E i \in DOMAIN bounds[w] :
                                r.part \in Filters[w][i] /\ InRange(w, r.order, bounds[w][i])
    BY <1>3, <1>5 DEF Matching
  <2>2. r \in rows
    <3>1. ~InRange(w, n, bounds[w][1])
      <4>1. InRange(w, n, bounds[w][1]) => n < bounds[w][1] BY <1>1, OneBound, EndOf DEF TypeInv
      <4> QED BY <1>2, <4>1, OneBound
    <3>2. m # n BY <2>1, <3>1, OneBound
    <3> QED BY <1>3, <2>1, <3>2
  <2>3. m \in Matching(w, e) BY <2>1, <2>2 DEF Matching
  <2> QED BY <2>3 DEF WalkInv, Complete
<1>7. FoundInRange(w)' /\ BoundAbove(w)' BY <1>3, <1>5 DEF WalkInv, FoundInRange, BoundAbove
<1> QED BY <1>4, <1>6, <1>7 DEF WalkInv

\* An answer brings every row that matches, or First + 1 of the first ones.
LEMMA WalkRead ==
    ASSUME OneSummary, TypeInv, CacheInv, NEW w \in Walk, WalkInv(w),
           NEW d \in Database, ReadRows(w, d)
    PROVE  WalkInv(w)'
<1> USE BoundaryAssumption
<1>1. w \in Walker BY DEF Walk
<1>2. PICK R \in SUBSET Matching(w, d) :
        /\ IsCut(R, Matching(w, d), First + 1, w)
        /\ found' = [found EXCEPT ![w] = @ \cup R]
  BY DEF ReadRows
<1>3. UNCHANGED <<rows, pc, bounds, delivered>> /\ pc[w] = "rows"
      /\ waiting' = [waiting EXCEPT ![w] = @ \ {d}]
  BY DEF ReadRows, database
<1>4. found'[w] = found[w] \cup R /\ waiting'[w] = waiting[w] \ {d}
  BY <1>1, <1>2, <1>3 DEF TypeInv, TypeOK
<1>5. \A n, b : InRange(w, n, b)' = InRange(w, n, b)
  BY <1>3 DEF InRange, Start, End, Before, Cursor
<1>6. \A e \in Database : (Matching(w, e))' = Matching(w, e) BY <1>3, <1>5 DEF Matching
<1>7. SkipsNothing(w)' BY <1>3 DEF WalkInv, SkipsNothing, Walked, Passed
<1>8. Complete(w)'
  <2> SUFFICES ASSUME NEW e \in Database \ waiting'[w], NEW m \in Matching(w, e)
               PROVE  (m \in found[w] \/ Crowded(w, m))'
    BY <1>6 DEF Complete
  <2>1. CASE e \notin waiting[w]
    <3>1. m \in found[w] \/ Crowded(w, m) BY <1>3, <2>1 DEF WalkInv, Complete
    <3> QED BY <1>4, <3>1 DEF Crowded, Precedes
  <2>2. CASE e = d /\ m \notin R
    <3>1. PICK M \in SUBSET Order : M = Matching(w, d) /\ m \in M /\ R \subseteq M
      BY <1>1, <2>2, MatchingInOrder DEF TypeInv
    <3>2. IsFiniteSet(M) /\ IsFiniteSet(R) BY <3>1, OrderFinite, FS_Subset
    <3>3. Cardinality(R) = First + 1
      <4>1. Cardinality(R) = IF Cardinality(M) < First + 1 THEN Cardinality(M) ELSE First + 1
        BY <1>2, <3>1 DEF IsCut
      <4>2. Cardinality(R) # Cardinality(M) BY <2>2, <3>1, <3>2, FS_Subset
      <4> QED BY <4>1, <4>2
    <3>4. \A r \in R : Precedes(w, r, m)
      <4>1. \A r \in R : ~Precedes(w, m, r) BY <1>2, <2>2, <3>1 DEF IsCut
      <4>2. m \in Int /\ R \subseteq Int BY <3>1 DEF Order
      <4>3. \A r \in R : r # m BY <2>2
      <4> QED BY <4>1, <4>2, <4>3 DEF Precedes
    <3> QED BY <1>4, <3>3, <3>4 DEF Crowded, Precedes
  <2>3. CASE e = d /\ m \in R BY <1>4, <2>3
  <2> QED BY <1>4, <2>1, <2>2, <2>3
<1>9. FoundInRange(w)'
  <2>1. \A n \in R : InRange(w, n, bounds[w][1])
    <3> TAKE n \in R
    <3>1. n \in Matching(w, d) OBVIOUS
    <3> QED BY <1>3, <3>1, MatchingOf
  <2> QED BY <1>3, <1>4, <1>5, <2>1 DEF WalkInv, FoundInRange
<1>10. BoundAbove(w)' BY <1>3 DEF WalkInv, BoundAbove
<1> QED BY <1>7, <1>8, <1>9, <1>10 DEF WalkInv

\* A cut takes what comes before a row it takes.
LEMMA CutTakes ==
    ASSUME OneSummary, TypeInv, CacheInv, NEW w \in Walk, WalkInv(w),
           pc[w] = "rows", waiting[w] = {}, NEW R \in SUBSET found[w], IsCut(R, found[w], First, w),
           NEW n \in Walked(w), InRange(w, n, bounds[w][1]),
           NEW m \in R, m = n \/ Precedes(w, n, m)
    PROVE  n \in R
<1> USE BoundaryAssumption
<1>1. w \in Walker BY DEF Walk
<1>2. found[w] \subseteq Order BY <1>1 DEF TypeInv, TypeOK
<1>3. IsFiniteSet(R) /\ Cardinality(R) <= First
  <2>1. IsFiniteSet(found[w]) /\ IsFiniteSet(R) BY <1>2, OrderFinite, FS_Subset
  <2>2. Cardinality(found[w]) \in Nat BY <2>1, FS_CardinalityType
  <2>3. Cardinality(R) = IF Cardinality(found[w]) < First THEN Cardinality(found[w]) ELSE First
    BY DEF IsCut
  <2> QED BY <2>1, <2>2, <2>3
<1>4. PICK r \in rows : r.order = n /\ \E i \in DOMAIN Filters[w] : r.part \in Filters[w][i]
  BY DEF Walked
<1>5. n \in Int /\ r.db \in Database BY <1>4 DEF TypeInv, TypeOK, Order
<1>6. n \in Matching(w, r.db) BY <1>4, <1>5, OneBound, MatchingOf
<1>7. n \in found[w] \/ Crowded(w, n) BY <1>5, <1>6 DEF WalkInv, Complete
<1>8. \A k \in found[w] : Precedes(w, k, m) => k \in R BY DEF IsCut
<1>9. CASE n \in found[w] BY <1>8, <1>9
<1>10. CASE Crowded(w, n)
  <2>1. PICK C \in SUBSET found[w] : Cardinality(C) = First + 1 /\ \A k \in C : Precedes(w, k, n)
    BY <1>10 DEF Crowded
  <2>2. C \subseteq R
    <3> SUFFICES ASSUME NEW k \in C PROVE k \in R OBVIOUS
    <3>1. k \in Int /\ m \in Int BY <1>2 DEF Order
    <3>2. Precedes(w, k, m) BY <1>5, <2>1, <3>1 DEF Precedes
    <3> QED BY <1>8, <3>2
  <2>3. Cardinality(C) <= Cardinality(R) BY <1>3, <2>2, FS_Subset
  <2>4. Cardinality(R) \in Nat BY <1>3, FS_CardinalityType
  <2> QED BY <1>3, <2>1, <2>3, <2>4
<1> QED BY <1>7, <1>9, <1>10

\* A page takes the first rows found; those it leaves come after them.
LEMMA WalkPage ==
    ASSUME OneSummary, TypeInv, CacheInv, NEW w \in Walk, WalkInv(w), PageLands(w)
    PROVE  WalkInv(w)'
<1> USE BoundaryAssumption
<1>1. w \in Walker BY DEF Walk
<1>2. PICK R \in SUBSET found[w] :
        IsCut(R, found[w], First, w) /\ delivered' = [delivered EXCEPT ![w] = @ \cup R]
  BY DEF PageLands
<1>3. delivered'[w] = delivered[w] \cup R BY <1>1, <1>2 DEF TypeInv, TypeOK
<1>4. pc[w] = "rows" /\ waiting[w] = {} /\ Ended({w}, "idle") BY DEF PageLands
<1>5. rows' = rows /\ pc'[w] = "idle" /\ found'[w] = {}
  BY <1>1, <1>4, EndedTypes DEF TypeInv
<1>6. found[w] \subseteq Order /\ delivered[w] \subseteq Order BY <1>1 DEF TypeInv, TypeOK
<1>7. bounds[w][1] \in Nat /\ 1 <= bounds[w][1] BY <1>4, OneBound
\* The cursor parts the range of the page from what has been received.
<1>8. \A n \in Order : InRange(w, n, bounds[w][1]) <=>
        /\ n < bounds[w][1]
        /\ delivered[w] # {} => IF w \in Forward THEN Cursor(w) < n ELSE n < Cursor(w)
  <2>1. CASE delivered[w] = {} BY <1>7, <2>1 DEF InRange, Start, End, Before, Cursor, Order
  <2>2. CASE delivered[w] # {}
    <3>1. Cursor(w) \in Order /\ Cursor(w) < bounds[w][1]
      BY <1>1, <1>4, <2>2, CursorOf DEF TypeInv, WalkInv, BoundAbove
    <3>2. Cursor(w) \in Nat /\ Cursor(w) # 0 BY <3>1 DEF Order
    <3> QED BY <1>7, <2>2, <3>1, <3>2 DEF InRange, Start, End, Before, Order
  <2> QED BY <2>1, <2>2
<1>9. SkipsNothing(w)'
  <2> SUFFICES ASSUME NEW n \in Walked(w), NEW m \in delivered'[w], n <= m,
                      NEW k \in delivered'[w], w \in Forward \/ k <= n
               PROVE  n \in delivered'[w]
    BY <1>5 DEF SkipsNothing, Walked, Passed
  <2>1. n \in Order /\ n \in Int /\ m \in Int /\ k \in Int
    BY <1>3, <1>6 DEF Walked, TypeInv, TypeOK, Order
  <2>2. R \subseteq Int /\ delivered[w] \subseteq Int BY <1>6 DEF Order
  <2>3. \A r \in R : InRange(w, r, bounds[w][1]) /\ r \in Order
    BY <1>6 DEF WalkInv, FoundInRange
  <2>4. delivered[w] # {} => Cursor(w) \in delivered[w]
          /\ \A x \in delivered[w] : IF w \in Forward THEN x <= Cursor(w) ELSE Cursor(w) <= x
    BY <1>1, CursorOf DEF TypeInv
  <2>5. CASE w \in Forward
    <3>1. CASE \E x \in delivered[w] : n <= x
      BY <1>3, <2>5, <3>1 DEF WalkInv, SkipsNothing, Passed
    <3>2. CASE ~ \E x \in delivered[w] : n <= x
      <4>1. m \in R BY <1>3, <3>2
      <4>2. m < bounds[w][1] BY <1>8, <2>3, <4>1
      <4>3. InRange(w, n, bounds[w][1])
        <5>1. delivered[w] # {} => Cursor(w) < n BY <2>1, <2>2, <2>4, <3>2
        <5> QED BY <1>7, <1>8, <2>1, <2>5, <4>2, <5>1
      <4>4. m = n \/ Precedes(w, n, m) BY <2>1, <2>5 DEF Precedes
      <4> QED BY <1>2, <1>3, <1>4, <4>1, <4>3, <4>4, CutTakes
    <3> QED BY <3>1, <3>2
  <2>6. CASE w \notin Forward
    <3>1. CASE \E x \in delivered[w] : x <= n
      <4>1. m \in delivered[w]
        <5>1. m \in R => m < Cursor(w) BY <1>8, <2>3, <2>6, <3>1
        <5>2. Cursor(w) <= n /\ Cursor(w) \in Int BY <2>1, <2>2, <2>4, <2>6, <3>1
        <5> QED BY <1>3, <2>1, <5>1, <5>2
      <4> QED BY <1>3, <3>1, <4>1 DEF WalkInv, SkipsNothing, Passed
    <3>2. CASE ~ \E x \in delivered[w] : x <= n
      <4>1. k \in R BY <1>3, <2>6, <3>2
      <4>2. delivered[w] # {} => n < Cursor(w) BY <2>1, <2>2, <2>4, <3>2
      <4>3. n < bounds[w][1]
        <5>1. m < bounds[w][1]
          <6>1. CASE m \in R BY <1>8, <2>3, <6>1
          <6>2. CASE m \in delivered[w] BY <1>4, <6>2 DEF WalkInv, BoundAbove
          <6> QED BY <1>3, <6>1, <6>2
        <5> QED BY <1>7, <2>1, <5>1
      <4>4. InRange(w, n, bounds[w][1]) BY <1>8, <2>1, <2>6, <4>2, <4>3
      <4>5. k = n \/ Precedes(w, n, k) BY <2>1, <2>6 DEF Precedes
      <4> QED BY <1>2, <1>3, <1>4, <4>1, <4>4, <4>5, CutTakes
    <3> QED BY <3>1, <3>2
  <2> QED BY <2>5, <2>6
<1>10. Complete(w)' /\ FoundInRange(w)' /\ BoundAbove(w)'
  BY <1>5 DEF Complete, FoundInRange, BoundAbove
<1> QED BY <1>9, <1>10 DEF WalkInv

\* A query for the rows is sent under the boundary in the cache.
LEMMA WalkBounded ==
    ASSUME OneSummary, TypeInv, CacheInv', NEW w \in Walk, WalkInv(w),
           UseCached(w) \/ SummaryLands(w)
    PROVE  WalkInv(w)'
<1> USE BoundaryAssumption
<1>1. w \in Walker BY DEF Walk
<1>2. PICK b \in Boundary : Bounded(w, b) /\ cache'.boundary = b
  <2>1. CASE UseCached(w) BY <2>1, TheVerifier DEF UseCached
  <2>2. CASE SummaryLands(w) BY <1>1, <2>2, BoundaryRead DEF SummaryLands, Answered, TypeInv
  <2> QED BY <2>1, <2>2
<1>3. pc[w] \in {"filter", "summary"} BY DEF UseCached, SummaryLands, Answered
<1>4. UNCHANGED <<rows, found, delivered>> BY DEF UseCached, SummaryLands, database
<1>5. found[w] = {} BY <1>1, <1>3 DEF TypeInv, Phases
<1>6. bounds'[w] = Append(bounds[w], b)
      /\ (pc'[w] = "rows" => Len(bounds'[w]) = Len(Filters[w]) /\ waiting'[w] = Database)
  BY <1>1, <1>2, <1>3, BoundedTypes
<1>7. SkipsNothing(w)' BY <1>4 DEF WalkInv, SkipsNothing, Walked, Passed
<1>8. Complete(w)' BY <1>6 DEF Complete
<1>9. FoundInRange(w)' BY <1>4, <1>5 DEF FoundInRange
<1>10. BoundAbove(w)'
  <2> SUFFICES ASSUME pc'[w] = "rows" PROVE \A n \in delivered'[w] : n < bounds'[w][1]
    BY DEF BoundAbove
  <2>1. bounds[w] \in Seq(Boundary) BY <1>1 DEF TypeInv, TypeOK
  <2>2. bounds'[w][1] = b BY <1>6, <2>1 DEF Walk
  <2> QED BY <1>1, <1>2, <2>2 DEF CacheInv, Covered
<1> QED BY <1>7, <1>8, <1>9, <1>10 DEF WalkInv

\* One step of the system, for one walk.
LEMMA WalkStep ==
    ASSUME OneSummary, TypeInv, TypeInv', CacheInv, CacheInv', [Next]_vars, NEW w \in Walk, WalkInv(w)
    PROVE  WalkInv(w)'
<1> USE BoundaryAssumption DEF database, page, call
<1>0. w \in Walker BY DEF Walk
<1>1. ASSUME NEW n \in Order, NEW p \in Part, NEW d \in Database, Insert(n, p, d) PROVE WalkInv(w)'
  BY <1>1, WalkInsert
<1>2. ASSUME NEW v \in Verifier, NEW b \in Boundary, Publish(v, b) PROVE WalkInv(w)'
  BY <1>2, WalkKept DEF Publish
<1>3. CASE Tick BY <1>3, WalkKept DEF Tick
<1>4. ASSUME NEW f \in flights, ReadSummary(f) \/ SummaryArrives(f) PROVE WalkInv(w)'
  BY <1>4, WalkKept DEF ReadSummary, SummaryArrives
\* A page that ends without being delivered.
<1>5. ASSUME NEW W \in SUBSET Walker, Ended(W, "failed"), delivered' = delivered PROVE WalkInv(w)'
  <2>1. CASE w \in W
    <3>1. rows' = rows /\ pc'[w] = "failed" /\ found'[w] = {}
      BY <1>5, <2>1, EndedTypes DEF TypeInv
    <3>2. SkipsNothing(w)' BY <1>5, <3>1 DEF WalkInv, SkipsNothing, Walked, Passed
    <3> QED BY <3>1, <3>2 DEF WalkInv, Complete, FoundInRange, BoundAbove
  <2>2. CASE w \notin W BY <1>0, <1>5, <2>2, EndedTypes, WalkKept DEF TypeInv
  <2> QED BY <2>1, <2>2
<1>6. ASSUME NEW f \in flights, SummaryFails(f) PROVE WalkInv(w)'
  BY <1>5, <1>6 DEF SummaryFails, TypeInv, TypeOK, Flight
<1>7. ASSUME NEW u \in Walker, RowsFail(u) PROVE WalkInv(w)'
  BY <1>5, <1>7 DEF RowsFail
\* A step of another walk.
<1>8. ASSUME NEW u \in Walker, u # w, Serve(u) PROVE WalkInv(w)'
  <2>1. /\ rows' = rows /\ pc'[w] = pc[w] /\ bounds'[w] = bounds[w] /\ waiting'[w] = waiting[w]
        /\ found'[w] = found[w] /\ delivered'[w] = delivered[w]
    <3>1. CASE Ask(u) \/ AskSummary(u) BY <1>0, <1>8, <3>1 DEF Ask, AskSummary, TypeInv, TypeOK
    <3>2. CASE UseCached(u) \/ SummaryLands(u)
      BY <1>0, <1>8, <3>2 DEF UseCached, SummaryLands, Bounded, TypeInv, TypeOK
    <3>3. ASSUME NEW d \in Database, ReadRows(u, d) PROVE <2>1
      BY <1>0, <1>8, <3>3 DEF ReadRows, TypeInv, TypeOK
    <3>4. CASE PageLands(u)
      <4>1. Ended({u}, "idle") /\ delivered'[w] = delivered[w]
        BY <1>0, <1>8, <3>4 DEF PageLands, TypeInv, TypeOK
      <4> QED BY <1>0, <1>8, <4>1, EndedTypes DEF TypeInv
    <3> QED BY <1>8, <3>1, <3>2, <3>3, <3>4 DEF Serve
  <2> QED BY <2>1, WalkKept
<1>9. CASE Ask(w) \/ AskSummary(w)
  <2>1. found'[w] = {} /\ pc'[w] # "rows" /\ rows' = rows /\ delivered' = delivered
    BY <1>0, <1>9 DEF Ask, AskSummary, TypeInv, TypeOK, Phases
  <2>2. SkipsNothing(w)' BY <2>1 DEF WalkInv, SkipsNothing, Walked, Passed
  <2> QED BY <2>1, <2>2 DEF WalkInv, Complete, FoundInRange, BoundAbove
<1>10. CASE UseCached(w) \/ SummaryLands(w) BY <1>10, WalkBounded
<1>11. ASSUME NEW d \in Database, ReadRows(w, d) PROVE WalkInv(w)' BY <1>11, WalkRead
<1>12. CASE PageLands(w) BY <1>12, WalkPage
<1>13. CASE UNCHANGED vars BY <1>13, WalkKept DEF vars
<1> QED BY <1>1, <1>2, <1>3, <1>4, <1>6, <1>7, <1>8, <1>9, <1>10, <1>11, <1>12, <1>13
    DEF Next, Serve, AnswerSummary, Failure

\* A walk that has received nothing has skipped nothing.
LEMMA InitWalk == Init => \A w \in Walk : WalkInv(w)
<1> SUFFICES ASSUME Init, NEW w \in Walk PROVE WalkInv(w) OBVIOUS
<1>1. w \in Walker BY DEF Walk
<1> QED BY <1>1 DEF Init, WalkInv, SkipsNothing, Walked, Complete, FoundInRange, BoundAbove

\* Where there is one database of summaries, a walk of a query with one filter
\* has received every row it has passed, in either direction, however its
\* pages, failures and boundaries interleave with inserts and other walks.
THEOREM WalkSkipsNothing == ASSUME OneSummary PROVE Spec => []OneFilterSkipsNothing
<1> DEFINE I == \A w \in Walk : WalkInv(w)
<1>1. Init => I BY InitWalk
<1>2. TypeInv /\ TypeInv' /\ CacheInv /\ CacheInv' /\ I /\ [Next]_vars => I' BY WalkStep
<1>3. I => OneFilterSkipsNothing BY DEF OneFilterSkipsNothing, Walk, WalkInv
<1> QED BY <1>1, <1>2, <1>3, AlwaysTypeInv, AlwaysCache, PTL DEF Spec
=============================================================================
