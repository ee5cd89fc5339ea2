------------------------- MODULE ActiveQueries_proofs -------------------------
(***************************************************************************)
(* Proofs about ActiveQueries.  Two facts carry them: a running flight is  *)
(* the item of its key, so that nobody starts a second one; and the drain  *)
(* that is planned is never far behind an item that has landed, because    *)
(* each look through the items either removed it or came before its time.  *)
(***************************************************************************)
EXTENDS ActiveQueries, TLAPS

\* A running flight is the item of its key.
RunningIsItem == \A f \in Request : flight[f] = "running" => items[KeyOf[f]] = f

\* What the times of a flight and of its request say of each other.
TimesAgree ==
    \A f \in Request :
        /\ asked[f] <= now /\ landedAt[f] <= now
        /\ asked[f] = 0 => flight[f] = "none" /\ source[f] = NoOne
        /\ flight[f] = "landed" => landedAt[f] > 0
        /\ flight[f] # "landed" => landedAt[f] = 0 /\ drainTime[f] = 0
        /\ flight[f] = "landed" /\ TTL > 0 => drainTime[f] = asked[f] + TTL

\* The next look through the items is at most one resultTTL away.
PlannedSoon == planned <= now + TTL

\* An item that has landed is looked at in time.
PlannedForItems ==
    \A k \in Key : items[k] # NoOne /\ flight[items[k]] = "landed" =>
        \/ planned <= asked[items[k]] + 2 * TTL
        \/ planned <= landedAt[items[k]] + TTL

IInv ==
    /\ TypeOK /\ ItemsAreUsable /\ RunningIsItem /\ TimesAgree
    /\ PlannedSoon /\ PlannedForItems /\ AgeIsBounded

\* A cut array of rows is an array of rows.
LEMMA CutToType == \A n \in 0..Limit : CutTo(n) \in 0..Limit
  BY ActiveQueriesAssumption DEF CutTo

\* No query has been sent.
LEMMA InitIInv == Init => IInv
<1> SUFFICES ASSUME Init PROVE IInv OBVIOUS
<1> USE ActiveQueriesAssumption
<1>1. TypeOK
  <2>1. NoPage \in [rows : 0..Limit, more : BOOLEAN, made : BOOLEAN] BY DEF NoPage
  <2>2. 1 \in Time BY DEF Time
  <2> QED BY <2>1, <2>2 DEF Init, TypeOK
<1>2. ItemsAreUsable /\ PlannedForItems BY DEF Init, ItemsAreUsable, PlannedForItems
<1>3. RunningIsItem /\ TimesAgree BY DEF Init, RunningIsItem, TimesAgree
<1>4. PlannedSoon BY DEF Init, PlannedSoon
<1>5. AgeIsBounded BY DEF Init, AgeIsBounded, Hits
<1> QED BY <1>1, <1>2, <1>3, <1>4, <1>5 DEF IInv

\* Time passes: a drain that is due removes what is too old.
LEMMA TickStep == IInv /\ Tick => IInv'
<1> SUFFICES ASSUME IInv, Tick PROVE IInv' OBVIOUS
<1> USE ActiveQueriesAssumption DEF IInv, Tick
<1>1. now \in Nat /\ now' \in Nat /\ now <= now' BY DEF TypeOK, Time
<1>2. TypeOK' BY DEF TypeOK, Time
<1>3. (ItemsAreUsable /\ RunningIsItem /\ PlannedForItems)'
  BY DEF ItemsAreUsable, RunningIsItem, PlannedForItems
<1>4. TimesAgree'
  <2>1. \A f \in Request : asked[f] \in Nat /\ landedAt[f] \in Nat BY DEF TypeOK, Time
  <2> QED BY <1>1, <2>1 DEF TimesAgree
<1>5. PlannedSoon' BY <1>1 DEF PlannedSoon, TypeOK
<1>6. AgeIsBounded' BY DEF AgeIsBounded, Hits
<1> QED BY <1>2, <1>3, <1>4, <1>5, <1>6

\* What a look through the items leaves: usable items, every running flight,
\* and no landed flight that is over time.
LEMMA KeptIsUsable ==
    ASSUME IInv
    PROVE  /\ Kept \in [Key -> Request \cup {NoOne}]
           /\ \A k \in Key : Kept[k] \in {items[k], NoOne}
           /\ \A f \in Request : flight[f] = "running" => Kept[KeyOf[f]] = f
           /\ \A k \in Key : DrainDue /\ Kept[k] # NoOne /\ flight[Kept[k]] = "landed" =>
                                 now <= asked[Kept[k]] + TTL
<1> USE ActiveQueriesAssumption DEF IInv
<1>1. Kept \in [Key -> Request \cup {NoOne}] BY DEF TypeOK, Kept
<1>2. \A k \in Key : Kept[k] \in {items[k], NoOne} BY DEF TypeOK, Kept
<1>3. ASSUME NEW f \in Request, flight[f] = "running" PROVE Kept[KeyOf[f]] = f
  <2>1. items[KeyOf[f]] = f BY <1>3 DEF RunningIsItem
  <2>2. drainTime[f] = 0 BY <1>3 DEF TimesAgree
  <2> QED BY <2>1, <2>2 DEF Kept, OverTime
<1>4. ASSUME NEW k \in Key, DrainDue, Kept[k] # NoOne, flight[Kept[k]] = "landed"
      PROVE  now <= asked[Kept[k]] + TTL
  <2>1. Kept[k] = items[k] /\ items[k] \in Request BY <1>2, <1>4 DEF TypeOK
  <2>2. ~OverTime(items[k]) BY <1>4, <2>1 DEF Kept
  <2>3. TTL > 0 BY <1>4 DEF DrainDue
  <2>4. drainTime[items[k]] = asked[items[k]] + TTL BY <1>4, <2>1, <2>3 DEF TimesAgree
  <2>5. asked[items[k]] \in Nat /\ now \in Nat BY <2>1 DEF TypeOK, Time
  <2> QED BY <2>1, <2>2, <2>3, <2>4, <2>5 DEF OverTime
<1> QED BY <1>1, <1>2, <1>3, <1>4
\* The times are natural numbers.
LEMMA TimeType ==
    ASSUME TypeOK
    PROVE  /\ now \in Nat /\ now > 0 /\ planned \in Nat /\ TTL \in Nat
           /\ \A f \in Request : asked[f] \in Nat /\ landedAt[f] \in Nat /\ drainTime[f] \in Nat
  BY ActiveQueriesAssumption DEF TypeOK, Time

\* query() joins the flight of its key, takes a kept result, or starts a flight.
LEMMA QueryStep == ASSUME IInv, NEW r \in Request, Query(r) PROVE IInv'
<1> USE ActiveQueriesAssumption, TimeType DEF IInv
<1> DEFINE k == KeyOf[r]
<1>1. /\ k \in Key /\ asked[r] = 0 /\ asked' = [asked EXCEPT ![r] = now]
      /\ planned' = IF DrainDue THEN now + TTL ELSE planned
      /\ UNCHANGED <<now, drainTime, landedAt, found, rows, page>>
  BY DEF Query
<1>2. flight[r] = "none" /\ source[r] = NoOne /\ landedAt[r] = 0 /\ drainTime[r] = 0
  BY <1>1 DEF TimesAgree
<1>3. \/ /\ Kept[k] # NoOne /\ items' = Kept
         /\ source' = [source EXCEPT ![r] = Kept[k]] /\ flight' = flight
      \/ /\ Kept[k] = NoOne /\ items' = [Kept EXCEPT ![k] = r]
         /\ source' = [source EXCEPT ![r] = r] /\ flight' = [flight EXCEPT ![r] = "running"]
  BY DEF Query
<1>4. TypeOK'
  <2>1. items' \in [Key -> Request \cup {NoOne}] BY <1>1, <1>3, KeptIsUsable
  <2>2. source' \in [Request -> Request \cup {NoOne}]
    BY <1>1, <1>3, KeptIsUsable DEF TypeOK
  <2>3. flight' \in [Request -> {"none", "running", "landed", "failed"}]
    BY <1>3 DEF TypeOK
  <2>4. planned' \in Nat BY <1>1
  <2>5. asked' \in [Request -> {0} \cup Time] BY <1>1 DEF TypeOK
  <2> QED BY <1>1, <2>1, <2>2, <2>3, <2>4, <2>5 DEF TypeOK
<1>5. \A f \in Request : f # r => flight'[f] = flight[f] /\ asked'[f] = asked[f]
                                   /\ source'[f] = source[f]
  BY <1>1, <1>3 DEF TypeOK
<1>6. \A j \in Key : items'[j] # NoOne =>
          \/ items'[j] = items[j] /\ items'[j] = Kept[j]
          \/ j = k /\ items'[j] = r /\ flight'[r] = "running"
  BY <1>1, <1>3, KeptIsUsable DEF TypeOK
<1>7. ItemsAreUsable'
  <2> SUFFICES ASSUME NEW j \in Key, items'[j] # NoOne
               PROVE  /\ KeyOf[items'[j]] = j
                      /\ \/ flight'[items'[j]] = "running"
                         \/ flight'[items'[j]] = "landed" /\ TTL > 0
    BY DEF ItemsAreUsable
  <2>1. CASE items'[j] = r BY <1>2, <1>6, <2>1 DEF ItemsAreUsable
  <2>2. CASE items'[j] # r
    <3>1. items'[j] = items[j] /\ items[j] \in Request BY <1>6, <2>2 DEF TypeOK
    <3> QED BY <1>5, <2>2, <3>1 DEF ItemsAreUsable
  <2> QED BY <2>1, <2>2
<1>8. RunningIsItem'
  <2> SUFFICES ASSUME NEW f \in Request, flight'[f] = "running" PROVE items'[KeyOf[f]] = f
    BY DEF RunningIsItem
  <2>1. CASE f = r BY <1>1, <1>2, <1>3, <2>1, KeptIsUsable
  <2>2. CASE f # r
    <3>1. Kept[KeyOf[f]] = f /\ f # NoOne BY <1>5, <2>2, KeptIsUsable
    <3>2. KeyOf[f] \in Key OBVIOUS
    <3> QED BY <1>1, <1>3, <3>1, <3>2, KeptIsUsable
  <2> QED BY <2>1, <2>2
<1>9. TimesAgree'
  <2> SUFFICES ASSUME NEW f \in Request
               PROVE  /\ asked'[f] <= now' /\ landedAt'[f] <= now'
                      /\ asked'[f] = 0 => flight'[f] = "none" /\ source'[f] = NoOne
                      /\ flight'[f] = "landed" => landedAt'[f] > 0
                      /\ flight'[f] # "landed" => landedAt'[f] = 0 /\ drainTime'[f] = 0
                      /\ flight'[f] = "landed" /\ TTL > 0 => drainTime'[f] = asked'[f] + TTL
    BY DEF TimesAgree
  <2>1. CASE f = r
    <3>1. asked'[f] = now BY <1>1, <2>1 DEF TypeOK
    <3>2. flight'[f] \in {"none", "running"} BY <1>2, <1>3, <2>1 DEF TypeOK
    <3> QED BY <1>1, <1>2, <2>1, <3>1, <3>2
  <2>2. CASE f # r BY <1>1, <1>5, <2>2 DEF TimesAgree
  <2> QED BY <2>1, <2>2
<1>10. PlannedSoon' BY <1>1 DEF PlannedSoon
<1>11. PlannedForItems'
  <2> SUFFICES ASSUME NEW j \in Key, items'[j] # NoOne, flight'[items'[j]] = "landed"
               PROVE  \/ planned' <= asked'[items'[j]] + 2 * TTL
                      \/ planned' <= landedAt'[items'[j]] + TTL
    BY DEF PlannedForItems
  <2>1. PICK f \in Request : f = items'[j] BY <1>4 DEF TypeOK
  <2>2. f # r /\ f = items[j] /\ f = Kept[j]
    BY <1>2, <1>3, <1>6, <2>1 DEF TypeOK
  <2>3. flight[f] = "landed" /\ asked'[f] = asked[f] /\ landedAt'[f] = landedAt[f]
    BY <1>1, <1>5, <2>1, <2>2
  <2>4. CASE DrainDue
    <3>1. now <= asked[f] + TTL BY <2>1, <2>2, <2>3, <2>4, KeptIsUsable
    <3>2. planned' = now + TTL BY <1>1, <2>4
    <3> QED BY <2>1, <2>3, <3>1, <3>2
  <2>5. CASE ~DrainDue
    <3>1. planned' = planned BY <1>1, <2>5
    <3>2. planned <= asked[f] + 2 * TTL \/ planned <= landedAt[f] + TTL
      BY <2>1, <2>2, <2>3 DEF PlannedForItems
    <3> QED BY <2>1, <2>3, <3>1, <3>2
  <2> QED BY <2>4, <2>5
<1>12. AgeIsBounded'
  <2> SUFFICES ASSUME NEW q \in Request, source'[q] # NoOne, landedAt'[source'[q]] # 0,
                      asked'[q] > landedAt'[source'[q]]
               PROVE  \/ asked'[q] - asked'[source'[q]] < 2 * TTL
                      \/ asked'[q] - landedAt'[source'[q]] < TTL
    BY DEF AgeIsBounded, Hits
  <2>0. PICK f \in Request : f = source'[q] BY <1>4 DEF TypeOK
  <2>1. landedAt[f] # 0 BY <1>1, <2>0
  <2>2. flight[f] = "landed" BY <2>1 DEF TimesAgree
  <2>3. f # r BY <1>2, <2>1
  <2>4. asked'[f] = asked[f] BY <1>5, <2>1, <2>3
  <2>5. CASE q # r
    <3>1. source'[q] = source[q] /\ asked'[q] = asked[q] BY <1>5, <2>5
    <3> QED BY <1>1, <2>0, <2>1, <2>4, <3>1 DEF AgeIsBounded, Hits
  <2>6. CASE q = r
    <3>1. asked'[q] = now BY <1>1, <2>6 DEF TypeOK
    <3>2. f = Kept[k] /\ Kept[k] # NoOne BY <1>3, <2>0, <2>3, <2>6 DEF TypeOK
    <3>3. f = items[k] BY <1>1, <3>2, KeptIsUsable
    <3>4. TTL > 0 BY <1>1, <2>1, <2>2, <3>2, <3>3 DEF ItemsAreUsable
    <3>5. CASE DrainDue
      <4>1. now <= asked[f] + TTL BY <1>1, <2>2, <3>2, <3>5, KeptIsUsable
      <4> QED BY <2>0, <2>4, <3>1, <3>4, <4>1
    <3>6. CASE ~DrainDue
      <4>1. now < planned BY <3>4, <3>6 DEF DrainDue
      <4>2. planned <= asked[f] + 2 * TTL \/ planned <= landedAt[f] + TTL
        BY <1>1, <2>2, <3>2, <3>3 DEF PlannedForItems
      <4>3. landedAt'[f] = landedAt[f] BY <1>1
      <4> QED BY <2>0, <2>4, <3>1, <4>1, <4>2, <4>3
    <3> QED BY <3>5, <3>6
  <2> QED BY <2>5, <2>6
<1> QED BY <1>4, <1>7, <1>8, <1>9, <1>10, <1>11, <1>12

\* The items when a flight ends: unchanged, or without the item of its key.
LEMMA EndedItems ==
    ASSUME IInv, NEW f \in Request, flight[f] = "running",
           items' \in {items, [items EXCEPT ![KeyOf[f]] = NoOne]}
    PROVE  /\ items' \in [Key -> Request \cup {NoOne}]
           /\ \A k \in Key : items'[k] \in {items[k], NoOne}
           /\ \A g \in Request : g # f /\ flight[g] = "running" => items'[KeyOf[g]] = g
           /\ items' # items => \A k \in Key : items'[k] # f
<1> USE ActiveQueriesAssumption DEF IInv
<1>1. items' \in [Key -> Request \cup {NoOne}] BY DEF TypeOK
<1>2. \A k \in Key : items'[k] \in {items[k], NoOne} BY DEF TypeOK
<1>3. ASSUME NEW g \in Request, g # f, flight[g] = "running" PROVE items'[KeyOf[g]] = g
  <2>1. items[KeyOf[g]] = g /\ items[KeyOf[f]] = f BY <1>3 DEF RunningIsItem
  <2> QED BY <1>3, <2>1 DEF TypeOK
<1>4. ASSUME items' # items, NEW k \in Key PROVE items'[k] # f
  <2>1. items[k] = f => k = KeyOf[f] BY DEF ItemsAreUsable
  <2> QED BY <1>4, <2>1 DEF TypeOK
<1> QED BY <1>1, <1>2, <1>3, <1>4

\* A flight that lands is kept if there is a TTL, and removed otherwise.
LEMMA LandStep == ASSUME IInv, NEW f \in Request, Land(f) PROVE IInv'
<1> USE ActiveQueriesAssumption, TimeType DEF IInv
<1>1. /\ flight[f] = "running" /\ flight' = [flight EXCEPT ![f] = "landed"]
      /\ landedAt' = [landedAt EXCEPT ![f] = now]
      /\ \E n \in 0..Limit : found' = [found EXCEPT ![f] = n] /\ rows' = [rows EXCEPT ![f] = n]
      /\ UNCHANGED <<now, planned, asked, source, page>>
  BY DEF Land
<1>2. \/ /\ TTL > 0 /\ items' = items
         /\ drainTime' = [drainTime EXCEPT ![f] = asked[f] + TTL]
      \/ /\ ~(TTL > 0) /\ items' = [items EXCEPT ![KeyOf[f]] = NoOne]
         /\ drainTime' = drainTime
  BY DEF Land
<1>3. items[KeyOf[f]] = f /\ f # NoOne BY <1>1 DEF RunningIsItem
<1>4. TypeOK'
  <2>1. items' \in [Key -> Request \cup {NoOne}] BY <1>1, <1>2, EndedItems
  <2>2. drainTime' \in [Request -> Nat] BY <1>2 DEF TypeOK
  <2>3. found' \in [Request -> 0..Limit] /\ rows' \in [Request -> 0..Limit]
    <3>1. PICK n \in 0..Limit : /\ found' = [found EXCEPT ![f] = n]
                                /\ rows' = [rows EXCEPT ![f] = n]
      BY <1>1
    <3> QED BY <3>1 DEF TypeOK
  <2>4. landedAt' \in [Request -> {0} \cup Time] BY <1>1 DEF TypeOK
  <2>5. flight' \in [Request -> {"none", "running", "landed", "failed"}] BY <1>1 DEF TypeOK
  <2> QED BY <1>1, <2>1, <2>2, <2>3, <2>4, <2>5 DEF TypeOK
<1>5. \A g \in Request : g # f => /\ flight'[g] = flight[g] /\ landedAt'[g] = landedAt[g]
                                  /\ drainTime'[g] = drainTime[g]
  BY <1>1, <1>2 DEF TypeOK
<1>6. flight'[f] = "landed" /\ landedAt'[f] = now BY <1>1 DEF TypeOK
<1>7. \A k \in Key : items'[k] \in {items[k], NoOne} BY <1>1, <1>2, EndedItems
<1>8. ItemsAreUsable'
  <2> SUFFICES ASSUME NEW k \in Key, items'[k] # NoOne
               PROVE  /\ KeyOf[items'[k]] = k
                      /\ \/ flight'[items'[k]] = "running"
                         \/ flight'[items'[k]] = "landed" /\ TTL > 0
    BY DEF ItemsAreUsable
  <2>1. PICK g \in Request : g = items'[k] BY <1>4 DEF TypeOK
  <2>2. g = items[k] BY <1>7, <2>1
  <2>3. CASE g = f
    <3>1. TTL > 0
      <4> SUFFICES ASSUME ~(TTL > 0) PROVE FALSE OBVIOUS
      <4>1. items' = [items EXCEPT ![KeyOf[f]] = NoOne] BY <1>2
      <4>2. items' # items BY <1>3, <4>1 DEF TypeOK
      <4> QED BY <1>1, <2>1, <2>3, <4>1, <4>2, EndedItems
    <3> QED BY <1>6, <2>1, <2>2, <2>3, <3>1 DEF ItemsAreUsable
  <2>4. CASE g # f BY <1>5, <2>1, <2>2, <2>4 DEF ItemsAreUsable
  <2> QED BY <2>3, <2>4
<1>9. RunningIsItem'
  <2> SUFFICES ASSUME NEW g \in Request, flight'[g] = "running" PROVE items'[KeyOf[g]] = g
    BY DEF RunningIsItem
  <2>1. g # f /\ flight[g] = "running" BY <1>5, <1>6
  <2> QED BY <1>1, <1>2, <2>1, EndedItems
<1>10. TimesAgree'
  <2> SUFFICES ASSUME NEW g \in Request
               PROVE  /\ asked'[g] <= now' /\ landedAt'[g] <= now'
                      /\ asked'[g] = 0 => flight'[g] = "none" /\ source'[g] = NoOne
                      /\ flight'[g] = "landed" => landedAt'[g] > 0
                      /\ flight'[g] # "landed" => landedAt'[g] = 0 /\ drainTime'[g] = 0
                      /\ flight'[g] = "landed" /\ TTL > 0 => drainTime'[g] = asked'[g] + TTL
    BY DEF TimesAgree
  <2>1. CASE g = f
    <3>1. TTL > 0 => drainTime'[f] = asked[f] + TTL BY <1>2 DEF TypeOK
    <3> QED BY <1>1, <1>6, <2>1, <3>1 DEF TimesAgree
  <2>2. CASE g # f BY <1>1, <1>5, <2>2 DEF TimesAgree
  <2> QED BY <2>1, <2>2
<1>11. PlannedSoon' BY <1>1 DEF PlannedSoon
<1>12. PlannedForItems'
  <2> SUFFICES ASSUME NEW k \in Key, items'[k] # NoOne, flight'[items'[k]] = "landed"
               PROVE  \/ planned' <= asked'[items'[k]] + 2 * TTL
                      \/ planned' <= landedAt'[items'[k]] + TTL
    BY DEF PlannedForItems
  <2>1. PICK g \in Request : g = items'[k] BY <1>4 DEF TypeOK
  <2>2. g = items[k] BY <1>7, <2>1
  <2>3. CASE g = f BY <1>1, <1>6, <2>1, <2>3 DEF PlannedSoon
  <2>4. CASE g # f BY <1>1, <1>5, <2>1, <2>2, <2>4 DEF PlannedForItems
  <2> QED BY <2>3, <2>4
<1>13. AgeIsBounded'
  <2> SUFFICES ASSUME NEW q \in Request, source'[q] # NoOne, landedAt'[source'[q]] # 0,
                      asked'[q] > landedAt'[source'[q]]
               PROVE  \/ asked'[q] - asked'[source'[q]] < 2 * TTL
                      \/ asked'[q] - landedAt'[source'[q]] < TTL
    BY DEF AgeIsBounded, Hits
  <2>1. PICK g \in Request : g = source'[q] BY <1>4 DEF TypeOK
  <2>2. g # f
    <3>1. asked'[q] <= now BY <1>1 DEF TimesAgree
    <3> QED BY <1>1, <1>6, <2>1, <3>1
  <2> QED BY <1>1, <1>5, <2>1, <2>2 DEF AgeIsBounded, Hits
<1> QED BY <1>4, <1>8, <1>9, <1>10, <1>11, <1>12, <1>13

\* A flight that fails is removed.
LEMMA FailStep == ASSUME IInv, NEW f \in Request, Fail(f) PROVE IInv'
<1> USE ActiveQueriesAssumption, TimeType DEF IInv
<1>1. /\ flight[f] = "running" /\ flight' = [flight EXCEPT ![f] = "failed"]
      /\ items' = [items EXCEPT ![KeyOf[f]] = NoOne]
      /\ UNCHANGED <<now, planned, drainTime, landedAt, found, rows, asked, source, page>>
  BY DEF Fail
<1>2. items[KeyOf[f]] = f /\ f # NoOne BY <1>1 DEF RunningIsItem
<1>3. items' # items BY <1>1, <1>2 DEF TypeOK
<1>4. TypeOK'
  <2>1. items' \in [Key -> Request \cup {NoOne}] BY <1>1, EndedItems
  <2> QED BY <1>1, <2>1 DEF TypeOK
<1>5. \A g \in Request : flight'[g] = IF g = f THEN "failed" ELSE flight[g]
  BY <1>1 DEF TypeOK
<1>6. \A k \in Key : items'[k] # NoOne => items'[k] = items[k] /\ items'[k] # f
  BY <1>1, <1>3, EndedItems
<1>7. (ItemsAreUsable /\ PlannedForItems)'
  BY <1>1, <1>4, <1>5, <1>6 DEF ItemsAreUsable, PlannedForItems, TypeOK
<1>8. RunningIsItem' BY <1>1, <1>5, EndedItems DEF RunningIsItem
<1>9. TimesAgree' BY <1>1, <1>5 DEF TimesAgree
<1>10. (PlannedSoon /\ AgeIsBounded)' BY <1>1 DEF PlannedSoon, AgeIsBounded, Hits
<1> QED BY <1>4, <1>7, <1>8, <1>9, <1>10

\* A page is cut in place out of a landed result.
LEMMA PageStep == ASSUME IInv, NEW r \in Request, Page(r) PROVE IInv'
<1> USE ActiveQueriesAssumption DEF IInv
<1>1. source[r] \in Request BY DEF Page, TypeOK
<1>2. CutTo(rows[source[r]]) \in 0..Limit BY <1>1, CutToType DEF TypeOK
<1>3. TypeOK'
  <2>1. rows' \in [Request -> 0..Limit] BY <1>1, <1>2 DEF Page, TypeOK
  <2>2. (rows[source[r]] >= Limit) \in BOOLEAN BY <1>1 DEF TypeOK
  <2>3. [rows |-> CutTo(rows[source[r]]), more |-> rows[source[r]] >= Limit, made |-> TRUE]
            \in [rows : 0..Limit, more : BOOLEAN, made : BOOLEAN]
    BY <1>2, <2>2
  <2>4. page' \in [Request -> [rows : 0..Limit, more : BOOLEAN, made : BOOLEAN]]
    BY <2>3 DEF Page, TypeOK
  <2> QED BY <2>1, <2>4 DEF Page, TypeOK
<1>4. (ItemsAreUsable /\ RunningIsItem /\ TimesAgree /\ PlannedSoon /\ PlannedForItems
       /\ AgeIsBounded)'
  BY DEF Page, ItemsAreUsable, RunningIsItem, TimesAgree, PlannedSoon, PlannedForItems,
         AgeIsBounded, Hits
<1> QED BY <1>3, <1>4

\* Every step keeps the invariant.
LEMMA NextIInv == IInv /\ [Next]_vars => IInv'
<1> SUFFICES ASSUME IInv, [Next]_vars PROVE IInv' OBVIOUS
<1>1. CASE Tick BY <1>1, TickStep
<1>2. ASSUME NEW r \in Request, Query(r) \/ Land(r) \/ Fail(r) \/ Page(r) PROVE IInv'
  BY <1>2, QueryStep, LandStep, FailStep, PageStep
<1>3. CASE UNCHANGED vars
  BY <1>3 DEF vars, IInv, TypeOK, ItemsAreUsable, RunningIsItem, TimesAgree, PlannedSoon,
              PlannedForItems, AgeIsBounded, Hits
<1> QED BY <1>1, <1>2, <1>3 DEF Next

\* The invariant holds of all behaviours.
LEMMA Invariance == Spec => []IInv
  BY InitIInv, NextIInv, PTL DEF Spec

\* The items, the times and the pages keep their types; the arrays of rows that
\* the pages are cut out of never shrink below zero.
THEOREM TypeCorrect == Spec => []TypeOK
  BY Invariance, PTL DEF IInv

\* ActiveQueries never runs the same query twice at a time, for any number of
\* requests and keys, with or without resultTTL.
THEOREM NeverTwiceAtATime == Spec => []Deduplicated
<1>1. IInv => Deduplicated BY DEF IInv, RunningIsItem, Deduplicated
<1> QED BY <1>1, Invariance, PTL

\* What query() finds among the items is a flight of its own key that runs, or
\* has landed under a resultTTL; a failure is never found.
THEOREM ItemsUsable == Spec => []ItemsAreUsable
  BY Invariance, PTL DEF IInv

\* A kept result is served for less than two resultTTL from the start of its
\* query, or for less than one from its end.
THEOREM AgeBounded == Spec => []AgeIsBounded
  BY Invariance, PTL DEF IInv

-----------------------------------------------------------------------------
(* Pages that share an array *)

\* Cutting an array again changes nothing, so that what a page gets out of it
\* does not depend on who has cut it; pages are made of landed flights only.
PagesAgree ==
    /\ \A f \in Request : flight[f] = "landed" => CutTo(rows[f]) = CutTo(found[f])
    /\ \A r \in Request : page[r].made =>
          source[r] # NoOne /\ flight[source[r]] = "landed" /\ page[r].rows = CutTo(found[source[r]])

\* A second cut changes nothing.
LEMMA CutTwice == \A n \in 0..Limit : CutTo(CutTo(n)) = CutTo(n)
  BY ActiveQueriesAssumption DEF CutTo

\* A request that asks, or a flight that ends, has no page and makes none.
LEMMA PagesAgreeQuery ==
    ASSUME IInv, PagesAgree, NEW r \in Request, Query(r) PROVE PagesAgree'
<1>1. ~page[r].made
  <2>1. source[r] = NoOne BY DEF Query, IInv, TimesAgree
  <2> QED BY <2>1 DEF PagesAgree
<1>2. \A q \in Request : q # r => flight'[q] = flight[q] /\ source'[q] = source[q]
  BY DEF Query, IInv, TypeOK
<1>3. flight[r] # "landed" /\ flight'[r] # "landed"
  BY DEF Query, IInv, TimesAgree, TypeOK
<1>4. UNCHANGED <<rows, found, page>> BY DEF Query
<1>5. \A q \in Request : source[q] \in Request \cup {NoOne} BY DEF IInv, TypeOK
<1> QED BY <1>1, <1>2, <1>3, <1>4, <1>5 DEF PagesAgree

\* The agreement of the pages is kept by what changes neither rows nor pages.
LEMMA PagesAgreeEnd ==
    ASSUME IInv, PagesAgree, NEW f \in Request, Land(f) \/ Fail(f) PROVE PagesAgree'
<1>1. flight[f] = "running" /\ UNCHANGED <<source, page>> BY DEF Land, Fail
<1>2. \A q \in Request : q # f => /\ flight'[q] = flight[q] /\ rows'[q] = rows[q]
                                  /\ found'[q] = found[q]
  BY DEF Land, Fail, IInv, TypeOK
<1>3. flight'[f] = "landed" => rows'[f] = found'[f]
  BY DEF Land, Fail, IInv, TypeOK
<1>4. \A q \in Request : page[q].made => source[q] \in Request /\ source[q] # f
  BY <1>1 DEF PagesAgree, IInv, TypeOK
<1> QED BY <1>1, <1>2, <1>3, <1>4 DEF PagesAgree

\* A page is cut out of the array of its flight.
LEMMA PagesAgreePage ==
    ASSUME IInv, PagesAgree, NEW r \in Request, Page(r) PROVE PagesAgree'
<1> DEFINE f == source[r]
<1>1. f \in Request /\ f # NoOne /\ flight[f] = "landed" BY DEF Page, IInv, TypeOK
<1>2. UNCHANGED <<flight, found, source>> BY DEF Page
<1>3. CutTo(rows[f]) = CutTo(found[f]) /\ rows[f] \in 0..Limit
  BY <1>1 DEF PagesAgree, IInv, TypeOK
<1>4. rows'[f] = CutTo(rows[f]) /\ \A q \in Request : q # f => rows'[q] = rows[q]
  BY <1>1 DEF Page, IInv, TypeOK
<1>5. /\ page'[r].rows = CutTo(rows[f])
      /\ \A q \in Request : q # r => page'[q] = page[q]
  BY <1>1 DEF Page, IInv, TypeOK
<1>6. CutTo(rows'[f]) = CutTo(found[f]) BY <1>3, <1>4, CutTwice
<1> HIDE DEF f
<1>7. \A q \in Request : flight'[q] = "landed" => CutTo(rows'[q]) = CutTo(found'[q])
  BY <1>2, <1>4, <1>6 DEF PagesAgree
<1>8. \A q \in Request : page'[q].made =>
         source'[q] # NoOne /\ flight'[source'[q]] = "landed" /\ page'[q].rows = CutTo(found'[source'[q]])
  BY <1>1, <1>2, <1>3, <1>5 DEF PagesAgree, f
<1> QED BY <1>7, <1>8 DEF PagesAgree

\* Requests that share a flight get pages that are whole: as many rows as the
\* database returned, up to the size of a page, in whatever order and however often
\* the shared array is cut in place (processPaginatedQueryResult()).
THEOREM SharedPagesAreWhole == Spec => []PagesAreWhole
<1>1. Init => PagesAgree BY DEF Init, PagesAgree, NoPage
<1>2. IInv /\ PagesAgree /\ [Next]_vars => PagesAgree'
  <2> SUFFICES ASSUME IInv, PagesAgree, [Next]_vars PROVE PagesAgree' OBVIOUS
  <2>1. ASSUME NEW r \in Request, Query(r) \/ Land(r) \/ Fail(r) \/ Page(r) PROVE PagesAgree'
    BY <2>1, PagesAgreeQuery, PagesAgreeEnd, PagesAgreePage
  <2>2. CASE Tick \/ UNCHANGED vars BY <2>2 DEF Tick, vars, PagesAgree
  <2> QED BY <2>1, <2>2 DEF Next
<1>3. ASSUME IInv, PagesAgree PROVE PagesAreWhole
  <2> SUFFICES ASSUME NEW r \in Request, page[r].made
               PROVE  page[r].rows = IF found[source[r]] = Limit THEN Limit - 1 ELSE found[source[r]]
    BY DEF PagesAreWhole
  <2>1. source[r] \in Request BY <1>3 DEF PagesAgree, IInv, TypeOK
  <2>2. found[source[r]] \in 0..Limit BY <1>3, <2>1 DEF IInv, TypeOK
  <2>3. found[source[r]] >= Limit <=> found[source[r]] = Limit BY <2>2, ActiveQueriesAssumption
  <2>4. page[r].rows = CutTo(found[source[r]]) BY <1>3 DEF PagesAgree
  <2> QED BY <2>3, <2>4 DEF CutTo
<1> QED BY <1>1, <1>2, <1>3, Invariance, PTL DEF Spec
=============================================================================
