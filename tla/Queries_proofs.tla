----------------------------- MODULE Queries_proofs -----------------------------
(***************************************************************************)
(* Proofs about Queries, for any databases, documents, filters, joins and  *)
(* requests.                                                               *)
(***************************************************************************)
EXTENDS Queries, Loops, TLAPS, FiniteSetTheorems

-----------------------------------------------------------------------------
(* The invariant *)

\* A list of documents of a collection.
Lists(s, coll) == IsSeq(s) /\ \A i \in DOMAIN s : IsDocument(s[i]) /\ s[i].coll = coll

\* What is read for a request, and found, are documents of the collection asked for.
ReadRight(r) ==
    /\ phase[r] # "idle" => asked[r] \in Asks[r] /\ IsFiniteSet(Find!ExtractIdFilter(filter[r]))
    /\ phase[r] = "idle" => reads[r] = Find!NoReads /\ records[r] = Null
    /\ IsSeq(reads[r]) /\ DOMAIN reads[r] = 1..Databases
    /\ \A db \in 1..Databases :
          reads[r][db] # Null /\ asked[r].fields = <<>> => Lists(reads[r][db], asked[r].coll)
    /\ records[r] # Null => Lists(records[r], asked[r].coll)

FindDomains ==
    /\ DOMAIN phase = Request /\ DOMAIN asked = Request /\ DOMAIN filter = Request
    /\ DOMAIN reads = Request /\ DOMAIN records = Request

FindInv ==
    /\ DOMAIN stored = 1..Databases /\ \A db \in 1..Databases : AreDocuments(stored[db])
    /\ FindDomains
    /\ \A r \in Request : ReadRight(r)

\* A place in a heap has a record that is referred to by a value.
IsJoined(heap, place, value, ref) ==
    /\ place \in DOMAIN heap /\ heap[place].doc.coll = ref.collection
    /\ value \in Join!ToSet(Join!Values(heap[place].doc, ref.refOn))

\* What a record has got for a join field are the records it refers to.
GotRight(heap, o, field) ==
    LET doc == heap[o].doc
        ref == Join!JoinFields[doc.coll][field]
        got == heap[o].joins[field]
    IN /\ Join!Field(doc, ref.on) # Null
       /\ IF ref.on = "out_msgs"
          THEN /\ DOMAIN got = DOMAIN doc.out_msgs
               /\ \A i \in DOMAIN got : got[i] # Null => IsJoined(heap, got[i], doc.out_msgs[i], ref)
          ELSE IsJoined(heap, got, doc[ref.on], ref)

IsHeap(heap) ==
    /\ IsSeq(heap)
    /\ \A o \in DOMAIN heap :
          /\ DOMAIN heap[o] = {"doc", "joins", "selection"}
          /\ IsDocument(heap[o].doc) /\ heap[o].selection \in Selections
          /\ \A field \in DOMAIN heap[o].joins : GotRight(heap, o, field)

\* A frame has places of records of its collection, and joins of a selection.
IsFrame(heap, frame) ==
    /\ DOMAIN frame = {"coll", "records", "selection"}
    /\ frame.records \in Seq(DOMAIN heap)
    /\ \A i \in DOMAIN frame.records : heap[frame.records[i]].doc.coll = frame.coll
    /\ IsSeq(frame.selection) /\ \A i \in DOMAIN frame.selection : frame.selection[i].selection \in Selections

AreFrames(heap, all) == IsSeq(all) /\ \A i \in DOMAIN all : IsFrame(heap, all[i])

\* The records of a join so far, of its collection and for its selection.
AreFetched(heap, places, coll, selection) ==
    /\ places \in Seq(DOMAIN heap)
    /\ \A i \in DOMAIN places : heap[places[i]].doc.coll = coll /\ heap[places[i]].selection = selection

\* A plan has values of the records of a frame, which are prepared for their join.
IsPlan(heap, frame, field, unresolved) ==
    /\ IsSeq(unresolved)
    /\ \A i \in DOMAIN unresolved : \A o \in unresolved[i].records :
          LET on == Join!JoinFields[frame.coll][field].on
          IN /\ o \in Join!ToSet(frame.records)
             /\ unresolved[i].value \in Join!ToSet(Join!Values(heap[o].doc, on))
             /\ on = "out_msgs" => field \in DOMAIN heap[o].joins

\* A reference of a record, by a join of its selection, is still to be resolved.
Pending(all, under, places, unresolved, o, j, value) ==
    \/ \E i \in DOMAIN all : j \in Join!ToSet(all[i].selection) /\ o \in Join!ToSet(all[i].records)
    \/ o \in Join!ToSet(places)
    \/ /\ under.field = j.field
       /\ \E i \in DOMAIN unresolved : unresolved[i].value = value /\ o \in unresolved[i].records

\* A reference of a record does not have its record.
Unlinked(main, on, field, value) ==
    \E link \in Join!LinksOf(main, on, field) : link.record = Null /\ link.value = value

\* Each reference without its record is to be resolved, if it can be joined.
Complete(heap, all, under, places, unresolved) ==
    \A o \in DOMAIN heap : \A j \in Join!ToSet(heap[o].selection) :
        \A value \in Join!ToSet(Join!Values(heap[o].doc, Join!JoinFields[heap[o].doc.coll][j.field].on)) :
            /\ Unlinked(heap[o], Join!JoinFields[heap[o].doc.coll][j.field].on, j.field, value)
            /\ Join!CanJoin(heap[o].doc.coll, j, heap[o].doc)
            => Pending(all, under, places, unresolved, o, j, value)

\* The joins of a request: their phase, records, frames, the join under way with
\* what it has fetched and its plan, and whether one was given up.
RequestInv(now, heap, all, under, places, unresolved, given) ==
    /\ now \in {"no", "next", "query", "done", "failed"}
    /\ IsHeap(heap) /\ AreFrames(heap, all)
    /\ all # <<>> <=> now \in {"next", "query"}
    /\ now # "query" => places = <<>> /\ unresolved = <<>>
    /\ now = "query" =>
          LET frame == Join!Last(all)
          IN /\ under.selection \in Selections
             /\ AreFetched(heap, places, Join!JoinFields[frame.coll][under.field].collection, under.selection)
             /\ IsPlan(heap, frame, under.field, unresolved)
    /\ ~given => Complete(heap, all, under, places, unresolved)

JoinDomains ==
    /\ DOMAIN joining = Request /\ DOMAIN objects = Request /\ DOMAIN frames = Request
    /\ DOMAIN join = Request /\ DOMAIN plan = Request /\ DOMAIN joined = Request /\ DOMAIN gaveUp = Request

JoinInv ==
    /\ JoinDomains
    /\ \A r \in Request :
          RequestInv(joining[r], objects[r], frames[r], join[r], joined[r], plan[r], gaveUp[r])

-----------------------------------------------------------------------------
(* Sequences *)

\* The elements of k are those of s at the places, each at the place that p tells, in order.
KeepsAt(p, k, s, places) ==
    /\ p \in [DOMAIN k -> DOMAIN s \cap places]
    /\ \A a, b \in DOMAIN k : a < b => p[a] < p[b]
    /\ \A q \in DOMAIN s \cap places : \E a \in DOMAIN k : p[a] = q
    /\ \A a \in DOMAIN k : k[a] = s[p[a]]

\* The elements kept of a sequence are the ones at the places, in their order.
LEMMA KeptPlaces ==
    ASSUME NEW S, NEW s \in Seq(S), NEW places, NEW k, k = Join!Kept(s, places)
    PROVE  /\ k \in Seq(S)
           /\ \E p : KeepsAt(p, k, s, places)
  <1> DEFINE n == Len(s)
             X == Seq(S)
             step == [p \in Nat \X X |-> IF p[1] \in 1..n /\ p[1] \in places THEN Append(p[2], s[p[1]]) ELSE p[2]]
             G(f) == [i \in 0..n |-> IF i = 0 THEN <<>> ELSE IF i \in places THEN Append(f[i - 1], s[i]) ELSE f[i - 1]]
             kept == CHOOSE f : f = G(f)
  <1>1. n \in Nat /\ n = Len(s) /\ DOMAIN s = 1..n /\ <<>> \in X /\ \A i \in 1..n : s[i] \in S
    OBVIOUS
  <1> HIDE DEF n
  <1>2. step \in Steps(X)
    <2>1. \A x \in X, e \in S : Append(x, e) \in X
      OBVIOUS
    <2> HIDE DEF X, n
    <2> QED
      BY <1>1, <2>1 DEF Steps
  <1>3. PICK g \in Runs(X, <<>>, step, n) : TRUE
    <2> HIDE DEF X, n, step
    <2> QED
      BY <1>1, <1>2, Recursion
  <1>4. g \in [0..n -> X] /\ g[0] = <<>> /\ \A i \in 1..n : g[i] = step[<<i, g[i - 1]>>]
    BY DEF Runs
  <1>5. \A i \in 1..n : g[i] = IF i \in places THEN Append(g[i - 1], s[i]) ELSE g[i - 1]
    <2> TAKE i \in 1..n
    <2>1. i - 1 \in 0..n /\ i \in Nat
      BY <1>1
    <2>2. <<i, g[i - 1]>> \in Nat \X X
      <3> HIDE DEF X, n, step
      <3> QED
        BY <1>4, <2>1
    <2> HIDE DEF X, n
    <2> QED
      BY <1>4, <2>2
  <1>6. g = G(g)
    <2>1. \A i \in 0..n : g[i] = IF i = 0 THEN <<>> ELSE IF i \in places THEN Append(g[i - 1], s[i]) ELSE g[i - 1]
      <3> TAKE i \in 0..n
      <3>1. i # 0 => i \in 1..n
        BY <1>1
      <3> HIDE DEF X, step
      <3> QED
        BY <1>4, <1>5, <3>1
    <2> HIDE DEF X, step
    <2> QED
      BY <1>4, <2>1
  <1>7. kept = G(kept)
    BY <1>6
  <1>8. Join!Kept(s, places) = kept[n]
    BY DEF Join!Kept, n
  <1>9. \A i \in 0..n : kept[i] = IF i = 0 THEN <<>> ELSE IF i \in places THEN Append(kept[i - 1], s[i]) ELSE kept[i - 1]
    <2>1. ASSUME NEW f, f = G(f)
          PROVE  \A i \in 0..n : f[i] = IF i = 0 THEN <<>> ELSE IF i \in places THEN Append(f[i - 1], s[i]) ELSE f[i - 1]
      <3>1. \A i \in 0..n : G(f)[i] = IF i = 0 THEN <<>> ELSE IF i \in places THEN Append(f[i - 1], s[i]) ELSE f[i - 1]
        OBVIOUS
      <3> HIDE DEF G, n
      <3> QED
        BY <2>1, <3>1
    <2> HIDE DEF kept, G, n
    <2> QED
      BY <1>7, <2>1
  <1> DEFINE Maps(p, i, x) == /\ p \in [DOMAIN x -> (1..i) \cap places]
                              /\ \A a, b \in DOMAIN x : a < b => p[a] < p[b]
                              /\ \A q \in (1..i) \cap places : \E a \in DOMAIN x : p[a] = q
                              /\ \A a \in DOMAIN x : x[a] = s[p[a]]
             Of(i, x) == x \in Seq(S) /\ \E p : Maps(p, i, x)
             reached == {m \in Nat : m <= n => Of(m, kept[m])}
  <1>10. 0 \in reached
    <2>1. kept[0] = <<>>
      <3>1. 0 \in 0..n
        BY <1>1
      <3> HIDE DEF kept
      <3> QED
        BY <1>9, <3>1
    <2>2. (1..0) = {} /\ <<>> \in Seq(S) /\ DOMAIN <<>> = {}
      OBVIOUS
    <2>3. Maps([a \in {} |-> 0], 0, <<>>)
      BY <2>2
    <2> HIDE DEF kept, Maps
    <2> QED
      BY <2>1, <2>2, <2>3
  <1>11. ASSUME NEW m \in reached PROVE m + 1 \in reached
    <2>0. m \in Nat /\ (m <= n => Of(m, kept[m]))
      BY <1>11
    <2> HIDE DEF Of
    <2> SUFFICES ASSUME m + 1 <= n PROVE Of(m + 1, kept[m + 1])
      BY <2>0
    <2>1. m + 1 <= n /\ m <= n
      BY <2>0, <1>1
    <2> DEFINE x == kept[m]
               y == kept[m + 1]
    <2>2. m \in Nat /\ m + 1 \in 1..n /\ m + 1 \in 0..n /\ (m + 1) - 1 = m
      BY <2>1, <2>0
    <2>3. Of(m, x)
      BY <2>1, <2>0
    <2>4. y = IF m + 1 \in places THEN Append(x, s[m + 1]) ELSE x
      <3> HIDE DEF kept, n
      <3> QED
        BY <1>9, <2>2
    <2>5. s[m + 1] \in S
      BY <2>2, <1>1
    <2>6. 1..(m + 1) = (1..m) \cup {m + 1}
      BY <2>2
    <2> HIDE DEF kept, n
    <2> HIDE DEF x, y
    <2>7. Of(m + 1, y)
      <3>0. x \in Seq(S) /\ \E p : Maps(p, m, x)
        BY <2>3 DEF Of
      <3> PICK p : Maps(p, m, x)
        BY <3>0
      <3> HIDE DEF Maps
      <3>1. CASE m + 1 \in places
        <4> DEFINE z == Len(x) + 1
                   r == [a \in 1..z |-> IF a = z THEN m + 1 ELSE p[a]]
        <4>1. DOMAIN x = 1..Len(x) /\ Len(x) \in Nat /\ z \in Nat /\ z \in 1..z
          BY <3>0
        <4>2. y = Append(x, s[m + 1])
          BY <2>4, <3>1
        <4>3. y \in Seq(S) /\ DOMAIN y = 1..z /\ y[z] = s[m + 1] /\ \A i \in DOMAIN x : y[i] = x[i]
          BY <4>2, <2>5, <3>0, <4>1
        <4> HIDE DEF z
        <4>4. \A a \in 1..z : a # z => a \in DOMAIN x
          BY <4>1 DEF z
        <4>5. \A a \in DOMAIN x : a < z /\ a \in 1..z
          BY <4>1 DEF z
        <4>6. \A a \in DOMAIN x : p[a] \in (1..m) \cap places /\ p[a] < m + 1 /\ x[a] = s[p[a]]
          BY <2>2 DEF Maps
        <4>7. r[z] = m + 1 /\ \A a \in DOMAIN x : r[a] = p[a]
          BY <4>1, <4>5
        <4>8. r \in [1..z -> (1..(m + 1)) \cap places]
          BY <2>6, <3>1, <4>4, <4>6
        <4> HIDE DEF r
        <4>9. \A a, b \in 1..z : a < b => r[a] < r[b]
          <5> TAKE a, b \in 1..z
          <5> SUFFICES ASSUME a < b PROVE r[a] < r[b]
            OBVIOUS
          <5>1. a # z
            BY <4>1
          <5>2. CASE b = z
            BY <4>4, <4>6, <4>7, <5>1, <5>2
          <5>3. CASE b # z
            BY <4>4, <4>7, <5>1, <5>3 DEF Maps
          <5> QED
            BY <5>2, <5>3
        <4>10. ASSUME NEW q \in (1..(m + 1)) \cap places PROVE \E a \in 1..z : r[a] = q
          <5>1. CASE q = m + 1
            BY <4>1, <4>7, <5>1 DEF z
          <5>2. CASE q # m + 1
            <6>1. PICK a \in DOMAIN x : p[a] = q
              BY <2>6, <5>2 DEF Maps
            <6> QED
              BY <4>5, <4>7, <6>1
          <5> QED
            BY <5>1, <5>2
        <4>11. \A a \in 1..z : y[a] = s[r[a]]
          BY <4>3, <4>4, <4>6, <4>7
        <4>12. Maps(r, m + 1, y)
          BY <4>3, <4>8, <4>9, <4>10, <4>11 DEF Maps
        <4> QED
          BY <4>3, <4>12 DEF Of
      <3>2. CASE m + 1 \notin places
        <4>1. y = x /\ (1..(m + 1)) \cap places = (1..m) \cap places
          BY <2>4, <2>6, <3>2
        <4>2. Maps(p, m + 1, y)
          BY <4>1, Zenon DEF Maps
        <4> QED
          BY <3>0, <4>1, <4>2 DEF Of
      <3> QED
        BY <3>1, <3>2
    <2> QED
      BY <2>7 DEF y
  <1>12. n \in reached
    <2>1. reached \in SUBSET Nat
      OBVIOUS
    <2> HIDE DEF reached
    <2> QED
      BY <1>1, <1>10, <1>11, <2>1, ByInduction
  <1> HIDE DEF kept, Of
  <1>13. Of(n, kept[n])
    <2>1. n <= n
      BY <1>1
    <2> QED
      BY <1>12, <2>1
  <1>14. k = kept[n] /\ DOMAIN s \cap places = (1..n) \cap places
    BY <1>1, <1>8
  <1> HIDE DEF reached, X, step, G
  <1>15. Of(n, k)
    BY <1>13, <1>14
  <1>16. PICK p : Maps(p, n, k)
    BY <1>15 DEF Of
  <1>17. KeepsAt(p, k, s, places)
    BY <1>14, <1>16 DEF KeepsAt
  <1> QED
    BY <1>15, <1>17 DEF Of

\* So what is kept is of the elements at the places, all of them, in their order.
LEMMA KeptIs ==
    ASSUME NEW S, NEW s \in Seq(S), NEW places
    PROVE  /\ Join!Kept(s, places) \in Seq(S)
           /\ \A i \in DOMAIN Join!Kept(s, places) : \E k \in DOMAIN s \cap places : Join!Kept(s, places)[i] = s[k]
           /\ \A k \in DOMAIN s \cap places : \E i \in DOMAIN Join!Kept(s, places) : Join!Kept(s, places)[i] = s[k]
           /\ \A i, j \in DOMAIN Join!Kept(s, places) : i < j =>
                 \E k, l \in DOMAIN s \cap places : k < l /\ Join!Kept(s, places)[i] = s[k] /\ Join!Kept(s, places)[j] = s[l]
  <1> DEFINE kept == Join!Kept(s, places)
  <1>1. kept \in Seq(S)
    BY KeptPlaces
  <1>2. PICK p : KeepsAt(p, kept, s, places)
    BY KeptPlaces
  <1> HIDE DEF kept
  <1>3. \A i \in DOMAIN kept : \E k \in DOMAIN s \cap places : kept[i] = s[k]
    BY <1>2 DEF KeepsAt
  <1>4. \A k \in DOMAIN s \cap places : \E i \in DOMAIN kept : kept[i] = s[k]
    BY <1>2 DEF KeepsAt
  <1>5. \A i, j \in DOMAIN kept : i < j =>
           \E k, l \in DOMAIN s \cap places : k < l /\ kept[i] = s[k] /\ kept[j] = s[l]
    BY <1>2 DEF KeepsAt
  <1> QED
    BY <1>1, <1>3, <1>4, <1>5 DEF kept

\* A sequence has elements of the first sequences only, and all of them.
HasOnly(n, seqs, s) == \A m \in DOMAIN s : \E i \in 1..n : \E k \in DOMAIN seqs[i] : s[m] = seqs[i][k]
HasAll(n, seqs, s) == \A i \in 1..n : \A k \in DOMAIN seqs[i] : \E m \in DOMAIN s : s[m] = seqs[i][k]

\* A sequence of sequences, flat, has the elements that these have.
LEMMA FlattenIs ==
    ASSUME NEW S, NEW n \in Nat, NEW seqs \in [1..n -> Seq(S)]
    PROVE  /\ Join!FlattenSeq(seqs) \in Seq(S)
           /\ HasOnly(n, seqs, Join!FlattenSeq(seqs)) /\ HasAll(n, seqs, Join!FlattenSeq(seqs))
  <1> DEFINE X == Seq(S)
             step == [p \in Nat \X X |-> IF p[1] \in 1..n THEN p[2] \o seqs[p[1]] ELSE p[2]]
             G(f) == [i \in 1..n |-> IF i = 1 THEN seqs[i] ELSE f[i - 1] \o seqs[i]]
             flat == CHOOSE f : f = G(f)
  <1>1. Len(seqs) = n /\ (n = 0 => seqs = <<>>) /\ <<>> \in X /\ \A i \in 1..n : seqs[i] \in X
    OBVIOUS
  <1>2. step \in Steps(X)
    <2>1. \A x \in X, y \in X : x \o y \in X
      OBVIOUS
    <2> HIDE DEF X
    <2> QED
      BY <1>1, <2>1 DEF Steps
  <1>3. PICK h \in Runs(X, <<>>, step, n) : TRUE
    <2> HIDE DEF X, step
    <2> QED
      BY <1>1, <1>2, Recursion
  <1>4. h \in [0..n -> X] /\ h[0] = <<>> /\ \A i \in 1..n : h[i] = step[<<i, h[i - 1]>>]
    BY DEF Runs
  <1>5. \A i \in 1..n : h[i - 1] \in X /\ h[i] = h[i - 1] \o seqs[i]
    <2> TAKE i \in 1..n
    <2>1. i - 1 \in 0..n /\ i \in Nat
      OBVIOUS
    <2>2. <<i, h[i - 1]>> \in Nat \X X /\ h[i - 1] \in X
      <3> HIDE DEF X, step
      <3> QED
        BY <1>4, <2>1
    <2> HIDE DEF X
    <2> QED
      BY <1>4, <2>2
  <1> DEFINE g == [i \in 1..n |-> h[i]]
  <1>6. g = G(g)
    <2>1. \A i \in 1..n : g[i] = IF i = 1 THEN seqs[i] ELSE g[i - 1] \o seqs[i]
      <3> TAKE i \in 1..n
      <3>1. CASE i = 1
        <4>1. h[0] \o seqs[1] = seqs[1]
          BY <1>1, <1>4, <3>1
        <4>2. g[i] = h[i] /\ i - 1 = 0 /\ i = 1
          BY <3>1
        <4> HIDE DEF X, step, g
        <4> QED
          BY <1>5, <4>1, <4>2
      <3>2. CASE i # 1
        <4>1. i - 1 \in 1..n
          BY <3>2
        <4> HIDE DEF X, step
        <4> QED
          BY <1>5, <3>2, <4>1
      <3> QED
        BY <3>1, <3>2
    <2> HIDE DEF X, step
    <2>2. DOMAIN g = 1..n /\ g = [i \in 1..n |-> g[i]]
      OBVIOUS
    <2> HIDE DEF g
    <2> QED
      BY <2>1, <2>2
  <1>7. flat = G(flat)
    BY <1>6
  <1>8. Join!FlattenSeq(seqs) = IF n = 0 THEN <<>> ELSE flat[n]
    <2>1. Join!FlattenSeq(seqs) = IF Len(seqs) = 0 THEN seqs ELSE flat[n]
      BY <1>1 DEF Join!FlattenSeq
    <2> HIDE DEF flat
    <2> QED
      BY <1>1, <2>1
  <1>9. \A i \in 1..n : flat[i] = IF i = 1 THEN seqs[i] ELSE flat[i - 1] \o seqs[i]
    <2>1. ASSUME NEW f, f = G(f) PROVE \A i \in 1..n : f[i] = IF i = 1 THEN seqs[i] ELSE f[i - 1] \o seqs[i]
      <3>1. \A i \in 1..n : G(f)[i] = IF i = 1 THEN seqs[i] ELSE f[i - 1] \o seqs[i]
        OBVIOUS
      <3> HIDE DEF G
      <3> QED
        BY <2>1, <3>1
    <2> HIDE DEF flat, G
    <2> QED
      BY <1>7, <2>1
  <1> USE DEF HasOnly, HasAll
  <1> DEFINE Of(i, x) == x \in Seq(S) /\ HasOnly(i, seqs, x) /\ HasAll(i, seqs, x)
             reached == {m \in Nat : m \in 1..n => Of(m, flat[m])}
  <1>10. 0 \in reached
    OBVIOUS
  <1>11. ASSUME NEW m \in reached PROVE m + 1 \in reached
    <2>0. m \in Nat /\ (m \in 1..n => Of(m, flat[m]))
      BY <1>11
    <2> HIDE DEF Of
    <2> SUFFICES ASSUME m + 1 \in 1..n PROVE Of(m + 1, flat[m + 1])
      BY <2>0
    <2>1. flat[m + 1] = IF m = 0 THEN seqs[m + 1] ELSE flat[m] \o seqs[m + 1]
      <3>1. (m + 1) - 1 = m /\ (m + 1 = 1 <=> m = 0)
        BY <2>0
      <3> HIDE DEF flat
      <3> QED
        BY <1>9, <3>1
    <2>2. seqs[m + 1] \in Seq(S)
      BY <1>1
    <2> HIDE DEF flat
    <2>3. CASE m = 0
      <3>1. flat[m + 1] = seqs[1] /\ 1..(m + 1) = {1}
        BY <2>1, <2>3
      <3> QED
        BY <3>1, <2>2, <2>3 DEF Of
    <2>4. CASE m # 0
      <3> DEFINE x == flat[m]  y == flat[m + 1]  z == seqs[m + 1]
      <3>1. m \in 1..n /\ 1..(m + 1) = (1..m) \cup {m + 1}
        BY <2>0, <2>4
      <3>2. y = x \o z /\ Of(m, x) /\ z \in Seq(S)
        BY <2>0, <2>1, <2>2, <2>4, <3>1
      <3> HIDE DEF x, y
      <3>3. /\ y \in Seq(S)
            /\ \A i \in DOMAIN x : i \in DOMAIN y /\ y[i] = x[i]
            /\ \A i \in DOMAIN z : Len(x) + i \in DOMAIN y /\ y[Len(x) + i] = z[i]
            /\ \A i \in DOMAIN y : i \in DOMAIN x \/ (i - Len(x) \in DOMAIN z /\ y[i] = z[i - Len(x)])
        <4> HIDE DEF z
        <4>1. x \in Seq(S)
          BY <3>2 DEF Of
        <4> QED
          BY <3>2, <4>1
      <3>4. \A i \in DOMAIN y : \E c \in 1..(m + 1) : \E k \in DOMAIN seqs[c] : y[i] = seqs[c][k]
        <4> TAKE i \in DOMAIN y
        <4>1. CASE i \in DOMAIN x
          <5>1. PICK c \in 1..m : \E k \in DOMAIN seqs[c] : x[i] = seqs[c][k]
            BY <3>2, <4>1 DEF Of
          <5>2. c \in 1..(m + 1) /\ y[i] = x[i]
            BY <3>1, <3>3, <4>1
          <5> QED
            BY <5>1, <5>2
        <4>2. CASE i - Len(x) \in DOMAIN z /\ y[i] = z[i - Len(x)]
          BY <3>1, <4>2
        <4> QED
          BY <3>3, <4>1, <4>2
      <3>5. \A c \in 1..(m + 1) : \A k \in DOMAIN seqs[c] : \E i \in DOMAIN y : y[i] = seqs[c][k]
        <4> TAKE c \in 1..(m + 1)
        <4> TAKE k \in DOMAIN seqs[c]
        <4>1. CASE c \in 1..m
          <5>1. PICK i \in DOMAIN x : x[i] = seqs[c][k]
            BY <3>2, <4>1 DEF Of
          <5> QED
            BY <3>3, <5>1
        <4>2. CASE c = m + 1
          BY <3>3, <4>2
        <4> QED
          BY <3>1, <4>1, <4>2
      <3>6. Of(m + 1, y)
        BY <3>3, <3>4, <3>5 DEF Of
      <3> QED
        BY <3>6 DEF y
    <2> QED
      BY <2>3, <2>4
  <1>12. n \in reached
    <2>1. reached \in SUBSET Nat
      OBVIOUS
    <2> HIDE DEF reached
    <2> QED
      BY <1>10, <1>11, <2>1, ByInduction
  <1> HIDE DEF flat, Of, G, step, X
  <1>13. CASE n = 0
    <2>1. Join!FlattenSeq(seqs) = <<>> /\ 1..n = {}
      BY <1>8, <1>13
    <2> QED
      BY <2>1
  <1>14. CASE n # 0
    <2>1. n \in 1..n
      BY <1>14
    <2>2. Of(n, Join!FlattenSeq(seqs))
      BY <1>8, <1>12, <1>14, <2>1
    <2> HIDE DEF reached
    <2> QED
      BY <2>2 DEF Of
  <1> QED
    BY <1>13, <1>14

\* Sequences are sequences of their elements.
LEMMA Sequence ==
    ASSUME NEW S, NEW s \in Seq(S)
    PROVE  IsSeq(s) /\ DOMAIN s = 1..Len(s) /\ Len(s) \in Nat /\ \A i \in DOMAIN s : s[i] \in S
  <1>1. DOMAIN s = 1..Len(s) /\ Len(s) \in Nat /\ \A i \in DOMAIN s : s[i] \in S
    OBVIOUS
  <1>2. s \in [1..Len(s) -> {s[i] : i \in DOMAIN s}]
    BY <1>1
  <1> QED
    BY <1>1, <1>2 DEF IsSeq

\* As functions they are, too.
LEMMA FunctionSequence ==
    ASSUME NEW n \in Nat, NEW s, DOMAIN s = 1..n, s = [i \in 1..n |-> s[i]]
    PROVE  IsSeq(s) /\ Len(s) = n
  <1>1. s \in Seq({s[i] : i \in DOMAIN s})
    OBVIOUS
  <1> QED
    BY <1>1 DEF IsSeq

\* The modules mean the same by the number of elements of a set.
LEMMA SameCardinality == \A S : Join!Cardinality(S) = Cardinality(S) /\ Find!Cardinality(S) = Cardinality(S)
  BY DEF Join!Cardinality, Find!Cardinality, Cardinality

\* A finite set has a sequence of its elements.
LEMMA SetToSeqIs ==
    ASSUME NEW S, IsFiniteSet(S)
    PROVE  /\ Join!SetToSeq(S) \in Seq(S) /\ Find!SetToSeq(S) = Join!SetToSeq(S)
           /\ Len(Join!SetToSeq(S)) = Cardinality(S)
  <1>1. Cardinality(S) \in Nat /\ ExistsBijection(1..Cardinality(S), S)
    BY FS_CardinalityType
  <1>2. PICK f \in [1..Cardinality(S) -> S] : Join!IsInjective(f)
    BY <1>1 DEF ExistsBijection, Bijection, Injection, IsInjective, Join!IsInjective
  <1>3. Join!SetToSeq(S) \in [1..Cardinality(S) -> S]
    BY <1>1, <1>2, SameCardinality DEF Join!SetToSeq
  <1>4. Find!SetToSeq(S) = Join!SetToSeq(S)
    BY SameCardinality DEF Join!SetToSeq, Find!SetToSeq, Join!IsInjective, Find!IsInjective
  <1> QED
    BY <1>1, <1>3, <1>4

-----------------------------------------------------------------------------
(* Joins *)

\* A record refers by nothing, by the messages of its list, or by one value.
LEMMA ValuesAre ==
    ASSUME NEW doc, IsDocument(doc), NEW on
    PROVE  /\ IsSeq(Join!Values(doc, on))
           /\ Join!Field(doc, on) = Null => Join!Values(doc, on) = <<>>
           /\ Join!Field(doc, on) # Null =>
                 Join!Values(doc, on) = IF on = "out_msgs" THEN doc.out_msgs ELSE <<doc[on]>>
  <1>1. IsSeq(<<>>) /\ \A x : IsSeq(<<x>>)
    <2>1. \A x : <<x>> \in Seq({x})
      OBVIOUS
    <2>2. <<>> \in Seq({})
      OBVIOUS
    <2> QED
      BY <2>1, <2>2, Sequence
  <1>2. CASE Join!Field(doc, on) = Null
    <2>1. Join!Values(doc, on) = <<>>
      BY <1>2 DEF Join!Values
    <2> QED
      BY <1>1, <1>2, <2>1
  <1>3. CASE Join!Field(doc, on) # Null /\ on = "out_msgs"
    <2>1. on \in DOMAIN doc /\ doc[on] # Null
      BY <1>3 DEF Join!Field
    <2>2. IsSeq(doc[on])
      BY <1>3, <2>1 DEF IsDocument
    <2> QED
      BY <1>3, <2>1, <2>2 DEF Join!Values
  <1>4. CASE Join!Field(doc, on) # Null /\ on # "out_msgs"
    <2>1. Join!Values(doc, on) = <<doc[on]>>
      BY <1>4 DEF Join!Values, Join!Field
    <2> QED
      BY <1>1, <1>4, <2>1
  <1> QED
    BY <1>2, <1>3, <1>4

\* The records of a join are the ones of the frame that refer to something.
LEMMA JoinableIs ==
    ASSUME NEW heap, NEW coll, NEW j, NEW main \in Seq(DOMAIN heap)
    PROVE  /\ Join!Joinable(heap, coll, j, main) \in Seq(DOMAIN heap)
           /\ Join!ToSet(Join!Joinable(heap, coll, j, main)) =
                 {o \in Join!ToSet(main) : Join!CanJoin(coll, j, heap[o].doc)}
  <1> DEFINE places == {i \in DOMAIN main : Join!CanJoin(coll, j, heap[main[i]].doc)}
             kept == Join!Kept(main, places)
             joinable == Join!Joinable(heap, coll, j, main)
  <1>1. joinable = kept
    BY DEF Join!Joinable
  <1>2. /\ kept \in Seq(DOMAIN heap)
        /\ \A i \in DOMAIN kept : \E k \in DOMAIN main \cap places : kept[i] = main[k]
        /\ \A k \in DOMAIN main \cap places : \E i \in DOMAIN kept : kept[i] = main[k]
    <2> DEFINE S == DOMAIN heap
    <2>1. main \in Seq(S)
      OBVIOUS
    <2> HIDE DEF places, S, kept
    <2>2. kept = Join!Kept(main, places)
      BY DEF kept
    <2>3. kept \in Seq(S)
      BY <2>1, <2>2, KeptIs
    <2> QED
      BY <2>1, <2>2, <2>3, KeptIs DEF S
  <1> HIDE DEF kept, joinable
  <1>3. ASSUME NEW o \in Join!ToSet(joinable) PROVE o \in Join!ToSet(main) /\ Join!CanJoin(coll, j, heap[o].doc)
    BY <1>1, <1>2, <1>3 DEF Join!ToSet
  <1>4. ASSUME NEW o \in Join!ToSet(main), Join!CanJoin(coll, j, heap[o].doc) PROVE o \in Join!ToSet(joinable)
    BY <1>1, <1>2, <1>4 DEF Join!ToSet
  <1> QED
    BY <1>1, <1>2, <1>3, <1>4 DEF joinable

\* A plan has the values of its records, and every value of each of them.
IsBuilt(heap, coll, j, main, built) ==
    LET Refers(o) == Join!ToSet(Join!Values(heap[o].doc, Join!JoinFields[coll][j.field].on))
        joinable == {o \in Join!ToSet(main) : Join!CanJoin(coll, j, heap[o].doc)}
    IN /\ IsSeq(built)
       /\ \A i \in DOMAIN built : \A o \in built[i].records : o \in joinable /\ built[i].value \in Refers(o)
       /\ \A o \in joinable : \A v \in Refers(o) :
             \E i \in DOMAIN built : built[i].value = v /\ o \in built[i].records

\* So has the plan that is built for a join.
LEMMA BuildPlanIs ==
    ASSUME NEW heap, IsHeap(heap), NEW coll, NEW j, NEW main \in Seq(DOMAIN heap)
    PROVE  IsBuilt(heap, coll, j, main, Join!BuildPlan(heap, coll, j, main))
  <1> DEFINE built == Join!BuildPlan(heap, coll, j, main)
             on == Join!JoinFields[coll][j.field].on
             V(o) == Join!Values(heap[o].doc, on)
             joinable == Join!Joinable(heap, coll, j, main)
             Pairs(o) == [i \in DOMAIN V(o) |-> <<V(o)[i], o>>]
             n == Len(joinable)
             seqs == [k \in DOMAIN joinable |-> Pairs(joinable[k])]
             pairs == Join!FlattenSeq(seqs)
             places == {i \in DOMAIN pairs : \A k \in 1..(i - 1) : pairs[k][1] # pairs[i][1]}
             firsts == Join!Kept(pairs, places)
             U == UNION {Join!ToSet(V(o)) : o \in DOMAIN heap}
             PP == {w \in U \X DOMAIN heap : w[1] \in Join!ToSet(V(w[2])) /\ w[2] \in Join!ToSet(joinable)}
  <1>1. /\ joinable \in Seq(DOMAIN heap)
        /\ Join!ToSet(joinable) = {o \in Join!ToSet(main) : Join!CanJoin(coll, j, heap[o].doc)}
    BY JoinableIs
  <1>2. built = [i \in DOMAIN firsts |-> [value |-> firsts[i][1], records |-> Join!ProcessValue(pairs, firsts[i][1])]]
    BY DEF Join!BuildPlan
  <1> HIDE DEF built, joinable
  <1>3. \A o \in DOMAIN heap : IsSeq(V(o))
    BY ValuesAre DEF IsHeap
  <1> HIDE DEF on
  <1>4. n \in Nat /\ DOMAIN joinable = 1..n /\ \A k \in 1..n : joinable[k] \in DOMAIN heap /\ joinable[k] \in Join!ToSet(joinable)
    BY <1>1 DEF Join!ToSet
  <1> HIDE DEF n
  <1>5. ASSUME NEW k \in 1..n PROVE seqs[k] \in Seq(PP) /\ seqs[k] = Pairs(joinable[k])
    <2> DEFINE o == joinable[k]
               vs == V(o)
    <2>1. o \in DOMAIN heap /\ o \in Join!ToSet(joinable)
      BY <1>4
    <2>2. vs \in Seq(Join!ToSet(vs))
      BY <1>3, <2>1 DEF IsSeq, Join!ToSet
    <2>3. Join!ToSet(vs) \subseteq U
      BY <2>1
    <2>4. seqs[k] = Pairs(o)
      BY <1>4
    <2>5. \A i \in DOMAIN vs : <<vs[i], o>> \in PP
      <3> TAKE i \in DOMAIN vs
      <3>1. vs[i] \in Join!ToSet(vs)
        BY DEF Join!ToSet
      <3>2. <<vs[i], o>> \in U \X DOMAIN heap
        <4> HIDE DEF o, U, vs
        <4> QED
          BY <2>1, <2>3, <3>1
      <3> HIDE DEF U
      <3> QED
        BY <2>1, <3>1, <3>2
    <2>6. Pairs(o) = [i \in DOMAIN vs |-> <<vs[i], o>>]
      OBVIOUS
    <2> HIDE DEF vs, o, PP, seqs, Pairs
    <2>7. DOMAIN vs = 1..Len(vs) /\ Len(vs) \in Nat
      BY <2>2
    <2>8. Pairs(o) \in [1..Len(vs) -> PP]
      BY <2>5, <2>6, <2>7
    <2>9. Pairs(o) \in Seq(PP)
      BY <2>7, <2>8
    <2> QED
      BY <2>4, <2>9 DEF o
  <1>6. seqs \in [1..n -> Seq(PP)]
    <2>1. seqs = [k \in 1..n |-> seqs[k]]
      BY <1>4
    <2> HIDE DEF seqs, PP, Pairs
    <2> QED
      BY <1>5, <2>1
  <1>7. /\ pairs \in Seq(PP)
        /\ \A i \in 1..n : \A k \in DOMAIN seqs[i] : \E m \in DOMAIN pairs : pairs[m] = seqs[i][k]
    <2>1. pairs = Join!FlattenSeq(seqs)
      OBVIOUS
    <2> HIDE DEF seqs, PP, pairs
    <2>2. n \in Nat
      BY <1>4
    <2> HIDE DEF Pairs, V
    <2>3. pairs \in Seq(PP)
      BY <1>6, <2>1, <2>2, FlattenIs
    <2>4. \A i \in 1..n : \A k \in DOMAIN seqs[i] : \E m \in DOMAIN pairs : pairs[m] = seqs[i][k]
      <3>1. HasAll(n, seqs, pairs)
        BY <1>6, <2>1, <2>2, FlattenIs
      <3> QED
        BY <3>1 DEF HasAll
    <2> QED
      BY <2>3, <2>4
  <1> HIDE DEF pairs
  <1>8. \A i \in DOMAIN pairs : pairs[i][2] \in Join!ToSet(joinable) /\ pairs[i][1] \in Join!ToSet(V(pairs[i][2]))
    <2>1. \A i \in DOMAIN pairs : pairs[i] \in PP
      <3> HIDE DEF PP
      <3> QED
        BY <1>7
    <2> HIDE DEF U, V
    <2> QED
      BY <2>1
  <1>9. /\ firsts \in Seq(PP)
        /\ \A i \in DOMAIN firsts : \E k \in DOMAIN pairs \cap places : firsts[i] = pairs[k]
        /\ \A k \in DOMAIN pairs \cap places : \E i \in DOMAIN firsts : firsts[i] = pairs[k]
    <2>1. firsts = Join!Kept(pairs, places)
      OBVIOUS
    <2> HIDE DEF PP, places, firsts
    <2>2. firsts \in Seq(PP)
      BY <1>7, <2>1, KeptIs
    <2> QED
      BY <1>7, <2>1, <2>2, KeptIs
  <1> HIDE DEF firsts
  <1>10. IsSeq(built)
    <2>1. DOMAIN firsts = 1..Len(firsts) /\ Len(firsts) \in Nat
      <3> HIDE DEF PP
      <3> QED
        BY <1>9
    <2>2. DOMAIN built = 1..Len(firsts) /\ built = [i \in 1..Len(firsts) |-> built[i]]
      BY <1>2, <2>1
    <2> QED
      BY <2>1, <2>2, FunctionSequence
  <1>11. ASSUME NEW i \in DOMAIN built, NEW o \in built[i].records
         PROVE  o \in Join!ToSet(joinable) /\ built[i].value \in Join!ToSet(V(o))
    <2>1. built[i].value = firsts[i][1] /\ built[i].records = Join!ProcessValue(pairs, firsts[i][1])
      BY <1>2
    <2>2. PICK k \in DOMAIN pairs : pairs[k][1] = firsts[i][1] /\ o = pairs[k][2]
      BY <2>1 DEF Join!ProcessValue
    <2> HIDE DEF V
    <2> QED
      BY <1>8, <2>1, <2>2
  <1>12. ASSUME NEW o \in Join!ToSet(joinable), NEW v \in Join!ToSet(V(o))
         PROVE  \E i \in DOMAIN built : built[i].value = v /\ o \in built[i].records
    <2>1. PICK k \in 1..n : o = joinable[k]
      BY <1>4 DEF Join!ToSet
    <2>2. PICK c \in DOMAIN V(o) : v = V(o)[c]
      BY DEF Join!ToSet
    <2>3. DOMAIN seqs[k] = DOMAIN V(o) /\ seqs[k][c] = <<v, o>>
      <3>1. seqs[k] = Pairs(o)
        BY <1>5, <2>1
      <3> HIDE DEF V, seqs
      <3> QED
        BY <2>2, <3>1
    <2>4. PICK m \in DOMAIN pairs : pairs[m] = <<v, o>>
      <3> HIDE DEF V, seqs
      <3> QED
        BY <1>7, <2>2, <2>3
    <2> DEFINE having == {x \in DOMAIN pairs : pairs[x][1] = v}
    <2>5. DOMAIN pairs = 1..Len(pairs) /\ Len(pairs) \in Nat
      <3> HIDE DEF PP
      <3> QED
        BY <1>7
    <2>6. having \in SUBSET Nat /\ m \in having
      BY <2>4, <2>5
    <2>7. PICK f \in having : \A x \in having : f <= x
      <3> HIDE DEF having
      <3> QED
        BY <2>6, Least
    <2>8. f \in places
      <3>1. f \in 1..Len(pairs) /\ pairs[f][1] = v
        BY <2>5, <2>7
      <3>2. \A x \in 1..(f - 1) : x \notin having
        <4> HIDE DEF having
        <4> QED
          BY <2>5, <2>6, <2>7, <3>1
      <3>3. \A x \in 1..(f - 1) : x \in 1..Len(pairs)
        BY <2>5, <3>1
      <3> QED
        BY <2>5, <3>1, <3>2, <3>3
    <2>9. PICK i \in DOMAIN firsts : firsts[i] = pairs[f]
      <3> HIDE DEF places, having
      <3>1. f \in DOMAIN pairs
        BY <2>7 DEF having
      <3> QED
        BY <1>9, <2>8, <3>1
    <2>10. i \in DOMAIN built /\ built[i].value = v /\ built[i].records = Join!ProcessValue(pairs, v)
      BY <1>2, <2>7, <2>9
    <2>11. o \in Join!ProcessValue(pairs, v)
      BY <2>4 DEF Join!ProcessValue
    <2> QED
      BY <2>10, <2>11
  <1> HIDE DEF seqs, PP, places, U, Pairs
  <1>13. Join!ToSet(joinable) = {o \in Join!ToSet(main) : Join!CanJoin(coll, j, heap[o].doc)}
    BY <1>1
  <1> QED
    BY <1>10, <1>11, <1>12, <1>13 DEF built, on, IsBuilt

\* A heap has the records of another, and may be others.
SameRecords(heap, later) ==
    /\ DOMAIN heap \subseteq DOMAIN later
    /\ \A o \in DOMAIN heap : later[o].doc = heap[o].doc /\ later[o].selection = heap[o].selection

IsRecord(main) == DOMAIN main = {"doc", "joins", "selection"}

\* A record that gets what it refers to by one field keeps the rest.
LEMMA WithIs ==
    ASSUME NEW main, IsRecord(main), NEW field, NEW got
    PROVE  LET later == Join!With(main, field, got)
           IN /\ IsRecord(later) /\ later.doc = main.doc /\ later.selection = main.selection
              /\ DOMAIN later.joins = DOMAIN main.joins \cup {field} /\ later.joins[field] = got
              /\ \A f \in DOMAIN main.joins : f # field => later.joins[f] = main.joins[f]
  BY DEF Join!With, IsRecord

\* Records without a field that is joined, or with the same there, lack the same.
LEMMA SameLinks ==
    ASSUME NEW main, NEW later, NEW on, NEW field, NEW value, Unlinked(later, on, field, value),
           later.doc = main.doc, field \in DOMAIN main.joins <=> field \in DOMAIN later.joins,
           field \in DOMAIN main.joins => later.joins[field] = main.joins[field]
    PROVE  Unlinked(main, on, field, value)
  <1>1. Join!LinksOf(main, on, field) = Join!LinksOf(later, on, field)
    BY DEF Join!LinksOf
  <1> QED
    BY <1>1 DEF Unlinked

\* What was joined right stays so, when records come to the heap.
LEMMA GotRightStays ==
    ASSUME NEW heap, NEW later, SameRecords(heap, later), NEW o \in DOMAIN heap, NEW field,
           GotRight(heap, o, field), later[o].joins[field] = heap[o].joins[field]
    PROVE  GotRight(later, o, field)
  BY DEF SameRecords, GotRight, IsJoined

\* A frame of a heap is one of every heap with the same records and more.
LEMMA FrameStays ==
    ASSUME NEW heap, NEW later, SameRecords(heap, later), NEW frame, IsFrame(heap, frame)
    PROVE  IsFrame(later, frame)
  <1>1. frame.records \in Seq(DOMAIN heap) /\ frame.records \in Seq(DOMAIN later)
    BY DEF SameRecords, IsFrame
  <1>2. \A i \in DOMAIN frame.records : frame.records[i] \in DOMAIN heap
    BY <1>1
  <1> QED
    BY <1>1, <1>2 DEF SameRecords, IsFrame

\* So are all frames.
LEMMA FramesStay ==
    ASSUME NEW heap, NEW later, SameRecords(heap, later), NEW all, AreFrames(heap, all)
    PROVE  AreFrames(later, all)
  BY FrameStays DEF AreFrames

\* A heap with records that are prepared for a join of a frame: nothing else lacks
\* more than before.
ArePrepared(heap, frame, j, later) ==
    LET on == Join!JoinFields[frame.coll][j.field].on
        joinable == {o \in Join!ToSet(frame.records) : Join!CanJoin(frame.coll, j, heap[o].doc)}
    IN /\ IsHeap(later) /\ DOMAIN later = DOMAIN heap /\ SameRecords(heap, later)
       /\ \A o \in DOMAIN heap : \A f, by, value :
             Unlinked(later[o], by, f, value) => Unlinked(heap[o], by, f, value) \/ (f = j.field /\ o \in joinable)
       /\ \A o \in joinable : on = "out_msgs" /\ Join!Field(heap[o].doc, on) # Null =>
             j.field \in DOMAIN later[o].joins

\* Records that refer by an array are prepared for their join.
LEMMA PreparedIs ==
    ASSUME NEW heap, IsHeap(heap), NEW frame, IsFrame(heap, frame), NEW j
    PROVE  ArePrepared(heap, frame, j, Join!Prepared(heap, frame.coll, j, frame.records))
  <1> DEFINE on == Join!JoinFields[frame.coll][j.field].on
             later == Join!Prepared(heap, frame.coll, j, frame.records)
             joinable == {o \in Join!ToSet(frame.records) : Join!CanJoin(frame.coll, j, heap[o].doc)}
             arrays == {o \in joinable : on = "out_msgs" /\ Join!Field(heap[o].doc, on) # Null}
             Got(o) == [i \in DOMAIN heap[o].doc[on] |-> Null]
  <1>1. frame.records \in Seq(DOMAIN heap) /\ joinable \subseteq DOMAIN heap
        /\ \A o \in joinable : heap[o].doc.coll = frame.coll
    <2>1. frame.records \in Seq(DOMAIN heap)
      BY DEF IsFrame
    <2>2. \A i \in DOMAIN frame.records : frame.records[i] \in DOMAIN heap /\ heap[frame.records[i]].doc.coll = frame.coll
      BY <2>1 DEF IsFrame
    <2> QED
      BY <2>1, <2>2 DEF Join!ToSet
  <1>2. Join!ToSet(Join!Joinable(heap, frame.coll, j, frame.records)) = joinable
    BY <1>1, JoinableIs
  <1> HIDE DEF joinable
  <1>3. later = [o \in DOMAIN heap |-> IF o \in arrays THEN Join!With(heap[o], j.field, Got(o)) ELSE heap[o]]
    BY <1>2 DEF Join!Prepared
  <1> HIDE DEF later
  <1>4. /\ DOMAIN later = DOMAIN heap
        /\ \A o \in DOMAIN heap : later[o] = IF o \in arrays THEN Join!With(heap[o], j.field, Got(o)) ELSE heap[o]
    BY <1>3
  <1>5. \A o \in DOMAIN heap : IsRecord(heap[o])
    BY DEF IsHeap, IsRecord
  <1> HIDE DEF on
  <1>6. \A o \in DOMAIN heap : IsRecord(later[o]) /\ later[o].doc = heap[o].doc /\ later[o].selection = heap[o].selection
    <2> TAKE o \in DOMAIN heap
    <2> HIDE DEF arrays, Got
    <2> QED
      BY <1>4, <1>5, WithIs
  <1>7. SameRecords(heap, later)
    BY <1>4, <1>6 DEF SameRecords
  <1>8. ASSUME NEW o \in arrays
        PROVE  /\ DOMAIN later[o].joins = DOMAIN heap[o].joins \cup {j.field}
               /\ later[o].joins[j.field] = Got(o)
               /\ \A f \in DOMAIN heap[o].joins : f # j.field => later[o].joins[f] = heap[o].joins[f]
    <2>1. o \in DOMAIN heap
      BY <1>1
    <2>2. later[o] = Join!With(heap[o], j.field, Got(o))
      BY <1>4, <2>1
    <2> HIDE DEF arrays, Got
    <2> QED
      BY <1>5, <2>1, <2>2, WithIs
  <1>9. ASSUME NEW o \in DOMAIN heap, NEW f \in DOMAIN later[o].joins PROVE GotRight(later, o, f)
    <2>1. CASE o \in arrays /\ f = j.field
      <3>1. later[o].doc = heap[o].doc /\ heap[o].doc.coll = frame.coll /\ on = "out_msgs"
            /\ Join!Field(heap[o].doc, on) # Null
        BY <1>1, <1>6, <2>1
      <3>2. later[o].joins[f] = Got(o)
        BY <1>8, <2>1
      <3>3. DOMAIN Got(o) = DOMAIN heap[o].doc.out_msgs /\ \A i \in DOMAIN Got(o) : Got(o)[i] = Null
        BY <3>1
      <3>4. Join!JoinFields[later[o].doc.coll][f].on = "out_msgs"
        BY <2>1, <3>1 DEF on
      <3> HIDE DEF Got, arrays
      <3> QED
        BY <3>1, <3>2, <3>3, <3>4 DEF GotRight
    <2>2. CASE ~(o \in arrays /\ f = j.field)
      <3>1. f \in DOMAIN heap[o].joins /\ later[o].joins[f] = heap[o].joins[f]
        <4> HIDE DEF Got
        <4>1. CASE o \in arrays
          <5> HIDE DEF arrays
          <5> QED
            BY <1>8, <1>9, <2>2, <4>1
        <4>2. CASE o \notin arrays
          BY <1>4, <1>9, <4>2
        <4> QED
          BY <4>1, <4>2
      <3>2. GotRight(heap, o, f)
        BY <3>1 DEF IsHeap
      <3> QED
        BY <1>7, <3>1, <3>2, GotRightStays
    <2> QED
      BY <2>1, <2>2
  <1>10. IsHeap(later)
    <2>1. IsSeq(later)
      <3>1. DOMAIN heap = 1..Len(heap) /\ Len(heap) \in Nat
        BY Sequence DEF IsHeap, IsSeq
      <3>2. later = [i \in 1..Len(heap) |-> later[i]]
        <4> HIDE DEF arrays, Got
        <4> QED
          BY <1>3, <3>1
      <3> QED
        BY <1>4, <3>1, <3>2, FunctionSequence
    <2>2. \A o \in DOMAIN later : IsDocument(later[o].doc) /\ later[o].selection \in Selections
      BY <1>4, <1>6 DEF IsHeap
    <2> QED
      BY <1>4, <1>6, <1>9, <2>1, <2>2 DEF IsHeap, IsRecord
  <1>11. ASSUME NEW o \in DOMAIN heap, NEW f, NEW by, NEW value, Unlinked(later[o], by, f, value),
                ~(f = j.field /\ o \in joinable)
         PROVE  Unlinked(heap[o], by, f, value)
    <2>1. /\ f \in DOMAIN heap[o].joins <=> f \in DOMAIN later[o].joins
          /\ f \in DOMAIN heap[o].joins => later[o].joins[f] = heap[o].joins[f]
      <3>1. CASE o \in arrays
        <4>1. f # j.field
          BY <1>11, <3>1
        <4> HIDE DEF arrays, Got
        <4> QED
          BY <1>8, <3>1, <4>1
      <3>2. CASE o \notin arrays
        BY <1>4, <3>2
      <3> QED
        BY <3>1, <3>2
    <2> QED
      BY <1>6, <1>11, <2>1, SameLinks
  <1>12. \A o \in joinable : on = "out_msgs" /\ Join!Field(heap[o].doc, on) # Null => j.field \in DOMAIN later[o].joins
    BY <1>8
  <1> HIDE DEF arrays, Got
  <1>13. \A o \in DOMAIN heap : \A f, by, value : Unlinked(later[o], by, f, value) =>
            Unlinked(heap[o], by, f, value) \/ (f = j.field /\ o \in joinable)
    BY <1>11
  <1> QED
    BY <1>4, <1>7, <1>10, <1>12, <1>13 DEF later, joinable, on, ArePrepared

\* A heap, and a plan, after the records of an answer: what lacks its record then,
\* lacked it before, and is left to be resolved.
AreAnswered(heap, frame, j, unresolved, new, after) ==
    /\ IsHeap(after.heap) /\ SameRecords(heap, after.heap)
    /\ DOMAIN after.heap = DOMAIN heap \cup {Len(heap) + i : i \in DOMAIN new}
    /\ \A i \in DOMAIN new :
          after.heap[Len(heap) + i] = [doc |-> new[i], joins |-> <<>>, selection |-> j.selection]
    /\ IsPlan(after.heap, frame, j.field, after.plan)
    /\ \A o \in DOMAIN heap : \A f, value :
          Unlinked(after.heap[o], Join!JoinFields[heap[o].doc.coll][f].on, f, value) =>
             /\ Unlinked(heap[o], Join!JoinFields[heap[o].doc.coll][f].on, f, value)
             /\ f = j.field => \A i \in DOMAIN unresolved :
                   o \in unresolved[i].records /\ unresolved[i].value = value =>
                      \E k \in DOMAIN after.plan : after.plan[k] = unresolved[i]

\* The records that an answer brings are the ones their values are of, and what
\* they do not bring is left to be resolved.
LEMMA JoinRecordsIs ==
    ASSUME NEW heap, IsHeap(heap), NEW frame, IsFrame(heap, frame), NEW j, j.selection \in Selections,
           NEW unresolved, IsPlan(heap, frame, j.field, unresolved),
           NEW new, Lists(new, Join!JoinFields[frame.coll][j.field].collection)
    PROVE  AreAnswered(heap, frame, j, unresolved, new,
                       Join!JoinRecords(heap, unresolved, new, j, Join!JoinFields[frame.coll][j.field]))
  <1> DEFINE ref == Join!JoinFields[frame.coll][j.field]
             after == Join!JoinRecords(heap, unresolved, new, j, ref)
             later == after.heap
             rest == after.plan
             size == Len(heap)
             Having(value) == {i \in DOMAIN new : value \in Join!ToSet(Join!Values(new[i], ref.refOn))}
             First(value) == size + CHOOSE i \in Having(value) : \A k \in Having(value) : i <= k
             resolved == {p \in Join!ToSet(unresolved) : Having(p.value) # {}}
             values == {p.value : p \in resolved}
             Got(main) ==
                 IF ref.on = "out_msgs"
                 THEN [i \in DOMAIN main.joins[j.field] |->
                          IF main.doc[ref.on][i] \in values THEN First(main.doc[ref.on][i]) ELSE main.joins[j.field][i]]
                 ELSE First(main.doc[ref.on])
             changed == UNION {p.records : p \in resolved}
             old == [o \in DOMAIN heap |-> IF o \in changed THEN Join!With(heap[o], j.field, Got(heap[o])) ELSE heap[o]]
             come == [i \in DOMAIN new |-> [doc |-> new[i], joins |-> <<>>, selection |-> j.selection]]
             places == {i \in DOMAIN unresolved : Having(unresolved[i].value) = {}}
  <1>1. rest = Join!Kept(unresolved, places) /\ later = old \o come
    BY DEF Join!JoinRecords
  <1> HIDE DEF after, later, rest
  <1> HIDE DEF ref
  <1>2. /\ DOMAIN heap = 1..size /\ size \in Nat /\ DOMAIN new = 1..Len(new) /\ Len(new) \in Nat
        /\ unresolved \in Seq(Join!ToSet(unresolved))
        /\ \A o \in DOMAIN heap : IsRecord(heap[o])
    BY Sequence DEF IsHeap, IsSeq, Lists, IsPlan, Join!ToSet, IsRecord
  <1> HIDE DEF size
  \* The heap: what was there, with what it gets, and what comes.
  <1>3. /\ DOMAIN later = DOMAIN heap \cup {size + i : i \in DOMAIN new} /\ IsSeq(later)
        /\ \A o \in DOMAIN heap :
              later[o] = IF o \in changed THEN Join!With(heap[o], j.field, Got(heap[o])) ELSE heap[o]
        /\ \A i \in DOMAIN new : later[size + i] = [doc |-> new[i], joins |-> <<>>, selection |-> j.selection]
    <2> DEFINE X == {old[o] : o \in DOMAIN heap} \cup {come[i] : i \in DOMAIN new}
    <2>1. old \in [1..size -> X] /\ come \in [1..Len(new) -> X]
      <3> HIDE DEF changed, Got
      <3> QED
        BY <1>2
    <2>2. /\ \A o \in DOMAIN heap : old[o] = IF o \in changed THEN Join!With(heap[o], j.field, Got(heap[o])) ELSE heap[o]
          /\ \A i \in DOMAIN new : come[i] = [doc |-> new[i], joins |-> <<>>, selection |-> j.selection]
      OBVIOUS
    <2> HIDE DEF X, old, come, changed, Got
    <2>3. old \in Seq(X) /\ come \in Seq(X) /\ Len(old) = size /\ Len(come) = Len(new)
      BY <1>2, <2>1
    <2>4. later \in Seq(X)
      BY <1>1, <2>3
    <2>5. Len(later) = size + Len(new) /\ DOMAIN later = 1..(size + Len(new))
      <3>0. \A a \in Seq(X), b \in Seq(X) : Len(a \o b) = Len(a) + Len(b)
        OBVIOUS
      <3>1. Len(later) = Len(old) + Len(come)
        BY <1>1, <2>3, <3>0, Zenon
      <3>2. Len(later) = size + Len(new)
        BY <2>3, <3>1
      <3> QED
        BY <2>4, <3>2
    <2>6. \A o \in DOMAIN heap : later[o] = old[o]
      BY <1>1, <1>2, <2>3
    <2>7. \A i \in DOMAIN new : later[size + i] = come[i]
      BY <1>1, <1>2, <2>3
    <2>8. DOMAIN later = DOMAIN heap \cup {size + i : i \in DOMAIN new}
      <3>1. ASSUME NEW o \in 1..(size + Len(new)), o \notin 1..size PROVE o \in {size + i : i \in 1..Len(new)}
        <4>1. \A m \in Nat, c \in Nat : o \in 1..(m + c) /\ o \notin 1..m => o - m \in 1..c /\ o = m + (o - m)
          BY SMT
        <4>2. size \in Nat /\ Len(new) \in Nat
          BY <1>2
        <4>3. o - size \in 1..Len(new) /\ o = size + (o - size)
          BY <3>1, <4>1, <4>2
        <4> QED
          BY <4>3
      <3>2. 1..size \subseteq 1..(size + Len(new)) /\ \A i \in 1..Len(new) : size + i \in 1..(size + Len(new))
        BY <1>2
      <3> QED
        BY <1>2, <2>5, <3>1, <3>2
    <2> QED
      BY <2>2, <2>4, <2>6, <2>7, <2>8, Sequence
  <1> HIDE DEF old, come
  <1>4. \A o \in DOMAIN heap : IsRecord(later[o]) /\ later[o].doc = heap[o].doc /\ later[o].selection = heap[o].selection
    <2> TAKE o \in DOMAIN heap
    <2> HIDE DEF changed, Got
    <2> QED
      BY <1>2, <1>3, WithIs
  <1>5. SameRecords(heap, later)
    BY <1>3, <1>4 DEF SameRecords
  \* The places of the frame's records.
  <1>6. \A o \in Join!ToSet(frame.records) : o \in DOMAIN heap /\ heap[o].doc.coll = frame.coll
    <2>1. \A i \in DOMAIN frame.records : frame.records[i] \in DOMAIN heap /\ heap[frame.records[i]].doc.coll = frame.coll
      BY DEF IsFrame
    <2> QED
      BY <2>1 DEF Join!ToSet
  <1>7. ASSUME NEW i \in DOMAIN unresolved, NEW o \in unresolved[i].records
        PROVE  /\ o \in DOMAIN heap /\ heap[o].doc.coll = frame.coll /\ o \in Join!ToSet(frame.records)
               /\ unresolved[i].value \in Join!ToSet(Join!Values(heap[o].doc, ref.on))
               /\ ref.on = "out_msgs" => j.field \in DOMAIN heap[o].joins
    BY <1>6 DEF IsPlan, ref
  \* A value that an answer has a record for, has the first one.
  <1>8. ASSUME NEW value, Having(value) # {}
        PROVE  /\ IsJoined(later, First(value), value, ref) /\ First(value) # Null
               /\ First(value) \in DOMAIN later
    <2>1. Having(value) \in SUBSET Nat
      BY <1>2
    <2>2. \E i \in Having(value) : \A k \in Having(value) : i <= k
      <3> HIDE DEF Having
      <3> QED
        BY <1>8, <2>1, Least
    <2> DEFINE i == CHOOSE i \in Having(value) : \A k \in Having(value) : i <= k
    <2>3. i \in Having(value)
      <3> HIDE DEF Having
      <3> QED
        BY <2>2
    <2>4. First(value) = size + i
      OBVIOUS
    <2> HIDE DEF i, First
    <2>5. i \in DOMAIN new /\ value \in Join!ToSet(Join!Values(new[i], ref.refOn)) /\ i \in Nat
      BY <2>3, <1>2
    <2>6. later[size + i].doc = new[i] /\ new[i].coll = ref.collection /\ size + i \in DOMAIN later
      <3>1. later[size + i] = [doc |-> new[i], joins |-> <<>>, selection |-> j.selection]
        BY <1>3, <2>5
      <3>2. size + i \in DOMAIN later
        BY <1>3, <2>5
      <3>3. new[i].coll = ref.collection
        BY <2>5 DEF Lists, ref
      <3> QED
        BY <3>1, <3>2, <3>3
    <2>7. size + i \in Nat
      BY <1>2, <2>5
    <2> QED
      BY <2>4, <2>5, <2>6, <2>7, QueriesAssumption DEF IsJoined
  <1> HIDE DEF First
  <1>9. \A value \in values : Having(value) # {}
    <2> HIDE DEF Having
    <2> QED
      OBVIOUS
  <1>10. \A o \in changed : \E i \in DOMAIN unresolved : o \in unresolved[i].records /\ unresolved[i].value \in values
    <2> HIDE DEF Having
    <2> QED
      BY DEF Join!ToSet
  <1> HIDE DEF Having, values
  <1>11. ASSUME NEW o \in changed
         PROVE  /\ o \in DOMAIN heap /\ heap[o].doc.coll = frame.coll /\ later[o] = Join!With(heap[o], j.field, Got(heap[o]))
                /\ DOMAIN later[o].joins = DOMAIN heap[o].joins \cup {j.field}
                /\ later[o].joins[j.field] = Got(heap[o])
                /\ \A f \in DOMAIN heap[o].joins : f # j.field => later[o].joins[f] = heap[o].joins[f]
                /\ Join!Field(heap[o].doc, ref.on) # Null
                /\ ref.on = "out_msgs" => j.field \in DOMAIN heap[o].joins
                /\ ref.on # "out_msgs" => heap[o].doc[ref.on] \in values
    <2> PICK i \in DOMAIN unresolved : o \in unresolved[i].records /\ unresolved[i].value \in values
      BY <1>10
    <2> HIDE DEF changed, Got
    <2>1. /\ o \in DOMAIN heap /\ heap[o].doc.coll = frame.coll
          /\ unresolved[i].value \in Join!ToSet(Join!Values(heap[o].doc, ref.on))
          /\ ref.on = "out_msgs" => j.field \in DOMAIN heap[o].joins
      BY <1>7
    <2>2. later[o] = Join!With(heap[o], j.field, Got(heap[o]))
      BY <1>3, <1>11, <2>1
    <2>3. IsDocument(heap[o].doc)
      BY <2>1 DEF IsHeap
    <2>4. Join!Field(heap[o].doc, ref.on) # Null
      <3>1. Join!Values(heap[o].doc, ref.on) # <<>>
        BY <2>1 DEF Join!ToSet
      <3> QED
        BY <2>3, <3>1, ValuesAre
    <2>5. ref.on # "out_msgs" => heap[o].doc[ref.on] = unresolved[i].value
      <3> SUFFICES ASSUME ref.on # "out_msgs" PROVE heap[o].doc[ref.on] = unresolved[i].value
        OBVIOUS
      <3>1. Join!Values(heap[o].doc, ref.on) = <<heap[o].doc[ref.on]>>
        BY <2>3, <2>4, ValuesAre
      <3>2. Join!ToSet(<<heap[o].doc[ref.on]>>) = {heap[o].doc[ref.on]}
        BY DEF Join!ToSet
      <3> QED
        BY <2>1, <3>1, <3>2
    <2>6. /\ DOMAIN later[o].joins = DOMAIN heap[o].joins \cup {j.field}
          /\ later[o].joins[j.field] = Got(heap[o])
          /\ \A f \in DOMAIN heap[o].joins : f # j.field => later[o].joins[f] = heap[o].joins[f]
      BY <1>2, <2>1, <2>2, WithIs
    <2> QED
      BY <2>1, <2>2, <2>4, <2>5, <2>6
  <1>12. ASSUME NEW o \in DOMAIN heap, NEW f \in DOMAIN later[o].joins PROVE GotRight(later, o, f)
    <2>1. CASE o \in changed /\ f = j.field
      <3>1. later[o].doc = heap[o].doc /\ heap[o].doc.coll = frame.coll /\ Join!JoinFields[later[o].doc.coll][f] = ref
        BY <1>4, <1>11, <2>1 DEF ref
      <3>2. CASE ref.on = "out_msgs"
        <4> DEFINE got == heap[o].joins[f]  msgs == heap[o].doc.out_msgs
        <4>1. f \in DOMAIN heap[o].joins
          BY <1>11, <2>1, <3>2
        <4>2. GotRight(heap, o, f)
          BY <4>1 DEF IsHeap
        <4>3. DOMAIN got = DOMAIN msgs /\ \A i \in DOMAIN got : got[i] # Null => IsJoined(heap, got[i], msgs[i], ref)
          BY <3>1, <3>2, <4>2 DEF GotRight
        <4>4. later[o].joins[f] = [i \in DOMAIN got |-> IF msgs[i] \in values THEN First(msgs[i]) ELSE got[i]]
          <5> HIDE DEF changed
          <5>1. later[o].joins[f] = Got(heap[o])
            BY <1>11, <2>1
          <5>2. Got(heap[o]) = [i \in DOMAIN got |-> IF msgs[i] \in values THEN First(msgs[i]) ELSE got[i]]
            BY <2>1, <3>2
          <5> QED
            BY <5>1, <5>2
        <4> HIDE DEF got, msgs
        <4>5. \A i \in DOMAIN got : later[o].joins[f][i] # Null => IsJoined(later, later[o].joins[f][i], msgs[i], ref)
          <5> TAKE i \in DOMAIN got
          <5>1. CASE msgs[i] \in values
            BY <1>8, <1>9, <4>4, <5>1
          <5>2. CASE msgs[i] \notin values
            <6>1. later[o].joins[f][i] = got[i]
              BY <4>4, <5>2
            <6>2. IsJoined(heap, got[i], msgs[i], ref) => IsJoined(later, got[i], msgs[i], ref)
              BY <1>5 DEF IsJoined, SameRecords
            <6> QED
              BY <4>3, <6>1, <6>2
          <5> QED
            BY <5>1, <5>2
        <4>6. DOMAIN later[o].joins[f] = DOMAIN msgs
          BY <4>3, <4>4
        <4>7. Join!Field(later[o].doc, ref.on) # Null /\ msgs = later[o].doc.out_msgs
          BY <1>11, <2>1, <3>1 DEF msgs
        <4> HIDE DEF changed, Got
        <4> QED
          BY <3>1, <3>2, <4>3, <4>5, <4>6, <4>7 DEF GotRight
      <3>3. CASE ref.on # "out_msgs"
        <4>1. later[o].joins[f] = First(heap[o].doc[ref.on])
          <5> HIDE DEF changed
          <5>1. later[o].joins[f] = Got(heap[o])
            BY <1>11, <2>1
          <5> QED
            BY <3>3, <5>1
        <4> HIDE DEF changed, Got
        <4>2. heap[o].doc[ref.on] \in values /\ Join!Field(heap[o].doc, ref.on) # Null
          BY <1>11, <2>1, <3>3
        <4>3. IsJoined(later, First(heap[o].doc[ref.on]), heap[o].doc[ref.on], ref)
          BY <1>8, <1>9, <4>2
        <4> QED
          BY <3>1, <3>3, <4>1, <4>2, <4>3 DEF GotRight
      <3> QED
        BY <3>2, <3>3
    <2>2. CASE ~(o \in changed /\ f = j.field)
      <3> HIDE DEF Got
      <3>1. f \in DOMAIN heap[o].joins /\ later[o].joins[f] = heap[o].joins[f]
        <4> HIDE DEF changed
        <4>1. CASE o \in changed
          BY <1>11, <1>12, <2>2, <4>1
        <4>2. CASE o \notin changed
          BY <1>3, <1>12, <4>2
        <4> QED
          BY <4>1, <4>2
      <3>2. GotRight(heap, o, f)
        BY <3>1 DEF IsHeap
      <3> QED
        BY <1>5, <3>1, <3>2, GotRightStays
    <2> QED
      BY <2>1, <2>2
  <1> HIDE DEF Got, changed
  <1>13. IsHeap(later)
    <2>1. ASSUME NEW o \in DOMAIN later
          PROVE  /\ DOMAIN later[o] = {"doc", "joins", "selection"} /\ IsDocument(later[o].doc) /\ later[o].selection \in Selections
                 /\ \A f \in DOMAIN later[o].joins : GotRight(later, o, f)
      <3>1. CASE o \in DOMAIN heap
        BY <1>4, <1>12, <3>1 DEF IsHeap, IsRecord
      <3>2. CASE o \notin DOMAIN heap
        <4>1. PICK i \in DOMAIN new : o = size + i
          BY <1>3, <2>1, <3>2
        <4>2. later[o] = [doc |-> new[i], joins |-> <<>>, selection |-> j.selection]
          BY <1>3, <4>1
        <4>3. DOMAIN later[o].joins = {}
          BY <4>2
        <4> QED
          BY <4>2, <4>3 DEF Lists
      <3> QED
        BY <3>1, <3>2
    <2> QED
      BY <1>3, <2>1 DEF IsHeap
  \* The plan: what is left of it.
  <1>14. /\ rest \in Seq(Join!ToSet(unresolved))
         /\ \A k \in DOMAIN rest : \E i \in DOMAIN unresolved \cap places : rest[k] = unresolved[i]
         /\ \A i \in DOMAIN unresolved \cap places : \E k \in DOMAIN rest : rest[k] = unresolved[i]
    <2> HIDE DEF places
    <2>1. rest \in Seq(Join!ToSet(unresolved))
      BY <1>1, <1>2, KeptIs
    <2> QED
      BY <1>1, <1>2, <2>1, KeptIs
  <1>15. IsPlan(later, frame, j.field, rest)
    <2>1. IsSeq(rest)
      BY <1>14, Sequence
    <2>2. ASSUME NEW k \in DOMAIN rest, NEW o \in rest[k].records
          PROVE  /\ o \in Join!ToSet(frame.records)
                 /\ rest[k].value \in Join!ToSet(Join!Values(later[o].doc, ref.on))
                 /\ ref.on = "out_msgs" => j.field \in DOMAIN later[o].joins
      <3>1. PICK i \in DOMAIN unresolved : rest[k] = unresolved[i]
        BY <1>14
      <3>2. /\ o \in DOMAIN heap /\ o \in Join!ToSet(frame.records)
            /\ rest[k].value \in Join!ToSet(Join!Values(heap[o].doc, ref.on))
            /\ ref.on = "out_msgs" => j.field \in DOMAIN heap[o].joins
        BY <1>7, <2>2, <3>1
      <3>3. later[o].doc = heap[o].doc
        BY <1>4, <3>2
      <3>4. j.field \in DOMAIN heap[o].joins => j.field \in DOMAIN later[o].joins
        BY <1>3, <1>11, <3>2
      <3> QED
        BY <3>2, <3>3, <3>4
    <2> QED
      BY <2>1, <2>2 DEF IsPlan, ref
  \* What lacks its record then, lacked it before, and no record came for it.
  <1>16. ASSUME NEW o \in DOMAIN heap, NEW f, NEW value, NEW by, by = Join!JoinFields[heap[o].doc.coll][f].on,
                Unlinked(later[o], by, f, value)
         PROVE  /\ Unlinked(heap[o], by, f, value)
                /\ o \in changed /\ f = j.field => value \notin values
    <2>1. CASE o \in changed /\ f = j.field
      <3>1. later[o].doc = heap[o].doc /\ by = ref.on /\ f \in DOMAIN later[o].joins /\ later[o].joins[f] = Got(heap[o])
        BY <1>4, <1>11, <1>16, <2>1 DEF ref
      <3>2. IsDocument(heap[o].doc) /\ Join!Field(heap[o].doc, by) # Null
        BY <1>11, <2>1, <3>1 DEF IsHeap
      <3>3. CASE by = "out_msgs"
        <4> DEFINE got == heap[o].joins[f]  msgs == heap[o].doc.out_msgs  now == later[o].joins[f]
        <4>1. Join!Values(heap[o].doc, by) = msgs
          BY <3>2, <3>3, ValuesAre
        <4>2. now = [i \in DOMAIN got |-> IF msgs[i] \in values THEN First(msgs[i]) ELSE got[i]]
          BY <2>1, <3>1, <3>3 DEF Got
        <4>3. f \in DOMAIN heap[o].joins
          BY <1>11, <2>1, <3>1, <3>3
        <4>4. DOMAIN got = DOMAIN msgs
          <5>1. GotRight(heap, o, f)
            BY <4>3 DEF IsHeap
          <5> QED
            BY <3>3, <5>1, <1>16 DEF GotRight
        <4> HIDE DEF got, msgs, now
        <4>5. Join!LinksOf(later[o], by, f) = {[value |-> msgs[i], record |-> now[i]] : i \in DOMAIN msgs}
          BY <3>1, <3>3, <4>1 DEF Join!LinksOf, now
        <4>6. Join!LinksOf(heap[o], by, f) = {[value |-> msgs[i], record |-> got[i]] : i \in DOMAIN msgs}
          BY <3>1, <3>3, <4>1, <4>3 DEF Join!LinksOf, got
        <4>7. PICK i \in DOMAIN msgs : now[i] = Null /\ msgs[i] = value
          BY <1>16, <4>5 DEF Unlinked
        <4>8. msgs[i] \notin values
          BY <1>8, <1>9, <4>2, <4>4, <4>7
        <4>9. got[i] = Null
          BY <4>2, <4>4, <4>7, <4>8
        <4>10. [value |-> msgs[i], record |-> got[i]] \in Join!LinksOf(heap[o], by, f)
          BY <4>6
        <4> QED
          BY <4>7, <4>8, <4>9, <4>10 DEF Unlinked
      <3>4. CASE by # "out_msgs"
        <4>1. later[o].joins[f] = First(heap[o].doc[ref.on]) /\ heap[o].doc[ref.on] \in values
          BY <1>11, <2>1, <3>1, <3>4 DEF Got
        <4>2. later[o].joins[f] # Null
          BY <1>8, <1>9, <4>1
        <4>3. \A link \in Join!LinksOf(later[o], by, f) : link.record = later[o].joins[f]
          <5>1. Join!Values(later[o].doc, by) = <<heap[o].doc[by]>>
            BY <3>1, <3>2, <3>4, ValuesAre
          <5>2. DOMAIN <<heap[o].doc[by]>> = {1}
            OBVIOUS
          <5> QED
            BY <3>1, <3>4, <5>1, <5>2 DEF Join!LinksOf
        <4> QED
          BY <1>16, <4>2, <4>3 DEF Unlinked
      <3> QED
        BY <3>3, <3>4
    <2>2. CASE ~(o \in changed /\ f = j.field)
      <3>1. /\ f \in DOMAIN heap[o].joins <=> f \in DOMAIN later[o].joins
            /\ f \in DOMAIN heap[o].joins => later[o].joins[f] = heap[o].joins[f]
        <4>1. CASE o \in changed
          BY <1>11, <2>2, <4>1
        <4>2. CASE o \notin changed
          BY <1>3, <4>2
        <4> QED
          BY <4>1, <4>2
      <3> QED
        BY <1>4, <1>16, <2>2, <3>1, SameLinks
    <2> QED
      BY <2>1, <2>2
  <1>17. ASSUME NEW o \in DOMAIN heap, NEW f, NEW value, f = j.field,
                Unlinked(later[o], Join!JoinFields[heap[o].doc.coll][f].on, f, value),
                NEW i \in DOMAIN unresolved, o \in unresolved[i].records, unresolved[i].value = value
         PROVE  \E k \in DOMAIN rest : rest[k] = unresolved[i]
    <2>1. CASE Having(value) = {}
      <3>1. i \in DOMAIN unresolved \cap places
        BY <1>17, <2>1
      <3> HIDE DEF places
      <3> QED
        BY <1>14, <3>1
    <2>2. CASE Having(value) # {}
      <3>1. unresolved[i] \in resolved
        BY <1>17, <2>2 DEF Join!ToSet
      <3>2. value \in values /\ o \in changed
        <4> HIDE DEF resolved
        <4> QED
          BY <1>17, <3>1 DEF values, changed
      <3> QED
        BY <1>16, <1>17, <3>2
    <2> QED
      BY <2>1, <2>2
  <1> HIDE DEF places, resolved
  <1>18. /\ DOMAIN later = DOMAIN heap \cup {size + i : i \in DOMAIN new}
         /\ \A i \in DOMAIN new : later[size + i] = [doc |-> new[i], joins |-> <<>>, selection |-> j.selection]
    BY <1>3
  <1>19. \A o \in DOMAIN heap : \A f, value :
            Unlinked(later[o], Join!JoinFields[heap[o].doc.coll][f].on, f, value) =>
               /\ Unlinked(heap[o], Join!JoinFields[heap[o].doc.coll][f].on, f, value)
               /\ f = j.field => \A i \in DOMAIN unresolved :
                     o \in unresolved[i].records /\ unresolved[i].value = value =>
                        \E k \in DOMAIN rest : rest[k] = unresolved[i]
    BY <1>16, <1>17
  <1> QED
    BY <1>5, <1>13, <1>15, <1>18, <1>19 DEF after, later, rest, ref, size, AreAnswered

-----------------------------------------------------------------------------
(* Steps of joins *)

\* A sequence has the elements of one and then those of another.
IsConcat(a, b, c) ==
    /\ IsSeq(c) /\ Len(a) \in Nat /\ Len(b) \in Nat /\ Len(c) = Len(a) + Len(b)
    /\ DOMAIN a = 1..Len(a) /\ DOMAIN b = 1..Len(b) /\ DOMAIN c = 1..(Len(a) + Len(b))
    /\ \A i \in DOMAIN a : i \in DOMAIN c /\ c[i] = a[i]
    /\ \A i \in DOMAIN b : Len(a) + i \in DOMAIN c /\ c[Len(a) + i] = b[i]
    /\ \A i \in DOMAIN c : i \in DOMAIN a \/ (i - Len(a) \in DOMAIN b /\ c[i] = b[i - Len(a)])

\* A concatenation has the elements of both sequences, and no others.
LEMMA ConcatIs ==
    ASSUME NEW a, IsSeq(a), NEW b, IsSeq(b)
    PROVE  IsConcat(a, b, a \o b)
  <1> DEFINE X == {a[i] : i \in DOMAIN a} \cup {b[i] : i \in DOMAIN b}
  <1>1. a \in Seq(X) /\ b \in Seq(X)
    BY DEF IsSeq
  <1> HIDE DEF X
  <1>2. a \o b \in Seq(X)
    BY <1>1
  <1>3. Len(a \o b) = Len(a) + Len(b) /\ Len(a) \in Nat /\ Len(b) \in Nat
        /\ DOMAIN a = 1..Len(a) /\ DOMAIN b = 1..Len(b) /\ DOMAIN (a \o b) = 1..(Len(a) + Len(b))
    BY <1>1, <1>2
  <1>4. \A i \in DOMAIN a : i \in DOMAIN (a \o b) /\ (a \o b)[i] = a[i]
    BY <1>1, <1>2
  <1>5. \A i \in DOMAIN b : Len(a) + i \in DOMAIN (a \o b) /\ (a \o b)[Len(a) + i] = b[i]
    BY <1>1, <1>2
  <1>6. \A i \in DOMAIN (a \o b) : i \in DOMAIN a \/ (i - Len(a) \in DOMAIN b /\ (a \o b)[i] = b[i - Len(a)])
    BY <1>1, <1>2
  <1>7. IsSeq(a \o b)
    BY <1>2, Sequence
  <1> QED
    BY <1>3, <1>4, <1>5, <1>6, <1>7 DEF IsConcat

\* A sequence without its last element has the others.
LEMMA FrontIs ==
    ASSUME NEW s, IsSeq(s), s # <<>>
    PROVE  /\ IsSeq(Join!Front(s)) /\ Len(s) \in Nat \ {0} /\ DOMAIN s = 1..Len(s)
           /\ Len(Join!Front(s)) = Len(s) - 1 /\ DOMAIN Join!Front(s) = 1..(Len(s) - 1)
           /\ \A i \in DOMAIN Join!Front(s) : Join!Front(s)[i] = s[i]
           /\ Len(s) \in DOMAIN s /\ Join!Last(s) = s[Len(s)]
           /\ Join!Front(s) = <<>> <=> Len(s) = 1
  <1> DEFINE X == {s[i] : i \in DOMAIN s}
  <1>1. s \in Seq(X)
    BY DEF IsSeq
  <1> HIDE DEF X
  <1>2. Len(s) \in Nat \ {0} /\ DOMAIN s = 1..Len(s)
    BY <1>1
  <1>3. Join!Front(s) = [i \in 1..(Len(s) - 1) |-> s[i]]
    BY <1>1, <1>2 DEF Join!Front
  <1>4. IsSeq(Join!Front(s)) /\ Len(Join!Front(s)) = Len(s) - 1
    BY <1>2, <1>3, FunctionSequence
  <1>5. Join!Front(s) = <<>> <=> Len(s) = 1
    <2>1. Len(s) = 1 => Join!Front(s) = <<>>
      BY <1>2, <1>3
    <2>2. Len(s) # 1 => 1 \in DOMAIN Join!Front(s)
      BY <1>2, <1>3
    <2> QED
      BY <2>1, <2>2
  <1> QED
    BY <1>2, <1>3, <1>4, <1>5 DEF Join!Last

\* A sequence without its first element has the others.
LEMMA TailIs ==
    ASSUME NEW s, IsSeq(s), s # <<>>
    PROVE  /\ IsSeq(Tail(s)) /\ 1 \in DOMAIN s /\ Head(s) = s[1]
           /\ \A i \in DOMAIN Tail(s) : i + 1 \in DOMAIN s /\ Tail(s)[i] = s[i + 1]
           /\ Join!ToSet(s) = Join!ToSet(Tail(s)) \cup {Head(s)}
  <1> DEFINE X == {s[i] : i \in DOMAIN s}
  <1>1. s \in Seq(X)
    BY DEF IsSeq
  <1> HIDE DEF X
  <1>2. Len(s) \in Nat \ {0} /\ DOMAIN s = 1..Len(s) /\ Head(s) = s[1]
    BY <1>1
  <1>3. Tail(s) \in Seq(X) /\ DOMAIN Tail(s) = 1..(Len(s) - 1)
        /\ \A i \in DOMAIN Tail(s) : i + 1 \in DOMAIN s /\ Tail(s)[i] = s[i + 1]
    BY <1>1, <1>2
  <1>4. Join!ToSet(s) = Join!ToSet(Tail(s)) \cup {Head(s)}
    <2>1. \A i \in DOMAIN s : i = 1 \/ (i - 1 \in DOMAIN Tail(s) /\ Tail(s)[i - 1] = s[i])
      BY <1>2, <1>3
    <2> QED
      BY <1>2, <1>3, <2>1 DEF Join!ToSet
  <1>5. IsSeq(Tail(s))
    BY <1>3, Sequence
  <1> QED
    BY <1>2, <1>3, <1>4, <1>5

\* Frames and more frames are frames.
LEMMA FramesConcat ==
    ASSUME NEW heap, NEW a, AreFrames(heap, a), NEW b, AreFrames(heap, b)
    PROVE  AreFrames(heap, a \o b)
  <1> DEFINE c == a \o b
  <1>1. IsConcat(a, b, c)
    BY ConcatIs DEF AreFrames
  <1> HIDE DEF c
  <1>2. ASSUME NEW i \in DOMAIN c PROVE IsFrame(heap, c[i])
    BY <1>1, <1>2 DEF IsConcat, AreFrames
  <1> QED
    BY <1>1, <1>2 DEF AreFrames, IsConcat, c

\* One or two frames are frames.
LEMMA FewFrames ==
    ASSUME NEW heap, NEW a, IsFrame(heap, a), NEW b, IsFrame(heap, b)
    PROVE  AreFrames(heap, <<a>>) /\ AreFrames(heap, <<a, b>>) /\ AreFrames(heap, <<>>)
  <1>1. <<a>> \in Seq({a}) /\ <<a, b>> \in Seq({a, b}) /\ <<>> \in Seq({})
    OBVIOUS
  <1>2. IsSeq(<<a>>) /\ IsSeq(<<a, b>>) /\ IsSeq(<<>>)
    BY <1>1, Sequence
  <1>3. DOMAIN <<a>> = {1} /\ DOMAIN <<a, b>> = {1, 2} /\ DOMAIN <<>> = {}
    OBVIOUS
  <1> QED
    BY <1>2, <1>3 DEF AreFrames


\* A step of one request keeps the invariant, if it does for that request.
LEMMA OneRequest ==
    ASSUME JoinInv, NEW r \in Request, JoinDomains',
           \A x \in Request \ {r} :
              /\ joining'[x] = joining[x] /\ objects'[x] = objects[x] /\ frames'[x] = frames[x] /\ join'[x] = join[x]
              /\ joined'[x] = joined[x] /\ plan'[x] = plan[x] /\ gaveUp'[x] = gaveUp[x],
           RequestInv(joining'[r], objects'[r], frames'[r], join'[r], joined'[r], plan'[r], gaveUp'[r])
    PROVE  JoinInv'
  BY DEF JoinInv

\* A list of documents becomes a heap, and a frame of all of them.
LEMMA BeginKeeps ==
    ASSUME FindInv, JoinInv, NEW r \in Request, Join!Begin(r)
    PROVE  JoinInv'
  <1> DEFINE docs == records[r]
             q == asked[r]
             heap == [i \in DOMAIN docs |-> [doc |-> docs[i], joins |-> <<>>, selection |-> q.joins]]
             frame == [coll |-> q.coll, records |-> [i \in DOMAIN docs |-> i], selection |-> q.joins]
  <1>1. JoinDomains' /\ joining'[r] = "next" /\ objects'[r] = heap /\ frames'[r] = <<frame>>
        /\ join'[r] = join[r] /\ joined'[r] = joined[r] /\ plan'[r] = plan[r] /\ gaveUp'[r] = gaveUp[r]
    BY DEF Join!Begin, JoinInv, JoinDomains
  <1>2. \A x \in Request \ {r} :
              /\ joining'[x] = joining[x] /\ objects'[x] = objects[x] /\ frames'[x] = frames[x] /\ join'[x] = join[x]
              /\ joined'[x] = joined[x] /\ plan'[x] = plan[x] /\ gaveUp'[x] = gaveUp[x]
    BY DEF Join!Begin, JoinInv, JoinDomains
  <1>3. joined[r] = <<>> /\ plan[r] = <<>>
    BY DEF JoinInv, RequestInv, Join!Begin
  <1>4. Lists(docs, q.coll) /\ q.joins \in Selections
    <2>1. records[r] # Null
      BY DEF Join!Begin
    <2>2. Lists(docs, q.coll) /\ phase[r] # "idle" /\ q \in Asks[r]
      BY <2>1 DEF FindInv, ReadRight
    <2> QED
      BY <2>2, QueriesAssumption
  <1> HIDE DEF docs, q
  <1>5. DOMAIN docs = 1..Len(docs) /\ Len(docs) \in Nat
    BY <1>4, Sequence DEF Lists, IsSeq
  <1>6. IsHeap(heap)
    <2>1. IsSeq(heap)
      <3>1. heap = [i \in 1..Len(docs) |-> heap[i]] /\ DOMAIN heap = 1..Len(docs)
        BY <1>5
      <3> HIDE DEF heap
      <3> QED
        BY <1>5, <3>1, FunctionSequence
    <2>2. ASSUME NEW o \in DOMAIN heap
          PROVE  /\ DOMAIN heap[o] = {"doc", "joins", "selection"} /\ heap[o].doc = docs[o]
                 /\ heap[o].selection = q.joins /\ DOMAIN heap[o].joins = {} /\ o \in DOMAIN docs
      OBVIOUS
    <2> HIDE DEF heap
    <2> QED
      BY <1>4, <2>1, <2>2 DEF IsHeap, Lists
  <1>7. IsFrame(heap, frame)
    <2>1. frame.records \in Seq(DOMAIN heap)
      <3>1. frame.records \in [1..Len(docs) -> DOMAIN heap]
        BY <1>5
      <3> QED
        BY <1>5, <3>1
    <2>2. \A i \in DOMAIN frame.records : heap[frame.records[i]].doc.coll = frame.coll
      BY <1>4 DEF Lists
    <2>3. IsSeq(q.joins) /\ \A i \in DOMAIN q.joins : q.joins[i].selection \in Selections
      BY <1>4, QueriesAssumption
    <2> HIDE DEF heap
    <2> QED
      BY <2>1, <2>2, <2>3 DEF IsFrame
  <1>8. AreFrames(heap, <<frame>>)
    <2> HIDE DEF heap, frame
    <2> QED
      BY <1>7, FewFrames
  <1>9. Complete(heap, <<frame>>, join[r], <<>>, <<>>)
    <2>1. ASSUME NEW o \in DOMAIN heap, NEW j \in Join!ToSet(heap[o].selection), NEW value
          PROVE  Pending(<<frame>>, join[r], <<>>, <<>>, o, j, value)
      <3>1. heap[o].selection = q.joins /\ o \in DOMAIN docs
        OBVIOUS
      <3>2. frame.records[o] = o /\ o \in DOMAIN frame.records
        BY <3>1
      <3>3. j \in Join!ToSet(frame.selection) /\ o \in Join!ToSet(frame.records)
        BY <2>1, <3>1, <3>2 DEF Join!ToSet
      <3>4. 1 \in DOMAIN <<frame>> /\ <<frame>>[1] = frame
        OBVIOUS
      <3> HIDE DEF frame
      <3> QED
        BY <3>3, <3>4 DEF Pending
    <2> HIDE DEF heap, frame
    <2> QED
      BY <2>1 DEF Complete
  <1>10. <<frame>> # <<>>
    OBVIOUS
  <1> HIDE DEF heap, frame
  <1>11. RequestInv("next", heap, <<frame>>, join[r], <<>>, <<>>, gaveUp[r])
    BY <1>6, <1>8, <1>9, <1>10 DEF RequestInv
  <1> QED
    BY <1>1, <1>2, <1>3, <1>11, OneRequest

\* A frame without joins has nothing that is to be resolved.
LEMMA LeaveKeeps ==
    ASSUME JoinInv, NEW r \in Request, Join!LeaveSelection(r)
    PROVE  JoinInv'
  <1> DEFINE all == frames[r]
             less == Join!Front(all)
             now == IF Len(all) = 1 THEN "done" ELSE "next"
  <1>1. JoinDomains' /\ joining'[r] = now /\ objects'[r] = objects[r] /\ frames'[r] = less
        /\ join'[r] = join[r] /\ joined'[r] = joined[r] /\ plan'[r] = plan[r] /\ gaveUp'[r] = gaveUp[r]
        /\ joining[r] = "next" /\ Join!Last(all).selection = <<>>
    BY DEF Join!LeaveSelection, JoinInv, JoinDomains
  <1>2. \A x \in Request \ {r} :
              /\ joining'[x] = joining[x] /\ objects'[x] = objects[x] /\ frames'[x] = frames[x] /\ join'[x] = join[x]
              /\ joined'[x] = joined[x] /\ plan'[x] = plan[x] /\ gaveUp'[x] = gaveUp[x]
    BY DEF Join!LeaveSelection, JoinInv, JoinDomains
  <1>3. RequestInv("next", objects[r], all, join[r], joined[r], plan[r], gaveUp[r])
    BY <1>1 DEF JoinInv
  <1> HIDE DEF all
  <1>4. IsSeq(all) /\ all # <<>> /\ AreFrames(objects[r], all) /\ IsHeap(objects[r])
        /\ joined[r] = <<>> /\ plan[r] = <<>>
    BY <1>3 DEF RequestInv, AreFrames
  <1>5. /\ IsSeq(less) /\ Len(all) \in Nat \ {0} /\ DOMAIN all = 1..Len(all) /\ DOMAIN less = 1..(Len(all) - 1)
        /\ \A i \in DOMAIN less : less[i] = all[i]
        /\ Join!Last(all) = all[Len(all)] /\ (less = <<>> <=> Len(all) = 1)
    BY <1>4, FrontIs
  <1> HIDE DEF less
  <1>6. AreFrames(objects[r], less)
    <2>1. \A i \in DOMAIN less : i \in DOMAIN all
      BY <1>5
    <2> QED
      BY <1>4, <1>5, <2>1 DEF AreFrames
  <1>7. ~gaveUp[r] => Complete(objects[r], less, join[r], <<>>, <<>>)
    <2> SUFFICES ASSUME Complete(objects[r], all, join[r], <<>>, <<>>) PROVE Complete(objects[r], less, join[r], <<>>, <<>>)
      BY <1>3, <1>4 DEF RequestInv
    <2>1. ASSUME NEW o, NEW j, NEW value, Pending(all, join[r], <<>>, <<>>, o, j, value)
          PROVE  Pending(less, join[r], <<>>, <<>>, o, j, value)
      <3>1. PICK i \in DOMAIN all : j \in Join!ToSet(all[i].selection) /\ o \in Join!ToSet(all[i].records)
        BY <2>1 DEF Pending, Join!ToSet
      <3>2. i # Len(all)
        <4>1. Join!ToSet(<<>>) = {}
          BY DEF Join!ToSet
        <4> QED
          BY <1>1, <1>5, <3>1, <4>1
      <3>3. i \in DOMAIN less /\ less[i] = all[i]
        BY <1>5, <3>2
      <3> QED
        BY <3>1, <3>3 DEF Pending
    <2> QED
      BY <2>1 DEF Complete
  <1>8. now \in {"done", "next"} /\ (now = "next" <=> less # <<>>) /\ now # "query"
    BY <1>5
  <1> HIDE DEF now
  <1>9. RequestInv(now, objects[r], less, join[r], joined[r], plan[r], gaveUp[r])
    BY <1>4, <1>6, <1>7, <1>8 DEF RequestInv
  <1> QED
    BY <1>1, <1>2, <1>9, OneRequest

\* The time limit changes nothing of the records.
LEMMA TimeKeeps ==
    ASSUME JoinInv, NEW r \in Request, Join!TimePasses(r)
    PROVE  JoinInv'
  BY DEF Join!TimePasses, JoinInv, JoinDomains

\* After a failure nothing is left.
LEMMA FailureKeeps ==
    ASSUME JoinInv, NEW r \in Request, Join!JoinFails(r)
    PROVE  JoinInv'
  <1>1. JoinDomains' /\ joining'[r] = "failed" /\ objects'[r] = <<>> /\ frames'[r] = <<>>
        /\ join'[r] = Null /\ joined'[r] = <<>> /\ plan'[r] = <<>> /\ gaveUp'[r] = gaveUp[r]
    BY DEF Join!JoinFails, JoinInv, JoinDomains
  <1>2. \A x \in Request \ {r} :
              /\ joining'[x] = joining[x] /\ objects'[x] = objects[x] /\ frames'[x] = frames[x] /\ join'[x] = join[x]
              /\ joined'[x] = joined[x] /\ plan'[x] = plan[x] /\ gaveUp'[x] = gaveUp[x]
    BY DEF Join!JoinFails, JoinInv, JoinDomains
  <1>3. IsSeq(<<>>) /\ DOMAIN <<>> = {}
    <2>1. <<>> \in Seq({})
      OBVIOUS
    <2>2. IsSeq(<<>>)
      BY <2>1, Sequence, Zenon
    <2> QED
      BY <2>2
  <1>4. RequestInv("failed", <<>>, <<>>, Null, <<>>, <<>>, gaveUp[r])
    BY <1>3 DEF RequestInv, IsHeap, AreFrames, Complete
  <1> QED
    BY <1>1, <1>2, <1>4, OneRequest


\* The frame of a join that begins.
Started(frame) == [frame EXCEPT !.selection = Tail(@)]

\* What is left of a selection is a frame, and its next join has a selection.
LEMMA StartedIs ==
    ASSUME NEW heap, NEW frame, IsFrame(heap, frame), frame.selection # <<>>
    PROVE  /\ IsFrame(heap, Started(frame)) /\ Head(frame.selection).selection \in Selections
           /\ Started(frame).coll = frame.coll /\ Started(frame).records = frame.records
           /\ Join!ToSet(frame.selection) = Join!ToSet(Started(frame).selection) \cup {Head(frame.selection)}
  <1>1. /\ Started(frame).coll = frame.coll /\ Started(frame).records = frame.records
        /\ Started(frame).selection = Tail(frame.selection) /\ DOMAIN Started(frame) = {"coll", "records", "selection"}
    BY DEF Started, IsFrame
  <1>2. IsSeq(frame.selection) /\ \A i \in DOMAIN frame.selection : frame.selection[i].selection \in Selections
    BY DEF IsFrame
  <1>3. /\ IsSeq(Tail(frame.selection)) /\ 1 \in DOMAIN frame.selection /\ Head(frame.selection) = frame.selection[1]
        /\ \A i \in DOMAIN Tail(frame.selection) :
              i + 1 \in DOMAIN frame.selection /\ Tail(frame.selection)[i] = frame.selection[i + 1]
        /\ Join!ToSet(frame.selection) = Join!ToSet(Tail(frame.selection)) \cup {Head(frame.selection)}
    BY <1>2, TailIs
  <1>4. \A i \in DOMAIN Tail(frame.selection) : Tail(frame.selection)[i].selection \in Selections
    BY <1>2, <1>3
  <1> QED
    BY <1>1, <1>2, <1>3, <1>4 DEF IsFrame

\* Frames with others in place of the last one.
Replaced(all, last, new) ==
    /\ \A i \in DOMAIN all \ {Len(all)} : i \in DOMAIN new /\ new[i] = all[i]
    /\ \A i \in DOMAIN last : \E k \in DOMAIN new : new[k] = last[i]
    /\ new # <<>>

\* The last frame may be replaced by others.
LEMMA LastReplaced ==
    ASSUME NEW all, IsSeq(all), all # <<>>, NEW last, IsSeq(last), 1 \in DOMAIN last
    PROVE  Replaced(all, last, Join!Front(all) \o last)
  <1> DEFINE less == Join!Front(all)
             new == less \o last
  <1>1. /\ IsSeq(less) /\ Len(all) \in Nat \ {0} /\ DOMAIN all = 1..Len(all) /\ DOMAIN less = 1..(Len(all) - 1)
        /\ \A i \in DOMAIN less : less[i] = all[i]
    BY FrontIs
  <1> HIDE DEF less
  <1>2. IsConcat(less, last, new)
    BY <1>1, ConcatIs
  <1> HIDE DEF new
  <1>3. \A i \in DOMAIN all \ {Len(all)} : i \in DOMAIN less
    BY <1>1
  <1>4. new # <<>>
    BY <1>2 DEF IsConcat
  <1>5. \A i \in DOMAIN all \ {Len(all)} : i \in DOMAIN new /\ new[i] = all[i]
    BY <1>1, <1>2, <1>3 DEF IsConcat
  <1>6. \A i \in DOMAIN last : \E k \in DOMAIN new : new[k] = last[i]
    BY <1>2 DEF IsConcat
  <1> QED
    BY <1>4, <1>5, <1>6 DEF new, less, Replaced

\* The empty sequence has no elements.
LEMMA NoElements == Join!ToSet(<<>>) = {} /\ DOMAIN <<>> = {}
  BY DEF Join!ToSet

\* A plan has each value of a record that can be joined.
LEMMA InPlan ==
    ASSUME NEW heap, NEW coll, NEW j, NEW main, NEW built, IsBuilt(heap, coll, j, main, built),
           NEW o \in Join!ToSet(main), Join!CanJoin(coll, j, heap[o].doc),
           NEW v \in Join!ToSet(Join!Values(heap[o].doc, Join!JoinFields[coll][j.field].on))
    PROVE  \E i \in DOMAIN built : built[i].value = v /\ o \in built[i].records
  BY DEF IsBuilt

\* What a link is for is a value of its record.
LEMMA LinkValue ==
    ASSUME NEW main, NEW on, NEW field, NEW link \in Join!LinksOf(main, on, field)
    PROVE  link.value \in Join!ToSet(Join!Values(main.doc, on))
  BY DEF Join!LinksOf, Join!ToSet

\* The plan of a join has what the join's frame had to resolve by it.
LEMMA StartCompletes ==
    ASSUME NEW heap, NEW all, NEW under, Complete(heap, all, under, <<>>, <<>>),
           NEW frame, IsFrame(heap, frame), frame.selection # <<>>, frame = all[Len(all)],
           NEW j, j = Head(frame.selection), NEW later, ArePrepared(heap, frame, j, later),
           NEW unresolved, IsBuilt(heap, frame.coll, j, frame.records, unresolved),
           NEW new, \A i \in DOMAIN all \ {Len(all)} : i \in DOMAIN new /\ new[i] = all[i],
           \E i \in DOMAIN new : new[i] = Started(frame)
    PROVE  Complete(later, new, j, <<>>, unresolved)
  <1> DEFINE joinable == {o \in Join!ToSet(frame.records) : Join!CanJoin(frame.coll, j, heap[o].doc)}
  <1>3. \A o \in Join!ToSet(frame.records) : o \in DOMAIN heap /\ heap[o].doc.coll = frame.coll
    <2>1. \A i \in DOMAIN frame.records : frame.records[i] \in DOMAIN heap /\ heap[frame.records[i]].doc.coll = frame.coll
      BY DEF IsFrame
    <2> QED
      BY <2>1 DEF Join!ToSet
  <1>4. /\ Started(frame).records = frame.records
        /\ Join!ToSet(frame.selection) = Join!ToSet(Started(frame).selection) \cup {j}
    <2>1. Join!ToSet(frame.selection) = Join!ToSet(Started(frame).selection) \cup {Head(frame.selection)}
          /\ Started(frame).records = frame.records
      BY StartedIs
    <2> QED
      BY <2>1
  <1>6. /\ DOMAIN later = DOMAIN heap /\ SameRecords(heap, later)
        /\ \A o \in DOMAIN heap : \A f, by, value :
              Unlinked(later[o], by, f, value) => Unlinked(heap[o], by, f, value) \/ (f = j.field /\ o \in joinable)
    BY DEF ArePrepared
  <1> HIDE DEF joinable
  <1>7. ASSUME NEW o \in DOMAIN later, NEW k \in Join!ToSet(later[o].selection),
               NEW value \in Join!ToSet(Join!Values(later[o].doc, Join!JoinFields[later[o].doc.coll][k.field].on)),
               Unlinked(later[o], Join!JoinFields[later[o].doc.coll][k.field].on, k.field, value),
               Join!CanJoin(later[o].doc.coll, k, later[o].doc)
        PROVE  Pending(new, j, <<>>, unresolved, o, k, value)
    <2> DEFINE by == Join!JoinFields[heap[o].doc.coll][k.field].on
    <2>1. o \in DOMAIN heap /\ later[o].doc = heap[o].doc /\ later[o].selection = heap[o].selection
      BY <1>6, <1>7 DEF SameRecords
    <2>2. value \in Join!ToSet(Join!Values(heap[o].doc, by))
      BY <1>7, <2>1
    <2>3. Unlinked(later[o], by, k.field, value)
      BY <1>7, <2>1
    <2>4. CASE k.field = j.field /\ o \in joinable
      <3>1. heap[o].doc.coll = frame.coll
        BY <1>3, <2>4 DEF joinable
      <3>2. by = Join!JoinFields[frame.coll][j.field].on
        BY <2>4, <3>1
      <3>3. value \in Join!ToSet(Join!Values(heap[o].doc, Join!JoinFields[frame.coll][j.field].on))
        <4> HIDE DEF by
        <4> QED
          BY <2>2, <3>2
      <3>4. \E i \in DOMAIN unresolved : unresolved[i].value = value /\ o \in unresolved[i].records
        <4>1. o \in Join!ToSet(frame.records) /\ Join!CanJoin(frame.coll, j, heap[o].doc)
          BY <2>4 DEF joinable
        <4>2. IsBuilt(heap, frame.coll, j, frame.records, unresolved)
          OBVIOUS
        <4> QED
          BY ONLY <3>3, <4>1, <4>2, InPlan
      <3> QED
        BY <2>4, <3>4 DEF Pending
    <2>5. CASE Unlinked(heap[o], by, k.field, value)
      <3>2. Pending(all, under, <<>>, <<>>, o, k, value)
        BY <1>7, <2>1, <2>2, <2>5 DEF Complete
      <3>3. PICK i \in DOMAIN all : k \in Join!ToSet(all[i].selection) /\ o \in Join!ToSet(all[i].records)
        <4>1. Join!ToSet(<<>>) = {} /\ DOMAIN <<>> = {}
          BY NoElements
        <4> QED
          BY <3>2, <4>1 DEF Pending
      <3>4. CASE i # Len(all)
        <4>1. i \in DOMAIN new /\ new[i] = all[i]
          BY <3>4
        <4> QED
          BY <3>3, <4>1 DEF Pending
      <3>5. CASE i = Len(all) /\ k \in Join!ToSet(Started(frame).selection)
        <4>1. o \in Join!ToSet(Started(frame).records)
          BY <1>4, <3>3, <3>5
        <4> QED
          BY <3>5, <4>1 DEF Pending
      <3>6. CASE i = Len(all) /\ k = j
        <4>1. o \in Join!ToSet(frame.records) /\ heap[o].doc.coll = frame.coll
          BY <1>3, <3>3, <3>6
        <4>2. o \in joinable
          BY <1>7, <2>1, <3>6, <4>1 DEF joinable
        <4> QED
          BY <2>4, <3>6, <4>2
      <3> QED
        BY <1>4, <3>3, <3>4, <3>5, <3>6
    <2> QED
      BY <1>6, <2>1, <2>3, <2>4, <2>5
  <1> QED
    BY <1>7 DEF Complete

\* A join that begins has a plan, or it is over at once.
LEMMA StartKeeps ==
    ASSUME JoinInv, NEW r \in Request, Join!StartJoin(r)
    PROVE  JoinInv'
  <1> DEFINE heap == objects[r]
             all == frames[r]
             last == Join!Last(all)
             frame == Started(last)
             j == Head(last.selection)
             unresolved == Join!BuildPlan(heap, frame.coll, j, frame.records)
             later == Join!Prepared(heap, frame.coll, j, frame.records)
             next == [coll |-> Join!JoinFields[frame.coll][j.field].collection, records |-> <<>>, selection |-> j.selection]
  <1>1. joining[r] = "next" /\ last.selection # <<>>
    BY DEF Join!StartJoin
  <1>2. RequestInv("next", heap, all, join[r], joined[r], plan[r], gaveUp[r])
    BY <1>1 DEF JoinInv
  <1>3. /\ \/ /\ unresolved = <<>>
              /\ joining'[r] = "next" /\ frames'[r] = Join!Front(all) \o <<frame, next>>
              /\ join'[r] = Null /\ joined'[r] = <<>> /\ plan'[r] = plan[r]
           \/ /\ unresolved # <<>>
              /\ joining'[r] = "query" /\ frames'[r] = Append(Join!Front(all), frame)
              /\ join'[r] = j /\ joined'[r] = joined[r] /\ plan'[r] = unresolved
        /\ objects'[r] = later /\ gaveUp'[r] = gaveUp[r]
        /\ JoinDomains'
        /\ \A x \in Request \ {r} :
              /\ joining'[x] = joining[x] /\ objects'[x] = objects[x] /\ frames'[x] = frames[x] /\ join'[x] = join[x]
              /\ joined'[x] = joined[x] /\ plan'[x] = plan[x] /\ gaveUp'[x] = gaveUp[x]
    <2>1. JoinDomains
      BY DEF JoinInv
    <2>2. CASE unresolved = <<>>
      <3>1. Join!EndJoin(r, frame, j, later, <<>>) /\ UNCHANGED <<plan, gaveUp>>
        BY <2>2 DEF Join!StartJoin, Started
      <3> HIDE DEF later, frame, j
      <3> QED
        BY <2>1, <2>2, <3>1 DEF Join!EndJoin, JoinDomains
    <2>3. CASE unresolved # <<>>
      <3>1. /\ frames' = [frames EXCEPT ![r] = Append(Join!Front(@), frame)]
            /\ joining' = [joining EXCEPT ![r] = "query"]
            /\ objects' = [objects EXCEPT ![r] = later]
            /\ join' = [join EXCEPT ![r] = j] /\ plan' = [plan EXCEPT ![r] = unresolved]
            /\ UNCHANGED <<joined, gaveUp>>
        BY <2>3 DEF Join!StartJoin, Started
      <3> HIDE DEF later, frame, j, unresolved
      <3> QED
        BY <2>1, <2>3, <3>1 DEF JoinDomains
    <2> QED
      BY <2>2, <2>3
  <1> HIDE DEF heap, all, last, j
  <1>4. /\ IsHeap(heap) /\ AreFrames(heap, all) /\ IsSeq(all) /\ all # <<>> /\ joined[r] = <<>> /\ plan[r] = <<>>
        /\ ~gaveUp[r] => Complete(heap, all, join[r], <<>>, <<>>)
    BY <1>2 DEF RequestInv, AreFrames
  <1>5. IsFrame(heap, last)
    BY <1>4, FrontIs DEF AreFrames, last
  <1>6. /\ IsFrame(heap, frame) /\ j.selection \in Selections
        /\ frame.coll = last.coll /\ frame.records = last.records
    BY <1>1, <1>5, StartedIs DEF j
  <1> HIDE DEF frame
  <1>7. /\ IsHeap(later) /\ SameRecords(heap, later)
        /\ \A o \in Join!ToSet(frame.records) :
              Join!CanJoin(frame.coll, j, heap[o].doc) /\ Join!JoinFields[frame.coll][j.field].on = "out_msgs"
              /\ Join!Field(heap[o].doc, "out_msgs") # Null => j.field \in DOMAIN later[o].joins
    <2>1. ArePrepared(heap, frame, j, later)
      BY <1>4, <1>6, PreparedIs
    <2> HIDE DEF later
    <2> QED
      BY <2>1 DEF ArePrepared
  <1>8. /\ IsSeq(unresolved)
        /\ \A i \in DOMAIN unresolved : \A o \in unresolved[i].records :
              /\ o \in Join!ToSet(frame.records) /\ Join!CanJoin(frame.coll, j, heap[o].doc)
              /\ unresolved[i].value \in Join!ToSet(Join!Values(heap[o].doc, Join!JoinFields[frame.coll][j.field].on))
    <2>1. frame.records \in Seq(DOMAIN heap)
      BY <1>6 DEF IsFrame
    <2> QED
      <3>1. IsBuilt(heap, frame.coll, j, frame.records, unresolved)
        BY <1>4, <2>1, BuildPlanIs
      <3> HIDE DEF unresolved
      <3> QED
        BY <3>1 DEF IsBuilt
  <1>9. /\ ArePrepared(heap, last, j, later) /\ IsBuilt(heap, last.coll, j, last.records, unresolved)
        /\ last = all[Len(all)] /\ IsFrame(heap, last)
    <2>1. last.records \in Seq(DOMAIN heap)
      BY <1>5 DEF IsFrame
    <2> QED
      BY <1>4, <1>5, <1>6, <2>1, PreparedIs, BuildPlanIs DEF last, Join!Last
  <1> HIDE DEF later, unresolved
  <1>10. AreFrames(later, Join!Front(all)) /\ IsFrame(later, frame) /\ IsSeq(Join!Front(all))
    <2>1. /\ IsSeq(Join!Front(all)) /\ DOMAIN Join!Front(all) = 1..(Len(all) - 1) /\ DOMAIN all = 1..Len(all) /\ Len(all) \in Nat
          /\ \A i \in DOMAIN Join!Front(all) : Join!Front(all)[i] = all[i]
      BY <1>4, FrontIs
    <2>2. \A i \in DOMAIN Join!Front(all) : i \in DOMAIN all
      BY <2>1
    <2>3. AreFrames(heap, Join!Front(all))
      BY <1>4, <2>1, <2>2 DEF AreFrames
    <2> QED
      BY <1>6, <1>7, <2>1, <2>3, FramesStay, FrameStays
  <1>11. CASE unresolved = <<>>
    <2> DEFINE two == <<frame, next>>
               new == Join!Front(all) \o two
    <2>1. IsFrame(later, next)
      <3>1. <<>> \in Seq(DOMAIN later) /\ DOMAIN <<>> = {}
        OBVIOUS
      <3>2. IsSeq(j.selection) /\ \A i \in DOMAIN j.selection : j.selection[i].selection \in Selections
        BY <1>6, QueriesAssumption
      <3> QED
        BY <3>1, <3>2 DEF IsFrame
    <2> HIDE DEF next
    <2>2. AreFrames(later, two) /\ DOMAIN two = {1, 2} /\ two[1] = frame
      <3>1. AreFrames(later, <<frame, next>>)
        BY <1>10, <2>1, FewFrames
      <3> QED
        BY <3>1
    <2> HIDE DEF two
    <2>3. AreFrames(later, new)
      BY <1>10, <2>2, FramesConcat
    <2>4. /\ \A i \in DOMAIN all \ {Len(all)} : i \in DOMAIN new /\ new[i] = all[i]
          /\ \E k \in DOMAIN new : new[k] = frame
          /\ new # <<>>
      <3>1. IsSeq(two) /\ 1 \in DOMAIN two
        BY <2>2 DEF AreFrames
      <3> QED
        BY <1>4, <2>2, <3>1, LastReplaced DEF Replaced
    <2> HIDE DEF new
    <2>5. ~gaveUp[r] => Complete(later, new, j, <<>>, <<>>)
      BY <1>1, <1>4, <1>9, <1>11, <2>4, StartCompletes DEF frame, j
    <2>6. ~gaveUp[r] => Complete(later, new, Null, <<>>, <<>>)
      <3>1. DOMAIN <<>> = {}
        OBVIOUS
      <3>2. ASSUME NEW o, NEW k, NEW value, Pending(new, j, <<>>, <<>>, o, k, value)
            PROVE  Pending(new, Null, <<>>, <<>>, o, k, value)
        BY <3>1, <3>2 DEF Pending
      <3> QED
        BY <2>5, <3>2 DEF Complete
    <2>7. RequestInv("next", later, new, Null, <<>>, <<>>, gaveUp[r])
      BY <1>7, <2>3, <2>4, <2>6 DEF RequestInv
    <2>8. /\ joining'[r] = "next" /\ objects'[r] = later /\ frames'[r] = new /\ join'[r] = Null
          /\ joined'[r] = <<>> /\ plan'[r] = <<>> /\ gaveUp'[r] = gaveUp[r]
      BY <1>3, <1>4, <1>11 DEF new, two
    <2> QED
      BY <1>3, <2>7, <2>8, OneRequest
  <1>12. CASE unresolved # <<>>
    <2> DEFINE one == <<frame>>
               new == Join!Front(all) \o one
    <2>1. AreFrames(later, one) /\ DOMAIN one = {1} /\ one[1] = frame
      <3>1. AreFrames(later, <<frame>>)
        BY <1>10, FewFrames
      <3> QED
        BY <3>1
    <2>2. Append(Join!Front(all), frame) = new
      <3> DEFINE X == {Join!Front(all)[i] : i \in DOMAIN Join!Front(all)} \cup {frame}
      <3>1. Join!Front(all) \in Seq(X) /\ frame \in X
        BY <1>10 DEF IsSeq
      <3>2. \A s \in Seq(X), x \in X : Append(s, x) = s \o <<x>>
        OBVIOUS
      <3> HIDE DEF X
      <3> QED
        BY <3>1, <3>2
    <2> HIDE DEF one
    <2>3. AreFrames(later, new)
      BY <1>10, <2>1, FramesConcat
    <2>4. /\ \A i \in DOMAIN all \ {Len(all)} : i \in DOMAIN new /\ new[i] = all[i]
          /\ \E k \in DOMAIN new : new[k] = frame
          /\ new # <<>>
      <3>1. IsSeq(one) /\ 1 \in DOMAIN one
        BY <2>1 DEF AreFrames
      <3>2. Replaced(all, one, new)
        BY <1>4, <3>1, LastReplaced
      <3> HIDE DEF new
      <3> QED
        BY <2>1, <3>1, <3>2 DEF Replaced
    <2>5. Join!Last(new) = frame
      <3>1. IsSeq(one) /\ IsSeq(Join!Front(all)) /\ Len(one) = 1
        BY <1>10, <2>1 DEF AreFrames, one
      <3>2. IsConcat(Join!Front(all), one, new)
        BY <3>1, ConcatIs
      <3> HIDE DEF new
      <3>3. Len(new) = Len(Join!Front(all)) + 1 /\ new[Len(Join!Front(all)) + 1] = one[1]
        BY <2>1, <3>1, <3>2 DEF IsConcat
      <3> QED
        BY <2>1, <3>3 DEF Join!Last
    <2> HIDE DEF new
    <2>6. ~gaveUp[r] => Complete(later, new, j, <<>>, unresolved)
      BY <1>1, <1>4, <1>9, <2>4, StartCompletes DEF frame, j
    <2>7. IsPlan(later, frame, j.field, unresolved)
      <3>1. ASSUME NEW i \in DOMAIN unresolved, NEW o \in unresolved[i].records
            PROVE  /\ o \in Join!ToSet(frame.records)
                   /\ unresolved[i].value \in Join!ToSet(Join!Values(later[o].doc, Join!JoinFields[frame.coll][j.field].on))
                   /\ Join!JoinFields[frame.coll][j.field].on = "out_msgs" => j.field \in DOMAIN later[o].joins
        <4> DEFINE on == Join!JoinFields[frame.coll][j.field].on
        <4>1. /\ o \in Join!ToSet(frame.records) /\ Join!CanJoin(frame.coll, j, heap[o].doc)
              /\ unresolved[i].value \in Join!ToSet(Join!Values(heap[o].doc, on))
          BY <1>8
        <4>2. o \in DOMAIN heap
          <5>1. frame.records \in Seq(DOMAIN heap)
            BY <1>6 DEF IsFrame
          <5> QED
            BY <4>1, <5>1 DEF Join!ToSet
        <4>3. later[o].doc = heap[o].doc /\ IsDocument(heap[o].doc)
          BY <1>4, <1>7, <4>2 DEF SameRecords, IsHeap
        <4> HIDE DEF on
        <4>4. Join!Field(heap[o].doc, on) # Null
          <5>1. Join!Values(heap[o].doc, on) # <<>>
            BY <4>1 DEF Join!ToSet
          <5> QED
            BY <4>3, <5>1, ValuesAre
        <4> QED
          BY <1>7, <4>1, <4>3, <4>4 DEF on
      <3> QED
        BY <1>8, <3>1 DEF IsPlan
    <2>8. AreFetched(later, <<>>, Join!JoinFields[frame.coll][j.field].collection, j.selection)
      <3>1. <<>> \in Seq(DOMAIN later) /\ DOMAIN <<>> = {}
        OBVIOUS
      <3> QED
        BY <3>1 DEF AreFetched
    <2>9. RequestInv("query", later, new, j, <<>>, unresolved, gaveUp[r])
      BY <1>6, <1>7, <2>3, <2>4, <2>5, <2>6, <2>7, <2>8 DEF RequestInv
    <2>10. /\ joining'[r] = "query" /\ objects'[r] = later /\ frames'[r] = new /\ join'[r] = j
           /\ joined'[r] = <<>> /\ plan'[r] = unresolved /\ gaveUp'[r] = gaveUp[r]
      BY <1>3, <1>4, <1>12, <2>2 DEF new, one
    <2> QED
      BY <1>3, <2>9, <2>10, OneRequest
  <1> QED
    BY <1>11, <1>12


\* The values of a function on a finite set are finite.
LEMMA FiniteImage ==
    ASSUME NEW S, IsFiniteSet(S), NEW f
    PROVE  IsFiniteSet({f[x] : x \in S})
  <1> DEFINE T == {f[x] : x \in S}
             g == [x \in S |-> f[x]]
  <1>1. g \in Surjection(S, T)
    BY DEF Surjection
  <1> HIDE DEF g, T
  <1>2. IsFiniteSet(T)
    BY <1>1, FS_Surjection
  <1> QED
    BY <1>2 DEF T

\* What the databases answer together are documents of the collection referred to.
LEMMA FoundIs ==
    ASSUME FindInv, NEW r, NEW ref, NEW found \in Join!Found(r, ref)
    PROVE  Lists(Join!SetToSeq(found), ref.collection)
  <1>1. PICK s : /\ \A db \in 1..Databases : s[db] \in Join!Answers(r, db, ref)
                 /\ found = UNION {s[db] : db \in 1..Databases}
    BY DEF Join!Found
  <1>2. ASSUME NEW db \in 1..Databases
        PROVE  s[db] \subseteq stored[db] /\ \A d \in s[db] : d.coll = ref.collection
    <2>1. s[db] \in Join!Answers(r, db, ref)
      BY <1>1
    <2> QED
      BY <2>1 DEF Join!Answers
  <1>3. \A db \in 1..Databases : IsFiniteSet(stored[db]) /\ \A d \in stored[db] : IsDocument(d)
    BY DEF FindInv, AreDocuments
  <1>4. IsFiniteSet(found)
    <2> DEFINE all == {s[db] : db \in 1..Databases}
    <2>1. IsFiniteSet(all)
      <3>1. IsFiniteSet(1..Databases)
        BY QueriesAssumption, FS_Interval
      <3> QED
        BY <3>1, FiniteImage
    <2>2. \A t \in all : IsFiniteSet(t)
      <3>1. ASSUME NEW db \in 1..Databases PROVE IsFiniteSet(s[db])
        BY <1>2, <1>3, FS_Subset
      <3> QED
        BY <3>1
    <2> HIDE DEF all
    <2>3. IsFiniteSet(UNION all)
      BY <2>1, <2>2, FS_UNION
    <2> QED
      BY <1>1, <2>3 DEF all
  <1>5. \A d \in found : IsDocument(d) /\ d.coll = ref.collection
    BY <1>1, <1>2, <1>3
  <1>6. Join!SetToSeq(found) \in Seq(found)
    BY <1>4, SetToSeqIs
  <1>7. IsSeq(Join!SetToSeq(found)) /\ \A i \in DOMAIN Join!SetToSeq(found) : Join!SetToSeq(found)[i] \in found
    BY <1>6, Sequence
  <1> QED
    BY <1>5, <1>7 DEF Lists

\* With the records of an answer each reference without its record is still to be
\* resolved, or of a record that came.
LEMMA AnswerCompletes ==
    ASSUME NEW heap, NEW all, NEW j, NEW places, NEW unresolved, Complete(heap, all, j, places, unresolved),
           NEW frame, NEW new, NEW after, AreAnswered(heap, frame, j, unresolved, new, after),
           NEW fetched, Join!ToSet(fetched) = Join!ToSet(places) \cup {Len(heap) + i : i \in DOMAIN new}
    PROVE  Complete(after.heap, all, j, fetched, after.plan)
  <1> DEFINE later == after.heap
  <1>1. /\ SameRecords(heap, later) /\ DOMAIN later = DOMAIN heap \cup {Len(heap) + i : i \in DOMAIN new}
        /\ \A o \in DOMAIN heap : \A f, value :
              Unlinked(later[o], Join!JoinFields[heap[o].doc.coll][f].on, f, value) =>
                 /\ Unlinked(heap[o], Join!JoinFields[heap[o].doc.coll][f].on, f, value)
                 /\ f = j.field => \A i \in DOMAIN unresolved :
                       o \in unresolved[i].records /\ unresolved[i].value = value =>
                          \E k \in DOMAIN after.plan : after.plan[k] = unresolved[i]
    BY DEF AreAnswered
  <1> HIDE DEF later
  <1>2. ASSUME NEW o \in DOMAIN later, NEW k \in Join!ToSet(later[o].selection),
               NEW value \in Join!ToSet(Join!Values(later[o].doc, Join!JoinFields[later[o].doc.coll][k.field].on)),
               Unlinked(later[o], Join!JoinFields[later[o].doc.coll][k.field].on, k.field, value),
               Join!CanJoin(later[o].doc.coll, k, later[o].doc)
        PROVE  Pending(all, j, fetched, after.plan, o, k, value)
    <2>1. CASE o \in DOMAIN heap
      <3>1. later[o].doc = heap[o].doc /\ later[o].selection = heap[o].selection
        BY <1>1, <2>1 DEF SameRecords
      <3>2. /\ Unlinked(heap[o], Join!JoinFields[heap[o].doc.coll][k.field].on, k.field, value)
            /\ k.field = j.field => \A i \in DOMAIN unresolved :
                  o \in unresolved[i].records /\ unresolved[i].value = value =>
                     \E c \in DOMAIN after.plan : after.plan[c] = unresolved[i]
        BY <1>1, <1>2, <2>1, <3>1
      <3>3. Pending(all, j, places, unresolved, o, k, value)
        BY <1>2, <2>1, <3>1, <3>2 DEF Complete
      <3>4. CASE \E i \in DOMAIN all : k \in Join!ToSet(all[i].selection) /\ o \in Join!ToSet(all[i].records)
        BY <3>4 DEF Pending
      <3>5. CASE o \in Join!ToSet(places)
        BY <3>5 DEF Pending
      <3>6. CASE j.field = k.field /\ \E i \in DOMAIN unresolved : unresolved[i].value = value /\ o \in unresolved[i].records
        <4>1. PICK i \in DOMAIN unresolved : unresolved[i].value = value /\ o \in unresolved[i].records
          BY <3>6
        <4>2. PICK c \in DOMAIN after.plan : after.plan[c] = unresolved[i]
          BY <3>2, <3>6, <4>1
        <4> QED
          BY <3>6, <4>1, <4>2 DEF Pending
      <3> QED
        BY <3>3, <3>4, <3>5, <3>6 DEF Pending
    <2>2. CASE o \notin DOMAIN heap
      <3>1. o \in Join!ToSet(fetched)
        BY <1>1, <1>2, <2>2
      <3> QED
        BY <3>1 DEF Pending
    <2> QED
      BY <2>1, <2>2
  <1> QED
    BY <1>2 DEF Complete, later

\* The fetched records go on with their own selection.
LEMMA EndCompletes ==
    ASSUME NEW heap, NEW all, NEW j, NEW places, Complete(heap, all, j, places, <<>>),
           NEW coll, AreFetched(heap, places, coll, j.selection),
           NEW new, \A i \in DOMAIN all : \E k \in DOMAIN new : new[k] = all[i],
           \E k \in DOMAIN new : new[k].records = places /\ new[k].selection = j.selection
    PROVE  Complete(heap, new, Null, <<>>, <<>>)
  <1>1. \A o \in Join!ToSet(places) : heap[o].selection = j.selection
    BY DEF AreFetched, Join!ToSet
  <1>2. ASSUME NEW o \in DOMAIN heap, NEW k \in Join!ToSet(heap[o].selection), NEW value,
               Pending(all, j, places, <<>>, o, k, value)
        PROVE  Pending(new, Null, <<>>, <<>>, o, k, value)
    <2>1. CASE \E i \in DOMAIN all : k \in Join!ToSet(all[i].selection) /\ o \in Join!ToSet(all[i].records)
      <3>1. PICK i \in DOMAIN all : k \in Join!ToSet(all[i].selection) /\ o \in Join!ToSet(all[i].records)
        BY <2>1
      <3>2. PICK c \in DOMAIN new : new[c] = all[i]
        BY <3>1
      <3> QED
        BY <3>1, <3>2 DEF Pending
    <2>2. CASE o \in Join!ToSet(places)
      <3>1. PICK c \in DOMAIN new : new[c].records = places /\ new[c].selection = j.selection
        OBVIOUS
      <3>2. k \in Join!ToSet(new[c].selection) /\ o \in Join!ToSet(new[c].records)
        BY <1>1, <1>2, <2>2, <3>1
      <3> QED
        BY <3>2 DEF Pending
    <2> QED
      BY <1>2, <2>1, <2>2, NoElements DEF Pending
  <1> QED
    BY <1>2 DEF Complete

\* A frame and then one of the records fetched, in place of the last frame.
LEMMA EndKeeps ==
    ASSUME NEW heap, IsHeap(heap), NEW all, AreFrames(heap, all), all # <<>>, NEW j, j.selection \in Selections,
           NEW coll, NEW places, AreFetched(heap, places, coll, j.selection), NEW given,
           ~given => Complete(heap, all, j, places, <<>>)
    PROVE  RequestInv("next", heap,
                      Join!Front(all) \o <<Join!Last(all), [coll |-> coll, records |-> places, selection |-> j.selection]>>,
                      Null, <<>>, <<>>, given)
  <1> DEFINE last == Join!Last(all)
             next == [coll |-> coll, records |-> places, selection |-> j.selection]
             two == <<last, next>>
             new == Join!Front(all) \o two
  <1>1. /\ IsSeq(all) /\ IsSeq(Join!Front(all)) /\ DOMAIN Join!Front(all) = 1..(Len(all) - 1) /\ DOMAIN all = 1..Len(all)
        /\ Len(all) \in Nat /\ Len(all) \in DOMAIN all /\ last = all[Len(all)]
        /\ \A i \in DOMAIN Join!Front(all) : Join!Front(all)[i] = all[i]
    BY FrontIs DEF AreFrames
  <1>2. IsFrame(heap, last)
    BY <1>1 DEF AreFrames
  <1> HIDE DEF last
  <1>3. IsFrame(heap, next)
    <2>1. IsSeq(j.selection) /\ \A i \in DOMAIN j.selection : j.selection[i].selection \in Selections
      BY QueriesAssumption
    <2> QED
      BY <2>1 DEF IsFrame, AreFetched
  <1>4. next.records = places /\ next.selection = j.selection
    OBVIOUS
  <1> HIDE DEF next
  <1>5. AreFrames(heap, two)
    <2>1. AreFrames(heap, <<last, next>>)
      BY <1>2, <1>3, FewFrames
    <2> QED
      BY <2>1
  <1>6. DOMAIN two = {1, 2} /\ two[1] = last /\ two[2] = next
    OBVIOUS
  <1> HIDE DEF two
  <1>7. AreFrames(heap, Join!Front(all))
    <2>1. \A i \in DOMAIN Join!Front(all) : i \in DOMAIN all
      BY <1>1
    <2> QED
      BY <1>1, <2>1 DEF AreFrames
  <1>8. AreFrames(heap, new)
    BY <1>5, <1>7, FramesConcat
  <1>9. Replaced(all, two, new)
    <2>1. IsSeq(two) /\ 1 \in DOMAIN two
      BY <1>5, <1>6 DEF AreFrames
    <2> QED
      BY <1>1, <2>1, LastReplaced
  <1> HIDE DEF new
  <1>10. /\ \A i \in DOMAIN all : \E k \in DOMAIN new : new[k] = all[i]
         /\ \E k \in DOMAIN new : new[k] = next
         /\ new # <<>>
    BY <1>1, <1>6, <1>9 DEF Replaced
  <1>11. ~given => Complete(heap, new, Null, <<>>, <<>>)
    BY <1>4, <1>10, EndCompletes
  <1>12. RequestInv("next", heap, new, Null, <<>>, <<>>, given)
    BY <1>8, <1>10, <1>11 DEF RequestInv
  <1> QED
    BY <1>12 DEF new, two, next, last

\* A portion of a plan is resolved.
LEMMA QueryKeeps ==
    ASSUME FindInv, JoinInv, NEW r \in Request, Join!QueryPortion(r)
    PROVE  JoinInv'
  <1> DEFINE heap == objects[r]
             all == frames[r]
             j == join[r]
             places == joined[r]
             unresolved == plan[r]
             frame == Join!Last(all)
             ref == Join!JoinFields[frame.coll][j.field]
             size == Len(heap)
             After(new) == Join!JoinRecords(heap, unresolved, new, j, ref)
             Fetched(new) == places \o [i \in DOMAIN new |-> size + i]
             next(fetched) == [coll |-> ref.collection, records |-> fetched, selection |-> j.selection]
  <1>1. RequestInv("query", heap, all, j, places, unresolved, gaveUp[r]) /\ JoinDomains
    BY DEF JoinInv, Join!QueryPortion
  <1>2. /\ IsHeap(heap) /\ AreFrames(heap, all) /\ all # <<>> /\ j.selection \in Selections
        /\ AreFetched(heap, places, ref.collection, j.selection) /\ IsPlan(heap, frame, j.field, unresolved)
        /\ ~gaveUp[r] => Complete(heap, all, j, places, unresolved)
    BY <1>1 DEF RequestInv
  <1>3. PICK found \in Join!Found(r, ref) :
           LET new == Join!SetToSeq(found)
               after == After(new)
               fetched == Fetched(new)
           IN IF after.plan = <<>> \/ late[r]
              THEN /\ Join!EndJoin(r, frame, j, after.heap, fetched)
                   /\ plan' = [plan EXCEPT ![r] = <<>>]
                   /\ gaveUp' = [gaveUp EXCEPT ![r] = @ \/ after.plan # <<>>]
              ELSE /\ plan' = [plan EXCEPT ![r] = after.plan]
                   /\ objects' = [objects EXCEPT ![r] = after.heap]
                   /\ joined' = [joined EXCEPT ![r] = fetched]
                   /\ UNCHANGED <<joining, frames, join, late, gaveUp>>
    BY Zenon DEF Join!QueryPortion
  <1> DEFINE new == Join!SetToSeq(found)
             after == After(new)
             fetched == Fetched(new)
  <1>4. joining[r] = "query"
    BY DEF Join!QueryPortion
  <1> HIDE DEF heap, all, j, places, unresolved
  <1>5. Lists(new, ref.collection)
    <2> HIDE DEF ref
    <2> QED
      BY FoundIs
  <1>6. IsFrame(heap, frame)
    BY <1>2, FrontIs DEF AreFrames
  <1> HIDE DEF new, frame
  <1>7. AreAnswered(heap, frame, j, unresolved, new, after)
    BY <1>2, <1>5, <1>6, JoinRecordsIs
  <1> HIDE DEF ref
  <1>8. /\ fetched \in Seq(DOMAIN after.heap)
        /\ Join!ToSet(fetched) = Join!ToSet(places) \cup {size + i : i \in DOMAIN new}
    <2> DEFINE more == [i \in DOMAIN new |-> size + i]
               later == after.heap
    <2>1. DOMAIN new = 1..Len(new) /\ Len(new) \in Nat
      BY <1>5, Sequence DEF Lists, IsSeq
    <2>2. DOMAIN later = DOMAIN heap \cup {size + i : i \in DOMAIN new}
      BY <1>7 DEF AreAnswered
    <2> HIDE DEF after, size
    <2>3. more \in Seq(DOMAIN later) /\ DOMAIN more = DOMAIN new /\ \A i \in DOMAIN more : more[i] = size + i
      <3>1. more \in [1..Len(new) -> DOMAIN later]
        BY <2>1, <2>2
      <3> QED
        BY <2>1, <3>1
    <2>4. places \in Seq(DOMAIN later)
      <3>1. places \in Seq(DOMAIN heap)
        BY <1>2 DEF AreFetched
      <3> QED
        BY <2>2, <3>1
    <2>5. fetched = places \o more
      OBVIOUS
    <2> HIDE DEF more, fetched, later
    <2>6. fetched \in Seq(DOMAIN later)
      BY <2>3, <2>4, <2>5
    <2>7. IsConcat(places, more, fetched)
      <3>1. IsSeq(places) /\ IsSeq(more)
        BY <2>3, <2>4, Sequence
      <3> QED
        BY <2>5, <3>1, ConcatIs
    <2>8. Join!ToSet(fetched) = Join!ToSet(places) \cup Join!ToSet(more)
      BY <2>7 DEF IsConcat, Join!ToSet
    <2>9. Join!ToSet(more) = {size + i : i \in DOMAIN new}
      BY <2>3 DEF Join!ToSet
    <2> QED
      BY <2>6, <2>8, <2>9 DEF later
  <1> HIDE DEF fetched
  <1>9. /\ IsHeap(after.heap) /\ SameRecords(heap, after.heap) /\ IsPlan(after.heap, frame, j.field, after.plan)
        /\ \A i \in DOMAIN new :
              after.heap[size + i] = [doc |-> new[i], joins |-> <<>>, selection |-> j.selection]
    BY <1>7 DEF AreAnswered
  <1> HIDE DEF after
  <1>10. AreFetched(after.heap, fetched, ref.collection, j.selection)
    <2>1. ASSUME NEW o \in Join!ToSet(places)
          PROVE  after.heap[o].doc.coll = ref.collection /\ after.heap[o].selection = j.selection
      <3>1. PICK i \in DOMAIN places : o = places[i]
        BY DEF Join!ToSet
      <3>2. o \in DOMAIN heap /\ heap[o].doc.coll = ref.collection /\ heap[o].selection = j.selection
        BY <1>2, <3>1 DEF AreFetched
      <3> QED
        BY <1>9, <3>2 DEF SameRecords
    <2>2. ASSUME NEW i \in DOMAIN new
          PROVE  after.heap[size + i].doc.coll = ref.collection /\ after.heap[size + i].selection = j.selection
      <3>1. new[i].coll = ref.collection
        BY <1>5 DEF Lists
      <3> HIDE DEF size
      <3>2. after.heap[size + i] = [doc |-> new[i], joins |-> <<>>, selection |-> j.selection]
        BY <1>9
      <3> QED
        BY ONLY <3>1, <3>2
    <2>3. \A i \in DOMAIN fetched : fetched[i] \in Join!ToSet(fetched)
      BY DEF Join!ToSet
    <2> HIDE DEF size
    <2> QED
      BY <1>8, <2>1, <2>2, <2>3 DEF AreFetched
  <1>11. ~gaveUp[r] => Complete(after.heap, all, j, fetched, after.plan)
    BY <1>2, <1>7, <1>8, AnswerCompletes
  <1>12. AreFrames(after.heap, all)
    BY <1>2, <1>9, FramesStay
  <1>13. CASE after.plan = <<>> \/ late[r]
    <2> DEFINE given == gaveUp[r] \/ after.plan # <<>>
               both == Join!Front(all) \o <<frame, next(fetched)>>
    <2>1. ~given => Complete(after.heap, all, j, fetched, <<>>)
      BY <1>11
    <2>2. RequestInv("next", after.heap, both, Null, <<>>, <<>>, given)
      <3> HIDE DEF given
      <3> QED
        BY <1>2, <1>9, <1>10, <1>12, <2>1, EndKeeps DEF frame
    <2>3. /\ Join!EndJoin(r, frame, j, after.heap, fetched)
          /\ plan' = [plan EXCEPT ![r] = <<>>]
          /\ gaveUp' = [gaveUp EXCEPT ![r] = @ \/ after.plan # <<>>]
      BY <1>3, <1>13 DEF after, fetched, new
    <2>4. /\ frames' = [frames EXCEPT ![r] = both]
          /\ joining' = [joining EXCEPT ![r] = "next"]
          /\ objects' = [objects EXCEPT ![r] = after.heap]
          /\ join' = [join EXCEPT ![r] = Null] /\ joined' = [joined EXCEPT ![r] = <<>>]
      BY <2>3 DEF Join!EndJoin, all, ref
    <2> HIDE DEF both
    <2>5. /\ JoinDomains'
          /\ \A x \in Request \ {r} :
              /\ joining'[x] = joining[x] /\ objects'[x] = objects[x] /\ frames'[x] = frames[x] /\ join'[x] = join[x]
              /\ joined'[x] = joined[x] /\ plan'[x] = plan[x] /\ gaveUp'[x] = gaveUp[x]
          /\ joining'[r] = "next" /\ objects'[r] = after.heap /\ frames'[r] = both /\ join'[r] = Null
          /\ joined'[r] = <<>> /\ plan'[r] = <<>> /\ gaveUp'[r] = given
      BY <1>1, <2>3, <2>4 DEF JoinDomains
    <2> HIDE DEF given
    <2> QED
      BY <2>2, <2>5, OneRequest
  <1>14. CASE ~(after.plan = <<>> \/ late[r])
    <2>1. /\ plan' = [plan EXCEPT ![r] = after.plan]
          /\ objects' = [objects EXCEPT ![r] = after.heap]
          /\ joined' = [joined EXCEPT ![r] = fetched]
          /\ UNCHANGED <<joining, frames, join, late, gaveUp>>
      BY <1>3, <1>14 DEF after, fetched, new
    <2>2. /\ JoinDomains'
          /\ \A x \in Request \ {r} :
              /\ joining'[x] = joining[x] /\ objects'[x] = objects[x] /\ frames'[x] = frames[x] /\ join'[x] = join[x]
              /\ joined'[x] = joined[x] /\ plan'[x] = plan[x] /\ gaveUp'[x] = gaveUp[x]
          /\ joining'[r] = "query" /\ objects'[r] = after.heap /\ frames'[r] = all /\ join'[r] = j
          /\ joined'[r] = fetched /\ plan'[r] = after.plan /\ gaveUp'[r] = gaveUp[r]
      BY <1>1, <1>4, <2>1 DEF JoinDomains, all, j
    <2>3. RequestInv("query", after.heap, all, j, fetched, after.plan, gaveUp[r])
      BY <1>2, <1>9, <1>10, <1>11, <1>12 DEF RequestInv, frame, ref
    <2> QED
      BY <2>2, <2>3, OneRequest
  <1> QED
    BY <1>13, <1>14

-----------------------------------------------------------------------------
(* Queries *)

\* Documents of a collection are a list of them in any order.
AreOf(S, coll) == \A d \in S : IsDocument(d) /\ d.coll = coll

\* Any sequence of documents of a collection is a list of them.
LEMMA ListOf ==
    ASSUME NEW S, NEW coll, AreOf(S, coll), NEW s \in Seq(S)
    PROVE  Lists(s, coll)
  BY Sequence DEF Lists, AreOf

\* A list of documents is a sequence of such documents.
LEMMA OfList ==
    ASSUME NEW s, NEW coll, Lists(s, coll)
    PROVE  \E S : s \in Seq(S) /\ AreOf(S, coll)
  <1> DEFINE S == {s[i] : i \in DOMAIN s}
  <1>1. s \in Seq(S)
    BY DEF Lists, IsSeq
  <1>2. AreOf(S, coll)
    BY DEF Lists, AreOf
  <1> QED
    BY <1>1, <1>2

\* The modules keep the same of a sequence.
LEMMA SameKept == \A s, places : Find!Kept(s, places) = Join!Kept(s, places)
  BY DEF Find!Kept, Join!Kept

\* What is kept of a sequence is of the same elements, in the same order.
LEMMA KeptOf ==
    ASSUME NEW S, NEW s \in Seq(S), NEW places
    PROVE  /\ Find!Kept(s, places) \in Seq(S)
           /\ \A i \in DOMAIN Find!Kept(s, places) : \E k \in DOMAIN s \cap places : Find!Kept(s, places)[i] = s[k]
           /\ \A k \in DOMAIN s \cap places : \E i \in DOMAIN Find!Kept(s, places) : Find!Kept(s, places)[i] = s[k]
           /\ \A i, j \in DOMAIN Find!Kept(s, places) : i < j =>
                 \E k, l \in DOMAIN s \cap places : k < l /\ Find!Kept(s, places)[i] = s[k] /\ Find!Kept(s, places)[j] = s[l]
  <1>1. Find!Kept(s, places) = Join!Kept(s, places)
    BY SameKept
  <1> QED
    BY <1>1, KeptIs

\* A document is inserted in a list.
LEMMA InsertedIs ==
    ASSUME NEW S, NEW s \in Seq(S), NEW d \in S, NEW order
    PROVE  Find!Inserted(s, d, order) \in Seq(S)
  <1> DEFINE after == {i \in DOMAIN s : Find!Precedes(d, s[i], order)}
             x == Find!Kept(s, DOMAIN s \ after)
             y == Find!Kept(s, after)
  <1>1. Find!Inserted(s, d, order) = x \o <<d>> \o y
    BY DEF Find!Inserted
  <1>2. x \in Seq(S) /\ y \in Seq(S)
    BY KeptOf
  <1>3. <<d>> \in Seq(S)
    OBVIOUS
  <1> HIDE DEF x, y
  <1> QED
    BY <1>1, <1>2, <1>3

\* The results of databases are combined by inserting their distinct documents, one
\* after another.
LEMMA CombinedBy ==
    ASSUME NEW S, NEW answered \in [1..Databases -> Seq(S)], NEW order,
           NEW docs, docs = Find!CollectDistinctDocs(Find!FlattenSeq(answered))
    PROVE  /\ docs \in Seq(S)
           /\ \E f : /\ f[0] = <<>> /\ f[Len(docs)] = Find!CombineResults(answered, order)
                     /\ \A i \in 1..Len(docs) : f[i] = Find!Inserted(f[i - 1], docs[i], order)
  <1> DEFINE flat == Find!FlattenSeq(answered)
             n == Len(docs)
             X == Seq(S)
             step == [p \in Nat \X X |-> IF p[1] \in 1..n THEN Find!Inserted(p[2], docs[p[1]], order) ELSE p[2]]
             G(f) == [i \in 0..n |-> IF i = 0 THEN <<>> ELSE Find!Inserted(f[i - 1], docs[i], order)]
             sorted == CHOOSE f : f = G(f)
  <1>1. flat \in Seq(S)
    <2>1. Find!FlattenSeq(answered) = Join!FlattenSeq(answered)
      BY DEF Find!FlattenSeq, Join!FlattenSeq
    <2> QED
      BY <2>1, FlattenIs, QueriesAssumption
  <1> HIDE DEF flat
  <1>2. docs \in Seq(S)
    BY <1>1, KeptOf DEF Find!CollectDistinctDocs, flat
  <1>3. n \in Nat /\ <<>> \in X /\ \A i \in 1..n : docs[i] \in S
    BY <1>2
  <1>4. \A x \in X : \A i \in 1..n : Find!Inserted(x, docs[i], order) \in X
    BY <1>3, InsertedIs
  <1> HIDE DEF X, n
  <1>5. step \in Steps(X)
    BY <1>4 DEF Steps
  <1>6. PICK g \in Runs(X, <<>>, step, n) : TRUE
    <2> HIDE DEF step
    <2> QED
      BY <1>3, <1>5, Recursion
  <1>7. g \in [0..n -> X] /\ g[0] = <<>> /\ \A i \in 1..n : g[i] = step[<<i, g[i - 1]>>]
    BY <1>6 DEF Runs
  <1>8. \A i \in 1..n : g[i] = Find!Inserted(g[i - 1], docs[i], order)
    <2> TAKE i \in 1..n
    <2>1. i - 1 \in 0..n /\ i \in Nat
      BY <1>3
    <2>2. <<i, g[i - 1]>> \in Nat \X X
      BY <1>7, <2>1
    <2> QED
      BY <1>7, <2>2
  <1>9. g = G(g)
    <2>1. \A i \in 0..n : g[i] = IF i = 0 THEN <<>> ELSE Find!Inserted(g[i - 1], docs[i], order)
      <3> TAKE i \in 0..n
      <3>1. i # 0 => i \in 1..n
        BY <1>3
      <3> HIDE DEF step
      <3> QED
        BY <1>7, <1>8, <3>1
    <2> HIDE DEF step
    <2> QED
      BY <1>7, <2>1
  <1>10. sorted = G(sorted)
    BY <1>9
  <1>11. Find!CombineResults(answered, order) = sorted[n]
    BY DEF Find!CombineResults, n, flat
  <1>12. \A i \in 0..n : sorted[i] = IF i = 0 THEN <<>> ELSE Find!Inserted(sorted[i - 1], docs[i], order)
    <2>1. ASSUME NEW f, f = G(f)
          PROVE  \A i \in 0..n : f[i] = IF i = 0 THEN <<>> ELSE Find!Inserted(f[i - 1], docs[i], order)
      <3>1. \A i \in 0..n : G(f)[i] = IF i = 0 THEN <<>> ELSE Find!Inserted(f[i - 1], docs[i], order)
        OBVIOUS
      <3> HIDE DEF G
      <3> QED
        BY <2>1, <3>1
    <2> HIDE DEF sorted, G
    <2> QED
      BY <1>10, <2>1
  <1> HIDE DEF sorted, G, step
  <1>13. sorted[0] = <<>> /\ \A i \in 1..n : sorted[i] = Find!Inserted(sorted[i - 1], docs[i], order)
    <2>1. 0 \in 0..n /\ \A i \in 1..n : i \in 0..n /\ i # 0
      BY <1>3
    <2> QED
      BY <1>12, <2>1
  <1> QED
    BY <1>2, <1>11, <1>13 DEF n

\* The combination of results has nothing else than they have.
LEMMA CombinedOf ==
    ASSUME NEW S, NEW answered \in [1..Databases -> Seq(S)], NEW order
    PROVE  Find!CombineResults(answered, order) \in Seq(S)
  <1> DEFINE docs == Find!CollectDistinctDocs(Find!FlattenSeq(answered))
  <1>1. docs \in Seq(S) /\ \E f : /\ f[0] = <<>> /\ f[Len(docs)] = Find!CombineResults(answered, order)
                                  /\ \A i \in 1..Len(docs) : f[i] = Find!Inserted(f[i - 1], docs[i], order)
    BY CombinedBy
  <1> HIDE DEF docs
  <1>2. PICK f : /\ f[0] = <<>> /\ f[Len(docs)] = Find!CombineResults(answered, order)
                 /\ \A i \in 1..Len(docs) : f[i] = Find!Inserted(f[i - 1], docs[i], order)
    BY <1>1
  <1>3. Len(docs) \in Nat /\ \A i \in 1..Len(docs) : docs[i] \in S
    BY <1>1
  <1>4. f[0] \in Seq(S) /\ \A i \in 1..Len(docs) : f[i - 1] \in Seq(S) => f[i] \in Seq(S)
    <2>1. <<>> \in Seq(S)
      OBVIOUS
    <2> QED
      BY <1>2, <1>3, <2>1, InsertedIs
  <1>5. f[Len(docs)] \in Seq(S)
    <2> DEFINE X == Seq(S)
               n == Len(docs)
    <2>1. n \in Nat /\ n \in 0..n /\ f[0] \in X /\ \A i \in 1..n : f[i - 1] \in X => f[i] \in X
      BY <1>3, <1>4
    <2> HIDE DEF X, n
    <2>2. f[n] \in X
      BY <2>1, Stays
    <2> QED
      BY <2>2 DEF X, n
  <1> QED
    BY <1>2, <1>5

\* The results of databases are lists, and so is their combination.
LEMMA CombinedIs ==
    ASSUME NEW coll, NEW answered, IsSeq(answered), DOMAIN answered = 1..Databases,
           \A db \in 1..Databases : Lists(answered[db], coll), NEW order
    PROVE  Lists(Find!CombineResults(answered, order), coll)
  <1> DEFINE S == UNION {{answered[db][i] : i \in DOMAIN answered[db]} : db \in 1..Databases}
  <1>1. AreOf(S, coll)
    BY DEF AreOf, Lists
  <1>2. answered \in [1..Databases -> Seq(S)]
    <2>1. ASSUME NEW db \in 1..Databases PROVE answered[db] \in Seq(S)
      <3>1. answered[db] \in Seq({answered[db][i] : i \in DOMAIN answered[db]})
        BY DEF Lists, IsSeq
      <3>2. {answered[db][i] : i \in DOMAIN answered[db]} \subseteq S
        OBVIOUS
      <3> HIDE DEF S
      <3> QED
        BY <3>1, <3>2
    <2>2. answered = [db \in 1..Databases |-> answered[db]]
      BY DEF IsSeq
    <2> HIDE DEF S
    <2> QED
      BY <2>1, <2>2
  <1> HIDE DEF S
  <1>3. Find!CombineResults(answered, order) \in Seq(S)
    BY <1>2, CombinedOf
  <1> QED
    BY <1>1, <1>3, ListOf

\* With the accounts that are missing, and cut, it is a list still.
LEMMA FinishedIs ==
    ASSUME NEW q, q.limit \in Nat, NEW selection, IsFiniteSet(Find!ExtractIdFilter(selection)),
           NEW docs, Lists(docs, q.coll)
    PROVE  Lists(Find!Finished(q, selection, docs), q.coll)
  <1> DEFINE ids == Find!ExtractIdFilter(selection)
             left == ids \ {docs[i]._key : i \in DOMAIN docs}
             missing == Find!SetToSeq(left)
             more == [i \in DOMAIN missing |-> Find!MissingAccount(missing[i])]
             all == IF q.coll = "accounts" /\ Len(docs) < Find!Cardinality(ids) THEN docs \o more ELSE docs
             n == IF Len(all) > q.limit THEN q.limit ELSE Len(all)
  <1>1. Find!Finished(q, selection, docs) = SubSeq(all, 1, n)
    BY DEF Find!Finished, Find!AddMissingAccountRecords
  <1>2. PICK S : docs \in Seq(S) /\ AreOf(S, q.coll)
    BY OfList
  <1> DEFINE T == S \cup {Find!MissingAccount(id) : id \in left}
  <1>3. missing \in Seq(left)
    <2>1. IsFiniteSet(left)
      BY FS_Subset
    <2> HIDE DEF left
    <2> QED
      BY <2>1, SetToSeqIs
  <1> HIDE DEF missing, left
  <1>4. more \in Seq(T)
    <2>1. DOMAIN missing = 1..Len(missing) /\ Len(missing) \in Nat /\ \A i \in DOMAIN missing : missing[i] \in left
      BY <1>3
    <2>2. more \in [1..Len(missing) -> T]
      BY <2>1
    <2> HIDE DEF more, T
    <2> QED
      BY <2>1, <2>2
  <1> HIDE DEF more
  <1>5. \A id \in left : q.coll = "accounts" =>
            IsDocument(Find!MissingAccount(id)) /\ Find!MissingAccount(id).coll = q.coll
    BY DEF IsDocument, Find!MissingAccount
  <1>6. docs \in Seq(T)
    <2>1. S \subseteq T
      OBVIOUS
    <2> HIDE DEF T
    <2> QED
      BY <1>2, <2>1
  <1>7. CASE q.coll = "accounts"
    <2>1. AreOf(T, q.coll)
      BY <1>2, <1>5, <1>7 DEF AreOf
    <2> HIDE DEF T, ids
    <2>2. all \in Seq(T)
      BY <1>4, <1>6
    <2> HIDE DEF all
    <2>3. n \in Nat /\ n <= Len(all)
      BY <2>2
    <2> HIDE DEF n
    <2>4. SubSeq(all, 1, n) \in Seq(T)
      BY <2>2, <2>3
    <2> QED
      BY <1>1, <2>1, <2>4, ListOf
  <1>8. CASE q.coll # "accounts"
    <2>1. all = docs
      BY <1>8
    <2> HIDE DEF all
    <2>2. n \in Nat /\ n <= Len(docs)
      BY <1>2, <2>1
    <2> HIDE DEF n
    <2>3. SubSeq(docs, 1, n) \in Seq(S)
      BY <1>2, <2>2
    <2> QED
      BY <1>1, <1>2, <2>1, <2>3, ListOf
  <1> QED
    BY <1>7, <1>8

-----------------------------------------------------------------------------
(* Orders *)

\* Documents are ordered by numbers, which they may lack.
IsScalar(v) == v \in Int \cup {Null}

\* The value of a document that an order compares at one of its places.
Value(d, order, i) == Find!Field(d, Find!OrderByPath(order[i])[1])

\* Documents that an order can compare.
Ordered(docs, order) == IsSeq(order) /\ \A d \in docs, i \in DOMAIN order : IsScalar(Value(d, order, i))

\* One value is before another in a direction.
Before(a, b, direction) == IF direction = "DESC" THEN Find!AqlLess(b, a) ELSE Find!AqlLess(a, b)

\* Values are ordered in each direction: of two values one is first, and never both.
LEMMA ValuesAreOrdered ==
    ASSUME NEW direction, NEW a, NEW b, NEW c, IsScalar(a), IsScalar(b), IsScalar(c)
    PROVE  /\ ~(Before(a, b, direction) /\ Before(b, a, direction))
           /\ ~Before(a, a, direction)
           /\ a # b => Before(a, b, direction) \/ Before(b, a, direction)
           /\ Before(a, c, direction) => Before(a, b, direction) \/ Before(b, c, direction)
  BY DEF Before, IsScalar, Find!AqlLess

\* A document precedes another by the first of their values that differ.
LEMMA PrecedesIs ==
    ASSUME NEW a, NEW b, NEW order
    PROVE  Find!Precedes(a, b, order) <=>
              \E i \in DOMAIN order :
                  /\ Before(Value(a, order, i), Value(b, order, i), order[i].direction)
                  /\ \A j \in 1..(i - 1) : Value(a, order, j) = Value(b, order, j)
  BY Zenon DEF Find!Precedes, Before, Value

\* Two documents never precede each other.
LEMMA OneIsFirst ==
    ASSUME NEW docs, NEW order, Ordered(docs, order), NEW a \in docs, NEW b \in docs,
           Find!Precedes(a, b, order)
    PROVE  ~Find!Precedes(b, a, order)
  <1> SUFFICES ASSUME Find!Precedes(b, a, order) PROVE FALSE
    OBVIOUS
  <1>1. PICK i \in DOMAIN order :
            /\ Before(Value(a, order, i), Value(b, order, i), order[i].direction)
            /\ \A j \in 1..(i - 1) : Value(a, order, j) = Value(b, order, j)
    BY PrecedesIs
  <1>2. PICK k \in DOMAIN order :
            /\ Before(Value(b, order, k), Value(a, order, k), order[k].direction)
            /\ \A j \in 1..(k - 1) : Value(b, order, j) = Value(a, order, j)
    BY PrecedesIs
  <1>3. i \in Nat \ {0} /\ k \in Nat \ {0}
    BY DEF Ordered, IsSeq
  <1>4. IsScalar(Value(a, order, i)) /\ IsScalar(Value(b, order, i)) /\ IsScalar(Value(a, order, k)) /\ IsScalar(Value(b, order, k))
    BY DEF Ordered
  <1>5. CASE i < k
    <2>1. Value(b, order, i) = Value(a, order, i)
      BY <1>2, <1>3, <1>5
    <2> QED
      BY <1>1, <1>4, <2>1, ValuesAreOrdered
  <1>6. CASE k < i
    <2>1. Value(b, order, k) = Value(a, order, k)
      BY <1>1, <1>3, <1>6
    <2> QED
      BY <1>2, <1>4, <2>1, ValuesAreOrdered
  <1>7. CASE i = k
    BY <1>1, <1>2, <1>4, <1>7, ValuesAreOrdered
  <1> QED
    BY <1>3, <1>5, <1>6, <1>7

\* What precedes a document precedes any other, or that precedes the document.
LEMMA AnotherBetween ==
    ASSUME NEW docs, NEW order, Ordered(docs, order), NEW a \in docs, NEW b \in docs, NEW c \in docs,
           Find!Precedes(a, c, order)
    PROVE  Find!Precedes(a, b, order) \/ Find!Precedes(b, c, order)
  <1>1. PICK i \in DOMAIN order :
            /\ Before(Value(a, order, i), Value(c, order, i), order[i].direction)
            /\ \A j \in 1..(i - 1) : Value(a, order, j) = Value(c, order, j)
    BY PrecedesIs
  <1>2. DOMAIN order \subseteq Nat \ {0} /\ \A k \in DOMAIN order : \A j \in 1..(k - 1) : j \in DOMAIN order
    <2>1. PICK n \in Nat : DOMAIN order = 1..n
      BY DEF Ordered, IsSeq
    <2> QED
      BY <2>1
  <1>3. \A k \in DOMAIN order : IsScalar(Value(a, order, k)) /\ IsScalar(Value(b, order, k)) /\ IsScalar(Value(c, order, k))
    BY DEF Ordered
  <1> DEFINE differ == {k \in DOMAIN order : Value(a, order, k) # Value(b, order, k) \/ Value(b, order, k) # Value(c, order, k)}
  <1>4. i \in differ
    <2>1. Value(a, order, i) # Value(c, order, i)
      BY <1>1, <1>3, ValuesAreOrdered
    <2> QED
      BY <2>1
  <1>5. PICK k \in differ : \A j \in differ : k <= j
    <2>1. differ \in SUBSET Nat
      BY <1>2
    <2> HIDE DEF differ
    <2> QED
      BY <1>4, <2>1, Least
  <1>6. k \in DOMAIN order /\ k \in Nat \ {0} /\ i \in Nat \ {0} /\ k <= i
    BY <1>2, <1>4, <1>5
  <1>7. \A j \in 1..(k - 1) : Value(a, order, j) = Value(b, order, j) /\ Value(b, order, j) = Value(c, order, j)
    <2> TAKE j \in 1..(k - 1)
    <2>1. j \in DOMAIN order /\ j \in Nat /\ ~(k <= j)
      BY <1>2, <1>6
    <2>2. j \notin differ
      BY <1>5, <2>1
    <2> QED
      BY <2>1, <2>2
  <1> DEFINE x == Value(a, order, k)
             y == Value(b, order, k)
             z == Value(c, order, k)
             way == order[k].direction
  <1>8. (x # y \/ y # z) /\ IsScalar(x) /\ IsScalar(y) /\ IsScalar(z)
    BY <1>3, <1>5
  <1>9. Before(x, z, way) \/ x = z
    <2>1. CASE k = i
      BY <1>1, <2>1
    <2>2. CASE k # i
      <3>1. k \in 1..(i - 1)
        BY <1>6, <2>2
      <3> QED
        BY <1>1, <3>1
    <2> QED
      BY <2>1, <2>2
  <1> HIDE DEF x, y, z, way
  <1>10. Before(x, y, way) \/ Before(y, z, way)
    BY <1>8, <1>9, ValuesAreOrdered
  <1>11. CASE Before(x, y, way)
    BY <1>6, <1>7, <1>11, PrecedesIs DEF x, y, way
  <1>12. CASE Before(y, z, way)
    BY <1>6, <1>7, <1>12, PrecedesIs DEF y, z, way
  <1> QED
    BY <1>10, <1>11, <1>12

-----------------------------------------------------------------------------
(* The first documents in an order *)

Elements(s) == {s[i] : i \in DOMAIN s}

\* A sequence of different documents in an order.
Ranked(s, order) == \A i, j \in DOMAIN s : i < j => s[i] # s[j] /\ ~Find!Precedes(s[j], s[i], order)

\* Some of the documents, such that no other precedes any of them: at most so many,
\* and so many if there are others.
TopOf(top, docs, order, limit) ==
    /\ top \subseteq docs /\ Cardinality(top) <= limit
    /\ \A d \in docs \ top : Cardinality(top) = limit /\ \A e \in top : ~Find!Precedes(d, e, order)

\* The elements of a sequence of different ones are as many as it is long.
LEMMA ElementsOf ==
    ASSUME NEW n \in Nat, NEW S, NEW s \in [1..n -> S], \A i, j \in 1..n : i < j => s[i] # s[j]
    PROVE  IsFiniteSet(Elements(s)) /\ Cardinality(Elements(s)) = n /\ Elements(s) \subseteq S
  <1>1. \A i, j \in 1..n : s[i] = s[j] => i = j
    <2> TAKE i, j \in 1..n
    <2>1. i < j \/ j < i \/ i = j
      OBVIOUS
    <2> QED
      BY <2>1
  <1>2. s \in Bijection(1..n, Elements(s))
    <2>1. s \in [1..n -> Elements(s)] /\ \A e \in Elements(s) : \E i \in 1..n : s[i] = e
      BY DEF Elements
    <2>2. s \in Surjection(1..n, Elements(s))
      BY <2>1 DEF Surjection
    <2>3. s \in Injection(1..n, Elements(s))
      BY <1>1, <2>1 DEF Injection, IsInjective
    <2> QED
      BY <2>2, <2>3 DEF Bijection
  <1>3. ExistsBijection(1..n, Elements(s))
    BY <1>2 DEF ExistsBijection
  <1>4. IsFiniteSet(Elements(s)) /\ Cardinality(Elements(s)) = n
    BY <1>3, FS_CountingElements, FS_NatBijection
  <1> QED
    BY <1>4 DEF Elements

\* SORT and LIMIT give some of the documents, at most so many.
LEMMA BestOf ==
    ASSUME NEW docs, IsFiniteSet(docs), NEW order, NEW limit \in Nat, NEW s \in Find!Best(docs, order, limit)
    PROVE  s \in Seq(docs)
  <1> DEFINE size == IF Cardinality(docs) < limit THEN Cardinality(docs) ELSE limit
  <1>1. s \in [1..size -> docs]
    BY SameCardinality DEF Find!Best
  <1>2. size \in Nat
    BY FS_CardinalityType
  <1> HIDE DEF size
  <1> QED
    BY <1>1, <1>2

\* SORT and LIMIT give the first documents in their order.
LEMMA BestIs ==
    ASSUME NEW docs, IsFiniteSet(docs), NEW order, Ordered(docs, order), NEW limit \in Nat,
           NEW s \in Find!Best(docs, order, limit)
    PROVE  /\ s \in Seq(docs) /\ Ranked(s, order) /\ TopOf(Elements(s), docs, order, limit)
           /\ Len(s) = Cardinality(Elements(s))
  <1> DEFINE size == IF Cardinality(docs) < limit THEN Cardinality(docs) ELSE limit
  <1>1. /\ s \in [1..size -> docs]
        /\ \A i, j \in DOMAIN s : i < j => s[i] # s[j] /\ ~Find!Precedes(s[j], s[i], order)
        /\ \A d \in docs \ {s[i] : i \in DOMAIN s} : size > 0 => ~Find!Precedes(d, s[size], order)
    BY SameCardinality DEF Find!Best
  <1>2. Cardinality(docs) \in Nat
    BY FS_CardinalityType
  <1>3. size \in Nat /\ size <= limit /\ (size = limit \/ size = Cardinality(docs))
    BY <1>2
  <1> HIDE DEF size
  <1>4. IsFiniteSet(Elements(s)) /\ Cardinality(Elements(s)) = size /\ Elements(s) \subseteq docs
    BY <1>1, <1>3, ElementsOf
  <1>5. ASSUME NEW d \in docs \ Elements(s) PROVE size = limit
    <2>1. size # Cardinality(docs)
      BY <1>4, <1>5, FS_Subset
    <2> QED
      BY <1>3, <2>1
  <1>6. ASSUME NEW d \in docs \ Elements(s), NEW e \in Elements(s) PROVE ~Find!Precedes(d, e, order)
    <2>1. PICK i \in 1..size : e = s[i]
      BY <1>1 DEF Elements
    <2>2. size \in 1..size /\ size > 0 /\ s[size] \in docs /\ s[i] \in docs
      BY <1>1, <1>3, <2>1
    <2>3. ~Find!Precedes(d, s[size], order)
      BY <1>1, <1>6, <2>2 DEF Elements
    <2>4. i = size \/ ~Find!Precedes(s[size], s[i], order)
      BY <1>1, <1>3, <2>1, <2>2
    <2> QED
      BY <2>1, <2>2, <2>3, <2>4, AnotherBetween
  <1>7. s \in Seq(docs) /\ Len(s) = size
    BY <1>1, <1>3
  <1> QED
    BY <1>1, <1>3, <1>4, <1>5, <1>6, <1>7 DEF Ranked, TopOf

\* Some sets are together another one.
Parts(I, sets, all) == (\A i \in I : sets[i] \subseteq all) /\ \A d \in all : \E i \in I : d \in sets[i]

\* The first of the first documents of some sets are the first of all.
LEMMA TopOfTops ==
    ASSUME NEW I, NEW docs, NEW tops, NEW order, NEW limit \in Nat,
           NEW all, Parts(I, docs, all), IsFiniteSet(all), Ordered(all, order),
           \A i \in I : TopOf(tops[i], docs[i], order, limit),
           NEW some, Parts(I, tops, some), NEW top, TopOf(top, some, order, limit)
    PROVE  TopOf(top, all, order, limit)
  <1>1. \A i \in I : tops[i] \subseteq docs[i] /\ docs[i] \subseteq all
    BY DEF TopOf, Parts
  <1>2. top \subseteq all /\ Cardinality(top) <= limit
    BY <1>1 DEF TopOf, Parts
  <1>3. IsFiniteSet(top) /\ Cardinality(top) \in Nat
    BY <1>2, FS_Subset, FS_CardinalityType
  <1>4. ASSUME NEW i \in I, NEW d \in docs[i] \ top
        PROVE  Cardinality(top) = limit /\ \A e \in top : ~Find!Precedes(d, e, order)
    <2>1. CASE d \in tops[i]
      BY <1>4, <2>1 DEF TopOf, Parts
    <2>2. CASE d \notin tops[i] /\ tops[i] \subseteq top
      <3>1. Cardinality(tops[i]) = limit /\ \A e \in tops[i] : ~Find!Precedes(d, e, order)
        BY <1>4, <2>2 DEF TopOf
      <3>2. tops[i] = top
        BY <1>2, <1>3, <2>2, <3>1, FS_Subset
      <3> QED
        BY <3>1, <3>2
    <2>3. CASE d \notin tops[i] /\ ~(tops[i] \subseteq top)
      <3>1. PICK e \in tops[i] : e \notin top
        BY <2>3
      <3>2. Cardinality(top) = limit /\ \A x \in top : ~Find!Precedes(e, x, order)
        BY <3>1 DEF TopOf, Parts
      <3>3. ~Find!Precedes(d, e, order)
        BY <1>4, <2>3, <3>1 DEF TopOf
      <3>4. d \in all /\ e \in all /\ \A x \in top : x \in all
        BY <1>1, <1>2, <1>4, <3>1
      <3> QED
        BY <3>2, <3>3, <3>4, AnotherBetween
    <2> QED
      BY <2>1, <2>2, <2>3
  <1> QED
    BY <1>2, <1>4 DEF TopOf, Parts

\* What a sequence begins with.
Beginning(s, n) == {s[i] : i \in 1..n}

\* What a ranked sequence begins with are the first of its elements.
LEMMA CutIsTop ==
    ASSUME NEW docs, NEW s \in Seq(docs), NEW order, Ordered(docs, order), Ranked(s, order), NEW limit \in Nat,
           NEW n \in Nat, n = IF Len(s) > limit THEN limit ELSE Len(s)
    PROVE  TopOf(Beginning(s, n), Elements(s), order, limit) /\ Cardinality(Beginning(s, n)) = n
  <1> DEFINE cut == [i \in 1..n |-> s[i]]
             top == {s[i] : i \in 1..n}
  <1>1. n <= Len(s) /\ n <= limit /\ Len(s) \in Nat /\ (n # Len(s) => n = limit) /\ DOMAIN s = 1..Len(s)
    OBVIOUS
  <1>2. 1..n \subseteq DOMAIN s /\ \A i \in DOMAIN s : s[i] \in docs
    <2>1. \A m \in Nat : n <= m => 1..n \subseteq 1..m
      OBVIOUS
    <2>2. \A i \in DOMAIN s : s[i] \in docs
      OBVIOUS
    <2> QED
      BY <1>1, <2>1, <2>2
  <1>3. cut \in [1..n -> docs] /\ \A i, j \in 1..n : i < j => cut[i] # cut[j]
    BY <1>2 DEF Ranked
  <1>4. Elements(cut) = top
    BY DEF Elements
  <1>5. IsFiniteSet(top) /\ Cardinality(top) = n
    <2> HIDE DEF cut, top
    <2> QED
      BY <1>3, <1>4, ElementsOf
  <1>6. ASSUME NEW d \in Elements(s) \ top PROVE n = limit /\ \A e \in top : ~Find!Precedes(d, e, order)
    <2>1. PICK k \in DOMAIN s : d = s[k]
      BY DEF Elements
    <2>2. k \notin 1..n
      BY <1>6, <2>1
    <2>3. k \in Nat /\ n < k /\ k <= Len(s)
      BY <1>1, <2>2
    <2>4. \A i \in 1..n : i \in DOMAIN s /\ i < k
      BY <1>2, <2>3
    <2> QED
      BY <1>1, <2>1, <2>3, <2>4 DEF Ranked
  <1>7. top \subseteq Elements(s)
    BY <1>2 DEF Elements
  <1> QED
    BY <1>1, <1>5, <1>6, <1>7 DEF TopOf, Beginning

-----------------------------------------------------------------------------
(* What a database answers *)

\* The part of a document that a query asks for, and that of some documents.
Shown(d, q, order) == Find!Projection(d, Find!ReturnExpression(q, order))
Showing(docs, q, order) == {Shown(d, q, order) : d \in docs}

\* The documents of a collection that a query with an order is read from.
Readable(docs, q, order) ==
    /\ docs \subseteq AllOf(q.coll) /\ \A d \in docs : IsDocument(d)
    /\ IsFiniteSet(docs) /\ IsNothing(AllOf(q.coll)) /\ IsOrder(order, q.coll)

\* The part of a document has its key, its collection and the values it is ordered by.
LEMMA ShownIs ==
    ASSUME NEW q, NEW order, NEW docs, Readable(docs, q, order), NEW d \in docs
    PROVE  /\ Shown(d, q, order)._key = d._key /\ Shown(d, q, order).coll = d.coll
           /\ \A i \in DOMAIN order :
                 Value(Shown(d, q, order), order, i) = Value(d, order, i) /\ IsScalar(Value(d, order, i))
  <1> DEFINE fields == Find!ReturnExpression(q, order)
             s == Shown(d, q, order)
  <1>1. DOMAIN s = DOMAIN d \cap fields /\ \A f \in DOMAIN d \cap fields : s[f] = d[f]
    BY DEF Shown, Find!Projection
  <1>2. {"_key", "coll"} \subseteq DOMAIN d
    BY DEF Readable, IsDocument
  <1>3. {"_key", "coll"} \subseteq fields /\ \A i \in DOMAIN order : Find!OrderByPath(order[i])[1] \in fields
    BY Zenon DEF Find!ReturnExpression
  <1>4. d # Null /\ s # Null
    <2>1. d \in AllOf(q.coll) /\ IsNothing(AllOf(q.coll))
      BY DEF Readable
    <2>2. Find!Projection(d, DOMAIN d \cap fields) # Null
      BY <2>1 DEF IsNothing
    <2>3. Find!Projection(d, DOMAIN d \cap fields) = s
      BY DEF Find!Projection, Shown
    <2> QED
      BY <2>1, <2>2, <2>3 DEF IsNothing
  <1> HIDE DEF fields, s
  <1>5. \A name \in fields : Find!Field(s, name) = Find!Field(d, name)
    BY <1>1, <1>4 DEF Find!Field
  <1>6. \A i \in DOMAIN order : Value(s, order, i) = Value(d, order, i)
    BY <1>3, <1>5 DEF Value
  <1>7. \A i \in DOMAIN order : IsScalar(Value(d, order, i))
    BY DEF Readable, IsOrder, IsScalar, Value
  <1>8. s._key = d._key /\ s.coll = d.coll
    BY <1>1, <1>2, <1>3
  <1> QED
    BY <1>6, <1>7, <1>8 DEF s

\* Parts of documents are ordered as the documents are.
LEMMA ShownAlike ==
    ASSUME NEW q, NEW order, NEW docs, Readable(docs, q, order)
    PROVE  /\ Ordered(docs, order) /\ Ordered(Showing(docs, q, order), order)
           /\ \A d, e \in docs :
                 Find!Precedes(Shown(d, q, order), Shown(e, q, order), order) <=> Find!Precedes(d, e, order)
  <1>1. IsSeq(order)
    BY DEF Readable, IsOrder
  <1>2. Ordered(docs, order)
    BY <1>1, ShownIs DEF Ordered
  <1>3. Ordered(Showing(docs, q, order), order)
    <2> SUFFICES ASSUME NEW d \in docs, NEW i \in DOMAIN order PROVE IsScalar(Value(Shown(d, q, order), order, i))
      BY <1>1 DEF Ordered, Showing
    <2> QED
      BY ShownIs
  <1>4. ASSUME NEW d \in docs, NEW e \in docs
        PROVE  Find!Precedes(Shown(d, q, order), Shown(e, q, order), order) <=> Find!Precedes(d, e, order)
    <2> DEFINE Less(a, b, i) ==
                  /\ Before(Value(a, order, i), Value(b, order, i), order[i].direction)
                  /\ \A j \in 1..(i - 1) : Value(a, order, j) = Value(b, order, j)
    <2>1. \A i \in DOMAIN order : Value(Shown(d, q, order), order, i) = Value(d, order, i)
                                  /\ Value(Shown(e, q, order), order, i) = Value(e, order, i)
      BY ShownIs
    <2>2. \A i \in DOMAIN order : \A j \in 1..(i - 1) : j \in DOMAIN order
      <3>1. PICK n \in Nat : DOMAIN order = 1..n
        BY <1>1 DEF IsSeq
      <3> QED
        BY <3>1
    <2>3. \A i \in DOMAIN order : Less(Shown(d, q, order), Shown(e, q, order), i) <=> Less(d, e, i)
      BY <2>1, <2>2
    <2>4. \A a, b : Find!Precedes(a, b, order) <=> \E i \in DOMAIN order : Less(a, b, i)
      BY PrecedesIs, Zenon
    <2> HIDE DEF Less
    <2> QED
      BY <2>3, <2>4
  <1> QED
    BY <1>2, <1>3, <1>4

\* The parts of the first documents are the first parts.
LEMMA ShownTop ==
    ASSUME NEW q, NEW order, NEW docs, Readable(docs, q, order), Find!OneOfEach(docs),
           NEW limit \in Nat, NEW top, TopOf(top, docs, order, limit)
    PROVE  TopOf(Showing(top, q, order), Showing(docs, q, order), order, limit)
  <1> DEFINE shown == [d \in top |-> Shown(d, q, order)]
             parts == Showing(top, q, order)
  <1>1. top \subseteq docs /\ IsFiniteSet(top)
    BY FS_Subset DEF TopOf, Readable
  <1>2. \A d, e \in docs : Shown(d, q, order) = Shown(e, q, order) => d = e
    BY ShownIs DEF Find!OneOfEach
  <1>3. shown \in [top -> parts] /\ (\A p \in parts : \E d \in top : shown[d] = p)
        /\ \A d, e \in top : shown[d] = shown[e] => d = e
    BY <1>1, <1>2 DEF Showing
  <1> HIDE DEF shown
  <1>4. shown \in Bijection(top, parts)
    <2>1. shown \in Surjection(top, parts)
      BY <1>3 DEF Surjection
    <2>2. shown \in Injection(top, parts)
      BY <1>3 DEF Injection, IsInjective
    <2> QED
      BY <2>1, <2>2 DEF Bijection
  <1>5. Cardinality(parts) = Cardinality(top)
    BY <1>1, <1>4, FS_Bijection DEF ExistsBijection
  <1>6. parts \subseteq Showing(docs, q, order)
    BY <1>1 DEF Showing
  <1>7. ASSUME NEW p \in Showing(docs, q, order) \ parts
        PROVE  Cardinality(top) = limit /\ \A e \in parts : ~Find!Precedes(p, e, order)
    <2>1. PICK d \in docs : p = Shown(d, q, order)
      BY <1>7 DEF Showing
    <2>2. d \in docs \ top
      BY <1>7, <2>1 DEF Showing
    <2>3. Cardinality(top) = limit /\ \A e \in top : ~Find!Precedes(d, e, order)
      BY <2>2 DEF TopOf
    <2>4. ASSUME NEW e \in top PROVE ~Find!Precedes(p, Shown(e, q, order), order)
      BY <1>1, <2>1, <2>3, ShownAlike
    <2> QED
      BY <2>3, <2>4 DEF Showing
  <1> QED
    BY <1>5, <1>6, <1>7 DEF TopOf

\* Documents that a filter selects.
Matching(q, selection, docs) == {d \in docs : Matches(Types[q.coll], selection, d)}

\* Some of what can be read can be read.
LEMMA SomeReadable ==
    ASSUME NEW q, NEW order, NEW docs, Readable(docs, q, order), NEW some \in SUBSET docs
    PROVE  Readable(some, q, order) /\ (Find!OneOfEach(docs) => Find!OneOfEach(some))
  BY FS_Subset DEF Readable, Find!OneOfEach

\* The parts of what is best of each operand.
AllShown(best, operands, q, order) == UNION {Showing(Elements(best[i]), q, order) : i \in DOMAIN operands}

\* What is best of each operand.
AreBest(best, operands, q, order, docs) ==
    \A i \in DOMAIN operands : best[i] \in Find!Best(Matching(q, operands[i], docs), order, q.limit)

\* A query is read by its operands: each gives some of its documents, and the query
\* some of these.
LEMMA TextOf ==
    ASSUME NEW q, NEW selection, NEW order, NEW docs, NEW result \in Find!QueryText(q, selection, order, docs)
    PROVE  \E best : /\ AreBest(best, Operands(selection), q, order, docs)
                     /\ result \in Find!Best(AllShown(best, Operands(selection), q, order), order, q.limit)
  <1> DEFINE fields == Find!ReturnExpression(q, order)
             operands == Operands(selection)
             Chosen(operand) == Find!Best({d \in docs : Matches(Types[q.coll], operand, d)}, order, q.limit)
             Sub(operand) == {{Find!Projection(s[i], fields) : i \in DOMAIN s} : s \in Chosen(operand)}
             found == [i \in DOMAIN operands |-> Sub(operands[i])]
             chosen == {sets \in [DOMAIN operands -> UNION {found[i] : i \in DOMAIN found}] :
                           \A i \in DOMAIN found : sets[i] \in found[i]}
  <1>1. PICK u \in {UNION {sets[i] : i \in DOMAIN operands} : sets \in chosen} :
            result \in Find!Best(u, order, q.limit)
    <2>1. Find!QueryText(q, selection, order, docs) =
              UNION {Find!Best(u, order, q.limit) : u \in {UNION {sets[i] : i \in DOMAIN operands} : sets \in chosen}}
      BY Zenon DEF Find!QueryText
    <2> HIDE DEF chosen
    <2> QED
      BY <2>1
  <1> HIDE DEF Sub
  <1>2. PICK sets \in chosen : u = UNION {sets[i] : i \in DOMAIN operands}
    OBVIOUS
  <1>3. \A i \in DOMAIN operands : sets[i] \in Sub(operands[i])
    <2>1. DOMAIN found = DOMAIN operands /\ \A i \in DOMAIN operands : found[i] = Sub(operands[i])
      OBVIOUS
    <2> HIDE DEF found
    <2> QED
      BY <2>1
  <1> HIDE DEF found, chosen
  <1> DEFINE best == [i \in DOMAIN operands |->
                         CHOOSE s \in Chosen(operands[i]) : sets[i] = {Find!Projection(s[k], fields) : k \in DOMAIN s}]
  <1>4. ASSUME NEW i \in DOMAIN operands
        PROVE  best[i] \in Chosen(operands[i]) /\ sets[i] = Showing(Elements(best[i]), q, order)
    <2>1. \E s \in Chosen(operands[i]) : sets[i] = {Find!Projection(s[k], fields) : k \in DOMAIN s}
      BY <1>3, Zenon DEF Sub
    <2>2. best[i] = CHOOSE s \in Chosen(operands[i]) : sets[i] = {Find!Projection(s[k], fields) : k \in DOMAIN s}
      OBVIOUS
    <2> HIDE DEF best, Chosen
    <2>3. best[i] \in Chosen(operands[i]) /\ sets[i] = {Find!Projection(best[i][k], fields) : k \in DOMAIN best[i]}
      BY <2>1, <2>2, Zenon
    <2>4. sets[i] = Showing(Elements(best[i]), q, order)
      BY <2>3 DEF Showing, Elements, Shown
    <2> QED
      BY <2>3, <2>4
  <1> HIDE DEF best
  <1>5. AreBest(best, operands, q, order, docs)
    BY <1>4 DEF Matching, AreBest
  <1>6. u = AllShown(best, operands, q, order)
    BY <1>2, <1>4 DEF AllShown
  <1> QED
    BY <1>1, <1>5, <1>6


\* What a database answers to a query is a list of its documents, of the fields asked for.
LEMMA TextIs ==
    ASSUME NEW q, q.limit \in Nat, NEW selection, NEW order, NEW docs, IsFiniteSet(docs), AreOf(docs, q.coll),
           NEW result \in Find!QueryText(q, selection, order, docs)
    PROVE  Lists(result, q.coll)
  <1> DEFINE operands == Operands(selection)
  <1>1. PICK best : /\ AreBest(best, operands, q, order, docs)
                    /\ result \in Find!Best(AllShown(best, operands, q, order), order, q.limit)
    BY TextOf
  <1> DEFINE all == AllShown(best, operands, q, order)
  <1>2. all \subseteq Showing(docs, q, order)
    <2> SUFFICES ASSUME NEW i \in DOMAIN operands, NEW k \in DOMAIN best[i] PROVE best[i][k] \in docs
      BY DEF AllShown, Showing, Elements
    <2> DEFINE some == Matching(q, operands[i], docs)
    <2>1. IsFiniteSet(some) /\ some \subseteq docs
      BY FS_Subset DEF Matching
    <2>2. best[i] \in Find!Best(some, order, q.limit)
      BY <1>1 DEF AreBest
    <2> HIDE DEF some
    <2>3. best[i] \in Seq(some)
      BY <2>1, <2>2, BestOf
    <2> QED
      BY <2>1, <2>3
  <1>3. IsFiniteSet(Showing(docs, q, order))
    <2> DEFINE shown == [d \in docs |-> Shown(d, q, order)]
    <2>1. {shown[d] : d \in docs} = Showing(docs, q, order)
      BY DEF Showing
    <2> HIDE DEF shown
    <2> QED
      BY <2>1, FiniteImage
  <1>4. AreOf(all, q.coll)
    <2> SUFFICES ASSUME NEW d \in docs
                 PROVE  IsDocument(Shown(d, q, order)) /\ Shown(d, q, order).coll = q.coll
      BY <1>2 DEF AreOf, Showing
    <2> DEFINE fields == Find!ReturnExpression(q, order)
               part == Shown(d, q, order)
    <2>1. IsDocument(d) /\ d.coll = q.coll
      BY DEF AreOf
    <2>2. {"coll", "_key"} \subseteq fields
      BY DEF Find!ReturnExpression
    <2>3. DOMAIN part = DOMAIN d \cap fields /\ \A f \in DOMAIN d \cap fields : part[f] = d[f]
      BY DEF Shown, Find!Projection
    <2> HIDE DEF fields, part
    <2> QED
      BY <2>1, <2>2, <2>3 DEF IsDocument, part
  <1> HIDE DEF all
  <1>5. result \in Seq(all)
    <2>1. IsFiniteSet(all)
      BY <1>2, <1>3, FS_Subset
    <2> QED
      BY <1>1, <2>1, BestOf DEF all
  <1> QED
    BY <1>4, <1>5, ListOf

\* What a database answers are the first parts of the documents that the filter
\* selects, in their order.
LEMMA TextIsBest ==
    ASSUME NEW q, q.limit \in Nat, NEW selection, IsFilter(selection, q.coll), NEW order,
           NEW docs, Readable(docs, q, order), Find!OneOfEach(docs),
           NEW result \in Find!QueryText(q, selection, order, docs)
    PROVE  /\ result \in Seq(Showing(Matching(q, selection, docs), q, order)) /\ Ranked(result, order)
           /\ TopOf(Elements(result), Showing(Matching(q, selection, docs), q, order), order, q.limit)
  <1>1. PICK best : /\ AreBest(best, Operands(selection), q, order, docs)
                    /\ result \in Find!Best(AllShown(best, Operands(selection), q, order), order, q.limit)
    BY TextOf
  <1> DEFINE operands == Operands(selection)
             I == DOMAIN operands
             parts(i) == Showing(Matching(q, operands[i], docs), q, order)
             all == Showing(Matching(q, selection, docs), q, order)
  <1>2. all = UNION {parts(i) : i \in I}
    <2>1. \A d \in docs : Matches(Types[q.coll], selection, d) <=> \E i \in I : Matches(Types[q.coll], operands[i], d)
      BY DEF IsFilter, Readable
    <2>2. \A d \in docs : d \in Matching(q, selection, docs) <=> \E i \in I : d \in Matching(q, operands[i], docs)
      BY <2>1 DEF Matching
    <2>3. Matching(q, selection, docs) \subseteq docs /\ \A i \in I : Matching(q, operands[i], docs) \subseteq docs
      BY DEF Matching
    <2> QED
      BY <2>2, <2>3 DEF Showing
  <1>3. Matching(q, selection, docs) \subseteq docs
    BY DEF Matching
  <1>4. IsFiniteSet(all)
    <2> DEFINE shown == [d \in docs |-> Shown(d, q, order)]
               some == Matching(q, selection, docs)
    <2>1. IsFiniteSet(some)
      BY <1>3, FS_Subset DEF Readable
    <2>2. {shown[d] : d \in some} = all
      BY <1>3 DEF Showing
    <2> HIDE DEF shown, some, all
    <2> QED
      BY <2>1, <2>2, FiniteImage
  <1>5. Ordered(all, order)
    BY <1>3, SomeReadable, ShownAlike
  <1> DEFINE docsOf == [i \in I |-> parts(i)]
             tops == [i \in I |-> Showing(Elements(best[i]), q, order)]
  <1>6. ASSUME NEW i \in I PROVE TopOf(tops[i], docsOf[i], order, q.limit)
    <2> DEFINE some == Matching(q, operands[i], docs)
    <2>1. some \subseteq docs
      BY DEF Matching
    <2>2. Readable(some, q, order) /\ Find!OneOfEach(some)
      BY <2>1, SomeReadable
    <2>3. IsFiniteSet(some) /\ Ordered(some, order)
      BY <2>2, ShownAlike DEF Readable
    <2>4. best[i] \in Find!Best(some, order, q.limit)
      BY <1>1 DEF AreBest
    <2> HIDE DEF some
    <2>5. TopOf(Elements(best[i]), some, order, q.limit)
      BY <2>3, <2>4, BestIs
    <2>6. TopOf(Showing(Elements(best[i]), q, order), Showing(some, q, order), order, q.limit)
      BY <2>2, <2>5, ShownTop
    <2> QED
      BY <2>6 DEF some
  <1>7. all = UNION {docsOf[i] : i \in I}
    BY <1>2
  <1> DEFINE u == UNION {tops[i] : i \in I}
  <1>8. result \in Find!Best(u, order, q.limit)
    <2>1. u = AllShown(best, Operands(selection), q, order)
      BY DEF AllShown
    <2> QED
      BY <1>1, <2>1
  <1> HIDE DEF docsOf, tops, all, parts
  <1>9. u \subseteq all
    BY <1>6, <1>7 DEF TopOf
  <1>10. IsFiniteSet(u) /\ Ordered(u, order)
    BY <1>4, <1>5, <1>9, FS_Subset DEF Ordered
  <1> HIDE DEF u
  <1>11. result \in Seq(u) /\ Ranked(result, order) /\ TopOf(Elements(result), u, order, q.limit)
    BY <1>8, <1>10, BestIs
  <1>12. result \in Seq(all)
    BY <1>9, <1>11
  <1>13. TopOf(Elements(result), all, order, q.limit)
    <2>1. Parts(I, docsOf, all)
      BY <1>7 DEF Parts
    <2>2. Parts(I, tops, u)
      BY DEF u, Parts
    <2>3. \A i \in I : TopOf(tops[i], docsOf[i], order, q.limit)
      BY <1>6
    <2> DEFINE top == Elements(result)
    <2>4. TopOf(top, u, order, q.limit)
      BY <1>11
    <2> HIDE DEF I, top
    <2>5. TopOf(top, all, order, q.limit)
      BY <1>4, <1>5, <2>1, <2>2, <2>3, <2>4, TopOfTops
    <2> QED
      BY <2>5 DEF top
  <1> QED
    BY <1>11, <1>12, <1>13 DEF all

-----------------------------------------------------------------------------
(* Steps of queries *)

\* Before a query is read its answers are a list of nothing.
LEMMA NoReadsIs ==
    /\ IsSeq(Find!NoReads) /\ DOMAIN Find!NoReads = 1..Databases
    /\ \A db \in 1..Databases : Find!NoReads[db] = Null
  <1>1. DOMAIN Find!NoReads = 1..Databases /\ Find!NoReads = [db \in 1..Databases |-> Find!NoReads[db]]
        /\ \A db \in 1..Databases : Find!NoReads[db] = Null
    BY DEF Find!NoReads, Find!Database
  <1>2. Databases \in Nat
    BY QueriesAssumption
  <1> QED
    BY <1>1, <1>2, FunctionSequence

\* At first nothing is asked and nothing is read.
LEMMA FindInit == ASSUME Init PROVE FindInv
  <1>1. DOMAIN stored = 1..Databases /\ \A db \in 1..Databases : AreDocuments(stored[db])
    BY QueriesAssumption DEF Init, Find!Init
  <1>2. FindDomains /\ \A r \in Request :
            phase[r] = "idle" /\ asked[r] = Null /\ reads[r] = Find!NoReads /\ records[r] = Null
    BY DEF Init, Find!Init, FindDomains
  <1>3. \A r \in Request : ReadRight(r)
    BY <1>2, NoReadsIs DEF ReadRight
  <1> QED
    BY <1>1, <1>2, <1>3 DEF FindInv

\* What a query goes on with stays as it is.
LEMMA StaysRight ==
    ASSUME NEW r \in Request, ReadRight(r), UNCHANGED <<asked, records>>,
           filter'[r] = filter[r], reads'[r] = reads[r], phase'[r] = "idle" <=> phase[r] = "idle"
    PROVE  ReadRight(r)'
  BY DEF ReadRight

\* Nothing is read of a query that is asked, and its ids are so many.
LEMMA AskKeeps ==
    ASSUME FindInv, NEW r \in Request, Find!Ask(r)
    PROVE  FindInv'
  <1>1. phase[r] = "idle" /\ UNCHANGED <<stored, reads, records>>
    BY DEF Find!Ask, Find!database, Find!results, Find!answers
  <1>2. PICK q \in Asks[r] : asked' = [asked EXCEPT ![r] = q] /\ filter' = [filter EXCEPT ![r] = q.filter]
    BY DEF Find!Ask
  <1>3. phase' = [phase EXCEPT ![r] = "classify"]
    BY DEF Find!Ask
  <1>4. FindDomains' /\ FindDomains
    BY <1>1, <1>2, <1>3 DEF FindInv, FindDomains
  <1>5. ASSUME NEW x \in Request PROVE ReadRight(x)'
    <2>1. ReadRight(x)
      BY DEF FindInv
    <2>2. CASE x = r
      <3>1. asked'[x] = q /\ filter'[x] = q.filter /\ phase'[x] = "classify"
        BY <1>2, <1>3, <1>4, <2>2 DEF FindDomains
      <3>2. IsFiniteSet(Find!ExtractIdFilter(q.filter))
        BY QueriesAssumption
      <3>3. reads'[x] = Find!NoReads /\ records'[x] = Null
        BY <1>1, <2>1, <2>2 DEF ReadRight
      <3> QED
        BY <2>2, <3>1, <3>2, <3>3, NoReadsIs DEF ReadRight
    <2>3. CASE x # r
      <3>1. asked'[x] = asked[x] /\ filter'[x] = filter[x] /\ phase'[x] = phase[x]
            /\ reads'[x] = reads[x] /\ records'[x] = records[x]
        BY <1>1, <1>2, <1>3, <1>4, <2>3 DEF FindDomains
      <3> QED
        BY <2>1, <3>1 DEF ReadRight
    <2> QED
      BY <2>2, <2>3
  <1> QED
    BY <1>1, <1>4, <1>5 DEF FindInv

\* A step of a request to another phase that changes nothing else of it.
LEMMA PhaseKeeps ==
    ASSUME FindInv, NEW r \in Request, phase[r] # "idle", NEW to, to # "idle",
           phase' = [phase EXCEPT ![r] = to], UNCHANGED <<stored, asked, filter, reads, records>>
    PROVE  FindInv'
  <1>1. FindDomains' /\ FindDomains
    BY DEF FindInv, FindDomains
  <1>2. ASSUME NEW x \in Request PROVE ReadRight(x)'
    <2>1. phase'[x] = "idle" <=> phase[x] = "idle"
      BY <1>1 DEF FindDomains
    <2>2. ReadRight(x)
      BY DEF FindInv
    <2> QED
      BY <2>1, <2>2, StaysRight
  <1> QED
    BY <1>1, <1>2 DEF FindInv

\* Classification leaves what is read and found.
LEMMA ClassifyKeeps ==
    ASSUME FindInv, NEW r \in Request, Find!Classify(r) \/ Find!Refreshed(r)
    PROVE  FindInv'
  <1>1. phase[r] # "idle" /\ UNCHANGED <<stored, asked, filter, reads, records>>
    BY DEF Find!Classify, Find!Refreshed, Find!database, Find!arguments, Find!results, Find!answers
  <1>2. \E to : to # "idle" /\ phase' = [phase EXCEPT ![r] = to]
    BY Zenon DEF Find!Classify, Find!Refreshed, Find!Classified
  <1> QED
    BY <1>1, <1>2, PhaseKeeps

\* The answers of a request are as its next ones.
LEMMA ReadsKeep ==
    ASSUME FindInv, NEW r \in Request, phase[r] # "idle", NEW new, IsSeq(new), DOMAIN new = 1..Databases,
           \A db \in 1..Databases : new[db] # Null /\ asked[r].fields = <<>> => Lists(new[db], asked[r].coll),
           reads' = [reads EXCEPT ![r] = new], DOMAIN phase' = Request, phase'[r] # "idle",
           \A x \in Request \ {r} : phase'[x] = phase[x],
           UNCHANGED <<stored, asked, filter, records>>
    PROVE  FindInv'
  <1>1. FindDomains' /\ FindDomains
    BY DEF FindInv, FindDomains
  <1>2. ASSUME NEW x \in Request PROVE ReadRight(x)'
    <2>1. ReadRight(x)
      BY DEF FindInv
    <2>2. CASE x = r
      <3>1. reads'[x] = new /\ phase'[x] # "idle" /\ phase[x] # "idle"
        BY <1>1, <2>2 DEF FindDomains
      <3> QED
        BY <2>1, <2>2, <3>1 DEF ReadRight
    <2>3. CASE x # r
      <3>1. reads'[x] = reads[x] /\ phase'[x] = phase[x]
        BY <1>1, <2>3 DEF FindDomains
      <3> QED
        BY <2>1, <3>1, StaysRight
    <2> QED
      BY <2>2, <2>3
  <1> QED
    BY <1>1, <1>2 DEF FindInv

\* After a failure of a database nothing is read.
LEMMA DatabaseFailureKeeps ==
    ASSUME FindInv, NEW r \in Request, Find!DatabaseFails(r)
    PROVE  FindInv'
  <1>1. phase[r] # "idle" /\ UNCHANGED <<stored, asked, filter, records>>
    BY DEF Find!DatabaseFails, Find!database, Find!arguments, Find!answers
  <1>2. phase' = [phase EXCEPT ![r] = "failed"] /\ reads' = [reads EXCEPT ![r] = Find!NoReads]
    BY DEF Find!DatabaseFails
  <1>3. DOMAIN phase' = Request /\ phase'[r] # "idle" /\ \A x \in Request \ {r} : phase'[x] = phase[x]
    BY <1>2 DEF FindInv, FindDomains
  <1> QED
    BY <1>1, <1>2, <1>3, NoReadsIs, ReadsKeep

\* What a database answers is a list of documents of the collection.
LEMMA ReadKeeps ==
    ASSUME FindInv, NEW r \in Request, NEW db \in 1..Databases, Find!Read(r, db)
    PROVE  FindInv'
  <1> DEFINE q == asked[r]
             docs == {d \in stored[db] : d.coll = q.coll}
             new(result) == [reads[r] EXCEPT ![db] = result]
  <1>1. phase[r] = "read" /\ UNCHANGED <<stored, asked, filter, records, phase>>
    BY DEF Find!Read, Find!database, Find!arguments, Find!answers
  <1>2. PICK result : /\ reads' = [reads EXCEPT ![r][db] = result]
                      /\ q.fields = <<>> => result \in Find!QueryText(q, filter[r], orderBy[r], docs)
    BY DEF Find!Read
  <1>3. ReadRight(r) /\ FindDomains
    BY DEF FindInv
  <1>4. IsFiniteSet(docs) /\ AreOf(docs, q.coll)
    <2>1. IsFiniteSet(stored[db]) /\ \A d \in stored[db] : IsDocument(d)
      BY DEF FindInv, AreDocuments
    <2> QED
      BY <2>1, FS_Subset DEF AreOf
  <1>5. q.limit \in Nat
    BY <1>1, <1>3, QueriesAssumption DEF ReadRight
  <1> HIDE DEF docs, q
  <1>6. q.fields = <<>> => Lists(result, q.coll)
    BY <1>2, <1>4, <1>5, TextIs
  <1>7. IsSeq(new(result)) /\ DOMAIN new(result) = 1..Databases
    <2>1. Databases \in Nat
      BY QueriesAssumption
    <2>2. DOMAIN new(result) = 1..Databases /\ new(result) = [i \in 1..Databases |-> new(result)[i]]
      BY <1>3 DEF ReadRight
    <2> HIDE DEF new
    <2> QED
      BY <2>1, <2>2, FunctionSequence
  <1>8. \A i \in 1..Databases : new(result)[i] # Null /\ q.fields = <<>> => Lists(new(result)[i], q.coll)
    BY <1>3, <1>6 DEF ReadRight, q
  <1>9. reads' = [reads EXCEPT ![r] = new(result)] /\ DOMAIN phase' = Request /\ phase' = phase
    BY <1>1, <1>2, <1>3 DEF FindDomains
  <1> HIDE DEF new
  <1> QED
    BY <1>1, <1>7, <1>8, <1>9, ReadsKeep DEF q


\* What requests fetch are lists of documents, and a query that goes on with a key
\* starts anew.
LEMMA FetchedKeeps ==
    ASSUME FindInv, NEW rs \in SUBSET Request, NEW docs,
           \A r \in rs : phase[r] # "idle" /\ Lists(docs[r], asked[r].coll),
           Find!Fetched(rs, docs), asked' = asked,
           DOMAIN stored' = 1..Databases, \A db \in 1..Databases : AreDocuments(stored'[db])
    PROVE  FindInv'
  <1> DEFINE found == [r \in rs |-> Find!Finished(asked[r], filter[r], docs[r])]
             keyed == {r \in rs : single[r] /\ found[r] # <<>>}
             empty == {r \in rs : single[r] /\ found[r] = <<>>}
  <1>1. /\ phase' = [r \in Request |-> IF r \in keyed THEN "classify" ELSE IF r \in empty THEN "answered"
                                       ELSE IF r \in rs THEN "joins" ELSE phase[r]]
        /\ filter' = [r \in Request |-> IF r \in keyed THEN [id |-> [eq |-> found[r][1]._key]] ELSE filter[r]]
        /\ reads' = [r \in Request |-> IF r \in keyed THEN Find!NoReads ELSE reads[r]]
        /\ records' = [r \in Request |-> IF r \in rs \ (keyed \cup empty) THEN found[r] ELSE records[r]]
    BY Zenon DEF Find!Fetched
  <1>2. \A r \in rs : Lists(found[r], asked[r].coll)
    <2> TAKE r \in rs
    <2>1. ReadRight(r) /\ phase[r] # "idle" /\ Lists(docs[r], asked[r].coll)
      BY DEF FindInv
    <2>2. asked[r].limit \in Nat /\ IsFiniteSet(Find!ExtractIdFilter(filter[r]))
      BY <2>1, QueriesAssumption DEF ReadRight
    <2>3. Lists(Find!Finished(asked[r], filter[r], docs[r]), asked[r].coll)
      BY <2>1, <2>2, FinishedIs
    <2> QED
      BY <2>3
  <1> HIDE DEF found
  <1>3. FindDomains'
    BY <1>1 DEF FindInv, FindDomains
  <1>4. ASSUME NEW r \in Request PROVE ReadRight(r)'
    <2>1. ReadRight(r)
      BY DEF FindInv
    <2>2. CASE r \in keyed
      <3>1. phase'[r] = "classify" /\ filter'[r] = [id |-> [eq |-> found[r][1]._key]]
            /\ reads'[r] = Find!NoReads /\ records'[r] = records[r]
        BY <1>1, <2>2
      <3>2. IsFiniteSet(Find!ExtractIdFilter(filter'[r]))
        <4>1. Find!ExtractIdFilter(filter'[r]) = {found[r][1]._key}
          BY <3>1 DEF Find!ExtractIdFilter
        <4> QED
          BY <4>1, FS_Singleton
      <3>3. phase[r] # "idle"
        BY <2>2
      <3> QED
        BY <2>1, <3>1, <3>2, <3>3, NoReadsIs DEF ReadRight
    <2>3. CASE r \in rs /\ r \notin keyed
      <3>1. phase'[r] # "idle" /\ filter'[r] = filter[r] /\ reads'[r] = reads[r]
            /\ (records'[r] = records[r] \/ records'[r] = found[r])
        BY <1>1, <2>3
      <3>2. phase[r] # "idle" /\ Lists(found[r], asked[r].coll)
        BY <1>2, <2>3
      <3> QED
        BY <2>1, <3>1, <3>2 DEF ReadRight
    <2>4. CASE r \notin rs
      <3>1. phase'[r] = phase[r] /\ filter'[r] = filter[r] /\ reads'[r] = reads[r] /\ records'[r] = records[r]
        BY <1>1, <2>4
      <3> QED
        BY <2>1, <3>1 DEF ReadRight
    <2> QED
      BY <2>2, <2>3, <2>4
  <1> QED
    BY <1>3, <1>4 DEF FindInv

\* Nothing is a list of documents of any collection.
LEMMA EmptyList == \A coll : Lists(<<>>, coll)
  <1>1. <<>> \in Seq({})
    OBVIOUS
  <1> QED
    BY <1>1, ListOf DEF AreOf

\* A query has the combination of its answers, or asks again.
LEMMA CombineKeeps ==
    ASSUME FindInv, NEW r \in Request, Find!Combine(r)
    PROVE  FindInv'
  <1> DEFINE combined == Find!CombineResults(reads[r], orderBy[r])
  <1>1. /\ phase[r] = "read" /\ asked[r].fields = <<>> /\ \A db \in 1..Databases : reads[r][db] # Null
        /\ UNCHANGED <<stored, asked>>
    BY DEF Find!Combine, Find!database, Find!Database
  <1>2. ReadRight(r) /\ FindDomains
    BY DEF FindInv
  <1>3. CASE reads' = [reads EXCEPT ![r] = Find!NoReads] /\ UNCHANGED <<phase, filter, records>>
    BY <1>1, <1>2, <1>3, NoReadsIs, ReadsKeep DEF FindDomains
  <1>4. CASE Find!Fetched({r}, [x \in {r} |-> combined])
    <2>1. Lists(combined, asked[r].coll)
      BY <1>1, <1>2, CombinedIs DEF ReadRight
    <2> DEFINE docs == [x \in {r} |-> combined]
    <2>2. \A x \in {r} : phase[x] # "idle" /\ Lists(docs[x], asked[x].coll)
      BY <1>1, <2>1
    <2> HIDE DEF combined
    <2>3. Find!Fetched({r}, docs)
      BY <1>4
    <2> HIDE DEF docs
    <2>4. DOMAIN stored' = 1..Databases /\ \A db \in 1..Databases : AreDocuments(stored'[db])
      BY <1>1 DEF FindInv
    <2> QED
      BY <1>1, <2>2, <2>3, <2>4, FetchedKeeps
  <1> QED
    BY <1>3, <1>4, Zenon DEF Find!Combine

\* A query that waits ends with nothing.
LEMMA TimeoutKeeps ==
    ASSUME FindInv, NEW r \in Request, Find!TimesOut(r)
    PROVE  FindInv'
  <1>1. phase[r] = "read" /\ UNCHANGED <<stored, asked>>
    BY DEF Find!TimesOut, Find!database
  <1>2. CASE Find!Fetched({r}, [x \in {r} |-> <<>>])
    <2> DEFINE docs == [x \in {r} |-> <<>>]
    <2>1. \A x \in {r} : phase[x] # "idle" /\ Lists(docs[x], asked[x].coll)
      BY <1>1, EmptyList
    <2>2. Find!Fetched({r}, docs)
      BY <1>2
    <2> HIDE DEF docs
    <2>3. DOMAIN stored' = 1..Databases /\ \A db \in 1..Databases : AreDocuments(stored'[db])
      BY <1>1 DEF FindInv
    <2> QED
      BY <1>1, <2>1, <2>2, <2>3, FetchedKeeps
  <1>3. CASE phase' = [phase EXCEPT ![r] = "failed"] /\ UNCHANGED <<filter, reads, records>>
    BY <1>1, <1>3, PhaseKeeps
  <1> QED
    BY <1>2, <1>3, Zenon DEF Find!TimesOut

\* A document is written, which requests of its collection may end with.
LEMMA WriteKeeps ==
    ASSUME FindInv, NEW db \in 1..Databases, NEW d \in Arrivals[db], Find!Write(d, db)
    PROVE  FindInv'
  <1> DEFINE fed == {r \in Request : /\ db = 1 /\ phase[r] = "read" /\ asked[r].waits
                                     /\ asked[r].coll = d.coll
                                     /\ Accepts(Types[d.coll], Null, d, filter[r])}
             docs == [r \in fed |-> <<d>>]
  <1>1. /\ stored' = [stored EXCEPT ![db] = {x \in @ : x.coll # d.coll \/ x._key # d._key} \cup {d}]
        /\ asked' = asked
    BY DEF Find!Write
  <1>2. Find!Fetched(fed, docs)
    BY Zenon DEF Find!Write
  <1>3. IsDocument(d)
    BY QueriesAssumption DEF AreDocuments
  <1>4. ASSUME NEW r \in fed PROVE phase[r] # "idle" /\ Lists(docs[r], asked[r].coll)
    <2>1. Lists(<<d>>, d.coll)
      <3>1. <<d>> \in Seq({d})
        OBVIOUS
      <3> QED
        BY <1>3, <3>1, ListOf DEF AreOf
    <2> QED
      BY <2>1
  <1>5. fed \in SUBSET Request
    OBVIOUS
  <1> HIDE DEF fed, docs
  <1>6. DOMAIN stored' = 1..Databases
    BY <1>1 DEF FindInv
  <1>7. ASSUME NEW i \in 1..Databases PROVE AreDocuments(stored'[i])
    <2>1. AreDocuments(stored[i]) /\ AreDocuments(stored[db])
      BY DEF FindInv
    <2>2. CASE i = db
      <3> DEFINE others == {x \in stored[db] : x.coll # d.coll \/ x._key # d._key}
      <3>1. stored'[i] = others \cup {d}
        BY <1>1, <2>2 DEF FindInv
      <3>2. IsFiniteSet(others) /\ others \subseteq stored[db]
        BY <2>1, FS_Subset DEF AreDocuments
      <3> HIDE DEF others
      <3>3. IsFiniteSet(others \cup {d})
        BY <3>2, FS_AddElement
      <3> QED
        BY <1>3, <2>1, <3>1, <3>2, <3>3 DEF AreDocuments
    <2>3. CASE i # db
      <3>1. stored'[i] = stored[i]
        BY <1>1, <2>3 DEF FindInv
      <3> QED
        BY <2>1, <3>1
    <2> QED
      BY <2>2, <2>3
  <1> QED
    BY <1>1, <1>2, <1>4, <1>5, <1>6, <1>7, FetchedKeeps

\* Everything else of a request is a step to another phase.
LEMMA AnsweredKeeps ==
    ASSUME FindInv, NEW r \in Request, Find!Reduce(r) \/ Find!Answer(r)
    PROVE  FindInv'
  <1>1. phase[r] # "idle" /\ UNCHANGED <<stored, asked, filter, reads, records>>
    BY DEF Find!Reduce, Find!Answer, Find!database, Find!arguments, Find!results, Find!answers
  <1>2. \E to : to # "idle" /\ phase' = [phase EXCEPT ![r] = to]
    BY Zenon DEF Find!Reduce, Find!Answer
  <1> QED
    BY <1>1, <1>2, PhaseKeeps

\* The invariant is about what queries read and find only.
LEMMA FindUnchanged ==
    ASSUME FindInv, UNCHANGED <<stored, phase, asked, filter, reads, records>>
    PROVE  FindInv'
  BY DEF FindInv, FindDomains, ReadRight

\* Every step of queries keeps it.
LEMMA FindStep ==
    ASSUME FindInv, Find!Next
    PROVE  FindInv'
  <1>1. ASSUME NEW r \in Request, Find!Ask(r) PROVE FindInv'
    BY <1>1, AskKeeps
  <1>2. ASSUME NEW r \in Request, Find!Step(r) PROVE FindInv'
    <2>1. ASSUME NEW db \in 1..Databases, Find!Read(r, db) PROVE FindInv'
      BY <2>1, ReadKeeps
    <2> QED
      BY <1>2, <2>1, DatabaseFailureKeeps, AnsweredKeeps, ClassifyKeeps, CombineKeeps, TimeoutKeeps
      DEF Find!Step, Find!Database
  <1>3. ASSUME NEW db \in 1..Databases, NEW d \in Arrivals[db], Find!Write(d, db) PROVE FindInv'
    BY <1>3, WriteKeeps
  <1>4. CASE Find!Reindex \/ Find!RefreshIsDue
    BY <1>4, FindUnchanged
    DEF Find!Reindex, Find!RefreshIsDue, Find!database, Find!arguments, Find!results, Find!answers
  <1> QED
    BY <1>1, <1>2, <1>3, <1>4 DEF Find!Next, Find!Database

-----------------------------------------------------------------------------
(* All steps *)

Inv == FindInv /\ JoinInv

\* At first no joins have begun.
LEMMA JoinInit == ASSUME Init PROVE JoinInv
  <1>1. JoinDomains /\ \A r \in Request :
            /\ joining[r] = "no" /\ objects[r] = <<>> /\ frames[r] = <<>>
            /\ joined[r] = <<>> /\ plan[r] = <<>>
    BY DEF Init, Join!Init, JoinDomains
  <1>2. IsSeq(<<>>) /\ DOMAIN <<>> = {}
    <2>1. <<>> \in Seq({}) /\ DOMAIN <<>> = {}
      OBVIOUS
    <2> QED
      BY <2>1, Sequence
  <1>3. \A under, given : RequestInv("no", <<>>, <<>>, under, <<>>, <<>>, given)
    BY <1>2 DEF RequestInv, IsHeap, AreFrames, Complete
  <1> QED
    BY <1>1, <1>3 DEF JoinInv

\* Every step of joins keeps both invariants.
LEMMA JoinStep ==
    ASSUME Inv, Join!Next, UNCHANGED findVars
    PROVE  Inv'
  <1>1. PICK r \in Request : Join!Step(r)
    BY DEF Join!Next
  <1>2. JoinInv'
    BY <1>1, BeginKeeps, LeaveKeeps, StartKeeps, TimeKeeps, FailureKeeps, QueryKeeps DEF Join!Step, Inv
  <1>3. UNCHANGED <<stored, asked, records>>
    BY <1>1 DEF Join!Step, Join!Begin, Join!LeaveSelection, Join!StartJoin, Join!TimePasses, Join!JoinFails,
                Join!QueryPortion
  <1>4. FindInv'
    BY <1>3, FindUnchanged DEF Inv, findVars
  <1> QED
    BY <1>2, <1>4 DEF Inv

\* Queries leave joins alone.
LEMMA JoinsUnchanged ==
    ASSUME JoinInv, UNCHANGED <<joining, joinVars>>
    PROVE  JoinInv'
  BY DEF JoinInv, JoinDomains, joinVars

\* So does every step.
LEMMA InvStep ==
    ASSUME Inv, [Next]_vars
    PROVE  Inv'
  <1>1. CASE FindRecords
    BY <1>1, FindStep, JoinsUnchanged DEF FindRecords, Inv
  <1>2. CASE JoinRecords
    BY <1>2, JoinStep DEF JoinRecords
  <1>3. CASE UNCHANGED vars
    BY <1>3, FindUnchanged, JoinsUnchanged DEF Inv, vars, findVars
  <1> QED
    BY <1>1, <1>2, <1>3 DEF Next

-----------------------------------------------------------------------------
(* Joined records *)

\* A record that a reference has got is one it refers to.
LEMMA LinkIsJoined ==
    ASSUME NEW heap, IsHeap(heap), NEW o \in DOMAIN heap, NEW field, NEW ref,
           ref = Join!JoinFields[heap[o].doc.coll][field],
           NEW link \in Join!LinksOf(heap[o], ref.on, field), link.record # Null
    PROVE  IsJoined(heap, link.record, link.value, ref)
  <1> DEFINE doc == heap[o].doc
             values == Join!Values(doc, ref.on)
             got == IF field \notin DOMAIN heap[o].joins THEN [i \in DOMAIN values |-> Null]
                    ELSE IF ref.on = "out_msgs" THEN heap[o].joins[field] ELSE <<heap[o].joins[field]>>
  <1>1. PICK i \in DOMAIN values : link.value = values[i] /\ link.record = got[i]
    BY DEF Join!LinksOf
  <1>2. field \in DOMAIN heap[o].joins
    BY <1>1
  <1>3. GotRight(heap, o, field)
    BY <1>2 DEF IsHeap
  <1>4. values = IF ref.on = "out_msgs" THEN doc.out_msgs ELSE <<doc[ref.on]>>
    BY <1>3 DEF GotRight, Join!Values
  <1>5. got = IF ref.on = "out_msgs" THEN heap[o].joins[field] ELSE <<heap[o].joins[field]>>
    BY <1>2
  <1> HIDE DEF values, got
  <1>6. CASE ref.on = "out_msgs"
    BY <1>1, <1>3, <1>4, <1>5, <1>6 DEF GotRight
  <1>7. CASE ref.on # "out_msgs"
    <2>1. i = 1 /\ link.value = doc[ref.on] /\ link.record = heap[o].joins[field]
      BY <1>1, <1>4, <1>5, <1>7
    <2> QED
      BY <1>3, <1>7, <2>1 DEF GotRight
  <1> QED
    BY <1>6, <1>7

\* When the joins of a request are done, and none was given up, only what cannot be
\* joined is without its record.
LEMMA LinkIsLeft ==
    ASSUME JoinInv, NEW r \in Request, joining[r] = "done", ~gaveUp[r],
           NEW o \in DOMAIN objects[r], NEW j \in Join!ToSet(objects[r][o].selection), NEW ref,
           ref = Join!JoinFields[objects[r][o].doc.coll][j.field],
           NEW link \in Join!LinksOf(objects[r][o], ref.on, j.field), link.record = Null
    PROVE  ~Join!CanJoin(objects[r][o].doc.coll, j, objects[r][o].doc)
  <1>1. RequestInv("done", objects[r], frames[r], join[r], joined[r], plan[r], gaveUp[r])
    BY DEF JoinInv
  <1>2. frames[r] = <<>> /\ joined[r] = <<>> /\ plan[r] = <<>>
        /\ Complete(objects[r], frames[r], join[r], joined[r], plan[r])
    BY <1>1 DEF RequestInv
  <1>3. link.value \in Join!ToSet(Join!Values(objects[r][o].doc, ref.on))
        /\ Unlinked(objects[r][o], ref.on, j.field, link.value)
    BY LinkValue DEF Unlinked
  <1>4. ~Pending(frames[r], join[r], joined[r], plan[r], o, j, link.value)
    BY <1>2, NoElements DEF Pending
  <1> QED
    BY <1>2, <1>3, <1>4 DEF Complete

\* With the invariant, records are joined right.
LEMMA InvJoinedRight == ASSUME Inv PROVE JoinedRight
  <1> SUFFICES ASSUME NEW r \in Request, NEW o \in DOMAIN objects[r], NEW j \in Join!ToSet(objects[r][o].selection),
                      NEW ref, ref = Join!JoinFields[objects[r][o].doc.coll][j.field],
                      NEW link \in Join!LinksOf(objects[r][o], ref.on, j.field)
               PROVE  /\ link.record # Null =>
                            /\ objects[r][link.record].doc.coll = ref.collection
                            /\ link.value \in Join!ToSet(Join!Values(objects[r][link.record].doc, ref.refOn))
                      /\ link.record = Null /\ joining[r] = "done" /\ ~gaveUp[r] =>
                            ~Join!CanJoin(objects[r][o].doc.coll, j, objects[r][o].doc)
    BY Zenon DEF JoinedRight, Join!JoinedRight
  <1>1. IsHeap(objects[r])
    BY DEF Inv, JoinInv, RequestInv
  <1>2. link.record # Null => IsJoined(objects[r], link.record, link.value, ref)
    BY <1>1, LinkIsJoined
  <1>3. link.record = Null /\ joining[r] = "done" /\ ~gaveUp[r] =>
            ~Join!CanJoin(objects[r][o].doc.coll, j, objects[r][o].doc)
    BY LinkIsLeft DEF Inv
  <1> QED
    BY <1>2, <1>3 DEF IsJoined

\* The records that a query joins, however they come -- in portions, cut by a limit,
\* for several main records at once, while documents are written -- are those that
\* its records refer to; and all of them unless the time of a join is over.
THEOREM RightlyJoined == Spec => []JoinedRight
  <1>1. Init => Inv
    BY FindInit, JoinInit DEF Inv
  <1>2. Inv /\ [Next]_vars => Inv'
    BY InvStep
  <1>3. Inv => JoinedRight
    BY InvJoinedRight
  <1> QED
    BY <1>1, <1>2, <1>3, PTL DEF Spec

-----------------------------------------------------------------------------
(* What the databases answer together *)

\* Documents that their keys tell apart are taken once each.
LEMMA DistinctIs ==
    ASSUME NEW S, Find!OneOfEach(S), NEW flat \in Seq(S)
    PROVE  /\ Find!CollectDistinctDocs(flat) \in Seq(S)
           /\ Elements(Find!CollectDistinctDocs(flat)) = Elements(flat)
           /\ \A i, j \in DOMAIN Find!CollectDistinctDocs(flat) :
                 i < j => Find!CollectDistinctDocs(flat)[i] # Find!CollectDistinctDocs(flat)[j]
  <1> DEFINE places == {i \in DOMAIN flat : \A k \in 1..(i - 1) : flat[k]._key # flat[i]._key}
             c == Find!CollectDistinctDocs(flat)
  <1>1. c = Find!Kept(flat, places)
    BY DEF Find!CollectDistinctDocs
  <1>2. DOMAIN flat = 1..Len(flat) /\ Len(flat) \in Nat /\ \A i \in DOMAIN flat : flat[i] \in S
    OBVIOUS
  <1> HIDE DEF c
  <1>3. /\ c \in Seq(S)
        /\ \A i \in DOMAIN c : \E k \in DOMAIN flat \cap places : c[i] = flat[k]
        /\ \A k \in DOMAIN flat \cap places : \E i \in DOMAIN c : c[i] = flat[k]
        /\ \A i, j \in DOMAIN c : i < j => \E k, l \in DOMAIN flat \cap places : k < l /\ c[i] = flat[k] /\ c[j] = flat[l]
    <2> HIDE DEF places
    <2> QED
      BY <1>1, KeptOf
  <1>4. Elements(c) \subseteq Elements(flat)
    BY <1>3 DEF Elements
  <1>5. ASSUME NEW e \in Elements(flat) PROVE e \in Elements(c)
    <2>1. PICK m \in DOMAIN flat : e = flat[m]
      BY DEF Elements
    <2> DEFINE same == {k \in DOMAIN flat : flat[k]._key = e._key}
    <2>2. same \in SUBSET Nat /\ m \in same
      BY <1>2, <2>1
    <2>3. PICK k \in same : \A l \in same : k <= l
      <3> HIDE DEF same
      <3> QED
        BY <2>2, Least
    <2>4. k \in DOMAIN flat /\ flat[k] = e
      BY <1>2, <2>1, <2>3 DEF Find!OneOfEach
    <2>5. k \in places
      <3> SUFFICES ASSUME NEW l \in 1..(k - 1) PROVE flat[l]._key # flat[k]._key
        BY <2>4
      <3>1. l \in DOMAIN flat /\ ~(k <= l)
        BY <1>2, <2>4
      <3> QED
        BY <2>3, <2>4, <3>1
    <2> QED
      BY <1>3, <2>4, <2>5 DEF Elements
  <1>6. ASSUME NEW i \in DOMAIN c, NEW j \in DOMAIN c, i < j PROVE c[i] # c[j]
    <2>1. PICK k, l \in DOMAIN flat \cap places : k < l /\ c[i] = flat[k] /\ c[j] = flat[l]
      BY <1>3, <1>6
    <2>2. k \in 1..(l - 1)
      BY <1>2, <2>1
    <2> QED
      BY <2>1, <2>2
  <1> QED
    BY <1>3, <1>4, <1>5, <1>6 DEF c

\* A document is inserted in a ranked sequence, which stays ranked.
LEMMA InsertedRanked ==
    ASSUME NEW S, NEW order, Ordered(S, order), NEW s \in Seq(S), Ranked(s, order),
           NEW d \in S, d \notin Elements(s)
    PROVE  /\ Find!Inserted(s, d, order) \in Seq(S) /\ Ranked(Find!Inserted(s, d, order), order)
           /\ Elements(Find!Inserted(s, d, order)) = Elements(s) \cup {d}
  <1> DEFINE after == {i \in DOMAIN s : Find!Precedes(d, s[i], order)}
             before == DOMAIN s \ after
             x == Find!Kept(s, before)
             y == Find!Kept(s, after)
             z == Find!Inserted(s, d, order)
  <1>1. z = x \o <<d>> \o y
    BY DEF Find!Inserted
  <1>2. DOMAIN s = 1..Len(s) /\ Len(s) \in Nat /\ \A i \in DOMAIN s : s[i] \in S
    OBVIOUS
  <1>3. /\ \A k \in before : k \in DOMAIN s /\ s[k] \in S /\ ~Find!Precedes(d, s[k], order)
        /\ \A k \in after : k \in DOMAIN s /\ s[k] \in S /\ Find!Precedes(d, s[k], order)
        /\ DOMAIN s = before \cup after /\ before \cap after = {}
    BY <1>2
  <1> HIDE DEF before, after
  <1>4. /\ x \in Seq(S)
        /\ \A i \in DOMAIN x : \E k \in DOMAIN s \cap before : x[i] = s[k]
        /\ \A k \in DOMAIN s \cap before : \E i \in DOMAIN x : x[i] = s[k]
        /\ \A i, j \in DOMAIN x : i < j => \E k, l \in DOMAIN s \cap before : k < l /\ x[i] = s[k] /\ x[j] = s[l]
    BY KeptOf
  <1>5. /\ y \in Seq(S)
        /\ \A i \in DOMAIN y : \E k \in DOMAIN s \cap after : y[i] = s[k]
        /\ \A k \in DOMAIN s \cap after : \E i \in DOMAIN y : y[i] = s[k]
        /\ \A i, j \in DOMAIN y : i < j => \E k, l \in DOMAIN s \cap after : k < l /\ y[i] = s[k] /\ y[j] = s[l]
    BY KeptOf
  <1> HIDE DEF x, y, z
  <1> DEFINE m == Len(x)
             n == Len(y)
  <1>6. /\ m \in Nat /\ n \in Nat /\ DOMAIN x = 1..m /\ DOMAIN y = 1..n
        /\ z \in Seq(S) /\ DOMAIN z = 1..(m + 1 + n)
        /\ \A i \in DOMAIN x : z[i] = x[i]
        /\ z[m + 1] = d
        /\ \A i \in DOMAIN y : z[m + 1 + i] = y[i]
    <2>1. x \o <<d>> \in Seq(S) /\ Len(x \o <<d>>) = m + 1 /\ (x \o <<d>>)[m + 1] = d
          /\ \A i \in DOMAIN x : (x \o <<d>>)[i] = x[i] /\ i \in 1..(m + 1)
      BY <1>4
    <2> DEFINE w == x \o <<d>>
    <2>2. w \in Seq(S) /\ Len(w) = m + 1 /\ w[m + 1] = d /\ \A i \in DOMAIN x : w[i] = x[i] /\ i \in 1..(m + 1)
      BY <2>1
    <2>3. z = w \o y
      BY <1>1
    <2>4. m \in Nat /\ n \in Nat /\ DOMAIN x = 1..m /\ DOMAIN y = 1..n
      BY <1>4, <1>5
    <2> HIDE DEF w, m, n
    <2>5. n = Len(y)
      BY DEF n
    <2>6. z \in Seq(S) /\ DOMAIN z = 1..(Len(w) + Len(y))
      BY <1>5, <2>2, <2>3
    <2>7. \A i \in 1..(m + 1) : z[i] = w[i]
      BY <1>5, <2>2, <2>3, <2>4, <2>5
    <2>8. \A i \in DOMAIN y : z[m + 1 + i] = y[i]
      <3>1. \A k \in 1..(Len(w) + Len(y)) : z[k] = IF k <= Len(w) THEN w[k] ELSE y[k - Len(w)]
        BY <1>5, <2>2, <2>3
      <3>2. \A i \in 1..n : /\ m + 1 + i \in 1..(m + 1 + n) /\ ~(m + 1 + i <= m + 1)
                           /\ (m + 1 + i) - (m + 1) = i
        BY <2>4
      <3> QED
        BY <2>2, <2>4, <2>5, <3>1, <3>2
    <2>9. m + 1 \in 1..(m + 1)
      BY <2>4
    <2> QED
      BY <2>2, <2>4, <2>5, <2>6, <2>7, <2>8, <2>9
  <1> HIDE DEF m, n
  <1>7. \A i \in DOMAIN z : i \in DOMAIN x \/ i = m + 1 \/ \E k \in DOMAIN y : i = m + 1 + k
    <2> TAKE i \in DOMAIN z
    <2>1. i \in 1..m \/ i = m + 1 \/ (i - m - 1 \in 1..n /\ i = m + 1 + (i - m - 1))
      BY <1>6
    <2> QED
      BY <1>6, <2>1
  <1>8. Elements(z) = Elements(s) \cup {d}
    <2>1. ASSUME NEW i \in DOMAIN z PROVE z[i] \in Elements(s) \cup {d}
      BY <1>4, <1>5, <1>6, <1>7 DEF Elements
    <2>2. d \in Elements(z)
      <3>1. m + 1 \in DOMAIN z
        BY <1>6
      <3> QED
        BY <1>6, <3>1 DEF Elements
    <2>3. ASSUME NEW k \in DOMAIN s PROVE s[k] \in Elements(z)
      <3>1. CASE k \in before
        <4>1. PICK i \in DOMAIN x : x[i] = s[k]
          BY <1>4, <3>1
        <4>2. i \in DOMAIN z
          BY <1>6
        <4> QED
          BY <1>6, <4>1, <4>2 DEF Elements
      <3>2. CASE k \in after
        <4>1. PICK i \in DOMAIN y : y[i] = s[k]
          BY <1>5, <3>2
        <4>2. m + 1 + i \in DOMAIN z
          BY <1>6
        <4> QED
          BY <1>6, <4>1, <4>2 DEF Elements
      <3> QED
        BY <1>3, <3>1, <3>2
    <2> QED
      BY <2>1, <2>2, <2>3 DEF Elements
  <1>9. \A k \in DOMAIN s : s[k] # d
    BY DEF Elements
  <1>10. ASSUME NEW k \in before, NEW l \in after PROVE s[k] # s[l] /\ ~Find!Precedes(s[l], s[k], order)
    <2>1. s[k] # s[l]
      BY <1>3
    <2>2. ~Find!Precedes(s[l], d, order)
      BY <1>3, OneIsFirst
    <2>3. ~Find!Precedes(s[l], s[k], order)
      BY <1>3, <2>2, AnotherBetween
    <2> QED
      BY <2>1, <2>3
  <1>11. ASSUME NEW i \in DOMAIN z, NEW j \in DOMAIN z, i < j
         PROVE  z[i] # z[j] /\ ~Find!Precedes(z[j], z[i], order)
    <2>1. CASE j \in DOMAIN x
      <3>1. i \in DOMAIN x
        BY <1>6, <1>11, <2>1
      <3>2. PICK k, l \in DOMAIN s \cap before : k < l /\ x[i] = s[k] /\ x[j] = s[l]
        BY <1>4, <1>11, <2>1, <3>1
      <3> QED
        BY <1>6, <2>1, <3>1, <3>2 DEF Ranked
    <2>2. CASE j = m + 1
      <3>1. i \in DOMAIN x
        BY <1>6, <1>11, <2>2
      <3>2. PICK k \in DOMAIN s \cap before : x[i] = s[k]
        BY <1>4, <3>1
      <3> QED
        BY <1>3, <1>6, <1>9, <2>2, <3>1, <3>2
    <2>3. CASE \E b \in DOMAIN y : j = m + 1 + b
      <3>1. PICK b \in DOMAIN y : j = m + 1 + b
        BY <2>3
      <3>2. PICK l \in DOMAIN s \cap after : y[b] = s[l]
        BY <1>5
      <3>3. z[j] = s[l]
        BY <1>6, <3>1, <3>2
      <3>4. CASE i \in DOMAIN x
        <4>1. PICK k \in DOMAIN s \cap before : x[i] = s[k]
          BY <1>4, <3>4
        <4> QED
          BY <1>6, <1>10, <3>3, <3>4, <4>1
      <3>5. CASE i = m + 1
        <4>1. ~Find!Precedes(s[l], d, order)
          BY <1>3, OneIsFirst
        <4> QED
          BY <1>6, <1>9, <3>2, <3>3, <3>5, <4>1
      <3>6. CASE \E a \in DOMAIN y : i = m + 1 + a
        <4>1. PICK a \in DOMAIN y : i = m + 1 + a
          BY <3>6
        <4>2. a < b
          BY <1>6, <1>11, <3>1, <4>1
        <4>3. PICK k, e \in DOMAIN s \cap after : k < e /\ y[a] = s[k] /\ y[b] = s[e]
          BY <1>5, <4>2
        <4> QED
          BY <1>6, <3>1, <4>1, <4>3 DEF Ranked
      <3> QED
        BY <1>7, <3>4, <3>5, <3>6
    <2> QED
      BY <1>7, <2>1, <2>2, <2>3
  <1> QED
    BY <1>6, <1>8, <1>11 DEF Ranked, z

\* The results of databases are combined in their order: each document once.
LEMMA CombinedRanked ==
    ASSUME NEW S, Find!OneOfEach(S), NEW order, Ordered(S, order), NEW answered \in [1..Databases -> Seq(S)],
           NEW c, c = Find!CombineResults(answered, order), NEW parts,
           DOMAIN parts = 1..Databases, \A db \in 1..Databases : parts[db] = Elements(answered[db])
    PROVE  c \in Seq(S) /\ Ranked(c, order) /\ Parts(1..Databases, parts, Elements(c))
  <1> DEFINE flat == Find!FlattenSeq(answered)
             docs == Find!CollectDistinctDocs(flat)
             n == Len(docs)
  <1>1. /\ flat \in Seq(S) /\ HasOnly(Databases, answered, flat) /\ HasAll(Databases, answered, flat)
    <2>1. Find!FlattenSeq(answered) = Join!FlattenSeq(answered)
      BY DEF Find!FlattenSeq, Join!FlattenSeq
    <2> QED
      BY <2>1, FlattenIs, QueriesAssumption
  <1>2. PICK f : /\ f[0] = <<>> /\ f[n] = c
                 /\ \A i \in 1..n : f[i] = Find!Inserted(f[i - 1], docs[i], order)
    BY CombinedBy
  <1> HIDE DEF flat
  <1>3. docs \in Seq(S) /\ Elements(docs) = Elements(flat) /\ \A i, j \in DOMAIN docs : i < j => docs[i] # docs[j]
    BY <1>1, DistinctIs
  <1> HIDE DEF docs
  <1>4. n \in Nat /\ DOMAIN docs = 1..n /\ \A i \in 1..n : docs[i] \in S
    BY <1>3
  <1> HIDE DEF n
  <1> DEFINE Of(i, x) == x \in Seq(S) /\ Ranked(x, order) /\ Elements(x) = {docs[k] : k \in 1..i}
             reached == {m \in Nat : m <= n => Of(m, f[m])}
  <1>5. 0 \in reached
    <2>1. <<>> \in Seq(S) /\ DOMAIN <<>> = {} /\ 1..0 = {}
      OBVIOUS
    <2>2. Ranked(<<>>, order) /\ Elements(<<>>) = {} /\ {docs[k] : k \in 1..0} = {}
      BY <2>1 DEF Ranked, Elements
    <2> QED
      BY <1>2, <2>1, <2>2
  <1>6. ASSUME NEW m \in reached PROVE m + 1 \in reached
    <2> SUFFICES ASSUME m + 1 <= n PROVE Of(m + 1, f[m + 1])
      OBVIOUS
    <2>1. m \in Nat /\ m + 1 \in 1..n /\ (m + 1) - 1 = m /\ m <= n /\ m + 1 \notin 1..m
          /\ \A k \in 1..m : k \in 1..n /\ k < m + 1
      BY <1>4
    <2>2. f[m] \in Seq(S) /\ Ranked(f[m], order) /\ Elements(f[m]) = {docs[k] : k \in 1..m}
      BY <2>1
    <2>3. f[m + 1] = Find!Inserted(f[m], docs[m + 1], order) /\ docs[m + 1] \in S
      BY <1>2, <1>4, <2>1
    <2>4. docs[m + 1] \notin Elements(f[m])
      BY <1>3, <1>4, <2>1, <2>2
    <2>5. 1..(m + 1) = (1..m) \cup {m + 1}
      BY <2>1
    <2> QED
      BY <2>2, <2>3, <2>4, <2>5, InsertedRanked
  <1>7. n \in reached
    <2>1. reached \in SUBSET Nat
      OBVIOUS
    <2> HIDE DEF reached
    <2> QED
      BY <1>4, <1>5, <1>6, <2>1, ByInduction
  <1>8. c \in Seq(S) /\ Ranked(c, order) /\ Elements(c) = Elements(docs)
    <2>1. n <= n /\ Of(n, f[n])
      BY <1>4, <1>7
    <2>2. Elements(docs) = {docs[k] : k \in 1..n}
      BY <1>4 DEF Elements
    <2> QED
      BY <1>2, <2>1, <2>2
  <1>9. Parts(1..Databases, parts, Elements(c))
    <2>1. ASSUME NEW db \in 1..Databases, NEW d \in parts[db] PROVE d \in Elements(flat)
      BY <1>1, <2>1 DEF Elements, HasAll
    <2>2. ASSUME NEW d \in Elements(flat) PROVE \E db \in 1..Databases : d \in parts[db]
      BY <1>1, <2>2 DEF Elements, HasOnly
    <2> QED
      BY <1>3, <1>8, <2>1, <2>2 DEF Parts
  <1> QED
    BY <1>8, <1>9

\* The sequence of a set has each of its elements once.
LEMMA SetToSeqHas ==
    ASSUME NEW S, IsFiniteSet(S), NEW s, s = Find!SetToSeq(S)
    PROVE  /\ s \in Seq(S) /\ Elements(s) = S
           /\ \A i, j \in DOMAIN s : i # j => s[i] # s[j]
  <1>1. Cardinality(S) \in Nat /\ ExistsBijection(1..Cardinality(S), S)
    BY FS_CardinalityType
  <1>2. PICK f \in [1..Cardinality(S) -> S] : Find!IsInjective(f)
    BY <1>1 DEF ExistsBijection, Bijection, Injection, IsInjective, Find!IsInjective
  <1>3. s \in [1..Cardinality(S) -> S] /\ Find!IsInjective(s)
    BY <1>1, <1>2, SameCardinality DEF Find!SetToSeq
  <1>4. \A i, j \in DOMAIN s : i # j => s[i] # s[j]
    BY <1>3 DEF Find!IsInjective
  <1> DEFINE n == Cardinality(S)
  <1>5. n \in Nat /\ s \in [1..n -> S] /\ \A i, j \in 1..n : i < j => s[i] # s[j]
    BY <1>1, <1>3, <1>4
  <1>6. Cardinality(Elements(s)) = n /\ Elements(s) \subseteq S
    <2> HIDE DEF n
    <2> QED
      BY <1>5, ElementsOf
  <1>7. Elements(s) = S
    BY <1>6, FS_Subset
  <1> QED
    BY <1>3, <1>4, <1>5, <1>7

\* An answer begins with what was combined, as much as its limit allows; the rest are
\* accounts that are missing, all of them unless the limit is reached.
LEMMA FinishedHas ==
    ASSUME NEW S, NEW docs \in Seq(S), NEW q, q.limit \in Nat, NEW selection,
           NEW ids, ids = Find!ExtractIdFilter(selection), IsFiniteSet(ids),
           NEW got, got = Find!Finished(q, selection, docs),
           NEW m, m = IF Len(docs) > q.limit THEN q.limit ELSE Len(docs)
    PROVE  /\ DOMAIN got = 1..Len(got) /\ Len(got) \in Nat /\ m <= Len(got) /\ Len(got) <= q.limit
           /\ \A i \in 1..m : got[i] = docs[i]
           /\ \A i \in DOMAIN got \ (1..m) :
                 m = Len(docs) /\ q.coll = "accounts" /\ got[i]._key \in ids \ {docs[k]._key : k \in DOMAIN docs}
           /\ \A i, j \in DOMAIN got \ (1..m) : i # j => got[i]._key # got[j]._key
           /\ q.coll = "accounts" /\ Len(docs) < Cardinality(ids) /\ Len(got) < q.limit =>
                 \A id \in ids : \E i \in DOMAIN got : got[i]._key = id
  <1> DEFINE left == ids \ {docs[i]._key : i \in DOMAIN docs}
             missing == Find!SetToSeq(left)
             more == [i \in DOMAIN missing |-> Find!MissingAccount(missing[i])]
             lacks == q.coll = "accounts" /\ Len(docs) < Cardinality(ids)
             all == IF lacks THEN docs \o more ELSE docs
             n == IF Len(all) > q.limit THEN q.limit ELSE Len(all)
  <1>1. got = SubSeq(all, 1, n)
    BY SameCardinality DEF Find!Finished, Find!AddMissingAccountRecords
  <1>2. missing \in Seq(left) /\ Elements(missing) = left /\ \A i, j \in DOMAIN missing : i # j => missing[i] # missing[j]
    <2>1. IsFiniteSet(left)
      BY FS_Subset
    <2> HIDE DEF left
    <2> QED
      BY <2>1, SetToSeqHas
  <1>3. \A i \in DOMAIN docs : docs[i]._key \notin left
    OBVIOUS
  <1>4. DOMAIN docs = 1..Len(docs) /\ Len(docs) \in Nat
    OBVIOUS
  <1> HIDE DEF missing
  <1> DEFINE T == S \cup {Find!MissingAccount(id) : id \in left}
  <1>5. DOMAIN missing = 1..Len(missing) /\ Len(missing) \in Nat /\ \A i \in DOMAIN missing : missing[i] \in left
    BY <1>2
  <1>6. more \in Seq(T) /\ Len(more) = Len(missing) /\ \A i \in DOMAIN missing : more[i] = Find!MissingAccount(missing[i])
    <2>1. more \in [1..Len(missing) -> T]
      BY <1>5
    <2>2. \A i \in DOMAIN missing : more[i] = Find!MissingAccount(missing[i])
      OBVIOUS
    <2> HIDE DEF more, T
    <2> QED
      BY <1>5, <2>1, <2>2
  <1>7. docs \in Seq(T)
    <2>1. S \subseteq T
      OBVIOUS
    <2> HIDE DEF T
    <2> QED
      BY <2>1
  <1>8. \A id : Find!MissingAccount(id)._key = id
    BY DEF Find!MissingAccount
  <1> HIDE DEF more, T
  <1> DEFINE k == Len(docs)
             l == Len(missing)
  <1>9. /\ all \in Seq(T) /\ (lacks => Len(all) = k + l) /\ (~lacks => Len(all) = k)
        /\ \A i \in 1..k : all[i] = docs[i]
        /\ lacks => \A i \in 1..l : all[k + i]._key = missing[i]
    <2>1. CASE lacks
      <3>1. all = docs \o more
        BY <2>1
      <3> HIDE DEF all, lacks
      <3>2. docs \o more \in Seq(T) /\ Len(docs \o more) = Len(docs) + Len(more)
        BY <1>6, <1>7
      <3>3. \A i \in 1..(Len(docs) + Len(more)) :
                (docs \o more)[i] = IF i <= Len(docs) THEN docs[i] ELSE more[i - Len(docs)]
        BY <1>6, <1>7
      <3>4. \A i \in 1..k : i \in 1..(k + l) /\ i <= k
        BY <1>4, <1>5
      <3>5. \A i \in 1..l : k + i \in 1..(k + l) /\ ~(k + i <= k) /\ (k + i) - k = i
        BY <1>4, <1>5
      <3>6. \A i \in 1..k : all[i] = docs[i]
        BY <1>6, <3>1, <3>3, <3>4
      <3>7. \A i \in 1..l : all[k + i]._key = missing[i]
        BY <1>5, <1>6, <1>8, <3>1, <3>3, <3>5
      <3> QED
        BY <1>6, <2>1, <3>1, <3>2, <3>6, <3>7
    <2>2. CASE ~lacks
      <3>1. all = docs
        BY <2>2
      <3> HIDE DEF all, lacks
      <3> QED
        BY <1>7, <2>2, <3>1
    <2> QED
      BY <2>1, <2>2
  <1> HIDE DEF all
  <1> DEFINE a == Len(all)
  <1>10. a \in Nat /\ (n = IF a > q.limit THEN q.limit ELSE a) /\ (lacks => a = k + l) /\ (~lacks => a = k)
    BY <1>9
  <1>11. k \in Nat /\ l \in Nat /\ (m = IF k > q.limit THEN q.limit ELSE k)
    BY <1>4, <1>5
  <1> HIDE DEF a, k, l, n, lacks, left
  <1>12. n \in Nat /\ n <= a /\ m \in Nat /\ m <= n /\ n <= q.limit /\ m <= k
    BY <1>10, <1>11
  <1>13. got \in Seq(T) /\ Len(got) = n /\ DOMAIN got = 1..n /\ \A i \in 1..n : got[i] = all[i]
    BY <1>1, <1>9, <1>12 DEF a
  <1>14. ASSUME NEW i \in 1..m PROVE got[i] = docs[i]
    <2>1. i \in 1..n /\ i \in 1..k
      BY <1>11, <1>12
    <2> QED
      BY <1>9, <1>13, <2>1
  <1>15. ASSUME NEW i \in DOMAIN got \ (1..m)
         PROVE  lacks /\ m = k /\ i - k \in DOMAIN missing /\ got[i]._key = missing[i - k]
    <2>1. i \in 1..n /\ m < i
      BY <1>12, <1>13
    <2>2. lacks /\ m = k /\ i - k \in 1..l /\ i = k + (i - k)
      BY <1>10, <1>11, <1>12, <2>1
    <2> QED
      BY <1>5, <1>9, <1>13, <2>1, <2>2 DEF l
  <1>16. ASSUME NEW i \in DOMAIN got \ (1..m), NEW j \in DOMAIN got \ (1..m), i # j
         PROVE  got[i]._key # got[j]._key
    <2>1. i - k # j - k
      BY <1>11, <1>13, <1>16
    <2> QED
      BY <1>2, <1>15, <2>1
  <1>17. ASSUME lacks, Len(got) < q.limit, NEW id \in ids PROVE \E i \in DOMAIN got : got[i]._key = id
    <2>1. n = k + l
      BY <1>10, <1>11, <1>13, <1>17
    <2>2. CASE id \in left
      <3>1. PICK i \in DOMAIN missing : missing[i] = id
        BY <1>2, <2>2 DEF Elements
      <3>2. i \in 1..l /\ k + i \in 1..n
        BY <1>5, <1>11, <2>1 DEF l
      <3> QED
        BY <1>9, <1>13, <1>17, <3>1, <3>2
    <2>3. CASE id \notin left
      <3>1. PICK i \in DOMAIN docs : docs[i]._key = id
        BY <2>3 DEF left
      <3>2. i \in 1..k /\ i \in 1..n
        BY <1>4, <1>11, <2>1 DEF k
      <3> QED
        BY <1>9, <1>13, <3>1, <3>2
    <2> QED
      BY <2>2, <2>3
  <1>18. \A i \in DOMAIN got \ (1..m) :
             m = Len(docs) /\ q.coll = "accounts" /\ got[i]._key \in ids \ {docs[j]._key : j \in DOMAIN docs}
    BY <1>5, <1>15 DEF lacks, k, left
  <1>19. DOMAIN got = 1..Len(got) /\ Len(got) \in Nat /\ m <= Len(got) /\ Len(got) <= q.limit
    BY <1>12, <1>13
  <1>20. q.coll = "accounts" /\ Len(docs) < Cardinality(ids) /\ Len(got) < q.limit =>
                 \A id \in ids : \E i \in DOMAIN got : got[i]._key = id
    BY <1>17 DEF lacks
  <1> QED
    BY <1>14, <1>16, <1>18, <1>19, <1>20

\* What an answer is, see AnswerIsBest of CollectionQuery.
IsBest(q, selection, order, held, got) ==
    LET matching == Matching(q, selection, held)
        found == {i \in DOMAIN got : got[i]._key \in Find!Keys(matching)}
        Source(i) == Find!ByKey(matching, got[i]._key)
        left == {d \in matching : \A i \in found : got[i]._key # d._key}
        absent == IF q.coll = "accounts" THEN Find!ExtractIdFilter(selection) \ Find!Keys(held) ELSE {}
    IN /\ \A i, j \in DOMAIN got : i # j => got[i]._key # got[j]._key
       /\ \A i, j \in found : i < j => ~Find!Precedes(Source(j), Source(i), order)
       /\ Len(got) <= q.limit
       /\ left # {} => found = 1..q.limit
       /\ \A d \in left : \A i \in found : ~Find!Precedes(d, Source(i), order)
       /\ \A i \in DOMAIN got \ found : got[i]._key \in absent
       /\ Len(got) < q.limit => \A id \in absent : \E i \in DOMAIN got : got[i]._key = id

\* The documents of all databases.
Held(docs) == UNION {docs[db] : db \in 1..Databases}

\* What can be read of each database can be read of all.
LEMMA AllReadable ==
    ASSUME NEW q, NEW order, NEW docs, \A db \in 1..Databases : Readable(docs[db], q, order)
    PROVE  Readable(Held(docs), q, order) /\ \A db \in 1..Databases : docs[db] \subseteq Held(docs)
  <1>1. IsFiniteSet({docs[db] : db \in 1..Databases})
    <2> DEFINE I == 1..Databases
    <2>1. IsFiniteSet(I)
      BY FS_Interval, QueriesAssumption
    <2> HIDE DEF I
    <2>2. IsFiniteSet({docs[db] : db \in I})
      BY <2>1, FiniteImage
    <2> QED
      BY <2>2 DEF I
  <1>2. IsFiniteSet(Held(docs))
    <2>1. \A T \in {docs[db] : db \in 1..Databases} : IsFiniteSet(T)
      BY DEF Readable
    <2> QED
      BY <1>1, <2>1, FS_UNION DEF Held
  <1>3. \A db \in 1..Databases : docs[db] \subseteq Held(docs)
    BY DEF Held
  <1>4. \A d \in Held(docs) : \E db \in 1..Databases : d \in docs[db]
    BY DEF Held
  <1>5. 1 \in 1..Databases
    BY QueriesAssumption
  <1> QED
    BY <1>2, <1>3, <1>4, <1>5 DEF Readable

\* Documents that their keys tell apart are told apart by the keys of their parts.
LEMMA PartsByKey ==
    ASSUME NEW q, NEW order, NEW docs, Readable(docs, q, order), Find!OneOfEach(docs)
    PROVE  /\ Find!OneOfEach(Showing(docs, q, order))
           /\ \A d \in docs : Find!ByKey(docs, Shown(d, q, order)._key) = d
           /\ \A d \in docs : Shown(d, q, order)._key \in Find!Keys(docs)
           /\ IsFiniteSet(Showing(docs, q, order))
  <1>1. \A d \in docs : Shown(d, q, order)._key = d._key
    BY ShownIs
  <1>2. Find!OneOfEach(Showing(docs, q, order))
    <2> SUFFICES ASSUME NEW a \in Showing(docs, q, order), NEW b \in Showing(docs, q, order), a._key = b._key
                 PROVE  a = b
      BY DEF Find!OneOfEach
    <2>1. PICK d \in docs : a = Shown(d, q, order)
      BY DEF Showing
    <2>2. PICK e \in docs : b = Shown(e, q, order)
      BY DEF Showing
    <2>3. d = e
      BY <1>1, <2>1, <2>2 DEF Find!OneOfEach
    <2> QED
      BY <2>1, <2>2, <2>3
  <1>3. ASSUME NEW d \in docs PROVE Find!ByKey(docs, d._key) = d
    BY DEF Find!OneOfEach, Find!ByKey
  <1>4. IsFiniteSet(Showing(docs, q, order))
    <2> DEFINE shown == [d \in docs |-> Shown(d, q, order)]
    <2>1. {shown[d] : d \in docs} = Showing(docs, q, order)
      BY DEF Showing
    <2> HIDE DEF shown
    <2> QED
      BY <2>1, FiniteImage DEF Readable
  <1> QED
    BY <1>1, <1>2, <1>3, <1>4 DEF Find!Keys

\* What databases answer, in their parts: each the first of what it holds.
Reading(q, selection, order, docs, answered) ==
    /\ q.limit \in Nat /\ IsFilter(selection, q.coll) /\ IsFiniteSet(Find!ExtractIdFilter(selection))
    /\ \A db \in 1..Databases : Readable(docs[db], q, order) /\ Find!OneOfEach(docs[db])
    /\ IsSeq(answered) /\ DOMAIN answered = 1..Databases
    /\ \A db \in 1..Databases : answered[db] \in Find!QueryText(q, selection, order, docs[db])

\* What is combined of the answers, up to the limit, are the first of all documents.
LEMMA CombinedAreBest ==
    ASSUME NEW q, NEW selection, NEW order, NEW docs, NEW answered,
           Reading(q, selection, order, docs, answered), Find!OneOfEach(Held(docs)),
           NEW all, all = Showing(Matching(q, selection, Held(docs)), q, order),
           NEW c, c = Find!CombineResults(answered, order),
           NEW m, m = IF Len(c) > q.limit THEN q.limit ELSE Len(c)
    PROVE  /\ c \in Seq(all) /\ Ranked(c, order) /\ m \in Nat
           /\ TopOf(Beginning(c, m), all, order, q.limit) /\ Cardinality(Beginning(c, m)) = m
  <1> DEFINE I == 1..Databases
             matching == Matching(q, selection, Held(docs))
             sets == [db \in I |-> Showing(Matching(q, selection, docs[db]), q, order)]
             tops == [db \in I |-> Elements(answered[db])]
             top == Beginning(c, m)
             limit == q.limit
  <1>1. limit \in Nat /\ m = IF Len(c) > limit THEN limit ELSE Len(c)
    BY DEF Reading
  <1>2. Readable(Held(docs), q, order) /\ \A db \in I : docs[db] \subseteq Held(docs)
    BY AllReadable DEF Reading
  <1>3. Readable(matching, q, order) /\ Find!OneOfEach(matching)
    <2>1. matching \in SUBSET Held(docs)
      BY DEF Matching
    <2> HIDE DEF matching
    <2> QED
      BY <1>2, <2>1, SomeReadable
  <1>4. Find!OneOfEach(all) /\ Ordered(all, order) /\ IsFiniteSet(all)
    <2> HIDE DEF matching
    <2> QED
      BY <1>3, PartsByKey, ShownAlike DEF matching
  <1>5. Parts(I, sets, all)
    <2>1. \A db \in I : Matching(q, selection, docs[db]) \subseteq matching
      BY <1>2 DEF Matching
    <2>2. \A d \in matching : \E db \in I : d \in Matching(q, selection, docs[db])
      BY DEF Matching, Held
    <2> HIDE DEF matching
    <2> QED
      BY <2>1, <2>2 DEF Parts, Showing, matching
  <1>6. ASSUME NEW db \in I
        PROVE  answered[db] \in Seq(sets[db]) /\ TopOf(tops[db], sets[db], order, limit)
    <2>1. answered[db] \in Find!QueryText(q, selection, order, docs[db])
          /\ Readable(docs[db], q, order) /\ Find!OneOfEach(docs[db])
      BY DEF Reading
    <2> QED
      BY <2>1, TextIsBest DEF Reading
  <1> HIDE DEF sets
  <1>7. answered \in [1..Databases -> Seq(all)]
    <2>1. \A db \in I : answered[db] \in Seq(all)
      <3> TAKE db \in I
      <3>1. sets[db] \subseteq all /\ answered[db] \in Seq(sets[db])
        BY <1>5, <1>6 DEF Parts
      <3> QED
        BY <3>1
    <2>2. answered = [db \in I |-> answered[db]]
      BY DEF Reading, IsSeq
    <2> QED
      BY <2>1, <2>2
  <1>8. DOMAIN tops = 1..Databases /\ \A db \in 1..Databases : tops[db] = Elements(answered[db])
    OBVIOUS
  <1> HIDE DEF tops, I, matching
  <1>9. c \in Seq(all) /\ Ranked(c, order) /\ Parts(I, tops, Elements(c))
    BY <1>4, <1>7, <1>8, CombinedRanked DEF I
  <1>10. m \in Nat
    BY <1>1, <1>9
  <1> HIDE DEF limit
  <1>11. TopOf(top, Elements(c), order, limit) /\ Cardinality(top) = m
    BY <1>1, <1>4, <1>9, <1>10, CutIsTop
  <1> HIDE DEF top
  <1>12. TopOf(top, all, order, limit)
    <2> DEFINE some == Elements(c)
    <2>1. Parts(I, tops, some) /\ TopOf(top, some, order, limit)
      BY <1>9, <1>11
    <2>2. \A db \in I : TopOf(tops[db], sets[db], order, limit)
      BY <1>6
    <2> HIDE DEF some
    <2> QED
      BY <1>1, <1>4, <1>5, <2>1, <2>2, TopOfTops
  <1> QED
    BY <1>9, <1>10, <1>11, <1>12 DEF top, limit

\* So an answer is the best there is, with the accounts that are missing.
LEMMA FinishedIsBest ==
    ASSUME NEW q, NEW selection, NEW order, NEW docs, NEW answered,
           Reading(q, selection, order, docs, answered), Find!OneOfEach(Held(docs))
    PROVE  IsBest(q, selection, order, Held(docs),
                  Find!Finished(q, selection, Find!CombineResults(answered, order)))
  <1> DEFINE held == Held(docs)
             matching == Matching(q, selection, held)
             all == Showing(matching, q, order)
             c == Find!CombineResults(answered, order)
             got == Find!Finished(q, selection, c)
             ids == Find!ExtractIdFilter(selection)
             limit == q.limit
             m == IF Len(c) > limit THEN limit ELSE Len(c)
             top == Beginning(c, m)
             found == {i \in DOMAIN got : got[i]._key \in Find!Keys(matching)}
             Source(i) == Find!ByKey(matching, got[i]._key)
             left == {d \in matching : \A i \in found : got[i]._key # d._key}
             absent == IF q.coll = "accounts" THEN ids \ Find!Keys(held) ELSE {}
  <1>1. limit \in Nat /\ IsFiniteSet(ids) /\ IsFilter(selection, q.coll)
    BY DEF Reading
  <1>2. Readable(held, q, order)
    BY AllReadable DEF Reading
  <1>3. Readable(matching, q, order) /\ Find!OneOfEach(matching)
    <2>1. matching \in SUBSET held
      BY DEF Matching
    <2> HIDE DEF matching
    <2> QED
      BY <1>2, <2>1, SomeReadable
  <1>4. /\ c \in Seq(all) /\ Ranked(c, order) /\ m \in Nat
        /\ TopOf(top, all, order, limit) /\ Cardinality(top) = m
    BY CombinedAreBest
  <1>5. /\ DOMAIN got = 1..Len(got) /\ Len(got) \in Nat /\ m <= Len(got) /\ Len(got) <= limit
        /\ \A i \in 1..m : got[i] = c[i]
        /\ \A i \in DOMAIN got \ (1..m) :
              m = Len(c) /\ q.coll = "accounts" /\ got[i]._key \in ids \ {c[k]._key : k \in DOMAIN c}
        /\ \A i, j \in DOMAIN got \ (1..m) : i # j => got[i]._key # got[j]._key
        /\ q.coll = "accounts" /\ Len(c) < Cardinality(ids) /\ Len(got) < limit =>
              \A id \in ids : \E i \in DOMAIN got : got[i]._key = id
    BY <1>1, <1>4, FinishedHas
  <1>6. /\ Find!OneOfEach(all) /\ \A d \in matching : Find!ByKey(matching, Shown(d, q, order)._key) = d
        /\ \A d \in matching : Shown(d, q, order)._key \in Find!Keys(matching)
        /\ \A d \in matching : Shown(d, q, order)._key = d._key
        /\ IsFiniteSet(all)
    <2> HIDE DEF matching
    <2> QED
      BY <1>3, PartsByKey, ShownIs
  <1>7. \A d, e \in matching :
            Find!Precedes(Shown(d, q, order), Shown(e, q, order), order) <=> Find!Precedes(d, e, order)
    <2> HIDE DEF matching
    <2> QED
      BY <1>3, ShownAlike
  <1>8. DOMAIN c = 1..Len(c) /\ Len(c) \in Nat /\ \A i \in DOMAIN c : c[i] \in all
    BY <1>4
  <1>9. /\ 1..m \subseteq DOMAIN c /\ 1..m \subseteq DOMAIN got
        /\ m <= limit /\ (m # limit => m = Len(c))
    <2>1. m <= Len(c) /\ m \in Nat /\ m <= limit /\ (m # limit => m = Len(c))
      BY <1>1, <1>4, <1>8
    <2> HIDE DEF m
    <2>2. \A n \in Nat : m <= n => 1..m \subseteq 1..n
      BY <2>1
    <2> QED
      BY <1>5, <1>8, <2>1, <2>2
  <1> HIDE DEF m, got, c
  <1>10. ASSUME NEW i \in 1..m
         PROVE  \E d \in matching : got[i] = Shown(d, q, order) /\ Source(i) = d /\ i \in found
    <2>1. i \in DOMAIN got /\ got[i] \in all
      BY <1>5, <1>8, <1>9
    <2> HIDE DEF matching
    <2>2. PICK d \in matching : got[i] = Shown(d, q, order)
      BY <2>1 DEF Showing
    <2> QED
      BY <1>6, <2>1, <2>2
  <1>11. ASSUME NEW d \in matching, Shown(d, q, order) \notin top
         PROVE  m = limit /\ \A e \in matching : Shown(e, q, order) \in top => ~Find!Precedes(d, e, order)
    <2>1. Shown(d, q, order) \in all
      BY DEF Showing
    <2>2. m = limit /\ \A e \in top : ~Find!Precedes(Shown(d, q, order), e, order)
      BY <1>4, <1>11, <2>1 DEF TopOf
    <2> HIDE DEF matching
    <2> QED
      BY <1>7, <2>2
  <1>12. ASSUME NEW i \in DOMAIN got \ (1..m) PROVE got[i]._key \in absent /\ i \notin found
    <2>1. m = Len(c) /\ q.coll = "accounts" /\ got[i]._key \in ids /\ \A k \in DOMAIN c : got[i]._key # c[k]._key
      BY <1>5
    <2>2. m # limit
      BY <1>1, <1>4, <1>5
    <2>3. ASSUME NEW d \in matching, got[i]._key = d._key PROVE FALSE
      <3>1. Shown(d, q, order) \in top
        BY <1>11, <2>2
      <3>2. PICK k \in 1..m : Shown(d, q, order) = c[k]
        BY <3>1 DEF Beginning
      <3> QED
        BY <1>6, <1>9, <2>1, <2>3, <3>2
    <2>4. got[i]._key \notin Find!Keys(matching)
      BY <2>3 DEF Find!Keys
    <2>5. ASSUME NEW d \in held, got[i]._key = d._key PROVE FALSE
      <3>1. Matches(Types[q.coll], selection, d)
        BY <1>1, <1>2, <2>1, <2>5 DEF IsFilter, Readable
      <3>2. d \in matching
        BY <3>1 DEF Matching
      <3> QED
        BY <2>3, <2>5, <3>2
    <2>6. got[i]._key \notin Find!Keys(held)
      BY <2>5 DEF Find!Keys
    <2> QED
      BY <2>1, <2>4, <2>6
  <1> HIDE DEF absent
  <1>13. found = 1..m
    BY <1>9, <1>10, <1>12
  <1> HIDE DEF found, matching, Source, ids
  <1>14. ASSUME NEW i \in DOMAIN got, NEW j \in DOMAIN got, i # j PROVE got[i]._key # got[j]._key
    <2>1. CASE i \in 1..m /\ j \in 1..m
      <3>1. c[i] # c[j]
        <4>1. i < j \/ j < i
          BY <1>14, <2>1
        <4> QED
          BY <1>4, <1>9, <2>1, <4>1 DEF Ranked
      <3> QED
        BY <1>5, <1>6, <1>8, <1>9, <2>1, <3>1 DEF Find!OneOfEach
    <2>2. CASE i \in 1..m /\ j \notin 1..m
      BY <1>12, <1>13, <2>2 DEF found
    <2>3. CASE i \notin 1..m /\ j \in 1..m
      BY <1>12, <1>13, <2>3 DEF found
    <2>4. CASE i \notin 1..m /\ j \notin 1..m
      BY <1>5, <1>14, <2>4
    <2> QED
      BY <2>1, <2>2, <2>3, <2>4
  <1>15. ASSUME NEW i \in found, NEW j \in found, i < j PROVE ~Find!Precedes(Source(j), Source(i), order)
    <2>1. PICK d \in matching : got[i] = Shown(d, q, order) /\ Source(i) = d
      BY <1>10, <1>13
    <2>2. PICK e \in matching : got[j] = Shown(e, q, order) /\ Source(j) = e
      BY <1>10, <1>13
    <2>3. ~Find!Precedes(c[j], c[i], order)
      BY <1>4, <1>9, <1>13, <1>15 DEF Ranked
    <2> QED
      BY <1>5, <1>7, <1>13, <2>1, <2>2, <2>3
  <1>16. ASSUME NEW d \in left
         PROVE  found = 1..limit /\ \A i \in found : ~Find!Precedes(d, Source(i), order)
    <2>1. d \in matching /\ \A i \in found : got[i]._key # d._key
      OBVIOUS
    <2>2. Shown(d, q, order) \notin top
      <3> SUFFICES ASSUME Shown(d, q, order) \in top PROVE FALSE
        OBVIOUS
      <3>1. PICK k \in 1..m : Shown(d, q, order) = c[k]
        BY DEF Beginning
      <3> QED
        BY <1>5, <1>6, <1>13, <2>1, <3>1
    <2>3. ASSUME NEW i \in found PROVE ~Find!Precedes(d, Source(i), order)
      <3>1. PICK e \in matching : got[i] = Shown(e, q, order) /\ Source(i) = e
        BY <1>10, <1>13
      <3>2. Shown(e, q, order) \in top
        BY <1>5, <1>13, <3>1 DEF Beginning
      <3> QED
        BY <1>11, <2>1, <2>2, <3>1, <3>2
    <2> QED
      BY <1>11, <1>13, <2>1, <2>2, <2>3
  <1>17. ASSUME Len(got) < limit, NEW id \in absent PROVE \E i \in DOMAIN got : got[i]._key = id
    <2>1. q.coll = "accounts" /\ id \in ids /\ id \notin Find!Keys(held)
      BY DEF absent
    <2>2. CASE Len(c) < Cardinality(ids)
      BY <1>5, <1>17, <2>1, <2>2
    <2>3. CASE ~(Len(c) < Cardinality(ids))
      <3> DEFINE keys == [i \in DOMAIN c |-> c[i]._key]
      <3>1. \A i \in DOMAIN c : keys[i] \in ids /\ keys[i] \in Find!Keys(held)
        <4> TAKE i \in DOMAIN c
        <4>1. PICK d \in matching : c[i] = Shown(d, q, order)
          BY <1>8 DEF Showing
        <4>2. d \in held /\ Matches(Types[q.coll], selection, d) /\ keys[i] = d._key
          BY <1>6, <4>1 DEF matching, Matching
        <4>3. d._key \in ids
          BY <1>1, <1>2, <2>1, <4>2 DEF IsFilter, Readable, ids
        <4> QED
          BY <4>2, <4>3 DEF Find!Keys
      <3>2. \A i, j \in DOMAIN c : i < j => keys[i] # keys[j]
        <4> TAKE i, j \in DOMAIN c
        <4>1. i < j => c[i] # c[j]
          BY <1>4 DEF Ranked
        <4> QED
          BY <1>6, <1>8, <4>1 DEF Find!OneOfEach
      <3> DEFINE n == Len(c)
      <3>3. n \in Nat /\ keys \in [1..n -> ids] /\ \A i, j \in 1..n : i < j => keys[i] # keys[j]
        BY <1>8, <3>1, <3>2
      <3> HIDE DEF n, keys
      <3>4. IsFiniteSet(Elements(keys)) /\ Cardinality(Elements(keys)) = n /\ Elements(keys) \subseteq ids
        BY <3>3, ElementsOf
      <3>5. Cardinality(ids) \in Nat /\ ~(n < Cardinality(ids))
        BY <1>1, <2>3, FS_CardinalityType DEF n
      <3>6. Elements(keys) = ids
        BY <1>1, <3>3, <3>4, <3>5, FS_Subset
      <3>7. id \in Find!Keys(held)
        BY <2>1, <3>1, <3>6, <3>3, <1>8 DEF Elements, n
      <3> QED
        BY <2>1, <3>7
    <2> QED
      BY <2>2, <2>3
  <1> HIDE DEF left
  <1>18. /\ \A i, j \in DOMAIN got : i # j => got[i]._key # got[j]._key
         /\ \A i, j \in found : i < j => ~Find!Precedes(Source(j), Source(i), order)
         /\ Len(got) <= limit
         /\ left # {} => found = 1..limit
         /\ \A d \in left : \A i \in found : ~Find!Precedes(d, Source(i), order)
         /\ \A i \in DOMAIN got \ found : got[i]._key \in absent
         /\ Len(got) < limit => \A id \in absent : \E i \in DOMAIN got : got[i]._key = id
    BY <1>5, <1>12, <1>13, <1>14, <1>15, <1>16, <1>17
  <1>19. IsBest(q, selection, order, held, got)
    BY <1>18, Zenon DEF IsBest, matching, found, Source, left, absent, ids
  <1> QED
    BY <1>19 DEF got, c

-----------------------------------------------------------------------------
(* What queries read *)

\* Each database has one version of the documents of a collection.
StoredRight ==
    \A db \in 1..Databases, coll \in DOMAIN Types :
        LET docs == {d \in stored[db] : d.coll = coll}
        IN docs \subseteq AllOf(coll) /\ Find!OneOfEach(docs)

\* The order of a query, or none when it is for its key.
OrdersOf(q) == {q.orderBy, <<>>}

\* A database has answered a query by what it held.
IsAnswer(q, selection, order, docs, result) ==
    /\ Readable(docs, q, order) /\ Find!OneOfEach(docs)
    /\ result \in Find!QueryText(q, selection, order, docs)

ArgumentsRight(r) == phase[r] # "idle" => filter[r] \in FiltersOf(asked[r]) /\ orderBy[r] \in OrdersOf(asked[r])

AnswersRight(r) ==
    \A db \in 1..Databases : reads[r][db] # Null /\ asked[r].fields = <<>> =>
        IsAnswer(asked[r], filter[r], orderBy[r], seen[r][db], reads[r][db])

\* What is fetched is the best, if the databases held the same versions.
FetchRight(r) ==
    /\ phase[r] = "idle" => fetch[r] = Null
    /\ fetch[r] # Null /\ asked[r].fields = <<>> /\ Find!OneOfEach(Held(fetch[r].docs)) =>
           IsBest(asked[r], fetch[r].filter, fetch[r].orderBy, Held(fetch[r].docs), fetch[r].records)

BestDomains ==
    /\ DOMAIN orderBy = Request /\ DOMAIN fetch = Request /\ DOMAIN seen = Request
    /\ \A r \in Request : DOMAIN seen[r] = 1..Databases

BestInv ==
    /\ StoredRight /\ BestDomains
    /\ \A r \in Request : ArgumentsRight(r) /\ AnswersRight(r) /\ FetchRight(r)

\* At first nothing is asked, and databases hold what they may.
LEMMA BestInit == ASSUME Init PROVE BestInv
  <1>1. stored \in Initially /\ BestDomains
        /\ \A r \in Request : phase[r] = "idle" /\ fetch[r] = Null /\ reads[r] = Find!NoReads
    BY DEF Init, Find!Init, BestDomains, Find!Nothing, Find!Database
  <1>2. StoredRight
    <2> SUFFICES ASSUME NEW db \in 1..Databases, NEW coll \in DOMAIN Types,
                        NEW docs, docs = {d \in stored[db] : d.coll = coll}
                 PROVE  docs \subseteq AllOf(coll) /\ Find!OneOfEach(docs)
      BY DEF StoredRight
    <2>1. docs \subseteq AllOf(coll)
      <3> DEFINE of(all) == UNION {all[i] : i \in 1..Databases}
      <3>1. stored[db] \subseteq of(stored)
        OBVIOUS
      <3> HIDE DEF of
      <3>2. stored[db] \subseteq UNION {of(all) : all \in Initially}
        BY <1>1, <3>1
      <3> QED
        BY <3>2, Zenon DEF AllOf, of
    <2>2. Find!OneOfEach(docs)
      BY <1>1, QueriesAssumption
    <2> QED
      BY <2>1, <2>2
  <1>3. \A r \in Request : ArgumentsRight(r) /\ AnswersRight(r) /\ FetchRight(r)
    BY <1>1, NoReadsIs DEF ArgumentsRight, AnswersRight, FetchRight
  <1> QED
    BY <1>1, <1>2, <1>3 DEF BestInv

\* What stays of a request stays right.
LEMMA BestStays ==
    ASSUME NEW r \in Request, ArgumentsRight(r), AnswersRight(r), FetchRight(r),
           asked'[r] = asked[r], filter'[r] = filter[r], orderBy'[r] = orderBy[r], reads'[r] = reads[r],
           seen'[r] = seen[r], fetch'[r] = fetch[r], phase'[r] = "idle" <=> phase[r] = "idle"
    PROVE  ArgumentsRight(r)' /\ AnswersRight(r)' /\ FetchRight(r)'
  BY DEF ArgumentsRight, AnswersRight, FetchRight

\* What is stored stays right when nothing is written.
LEMMA StoredStays ==
    ASSUME StoredRight, UNCHANGED stored
    PROVE  StoredRight'
  BY DEF StoredRight

\* A query is asked: it has its own arguments, and no answers.
LEMMA AskBest ==
    ASSUME FindInv, BestInv, NEW r \in Request, Find!Ask(r)
    PROVE  BestInv'
  <1>1. phase[r] = "idle" /\ UNCHANGED <<stored, reads, seen, fetch>>
    BY DEF Find!Ask, Find!database, Find!results, Find!answers
  <1>2. PICK q \in Asks[r] : /\ asked' = [asked EXCEPT ![r] = q] /\ filter' = [filter EXCEPT ![r] = q.filter]
                             /\ orderBy' = [orderBy EXCEPT ![r] = q.orderBy]
    BY DEF Find!Ask
  <1>3. phase' = [phase EXCEPT ![r] = "classify"]
    BY DEF Find!Ask
  <1>4. BestDomains /\ FindDomains
    BY DEF FindInv, BestInv
  <1>5. StoredRight'
    BY <1>1, StoredStays DEF BestInv
  <1>6. BestDomains'
    BY <1>1, <1>2, <1>4 DEF BestDomains
  <1>7. ASSUME NEW x \in Request PROVE ArgumentsRight(x)' /\ AnswersRight(x)' /\ FetchRight(x)'
    <2>1. ArgumentsRight(x) /\ AnswersRight(x) /\ FetchRight(x) /\ ReadRight(x)
      BY DEF BestInv, FindInv
    <2>2. CASE x = r
      <3>1. asked'[x] = q /\ filter'[x] = q.filter /\ orderBy'[x] = q.orderBy
        BY <1>2, <1>4, <2>2 DEF FindDomains, BestDomains
      <3>2. reads'[x] = Find!NoReads /\ fetch'[x] = Null
        BY <1>1, <2>1, <2>2 DEF ReadRight, FetchRight
      <3> QED
        BY <3>1, <3>2, NoReadsIs DEF ArgumentsRight, AnswersRight, FetchRight, FiltersOf, OrdersOf
    <2>3. CASE x # r
      <3>1. asked'[x] = asked[x] /\ filter'[x] = filter[x] /\ orderBy'[x] = orderBy[x] /\ phase'[x] = phase[x]
            /\ reads'[x] = reads[x] /\ seen'[x] = seen[x] /\ fetch'[x] = fetch[x]
        BY <1>1, <1>2, <1>3, <1>4, <2>3 DEF FindDomains, BestDomains
      <3> QED
        BY <2>1, <3>1, BestStays
    <2> QED
      BY <2>2, <2>3
  <1> QED
    BY <1>5, <1>6, <1>7 DEF BestInv

\* A step to another phase.
LEMMA PhaseBest ==
    ASSUME FindInv, BestInv, NEW r \in Request, phase[r] # "idle", NEW to, to # "idle",
           phase' = [phase EXCEPT ![r] = to], UNCHANGED <<stored, asked, filter, orderBy, reads, seen, fetch>>
    PROVE  BestInv'
  <1>1. FindDomains /\ BestDomains'
    BY DEF FindInv, BestInv, BestDomains
  <1>2. StoredRight'
    BY StoredStays DEF BestInv
  <1>3. ASSUME NEW x \in Request PROVE ArgumentsRight(x)' /\ AnswersRight(x)' /\ FetchRight(x)'
    <2>1. phase'[x] = "idle" <=> phase[x] = "idle"
      BY <1>1 DEF FindDomains
    <2> QED
      BY <2>1, BestStays DEF BestInv
  <1> QED
    BY <1>1, <1>2, <1>3 DEF BestInv

\* Classification and the end of a request leave what is read and fetched.
LEMMA PhasesBest ==
    ASSUME FindInv, BestInv, NEW r \in Request, Find!Classify(r) \/ Find!Refreshed(r) \/ Find!Answer(r)
    PROVE  BestInv'
  <1>1. phase[r] # "idle" /\ UNCHANGED <<stored, asked, filter, orderBy, reads, seen, fetch>>
    BY DEF Find!Classify, Find!Refreshed, Find!Answer, Find!database, Find!arguments, Find!results, Find!answers
  <1>2. \E to : to # "idle" /\ phase' = [phase EXCEPT ![r] = to]
    BY Zenon DEF Find!Classify, Find!Refreshed, Find!Classified, Find!Answer
  <1> QED
    BY <1>1, <1>2, PhaseBest

\* What is fetched for an aggregation is no answer to a query.
LEMMA ReduceBest ==
    ASSUME FindInv, BestInv, NEW r \in Request, Find!Reduce(r)
    PROVE  BestInv'
  <1>1. /\ phase[r] = "read" /\ asked[r].fields # <<>> /\ UNCHANGED <<stored, asked, filter, orderBy, reads, seen>>
        /\ phase' = [phase EXCEPT ![r] = "answered"]
    BY DEF Find!Reduce, Find!database, Find!arguments, Find!results
  <1>2. fetch' = [fetch EXCEPT ![r] = [docs |-> seen[r]]]
    BY DEF Find!Reduce
  <1>3. FindDomains /\ BestDomains
    BY DEF FindInv, BestInv
  <1>4. BestDomains'
    BY <1>1, <1>2, <1>3 DEF BestDomains
  <1>5. StoredRight'
    BY <1>1, StoredStays DEF BestInv
  <1>6. ASSUME NEW x \in Request PROVE ArgumentsRight(x)' /\ AnswersRight(x)' /\ FetchRight(x)'
    <2>1. ArgumentsRight(x) /\ AnswersRight(x) /\ FetchRight(x)
      BY DEF BestInv
    <2>2. phase'[x] = "idle" <=> phase[x] = "idle"
      BY <1>1, <1>3 DEF FindDomains
    <2>3. CASE x = r
      <3>1. FetchRight(x)'
        BY <1>1, <2>2, <2>3 DEF FetchRight
      <3> QED
        BY <1>1, <2>1, <2>2, <3>1 DEF ArgumentsRight, AnswersRight
    <2>4. CASE x # r
      <3>1. fetch'[x] = fetch[x]
        BY <1>2, <1>3, <2>4 DEF BestDomains
      <3> QED
        BY <1>1, <2>1, <2>2, <3>1, BestStays
    <2> QED
      BY <2>3, <2>4
  <1> QED
    BY <1>4, <1>5, <1>6 DEF BestInv

\* Answers of a request are changed.
LEMMA AnswersBest ==
    ASSUME FindInv, BestInv, NEW r \in Request, phase[r] # "idle", NEW new, NEW docs, DOMAIN docs = 1..Databases,
           asked[r].fields = <<>> => \A db \in 1..Databases :
               new[db] # Null => IsAnswer(asked[r], filter[r], orderBy[r], docs[db], new[db]),
           reads' = [reads EXCEPT ![r] = new],
           DOMAIN seen' = Request, seen'[r] = docs, \A x \in Request \ {r} : seen'[x] = seen[x],
           DOMAIN phase' = Request, phase'[r] # "idle", \A x \in Request \ {r} : phase'[x] = phase[x],
           UNCHANGED <<stored, asked, filter, orderBy, fetch>>
    PROVE  BestInv'
  <1>1. FindDomains /\ BestDomains
    BY DEF FindInv, BestInv
  <1>2. BestDomains'
    BY <1>1 DEF BestDomains
  <1>3. StoredRight'
    BY StoredStays DEF BestInv
  <1>4. ASSUME NEW x \in Request PROVE ArgumentsRight(x)' /\ AnswersRight(x)' /\ FetchRight(x)'
    <2>1. ArgumentsRight(x) /\ AnswersRight(x) /\ FetchRight(x)
      BY DEF BestInv
    <2>2. CASE x = r
      <3>1. reads'[x] = new /\ seen'[x] = docs
        BY <1>1, <2>2 DEF FindDomains
      <3> QED
        BY <2>1, <2>2, <3>1 DEF ArgumentsRight, AnswersRight, FetchRight
    <2>3. CASE x # r
      <3>1. reads'[x] = reads[x] /\ seen'[x] = seen[x] /\ phase'[x] = phase[x]
        BY <1>1, <2>3 DEF FindDomains, BestDomains
      <3> QED
        BY <2>1, <3>1, BestStays
    <2> QED
      BY <2>2, <2>3
  <1> QED
    BY <1>2, <1>3, <1>4 DEF BestInv

\* After a failure of a database there are no answers.
LEMMA DatabaseFailureBest ==
    ASSUME FindInv, BestInv, NEW r \in Request, Find!DatabaseFails(r)
    PROVE  BestInv'
  <1>1. phase[r] # "idle" /\ UNCHANGED <<stored, asked, filter, orderBy, fetch>>
    BY DEF Find!DatabaseFails, Find!database, Find!arguments, Find!answers
  <1>2. phase' = [phase EXCEPT ![r] = "failed"] /\ reads' = [reads EXCEPT ![r] = Find!NoReads]
        /\ seen' = [seen EXCEPT ![r] = Find!Nothing]
    BY DEF Find!DatabaseFails
  <1>3. /\ DOMAIN phase' = Request /\ phase'[r] # "idle" /\ \A x \in Request \ {r} : phase'[x] = phase[x]
        /\ DOMAIN seen' = Request /\ seen'[r] = Find!Nothing /\ \A x \in Request \ {r} : seen'[x] = seen[x]
    BY <1>2 DEF FindInv, FindDomains, BestInv, BestDomains
  <1>4. DOMAIN Find!Nothing = 1..Databases
    BY DEF Find!Nothing, Find!Database
  <1> QED
    BY <1>1, <1>2, <1>3, <1>4, NoReadsIs, AnswersBest

\* A query that is under way is one that may be asked, by its filter or for a key.
LEMMA UnderWay ==
    ASSUME FindInv, BestInv, NEW r \in Request, phase[r] # "idle", NEW q, q = asked[r]
    PROVE  /\ q \in Asks[r] /\ q.limit \in Nat /\ q.coll \in DOMAIN Types /\ IsNothing(AllOf(q.coll))
           /\ filter[r] \in FiltersOf(q) /\ IsFilter(filter[r], q.coll) /\ IsOrder(orderBy[r], q.coll)
           /\ IsFiniteSet(Find!ExtractIdFilter(filter[r]))
  <1>1. ReadRight(r) /\ ArgumentsRight(r)
    BY DEF FindInv, BestInv
  <1>2. q \in Asks[r] /\ IsFiniteSet(Find!ExtractIdFilter(filter[r])) /\ filter[r] \in FiltersOf(q)
        /\ orderBy[r] \in OrdersOf(q)
    BY <1>1 DEF ReadRight, ArgumentsRight
  <1>3. /\ q.limit \in Nat /\ q.coll \in DOMAIN Types /\ IsNothing(AllOf(q.coll)) /\ IsOrder(q.orderBy, q.coll)
        /\ \A selection \in FiltersOf(q) : IsFilter(selection, q.coll)
    BY <1>2, QueriesAssumption
  <1>4. IsOrder(<<>>, q.coll)
    <2>1. <<>> \in Seq({}) /\ DOMAIN <<>> = {}
      OBVIOUS
    <2> QED
      BY <2>1, Sequence DEF IsOrder
  <1> QED
    BY <1>2, <1>3, <1>4 DEF OrdersOf

\* A database answers by what it holds.
LEMMA ReadBest ==
    ASSUME FindInv, BestInv, NEW r \in Request, NEW db \in 1..Databases, Find!Read(r, db)
    PROVE  BestInv'
  <1> DEFINE q == asked[r]
             docs == {d \in stored[db] : d.coll = q.coll}
             new(result) == [reads[r] EXCEPT ![db] = result]
             now == [seen[r] EXCEPT ![db] = docs]
  <1>1. phase[r] = "read" /\ UNCHANGED <<stored, asked, filter, orderBy, fetch, phase>>
    BY DEF Find!Read, Find!database, Find!arguments, Find!answers
  <1>2. PICK result : /\ reads' = [reads EXCEPT ![r][db] = result]
                      /\ q.fields = <<>> => result \in Find!QueryText(q, filter[r], orderBy[r], docs)
    BY DEF Find!Read
  <1>3. seen' = [seen EXCEPT ![r][db] = docs]
    BY DEF Find!Read
  <1>4. ReadRight(r) /\ FindDomains /\ BestDomains /\ AnswersRight(r)
    BY DEF FindInv, BestInv
  <1>5. q.coll \in DOMAIN Types /\ IsNothing(AllOf(q.coll)) /\ IsOrder(orderBy[r], q.coll)
    BY <1>1, UnderWay
  <1>6. docs \subseteq AllOf(q.coll) /\ Find!OneOfEach(docs)
    BY <1>5 DEF BestInv, StoredRight
  <1>7. IsFiniteSet(docs) /\ \A d \in docs : IsDocument(d)
    <2>1. IsFiniteSet(stored[db]) /\ \A d \in stored[db] : IsDocument(d)
      BY DEF FindInv, AreDocuments
    <2> QED
      BY <2>1, FS_Subset
  <1> HIDE DEF docs
  <1>8. q.fields = <<>> => IsAnswer(q, filter[r], orderBy[r], docs, result)
    BY <1>2, <1>5, <1>6, <1>7 DEF IsAnswer, Readable
  <1>9. \A i \in 1..Databases : /\ new(result)[i] = IF i = db THEN result ELSE reads[r][i]
                                /\ now[i] = IF i = db THEN docs ELSE seen[r][i]
    BY <1>4 DEF ReadRight, BestDomains
  <1>10. q.fields = <<>> => \A i \in 1..Databases :
             new(result)[i] # Null => IsAnswer(q, filter[r], orderBy[r], now[i], new(result)[i])
    <2> HIDE DEF new, now
    <2> QED
      BY <1>4, <1>8, <1>9 DEF AnswersRight
  <1>11. DOMAIN now = 1..Databases
    BY <1>4 DEF BestDomains
  <1>12. /\ reads' = [reads EXCEPT ![r] = new(result)]
         /\ DOMAIN seen' = Request /\ seen'[r] = now /\ \A x \in Request \ {r} : seen'[x] = seen[x]
    BY <1>2, <1>3, <1>4 DEF BestDomains
  <1>13. DOMAIN phase' = Request /\ phase'[r] # "idle" /\ \A x \in Request \ {r} : phase'[x] = phase[x]
    BY <1>1, <1>4 DEF FindDomains
  <1> HIDE DEF new, now
  <1> QED
    BY <1>1, <1>10, <1>11, <1>12, <1>13, AnswersBest

\* The key of what a query finds is one that it may be asked for.
LEMMA KeyFound ==
    ASSUME NEW q, q.limit \in Nat, NEW selection \in FiltersOf(q), IsFiniteSet(Find!ExtractIdFilter(selection)),
           NEW S, \A d \in S : d._key \in Find!Keys(AllOf(q.coll)), NEW docs \in Seq(S),
           Find!Finished(q, selection, docs) # <<>>
    PROVE  [id |-> [eq |-> Find!Finished(q, selection, docs)[1]._key]] \in FiltersOf(q)
  <1> DEFINE got == Find!Finished(q, selection, docs)
             ids == Find!ExtractIdFilter(selection)
             limit == q.limit
             m == IF Len(docs) > limit THEN limit ELSE Len(docs)
             keys == Find!Keys(AllOf(q.coll)) \cup Find!ExtractIdFilter(q.filter)
  <1>1. ids \subseteq keys
    <2>1. CASE selection = q.filter
      BY <2>1
    <2>2. CASE selection # q.filter
      <3>1. PICK key \in keys : selection = [id |-> [eq |-> key]]
        BY <2>2 DEF FiltersOf
      <3>2. ids = {key}
        BY <3>1 DEF Find!ExtractIdFilter
      <3> QED
        BY <3>1, <3>2
    <2> QED
      BY <2>1, <2>2
  <1>2. /\ DOMAIN got = 1..Len(got) /\ Len(got) \in Nat
        /\ \A i \in 1..m : got[i] = docs[i]
        /\ \A i \in DOMAIN got \ (1..m) : got[i]._key \in ids
    BY FinishedHas
  <1>3. DOMAIN docs = 1..Len(docs) /\ Len(docs) \in Nat /\ \A i \in DOMAIN docs : docs[i] \in S
    OBVIOUS
  <1>4. m <= Len(docs) /\ m \in Nat
    BY <1>3
  <1>5. got \in Seq({got[i] : i \in DOMAIN got}) /\ Len(got) # 0
    <2> USE DEF Find!Finished
    <2>1. IsSeq(got)
      <3> DEFINE all == IF q.coll = "accounts" /\ Len(docs) < Find!Cardinality(ids)
                        THEN Find!AddMissingAccountRecords(docs, ids) ELSE docs
                 n == IF Len(all) > limit THEN limit ELSE Len(all)
      <3>1. got = SubSeq(all, 1, n)
        OBVIOUS
      <3>2. got = [i \in 1..Len(got) |-> got[i]]
        <4>1. got = [i \in 1..((n - 1) + 1) |-> all[(i + 1) - 1]]
          BY <3>1
        <4> QED
          BY <1>2, <4>1
      <3> HIDE DEF got
      <3> QED
        BY <1>2, <3>2, FunctionSequence
    <2> HIDE DEF got
    <2> QED
      BY <2>1 DEF IsSeq, got
  <1>6. 1 \in DOMAIN got
    BY <1>2, <1>5
  <1> HIDE DEF got, ids, keys, m, limit
  <1>7. got[1]._key \in keys
    <2>1. CASE 1 \in 1..m
      <3>1. 1 \in DOMAIN docs
        BY <1>3, <1>4, <2>1
      <3> QED
        BY <1>2, <1>3, <2>1, <3>1 DEF keys
    <2>2. CASE 1 \notin 1..m
      BY <1>1, <1>2, <1>6, <2>2
    <2> QED
      BY <2>1, <2>2
  <1> QED
    BY <1>7 DEF keys, FiltersOf, got

\* Documents of a collection by their keys.
OfKeys(docs, coll) == \E S : docs \in Seq(S) /\ \A d \in S : d._key \in Find!Keys(AllOf(coll))

\* What requests fetch leaves their arguments and answers right.
LEMMA FetchedBest ==
    ASSUME FindInv, BestInv, NEW rs \in SUBSET Request, NEW docs,
           \A r \in rs : phase[r] # "idle" /\ OfKeys(docs[r], asked[r].coll),
           Find!Fetched(rs, docs), asked' = asked, seen' = seen
    PROVE  /\ DOMAIN orderBy' = Request
           /\ \A r \in Request : /\ ArgumentsRight(r)' /\ AnswersRight(r)'
                                 /\ r \notin rs => phase'[r] = phase[r]
                                 /\ phase'[r] = "idle" => phase[r] = "idle" /\ r \notin rs
  <1> DEFINE found == [r \in rs |-> Find!Finished(asked[r], filter[r], docs[r])]
             keyed == {r \in rs : single[r] /\ found[r] # <<>>}
             empty == {r \in rs : single[r] /\ found[r] = <<>>}
  <1>1. /\ phase' = [r \in Request |-> IF r \in keyed THEN "classify" ELSE IF r \in empty THEN "answered"
                                       ELSE IF r \in rs THEN "joins" ELSE phase[r]]
        /\ filter' = [r \in Request |-> IF r \in keyed THEN [id |-> [eq |-> found[r][1]._key]] ELSE filter[r]]
        /\ orderBy' = [r \in Request |-> IF r \in keyed THEN <<>> ELSE orderBy[r]]
        /\ reads' = [r \in Request |-> IF r \in keyed THEN Find!NoReads ELSE reads[r]]
    BY Zenon DEF Find!Fetched
  <1>2. ASSUME NEW r \in keyed PROVE [id |-> [eq |-> found[r][1]._key]] \in FiltersOf(asked[r])
    <2>1. r \in Request /\ phase[r] # "idle" /\ OfKeys(docs[r], asked[r].coll)
          /\ found[r] # <<>> /\ found[r] = Find!Finished(asked[r], filter[r], docs[r])
      OBVIOUS
    <2>2. asked[r].limit \in Nat /\ filter[r] \in FiltersOf(asked[r]) /\ IsFiniteSet(Find!ExtractIdFilter(filter[r]))
      BY <2>1, UnderWay
    <2> HIDE DEF found, keyed
    <2>3. PICK S : docs[r] \in Seq(S) /\ \A d \in S : d._key \in Find!Keys(AllOf(asked[r].coll))
      BY <2>1 DEF OfKeys
    <2> QED
      BY <2>1, <2>2, <2>3, KeyFound
  <1>3. keyed \subseteq rs
    OBVIOUS
  <1> HIDE DEF found, keyed, empty
  <1>4. ASSUME NEW r \in Request
        PROVE  /\ ArgumentsRight(r)' /\ AnswersRight(r)'
               /\ r \notin rs => phase'[r] = phase[r]
               /\ phase'[r] = "idle" => phase[r] = "idle" /\ r \notin rs
    <2>1. ArgumentsRight(r) /\ AnswersRight(r)
      BY DEF BestInv
    <2>2. CASE r \in keyed
      <3>1. phase'[r] = "classify" /\ filter'[r] = [id |-> [eq |-> found[r][1]._key]] /\ orderBy'[r] = <<>>
            /\ reads'[r] = Find!NoReads
        BY <1>1, <2>2
      <3> QED
        BY <1>2, <1>3, <2>2, <3>1, NoReadsIs DEF ArgumentsRight, AnswersRight, OrdersOf
    <2>3. CASE r \notin keyed
      <3>1. filter'[r] = filter[r] /\ orderBy'[r] = orderBy[r] /\ reads'[r] = reads[r]
            /\ (r \notin rs => r \notin empty)
        BY <1>1, <2>3 DEF empty
      <3>2. r \notin rs => phase'[r] = phase[r]
        BY <1>1, <2>3, <3>1
      <3>3. r \in rs => phase[r] # "idle" /\ phase'[r] # "idle"
        BY <1>1, <2>3
      <3> QED
        BY <2>1, <3>1, <3>2, <3>3 DEF ArgumentsRight, AnswersRight
    <2> QED
      BY <2>2, <2>3
  <1> QED
    BY <1>1, <1>4

\* What databases have answered together is what a query is read from.
LEMMA AllRead ==
    ASSUME FindInv, BestInv, NEW r \in Request, phase[r] = "read", asked[r].fields = <<>>,
           \A db \in 1..Databases : reads[r][db] # Null
    PROVE  /\ Reading(asked[r], filter[r], orderBy[r], seen[r], reads[r])
           /\ OfKeys(Find!CombineResults(reads[r], orderBy[r]), asked[r].coll)
  <1> DEFINE q == asked[r]
             selection == filter[r]
             order == orderBy[r]
             docs == seen[r]
             answered == reads[r]
  <1>1. ReadRight(r) /\ AnswersRight(r)
    BY DEF FindInv, BestInv
  <1>2. q.limit \in Nat /\ IsFilter(selection, q.coll) /\ IsFiniteSet(Find!ExtractIdFilter(selection))
    BY UnderWay
  <1>3. \A db \in 1..Databases : IsAnswer(q, selection, order, docs[db], answered[db])
    BY <1>1 DEF AnswersRight
  <1>4. Reading(q, selection, order, docs, answered)
    BY <1>1, <1>2, <1>3 DEF Reading, IsAnswer, ReadRight
  <1> HIDE DEF q, selection, order, docs, answered
  <1> DEFINE S == {Shown(d, q, order) : d \in Held(docs)}
  <1>5. \A d \in S : d._key \in Find!Keys(AllOf(q.coll))
    <2> SUFFICES ASSUME NEW d \in Held(docs) PROVE Shown(d, q, order)._key \in Find!Keys(AllOf(q.coll))
      OBVIOUS
    <2>1. Readable(Held(docs), q, order)
      BY <1>4, AllReadable DEF Reading
    <2>2. Shown(d, q, order)._key = d._key
      BY <2>1, ShownIs
    <2>3. d \in AllOf(q.coll)
      BY <2>1 DEF Readable
    <2> QED
      BY <2>2, <2>3 DEF Find!Keys
  <1>6. answered \in [1..Databases -> Seq(S)]
    <2>1. ASSUME NEW db \in 1..Databases PROVE answered[db] \in Seq(S)
      <3> DEFINE parts == Showing(Matching(q, selection, docs[db]), q, order)
      <3>1. answered[db] \in Seq(parts)
        BY <1>4, TextIsBest DEF Reading
      <3>2. parts \subseteq S
        BY DEF Showing, Matching, Held
      <3> HIDE DEF parts, S
      <3> QED
        BY <3>1, <3>2
    <2>2. answered = [db \in 1..Databases |-> answered[db]]
      BY <1>4 DEF Reading, IsSeq
    <2> HIDE DEF S
    <2> QED
      BY <2>1, <2>2
  <1> HIDE DEF S
  <1>7. OfKeys(Find!CombineResults(answered, order), q.coll)
    BY <1>5, <1>6, CombinedOf DEF OfKeys
  <1> QED
    BY <1>4, <1>7 DEF q, selection, order, docs, answered

\* What is combined is fetched, and is the best.
LEMMA CombineBest ==
    ASSUME FindInv, BestInv, NEW r \in Request, Find!Combine(r)
    PROVE  BestInv'
  <1> DEFINE combined == Find!CombineResults(reads[r], orderBy[r])
             got == Find!Finished(asked[r], filter[r], combined)
             new == [docs |-> seen[r], filter |-> filter[r], orderBy |-> orderBy[r], records |-> got]
  <1>1. /\ phase[r] = "read" /\ asked[r].fields = <<>> /\ \A db \in 1..Databases : reads[r][db] # Null
        /\ UNCHANGED <<stored, asked, seen>>
    BY DEF Find!Combine, Find!database, Find!Database
  <1>2. FindDomains /\ BestDomains /\ ReadRight(r)
    BY DEF FindInv, BestInv
  <1>3. Reading(asked[r], filter[r], orderBy[r], seen[r], reads[r]) /\ OfKeys(combined, asked[r].coll)
    BY <1>1, AllRead
  <1>4. CASE reads' = [reads EXCEPT ![r] = Find!NoReads] /\ UNCHANGED <<phase, filter, orderBy, records, fetch>>
    <2>1. DOMAIN seen[r] = 1..Databases /\ DOMAIN seen' = Request /\ seen' = seen
      BY <1>1, <1>2 DEF BestDomains
    <2>2. DOMAIN phase' = Request /\ phase'[r] # "idle" /\ \A x \in Request \ {r} : phase'[x] = phase[x]
      BY <1>1, <1>2, <1>4 DEF FindDomains
    <2> QED
      BY <1>1, <1>4, <2>1, <2>2, NoReadsIs, AnswersBest
  <1>5. CASE Find!Fetched({r}, [x \in {r} |-> combined]) /\ fetch' = [fetch EXCEPT ![r] = new]
    <2> DEFINE docs == [x \in {r} |-> combined]
    <2>1. \A x \in {r} : phase[x] # "idle" /\ OfKeys(docs[x], asked[x].coll)
      BY <1>1, <1>3
    <2> HIDE DEF combined
    <2>2. Find!Fetched({r}, docs) /\ {r} \in SUBSET Request
      BY <1>5
    <2> HIDE DEF docs
    <2>3. /\ DOMAIN orderBy' = Request
          /\ \A x \in Request : /\ ArgumentsRight(x)' /\ AnswersRight(x)'
                                /\ x \notin {r} => phase'[x] = phase[x]
                                /\ phase'[x] = "idle" => phase[x] = "idle" /\ x \notin {r}
      BY <1>1, <2>1, <2>2, FetchedBest
    <2>4. BestDomains'
      BY <1>1, <1>2, <1>5, <2>3 DEF BestDomains
    <2>5. StoredRight'
      BY <1>1, StoredStays DEF BestInv
    <2>6. Find!OneOfEach(Held(seen[r])) => IsBest(asked[r], filter[r], orderBy[r], Held(seen[r]), got)
      BY <1>3, FinishedIsBest DEF combined
    <2>7. ASSUME NEW x \in Request PROVE FetchRight(x)'
      <3>1. CASE x = r
        <4>1. fetch'[x] = new /\ phase'[x] # "idle"
          BY <1>2, <1>5, <2>3, <3>1 DEF BestDomains
        <4>2. new.docs = seen[r] /\ new.filter = filter[r] /\ new.orderBy = orderBy[r] /\ new.records = got
          OBVIOUS
        <4> HIDE DEF new, got
        <4>3. Find!OneOfEach(Held(fetch[x].docs))' <=> Find!OneOfEach(Held(seen[r]))
          BY <4>1, <4>2 DEF Held, Find!OneOfEach
        <4>4. IsBest(asked[x], fetch[x].filter, fetch[x].orderBy, Held(fetch[x].docs), fetch[x].records)'
              <=> IsBest(asked[r], filter[r], orderBy[r], Held(seen[r]), got)
          BY <1>1, <3>1, <4>1, <4>2 DEF Held
        <4> QED
          BY <2>6, <4>1, <4>3, <4>4 DEF FetchRight
      <3>2. CASE x # r
        <4>1. fetch'[x] = fetch[x] /\ phase'[x] = phase[x] /\ FetchRight(x)
          BY <1>2, <1>5, <2>3, <3>2 DEF BestDomains, BestInv
        <4> QED
          BY <1>1, <4>1 DEF FetchRight
      <3> QED
        BY <3>1, <3>2
    <2> QED
      BY <2>3, <2>4, <2>5, <2>7 DEF BestInv
  <1> QED
    BY <1>4, <1>5, Zenon DEF Find!Combine

\* Nothing is documents of any keys.
LEMMA EmptyOfKeys == \A coll : OfKeys(<<>>, coll)
  <1> DEFINE S == {}
  <1>1. <<>> \in Seq(S) /\ \A d \in S : FALSE
    OBVIOUS
  <1> HIDE DEF S
  <1> QED
    BY <1>1 DEF OfKeys

\* The timeout of a query fetches nothing from databases.
LEMMA TimeoutBest ==
    ASSUME FindInv, BestInv, NEW r \in Request, Find!TimesOut(r)
    PROVE  BestInv'
  <1>1. phase[r] = "read" /\ UNCHANGED <<stored, asked, seen, fetch>>
    BY DEF Find!TimesOut, Find!database
  <1>2. CASE Find!Fetched({r}, [x \in {r} |-> <<>>])
    <2> DEFINE docs == [x \in {r} |-> <<>>]
    <2>1. \A x \in {r} : phase[x] # "idle" /\ OfKeys(docs[x], asked[x].coll)
      BY <1>1, EmptyOfKeys
    <2>2. Find!Fetched({r}, docs) /\ {r} \in SUBSET Request
      BY <1>2
    <2> HIDE DEF docs
    <2>3. /\ DOMAIN orderBy' = Request
          /\ \A x \in Request : /\ ArgumentsRight(x)' /\ AnswersRight(x)'
                                /\ x \notin {r} => phase'[x] = phase[x]
                                /\ phase'[x] = "idle" => phase[x] = "idle" /\ x \notin {r}
      BY <1>1, <2>1, <2>2, FetchedBest
    <2>4. BestDomains' /\ StoredRight'
      BY <1>1, <2>3, StoredStays DEF BestInv, BestDomains
    <2>5. \A x \in Request : FetchRight(x)'
      BY <1>1, <2>3 DEF BestInv, FetchRight
    <2> QED
      BY <2>3, <2>4, <2>5 DEF BestInv
  <1>3. CASE phase' = [phase EXCEPT ![r] = "failed"] /\ UNCHANGED <<filter, orderBy, reads>>
    BY <1>1, <1>3, PhaseBest
  <1> QED
    BY <1>2, <1>3, Zenon DEF Find!TimesOut

\* A document is written in place of its older version.
LEMMA WriteBest ==
    ASSUME FindInv, BestInv, NEW db \in 1..Databases, NEW d \in Arrivals[db], Find!Write(d, db)
    PROVE  BestInv'
  <1> DEFINE fed == {r \in Request : /\ db = 1 /\ phase[r] = "read" /\ asked[r].waits
                                     /\ asked[r].coll = d.coll
                                     /\ Accepts(Types[d.coll], Null, d, filter[r])}
             docs == [r \in fed |-> <<d>>]
  <1>1. /\ stored' = [stored EXCEPT ![db] = {x \in @ : x.coll # d.coll \/ x._key # d._key} \cup {d}]
        /\ UNCHANGED <<asked, seen>>
    BY DEF Find!Write
  <1>2. Find!Fetched(fed, docs) /\ fetch' = [r \in Request |-> IF r \in fed THEN Null ELSE fetch[r]]
    BY Zenon DEF Find!Write
  <1>3. \A coll : d.coll = coll => d \in AllOf(coll)
    <2> DEFINE later == UNION {Arrivals[i] : i \in 1..Databases}
               first == UNION {UNION {all[i] : i \in 1..Databases} : all \in Initially}
    <2>1. d \in later
      OBVIOUS
    <2>2. \A coll : AllOf(coll) = {x \in first \cup later : x.coll = coll}
      BY DEF AllOf
    <2> HIDE DEF later, first
    <2> QED
      BY <2>1, <2>2
  <1>4. ASSUME NEW r \in fed PROVE phase[r] # "idle" /\ OfKeys(docs[r], asked[r].coll)
    <2> DEFINE S == {d}
    <2>1. docs[r] = <<d>> /\ <<d>> \in Seq(S) /\ (\A x \in S : x = d) /\ asked[r].coll = d.coll /\ phase[r] = "read"
      OBVIOUS
    <2>2. d._key \in Find!Keys(AllOf(d.coll))
      BY <1>3 DEF Find!Keys
    <2> HIDE DEF docs, fed, S
    <2> QED
      BY <2>1, <2>2 DEF OfKeys
  <1>5. fed \in SUBSET Request
    OBVIOUS
  <1> HIDE DEF fed, docs
  <1>6. /\ DOMAIN orderBy' = Request
        /\ \A x \in Request : /\ ArgumentsRight(x)' /\ AnswersRight(x)'
                              /\ x \notin fed => phase'[x] = phase[x]
                              /\ phase'[x] = "idle" => phase[x] = "idle" /\ x \notin fed
    BY <1>1, <1>2, <1>4, <1>5, FetchedBest
  <1>7. BestDomains'
    BY <1>1, <1>2, <1>6 DEF BestInv, BestDomains
  <1>8. \A x \in Request : FetchRight(x)'
    <2> TAKE x \in Request
    <2>1. FetchRight(x) /\ fetch'[x] = IF x \in fed THEN Null ELSE fetch[x]
      BY <1>2 DEF BestInv
    <2> QED
      BY <1>1, <1>6, <2>1 DEF FetchRight
  <1>9. StoredRight'
    <2> SUFFICES ASSUME NEW i \in 1..Databases, NEW coll \in DOMAIN Types,
                        NEW now, now = {x \in stored'[i] : x.coll = coll}
                 PROVE  now \subseteq AllOf(coll) /\ Find!OneOfEach(now)
      BY DEF StoredRight
    <2> DEFINE before == {x \in stored[i] : x.coll = coll}
    <2>1. before \subseteq AllOf(coll) /\ Find!OneOfEach(before)
      BY DEF BestInv, StoredRight
    <2>2. i \in DOMAIN stored
      BY DEF FindInv
    <2>3. CASE i # db
      <3>1. stored'[i] = stored[i]
        BY <1>1, <2>2, <2>3
      <3> QED
        BY <2>1, <3>1
    <2>4. CASE i = db
      <3>1. stored'[i] = {x \in stored[i] : x.coll # d.coll \/ x._key # d._key} \cup {d}
        BY <1>1, <2>2, <2>4
      <3>2. \A x \in now : \/ x = d /\ d.coll = coll
                           \/ x \in before /\ (d.coll = coll => x._key # d._key)
        BY <3>1
      <3> HIDE DEF before
      <3>3. now \subseteq AllOf(coll)
        BY <1>3, <2>1, <3>2
      <3>4. Find!OneOfEach(now)
        BY <2>1, <3>2 DEF Find!OneOfEach
      <3> QED
        BY <3>3, <3>4
    <2> QED
      BY <2>3, <2>4
  <1> QED
    BY <1>6, <1>7, <1>8, <1>9 DEF BestInv

\* The invariant is about what queries read and fetch only.
LEMMA BestUnchanged ==
    ASSUME BestInv, UNCHANGED <<stored, phase, asked, filter, orderBy, reads, seen, fetch>>
    PROVE  BestInv'
  <1>1. StoredRight' /\ BestDomains'
    BY StoredStays DEF BestInv, BestDomains
  <1>2. ASSUME NEW r \in Request PROVE ArgumentsRight(r)' /\ AnswersRight(r)' /\ FetchRight(r)'
    BY BestStays DEF BestInv
  <1> QED
    BY <1>1, <1>2 DEF BestInv

\* Every step keeps it.
LEMMA BestStep ==
    ASSUME Inv, BestInv, [Next]_vars
    PROVE  BestInv'
  <1>0. FindInv
    BY DEF Inv
  <1>1. CASE Find!Next
    <2>1. ASSUME NEW r \in Request, Find!Ask(r) PROVE BestInv'
      BY <1>0, <2>1, AskBest
    <2>2. ASSUME NEW r \in Request, Find!Step(r) PROVE BestInv'
      <3>1. ASSUME NEW db \in 1..Databases, Find!Read(r, db) PROVE BestInv'
        BY <1>0, <3>1, ReadBest
      <3> QED
        BY <1>0, <2>2, <3>1, DatabaseFailureBest, PhasesBest, ReduceBest, CombineBest, TimeoutBest
        DEF Find!Step, Find!Database
    <2>3. ASSUME NEW db \in 1..Databases, NEW d \in Arrivals[db], Find!Write(d, db) PROVE BestInv'
      BY <1>0, <2>3, WriteBest
    <2>4. CASE Find!Reindex \/ Find!RefreshIsDue
      BY <2>4, BestUnchanged
      DEF Find!Reindex, Find!RefreshIsDue, Find!database, Find!arguments, Find!results, Find!answers
    <2> QED
      BY <1>1, <2>1, <2>2, <2>3, <2>4 DEF Find!Next, Find!Database
  <1>2. CASE JoinRecords
    <2>1. PICK r \in Request : Join!Step(r)
      BY <1>2 DEF JoinRecords, Join!Next
    <2>2. UNCHANGED <<stored, asked>>
      BY <2>1 DEF Join!Step, Join!Begin, Join!LeaveSelection, Join!StartJoin, Join!TimePasses, Join!JoinFails,
                  Join!QueryPortion
    <2> QED
      BY <1>2, <2>2, BestUnchanged DEF JoinRecords, findVars
  <1>3. CASE UNCHANGED vars
    BY <1>3, BestUnchanged DEF vars, findVars
  <1> QED
    BY <1>1, <1>2, <1>3 DEF Next, FindRecords

\* With the invariant, what is fetched is the best.
LEMMA InvBest == ASSUME BestInv PROVE FoundIsBest
  <1> SUFFICES ASSUME NEW r \in Request, fetch[r] # Null, asked[r].fields = <<>>,
                      Find!OneOfEach(UNION {fetch[r].docs[db] : db \in Find!Database})
               PROVE  IsBest(asked[r], fetch[r].filter, fetch[r].orderBy,
                             UNION {fetch[r].docs[db] : db \in Find!Database}, fetch[r].records)
    BY Zenon DEF FoundIsBest, Find!AnswerIsBest, IsBest, Matching
  <1>1. Held(fetch[r].docs) = UNION {fetch[r].docs[db] : db \in Find!Database}
    BY DEF Held, Find!Database
  <1> QED
    BY <1>1 DEF BestInv, FetchRight

\* What a query of several databases finds is what one database would have found that
\* held the documents of all: whatever they hold, in which order they answer, and what
\* is written in the meantime, as long as they show it one version of a document.
THEOREM BestFound == Spec => []FoundIsBest
  <1>1. Init => Inv /\ BestInv
    BY FindInit, JoinInit, BestInit DEF Inv
  <1>2. Inv /\ BestInv /\ [Next]_vars => (Inv /\ BestInv)'
    BY InvStep, BestStep
  <1>3. BestInv => FoundIsBest
    BY InvBest
  <1> QED
    BY <1>1, <1>2, <1>3, PTL DEF Spec

-----------------------------------------------------------------------------
(* What is known of queries *)

\* The verdict that is kept under a key is that of a check with this key.
IsVerdict(key, verdict, known) == \E a \in Checked : Find!Key(a) = key /\ verdict = Find!Detected(a, known)

\* What is known of queries is what the detector says of them by the indexes known now.
VerdictsAreOfTheIndexes == \A k \in DOMAIN queryStats : IsVerdict(k, queryStats[k], indexes)

IndexesKnown == indexes \in KnownIndexes /\ actualIndexes \in KnownIndexes

StatsInv == IndexesKnown /\ VerdictsAreOfTheIndexes

\* The checks of a query are among those that may be made; each is told by its key.
LEMMA ChecksIn ==
    ASSUME NEW r \in Request, NEW q \in Asks[r], NEW selection \in FiltersOf(q), NEW order \in OrdersOf(q),
           NEW checks, checks = Find!Checks(q, selection, order)
    PROVE  /\ \A i \in DOMAIN checks : checks[i] \in Checked
           /\ \A i, j \in DOMAIN checks : Find!Key(checks[i]) = Find!Key(checks[j]) => checks[i] = checks[j]
  <1>1. \A i \in DOMAIN checks : checks[i] \in Checked
    <2> DEFINE both == ChecksOf(q, selection, q.orderBy) \cup ChecksOf(q, selection, <<>>)
    <2>1. \A i \in DOMAIN checks : checks[i] \in ChecksOf(q, selection, order)
      BY DEF ChecksOf
    <2>2. ChecksOf(q, selection, order) \subseteq both
      BY DEF OrdersOf
    <2> HIDE DEF both
    <2>3. both \subseteq ChecksFor(q)
      BY DEF ChecksFor, both
    <2>4. ChecksFor(q) \subseteq Checked
      BY DEF Checked
    <2> QED
      BY <2>1, <2>2, <2>3, <2>4
  <1> DEFINE Check(o) == [text |-> Find!Text(q, selection), coll |-> q.coll, filter |-> selection, orderBy |-> o]
  <1>2. \A i \in DOMAIN checks : \E o : checks[i] = Check(o)
    <2>1. CASE q.fields = <<>>
      <3>1. checks = <<Check(order)>>
        BY <2>1 DEF Find!Checks
      <3>2. DOMAIN checks = {1} /\ checks[1] = Check(order)
        BY <3>1
      <3> QED
        BY <3>2
    <2>2. CASE q.fields # <<>>
      <3> DEFINE Asked(f) == f.fn \in {"COUNT", "MIN", "MAX"}
                 checked == Find!SelectSeq(q.fields, Asked)
      <3>1. checks = [i \in DOMAIN checked |->
                         Check(IF checked[i].fn = "COUNT" THEN <<>>
                               ELSE <<[path |-> <<checked[i].field>>, direction |-> "ASC"]>>)]
        BY <2>2 DEF Find!Checks
      <3> HIDE DEF checked, Check
      <3> QED
        BY <3>1
    <2> QED
      BY <2>1, <2>2
  <1>3. \A i \in DOMAIN checks : checks[i] = Check(checks[i].orderBy)
    BY <1>2
  <1>4. \A i, j \in DOMAIN checks : Find!Key(checks[i]) = Find!Key(checks[j]) => checks[i] = checks[j]
    <2> SUFFICES ASSUME NEW i \in DOMAIN checks, NEW j \in DOMAIN checks, Find!Key(checks[i]) = Find!Key(checks[j])
                 PROVE  checks[i] = checks[j]
      OBVIOUS
    <2>1. checks[i].orderBy = checks[j].orderBy
      BY DEF Find!Key
    <2> HIDE DEF Check
    <2> QED
      BY <1>3, <2>1
  <1> QED
    BY <1>1, <1>4

\* Checks are made by the indexes that are known then.
LEMMA ClassifiedStats ==
    ASSUME FindInv, BestInv, NEW r \in Request, phase[r] # "idle", NEW stats, NEW known \in KnownIndexes,
           \A k \in DOMAIN stats : IsVerdict(k, stats[k], known),
           Find!Classified(r, stats, known), indexes' = known
    PROVE  VerdictsAreOfTheIndexes'
  <1> DEFINE checks == Find!Checks(asked[r], filter[r], orderBy[r])
             slow == {i \in DOMAIN checks : ~Find!Stat(checks[i], stats, known)}
             made == {i \in DOMAIN checks : \A j \in slow : i <= j}
             keys == {Find!Key(checks[i]) : i \in made}
             verdict(k) == \A i \in made : Find!Key(checks[i]) = k => Find!Detected(checks[i], known)
  <1>1. queryStats' = [k \in keys \cup DOMAIN stats |-> IF k \in DOMAIN stats THEN stats[k] ELSE verdict(k)]
    BY Zenon DEF Find!Classified
  <1>2. asked[r] \in Asks[r] /\ filter[r] \in FiltersOf(asked[r]) /\ orderBy[r] \in OrdersOf(asked[r])
    BY UnderWay DEF BestInv, ArgumentsRight
  <1>3. /\ \A i \in DOMAIN checks : checks[i] \in Checked
        /\ \A i, j \in DOMAIN checks : Find!Key(checks[i]) = Find!Key(checks[j]) => checks[i] = checks[j]
    BY <1>2, ChecksIn
  <1>4. \A i \in DOMAIN checks : Find!Detected(checks[i], known) \in BOOLEAN
    BY <1>3, QueriesAssumption
  <1>5. made \subseteq DOMAIN checks
    OBVIOUS
  <1> HIDE DEF checks, made
  <1>6. ASSUME NEW i \in made PROVE IsVerdict(Find!Key(checks[i]), verdict(Find!Key(checks[i])), known)
    <2>1. checks[i] \in Checked /\ Find!Detected(checks[i], known) \in BOOLEAN
      BY <1>3, <1>4, <1>5
    <2>2. verdict(Find!Key(checks[i])) <=> Find!Detected(checks[i], known)
      BY <1>3, <1>5, Zenon
    <2>3. verdict(Find!Key(checks[i])) = Find!Detected(checks[i], known)
      BY <2>1, <2>2
    <2> HIDE DEF verdict
    <2> QED
      BY <2>1, <2>3 DEF IsVerdict
  <1> HIDE DEF verdict
  <1>7. \A k \in DOMAIN queryStats' : IsVerdict(k, queryStats'[k], known)
    <2> SUFFICES ASSUME NEW k \in DOMAIN queryStats' PROVE IsVerdict(k, queryStats'[k], known)
      OBVIOUS
    <2>1. CASE k \in DOMAIN stats
      <3>1. queryStats'[k] = stats[k]
        BY <1>1, <2>1
      <3> QED
        BY <2>1, <3>1
    <2>2. CASE k \notin DOMAIN stats
      <3>1. queryStats'[k] = verdict(k) /\ k \in keys
        BY <1>1, <2>2
      <3>2. PICK i \in made : k = Find!Key(checks[i])
        BY <3>1
      <3> QED
        BY <1>6, <3>1, <3>2
    <2> QED
      BY <2>1, <2>2
  <1>8. \A k \in DOMAIN queryStats' : IsVerdict(k, queryStats'[k], indexes')
    BY <1>7
  <1> QED
    BY <1>8 DEF VerdictsAreOfTheIndexes

\* At first nothing is known.
LEMMA StatsInit == ASSUME Init PROVE StatsInv
  <1>1. actualIndexes = Head(IndexHistory) /\ indexes = actualIndexes /\ queryStats = <<>>
    BY DEF Init, Find!Init
  <1>2. Head(IndexHistory) \in KnownIndexes
    <2>1. DOMAIN IndexHistory = 1..Len(IndexHistory) /\ Len(IndexHistory) \in Nat /\ Len(IndexHistory) # 0
          /\ Head(IndexHistory) = IndexHistory[1]
      BY QueriesAssumption DEF IsSeq
    <2> QED
      BY <2>1 DEF KnownIndexes
  <1>3. DOMAIN queryStats = {}
    BY <1>1
  <1> QED
    BY <1>1, <1>2, <1>3 DEF StatsInv, IndexesKnown, VerdictsAreOfTheIndexes

\* Of what is known of queries nothing changes.
LEMMA StatsUnchanged ==
    ASSUME StatsInv, UNCHANGED <<indexes, actualIndexes, queryStats>>
    PROVE  StatsInv'
  BY DEF StatsInv, IndexesKnown, VerdictsAreOfTheIndexes, IsVerdict

\* Every step keeps it: new indexes clear what is known.
LEMMA StatsStep ==
    ASSUME Inv, BestInv, StatsInv, [Next]_vars
    PROVE  StatsInv'
  <1>0. FindInv /\ IndexesKnown /\ VerdictsAreOfTheIndexes
    BY DEF Inv, StatsInv
  <1>1. CASE Find!Next
    <2>1. ASSUME NEW r \in Request, Find!Classify(r) PROVE StatsInv'
      <3>1. phase[r] # "idle" /\ actualIndexes' = actualIndexes /\ indexes' = indexes
        BY <2>1 DEF Find!Classify, Find!database, Find!statistics
      <3>2. queryStats' = queryStats \/ Find!Classified(r, queryStats, indexes)
        BY <2>1 DEF Find!Classify, Find!statistics
      <3>3. VerdictsAreOfTheIndexes'
        <4>1. CASE queryStats' = queryStats
          BY <1>0, <3>1, <4>1 DEF VerdictsAreOfTheIndexes, IsVerdict
        <4>2. CASE Find!Classified(r, queryStats, indexes)
          BY <1>0, <3>1, <4>2, ClassifiedStats DEF IndexesKnown, VerdictsAreOfTheIndexes
        <4> QED
          BY <3>2, <4>1, <4>2
      <3> QED
        BY <1>0, <3>1, <3>3 DEF StatsInv, IndexesKnown
    <2>2. ASSUME NEW r \in Request, Find!Refreshed(r) PROVE StatsInv'
      <3> DEFINE stats == IF indexes' = indexes THEN queryStats ELSE <<>>
      <3>1. /\ phase[r] # "idle" /\ actualIndexes' = actualIndexes /\ indexes' = actualIndexes
            /\ Find!Classified(r, stats, indexes')
        BY <2>2 DEF Find!Refreshed, Find!database
      <3>2. \A k \in DOMAIN stats : IsVerdict(k, stats[k], indexes')
        <4>1. CASE indexes' = indexes
          BY <1>0, <4>1 DEF VerdictsAreOfTheIndexes
        <4>2. CASE indexes' # indexes
          <5>1. DOMAIN stats = {}
            BY <4>2
          <5> QED
            BY <5>1
        <4> QED
          BY <4>1, <4>2
      <3> HIDE DEF stats
      <3>3. indexes' \in KnownIndexes
        BY <1>0, <3>1 DEF IndexesKnown
      <3>4. VerdictsAreOfTheIndexes'
        BY <1>0, <3>1, <3>2, <3>3, ClassifiedStats
      <3> QED
        BY <1>0, <3>1, <3>3, <3>4 DEF StatsInv, IndexesKnown
    <2>3. CASE Find!Reindex
      <3>1. PICK i \in 1..(Len(IndexHistory) - 1) : actualIndexes' = IndexHistory[i + 1]
        BY <2>3 DEF Find!Reindex
      <3>2. i + 1 \in DOMAIN IndexHistory
        BY QueriesAssumption DEF IsSeq
      <3>3. UNCHANGED <<indexes, queryStats>>
        BY <2>3 DEF Find!Reindex, Find!statistics
      <3> QED
        BY <1>0, <3>1, <3>2, <3>3 DEF StatsInv, IndexesKnown, KnownIndexes, VerdictsAreOfTheIndexes, IsVerdict
    <2>4. ASSUME NEW r \in Request, Find!Step(r), ~Find!Classify(r), ~Find!Refreshed(r) PROVE StatsInv'
      <3>1. UNCHANGED <<indexes, actualIndexes, queryStats>>
        BY <2>4 DEF Find!Step, Find!DatabaseFails, Find!Answer, Find!Read, Find!Reduce, Find!Combine, Find!TimesOut,
                    Find!database, Find!statistics
      <3> QED
        BY <3>1, StatsUnchanged
    <2>5. ASSUME NEW r \in Request, Find!Ask(r) PROVE StatsInv'
      BY <2>5, StatsUnchanged DEF Find!Ask, Find!database, Find!statistics
    <2>6. ASSUME NEW db \in 1..Databases, NEW d \in Arrivals[db], Find!Write(d, db) PROVE StatsInv'
      BY <2>6, StatsUnchanged DEF Find!Write, Find!statistics
    <2>7. CASE Find!RefreshIsDue
      BY <2>7, StatsUnchanged DEF Find!RefreshIsDue, Find!database
    <2> QED
      BY <1>1, <2>1, <2>2, <2>3, <2>4, <2>5, <2>6, <2>7 DEF Find!Next, Find!Database
  <1>2. CASE JoinRecords \/ UNCHANGED vars
    BY <1>2, StatsUnchanged DEF JoinRecords, vars, findVars
  <1> QED
    BY <1>1, <1>2 DEF Next, FindRecords

\* A verdict on a query does not outlive the indexes that it was made by, though the
\* time of the next refresh is set before indexes are read and queries are classified
\* meanwhile: each that is kept is what the detector says of a query with that text.
THEOREM VerdictsKeepUp == Spec => []VerdictsAreOfTheIndexes
  <1>1. Init => Inv /\ BestInv /\ StatsInv
    BY FindInit, JoinInit, BestInit, StatsInit DEF Inv
  <1>2. Inv /\ BestInv /\ StatsInv /\ [Next]_vars => (Inv /\ BestInv /\ StatsInv)'
    BY InvStep, BestStep, StatsStep
  <1>3. StatsInv => VerdictsAreOfTheIndexes
    BY DEF StatsInv
  <1> QED
    BY <1>1, <1>2, <1>3, PTL DEF Spec

\* So what is kept for a query is the verdict on it, as long as the text of a query
\* tells what the detector says of it.
THEOREM StatsKeepUp == KeysTellVerdicts => (Spec => []StatsAreOfTheIndexes)
  <1> SUFFICES ASSUME KeysTellVerdicts PROVE Spec => []StatsAreOfTheIndexes
    OBVIOUS
  <1>1. Init => Inv /\ BestInv /\ StatsInv
    BY FindInit, JoinInit, BestInit, StatsInit DEF Inv
  <1>2. Inv /\ BestInv /\ StatsInv /\ [Next]_vars => (Inv /\ BestInv /\ StatsInv)'
    BY InvStep, BestStep, StatsStep
  <1>3. StatsInv => StatsAreOfTheIndexes
    <2> SUFFICES ASSUME StatsInv, NEW r \in Request, NEW q \in Asks[r],
                        NEW checks, checks = Find!Checks(q, q.filter, q.orderBy),
                        NEW i \in DOMAIN checks, Find!Key(checks[i]) \in DOMAIN queryStats
                 PROVE  queryStats[Find!Key(checks[i])] = Find!Detected(checks[i], indexes)
      BY Zenon DEF StatsAreOfTheIndexes, Find!StatsAreOfTheIndexes
    <2>1. checks[i] \in Checked
      BY ChecksIn DEF FiltersOf, OrdersOf
    <2>2. PICK a \in Checked : Find!Key(a) = Find!Key(checks[i])
                               /\ queryStats[Find!Key(checks[i])] = Find!Detected(a, indexes)
      BY DEF StatsInv, VerdictsAreOfTheIndexes, IsVerdict
    <2> QED
      BY <2>1, <2>2 DEF KeysTellVerdicts, StatsInv, IndexesKnown
  <1> QED
    BY <1>1, <1>2, <1>3, PTL DEF Spec

-----------------------------------------------------------------------------
(* Sums *)

\* A total is made number by number.
LEMMA TotalIs ==
    ASSUME NEW n \in Nat, NEW numbers \in [1..n -> Nat]
    PROVE  \E t \in [0..n -> Nat] : /\ t[0] = 0 /\ \A i \in 1..n : t[i] = t[i - 1] + numbers[i]
                                    /\ Find!Total(numbers) = t[n]
  <1> DEFINE step == [p \in Nat \X Nat |-> IF p[1] \in 1..n THEN p[2] + numbers[p[1]] ELSE p[2]]
             G(f) == [i \in 0..n |-> IF i = 0 THEN 0 ELSE f[i - 1] + numbers[i]]
             total == CHOOSE f : f = G(f)
  <1>1. step \in Steps(Nat)
    BY DEF Steps
  <1>2. PICK g \in Runs(Nat, 0, step, n) : TRUE
    <2> HIDE DEF step
    <2> QED
      BY <1>1, Recursion
  <1>3. g \in [0..n -> Nat] /\ g[0] = 0 /\ \A i \in 1..n : g[i] = step[<<i, g[i - 1]>>]
    BY DEF Runs
  <1>4. \A i \in 1..n : g[i] = g[i - 1] + numbers[i]
    <2> TAKE i \in 1..n
    <2>1. i - 1 \in 0..n /\ i \in Nat
      OBVIOUS
    <2>2. <<i, g[i - 1]>> \in Nat \X Nat
      BY <1>3, <2>1
    <2> QED
      BY <1>3, <2>2
  <1>5. g = G(g)
    <2>1. \A i \in 0..n : g[i] = IF i = 0 THEN 0 ELSE g[i - 1] + numbers[i]
      <3> TAKE i \in 0..n
      <3>1. i # 0 => i \in 1..n
        OBVIOUS
      <3> QED
        BY <1>3, <1>4, <3>1
    <2> QED
      BY <1>3, <2>1
  <1>6. total = G(total)
    BY <1>5
  <1>7. Len(numbers) = n
    OBVIOUS
  <1>8. Find!Total(numbers) = total[n]
    BY <1>7 DEF Find!Total
  <1>9. total[0] = 0 /\ \A i \in 1..n : total[i] = total[i - 1] + numbers[i]
    <2>1. ASSUME NEW f, f = G(f) PROVE f[0] = 0 /\ \A i \in 1..n : f[i] = f[i - 1] + numbers[i]
      <3>1. G(f)[0] = 0 /\ \A i \in 1..n : G(f)[i] = f[i - 1] + numbers[i]
        OBVIOUS
      <3> HIDE DEF G
      <3> QED
        BY <2>1, <3>1
    <2> HIDE DEF total, G
    <2> QED
      BY <1>6, <2>1
  <1>10. total \in [0..n -> Nat]
    <2>1. total[0] \in Nat /\ \A i \in 1..n : total[i - 1] \in Nat => total[i] \in Nat
      <3>1. \A i \in 1..n : numbers[i] \in Nat
        OBVIOUS
      <3> HIDE DEF total
      <3> QED
        BY <1>9, <3>1
    <2>2. DOMAIN total = 0..n /\ total = [i \in 0..n |-> total[i]]
      <3>1. ASSUME NEW f, f = G(f) PROVE DOMAIN f = 0..n /\ f = [i \in 0..n |-> f[i]]
        <4>1. DOMAIN G(f) = 0..n /\ G(f) = [i \in 0..n |-> G(f)[i]]
          OBVIOUS
        <4> HIDE DEF G
        <4> QED
          BY <3>1, <4>1
      <3> HIDE DEF total, G
      <3> QED
        BY <1>6, <3>1
    <2> HIDE DEF total
    <2>3. \A i \in 0..n : total[i] \in Nat
      BY <2>1, Stays
    <2> QED
      BY <2>2, <2>3
  <1> QED
    BY <1>8, <1>9, <1>10

\* So is a product; what is not zero makes one that is not.
LEMMA CommonMultipleIs ==
    ASSUME NEW n \in Nat, NEW numbers \in [1..n -> Nat \ {0}]
    PROVE  \E t \in [0..n -> Nat \ {0}] : /\ t[0] = 1 /\ \A i \in 1..n : t[i] = t[i - 1] * numbers[i]
                                          /\ Find!CommonMultiple(numbers) = t[n]
  <1> DEFINE X == Nat \ {0}
             step == [p \in Nat \X X |-> IF p[1] \in 1..n THEN p[2] * numbers[p[1]] ELSE p[2]]
             G(f) == [i \in 0..n |-> IF i = 0 THEN 1 ELSE f[i - 1] * numbers[i]]
             total == CHOOSE f : f = G(f)
  <1>0. \A x, y \in X : x * y \in X
    OBVIOUS
  <1>1. step \in Steps(X)
    BY <1>0 DEF Steps
  <1>2. PICK g \in Runs(X, 1, step, n) : TRUE
    <2>1. 1 \in X
      OBVIOUS
    <2> HIDE DEF step, X
    <2> QED
      BY <1>1, <2>1, Recursion
  <1>3. g \in [0..n -> X] /\ g[0] = 1 /\ \A i \in 1..n : g[i] = step[<<i, g[i - 1]>>]
    BY DEF Runs
  <1>4. \A i \in 1..n : g[i] = g[i - 1] * numbers[i]
    <2> TAKE i \in 1..n
    <2>1. i - 1 \in 0..n /\ i \in Nat
      OBVIOUS
    <2>2. <<i, g[i - 1]>> \in Nat \X X
      BY <1>3, <2>1
    <2> QED
      BY <1>3, <2>2
  <1>5. g = G(g)
    <2>1. \A i \in 0..n : g[i] = IF i = 0 THEN 1 ELSE g[i - 1] * numbers[i]
      <3> TAKE i \in 0..n
      <3>1. i # 0 => i \in 1..n
        OBVIOUS
      <3> QED
        BY <1>3, <1>4, <3>1
    <2> QED
      BY <1>3, <2>1
  <1>6. total = G(total)
    BY <1>5
  <1>7. Len(numbers) = n
    OBVIOUS
  <1>8. Find!CommonMultiple(numbers) = total[n]
    BY <1>7 DEF Find!CommonMultiple
  <1>9. total[0] = 1 /\ \A i \in 1..n : total[i] = total[i - 1] * numbers[i]
    <2>1. ASSUME NEW f, f = G(f) PROVE f[0] = 1 /\ \A i \in 1..n : f[i] = f[i - 1] * numbers[i]
      <3>1. G(f)[0] = 1 /\ \A i \in 1..n : G(f)[i] = f[i - 1] * numbers[i]
        OBVIOUS
      <3> HIDE DEF G
      <3> QED
        BY <2>1, <3>1
    <2> HIDE DEF total, G
    <2> QED
      BY <1>6, <2>1
  <1>10. total \in [0..n -> X]
    <2>1. total[0] \in X /\ \A i \in 1..n : total[i - 1] \in X => total[i] \in X
      <3>1. 1 \in X /\ \A i \in 1..n : numbers[i] \in X
        OBVIOUS
      <3> HIDE DEF total, X
      <3> QED
        BY <1>0, <1>9, <3>1
    <2>2. DOMAIN total = 0..n /\ total = [i \in 0..n |-> total[i]]
      <3>1. ASSUME NEW f, f = G(f) PROVE DOMAIN f = 0..n /\ f = [i \in 0..n |-> f[i]]
        <4>1. DOMAIN G(f) = 0..n /\ G(f) = [i \in 0..n |-> G(f)[i]]
          OBVIOUS
        <4> HIDE DEF G
        <4> QED
          BY <3>1, <4>1
      <3> HIDE DEF total, G
      <3> QED
        BY <1>6, <3>1
    <2> HIDE DEF total, X
    <2>3. \A i \in 0..n : total[i] \in X
      BY <2>1, Stays
    <2> QED
      BY <2>2, <2>3
  <1> QED
    BY <1>8, <1>9, <1>10

\* The elements of some sets.
Together(A, n) == UNION {A[i] : i \in 1..n}

\* The numbers of elements of sets that have none in common are in total that of all.
LEMMA TotalOfSets ==
    ASSUME NEW n \in Nat, NEW A, \A i \in 1..n : IsFiniteSet(A[i]),
           \A i, j \in 1..n : i # j => A[i] \cap A[j] = {},
           NEW numbers \in [1..n -> Nat], \A i \in 1..n : numbers[i] = Cardinality(A[i])
    PROVE  IsFiniteSet(Together(A, n)) /\ Find!Total(numbers) = Cardinality(Together(A, n))
  <1> DEFINE first(m) == UNION {A[i] : i \in 1..m}
  <1>1. PICK t \in [0..n -> Nat] : /\ t[0] = 0 /\ \A i \in 1..n : t[i] = t[i - 1] + numbers[i]
                                   /\ Find!Total(numbers) = t[n]
    BY TotalIs
  <1> DEFINE known == {m \in Nat : m <= n => IsFiniteSet(first(m)) /\ t[m] = Cardinality(first(m))}
  <1>2. 0 \in known
    <2>1. first(0) = {}
      OBVIOUS
    <2> HIDE DEF first
    <2> QED
      BY <1>1, <2>1, FS_EmptySet
  <1>3. ASSUME NEW m \in known PROVE m + 1 \in known
    <2> SUFFICES ASSUME m + 1 <= n PROVE IsFiniteSet(first(m + 1)) /\ t[m + 1] = Cardinality(first(m + 1))
      OBVIOUS
    <2>1. first(m + 1) = first(m) \cup A[m + 1]
      <3> DEFINE places == 1..(m + 1)
      <3>1. places = (1..m) \cup {m + 1}
        <4>1. m \in Nat
          OBVIOUS
        <4> HIDE DEF known
        <4> QED
          BY <4>1
      <3>2. first(m + 1) = UNION {A[i] : i \in places}
        BY Zenon
      <3> HIDE DEF places
      <3> QED
        BY <3>1, <3>2
    <2>2. first(m) \cap A[m + 1] = {}
      <3> SUFFICES ASSUME NEW x \in first(m), x \in A[m + 1] PROVE FALSE
        OBVIOUS
      <3>1. PICK i \in 1..m : x \in A[i]
        OBVIOUS
      <3>2. i \in 1..n /\ m + 1 \in 1..n /\ i # m + 1
        OBVIOUS
      <3> QED
        BY <3>1, <3>2
    <2>3. m + 1 \in 1..n /\ m <= n /\ (m + 1) - 1 = m
      OBVIOUS
    <2>4. IsFiniteSet(first(m)) /\ t[m] = Cardinality(first(m)) /\ IsFiniteSet(A[m + 1])
          /\ t[m + 1] = t[m] + Cardinality(A[m + 1])
      BY <1>1, <2>3
    <2> HIDE DEF first
    <2>5. Cardinality(first(m)) \in Nat /\ Cardinality(A[m + 1]) \in Nat
      BY <2>4, FS_CardinalityType
    <2>6. Cardinality(first(m) \cap A[m + 1]) = 0
      BY <2>2, FS_EmptySet
    <2>7. /\ IsFiniteSet(first(m) \cup A[m + 1])
          /\ Cardinality(first(m) \cup A[m + 1])
                = Cardinality(first(m)) + Cardinality(A[m + 1]) - Cardinality(first(m) \cap A[m + 1])
      BY <2>4, FS_Union
    <2>8. /\ IsFiniteSet(first(m + 1))
          /\ Cardinality(first(m + 1))
                = Cardinality(first(m)) + Cardinality(A[m + 1]) - Cardinality(first(m) \cap A[m + 1])
      BY <2>1, <2>7, Zenon
    <2> QED
      BY <2>4, <2>5, <2>6, <2>8
  <1>4. known \in SUBSET Nat
    OBVIOUS
  <1>5. n \in known
    <2> HIDE DEF known
    <2> QED
      BY <1>2, <1>3, <1>4, ByInduction
  <1> QED
    BY <1>1, <1>5 DEF Together

\* Numbers between two bounds have a total between the multiples of these.
LEMMA TotalBetween ==
    ASSUME NEW n \in Nat, NEW numbers \in [1..n -> Nat], NEW least \in Nat, NEW greatest \in Nat,
           \A i \in 1..n : least <= numbers[i] /\ numbers[i] <= greatest
    PROVE  /\ Find!Total(numbers) \in Nat
           /\ n * least <= Find!Total(numbers) /\ Find!Total(numbers) <= n * greatest
  <1>1. PICK t \in [0..n -> Nat] : /\ t[0] = 0 /\ \A i \in 1..n : t[i] = t[i - 1] + numbers[i]
                                   /\ Find!Total(numbers) = t[n]
    BY TotalIs
  <1> DEFINE known == {m \in Nat : m <= n => m * least <= t[m] /\ t[m] <= m * greatest}
  <1>2. 0 \in known
    BY <1>1
  <1>3. ASSUME NEW m \in known PROVE m + 1 \in known
    <2> SUFFICES ASSUME m + 1 <= n PROVE (m + 1) * least <= t[m + 1] /\ t[m + 1] <= (m + 1) * greatest
      OBVIOUS
    <2>1. m + 1 \in 1..n /\ m \in 0..n /\ m <= n /\ (m + 1) - 1 = m
      OBVIOUS
    <2>2. m * least <= t[m] /\ t[m] <= m * greatest /\ t[m + 1] = t[m] + numbers[m + 1]
          /\ least <= numbers[m + 1] /\ numbers[m + 1] <= greatest
      BY <1>1, <2>1
    <2>3. (m + 1) * least = m * least + least /\ (m + 1) * greatest = m * greatest + greatest
      OBVIOUS
    <2>4. t[m] \in Nat /\ numbers[m + 1] \in Nat /\ m * least \in Nat /\ m * greatest \in Nat
      BY <2>1
    <2> QED
      BY <2>2, <2>3, <2>4
  <1>4. known \in SUBSET Nat
    OBVIOUS
  <1>5. n \in known
    <2> HIDE DEF known
    <2> QED
      BY <1>2, <1>3, <1>4, ByInduction
  <1> QED
    BY <1>1, <1>5

\* Each of the numbers divides their product.
LEMMA MultipleOfEach ==
    ASSUME NEW n \in Nat, NEW numbers \in [1..n -> Nat \ {0}]
    PROVE  /\ Find!CommonMultiple(numbers) \in Nat \ {0}
           /\ \A i \in 1..n : \E k \in Nat : Find!CommonMultiple(numbers) = k * numbers[i]
  <1>1. PICK t \in [0..n -> Nat \ {0}] : /\ t[0] = 1 /\ \A i \in 1..n : t[i] = t[i - 1] * numbers[i]
                                         /\ Find!CommonMultiple(numbers) = t[n]
    BY CommonMultipleIs
  <1> DEFINE known == {m \in Nat : m <= n => \A i \in 1..m : \E k \in Nat : t[m] = k * numbers[i]}
  <1>2. 0 \in known
    OBVIOUS
  <1>3. ASSUME NEW m \in known PROVE m + 1 \in known
    <2> SUFFICES ASSUME m + 1 <= n, NEW i \in 1..(m + 1) PROVE \E k \in Nat : t[m + 1] = k * numbers[i]
      OBVIOUS
    <2>1. m + 1 \in 1..n /\ m \in 0..n /\ m <= n /\ (m + 1) - 1 = m
      OBVIOUS
    <2>2. t[m + 1] = t[m] * numbers[m + 1] /\ t[m] \in Nat /\ numbers[m + 1] \in Nat
      BY <1>1, <2>1
    <2>3. CASE i = m + 1
      BY <2>2, <2>3
    <2>4. CASE i # m + 1
      <3>1. i \in 1..m /\ numbers[i] \in Nat
        BY <2>1, <2>4
      <3>2. PICK k \in Nat : t[m] = k * numbers[i]
        BY <2>1, <3>1
      <3>3. t[m + 1] = (k * numbers[m + 1]) * numbers[i] /\ k * numbers[m + 1] \in Nat
        BY <2>2, <3>1, <3>2
      <3> QED
        BY <3>3
    <2> QED
      BY <2>3, <2>4
  <1>4. known \in SUBSET Nat
    OBVIOUS
  <1>5. n \in known
    <2> HIDE DEF known
    <2> QED
      BY <1>2, <1>3, <1>4, ByInduction
  <1> QED
    BY <1>1, <1>5

\* The sequence of a finite set has each of its elements once.
LEMMA Enumerates ==
    ASSUME NEW S, IsFiniteSet(S), NEW s, s = Find!SetToSeq(S)
    PROVE  /\ s \in [1..Cardinality(S) -> S] /\ Cardinality(S) \in Nat /\ Elements(s) = S
           /\ \A i, j \in 1..Cardinality(S) : i # j => s[i] # s[j]
           /\ Len(s) = Cardinality(S) /\ DOMAIN s = 1..Cardinality(S)
  <1> DEFINE n == Cardinality(S)
  <1>1. n \in Nat /\ ExistsBijection(1..n, S)
    BY FS_CardinalityType
  <1>2. PICK f \in [1..n -> S] : Find!IsInjective(f)
    BY <1>1 DEF ExistsBijection, Bijection, Injection, IsInjective, Find!IsInjective
  <1>3. s \in [1..n -> S] /\ Find!IsInjective(s)
    BY <1>1, <1>2, SameCardinality DEF Find!SetToSeq
  <1>4. \A i, j \in 1..n : i # j => s[i] # s[j]
    BY <1>3 DEF Find!IsInjective
  <1>5. IsFiniteSet(Elements(s)) /\ Cardinality(Elements(s)) = n /\ Elements(s) \subseteq S
    <2>1. \A i, j \in 1..n : i < j => s[i] # s[j]
      BY <1>1, <1>4
    <2> HIDE DEF n
    <2> QED
      BY <1>1, <1>3, <2>1, ElementsOf
  <1>6. Elements(s) = S
    BY <1>5, FS_Subset
  <1> QED
    BY <1>1, <1>3, <1>4, <1>6

\* The values that are not Null.
Given(values) == Find!Kept(values, {k \in DOMAIN values : values[k] # Null})

\* What is not Null of the numbers of elements of sets is in total the number of all.
LEMMA KeptTotal ==
    ASSUME NEW n \in Nat, NEW A, \A i \in 1..n : IsFiniteSet(A[i]),
           \A i, j \in 1..n : i # j => A[i] \cap A[j] = {},
           NEW values \in [1..n -> Nat \cup {Null}],
           \A i \in 1..n : IF values[i] = Null THEN A[i] = {} ELSE values[i] = Cardinality(A[i])
    PROVE  Find!Total(Given(values)) = Cardinality(Together(A, n))
  <1> DEFINE places == {i \in DOMAIN values : values[i] # Null}
             k == Find!Kept(values, places)
  <1>1. values \in Seq(Nat \cup {Null}) /\ DOMAIN values = 1..n
    OBVIOUS
  <1>2. places \subseteq 1..n /\ DOMAIN values \cap places = places
    BY <1>1
  <1>3. k = Join!Kept(values, places)
    BY SameKept
  <1> HIDE DEF k
  <1>4. PICK p : KeepsAt(p, k, values, places)
    <2> HIDE DEF places
    <2> QED
      BY <1>1, <1>3, KeptPlaces
  <1> DEFINE m == Len(k)
             B == [a \in 1..m |-> A[p[a]]]
  <1>5. k \in Seq(Nat \cup {Null}) /\ m \in Nat /\ DOMAIN k = 1..m
    <2>1. k \in Seq(Nat \cup {Null})
      <3> HIDE DEF places
      <3> QED
        BY <1>1, <1>3, KeptPlaces
    <2> QED
      BY <2>1
  <1>6. \A a \in 1..m : p[a] \in 1..n /\ k[a] = values[p[a]] /\ values[p[a]] # Null
    BY <1>2, <1>4, <1>5 DEF KeepsAt
  <1>7. k \in [1..m -> Nat] /\ \A a \in 1..m : k[a] = Cardinality(B[a]) /\ IsFiniteSet(B[a])
    <2>1. \A a \in 1..m : k[a] \in Nat /\ k[a] = Cardinality(A[p[a]]) /\ IsFiniteSet(A[p[a]])
      BY <1>6
    <2> HIDE DEF m
    <2> QED
      BY <1>5, <2>1
  <1>8. \A a, b \in 1..m : a # b => B[a] \cap B[b] = {}
    <2> TAKE a, b \in 1..m
    <2> SUFFICES ASSUME a # b PROVE A[p[a]] \cap A[p[b]] = {}
      OBVIOUS
    <2>1. (a < b \/ b < a) /\ a \in DOMAIN k /\ b \in DOMAIN k
      BY <1>5
    <2>2. p[a] \in Nat /\ p[b] \in Nat /\ (p[a] < p[b] \/ p[b] < p[a])
      BY <1>4, <1>6, <2>1 DEF KeepsAt
    <2>3. p[a] # p[b]
      BY <2>2
    <2> QED
      BY <1>6, <2>3
  <1>9. Together(B, m) = Together(A, n)
    <2>1. ASSUME NEW a \in 1..m PROVE B[a] \subseteq Together(A, n)
      BY <1>6 DEF Together
    <2>2. ASSUME NEW i \in 1..n, NEW x \in A[i] PROVE \E a \in 1..m : x \in B[a]
      <3>1. i \in places
        BY <1>1
      <3>2. PICK a \in 1..m : p[a] = i
        BY <1>2, <1>4, <1>5, <3>1 DEF KeepsAt
      <3> QED
        BY <3>2
    <2> HIDE DEF B
    <2> QED
      BY <2>1, <2>2 DEF Together
  <1> HIDE DEF B, m
  <1>10. Find!Total(k) = Cardinality(Together(B, m))
    BY <1>5, <1>7, <1>8, TotalOfSets
  <1> QED
    BY <1>9, <1>10 DEF k, Given

\* Each document with the numbers up to the one of its field.
Units(docs, field) == UNION {{d} \X (1..Find!Field(d, field)) : d \in docs}

\* A sum over a finite set of documents, in any order, is the number of their units.
LEMMA SumIs ==
    ASSUME NEW docs, IsFiniteSet(docs), NEW field, \A d \in docs : Find!Field(d, field) \in Nat,
           NEW s, s = Find!SetToSeq(docs)
    PROVE  /\ IsFiniteSet(Units(docs, field))
           /\ Find!Total([i \in DOMAIN s |-> s[i][field]]) = Cardinality(Units(docs, field))
  <1> DEFINE n == Cardinality(docs)
             numbers == [i \in DOMAIN s |-> s[i][field]]
             A == [i \in 1..n |-> {s[i]} \X (1..Find!Field(s[i], field))]
  <1>1. /\ s \in [1..n -> docs] /\ n \in Nat /\ Elements(s) = docs /\ DOMAIN s = 1..n
        /\ \A i, j \in 1..n : i # j => s[i] # s[j]
    BY Enumerates
  <1> HIDE DEF n
  <1>2. \A i \in 1..n : s[i][field] = Find!Field(s[i], field) /\ Find!Field(s[i], field) \in Nat
    BY <1>1, QueriesAssumption DEF Find!Field
  <1>3. numbers \in [1..n -> Nat]
    BY <1>1, <1>2
  <1>4. \A i \in 1..n : IsFiniteSet(A[i]) /\ numbers[i] = Cardinality(A[i])
    <2> TAKE i \in 1..n
    <2> DEFINE v == Find!Field(s[i], field)
    <2>1. v \in Nat /\ numbers[i] = v
      BY <1>1, <1>2
    <2> HIDE DEF v
    <2>2. IsFiniteSet(1..v) /\ Cardinality(1..v) = v
      <3>1. 1 \in Int /\ v \in Int
        BY <2>1
      <3>2. IsFiniteSet(1..v) /\ Cardinality(1..v) = IF 1 > v THEN 0 ELSE v - 1 + 1
        BY <3>1, FS_Interval, Zenon
      <3> QED
        BY <2>1, <3>2
    <2>3. IsFiniteSet({s[i]}) /\ Cardinality({s[i]}) = 1
      BY FS_Singleton
    <2>4. /\ IsFiniteSet({s[i]} \X (1..v))
          /\ Cardinality({s[i]} \X (1..v)) = Cardinality({s[i]}) * Cardinality(1..v)
      BY <2>2, <2>3, FS_Product, Zenon
    <2>5. Cardinality({s[i]}) * Cardinality(1..v) = v
      BY <2>1, <2>2, <2>3
    <2> QED
      BY <2>1, <2>4, <2>5 DEF v
  <1>5. \A i, j \in 1..n : i # j => A[i] \cap A[j] = {}
    BY <1>1
  <1>6. Together(A, n) = Units(docs, field)
    <2>1. docs = {s[i] : i \in 1..n}
      BY <1>1 DEF Elements
    <2> QED
      BY <2>1 DEF Units, Together
  <1> HIDE DEF numbers, A
  <1>7. IsFiniteSet(Together(A, n)) /\ Find!Total(numbers) = Cardinality(Together(A, n))
    BY <1>1, <1>3, <1>4, <1>5, TotalOfSets
  <1> QED
    BY <1>6, <1>7 DEF numbers

\* If the numbers are between two bounds, so is their mean.
LEMMA SumBetween ==
    ASSUME NEW docs, IsFiniteSet(docs), NEW field, NEW least \in Nat, NEW greatest \in Nat,
           \A d \in docs : /\ Find!Field(d, field) \in Nat
                           /\ least <= Find!Field(d, field) /\ Find!Field(d, field) <= greatest,
           NEW s, s = Find!SetToSeq(docs), NEW sum, sum = Find!Total([i \in DOMAIN s |-> s[i][field]])
    PROVE  /\ sum \in Nat /\ Len(s) \in Nat
           /\ Len(s) * least <= sum /\ sum <= Len(s) * greatest
  <1> DEFINE n == Cardinality(docs)
             numbers == [i \in DOMAIN s |-> s[i][field]]
  <1>1. s \in [1..n -> docs] /\ n \in Nat /\ DOMAIN s = 1..n /\ Len(s) = n
    BY Enumerates
  <1> HIDE DEF n
  <1>2. \A i \in 1..n : s[i][field] = Find!Field(s[i], field) /\ s[i] \in docs
    BY <1>1, QueriesAssumption DEF Find!Field
  <1>3. numbers \in [1..n -> Nat] /\ \A i \in 1..n : least <= numbers[i] /\ numbers[i] <= greatest
    BY <1>1, <1>2
  <1> HIDE DEF numbers
  <1> QED
    BY <1>1, <1>3, TotalBetween DEF numbers

\* A quotient is between what its bounds say.
LEMMA DivideBetween ==
    ASSUME NEW x \in Nat, NEW d \in Nat \ {0}, NEW a \in Nat, NEW b \in Nat, d * a <= x, x <= d * b
    PROVE  x \div d \in Nat /\ a <= x \div d /\ x \div d <= b
  <1> DEFINE q == x \div d
  <1>1. q \in Nat /\ d * q <= x /\ x < d * q + d
    OBVIOUS
  <1> HIDE DEF q
  <1>2. ASSUME NEW y \in Nat, NEW z \in Nat, y + 1 <= z PROVE d * y + d <= d * z
    <2>1. z = (y + 1) + (z - (y + 1)) /\ z - (y + 1) \in Nat
      BY <1>2
    <2>2. d * z = d * y + d + d * (z - (y + 1)) /\ d * (z - (y + 1)) \in Nat
      BY <2>1
    <2> QED
      BY <2>2
  <1>3. d * q \in Nat /\ d * a \in Nat /\ d * b \in Nat
    BY <1>1
  <1>4. a <= q
    <2> SUFFICES ASSUME q + 1 <= a PROVE FALSE
      BY <1>1
    <2> QED
      BY <1>1, <1>2, <1>3
  <1>5. q <= b
    <2> SUFFICES ASSUME b + 1 <= q PROVE FALSE
      BY <1>1
    <2>1. d * b + d <= d * q
      BY <1>1, <1>2
    <2> QED
      BY <1>1, <1>3, <2>1
  <1> QED
    BY <1>1, <1>4, <1>5 DEF q

\* The mean of averages between two bounds is between them.
LEMMA MeanBetween ==
    ASSUME NEW n \in Nat \ {0}, NEW averages \in [1..n -> Nat \X (Nat \ {0})], NEW least \in Nat, NEW greatest \in Nat,
           \A i \in 1..n : /\ averages[i][2] * least <= averages[i][1]
                           /\ averages[i][1] <= averages[i][2] * greatest
    PROVE  least <= Find!Mean(averages) /\ Find!Mean(averages) <= greatest
  <1> DEFINE numbers == [i \in DOMAIN averages |-> averages[i][2]]
             counts == Find!CommonMultiple(numbers)
             sums == [i \in DOMAIN averages |-> averages[i][1] * (counts \div averages[i][2])]
             size == n * counts
  <1>1. DOMAIN averages = 1..n /\ Len(averages) = n
        /\ \A i \in 1..n : averages[i][1] \in Nat /\ averages[i][2] \in Nat \ {0}
    OBVIOUS
  <1>2. numbers \in [1..n -> Nat \ {0}] /\ \A i \in 1..n : numbers[i] = averages[i][2]
    BY <1>1
  <1> HIDE DEF numbers
  <1>3. /\ counts \in Nat \ {0}
        /\ \A i \in 1..n : \E k \in Nat : counts = k * numbers[i]
    BY <1>2, MultipleOfEach
  <1> HIDE DEF counts
  <1>4. ASSUME NEW i \in 1..n
        PROVE  sums[i] \in Nat /\ counts * least <= sums[i] /\ sums[i] <= counts * greatest
    <2> DEFINE x == averages[i][1]
               c == averages[i][2]
    <2>1. x \in Nat /\ c \in Nat \ {0} /\ c * least <= x /\ x <= c * greatest
      BY <1>1
    <2>2. PICK k \in Nat : counts = k * c
      BY <1>2, <1>3
    <2>3. sums[i] = x * (counts \div c)
      BY <1>1
    <2> HIDE DEF x, c, sums
    <2>4. counts \div c = k
      <3>1. c * k <= counts /\ counts <= c * k
        BY <2>1, <2>2
      <3>2. k <= counts \div c /\ counts \div c <= k /\ counts \div c \in Nat
        BY <1>3, <2>1, <2>2, <3>1, DivideBetween
      <3> QED
        BY <2>2, <3>2
    <2>5. ASSUME NEW y \in Nat, NEW z \in Nat, y <= z PROVE y * k <= z * k
      <3>1. z = y + (z - y) /\ z - y \in Nat
        BY <2>5
      <3>2. z * k = y * k + (z - y) * k /\ (z - y) * k \in Nat /\ y * k \in Nat
        BY <3>1
      <3> QED
        BY <3>2
    <2>6. (c * least) * k <= x * k /\ x * k <= (c * greatest) * k
      BY <2>1, <2>5
    <2>7. (c * least) * k = counts * least /\ (c * greatest) * k = counts * greatest /\ x * k \in Nat
      BY <2>1, <2>2
    <2> QED
      BY <2>3, <2>4, <2>6, <2>7
  <1>5. sums \in [1..n -> Nat]
    BY <1>1, <1>4
  <1> HIDE DEF sums
  <1>6. counts * least \in Nat /\ counts * greatest \in Nat
    BY <1>3
  <1>7. /\ Find!Total(sums) \in Nat
        /\ n * (counts * least) <= Find!Total(sums) /\ Find!Total(sums) <= n * (counts * greatest)
    BY <1>4, <1>5, <1>6, TotalBetween
  <1>8. /\ size \in Nat \ {0}
        /\ n * (counts * least) = size * least /\ n * (counts * greatest) = size * greatest
    BY <1>3
  <1>9. Find!Mean(averages) = Find!Total(sums) \div size
    BY <1>1 DEF Find!Mean, sums, counts, numbers
  <1> HIDE DEF size
  <1> QED
    BY <1>7, <1>8, <1>9, DivideBetween

\* The least and the greatest of a set of numbers.
IsLeast(m, numbers) == m \in numbers /\ \A v \in numbers : m <= v
IsGreatest(m, numbers) == m \in numbers /\ \A v \in numbers : v <= m

\* A finite set of natural numbers has a greatest one.
LEMMA SomeGreatest ==
    ASSUME NEW V \in SUBSET Nat, IsFiniteSet(V), V # {}
    PROVE  \E m \in V : IsGreatest(m, V)
  <1> DEFINE s == Find!SetToSeq(V)
             n == Cardinality(V)
             Top(m) == \E g \in 1..m : \A i \in 1..m : s[i] <= s[g]
             known == {m \in Nat : 1 <= m /\ m <= n => Top(m)}
  <1>1. s \in [1..n -> V] /\ n \in Nat /\ Elements(s) = V /\ DOMAIN s = 1..n
    BY Enumerates
  <1> HIDE DEF s, n
  <1>2. \A i \in 1..n : s[i] \in Nat
    BY <1>1
  <1>3. 0 \in known
    OBVIOUS
  <1>4. ASSUME NEW m \in known PROVE m + 1 \in known
    <2> SUFFICES ASSUME m + 1 <= n PROVE Top(m + 1)
      OBVIOUS
    <2>1. m \in Nat /\ m + 1 \in 1..n /\ 1..(m + 1) = (1..m) \cup {m + 1} /\ 1..(m + 1) \subseteq 1..n
      BY <1>1
    <2>2. CASE m = 0
      <3>1. s[1] <= s[1] /\ \A i \in 1..(m + 1) : i = 1
        BY <1>2, <2>1, <2>2
      <3>2. 1 \in 1..(m + 1)
        BY <2>1
      <3> QED
        BY <3>1, <3>2
    <2>3. CASE m # 0
      <3>1. PICK g \in 1..m : \A i \in 1..m : s[i] <= s[g]
        BY <2>1, <2>3
      <3>2. s[g] \in Nat /\ s[m + 1] \in Nat /\ \A i \in 1..m : s[i] \in Nat
        BY <1>2, <2>1
      <3>3. CASE s[m + 1] <= s[g]
        BY <2>1, <3>1, <3>3
      <3>4. CASE s[g] <= s[m + 1]
        <4>1. \A i \in 1..(m + 1) : s[i] <= s[m + 1]
          BY <2>1, <3>1, <3>2, <3>4
        <4>2. m + 1 \in 1..(m + 1)
          BY <2>1
        <4> QED
          BY <4>1, <4>2
      <3> QED
        BY <3>2, <3>3, <3>4
    <2> QED
      BY <2>2, <2>3
  <1>5. n \in known
    <2>1. known \in SUBSET Nat
      OBVIOUS
    <2> HIDE DEF known
    <2> QED
      BY <1>1, <1>3, <1>4, <2>1, ByInduction
  <1>6. n # 0
    BY <1>1 DEF Elements
  <1>7. PICK g \in 1..n : \A i \in 1..n : s[i] <= s[g]
    BY <1>1, <1>5, <1>6
  <1>8. V = {s[i] : i \in 1..n}
    BY <1>1 DEF Elements
  <1> QED
    BY <1>7, <1>8 DEF IsGreatest

\* The choices of aggregations, of databases and of the server, are these.
LEMMA ChosenLeast ==
    ASSUME NEW V \in SUBSET Nat, V # {}
    PROVE  /\ IsLeast(CHOOSE v \in V : \A w \in V : ~Find!AqlLess(w, v), V)
           /\ IsLeast(CHOOSE v \in V : \A w \in V : v <= w, V)
  <1>1. PICK m \in V : \A v \in V : m <= v
    BY Least
  <1>2. \A v, w \in V : ~Find!AqlLess(w, v) <=> v <= w
    BY QueriesAssumption DEF Find!AqlLess
  <1>3. IsLeast(CHOOSE v \in V : \A w \in V : v <= w, V)
    BY <1>1 DEF IsLeast
  <1>4. \E v \in V : \A w \in V : ~Find!AqlLess(w, v)
    BY <1>1, <1>2
  <1> DEFINE x == CHOOSE v \in V : \A w \in V : ~Find!AqlLess(w, v)
  <1>5. x \in V /\ \A w \in V : ~Find!AqlLess(w, x)
    BY <1>4
  <1> HIDE DEF x
  <1>6. IsLeast(x, V)
    BY <1>2, <1>5 DEF IsLeast
  <1> QED
    BY <1>3, <1>6 DEF x

LEMMA ChosenGreatest ==
    ASSUME NEW V \in SUBSET Nat, IsFiniteSet(V), V # {}
    PROVE  /\ IsGreatest(CHOOSE v \in V : \A w \in V : ~Find!AqlLess(v, w), V)
           /\ IsGreatest(CHOOSE v \in V : \A w \in V : v >= w, V)
  <1>1. PICK m \in V : \A v \in V : v <= m
    BY SomeGreatest DEF IsGreatest
  <1>2. \A v, w \in V : /\ ~Find!AqlLess(v, w) <=> w <= v
                        /\ v >= w <=> w <= v
    BY QueriesAssumption DEF Find!AqlLess
  <1>3. (\E v \in V : \A w \in V : ~Find!AqlLess(v, w)) /\ \E v \in V : \A w \in V : v >= w
    BY <1>1, <1>2
  <1> DEFINE x == CHOOSE v \in V : \A w \in V : ~Find!AqlLess(v, w)
             y == CHOOSE v \in V : \A w \in V : v >= w
  <1>4. x \in V /\ \A w \in V : ~Find!AqlLess(x, w)
    BY <1>3
  <1>5. y \in V /\ \A w \in V : y >= w
    BY <1>3
  <1> HIDE DEF x, y
  <1>6. IsGreatest(x, V) /\ IsGreatest(y, V)
    BY <1>2, <1>4, <1>5 DEF IsGreatest
  <1> QED
    BY <1>6 DEF x, y

\* The values of a field.
Values(docs, field) == {Find!Field(d, field) : d \in docs}

\* What one database answers of documents that all have the field.
LEMMA AggregateIs ==
    ASSUME NEW docs, IsFiniteSet(docs), NEW field, \A d \in docs : Find!Field(d, field) \in Nat
    PROVE  IF docs = {} THEN \A fn \in {"MIN", "MAX", "SUM", "AVERAGE"} : Find!Aggregate(fn, field, docs) = Null
           ELSE LET average == Find!Aggregate("AVERAGE", field, docs)
                IN /\ IsLeast(Find!Aggregate("MIN", field, docs), Values(docs, field))
                   /\ IsGreatest(Find!Aggregate("MAX", field, docs), Values(docs, field))
                   /\ IsFiniteSet(Units(docs, field))
                   /\ Find!Aggregate("SUM", field, docs) = Cardinality(Units(docs, field))
                   /\ average \in Nat \X (Nat \ {0})
                   /\ \A least, greatest \in Nat :
                         (\A v \in Values(docs, field) : least <= v /\ v <= greatest) =>
                             average[2] * least <= average[1] /\ average[1] <= average[2] * greatest
  <1> DEFINE V == Values(docs, field)
             all == {d \in docs : Find!Field(d, field) # Null}
             present == Find!SetToSeq(all)
             sum == Find!Total([i \in DOMAIN present |-> present[i][field]])
  <1>1. all = docs
    BY QueriesAssumption
  <1>2. /\ Elements(present) = docs /\ Len(present) = Cardinality(docs) /\ Cardinality(docs) \in Nat
        /\ DOMAIN present = 1..Cardinality(docs) /\ present \in [1..Cardinality(docs) -> docs]
    BY <1>1, Enumerates
  <1>3. /\ Find!Aggregate("MIN", field, docs)
              = IF docs = {} THEN Null ELSE CHOOSE v \in V : \A w \in V : ~Find!AqlLess(w, v)
        /\ Find!Aggregate("MAX", field, docs)
              = IF docs = {} THEN Null ELSE CHOOSE v \in V : \A w \in V : ~Find!AqlLess(v, w)
        /\ Find!Aggregate("SUM", field, docs) = IF present = <<>> THEN Null ELSE sum
        /\ Find!Aggregate("AVERAGE", field, docs) = IF present = <<>> THEN Null ELSE <<sum, Len(present)>>
    BY DEF Find!Aggregate, Values
  <1>4. present = <<>> <=> docs = {}
    BY <1>2 DEF Elements
  <1>5. CASE docs = {}
    BY <1>3, <1>4, <1>5
  <1>6. CASE docs # {}
    <2>1. V \in SUBSET Nat /\ V # {} /\ IsFiniteSet(V)
      <3> DEFINE f == [d \in docs |-> Find!Field(d, field)]
      <3>1. V = {f[d] : d \in docs}
        BY DEF Values
      <3> HIDE DEF f
      <3>2. IsFiniteSet({f[d] : d \in docs})
        BY FiniteImage
      <3> QED
        BY <1>6, <3>1, <3>2 DEF Values
    <2>2. /\ IsFiniteSet(Units(docs, field)) /\ sum = Cardinality(Units(docs, field))
      BY <1>1, SumIs
    <2>3. sum \in Nat
      BY <2>2, FS_CardinalityType
    <2>4. Len(present) \in Nat \ {0}
      BY <1>2, <1>4, <1>6
    <2> DEFINE average == Find!Aggregate("AVERAGE", field, docs)
    <2>5. average = <<sum, Len(present)>>
      BY <1>3, <1>4, <1>6
    <2>6. ASSUME NEW least \in Nat, NEW greatest \in Nat, \A v \in V : least <= v /\ v <= greatest
          PROVE  Len(present) * least <= sum /\ sum <= Len(present) * greatest
      <3>1. \A d \in docs : /\ Find!Field(d, field) \in Nat
                            /\ least <= Find!Field(d, field) /\ Find!Field(d, field) <= greatest
        BY <2>6 DEF Values
      <3>2. present = Find!SetToSeq(docs) /\ sum = Find!Total([i \in DOMAIN present |-> present[i][field]])
        BY <1>1
      <3> HIDE DEF present, sum
      <3> QED
        BY <3>1, <3>2, SumBetween
    <2> HIDE DEF average, sum, present
    <2>7. average \in Nat \X (Nat \ {0}) /\ average[1] = sum /\ average[2] = Len(present)
      BY <2>3, <2>4, <2>5
    <2>8. /\ IsLeast(Find!Aggregate("MIN", field, docs), V)
          /\ IsGreatest(Find!Aggregate("MAX", field, docs), V)
      <3> HIDE DEF V
      <3> QED
        BY <1>3, <1>6, <2>1, ChosenLeast, ChosenGreatest
    <2>9. Find!Aggregate("SUM", field, docs) = Cardinality(Units(docs, field))
      BY <1>3, <1>4, <1>6, <2>2
    <2> HIDE DEF V
    <2> QED
      BY <1>6, <2>2, <2>6, <2>7, <2>8, <2>9 DEF average, V
  <1> QED
    BY <1>5, <1>6

\* There is one least number, and one greatest.
LEMMA OneLeast ==
    ASSUME NEW V \in SUBSET Nat, NEW x, NEW y, \/ IsLeast(x, V) /\ IsLeast(y, V)
                                               \/ IsGreatest(x, V) /\ IsGreatest(y, V)
    PROVE  x = y
  <1>1. x \in Nat /\ y \in Nat
    BY DEF IsLeast, IsGreatest
  <1> QED
    BY <1>1 DEF IsLeast, IsGreatest

\* What holds of the documents of each database holds of all.
LEMMA OfAll ==
    ASSUME NEW n \in Nat, NEW A, \A k \in 1..n : IsFiniteSet(A[k]),
           NEW field, \A k \in 1..n : \A d \in A[k] : Find!Field(d, field) \in Nat,
           Together(A, n) # {}, NEW all, all = Together(A, n)
    PROVE  /\ IsFiniteSet(all) /\ \A d \in all : Find!Field(d, field) \in Nat
           /\ Values(all, field) \in SUBSET Nat
           /\ IsLeast(Find!Aggregate("MIN", field, all), Values(all, field))
           /\ IsGreatest(Find!Aggregate("MAX", field, all), Values(all, field))
           /\ \E k \in 1..n : A[k] # {}
           /\ \A k \in 1..n : Values(A[k], field) \subseteq Values(all, field)
           /\ \A v \in Values(all, field) : \E k \in 1..n : A[k] # {} /\ v \in Values(A[k], field)
  <1>1. IsFiniteSet(all)
    <2> DEFINE sets == {A[k] : k \in 1..n}
    <2>1. IsFiniteSet(1..n)
      <3>1. n \in Int /\ 1 \in Int
        OBVIOUS
      <3> QED
        BY <3>1, FS_Interval
    <2>2. IsFiniteSet(sets)
      BY <2>1, FiniteImage
    <2>3. \A s \in sets : IsFiniteSet(s)
      OBVIOUS
    <2> HIDE DEF sets
    <2>4. IsFiniteSet(UNION sets)
      BY <2>2, <2>3, FS_UNION
    <2> QED
      BY <2>4 DEF sets, Together
  <1>2. \A d \in all : Find!Field(d, field) \in Nat
    BY DEF Together
  <1>3. Values(all, field) \in SUBSET Nat
    BY <1>2 DEF Values
  <1>4. /\ IsLeast(Find!Aggregate("MIN", field, all), Values(all, field))
        /\ IsGreatest(Find!Aggregate("MAX", field, all), Values(all, field))
    BY <1>1, <1>2, AggregateIs
  <1>5. \E k \in 1..n : A[k] # {}
    BY DEF Together
  <1>6. \A k \in 1..n : Values(A[k], field) \subseteq Values(all, field)
    BY DEF Values, Together
  <1>7. \A v \in Values(all, field) : \E k \in 1..n : A[k] # {} /\ v \in Values(A[k], field)
    BY DEF Values, Together
  <1> QED
    BY <1>1, <1>2, <1>3, <1>4, <1>5, <1>6, <1>7

\* What is given is kept, and nothing else.
LEMMA GivenIs ==
    ASSUME NEW S, Null \notin S, NEW n \in Nat, NEW values, values \in [1..n -> S \cup {Null}],
           NEW given, given = Given(values)
    PROVE  /\ Len(given) \in Nat /\ given \in [1..Len(given) -> S]
           /\ Find!ToSet(given) = {values[i] : i \in 1..n} \ {Null}
           /\ given = <<>> <=> \A i \in 1..n : values[i] = Null
  <1> DEFINE places == {k \in DOMAIN values : values[k] # Null}
             T == S \cup {Null}
  <1>1. values \in Seq(T) /\ DOMAIN values = 1..n
    OBVIOUS
  <1>2. given = Find!Kept(values, places)
    BY DEF Given
  <1>3. \A i \in DOMAIN values \cap places : i \in 1..n /\ values[i] # Null
    OBVIOUS
  <1>4. \A i \in 1..n : values[i] # Null => i \in DOMAIN values \cap places
    OBVIOUS
  <1> HIDE DEF places, T
  <1>5. /\ given \in Seq(T)
        /\ \A a \in DOMAIN given : \E i \in DOMAIN values \cap places : given[a] = values[i]
        /\ \A i \in DOMAIN values \cap places : \E a \in DOMAIN given : given[a] = values[i]
    <2> DEFINE s == values
               kept == Find!Kept(s, places)
    <2>1. s \in Seq(T)
      BY <1>1
    <2> HIDE DEF s
    <2>2. /\ kept \in Seq(T)
          /\ \A a \in DOMAIN kept : \E i \in DOMAIN s \cap places : kept[a] = s[i]
          /\ \A i \in DOMAIN s \cap places : \E a \in DOMAIN kept : kept[a] = s[i]
      BY <2>1, KeptOf
    <2>3. given = kept
      BY <1>2 DEF s
    <2> HIDE DEF kept
    <2> QED
      BY <2>2, <2>3 DEF s
  <1>6. Len(given) \in Nat /\ DOMAIN given = 1..Len(given) /\ given \in [1..Len(given) -> T]
    BY <1>5
  <1>7. \A a \in DOMAIN given : given[a] \in S
    BY <1>3, <1>5, <1>6 DEF T
  <1>8. given \in [1..Len(given) -> S]
    BY <1>6, <1>7
  <1>9. Find!ToSet(given) = {values[i] : i \in 1..n} \ {Null}
    BY <1>3, <1>4, <1>5 DEF Find!ToSet
  <1>10. given = <<>> <=> DOMAIN given = {}
    BY <1>6
  <1>11. given = <<>> <=> \A i \in 1..n : values[i] = Null
    BY <1>3, <1>4, <1>5, <1>10
  <1> QED
    BY <1>6, <1>8, <1>9, <1>11

\* An answer for one field is of all documents, see AggregatesWhole of CollectionQuery.
WholeField(fn, field, docs, answer) ==
    IF fn = "COUNT" THEN answer = Cardinality(docs)
    ELSE docs # {} /\ (\A d \in docs : Find!Field(d, field) # Null) =>
            IF fn = "AVERAGE"
            THEN Find!Aggregate("MIN", field, docs) <= answer /\ answer <= Find!Aggregate("MAX", field, docs)
            ELSE answer = Find!Aggregate(fn, field, docs)

\* The answers of databases for a field.
Answers(fn, field, A, n) == [k \in 1..n |-> Find!Aggregate(fn, field, A[k])]

\* The numbers of the documents of databases are counted together.
LEMMA CountIsWhole ==
    ASSUME NEW n \in Nat \ {0}, NEW A, \A k \in 1..n : IsFiniteSet(A[k]),
           \A i, k \in 1..n : i # k => A[i] \cap A[k] = {}, NEW field
    PROVE  WholeField("COUNT", field, Together(A, n), Find!ReduceValues("COUNT", Given(Answers("COUNT", field, A, n))))
  <1> DEFINE values == Answers("COUNT", field, A, n)
             given == Given(values)
  <1>1. \A k \in 1..n : values[k] = Cardinality(A[k]) /\ Cardinality(A[k]) \in Nat
    BY SameCardinality, FS_CardinalityType DEF Answers, Find!Aggregate
  <1>2. values \in [1..n -> Nat] /\ \A k \in 1..n : values[k] # Null
    BY <1>1, QueriesAssumption DEF Answers
  <1>3. values \in [1..n -> Nat \cup {Null}]
    BY <1>2
  <1> HIDE DEF values
  <1>4. given # <<>>
    <2> DEFINE S == Nat
    <2>1. Null \notin S /\ 1 \in 1..n /\ values \in [1..n -> S \cup {Null}] /\ n \in Nat
      BY <1>3, QueriesAssumption
    <2>2. given = <<>> <=> \A i \in 1..n : values[i] = Null
      <3> HIDE DEF S
      <3> QED
        BY <2>1, GivenIs
    <2> QED
      BY <1>2, <2>1, <2>2
  <1>5. Find!Total(given) = Cardinality(Together(A, n))
    BY <1>1, <1>2, <1>3, KeptTotal
  <1>6. Find!ReduceValues("COUNT", given) = Find!Total(given)
    BY <1>4 DEF Find!ReduceValues
  <1> QED
    BY <1>5, <1>6 DEF WholeField, values

\* So are their sums, units as they are of documents.
LEMMA SumIsWhole ==
    ASSUME NEW n \in Nat, NEW A, \A k \in 1..n : IsFiniteSet(A[k]),
           \A i, k \in 1..n : i # k => A[i] \cap A[k] = {},
           NEW field, \A k \in 1..n : \A d \in A[k] : Find!Field(d, field) \in Nat
    PROVE  WholeField("SUM", field, Together(A, n), Find!ReduceValues("SUM", Given(Answers("SUM", field, A, n))))
  <1> DEFINE values == Answers("SUM", field, A, n)
             given == Given(values)
             all == Together(A, n)
             U == [k \in 1..n |-> Units(A[k], field)]
  <1>1. ASSUME NEW k \in 1..n
        PROVE  /\ IsFiniteSet(U[k]) /\ Cardinality(U[k]) \in Nat
               /\ IF A[k] = {} THEN values[k] = Null /\ U[k] = {} ELSE values[k] = Cardinality(U[k])
    <2>1. values[k] = Find!Aggregate("SUM", field, A[k])
      BY DEF Answers
    <2>2. CASE A[k] = {}
      <3>1. Units(A[k], field) = {}
        BY <2>2 DEF Units
      <3>2. Find!Aggregate("SUM", field, A[k]) = Null
        BY <2>2, AggregateIs
      <3> QED
        BY <2>1, <2>2, <3>1, <3>2, FS_EmptySet
    <2>3. CASE A[k] # {}
      <3>1. IsFiniteSet(U[k]) /\ values[k] = Cardinality(U[k])
        BY <2>1, <2>3, AggregateIs
      <3> QED
        BY <2>3, <3>1, FS_CardinalityType
    <2> QED
      BY <2>2, <2>3
  <1>2. values \in [1..n -> Nat \cup {Null}]
    BY <1>1 DEF Answers
  <1>3. \A i, k \in 1..n : i # k => U[i] \cap U[k] = {}
    BY DEF Units
  <1>4. Together(U, n) = Units(all, field)
    BY DEF Units, Together
  <1>5. \A k \in 1..n : IF values[k] = Null THEN U[k] = {} ELSE values[k] = Cardinality(U[k])
    <2> TAKE k \in 1..n
    <2> HIDE DEF values, U
    <2> QED
      BY <1>1, QueriesAssumption
  <1> HIDE DEF values, U, all
  <1>6. Find!Total(given) = Cardinality(Units(all, field))
    <2>1. \A k \in 1..n : IsFiniteSet(U[k])
      BY <1>1
    <2>2. Find!Total(Given(values)) = Cardinality(Together(U, n))
      BY <1>2, <1>3, <1>5, <2>1, KeptTotal
    <2> QED
      BY <1>4, <2>2
  <1> SUFFICES ASSUME all # {} PROVE Find!ReduceValues("SUM", given) = Find!Aggregate("SUM", field, all)
    BY DEF WholeField, all, values
  <1>7. given # <<>>
    <2>1. PICK k \in 1..n : A[k] # {}
      BY DEF all, Together
    <2>2. values[k] # Null /\ Null \notin Nat
      BY <1>1, <2>1, QueriesAssumption
    <2> QED
      <3> DEFINE S == Nat
      <3>1. Null \notin S /\ values \in [1..n -> S \cup {Null}]
        BY <1>2, <2>2
      <3>2. given = <<>> <=> \A i \in 1..n : values[i] = Null
        <4> HIDE DEF S
        <4> QED
          BY <3>1, GivenIs
      <3> QED
        BY <2>2, <3>2
  <1>8. Find!ReduceValues("SUM", given) = Find!Total(given)
    BY <1>7 DEF Find!ReduceValues
  <1>9. IsFiniteSet(all) /\ \A d \in all : Find!Field(d, field) \in Nat
    BY OfAll DEF all
  <1>10. Find!Aggregate("SUM", field, all) = Cardinality(Units(all, field))
    BY <1>9, AggregateIs
  <1> QED
    BY <1>6, <1>8, <1>10

\* The least of the least values is the least of all, and the greatest so.
LEMMA ExtremeIsWhole ==
    ASSUME NEW n \in Nat, NEW A, \A k \in 1..n : IsFiniteSet(A[k]),
           NEW field, \A k \in 1..n : \A d \in A[k] : Find!Field(d, field) \in Nat, NEW fn \in {"MIN", "MAX"}
    PROVE  WholeField(fn, field, Together(A, n), Find!ReduceValues(fn, Given(Answers(fn, field, A, n))))
  <1> DEFINE values == Answers(fn, field, A, n)
             given == Given(values)
             all == Together(A, n)
             V == Values(all, field)
             G == Find!ToSet(given)
             x == Find!ReduceValues(fn, given)
             y == Find!Aggregate(fn, field, all)
             Extreme(m, numbers) == IF fn = "MIN" THEN IsLeast(m, numbers) ELSE IsGreatest(m, numbers)
  <1> HIDE DEF all
  <1> SUFFICES ASSUME all # {} PROVE x = y
    BY DEF WholeField, all
  <1>1. /\ V \in SUBSET Nat /\ Extreme(y, V)
        /\ \E k \in 1..n : A[k] # {}
        /\ \A k \in 1..n : Values(A[k], field) \subseteq V
        /\ \A v \in V : \E k \in 1..n : A[k] # {} /\ v \in Values(A[k], field)
    BY OfAll DEF all
  <1>2. ASSUME NEW k \in 1..n
        PROVE  IF A[k] = {} THEN values[k] = Null ELSE Extreme(values[k], Values(A[k], field))
    <2>1. values[k] = Find!Aggregate(fn, field, A[k])
      BY DEF Answers
    <2> QED
      BY <2>1, AggregateIs
  <1>3. \A k \in 1..n : A[k] # {} => values[k] \in Nat /\ values[k] \in V /\ values[k] # Null
    <2> TAKE k \in 1..n
    <2> SUFFICES ASSUME A[k] # {} PROVE values[k] \in V /\ values[k] \in Nat
      BY QueriesAssumption
    <2> QED
      BY <1>1, <1>2 DEF IsLeast, IsGreatest
  <1>4. values \in [1..n -> Nat \cup {Null}]
    BY <1>2, <1>3 DEF Answers
  <1> HIDE DEF values, V, y
  <1>5. G = {values[i] : i \in 1..n} \ {Null} /\ (given = <<>> <=> \A i \in 1..n : values[i] = Null)
    <2> DEFINE S == Nat
    <2>1. Null \notin S /\ values \in [1..n -> S \cup {Null}]
      BY <1>4, QueriesAssumption
    <2> HIDE DEF S, given
    <2> QED
      BY <2>1, GivenIs DEF given
  <1>6. G \in SUBSET Nat /\ G # {} /\ given # <<>>
    BY <1>1, <1>2, <1>3, <1>5
  <1>7. IsFiniteSet(G)
    <2>1. IsFiniteSet(1..n)
      BY FS_Interval
    <2>2. IsFiniteSet({values[i] : i \in 1..n})
      BY <2>1, FiniteImage
    <2> QED
      BY <1>5, <2>2, FS_Subset
  <1>8. Extreme(x, G)
    <2>1. x = IF fn = "MIN" THEN CHOOSE v \in G : \A w \in G : v <= w ELSE CHOOSE v \in G : \A w \in G : v >= w
      <3> HIDE DEF given
      <3>1. CASE fn = "MIN"
        BY <1>6, <3>1 DEF Find!ReduceValues
      <3>2. CASE fn = "MAX"
        BY <1>6, <3>2 DEF Find!ReduceValues
      <3> QED
        BY <3>1, <3>2
    <2> HIDE DEF x, G
    <2> QED
      BY <1>6, <1>7, <2>1, ChosenLeast, ChosenGreatest
  <1> HIDE DEF x, G, given
  <1>9. x \in V
    BY <1>1, <1>2, <1>3, <1>5, <1>8 DEF IsLeast, IsGreatest
  <1>10. ASSUME NEW v \in V PROVE IF fn = "MIN" THEN x <= v ELSE v <= x
    <2>1. PICK k \in 1..n : A[k] # {} /\ v \in Values(A[k], field)
      BY <1>1
    <2>2. values[k] \in G /\ values[k] \in Nat /\ x \in Nat /\ v \in Nat
      BY <1>1, <1>3, <1>5, <1>9, <2>1
    <2>3. IF fn = "MIN" THEN x <= values[k] /\ values[k] <= v ELSE values[k] <= x /\ v <= values[k]
      BY <1>2, <1>8, <2>1, <2>2 DEF IsLeast, IsGreatest
    <2> QED
      BY <2>2, <2>3
  <1>11. Extreme(x, V)
    BY <1>9, <1>10 DEF IsLeast, IsGreatest
  <1> QED
    BY <1>1, <1>11, OneLeast

\* The mean of averages is between the least and the greatest value.
LEMMA AverageIsWhole ==
    ASSUME NEW n \in Nat, NEW A, \A k \in 1..n : IsFiniteSet(A[k]),
           NEW field, \A k \in 1..n : \A d \in A[k] : Find!Field(d, field) \in Nat
    PROVE  WholeField("AVERAGE", field, Together(A, n), Find!ReduceValues("AVERAGE", Given(Answers("AVERAGE", field, A, n))))
  <1> DEFINE values == Answers("AVERAGE", field, A, n)
             given == Given(values)
             all == Together(A, n)
             V == Values(all, field)
             S == Nat \X (Nat \ {0})
             least == Find!Aggregate("MIN", field, all)
             greatest == Find!Aggregate("MAX", field, all)
             Between(v) == v[2] * least <= v[1] /\ v[1] <= v[2] * greatest
  <1> HIDE DEF all
  <1> SUFFICES ASSUME all # {}
               PROVE  LET x == Find!ReduceValues("AVERAGE", given) IN least <= x /\ x <= greatest
    BY DEF WholeField, all
  <1>1. /\ V \in SUBSET Nat /\ IsLeast(least, V) /\ IsGreatest(greatest, V)
        /\ \E k \in 1..n : A[k] # {}
        /\ \A k \in 1..n : Values(A[k], field) \subseteq V
    BY OfAll DEF all
  <1> HIDE DEF least, greatest, V
  <1>2. least \in Nat /\ greatest \in Nat /\ \A v \in V : least <= v /\ v <= greatest
    BY <1>1 DEF IsLeast, IsGreatest
  <1>3. ASSUME NEW k \in 1..n
        PROVE  IF A[k] = {} THEN values[k] = Null ELSE values[k] \in S /\ Between(values[k])
    <2>1. values[k] = Find!Aggregate("AVERAGE", field, A[k])
      BY DEF Answers
    <2>2. \A v \in Values(A[k], field) : least <= v /\ v <= greatest
      BY <1>1, <1>2
    <2>3. CASE A[k] = {}
      BY <2>1, <2>3, AggregateIs
    <2>4. CASE A[k] # {}
      <3> DEFINE average == Find!Aggregate("AVERAGE", field, A[k])
      <3>1. /\ average \in S
            /\ \A low, high \in Nat :
                  (\A v \in Values(A[k], field) : low <= v /\ v <= high) =>
                      average[2] * low <= average[1] /\ average[1] <= average[2] * high
        BY <2>4, AggregateIs
      <3> HIDE DEF average, S
      <3>2. average[2] * least <= average[1] /\ average[1] <= average[2] * greatest
        BY <1>2, <2>2, <3>1
      <3> QED
        BY <2>1, <2>4, <3>1, <3>2 DEF average
    <2> QED
      BY <2>3, <2>4
  <1>4. Null \notin S /\ values \in [1..n -> S \cup {Null}]
    <2>1. Null \notin S
      BY QueriesAssumption
    <2>2. \A k \in 1..n : values[k] \in S \cup {Null}
      BY <1>3
    <2> HIDE DEF S
    <2> QED
      BY <2>1, <2>2 DEF Answers
  <1> HIDE DEF values, S, Between
  <1>5. /\ Len(given) \in Nat /\ given \in [1..Len(given) -> S]
        /\ Find!ToSet(given) = {values[i] : i \in 1..n} \ {Null}
        /\ given = <<>> <=> \A i \in 1..n : values[i] = Null
    BY <1>4, GivenIs
  <1> HIDE DEF given
  <1> DEFINE m == Len(given)
  <1>6. given # <<>>
    BY <1>1, <1>3, <1>4, <1>5
  <1>7. m \in Nat \ {0} /\ DOMAIN given = 1..m
    BY <1>5, <1>6
  <1>8. \A a \in 1..m : Between(given[a])
    <2> TAKE a \in 1..m
    <2>1. given[a] \in Find!ToSet(given)
      BY <1>7 DEF Find!ToSet
    <2>2. PICK i \in 1..n : given[a] = values[i] /\ values[i] # Null
      BY <1>5, <2>1
    <2> QED
      BY <1>3, <2>2
  <1> HIDE DEF m
  <1>9. least <= Find!Mean(given) /\ Find!Mean(given) <= greatest
    <2>1. /\ given \in [1..m -> Nat \X (Nat \ {0})]
          /\ \A a \in 1..m : given[a][2] * least <= given[a][1] /\ given[a][1] <= given[a][2] * greatest
      BY <1>5, <1>8 DEF S, Between, m
    <2> QED
      BY <1>2, <1>7, <2>1, MeanBetween
  <1>10. Find!ReduceValues("AVERAGE", given) = Find!Mean(given)
    BY <1>6 DEF Find!ReduceValues
  <1> QED
    BY <1>9, <1>10

\* What a database answers to an aggregation.
Summed(q, selection, docs) ==
    [i \in DOMAIN q.fields |-> Find!Aggregate(q.fields[i].fn, q.fields[i].field, Matching(q, selection, docs))]

\* It is of documents that may be aggregated.
IsSummed(q, selection, docs, result) ==
    docs \subseteq AllOf(q.coll) /\ IsFiniteSet(docs) /\ result = Summed(q, selection, docs)

\* What an answer is, see AggregatesWhole of CollectionQuery.
IsWhole(q, selection, docs, answer) ==
    LET matching == Matching(q, selection, Held(docs))
        inOne == \A d \in matching : Find!Cardinality({db \in 1..Databases : d \in docs[db]}) = 1
    IN \A i \in DOMAIN q.fields : inOne => WholeField(q.fields[i].fn, q.fields[i].field, matching, answer[i])

\* An answer for a field is of all, whatever is asked of it.
LEMMA FieldIsWhole ==
    ASSUME NEW n \in Nat \ {0}, NEW A, \A k \in 1..n : IsFiniteSet(A[k]),
           \A i, k \in 1..n : i # k => A[i] \cap A[k] = {},
           NEW fn \in {"COUNT", "MIN", "MAX", "SUM", "AVERAGE"}, NEW field,
           fn # "COUNT" => \A d \in Together(A, n) : Find!Field(d, field) \in Nat \cup {Null}
    PROVE  WholeField(fn, field, Together(A, n), Find!ReduceValues(fn, Given(Answers(fn, field, A, n))))
  <1>1. CASE fn = "COUNT"
    BY <1>1, CountIsWhole
  <1>2. CASE fn # "COUNT" /\ \A d \in Together(A, n) : Find!Field(d, field) # Null
    <2>1. \A d \in Together(A, n) : Find!Field(d, field) \in Nat
      BY <1>2
    <2>2. \A k \in 1..n : \A d \in A[k] : Find!Field(d, field) \in Nat
      BY <2>1 DEF Together
    <2>3. n \in Nat
      OBVIOUS
    <2>4. CASE fn = "SUM"
      BY <2>2, <2>3, <2>4, SumIsWhole
    <2>5. CASE fn \in {"MIN", "MAX"}
      BY <2>2, <2>3, <2>5, ExtremeIsWhole
    <2>6. CASE fn = "AVERAGE"
      BY <2>2, <2>3, <2>6, AverageIsWhole
    <2> QED
      BY <1>2, <2>4, <2>5, <2>6
  <1>3. CASE fn # "COUNT" /\ ~\A d \in Together(A, n) : Find!Field(d, field) # Null
    BY <1>3 DEF WholeField
  <1> QED
    BY <1>1, <1>2, <1>3

\* What the databases answer, reduced, is of all their documents.
LEMMA ReducedIsWhole ==
    ASSUME NEW q, IsAggregation(q.fields, q.coll), NEW selection, NEW docs, NEW results,
           IsSeq(results), DOMAIN results = 1..Databases,
           \A db \in 1..Databases : IsSummed(q, selection, docs[db], results[db])
    PROVE  IsWhole(q, selection, docs, Find!ReduceResults(results, q.fields))
  <1> DEFINE matching == Matching(q, selection, Held(docs))
             A == [db \in 1..Databases |-> Matching(q, selection, docs[db])]
             answer == Find!ReduceResults(results, q.fields)
  <1> SUFFICES ASSUME NEW i \in DOMAIN q.fields,
                      \A d \in matching : Find!Cardinality({db \in 1..Databases : d \in docs[db]}) = 1
               PROVE  WholeField(q.fields[i].fn, q.fields[i].field, matching, answer[i])
    BY DEF IsWhole
  <1> DEFINE fn == q.fields[i].fn
             field == q.fields[i].field
  <1>1. Together(A, Databases) = matching
    BY DEF Together, Matching, Held
  <1>2. \A db \in 1..Databases : IsFiniteSet(A[db])
    <2> TAKE db \in 1..Databases
    <2>1. IsFiniteSet(docs[db]) /\ A[db] \subseteq docs[db]
      BY DEF IsSummed, Matching
    <2> QED
      BY <2>1, FS_Subset
  <1>3. ASSUME NEW j \in 1..Databases, NEW k \in 1..Databases, j # k PROVE A[j] \cap A[k] = {}
    <2> SUFFICES ASSUME NEW d \in A[j], d \in A[k] PROVE FALSE
      OBVIOUS
    <2> DEFINE holding == {db \in 1..Databases : d \in docs[db]}
    <2>1. d \in matching /\ j \in holding /\ k \in holding
      BY DEF Matching, Held
    <2>2. Cardinality(holding) = 1
      BY <2>1, SameCardinality
    <2>3. IsFiniteSet(holding)
      <3>1. Databases \in Int /\ 1 \in Int
        BY QueriesAssumption
      <3>2. IsFiniteSet(1..Databases)
        BY <3>1, FS_Interval
      <3> QED
        BY <3>2, FS_Subset
    <2> HIDE DEF holding
    <2>4. PICK x : holding = {x}
      BY <2>2, <2>3, FS_Singleton
    <2> QED
      BY <1>3, <2>1, <2>4
  <1>4. /\ fn \in {"COUNT", "MIN", "MAX", "SUM", "AVERAGE"}
        /\ fn # "COUNT" => \A d \in matching : Find!Field(d, field) \in Nat \cup {Null}
    <2>1. \A d \in matching : d \in AllOf(q.coll)
      BY DEF Matching, Held, IsSummed
    <2> HIDE DEF matching
    <2> QED
      BY <2>1 DEF IsAggregation
  <1>5. answer[i] = Find!ReduceValues(fn, Given(Answers(fn, field, A, Databases)))
    <2> DEFINE values == [k \in DOMAIN results |-> results[k][i]]
    <2>1. answer[i] = Find!ReduceValues(fn, Find!Kept(values, {k \in DOMAIN values : values[k] # Null}))
      BY DEF Find!ReduceResults
    <2>2. values = Answers(fn, field, A, Databases)
      <3>1. \A k \in 1..Databases : results[k][i] = Find!Aggregate(fn, field, A[k])
        BY DEF IsSummed, Summed
      <3> QED
        BY <3>1 DEF Answers
    <2> HIDE DEF values, answer
    <2> QED
      BY <2>1, <2>2, Zenon DEF Given
  <1> HIDE DEF A, matching, answer, fn, field
  <1>6. WholeField(fn, field, Together(A, Databases), answer[i])
    <2>1. Databases \in Nat \ {0}
      BY QueriesAssumption
    <2> QED
      BY <1>1, <1>2, <1>3, <1>4, <1>5, <2>1, FieldIsWhole
  <1> QED
    BY <1>1, <1>6 DEF fn, field

-----------------------------------------------------------------------------
(* Aggregations of several databases *)

\* Databases have answered an aggregation by what they held.
SumsRead(r) ==
    \A db \in 1..Databases : reads[r][db] # Null /\ asked[r].fields # <<>> =>
        IsSummed(asked[r], filter[r], seen[r][db], reads[r][db])

\* An aggregation is the last of its request.
SumsRight(r) ==
    aggregated[r] # Null => /\ phase[r] = "answered"
                            /\ IsWhole(asked[r], filter[r], fetch[r].docs, aggregated[r])

SumInv == DOMAIN aggregated = Request /\ \A r \in Request : SumsRead(r) /\ SumsRight(r)

\* At first nothing is aggregated.
LEMMA SumInit == ASSUME Init PROVE SumInv
  <1>1. DOMAIN aggregated = Request /\ \A r \in Request : reads[r] = Find!NoReads /\ aggregated[r] = Null
    BY DEF Init, Find!Init
  <1> QED
    BY <1>1, NoReadsIs DEF SumInv, SumsRead, SumsRight

\* What stays of a request stays right; without reads or an answer there is nothing to be right.
LEMMA SumStays ==
    ASSUME NEW r \in Request, SumsRead(r), SumsRight(r), aggregated'[r] = aggregated[r],
           \/ reads'[r] = Find!NoReads
           \/ asked'[r] = asked[r] /\ filter'[r] = filter[r] /\ reads'[r] = reads[r] /\ seen'[r] = seen[r],
           \/ phase[r] # "answered"
           \/ phase'[r] = phase[r] /\ asked'[r] = asked[r] /\ filter'[r] = filter[r] /\ fetch'[r] = fetch[r]
    PROVE  SumsRead(r)' /\ SumsRight(r)'
  <1>1. SumsRead(r)'
    BY NoReadsIs DEF SumsRead
  <1>2. SumsRight(r)'
    BY DEF SumsRight
  <1> QED
    BY <1>1, <1>2

\* Another request is not touched by a step of one.
LEMMA OthersStay ==
    ASSUME SumInv, NEW r \in Request, DOMAIN aggregated' = Request, SumsRead(r)', SumsRight(r)',
           \A x \in Request \ {r} : /\ phase'[x] = phase[x] /\ asked'[x] = asked[x] /\ filter'[x] = filter[x]
                                    /\ reads'[x] = reads[x] /\ seen'[x] = seen[x] /\ fetch'[x] = fetch[x]
                                    /\ aggregated'[x] = aggregated[x]
    PROVE  SumInv'
  <1>1. ASSUME NEW x \in Request \ {r} PROVE SumsRead(x)' /\ SumsRight(x)'
    BY SumStays DEF SumInv
  <1> QED
    BY <1>1 DEF SumInv

\* What is fetched is not aggregated.
LEMMA FetchedSum ==
    ASSUME FindInv, SumInv, NEW rs \in SUBSET Request, \A r \in rs : phase[r] = "read", NEW docs,
           Find!Fetched(rs, docs), UNCHANGED <<asked, seen, aggregated>>,
           \A r \in Request \ rs : fetch'[r] = fetch[r]
    PROVE  SumInv'
  <1> DEFINE found == [r \in rs |-> Find!Finished(asked[r], filter[r], docs[r])]
             keyed == {r \in rs : single[r] /\ found[r] # <<>>}
             empty == {r \in rs : single[r] /\ found[r] = <<>>}
  <1>1. /\ phase' = [r \in Request |-> IF r \in keyed THEN "classify" ELSE IF r \in empty THEN "answered"
                                       ELSE IF r \in rs THEN "joins" ELSE phase[r]]
        /\ filter' = [r \in Request |-> IF r \in keyed THEN [id |-> [eq |-> found[r][1]._key]] ELSE filter[r]]
        /\ reads' = [r \in Request |-> IF r \in keyed THEN Find!NoReads ELSE reads[r]]
    BY Zenon DEF Find!Fetched
  <1>2. keyed \subseteq rs /\ empty \subseteq rs
    OBVIOUS
  <1> HIDE DEF keyed, empty, found
  <1>3. ASSUME NEW r \in Request PROVE SumsRead(r)' /\ SumsRight(r)'
    <2>1. \/ reads'[r] = Find!NoReads
          \/ filter'[r] = filter[r] /\ reads'[r] = reads[r]
      BY <1>1
    <2>2. r \notin rs => phase'[r] = phase[r] /\ filter'[r] = filter[r]
      BY <1>1, <1>2
    <2> QED
      BY <2>1, <2>2, SumStays DEF SumInv
  <1> QED
    BY <1>3 DEF SumInv

\* A query is asked: it has no answers.
LEMMA AskSum ==
    ASSUME FindInv, SumInv, NEW r \in Request, Find!Ask(r)
    PROVE  SumInv'
  <1>1. phase[r] = "idle" /\ UNCHANGED <<reads, seen, fetch, aggregated>>
    BY DEF Find!Ask, Find!results, Find!answers
  <1>2. \A x \in Request \ {r} : phase'[x] = phase[x] /\ asked'[x] = asked[x] /\ filter'[x] = filter[x]
    BY DEF Find!Ask, FindInv, FindDomains
  <1>3. reads[r] = Find!NoReads /\ SumsRead(r) /\ SumsRight(r) /\ DOMAIN aggregated = Request
    BY <1>1 DEF FindInv, ReadRight, SumInv
  <1>4. SumsRead(r)' /\ SumsRight(r)'
    BY <1>1, <1>3, SumStays
  <1> QED
    BY <1>1, <1>2, <1>3, <1>4, OthersStay

\* So does a step to another phase, after which there may be no reads.
LEMMA PhaseSum ==
    ASSUME FindInv, BestInv, SumInv, NEW r \in Request,
           \/ Find!Classify(r) \/ Find!Refreshed(r) \/ Find!Answer(r) \/ Find!DatabaseFails(r)
    PROVE  SumInv'
  <1>1. phase[r] # "answered" /\ UNCHANGED <<asked, filter, fetch, aggregated>>
    BY DEF Find!Classify, Find!Refreshed, Find!Answer, Find!DatabaseFails, Find!arguments, Find!answers
  <1>2. FindDomains /\ BestDomains /\ SumsRead(r) /\ SumsRight(r) /\ DOMAIN aggregated = Request
    BY DEF FindInv, BestInv, SumInv
  <1>3. \E to : phase' = [phase EXCEPT ![r] = to]
    BY Zenon DEF Find!Classify, Find!Refreshed, Find!Classified, Find!Answer, Find!DatabaseFails
  <1>4. \/ UNCHANGED <<reads, seen>>
        \/ reads' = [reads EXCEPT ![r] = Find!NoReads] /\ seen' = [seen EXCEPT ![r] = Find!Nothing]
    BY DEF Find!Classify, Find!Refreshed, Find!Answer, Find!DatabaseFails, Find!results
  <1>5. \A x \in Request \ {r} : phase'[x] = phase[x] /\ reads'[x] = reads[x] /\ seen'[x] = seen[x]
    BY <1>2, <1>3, <1>4 DEF FindDomains, BestDomains
  <1>6. reads'[r] = Find!NoReads \/ (reads'[r] = reads[r] /\ seen'[r] = seen[r])
    <2>1. CASE UNCHANGED <<reads, seen>>
      BY <2>1
    <2>2. CASE reads' = [reads EXCEPT ![r] = Find!NoReads]
      <3>1. reads'[r] = Find!NoReads
        BY <1>2, <2>2 DEF FindDomains
      <3> QED
        BY <3>1
    <2> QED
      BY <1>4, <2>1, <2>2
  <1>7. SumsRead(r)' /\ SumsRight(r)'
    BY <1>1, <1>2, <1>6, SumStays
  <1> QED
    BY <1>1, <1>2, <1>5, <1>7, OthersStay

\* A database answers an aggregation by what it holds.
LEMMA ReadSum ==
    ASSUME FindInv, BestInv, SumInv, NEW r \in Request, NEW db \in 1..Databases, Find!Read(r, db)
    PROVE  SumInv'
  <1> DEFINE q == asked[r]
             docs == {d \in stored[db] : d.coll = q.coll}
             selected == {d \in docs : Matches(Types[q.coll], filter[r], d)}
  <1>1. phase[r] = "read" /\ UNCHANGED <<asked, filter, fetch, phase, aggregated>>
    BY DEF Find!Read, Find!arguments, Find!answers
  <1>2. PICK result : /\ reads' = [reads EXCEPT ![r][db] = result]
                      /\ q.fields # <<>> => result = [i \in DOMAIN q.fields |->
                                                        Find!Aggregate(q.fields[i].fn, q.fields[i].field, selected)]
    BY DEF Find!Read
  <1>3. seen' = [seen EXCEPT ![r][db] = docs]
    BY DEF Find!Read
  <1>4. FindDomains /\ BestDomains /\ ReadRight(r) /\ SumsRead(r) /\ SumsRight(r) /\ DOMAIN aggregated = Request
    BY DEF FindInv, BestInv, SumInv
  <1>5. docs \subseteq AllOf(q.coll)
    BY <1>1, UnderWay DEF BestInv, StoredRight
  <1>6. IsFiniteSet(docs)
    <2>1. IsFiniteSet(stored[db])
      BY DEF FindInv, AreDocuments
    <2> QED
      BY <2>1, FS_Subset
  <1>7. selected = Matching(q, filter[r], docs)
    BY DEF Matching
  <1> HIDE DEF docs, selected
  <1>8. q.fields # <<>> => IsSummed(q, filter[r], docs, result)
    BY <1>2, <1>5, <1>6, <1>7 DEF IsSummed, Summed
  <1>9. \A i \in 1..Databases : /\ reads'[r][i] = IF i = db THEN result ELSE reads[r][i]
                                /\ seen'[r][i] = IF i = db THEN docs ELSE seen[r][i]
    BY <1>2, <1>3, <1>4 DEF ReadRight, BestDomains, FindDomains
  <1>10. SumsRead(r)'
    <2> SUFFICES ASSUME NEW i \in 1..Databases, reads'[r][i] # Null, q.fields # <<>>
                 PROVE  IsSummed(q, filter[r], seen'[r][i], reads'[r][i])
      BY <1>1 DEF SumsRead, IsSummed, Summed, Matching
    <2> HIDE DEF q
    <2> QED
      BY <1>4, <1>8, <1>9 DEF SumsRead, q
  <1>11. SumsRight(r)'
    BY <1>1, <1>4 DEF SumsRight
  <1>12. \A x \in Request \ {r} : reads'[x] = reads[x] /\ seen'[x] = seen[x]
    BY <1>2, <1>3, <1>4 DEF BestDomains, FindDomains
  <1> QED
    BY <1>1, <1>4, <1>10, <1>11, <1>12, OthersStay

\* All answers of databases are reduced to one.
LEMMA ReduceSum ==
    ASSUME FindInv, BestInv, SumInv, NEW r \in Request, Find!Reduce(r)
    PROVE  SumInv'
  <1> DEFINE q == asked[r]
             answer == Find!ReduceResults(reads[r], q.fields)
  <1>1. /\ phase[r] = "read" /\ q.fields # <<>> /\ \A db \in 1..Databases : reads[r][db] # Null
        /\ aggregated' = [aggregated EXCEPT ![r] = answer] /\ fetch' = [fetch EXCEPT ![r] = [docs |-> seen[r]]]
        /\ phase' = [phase EXCEPT ![r] = "answered"] /\ UNCHANGED <<asked, filter, reads, seen>>
    BY DEF Find!Reduce, Find!Database, Find!arguments, Find!results
  <1> HIDE DEF answer
  <1>2. FindDomains /\ BestDomains /\ ReadRight(r) /\ SumsRead(r) /\ DOMAIN aggregated = Request
    BY DEF FindInv, BestInv, SumInv
  <1>3. IsAggregation(q.fields, q.coll)
    <2>1. q \in Asks[r]
      BY <1>1, UnderWay
    <2> QED
      BY <2>1, QueriesAssumption
  <1>4. IsWhole(q, filter[r], seen[r], answer)
    <2>1. IsSeq(reads[r]) /\ DOMAIN reads[r] = 1..Databases
      BY <1>2 DEF ReadRight
    <2>2. \A db \in 1..Databases : IsSummed(q, filter[r], seen[r][db], reads[r][db])
      BY <1>1, <1>2 DEF SumsRead
    <2> HIDE DEF q
    <2> QED
      BY <1>3, <2>1, <2>2, ReducedIsWhole DEF answer
  <1>5. aggregated'[r] = answer /\ fetch'[r].docs = seen[r] /\ phase'[r] = "answered"
        /\ asked'[r] = q /\ filter'[r] = filter[r]
    BY <1>1, <1>2 DEF FindDomains, BestDomains
  <1>6. SumsRight(r)'
    <2>1. IsWhole(asked[r], filter[r], fetch[r].docs, aggregated[r])' <=> IsWhole(q, filter[r], seen[r], answer)
      BY <1>5 DEF IsWhole, WholeField, Matching, Held
    <2> QED
      BY <1>4, <1>5, <2>1 DEF SumsRight
  <1>7. SumsRead(r)'
    BY <1>1, <1>2 DEF SumsRead, IsSummed, Summed, Matching
  <1>8. \A x \in Request \ {r} : aggregated'[x] = aggregated[x] /\ fetch'[x] = fetch[x] /\ phase'[x] = phase[x]
    BY <1>1, <1>2 DEF FindDomains, BestDomains
  <1> QED
    BY <1>1, <1>2, <1>6, <1>7, <1>8, OthersStay

\* What is combined is of queries that aggregate nothing.
LEMMA CombineSum ==
    ASSUME FindInv, SumInv, NEW r \in Request, Find!Combine(r)
    PROVE  SumInv'
  <1>1. phase[r] = "read" /\ UNCHANGED <<asked, seen, aggregated>> /\ FindDomains
        /\ SumsRead(r) /\ SumsRight(r) /\ DOMAIN aggregated = Request
    BY DEF Find!Combine, FindInv, SumInv
  <1>2. CASE reads' = [reads EXCEPT ![r] = Find!NoReads] /\ UNCHANGED <<phase, filter, orderBy, records, fetch>>
    <2>1. reads'[r] = Find!NoReads /\ \A x \in Request \ {r} : reads'[x] = reads[x]
      BY <1>1, <1>2 DEF FindDomains
    <2>2. SumsRead(r)' /\ SumsRight(r)'
      BY <1>1, <1>2, <2>1, SumStays
    <2> QED
      BY <1>1, <1>2, <2>1, <2>2, OthersStay
  <1> DEFINE combined == Find!CombineResults(reads[r], orderBy[r])
             new == [docs |-> seen[r], filter |-> filter[r], orderBy |-> orderBy[r],
                     records |-> Find!Finished(asked[r], filter[r], combined)]
  <1>3. CASE Find!Fetched({r}, [x \in {r} |-> combined]) /\ fetch' = [fetch EXCEPT ![r] = new]
    <2> HIDE DEF combined, new
    <2> DEFINE docs == [x \in {r} |-> combined]
    <2>1. \A x \in Request \ {r} : fetch'[x] = fetch[x]
      BY <1>3
    <2>2. Find!Fetched({r}, docs) /\ {r} \in SUBSET Request /\ \A x \in {r} : phase[x] = "read"
      BY <1>1, <1>3
    <2> HIDE DEF docs
    <2> QED
      BY <1>1, <2>1, <2>2, FetchedSum
  <1> QED
    BY <1>2, <1>3, Zenon DEF Find!Combine

\* Nor is a query that times out, or that a document of the feed ends, an answer.
LEMMA FeedSum ==
    ASSUME FindInv, BestInv, SumInv,
           \/ \E r \in Request : Find!TimesOut(r)
           \/ \E db \in 1..Databases : \E d \in Arrivals[db] : Find!Write(d, db)
    PROVE  SumInv'
  <1>1. ASSUME NEW r \in Request, Find!TimesOut(r) PROVE SumInv'
    <2>1. phase[r] = "read" /\ UNCHANGED <<asked, seen, aggregated, fetch>> /\ FindDomains
          /\ SumsRead(r) /\ SumsRight(r) /\ DOMAIN aggregated = Request
      BY <1>1 DEF Find!TimesOut, FindInv, SumInv
    <2>2. CASE Find!Fetched({r}, [x \in {r} |-> <<>>])
      <3> DEFINE docs == [x \in {r} |-> <<>>]
      <3>1. Find!Fetched({r}, docs) /\ {r} \in SUBSET Request /\ \A x \in {r} : phase[x] = "read"
        BY <2>1, <2>2
      <3> HIDE DEF docs
      <3> QED
        BY <2>1, <3>1, FetchedSum
    <2>3. CASE phase' = [phase EXCEPT ![r] = "failed"] /\ UNCHANGED <<filter, orderBy, reads>>
      <3>1. \A x \in Request \ {r} : phase'[x] = phase[x]
        BY <2>1, <2>3 DEF FindDomains
      <3>2. SumsRead(r)' /\ SumsRight(r)'
        BY <2>1, <2>3, SumStays
      <3> QED
        BY <2>1, <2>3, <3>1, <3>2, OthersStay
    <2> QED
      BY <1>1, <2>2, <2>3, Zenon DEF Find!TimesOut
  <1>2. ASSUME NEW db \in 1..Databases, NEW d \in Arrivals[db], Find!Write(d, db) PROVE SumInv'
    <2> DEFINE fed == {r \in Request : /\ db = 1 /\ phase[r] = "read" /\ asked[r].waits
                                       /\ asked[r].coll = d.coll
                                       /\ Accepts(Types[d.coll], Null, d, filter[r])}
               docs == [r \in fed |-> <<d>>]
    <2>1. UNCHANGED <<asked, seen, aggregated>>
      BY <1>2 DEF Find!Write
    <2>2. Find!Fetched(fed, docs) /\ fetch' = [r \in Request |-> IF r \in fed THEN Null ELSE fetch[r]]
      BY <1>2, Zenon DEF Find!Write
    <2>3. fed \in SUBSET Request /\ \A r \in fed : phase[r] = "read"
      OBVIOUS
    <2> HIDE DEF fed, docs
    <2>4. \A r \in Request \ fed : fetch'[r] = fetch[r]
      BY <2>2
    <2> QED
      BY <2>1, <2>2, <2>3, <2>4, FetchedSum
  <1> QED
    BY <1>1, <1>2

\* Joins, and changes of indexes, are not of aggregations.
LEMMA SumUnchanged ==
    ASSUME SumInv, UNCHANGED <<phase, asked, filter, reads, seen, fetch, aggregated>>
    PROVE  SumInv'
  <1>1. ASSUME NEW r \in Request PROVE SumsRead(r)' /\ SumsRight(r)'
    BY SumStays DEF SumInv
  <1> QED
    BY <1>1 DEF SumInv

\* Every step keeps it.
LEMMA SumStep ==
    ASSUME Inv, BestInv, SumInv, [Next]_vars
    PROVE  SumInv'
  <1>0. FindInv
    BY DEF Inv
  <1>1. CASE Find!Next
    <2>1. ASSUME NEW r \in Request, Find!Ask(r) PROVE SumInv'
      BY <1>0, <2>1, AskSum
    <2>2. ASSUME NEW r \in Request, Find!Step(r) PROVE SumInv'
      <3>1. ASSUME NEW db \in 1..Databases, Find!Read(r, db) PROVE SumInv'
        BY <1>0, <3>1, ReadSum
      <3> QED
        BY <1>0, <2>2, <3>1, PhaseSum, ReduceSum, CombineSum, FeedSum DEF Find!Step, Find!Database
    <2>3. ASSUME NEW db \in 1..Databases, NEW d \in Arrivals[db], Find!Write(d, db) PROVE SumInv'
      BY <1>0, <2>3, FeedSum
    <2>4. CASE Find!Reindex \/ Find!RefreshIsDue
      BY <2>4, SumUnchanged
      DEF Find!Reindex, Find!RefreshIsDue, Find!database, Find!arguments, Find!results, Find!answers
    <2> QED
      BY <1>1, <2>1, <2>2, <2>3, <2>4 DEF Find!Next, Find!Database
  <1>2. CASE JoinRecords
    <2>1. PICK r \in Request : Join!Step(r)
      BY <1>2 DEF JoinRecords, Join!Next
    <2>2. UNCHANGED asked
      BY <2>1 DEF Join!Step, Join!Begin, Join!LeaveSelection, Join!StartJoin, Join!TimePasses, Join!JoinFails,
                  Join!QueryPortion
    <2> QED
      BY <1>2, <2>2, SumUnchanged DEF JoinRecords, findVars
  <1>3. CASE UNCHANGED vars
    BY <1>3, SumUnchanged DEF vars, findVars
  <1> QED
    BY <1>1, <1>2, <1>3 DEF Next, FindRecords

\* With the invariant, aggregations are of all databases.
LEMMA InvSum == ASSUME SumInv PROVE AggregatesWhole
  <1> SUFFICES ASSUME NEW r \in Request, aggregated[r] # Null,
                      NEW held, held = UNION {fetch[r].docs[db] : db \in Find!Database},
                      NEW docs, docs = {d \in held : Matches(Types[asked[r].coll], filter[r], d)},
                      NEW i \in DOMAIN asked[r].fields,
                      \A d \in docs : Find!Cardinality({db \in Find!Database : d \in fetch[r].docs[db]}) = 1
               PROVE  LET fn == asked[r].fields[i].fn
                          field == asked[r].fields[i].field
                          answer == aggregated[r][i]
                      IN IF fn = "COUNT" THEN answer = Find!Cardinality(docs)
                         ELSE docs # {} /\ (\A d \in docs : Find!Field(d, field) # Null) =>
                                 IF fn = "AVERAGE"
                                 THEN /\ Find!Aggregate("MIN", field, docs) <= answer
                                      /\ answer <= Find!Aggregate("MAX", field, docs)
                                 ELSE answer = Find!Aggregate(fn, field, docs)
    BY Zenon DEF AggregatesWhole, Find!AggregatesWhole
  <1>1. held = Held(fetch[r].docs) /\ docs = Matching(asked[r], filter[r], held)
    BY DEF Held, Find!Database, Matching
  <1>2. IsWhole(asked[r], filter[r], fetch[r].docs, aggregated[r])
    BY DEF SumInv, SumsRight
  <1>3. WholeField(asked[r].fields[i].fn, asked[r].fields[i].field, docs, aggregated[r][i])
    BY <1>1, <1>2 DEF IsWhole, Find!Database
  <1> QED
    BY <1>3, SameCardinality DEF WholeField

\* What several databases answer to an aggregation is reduced to what one database would
\* have answered that held the documents of all, when each is in one of them only:
\* counts, least and greatest values and sums exactly, an average within the values.
THEOREM WholeAggregates == Spec => []AggregatesWhole
  <1>1. Init => Inv /\ BestInv /\ SumInv
    BY FindInit, JoinInit, BestInit, SumInit DEF Inv
  <1>2. Inv /\ BestInv /\ SumInv /\ [Next]_vars => (Inv /\ BestInv /\ SumInv)'
    BY InvStep, BestStep, SumStep
  <1>3. SumInv => AggregatesWhole
    BY InvSum
  <1> QED
    BY <1>1, <1>2, <1>3, PTL DEF Spec

\* Whatever is asked of several databases is answered as by one that holds the documents
\* of all: found as BestFound says, and aggregated as WholeAggregates says.
THEOREM BestAnswers == Spec => []AnswerIsBest
  BY BestFound, WholeAggregates, PTL DEF AnswerIsBest
=============================================================================
