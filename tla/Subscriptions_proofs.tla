-------------------------- MODULE Subscriptions_proofs --------------------------
(***************************************************************************)
(* Proofs about Subscriptions: the feed of a database and the external     *)
(* services, for any collections, starts, clients, failures and limits.    *)
(***************************************************************************)
EXTENDS Subscriptions, TLAPS, FiniteSetTheorems, SequenceTheorems

-----------------------------------------------------------------------------
(* Sequences without repetition *)

\* No element twice.
Distinct(q) == \A i, j \in DOMAIN q : q[i] = q[j] => i = j

\* A new element keeps a sequence without repetition so.
LEMMA AppendDistinct ==
    ASSUME NEW S, NEW q \in Seq(S), NEW x \in S, x \notin Feed!Range(q), Distinct(q)
    PROVE  /\ Append(q, x) \in Seq(S) /\ Distinct(Append(q, x))
           /\ Feed!Range(Append(q, x)) = Feed!Range(q) \cup {x}
  <1>1. /\ Append(q, x) \in Seq(S) /\ Len(q) \in Nat
        /\ DOMAIN q = 1..Len(q) /\ DOMAIN Append(q, x) = 1..(Len(q) + 1)
        /\ Append(q, x)[Len(q) + 1] = x
        /\ \A i \in 1..Len(q) : Append(q, x)[i] = q[i]
    OBVIOUS
  <1>2. \A i \in 1..(Len(q) + 1) : i = Len(q) + 1 \/ i \in 1..Len(q)
    BY <1>1
  <1>3. Distinct(Append(q, x))
    BY <1>1, <1>2 DEF Distinct, Feed!Range
  <1>4. Feed!Range(Append(q, x)) = Feed!Range(q) \cup {x}
    BY <1>1, <1>2 DEF Feed!Range
  <1> QED
    BY <1>1, <1>3, <1>4

\* The head of a sequence without repetition is not in its tail.
LEMMA TailDistinct ==
    ASSUME NEW S, NEW q \in Seq(S), q # <<>>, Distinct(q)
    PROVE  /\ Head(q) \in S /\ Tail(q) \in Seq(S) /\ Distinct(Tail(q))
           /\ Feed!Range(q) = Feed!Range(Tail(q)) \cup {Head(q)}
           /\ Head(q) \notin Feed!Range(Tail(q))
  <1>1. /\ Len(q) \in Nat \ {0} /\ DOMAIN q = 1..Len(q) /\ Head(q) = q[1] /\ Head(q) \in S
        /\ Tail(q) \in Seq(S) /\ DOMAIN Tail(q) = 1..(Len(q) - 1)
        /\ \A i \in 1..(Len(q) - 1) : Tail(q)[i] = q[i + 1]
    OBVIOUS
  <1>2. \A i \in 1..(Len(q) - 1) : i + 1 \in 1..Len(q) /\ i + 1 # 1
    BY <1>1
  <1>3. \A i \in 1..Len(q) : i = 1 \/ (i - 1 \in 1..(Len(q) - 1) /\ i = (i - 1) + 1)
    BY <1>1
  <1>4. Distinct(Tail(q))
    <2> SUFFICES ASSUME NEW i \in 1..(Len(q) - 1), NEW j \in 1..(Len(q) - 1), Tail(q)[i] = Tail(q)[j]
                 PROVE  i = j
      BY <1>1 DEF Distinct
    <2>1. i + 1 = j + 1
      BY <1>1, <1>2 DEF Distinct
    <2> QED
      BY <2>1, <1>1
  <1>5. Head(q) \notin Feed!Range(Tail(q))
    BY <1>1, <1>2 DEF Feed!Range, Distinct
  <1>6. Feed!Range(q) = Feed!Range(Tail(q)) \cup {Head(q)}
    <2>1. ASSUME NEW i \in 1..Len(q) PROVE q[i] \in Feed!Range(Tail(q)) \cup {Head(q)}
      <3>1. CASE i = 1
        BY <1>1, <3>1
      <3>2. CASE i # 1
        <4>1. i - 1 \in 1..(Len(q) - 1) /\ q[i] = Tail(q)[i - 1]
          BY <1>1, <1>3, <3>2
        <4> QED
          BY <1>1, <4>1 DEF Feed!Range
      <3> QED
        BY <3>1, <3>2
    <2>2. \A i \in 1..(Len(q) - 1) : Tail(q)[i] \in Feed!Range(q)
      BY <1>1, <1>2 DEF Feed!Range
    <2>3. 1 \in 1..Len(q)
      BY <1>1
    <2>4. \A x : x \in Feed!Range(q) <=> \E i \in 1..Len(q) : x = q[i]
      BY <1>1, Zenon DEF Feed!Range
    <2>5. \A x : x \in Feed!Range(Tail(q)) <=> \E i \in 1..(Len(q) - 1) : x = Tail(q)[i]
      BY <1>1, Zenon DEF Feed!Range
    <2> QED
      BY <1>1, <2>1, <2>2, <2>3, <2>4, <2>5
  <1> QED
    BY <1>1, <1>4, <1>5, <1>6

\* A sequence without repetition is as long as its set of elements is large.
LEMMA DistinctSize ==
    ASSUME NEW S, NEW q \in Seq(S), Distinct(q)
    PROVE  /\ IsFiniteSet(Feed!Range(q))
           /\ Cardinality(Feed!Range(q)) = Len(q)
  <1> DEFINE R == Feed!Range(q)
  <1>1. Len(q) \in Nat /\ DOMAIN q = 1..Len(q) /\ q = [i \in 1..Len(q) |-> q[i]]
    OBVIOUS
  <1>2. q \in [1..Len(q) -> R]
    BY <1>1 DEF Feed!Range
  <1>3. IsInjective(q)
    BY DEF IsInjective, Distinct
  <1>4. \A t \in R : \E i \in 1..Len(q) : q[i] = t
    BY <1>1 DEF Feed!Range
  <1> HIDE DEF R
  <1>5. q \in Bijection(1..Len(q), R)
    BY <1>2, <1>3, <1>4, Zenon DEF Bijection, Injection, Surjection
  <1>6. ExistsBijection(1..Len(q), R)
    BY <1>5 DEF ExistsBijection
  <1>7. IsFiniteSet(R) /\ Cardinality(R) = Len(q)
    BY <1>1, <1>6, FS_NatBijection, FS_CountingElements
  <1> QED
    BY <1>7 DEF R

\* The sizes of disjoint sets add up.
LEMMA DisjointSizes ==
    ASSUME NEW A, NEW B, IsFiniteSet(A), IsFiniteSet(B), A \cap B = {}
    PROVE  IsFiniteSet(A \cup B) /\ Cardinality(A \cup B) = Cardinality(A) + Cardinality(B)
  <1>1. IsFiniteSet(A \cup B) /\ Cardinality(A \cup B) = Cardinality(A) + Cardinality(B) - Cardinality({})
    <2>1. /\ IsFiniteSet(A \cup B)
          /\ Cardinality(A \cup B) = Cardinality(A) + Cardinality(B) - Cardinality(A \cap B)
      BY FS_Union, Zenon
    <2> QED
      BY <2>1, Zenon
  <1>2. Cardinality({}) = 0 /\ Cardinality(A) \in Nat /\ Cardinality(B) \in Nat
    BY FS_EmptySet, FS_CardinalityType
  <1> QED
    BY <1>1, <1>2

\* A listener of the log and the queue of a subscription.
Listener == [state : {"following", "failed", "stopped"}, handlers : SUBSET Collection,
             read : 0..MaxDocs]
Queue == [pushQueue : Seq(Feed!Docs), pulls : {0, 1}, running : BOOLEAN]

\* A tail of a suffix is a suffix: what follows of the log after one more document is read.
LEMMA SuffixTail ==
    ASSUME NEW S, NEW s \in Seq(S), NEW t \in Seq(S), s # <<>>, Feed!IsSuffix(s, t)
    PROVE  Feed!IsSuffix(Tail(s), t)
  <1> DEFINE n == Len(s)  u == Tail(s)  rs == Feed!Reverse(s)  rt == Feed!Reverse(t)  ru == Feed!Reverse(u)
  <1>1. /\ n \in Nat \ {0} /\ Len(t) \in Nat /\ u \in Seq(S) /\ Len(u) = n - 1
        /\ \A i \in 1..(n - 1) : u[i] = s[i + 1]
    OBVIOUS
  <1>2. /\ rs \in Seq(S) /\ Len(rs) = n /\ \A i \in 1..n : rs[i] = s[n - i + 1]
        /\ rt \in Seq(S) /\ Len(rt) = Len(t)
        /\ ru \in Seq(S) /\ Len(ru) = n - 1 /\ \A i \in 1..(n - 1) : ru[i] = u[n - 1 - i + 1]
    BY <1>1 DEF Feed!Reverse
  <1> HIDE DEF u, rs, rt, ru
  <1>3. n <= Len(t) /\ SubSeq(rs, 1, n) = SubSeq(rt, 1, n)
    BY <1>2 DEF Feed!IsSuffix, Feed!IsPrefix, rs, rt
  <1>4. \A i \in 1..n : rs[i] = rt[i]
    BY <1>1, <1>2, <1>3
  <1>5. \A i \in 1..(n - 1) : ru[i] = rs[i]
    <2> TAKE i \in 1..(n - 1)
    <2>1. n - 1 - i + 1 = n - i /\ n - i \in 1..(n - 1) /\ i \in 1..n
      BY <1>1
    <2> QED
      BY <1>1, <1>2, <2>1
  <1>6. SubSeq(ru, 1, n - 1) = SubSeq(rt, 1, n - 1)
    BY <1>1, <1>2, <1>3, <1>4, <1>5
  <1> QED
    BY <1>1, <1>2, <1>3, <1>6 DEF Feed!IsSuffix, Feed!IsPrefix, rt, ru, u

\* The EXCEPTs of a listener, field by field.
LEMMA UpdatedListener ==
    ASSUME NEW l \in Listener
    PROVE  /\ \A st \in {"following", "failed", "stopped"} :
                 [l EXCEPT !.state = st] = [state |-> st, handlers |-> l.handlers, read |-> l.read]
           /\ \A n \in 0..MaxDocs :
                 [l EXCEPT !.read = n] = [state |-> l.state, handlers |-> l.handlers, read |-> n]
           /\ \A h \in SUBSET Collection :
                 [l EXCEPT !.handlers = h] = [state |-> l.state, handlers |-> h, read |-> l.read]
  BY DEF Listener

\* checkStopListener() takes the handlers of the current listener.
LEMMA Stopped ==
    ASSUME NEW ls \in Seq(Listener)
    PROVE  /\ Feed!StopListener(ls) \in Seq(Listener)
           /\ Len(Feed!StopListener(ls)) = Len(ls)
           /\ \A i \in 1..Len(ls) :
                 /\ Feed!StopListener(ls)[i].read = ls[i].read
                 /\ Feed!StopListener(ls)[i].handlers = IF i = current THEN {} ELSE ls[i].handlers
  <1> DEFINE one(l) == [l EXCEPT !.handlers = {}, !.state = IF @ = "following" THEN "stopped" ELSE @]
  <1>1. ASSUME NEW l \in Listener
        PROVE  one(l) \in Listener /\ one(l).read = l.read /\ one(l).handlers = {}
    <2> DEFINE st == IF l.state = "following" THEN "stopped" ELSE l.state
    <2>1. st \in {"following", "failed", "stopped"} /\ {} \in SUBSET Collection
      BY DEF Listener
    <2> DEFINE m == [l EXCEPT !.handlers = {}]
    <2>2. m = [state |-> l.state, handlers |-> {}, read |-> l.read]
      BY <2>1, UpdatedListener
    <2>3. m \in Listener /\ m.state = l.state /\ m.handlers = {} /\ m.read = l.read
      BY <2>1, <2>2 DEF Listener
    <2>4. one(l) = [m EXCEPT !.state = IF m.state = "following" THEN "stopped" ELSE m.state]
      OBVIOUS
    <2>5. m.state = l.state
      BY <2>3
    <2> HIDE DEF m
    <2>6. one(l) = [m EXCEPT !.state = st]
      BY <2>4, <2>5
    <2> HIDE DEF st
    <2>7. one(l) = [state |-> st, handlers |-> {}, read |-> l.read]
      <3>1. [m EXCEPT !.state = st] = [state |-> st, handlers |-> m.handlers, read |-> m.read]
        BY <2>1, <2>3, UpdatedListener
      <3> QED
        BY <2>3, <2>6, <3>1
    <2> QED
      BY <2>1, <2>7 DEF Listener
  <1>2. Feed!StopListener(ls) = [i \in 1..Len(ls) |-> IF i = current THEN one(ls[i]) ELSE ls[i]]
    BY DEF Feed!StopListener
  <1> HIDE DEF one
  <1>3. \A i \in 1..Len(ls) : (IF i = current THEN one(ls[i]) ELSE ls[i]) \in Listener
    BY <1>1
  <1>4. Feed!StopListener(ls) \in Seq(Listener) /\ Len(Feed!StopListener(ls)) = Len(ls)
    BY <1>2, <1>3
  <1>5. \A i \in 1..Len(ls) : Feed!StopListener(ls)[i] = IF i = current THEN one(ls[i]) ELSE ls[i]
    BY <1>2
  <1>6. \A i \in 1..Len(ls) : ls[i] \in Listener
    OBVIOUS
  <1> QED
    BY <1>1, <1>4, <1>5, <1>6

-----------------------------------------------------------------------------
(* The log and its listener *)

\* The types of the log, its listeners and what was heard.
LogTypes ==
    /\ subscriptionsMode \in Feed!Modes
    /\ wal \in Seq([coll : Collection, patch : BOOLEAN]) /\ Len(wal) <= MaxDocs
    /\ toStart \in Seq(SUBSET Collection) /\ Feed!IsSuffix(toStart, Starts)
    /\ stopState \in {"running", "closing", "stopped"} /\ crashed \in BOOLEAN
    /\ following \subseteq Collection /\ subscribed \subseteq Collection
    /\ listeners \in Seq(Listener) /\ current \in 0..Len(listeners) /\ failures \in 0..MaxFailures
    /\ heard \in Seq(Feed!Docs) /\ counting \subseteq Feed!Docs

\* Only the current listener has handlers, and one that has them has read all
\* that any collection has heard.
LogInv ==
    /\ \A i \in 1..Len(listeners) : listeners[i].read <= Len(wal)
    /\ \A i \in 1..Len(listeners) : i # current => listeners[i].handlers = {}
    /\ \A i \in 1..Len(listeners), j \in 1..Len(heard) :
          listeners[i].handlers # {} => heard[j] <= listeners[i].read
    /\ \A j \in 1..Len(heard) : heard[j] <= Len(wal)
    /\ Feed!HeardOnceInOrder
    /\ stopState = "stopped" => subscribed = {} /\ current = 0
    /\ counting \subseteq Feed!Range(heard)

\* Nothing is written, read or heard at first.
LEMMA InitLog == Feed!Init => LogTypes /\ LogInv
  <1> SUFFICES ASSUME Feed!Init PROVE LogTypes /\ LogInv
    OBVIOUS
  <1>1. Feed!IsSuffix(Starts, Starts)
    BY SubscriptionsAssumption DEF Feed!IsSuffix, Feed!IsPrefix, Feed!Reverse
  <1>2. /\ subscriptionsMode \in Feed!Modes /\ following \subseteq Collection /\ subscribed \subseteq Collection
        /\ toStart = Starts /\ stopState = "running" /\ crashed = FALSE /\ counting \subseteq Feed!Docs
    BY DEF Feed!Init
  <1>3. wal = <<>> /\ listeners = <<>> /\ current = 0 /\ failures = 0 /\ heard = <<>>
    BY DEF Feed!Init
  <1>4. /\ wal \in Seq([coll : Collection, patch : BOOLEAN]) /\ Len(wal) = 0
        /\ listeners \in Seq(Listener) /\ Len(listeners) = 0 /\ heard \in Seq(Feed!Docs)
    BY <1>3
  <1>5. LogTypes
    <2>1. /\ Len(wal) <= MaxDocs /\ current \in 0..Len(listeners) /\ failures \in 0..MaxFailures
          /\ Starts \in Seq(SUBSET Collection)
      BY <1>3, <1>4, SubscriptionsAssumption
    <2> QED
      BY <1>1, <1>2, <1>4, <2>1, Zenon DEF LogTypes
  <1>6. LogInv
    BY DEF Feed!Init, LogInv, Feed!HeardOnceInOrder
  <1> QED
    BY <1>5, <1>6

logVars == <<subscriptionsMode, wal, toStart, stopState, crashed, following, subscribed, listeners,
             current, failures, heard, counting>>

\* What the types say of the lengths of the log, the listeners and what was heard.
LEMMA LogFacts ==
    ASSUME LogTypes
    PROVE  /\ Len(wal) \in Nat /\ MaxDocs \in Nat /\ Len(wal) \in 0..MaxDocs
           /\ Len(listeners) \in Nat /\ DOMAIN listeners = 1..Len(listeners)
           /\ \A i \in 1..Len(listeners) : listeners[i] \in Listener /\ listeners[i].read \in Nat
           /\ Len(heard) \in Nat /\ DOMAIN heard = 1..Len(heard)
           /\ \A j \in 1..Len(heard) : heard[j] \in Nat
  <1>1. \A i \in 1..Len(listeners) : listeners[i] \in Listener
    BY DEF LogTypes
  <1>2. \A l \in Listener : l.read \in Nat
    BY SubscriptionsAssumption DEF Listener
  <1> QED
    BY <1>1, <1>2, SubscriptionsAssumption DEF LogTypes, Feed!Docs

\* A writer adds a document behind all that is read.
LEMMA WriteLog ==
    ASSUME LogTypes, LogInv, Feed!Write
    PROVE  LogTypes' /\ LogInv'
  <1> PICK c \in Collection, p \in BOOLEAN : wal' = Append(wal, [coll |-> c, patch |-> p])
    BY DEF Feed!Write
  <1>1. /\ wal' \in Seq([coll : Collection, patch : BOOLEAN]) /\ Len(wal') = Len(wal) + 1
        /\ Len(wal) < MaxDocs /\ Len(wal) \in Nat /\ MaxDocs \in Nat
    BY SubscriptionsAssumption DEF LogTypes, Feed!Write
  <1>2. UNCHANGED <<subscriptionsMode, toStart, stopState, crashed, following, subscribed, listeners,
                    current, failures, heard, counting>>
    BY DEF Feed!Write, Feed!server, Feed!provider, Feed!feed
  <1>3. LogTypes'
    BY <1>1, <1>2 DEF LogTypes
  <1>4. /\ \A i \in 1..Len(listeners) : listeners[i].read <= Len(wal')
        /\ \A j \in 1..Len(heard) : heard[j] <= Len(wal')
    BY <1>1, LogFacts DEF LogInv
  <1>5. LogInv'
    BY <1>2, <1>4 DEF LogInv, Feed!HeardOnceInOrder
  <1> QED
    BY <1>3, <1>5

\* A listener is made after the current one, if any, has lost its handlers.
LEMMA StartProviderLog ==
    ASSUME LogTypes, LogInv, Feed!StartProvider
    PROVE  LogTypes' /\ LogInv'
  <1> DEFINE changed == following' # following
             ls == IF changed THEN Feed!StopListener(listeners) ELSE listeners
             new == Feed!NewListener(following')
             makes == (changed \/ current = 0) /\ following' # {} /\ subscribed # {}
  <1>1. /\ toStart # <<>> /\ toStart' = Tail(toStart) /\ following' = following \cup Head(toStart)
        /\ IF makes THEN listeners' = Append(ls, new) /\ current' = Len(listeners')
                    ELSE listeners' = ls /\ current' = IF changed THEN 0 ELSE current
        /\ UNCHANGED <<subscriptionsMode, wal, stopState, crashed, subscribed, failures, heard, counting>>
    BY DEF Feed!StartProvider, Feed!database, Feed!feed
  <1>2. /\ toStart' \in Seq(SUBSET Collection) /\ following' \subseteq Collection
        /\ Feed!IsSuffix(toStart', Starts)
    BY <1>1, SuffixTail, SubscriptionsAssumption DEF LogTypes
  <1>3. Len(wal) \in Nat /\ Len(wal) \in 0..MaxDocs /\ \A j \in 1..Len(heard) : heard[j] \in Int
    BY SubscriptionsAssumption DEF LogTypes, Feed!Docs
  <1>4. new \in Listener /\ new.read = Len(wal)
    BY <1>2, <1>3 DEF Feed!NewListener, Listener
  <1>5. /\ ls \in Seq(Listener) /\ Len(ls) = Len(listeners) /\ Len(ls) \in Nat
        /\ \A i \in 1..Len(ls) : ls[i].read = listeners[i].read
        /\ \A i \in 1..Len(ls) : ls[i].handlers # {} => ~changed /\ i = current /\ ls[i] = listeners[i]
    BY Stopped DEF LogTypes, LogInv
  <1> HIDE DEF ls, new
  <1>6. CASE makes
    <2>1. listeners' = Append(ls, new) /\ current' = Len(listeners')
      BY <1>1, <1>6
    <2>2. /\ listeners' \in Seq(Listener) /\ Len(listeners') = Len(ls) + 1 /\ current' = Len(ls) + 1
          /\ \A i \in 1..Len(ls) : listeners'[i] = ls[i]
          /\ listeners'[Len(ls) + 1] = new
      BY <1>4, <1>5, <2>1, AppendProperties
    <2>3. \A i \in 1..Len(listeners') : i = Len(ls) + 1 \/ i \in 1..Len(ls)
      BY <1>5, <2>2
    <2>4. \A i \in 1..Len(ls) : ls[i].handlers = {}
      BY <1>5, <1>6 DEF LogInv, LogTypes
    <2>5. LogTypes'
      BY <1>1, <1>2, <1>5, <2>2 DEF LogTypes
    <2>6. \A i \in 1..Len(listeners') : listeners'[i].read <= Len(wal)
      BY <1>3, <1>4, <1>5, <2>2, <2>3 DEF LogInv
    <2>7. \A i \in 1..Len(listeners') : listeners'[i].handlers # {} => i = current' /\ listeners'[i] = new
      BY <2>2, <2>3, <2>4
    <2>8. stopState # "stopped"
      BY <1>6 DEF LogInv
    <2>9. LogInv'
      BY <1>1, <1>4, <2>6, <2>7, <2>8 DEF LogInv, Feed!HeardOnceInOrder
    <2> QED
      BY <2>5, <2>9
  <1>7. CASE ~makes
    <2>1. listeners' = ls /\ current' = IF changed THEN 0 ELSE current
      BY <1>1, <1>7
    <2>2. LogTypes'
      BY <1>1, <1>2, <1>5, <2>1 DEF LogTypes
    <2>3. LogInv'
      BY <1>1, <1>5, <2>1 DEF LogInv, Feed!HeardOnceInOrder
    <2> QED
      BY <2>2, <2>3
  <1> QED
    BY <1>6, <1>7

\* stop() releases the current listener; what has been read and heard stays.
LEMMA StopLog ==
    ASSUME LogTypes, LogInv, Feed!StopBegins \/ Feed!Stop
    PROVE  LogTypes' /\ LogInv'
  <1>1. CASE Feed!StopBegins
    <2>1. stopState' = "closing"
          /\ UNCHANGED <<subscriptionsMode, wal, toStart, crashed, following, subscribed, listeners,
                         current, failures, heard, counting>>
      BY <1>1 DEF Feed!StopBegins, Feed!database, Feed!provider, Feed!feed
    <2> QED
      BY <2>1 DEF LogTypes, LogInv, Feed!HeardOnceInOrder
  <1>2. CASE Feed!Stop
    <2> DEFINE ls == Feed!StopListener(listeners)
    <2>1. /\ stopState' = "stopped" /\ subscribed' = {} /\ listeners' = ls /\ current' = 0
          /\ UNCHANGED <<subscriptionsMode, wal, toStart, crashed, following, failures, heard, counting>>
      BY <1>2 DEF Feed!Stop, Feed!database, Feed!feed
    <2>2. /\ ls \in Seq(Listener) /\ Len(ls) = Len(listeners)
          /\ \A i \in 1..Len(ls) : ls[i].read = listeners[i].read /\ ls[i].handlers = {}
      BY Stopped DEF LogTypes, LogInv
    <2> HIDE DEF ls
    <2>3. 0 \in 0..Len(ls)
      BY <2>2
    <2>4. LogTypes'
      BY <2>1, <2>2, <2>3 DEF LogTypes
    <2>5. LogInv'
      BY <2>1, <2>2 DEF LogInv, Feed!HeardOnceInOrder
    <2> QED
      BY <2>4, <2>5
  <1> QED
    BY <1>1, <1>2

\* The error handler of a listener: its handlers stay, and a timer is to start it again.
LEMMA ListenerFailsLog ==
    ASSUME LogTypes, LogInv, NEW i \in DOMAIN listeners, Feed!ListenerFails(i)
    PROVE  LogTypes' /\ LogInv'
  <1> DEFINE l == [listeners[i] EXCEPT !.state = "failed"]
  <1>1. /\ failures < MaxFailures /\ failures' = failures + 1 /\ i \in 1..Len(listeners)
        /\ \/ crashed' = TRUE /\ listeners' = listeners
           \/ crashed' = crashed /\ listeners' = [listeners EXCEPT ![i] = l]
        /\ UNCHANGED <<subscriptionsMode, wal, toStart, stopState, following, subscribed, current, heard, counting>>
    BY DEF Feed!ListenerFails, Feed!database, Feed!feed, LogTypes
  <1>2. listeners[i] \in Listener
    BY <1>1, LogFacts
  <1>3. l = [state |-> "failed", handlers |-> listeners[i].handlers, read |-> listeners[i].read]
    BY <1>2, UpdatedListener
  <1>4. l \in Listener /\ l.read = listeners[i].read /\ l.handlers = listeners[i].handlers
    BY <1>2, <1>3 DEF Listener
  <1>5. failures' \in 0..MaxFailures
    BY <1>1, SubscriptionsAssumption DEF LogTypes
  <1> HIDE DEF l
  <1>6. /\ listeners' \in Seq(Listener) /\ Len(listeners') = Len(listeners)
        /\ \A j \in 1..Len(listeners) : /\ listeners'[j].read = listeners[j].read
                                        /\ listeners'[j].handlers = listeners[j].handlers
    <2>1. listeners \in Seq(Listener)
      BY DEF LogTypes
    <2>2. CASE listeners' = listeners
      BY <2>1, <2>2
    <2>3. CASE listeners' = [listeners EXCEPT ![i] = l]
      BY <1>1, <1>4, <2>1, <2>3, ExceptSeq
    <2> QED
      BY <1>1, <2>2, <2>3
  <1>7. LogTypes'
    BY <1>1, <1>5, <1>6 DEF LogTypes
  <1>8. LogInv'
    BY <1>1, <1>6 DEF LogInv, Feed!HeardOnceInOrder
  <1> QED
    BY <1>7, <1>8

\* A restarted listener begins at the end of the log: it misses documents, but repeats none.
LEMMA RestartListenerLog ==
    ASSUME LogTypes, LogInv, NEW i \in DOMAIN listeners, Feed!RestartListener(i)
    PROVE  LogTypes' /\ LogInv'
  <1> DEFINE m == [listeners[i] EXCEPT !.state = "following"]
             l == [m EXCEPT !.read = Len(wal)]
             ms == [listeners EXCEPT ![i] = m]
  <1>1. /\ i \in 1..Len(listeners) /\ listeners \in Seq(Listener)
        /\ listeners' = [listeners EXCEPT ![i].state = "following", ![i].read = Len(wal)]
        /\ UNCHANGED <<subscriptionsMode, wal, toStart, stopState, crashed, following, subscribed,
                       current, failures, heard, counting>>
    BY DEF Feed!RestartListener, Feed!database, Feed!server, Feed!feed, LogTypes
  <1>2. listeners' = [ms EXCEPT ![i] = [ms[i] EXCEPT !.read = Len(wal)]]
    BY <1>1
  <1>3. ms[i] = m /\ \A x : [ms EXCEPT ![i] = x] = [listeners EXCEPT ![i] = x]
    BY <1>1
  <1>4. listeners' = [listeners EXCEPT ![i] = l]
    BY <1>2, <1>3
  <1>5. Len(wal) \in 0..MaxDocs /\ Len(wal) \in Nat
    BY LogFacts
  <1>6. m = [state |-> "following", handlers |-> listeners[i].handlers, read |-> listeners[i].read]
    BY <1>1, LogFacts, UpdatedListener
  <1>7. m \in Listener /\ m.state = "following" /\ m.handlers = listeners[i].handlers
    BY <1>1, <1>6, LogFacts DEF Listener
  <1> HIDE DEF m
  <1>8. l = [state |-> m.state, handlers |-> m.handlers, read |-> Len(wal)]
    BY <1>5, <1>7, UpdatedListener
  <1>9. l \in Listener /\ l.read = Len(wal) /\ l.handlers = listeners[i].handlers
    BY <1>5, <1>7, <1>8 DEF Listener
  <1> HIDE DEF l
  <1>10. /\ listeners' \in Seq(Listener) /\ Len(listeners') = Len(listeners)
         /\ \A j \in 1..Len(listeners) : listeners'[j].handlers = listeners[j].handlers
         /\ \A j \in 1..Len(listeners) : listeners'[j] = IF j = i THEN l ELSE listeners[j]
    BY <1>4, <1>9, <1>1, ExceptSeq
  <1>11. LogTypes'
    BY <1>1, <1>10 DEF LogTypes
  <1>12. LogInv'
    <2>1. \A j \in 1..Len(listeners) : listeners'[j].read <= Len(wal)
      BY <1>5, <1>9, <1>10 DEF LogInv
    <2>2. \A j \in 1..Len(listeners) : j # current => listeners'[j].handlers = {}
      BY <1>10 DEF LogInv
    <2>3. \A j \in 1..Len(listeners), k \in 1..Len(heard) :
              listeners'[j].handlers # {} => heard[k] <= listeners'[j].read
      BY <1>9, <1>10 DEF LogInv
    <2> QED
      BY <1>1, <1>10, <2>1, <2>2, <2>3 DEF LogInv, Feed!HeardOnceInOrder
  <1> QED
    BY <1>11, <1>12

\* A document that is heard is none of those heard before.
LEMMA FollowLog ==
    ASSUME LogTypes, LogInv, NEW i \in DOMAIN listeners, Feed!Follow(i)
    PROVE  /\ LogTypes' /\ LogInv' /\ (stopState = "stopped" => heard' = heard)
           /\ Feed!Range(heard) \ counting \subseteq Feed!Range(heard') \ counting'
  <1> DEFINE d == listeners[i].read + 1
             l == [listeners[i] EXCEPT !.read = d]
             hears == wal[d].coll \in listeners[i].handlers \cap subscribed
  <1>1. /\ i \in 1..Len(listeners) /\ listeners \in Seq(Listener) /\ listeners[i] \in Listener
        /\ listeners[i].handlers # {} /\ listeners[i].read < Len(wal)
        /\ listeners' = [listeners EXCEPT ![i] = l]
        /\ \/ hears /\ heard' = Append(heard, d) /\ counting' = counting \cup {d}
           \/ heard' = heard /\ counting' = counting
        /\ UNCHANGED <<subscriptionsMode, wal, toStart, stopState, crashed, following, subscribed, current, failures>>
    BY LogFacts DEF Feed!Follow, Feed!database, Feed!server, Feed!feed, LogTypes
  <1>2. d \in 0..MaxDocs /\ d \in Feed!Docs /\ d \in Nat /\ d <= Len(wal) /\ d > listeners[i].read
    BY <1>1, LogFacts DEF Feed!Docs
  <1>3. l = [state |-> listeners[i].state, handlers |-> listeners[i].handlers, read |-> d]
    BY <1>1, <1>2, UpdatedListener
  <1>4. l \in Listener /\ l.read = d /\ l.handlers = listeners[i].handlers
    BY <1>1, <1>2, <1>3 DEF Listener
  <1>5. \A j \in 1..Len(heard) : heard[j] < d
    BY <1>1, <1>2, LogFacts DEF LogInv
  <1>6. d \notin Feed!Range(heard)
    BY <1>5, <1>2, LogFacts DEF Feed!Range
  <1> HIDE DEF l, d
  <1>7. /\ listeners' \in Seq(Listener) /\ Len(listeners') = Len(listeners)
        /\ \A j \in 1..Len(listeners) : listeners'[j].handlers = listeners[j].handlers
        /\ \A j \in 1..Len(listeners) : listeners'[j] = IF j = i THEN l ELSE listeners[j]
    BY <1>1, <1>4, ExceptSeq
  <1>8. i = current
    BY <1>1 DEF LogInv
  <1>9. \A j \in 1..Len(listeners) : listeners'[j].read <= Len(wal)
    BY <1>2, <1>4, <1>7 DEF LogInv
  <1>10. CASE heard' = heard /\ counting' = counting
    <2>1. LogTypes'
      BY <1>1, <1>7, <1>10 DEF LogTypes
    <2>2. \A j \in 1..Len(listeners), k \in 1..Len(heard) :
              listeners'[j].handlers # {} => heard[k] <= listeners'[j].read
      <3>1. \A j \in 1..Len(listeners) : listeners'[j].handlers # {} => listeners'[j].read = d
        BY <1>4, <1>7, <1>8 DEF LogInv
      <3>2. \A k \in 1..Len(heard) : heard[k] <= d
        BY <1>2, <1>5, LogFacts
      <3> QED
        BY <3>1, <3>2
    <2>3. LogInv'
      BY <1>1, <1>7, <1>9, <1>10, <2>2 DEF LogInv, Feed!HeardOnceInOrder
    <2> QED
      BY <1>10, <2>1, <2>3
  <1>11. CASE hears /\ heard' = Append(heard, d) /\ counting' = counting \cup {d}
    <2>1. /\ heard' \in Seq(Feed!Docs) /\ Len(heard') = Len(heard) + 1 /\ Len(heard) \in Nat
          /\ \A j \in 1..Len(heard) : heard'[j] = heard[j]
          /\ heard'[Len(heard) + 1] = d
      BY <1>2, <1>11 DEF LogTypes
    <2>2. \A j \in 1..Len(heard') : j = Len(heard) + 1 \/ j \in 1..Len(heard)
      BY <2>1
    <2>3. Feed!Range(heard') = Feed!Range(heard) \cup {d}
      BY <2>1, <2>2, LogFacts DEF Feed!Range
    <2>4. LogTypes'
      BY <1>1, <1>2, <1>7, <1>11, <2>1 DEF LogTypes
    <2>5. \A j, k \in 1..Len(heard') : j < k => heard'[j] < heard'[k]
      <3> SUFFICES ASSUME NEW j \in 1..Len(heard'), NEW k \in 1..Len(heard'), j < k PROVE heard'[j] < heard'[k]
        OBVIOUS
      <3>1. j \in 1..Len(heard)
        BY <2>1
      <3>2. CASE k \in 1..Len(heard)
        BY <2>1, <3>1, <3>2, LogFacts DEF LogInv, Feed!HeardOnceInOrder
      <3>3. CASE k = Len(heard) + 1
        BY <1>5, <2>1, <3>1, <3>3
      <3> QED
        BY <2>2, <3>2, <3>3
    <2>6. \A j \in 1..Len(heard') : heard'[j] <= d
      BY <1>2, <1>5, <2>1, <2>2, LogFacts
    <2>7. \A j \in 1..Len(heard') : heard'[j] <= Len(wal)
      BY <1>2, <1>5, <2>1, <2>2, LogFacts DEF LogInv
    <2>8. \A j \in 1..Len(listeners), k \in 1..Len(heard') :
              listeners'[j].handlers # {} => heard'[k] <= listeners'[j].read
      BY <1>4, <1>7, <1>8, <2>6 DEF LogInv
    <2>9. stopState # "stopped"
      BY <1>11 DEF LogInv
    <2>10. counting' \subseteq Feed!Range(heard')
      BY <1>11, <2>3 DEF LogInv
    <2>11. DOMAIN heard' = 1..Len(heard')
      BY <2>1
    <2>12. LogInv'
      BY <1>1, <1>7, <1>9, <2>5, <2>7, <2>8, <2>9, <2>10, <2>11 DEF LogInv, Feed!HeardOnceInOrder
    <2> QED
      BY <1>6, <1>11, <2>3, <2>4, <2>9, <2>12
  <1> QED
    BY <1>1, <1>10, <1>11

\* The steps of the subscriptions leave the log and its listener alone.
LEMMA LogKept ==
    ASSUME LogTypes, LogInv, UNCHANGED <<wal, toStart, stopState, following, subscribed, listeners,
                                         current, failures, heard, subscriptionsMode>>,
           counting' \subseteq counting, crashed' \in BOOLEAN
    PROVE  LogTypes' /\ LogInv'
  BY DEF LogTypes, LogInv, Feed!HeardOnceInOrder

-----------------------------------------------------------------------------
(* The queues of a subscription *)

\* The EXCEPTs of the queue of a subscription, field by field.
LEMMA UpdatedQueue ==
    ASSUME NEW q \in Queue
    PROVE  /\ \A x \in Seq(Feed!Docs) :
                 [q EXCEPT !.pushQueue = x] = [pushQueue |-> x, pulls |-> q.pulls, running |-> q.running]
           /\ \A n \in Int :
                 [q EXCEPT !.pulls = n] = [pushQueue |-> q.pushQueue, pulls |-> n, running |-> q.running]
  BY DEF Queue

\* Where the documents are that a subscription took: with their joins (j), lost
\* (l), in its queue (q), delivered (g); of all it took (a).
Placed(j, l, q, g, a) ==
    /\ j \cup l \cup Feed!Range(q.pushQueue) \cup Feed!Range(g) \subseteq a
    /\ j \cap l = {} /\ (j \cup l) \cap Feed!Range(q.pushQueue) = {}
    /\ (j \cup l \cup Feed!Range(q.pushQueue)) \cap Feed!Range(g) = {}
    /\ Distinct(q.pushQueue) /\ Distinct(g)
    /\ q.running /\ q.pulls > 0 => q.pushQueue = <<>>

\* No document that was taken is missing from its places.
Whole(j, l, q, g, a) == a \subseteq j \cup l \cup Feed!Range(q.pushQueue) \cup Feed!Range(g)

\* A step with its result p (a queue, and what a call got) that leaves k joining.
Keeps(j, k, l, q, g, a, p) ==
    /\ p.queue \in Queue /\ p.queue.running = q.running
    /\ g \o p.value \in Seq(Feed!Docs) /\ (~q.running => g \o p.value = g)
    /\ Placed(k, l, p.queue, g \o p.value, a)
    /\ q.running /\ Whole(j, l, q, g, a) => Whole(k, l, p.queue, g \o p.value, a)

\* What next() delivers is appended.
LEMMA Concat1 ==
    ASSUME NEW S, NEW g \in Seq(S), NEW x \in S
    PROVE  g \o <<x>> = Append(g, x) /\ g \o <<>> = g
  OBVIOUS

\* pushValue(): a joined document goes to a call that waits, or to the queue.
LEMMA PushPlaces ==
    ASSUME NEW j, NEW l, NEW a, NEW q \in Queue, NEW g \in Seq(Feed!Docs), NEW d \in j, d \in Feed!Docs,
           Placed(j, l, q, g, a)
    PROVE  Keeps(j, j \ {d}, l, q, g, a, Feed!PushValue(q, d))
  <1> DEFINE push == Feed!PushValue(q, d)
  <1>1. q.pushQueue \in Seq(Feed!Docs) /\ q.pulls \in {0, 1} /\ q.running \in BOOLEAN
    BY DEF Queue
  <1>2. d \notin Feed!Range(q.pushQueue) /\ d \notin Feed!Range(g) /\ d \notin l
    BY DEF Placed
  <1>3. CASE q.pulls > 0
    <2>1. push = [queue |-> [q EXCEPT !.pulls = q.pulls - 1], value |-> IF q.running THEN <<d>> ELSE <<>>]
      BY <1>3 DEF Feed!PushValue
    <2>2. push.queue = [pushQueue |-> q.pushQueue, pulls |-> q.pulls - 1, running |-> q.running]
      BY <1>1, <2>1, UpdatedQueue
    <2>3. push.queue \in Queue /\ push.queue.running = q.running /\ push.queue.pushQueue = q.pushQueue
      BY <1>1, <1>3, <2>2 DEF Queue
    <2>4. push.queue.pulls = 0
      BY <1>1, <1>3, <2>2
    <2> HIDE DEF push, Keeps
    <2>5. CASE q.running
      <3>1. push.value = <<d>>
        BY <2>1, <2>5
      <3>2. g \o push.value = Append(g, d)
        BY <3>1, Concat1
      <3>3. /\ Append(g, d) \in Seq(Feed!Docs) /\ Distinct(Append(g, d))
            /\ Feed!Range(Append(g, d)) = Feed!Range(g) \cup {d}
        BY <1>2, AppendDistinct DEF Placed
      <3>4. Placed(j \ {d}, l, push.queue, Append(g, d), a)
        BY <1>2, <2>3, <2>4, <3>3 DEF Placed
      <3>5. Whole(j, l, q, g, a) => Whole(j \ {d}, l, push.queue, Append(g, d), a)
        BY <2>3, <3>3 DEF Whole
      <3> QED
        BY <2>3, <2>5, <3>2, <3>3, <3>4, <3>5 DEF push, Keeps
    <2>6. CASE ~q.running
      <3>1. g \o push.value = g
        BY <2>1, <2>6, Concat1
      <3>2. Placed(j \ {d}, l, push.queue, g, a)
        BY <2>3, <2>4 DEF Placed
      <3> QED
        BY <2>3, <2>6, <3>1, <3>2 DEF push, Keeps
    <2> QED
      BY <2>5, <2>6
  <1>4. CASE ~(q.pulls > 0)
    <2>1. push = [queue |-> [q EXCEPT !.pushQueue = Append(q.pushQueue, d)], value |-> <<>>]
      BY <1>4 DEF Feed!PushValue
    <2>2. /\ Append(q.pushQueue, d) \in Seq(Feed!Docs) /\ Distinct(Append(q.pushQueue, d))
          /\ Feed!Range(Append(q.pushQueue, d)) = Feed!Range(q.pushQueue) \cup {d}
      BY <1>1, <1>2, AppendDistinct DEF Placed
    <2>3. push.queue = [pushQueue |-> Append(q.pushQueue, d), pulls |-> q.pulls, running |-> q.running]
      <3> DEFINE x == Append(q.pushQueue, d)
      <3>1. x \in Seq(Feed!Docs)
        BY <2>2
      <3>2. push.queue = [q EXCEPT !.pushQueue = x]
        BY <2>1
      <3> HIDE DEF x, push
      <3>3. push.queue = [pushQueue |-> x, pulls |-> q.pulls, running |-> q.running]
        BY <3>1, <3>2, UpdatedQueue
      <3> QED
        BY <3>3 DEF x
    <2>4. /\ push.queue \in Queue /\ push.queue.running = q.running /\ push.queue.pulls = q.pulls
          /\ push.queue.pushQueue = Append(q.pushQueue, d)
      BY <1>1, <2>2, <2>3 DEF Queue
    <2>5. g \o push.value = g
      BY <2>1, Concat1
    <2> HIDE DEF push, Keeps
    <2>6. Placed(j \ {d}, l, push.queue, g, a)
      BY <1>2, <1>4, <2>2, <2>4 DEF Placed
    <2>7. Whole(j, l, q, g, a) => Whole(j \ {d}, l, push.queue, g, a)
      BY <2>2, <2>4 DEF Whole
    <2> QED
      BY <2>4, <2>5, <2>6, <2>7 DEF push, Keeps
  <1> QED
    BY <1>3, <1>4

\* next() takes the document queued longest, or waits.
LEMMA NextPlaces ==
    ASSUME NEW j, NEW l, NEW a, NEW q \in Queue, NEW g \in Seq(Feed!Docs), q.pulls = 0,
           Placed(j, l, q, g, a)
    PROVE  Keeps(j, j, l, q, g, a, Feed!NextCall(q))
  <1> DEFINE next == Feed!NextCall(q)
  <1>1. q.pushQueue \in Seq(Feed!Docs) /\ q.pulls \in {0, 1} /\ q.running \in BOOLEAN
    BY DEF Queue
  <1>2. CASE q.pushQueue # <<>>
    <2> DEFINE d == Head(q.pushQueue)
    <2>1. next = [queue |-> [q EXCEPT !.pushQueue = Tail(q.pushQueue)], value |-> IF q.running THEN <<d>> ELSE <<>>]
      BY <1>2 DEF Feed!NextCall
    <2>2. /\ d \in Feed!Docs /\ Tail(q.pushQueue) \in Seq(Feed!Docs) /\ Distinct(Tail(q.pushQueue))
          /\ Feed!Range(q.pushQueue) = Feed!Range(Tail(q.pushQueue)) \cup {d}
          /\ d \notin Feed!Range(Tail(q.pushQueue))
      BY <1>1, <1>2, TailDistinct DEF Placed
    <2>3. next.queue = [pushQueue |-> Tail(q.pushQueue), pulls |-> q.pulls, running |-> q.running]
      <3> DEFINE x == Tail(q.pushQueue)
      <3>1. x \in Seq(Feed!Docs)
        BY <2>2
      <3>2. next.queue = [q EXCEPT !.pushQueue = x]
        BY <2>1
      <3> HIDE DEF x, next
      <3>3. next.queue = [pushQueue |-> x, pulls |-> q.pulls, running |-> q.running]
        BY <3>1, <3>2, UpdatedQueue
      <3> QED
        BY <3>3 DEF x
    <2>4. /\ next.queue \in Queue /\ next.queue.running = q.running /\ next.queue.pulls = 0
          /\ next.queue.pushQueue = Tail(q.pushQueue)
      BY <1>1, <2>2, <2>3 DEF Queue
    <2>5. d \notin Feed!Range(g) /\ d \notin j /\ d \notin l /\ d \in a
      BY <2>2 DEF Placed
    <2> HIDE DEF next, d
    <2>6. CASE q.running
      <3>1. g \o next.value = Append(g, d)
        BY <2>1, <2>2, <2>6, Concat1
      <3>3. /\ Append(g, d) \in Seq(Feed!Docs) /\ Distinct(Append(g, d))
            /\ Feed!Range(Append(g, d)) = Feed!Range(g) \cup {d}
        BY <2>2, <2>5, AppendDistinct DEF Placed
      <3>4. Placed(j, l, next.queue, Append(g, d), a)
        BY <2>2, <2>4, <2>5, <3>3 DEF Placed
      <3>5. Whole(j, l, q, g, a) => Whole(j, l, next.queue, Append(g, d), a)
        BY <2>2, <2>4, <3>3 DEF Whole
      <3> QED
        BY <2>4, <2>6, <3>1, <3>3, <3>4, <3>5 DEF next, Keeps
    <2>7. CASE ~q.running
      <3>1. g \o next.value = g
        BY <2>1, <2>7, Concat1
      <3>2. Placed(j, l, next.queue, g, a)
        BY <2>2, <2>4 DEF Placed
      <3> QED
        BY <2>4, <2>7, <3>1, <3>2 DEF next, Keeps
    <2> QED
      BY <2>6, <2>7
  <1>3. CASE q.pushQueue = <<>>
    <2>1. next = [queue |-> [q EXCEPT !.pulls = q.pulls + 1], value |-> <<>>]
      BY <1>3 DEF Feed!NextCall
    <2>2. next.queue = [pushQueue |-> q.pushQueue, pulls |-> q.pulls + 1, running |-> q.running]
      BY <1>1, <2>1, UpdatedQueue
    <2>3. next.queue \in Queue /\ next.queue.running = q.running /\ next.queue.pushQueue = q.pushQueue
      BY <1>1, <2>2 DEF Queue
    <2>4. g \o next.value = g
      BY <2>1, Concat1
    <2> HIDE DEF next, Keeps
    <2>5. Placed(j, l, next.queue, g, a)
      BY <1>3, <2>3 DEF Placed
    <2>6. Whole(j, l, q, g, a) => Whole(j, l, next.queue, g, a)
      BY <2>3 DEF Whole
    <2> QED
      BY <2>3, <2>4, <2>5, <2>6 DEF next, Keeps
  <1> QED
    BY <1>2, <1>3

-----------------------------------------------------------------------------
(* The subscriptions of the feed *)

\* The types of the subscriptions of the feed.
SubTypes ==
    /\ collOf \in [Subscriber -> Collection]
    /\ phase \in [Subscriber -> {"idle", "counting", "open", "closed"}]
    /\ registered \subseteq Subscriber /\ subscriptionCount \in [Collection -> Nat]
    /\ queue \in [Subscriber -> Queue]
    /\ joining \in [Subscriber -> SUBSET Feed!Docs] /\ accepted \in [Subscriber -> SUBSET Feed!Docs]
    /\ lost \in [Subscriber -> SUBSET Feed!Docs] /\ delivered \in [Subscriber -> Seq(Feed!Docs)]
    /\ ended \in [Subscriber -> BOOLEAN]

\* A subscription takes only documents that its collection has heard and counted,
\* which keeps it from taking one twice; it runs while it is open, and has none
\* before.
SubInv(s) ==
    /\ accepted[s] \subseteq Feed!Range(heard) \ counting
    /\ Placed(joining[s], lost[s], queue[s], delivered[s], accepted[s])
    /\ phase[s] = "open" =>
          queue[s].running /\ Whole(joining[s], lost[s], queue[s], delivered[s], accepted[s])
    /\ phase[s] = "closed" => ~queue[s].running
    /\ phase[s] \in {"idle", "counting"} => queue[s] = Feed!NewSubscription /\ accepted[s] = {}
    /\ s \in registered <=> phase[s] = "open"

\* The counter of a collection counts the listeners registered at it.
Listening(c) == {s \in registered : collOf[s] = c}
CountInv == \A c \in Collection : subscriptionCount[c] = Cardinality(Listening(c))

\* The invariant of the feed.
FeedInv == LogTypes /\ LogInv /\ SubTypes /\ (\A s \in Subscriber : SubInv(s)) /\ CountInv

\* No subscription is open at first.
LEMMA InitSubs == Feed!Init => SubTypes /\ (\A s \in Subscriber : SubInv(s)) /\ CountInv
  <1> SUFFICES ASSUME Feed!Init PROVE SubTypes /\ (\A s \in Subscriber : SubInv(s)) /\ CountInv
    OBVIOUS
  <1>1. /\ Feed!NewSubscription \in Queue /\ Feed!NewSubscription.pushQueue = <<>>
        /\ Feed!NewSubscription.running = TRUE
    BY DEF Queue, Feed!NewSubscription
  <1>2. SubTypes
    BY <1>1, SubscriptionsAssumption DEF Feed!Init, SubTypes
  <1>3. ASSUME NEW s \in Subscriber PROVE SubInv(s)
    <2>1. /\ phase[s] = "idle" /\ registered = {} /\ queue[s] = Feed!NewSubscription
          /\ joining[s] = {} /\ accepted[s] = {} /\ lost[s] = {} /\ delivered[s] = <<>>
      BY DEF Feed!Init
    <2>2. Feed!Range(<<>>) = {} /\ Distinct(<<>>)
      BY DEF Feed!Range, Distinct
    <2> QED
      BY <1>1, <2>1, <2>2 DEF SubInv, Placed, Whole
  <1>4. CountInv
    BY FS_EmptySet DEF Feed!Init, CountInv, Listening
  <1> QED
    BY <1>2, <1>3, <1>4

\* The steps of the log leave the subscriptions alone.
LEMMA SubsKept ==
    ASSUME SubTypes, \A s \in Subscriber : SubInv(s), CountInv,
           UNCHANGED <<collOf, phase, registered, subscriptionCount, queue, joining, accepted, lost,
                       delivered, ended>>,
           Feed!Range(heard) \ counting \subseteq Feed!Range(heard') \ counting'
    PROVE  SubTypes' /\ (\A s \in Subscriber : SubInv(s))' /\ CountInv'
  <1>1. SubTypes'
    BY DEF SubTypes
  <1>2. CountInv'
    BY DEF CountInv, Listening
  <1>3. ASSUME NEW s \in Subscriber PROVE SubInv(s)'
    BY DEF SubInv, Placed, Whole
  <1> QED
    BY <1>1, <1>2, <1>3

\* Another subscription's step, too.
LEMMA OtherKept ==
    ASSUME NEW s, SubInv(s), UNCHANGED <<heard, counting, phase[s], queue[s], joining[s], accepted[s],
                                         lost[s], delivered[s]>>,
           s \in registered' <=> s \in registered
    PROVE  SubInv(s)'
  BY DEF SubInv, Placed, Whole

subsVars == <<collOf, phase, registered, subscriptionCount, queue, joining, accepted, lost, delivered, ended>>

\* The steps of writers, listeners and stop() leave the subscriptions alone.
LEMMA LogStep ==
    ASSUME FeedInv,
           \/ Feed!Write \/ Feed!StartProvider \/ Feed!StopBegins \/ Feed!Stop
           \/ \E i \in DOMAIN listeners :
                 Feed!ListenerFails(i) \/ Feed!RestartListener(i) \/ Feed!Follow(i)
    PROVE  /\ FeedInv' /\ delivered' = delivered
           /\ stopState = "stopped" => heard' = heard /\ current' = 0
  <1>1. UNCHANGED subsVars
    BY DEF Feed!Write, Feed!StartProvider, Feed!StopBegins, Feed!Stop, Feed!ListenerFails,
           Feed!RestartListener, Feed!Follow, Feed!subs, subsVars
  <1>2. CASE Feed!Write \/ Feed!StartProvider \/ Feed!StopBegins \/ Feed!Stop
    <2>1. UNCHANGED <<heard, counting>>
      BY <1>2 DEF Feed!Write, Feed!StartProvider, Feed!StopBegins, Feed!Stop, Feed!feed
    <2>2. LogTypes' /\ LogInv'
      BY <1>2, WriteLog, StartProviderLog, StopLog DEF FeedInv
    <2>3. stopState = "stopped" => current' = 0
      BY <1>2 DEF FeedInv, LogInv, Feed!Write, Feed!StartProvider, Feed!StopBegins, Feed!Stop, Feed!provider
    <2> QED
      BY <1>1, <2>1, <2>2, <2>3, SubsKept DEF FeedInv, subsVars
  <1>3. ASSUME NEW i \in DOMAIN listeners,
               Feed!ListenerFails(i) \/ Feed!RestartListener(i) \/ Feed!Follow(i)
        PROVE  /\ FeedInv' /\ delivered' = delivered
               /\ stopState = "stopped" => heard' = heard /\ current' = 0
    <2>1. current' = current
      BY <1>3 DEF Feed!ListenerFails, Feed!RestartListener, Feed!Follow
    <2>2. Feed!ListenerFails(i) \/ Feed!RestartListener(i) => UNCHANGED <<heard, counting>>
      BY DEF Feed!ListenerFails, Feed!RestartListener, Feed!feed
    <2>3. /\ LogTypes' /\ LogInv' /\ (stopState = "stopped" => heard' = heard)
          /\ Feed!Range(heard) \ counting \subseteq Feed!Range(heard') \ counting'
      BY <1>3, <2>2, ListenerFailsLog, RestartListenerLog, FollowLog DEF FeedInv
    <2> QED
      BY <1>1, <2>1, <2>3, SubsKept DEF FeedInv, LogInv, subsVars
  <1> QED
    BY <1>2, <1>3

\* What the steps of the subscriptions leave alone.
logKept == <<subscriptionsMode, wal, toStart, stopState, crashed, following, subscribed, listeners,
             current, failures, heard>>

\* The emitter of the collection hands a document to the listeners there are, and none had it.
LEMMA EmitStep ==
    ASSUME FeedInv, NEW d \in counting, Feed!Emit(d)
    PROVE  FeedInv' /\ delivered' = delivered /\ heard' = heard /\ current' = current
  <1> PICK takers \in IF wal[d].patch THEN {{}} ELSE SUBSET Feed!Takers(d) :
          /\ joining' = [s \in Subscriber |-> joining[s] \cup (IF s \in takers THEN {d} ELSE {})]
          /\ accepted' = [s \in Subscriber |-> accepted[s] \cup (IF s \in takers THEN {d} ELSE {})]
    BY DEF Feed!Emit
  <1>1. /\ counting' = counting \ {d} /\ UNCHANGED logKept
        /\ UNCHANGED <<collOf, phase, registered, subscriptionCount, queue, lost, delivered, ended>>
    BY DEF Feed!Emit, Feed!database, Feed!server, Feed!provider, logKept
  <1>2. takers \subseteq registered /\ d \in Feed!Docs /\ d \in Feed!Range(heard)
    BY DEF Feed!Takers, FeedInv, LogTypes, LogInv
  <1>3. LogTypes' /\ LogInv'
    BY <1>1, LogKept DEF FeedInv, LogTypes, logKept
  <1>4. SubTypes'
    BY <1>1, <1>2 DEF FeedInv, SubTypes
  <1>5. CountInv'
    BY <1>1 DEF FeedInv, CountInv, Listening
  <1>6. ASSUME NEW s \in Subscriber PROVE SubInv(s)'
    <2>1. SubInv(s) /\ d \notin accepted[s]
      BY DEF FeedInv, SubInv
    <2>2. CASE s \in takers
      <3>1. phase[s] = "open" /\ joining'[s] = joining[s] \cup {d} /\ accepted'[s] = accepted[s] \cup {d}
        BY <1>2, <2>1, <2>2 DEF SubInv
      <3>2. Placed(joining'[s], lost[s], queue[s], delivered[s], accepted'[s])
        BY <2>1, <3>1 DEF SubInv, Placed
      <3>3. Whole(joining'[s], lost[s], queue[s], delivered[s], accepted'[s])
        BY <2>1, <3>1 DEF SubInv, Whole
      <3>4. accepted'[s] \subseteq Feed!Range(heard) \ counting'
        BY <1>1, <1>2, <2>1, <3>1 DEF SubInv
      <3> QED
        BY <1>1, <2>1, <3>1, <3>2, <3>3, <3>4 DEF SubInv, logKept
    <2>3. CASE s \notin takers
      <3>1. joining'[s] = joining[s] /\ accepted'[s] = accepted[s]
        BY <2>3
      <3> QED
        BY <1>1, <2>1, <3>1 DEF SubInv, logKept
    <2> QED
      BY <2>2, <2>3
  <1> QED
    BY <1>1, <1>3, <1>4, <1>5, <1>6 DEF FeedInv, logKept

\* The documents of a subscription after a step of its own.
LEMMA JoinedStep ==
    ASSUME FeedInv, NEW s \in Subscriber, NEW d \in joining[s], Feed!Joined(s, d)
    PROVE  /\ FeedInv' /\ heard' = heard /\ current' = current
           /\ \A r \in Subscriber : phase[r] = "closed" => delivered'[r] = delivered[r]
  <1> DEFINE push == Feed!PushValue(queue[s], d)
  <1>1. /\ joining' = [joining EXCEPT ![s] = @ \ {d}]
        /\ queue' = [queue EXCEPT ![s] = push.queue]
        /\ delivered' = [delivered EXCEPT ![s] = @ \o push.value]
        /\ ended' = [ended EXCEPT ![s] = @ \/ (queue[s].pulls > 0 /\ ~queue[s].running)]
        /\ UNCHANGED logKept
        /\ UNCHANGED <<counting, collOf, phase, registered, subscriptionCount, accepted, lost>>
    BY DEF Feed!Joined, Feed!database, Feed!server, Feed!provider, Feed!feed, logKept
  <1>2. /\ queue[s] \in Queue /\ delivered[s] \in Seq(Feed!Docs) /\ d \in Feed!Docs /\ SubInv(s)
        /\ joining[s] \subseteq Feed!Docs
    BY DEF FeedInv, SubTypes
  <1>3. /\ push.queue \in Queue /\ push.queue.running = queue[s].running
        /\ delivered[s] \o push.value \in Seq(Feed!Docs)
        /\ ~queue[s].running => delivered[s] \o push.value = delivered[s]
        /\ Placed(joining[s] \ {d}, lost[s], push.queue, delivered[s] \o push.value, accepted[s])
        /\ queue[s].running /\ Whole(joining[s], lost[s], queue[s], delivered[s], accepted[s]) =>
              Whole(joining[s] \ {d}, lost[s], push.queue, delivered[s] \o push.value, accepted[s])
    <2>1. Placed(joining[s], lost[s], queue[s], delivered[s], accepted[s])
      BY <1>2 DEF SubInv
    <2>2. Keeps(joining[s], joining[s] \ {d}, lost[s], queue[s], delivered[s], accepted[s], push)
      BY <1>2, <2>1, PushPlaces
    <2> QED
      BY <2>2, Zenon DEF Keeps
  <1> HIDE DEF push
  <1>4. LogTypes' /\ LogInv'
    BY <1>1, LogKept DEF FeedInv, LogTypes, logKept
  <1>5. SubTypes'
    BY <1>1, <1>2, <1>3 DEF FeedInv, SubTypes
  <1>6. CountInv'
    BY <1>1 DEF FeedInv, CountInv, Listening
  <1>7. /\ joining'[s] = joining[s] \ {d} /\ queue'[s] = push.queue
        /\ delivered'[s] = delivered[s] \o push.value
    BY <1>1 DEF FeedInv, SubTypes
  <1>8. joining[s] # {} /\ accepted[s] # {} /\ phase[s] \notin {"idle", "counting"}
    BY <1>2 DEF SubInv, Placed
  <1>9. SubInv(s)'
    BY <1>1, <1>2, <1>3, <1>7, <1>8 DEF SubInv, logKept
  <1>10. ASSUME NEW r \in Subscriber, r # s PROVE SubInv(r)' /\ delivered'[r] = delivered[r]
    <2>1. /\ joining'[r] = joining[r] /\ queue'[r] = queue[r] /\ delivered'[r] = delivered[r]
      BY <1>1, <1>10 DEF FeedInv, SubTypes
    <2> QED
      BY <1>1, <2>1, OtherKept DEF FeedInv, logKept
  <1>11. phase[s] = "closed" => delivered'[s] = delivered[s]
    BY <1>2, <1>3, <1>7 DEF SubInv
  <1> QED
    BY <1>1, <1>4, <1>5, <1>6, <1>9, <1>10, <1>11 DEF FeedInv, logKept

\* A failed join loses its document and no other.
LEMMA JoinFailsStep ==
    ASSUME FeedInv, NEW s \in Subscriber, NEW d \in joining[s], Feed!JoinFails(s, d)
    PROVE  FeedInv' /\ delivered' = delivered /\ heard' = heard /\ current' = current
  <1>1. /\ joining' = [joining EXCEPT ![s] = @ \ {d}] /\ lost' = [lost EXCEPT ![s] = @ \cup {d}]
        /\ UNCHANGED logKept
        /\ UNCHANGED <<counting, collOf, phase, registered, subscriptionCount, queue, accepted, delivered, ended>>
    BY DEF Feed!JoinFails, Feed!database, Feed!server, Feed!provider, Feed!feed, logKept
  <1>2. d \in Feed!Docs /\ SubInv(s)
    BY DEF FeedInv, SubTypes
  <1>3. LogTypes' /\ LogInv'
    BY <1>1, LogKept DEF FeedInv, LogTypes, logKept
  <1>4. SubTypes'
    BY <1>1, <1>2 DEF FeedInv, SubTypes
  <1>5. CountInv'
    BY <1>1 DEF FeedInv, CountInv, Listening
  <1>6. joining'[s] = joining[s] \ {d} /\ lost'[s] = lost[s] \cup {d}
    BY <1>1 DEF FeedInv, SubTypes
  <1>7. Placed(joining'[s], lost'[s], queue[s], delivered[s], accepted[s])
    BY <1>2, <1>6 DEF SubInv, Placed
  <1>8. Whole(joining[s], lost[s], queue[s], delivered[s], accepted[s]) =>
            Whole(joining'[s], lost'[s], queue[s], delivered[s], accepted[s])
    BY <1>6 DEF Whole
  <1>9. SubInv(s)'
    BY <1>1, <1>2, <1>7, <1>8 DEF SubInv, logKept
  <1>10. ASSUME NEW r \in Subscriber, r # s PROVE SubInv(r)'
    <2>1. joining'[r] = joining[r] /\ lost'[r] = lost[r]
      BY <1>1, <1>10 DEF FeedInv, SubTypes
    <2> QED
      BY <1>1, <2>1, OtherKept DEF FeedInv, logKept
  <1> QED
    BY <1>1, <1>3, <1>4, <1>5, <1>9, <1>10 DEF FeedInv, logKept

\* next() of the client.
LEMMA NextStep ==
    ASSUME FeedInv, NEW s \in Subscriber, Feed!ConsumerNext(s)
    PROVE  /\ FeedInv' /\ heard' = heard /\ current' = current
           /\ \A r \in Subscriber : phase[r] = "closed" => delivered'[r] = delivered[r]
  <1> DEFINE next == Feed!NextCall(queue[s])
  <1>1. /\ phase[s] \in {"open", "closed"} /\ queue[s].pulls = 0
        /\ queue' = [queue EXCEPT ![s] = next.queue]
        /\ delivered' = [delivered EXCEPT ![s] = @ \o next.value]
        /\ ended' = [ended EXCEPT ![s] = queue[s].pushQueue # <<>> /\ ~queue[s].running]
        /\ UNCHANGED logKept
        /\ UNCHANGED <<counting, collOf, phase, registered, subscriptionCount, joining, accepted, lost>>
    BY DEF Feed!ConsumerNext, Feed!database, Feed!server, Feed!provider, Feed!feed, logKept
  <1>2. /\ queue[s] \in Queue /\ delivered[s] \in Seq(Feed!Docs) /\ SubInv(s)
    BY DEF FeedInv, SubTypes
  <1>3. /\ next.queue \in Queue /\ next.queue.running = queue[s].running
        /\ delivered[s] \o next.value \in Seq(Feed!Docs)
        /\ ~queue[s].running => delivered[s] \o next.value = delivered[s]
        /\ Placed(joining[s], lost[s], next.queue, delivered[s] \o next.value, accepted[s])
        /\ queue[s].running /\ Whole(joining[s], lost[s], queue[s], delivered[s], accepted[s]) =>
              Whole(joining[s], lost[s], next.queue, delivered[s] \o next.value, accepted[s])
    <2>1. Placed(joining[s], lost[s], queue[s], delivered[s], accepted[s])
      BY <1>2 DEF SubInv
    <2>2. Keeps(joining[s], joining[s], lost[s], queue[s], delivered[s], accepted[s], next)
      BY <1>1, <1>2, <2>1, NextPlaces
    <2> QED
      BY <2>2, Zenon DEF Keeps
  <1> HIDE DEF next
  <1>4. LogTypes' /\ LogInv'
    BY <1>1, LogKept DEF FeedInv, LogTypes, logKept
  <1>5. SubTypes'
    BY <1>1, <1>2, <1>3 DEF FeedInv, SubTypes
  <1>6. CountInv'
    BY <1>1 DEF FeedInv, CountInv, Listening
  <1>7. queue'[s] = next.queue /\ delivered'[s] = delivered[s] \o next.value
    BY <1>1 DEF FeedInv, SubTypes
  <1>8. SubInv(s)'
    BY <1>1, <1>2, <1>3, <1>7 DEF SubInv, logKept
  <1>9. ASSUME NEW r \in Subscriber, r # s PROVE SubInv(r)' /\ delivered'[r] = delivered[r]
    <2>1. queue'[r] = queue[r] /\ delivered'[r] = delivered[r]
      BY <1>1, <1>9 DEF FeedInv, SubTypes
    <2> QED
      BY <1>1, <2>1, OtherKept DEF FeedInv, logKept
  <1>10. phase[s] = "closed" => delivered'[s] = delivered[s]
    BY <1>2, <1>3, <1>7 DEF SubInv
  <1> QED
    BY <1>1, <1>4, <1>5, <1>6, <1>8, <1>9, <1>10 DEF FeedInv, logKept

\* subscribe() up to its await: nothing is registered yet.
LEMMA SubscribeStep ==
    ASSUME FeedInv, NEW s \in Subscriber, Feed!Subscribe(s)
    PROVE  FeedInv' /\ delivered' = delivered /\ heard' = heard /\ current' = current
  <1> PICK c \in Collection : collOf' = [collOf EXCEPT ![s] = c]
    BY DEF Feed!Subscribe
  <1>1. /\ phase[s] = "idle" /\ phase' = [phase EXCEPT ![s] = "counting"] /\ UNCHANGED logKept
        /\ UNCHANGED <<counting, registered, subscriptionCount, queue, joining, accepted, lost, delivered, ended>>
    BY DEF Feed!Subscribe, Feed!database, Feed!server, Feed!provider, Feed!feed, logKept
  <1>2. SubInv(s)
    BY DEF FeedInv
  <1>3. LogTypes' /\ LogInv'
    BY <1>1, LogKept DEF FeedInv, LogTypes, logKept
  <1>4. SubTypes'
    BY <1>1 DEF FeedInv, SubTypes
  <1>5. s \notin registered
    BY <1>1, <1>2 DEF SubInv
  <1>6. \A r \in registered : collOf'[r] = collOf[r]
    BY <1>5 DEF FeedInv, SubTypes
  <1>7. CountInv'
    <2>1. \A e \in Collection : Listening(e)' = Listening(e)
      BY <1>1, <1>6 DEF Listening
    <2> QED
      BY <1>1, <2>1 DEF FeedInv, CountInv
  <1>8. phase'[s] = "counting" /\ \A r \in Subscriber : r # s => phase'[r] = phase[r]
    BY <1>1 DEF FeedInv, SubTypes
  <1>9. SubInv(s)'
    BY <1>1, <1>2, <1>5, <1>8 DEF SubInv, logKept
  <1>10. ASSUME NEW r \in Subscriber, r # s PROVE SubInv(r)'
    BY <1>1, <1>8, <1>10, OtherKept DEF FeedInv, logKept
  <1> QED
    BY <1>1, <1>3, <1>4, <1>7, <1>9, <1>10 DEF FeedInv, logKept

\* A subscription is registered and counted in one step.
LEMMA OpenStep ==
    ASSUME FeedInv, NEW s \in Subscriber, Feed!Open(s)
    PROVE  FeedInv' /\ delivered' = delivered /\ heard' = heard /\ current' = current
  <1>1. /\ phase[s] = "counting" /\ phase' = [phase EXCEPT ![s] = "open"]
        /\ registered' = registered \cup {s}
        /\ subscriptionCount' = [subscriptionCount EXCEPT ![collOf[s]] = @ + 1] /\ UNCHANGED logKept
        /\ UNCHANGED <<counting, collOf, queue, joining, accepted, lost, delivered, ended>>
    BY DEF Feed!Open, Feed!database, Feed!server, Feed!provider, Feed!feed, logKept
  <1>2. SubInv(s) /\ collOf[s] \in Collection
    BY DEF FeedInv, SubTypes
  <1>3. LogTypes' /\ LogInv'
    BY <1>1, LogKept DEF FeedInv, LogTypes, logKept
  <1>4. SubTypes'
    BY <1>1, <1>2 DEF FeedInv, SubTypes
  <1>5. s \notin registered
    BY <1>1, <1>2 DEF SubInv
  <1>6. CountInv'
    <2> SUFFICES ASSUME NEW e \in Collection PROVE subscriptionCount'[e] = Cardinality(Listening(e)')
      BY DEF CountInv
    <2>1. IsFiniteSet(Listening(e))
      BY FS_Subset, SubscriptionsAssumption DEF Listening, FeedInv, SubTypes
    <2>2. CASE e = collOf[s]
      <3>1. Listening(e)' = Listening(e) \cup {s} /\ s \notin Listening(e)
        BY <1>1, <1>5, <2>2 DEF Listening
      <3>2. Cardinality(Listening(e)') = Cardinality(Listening(e)) + 1
        BY <2>1, <3>1, FS_AddElement
      <3>3. subscriptionCount'[e] = subscriptionCount[e] + 1
        BY <1>1, <2>2 DEF FeedInv, SubTypes
      <3> QED
        BY <3>2, <3>3 DEF FeedInv, CountInv
    <2>3. CASE e # collOf[s]
      <3>1. Listening(e)' = Listening(e)
        BY <1>1, <2>3 DEF Listening
      <3>2. subscriptionCount'[e] = subscriptionCount[e]
        BY <1>1, <2>3 DEF FeedInv, SubTypes
      <3> QED
        BY <3>1, <3>2 DEF FeedInv, CountInv
    <2> QED
      BY <2>2, <2>3
  <1>8. phase'[s] = "open" /\ \A r \in Subscriber : r # s => phase'[r] = phase[r]
    BY <1>1 DEF FeedInv, SubTypes
  <1>9. SubInv(s)'
    <2>1. queue[s].running
      BY <1>1, <1>2 DEF SubInv, Feed!NewSubscription
    <2>2. Whole(joining[s], lost[s], queue[s], delivered[s], accepted[s])
      BY <1>1, <1>2 DEF SubInv, Whole
    <2> QED
      BY <1>1, <1>2, <1>8, <2>1, <2>2 DEF SubInv, logKept
  <1>10. ASSUME NEW r \in Subscriber, r # s PROVE SubInv(r)'
    BY <1>1, <1>8, <1>10, OtherKept DEF FeedInv, logKept
  <1> QED
    BY <1>1, <1>3, <1>4, <1>6, <1>9, <1>10 DEF FeedInv, logKept

\* return() of the client removes the listener, empties the queue and is counted once.
LEMMA ReturnStep ==
    ASSUME FeedInv, NEW s \in Subscriber, Feed!ConsumerReturn(s)
    PROVE  FeedInv' /\ delivered' = delivered /\ heard' = heard /\ current' = current
  <1>1. /\ phase[s] = "open" /\ phase' = [phase EXCEPT ![s] = "closed"]
        /\ registered' = registered \ {s}
        /\ subscriptionCount' = [subscriptionCount EXCEPT ![collOf[s]] = IF @ > 0 THEN @ - 1 ELSE 0]
        /\ queue' = [queue EXCEPT ![s] = Feed!EmptyQueue(@)]
        /\ ended' = [ended EXCEPT ![s] = @ \/ queue[s].pulls > 0] /\ UNCHANGED logKept
        /\ UNCHANGED <<counting, collOf, joining, accepted, lost, delivered>>
    BY DEF Feed!ConsumerReturn, Feed!database, Feed!server, Feed!provider, Feed!feed, logKept
  <1>2. SubInv(s) /\ collOf[s] \in Collection /\ queue[s] \in Queue
    BY DEF FeedInv, SubTypes
  <1>3. queue[s].running /\ Feed!EmptyQueue(queue[s]) = [pushQueue |-> <<>>, pulls |-> 0, running |-> FALSE]
    BY <1>1, <1>2 DEF SubInv, Feed!EmptyQueue
  <1> DEFINE empty == [pushQueue |-> <<>>, pulls |-> 0, running |-> FALSE]
  <1>4. empty \in Queue /\ empty.pushQueue = <<>> /\ ~empty.running
    BY DEF Queue
  <1>5. queue' = [queue EXCEPT ![s] = empty]
    BY <1>1, <1>3
  <1> HIDE DEF empty
  <1>6. LogTypes' /\ LogInv'
    BY <1>1, LogKept DEF FeedInv, LogTypes, logKept
  <1>7. SubTypes'
    BY <1>1, <1>2, <1>4, <1>5 DEF FeedInv, SubTypes
  <1>8. s \in registered
    BY <1>1, <1>2 DEF SubInv
  <1>9. CountInv'
    <2> SUFFICES ASSUME NEW e \in Collection PROVE subscriptionCount'[e] = Cardinality(Listening(e)')
      BY DEF CountInv
    <2>1. IsFiniteSet(Listening(e))
      BY FS_Subset, SubscriptionsAssumption DEF Listening, FeedInv, SubTypes
    <2>2. CASE e = collOf[s]
      <3>1. Listening(e)' = Listening(e) \ {s} /\ s \in Listening(e)
        BY <1>1, <1>8, <2>2 DEF Listening
      <3>2. Cardinality(Listening(e)') = Cardinality(Listening(e)) - 1
        BY <2>1, <3>1, FS_RemoveElement
      <3>3. Cardinality(Listening(e)) \in Nat /\ Cardinality(Listening(e)) # 0
        BY <2>1, <3>1, FS_CardinalityType, FS_EmptySet
      <3>4. subscriptionCount[e] = Cardinality(Listening(e))
        BY DEF FeedInv, CountInv
      <3>5. subscriptionCount'[e] = IF subscriptionCount[e] > 0 THEN subscriptionCount[e] - 1 ELSE 0
        BY <1>1, <2>2 DEF FeedInv, SubTypes
      <3> QED
        BY <3>2, <3>3, <3>4, <3>5
    <2>3. CASE e # collOf[s]
      <3>1. Listening(e)' = Listening(e)
        BY <1>1, <2>3 DEF Listening
      <3>2. subscriptionCount'[e] = subscriptionCount[e]
        BY <1>1, <2>3 DEF FeedInv, SubTypes
      <3> QED
        BY <3>1, <3>2 DEF FeedInv, CountInv
    <2> QED
      BY <2>2, <2>3
  <1>10. phase'[s] = "closed" /\ queue'[s] = empty
         /\ \A r \in Subscriber : r # s => phase'[r] = phase[r] /\ queue'[r] = queue[r]
    BY <1>1, <1>5 DEF FeedInv, SubTypes
  <1>11. SubInv(s)'
    <2>1. Feed!Range(<<>>) = {} /\ Distinct(<<>>)
      BY DEF Feed!Range, Distinct
    <2>2. Placed(joining[s], lost[s], empty, delivered[s], accepted[s])
      BY <1>2, <1>4, <2>1 DEF SubInv, Placed
    <2> QED
      BY <1>1, <1>2, <1>10, <1>4, <2>2 DEF SubInv, logKept
  <1>12. ASSUME NEW r \in Subscriber, r # s PROVE SubInv(r)'
    BY <1>1, <1>10, <1>12, OtherKept DEF FeedInv, logKept
  <1> QED
    BY <1>1, <1>6, <1>7, <1>9, <1>11, <1>12 DEF FeedInv, logKept

-----------------------------------------------------------------------------
(* The subscriptions of the external services *)

\* A subscription has a client of Redis as soon as it has begun, and its
\* iterator is closed at the earliest when subscribe() is at its end.
ExternalInv ==
    /\ External!TypeOK /\ External!ReleasedWhenClosed /\ External!NoneOnFailedRedis
    /\ \A s \in Client : stage[s] # "idle" => redisOf[s] \in DOMAIN healthy
    /\ \A s \in Client : closed[s] => stage[s] \in {"open", "rejected"}
    /\ \A s \in Client : call[s] # "none" => stage[s] = "open"

\* The subscriptions that count.
AliveOnes == {s \in Client : External!Alive(s)}

\* The sizes that the backends speak of.
LEMMA SameSize == \A S : External!Cardinality(S) = Cardinality(S) /\ Feed!Cardinality(S) = Cardinality(S)
  <1> TAKE S
  <1>1. External!Cardinality(S) = Cardinality(S)
    BY DEF External!Cardinality, Cardinality
  <1>2. Feed!Cardinality(S) = Cardinality(S)
    BY DEF Feed!Cardinality, Cardinality
  <1> QED
    BY <1>1, <1>2

\* ReleasedWhenClosed in terms of the subscriptions that are alive.
LEMMA Released ==
    External!ReleasedWhenClosed <=>
        /\ \A s \in Client : External!Alive(s) <=> timer[s]
        /\ \A s \in Client : External!Alive(s) <=> s \in onError
        /\ activeCount <= Cardinality(AliveOnes)
  BY SameSize DEF External!ReleasedWhenClosed, AliveOnes

\* No external subscription is open at first.
LEMMA InitExternal == External!Init => ExternalInv
  <1> SUFFICES ASSUME External!Init PROVE ExternalInv
    OBVIOUS
  <1>1. healthy \in Seq(BOOLEAN) /\ Len(healthy) = 0 /\ \A s \in Client : channel[s] \in Seq(External!Message)
    BY DEF External!Init
  <1>2. External!TypeOK
    <2>1. shared \in 0..Len(healthy) /\ producers \in Nat /\ producer \in 0..producers /\ activeCount \in Nat
      BY <1>1 DEF External!Init
    <2>2. redisOf \in [Client -> 0..Len(healthy)] /\ channel \in [Client -> Seq(External!Message)]
      BY <1>1 DEF External!Init
    <2>3. published \in 0..MaxPublished /\ errors \in 0..MaxErrors
      BY SubscriptionsAssumption DEF External!Init
    <2>4. /\ stage \in [Client -> {"idle", "redis", "check", "connect", "send", "open", "rejected"}]
          /\ closed \in [Client -> BOOLEAN] /\ timer \in [Client -> BOOLEAN] /\ onError \subseteq Client
          /\ call \in [Client -> {"none", "waiting", "joining"}]
          /\ outcome \in [Client -> {"none", "done", "error"}]
          /\ returned \cup listens \subseteq Client
          /\ subscriptionsMode \in External!Modes /\ crashed \in BOOLEAN
      BY DEF External!Init
    <2>5. lease \in [Client -> 0..Patience] /\ failedPosts \in [Client -> 0..Patience]
      BY SubscriptionsAssumption DEF External!Init
    <2> QED
      BY <1>1, <2>1, <2>2, <2>3, <2>4, <2>5, Zenon DEF External!TypeOK
  <1>3. \A s \in Client : ~External!Alive(s) /\ ~timer[s] /\ s \notin onError
    BY DEF External!Init, External!Alive
  <1>4. AliveOnes = {} /\ activeCount = 0
    BY <1>3 DEF AliveOnes, External!Init
  <1>5. External!ReleasedWhenClosed
    BY <1>3, <1>4, FS_EmptySet, Released
  <1>6. External!NoneOnFailedRedis
    BY <1>3 DEF External!NoneOnFailedRedis
  <1> QED
    BY <1>2, <1>5, <1>6 DEF ExternalInv, External!Init

\* The open subscriptions can be counted.
LEMMA AliveFinite ==
    IsFiniteSet(AliveOnes) /\ Cardinality(AliveOnes) \in Nat
  BY SubscriptionsAssumption, FS_Subset, FS_CardinalityType DEF AliveOnes

\* onClose() of some subscriptions.
LEMMA Closes ==
    ASSUME ExternalInv, NEW ss \in SUBSET Client, NEW how \in {"done", "error"}, External!Close(ss, how),
           UNCHANGED stage
    PROVE  /\ closed' = [s \in Client |-> closed[s] \/ s \in ss] /\ closed' \in [Client -> BOOLEAN]
           /\ timer' \in [Client -> BOOLEAN] /\ onError' \subseteq Client
           /\ call' \in [Client -> {"none", "waiting", "joining"}]
           /\ outcome' \in [Client -> {"none", "done", "error"}]
           /\ listens' \subseteq listens /\ activeCount' \in Nat
           /\ \A s \in Client : call'[s] # "none" => call[s] # "none"
           /\ External!ReleasedWhenClosed' /\ failedPosts' \in [Client -> 0..Patience]
  <1>1. /\ closed' = [s \in Client |-> closed[s] \/ s \in ss]
        /\ timer' = [s \in Client |-> timer[s] /\ s \notin ss]
        /\ onError' = onError \ ss
        /\ activeCount' = IF activeCount > Cardinality(ss) THEN activeCount - Cardinality(ss) ELSE 0
        /\ listens' = listens \ ss
    BY SameSize DEF External!Close
  <1>2. IsFiniteSet(ss) /\ Cardinality(ss) \in Nat
    BY SubscriptionsAssumption, FS_Subset, FS_CardinalityType
  <1>3. activeCount \in Nat /\ activeCount <= Cardinality(AliveOnes)
    BY Released DEF ExternalInv, External!TypeOK
  <1>4. AliveOnes' = AliveOnes \ ss
    BY <1>1 DEF AliveOnes, External!Alive
  <1>5. Cardinality(AliveOnes) - Cardinality(ss) <= Cardinality(AliveOnes') /\ Cardinality(AliveOnes') \in Nat
    <2> DEFINE A == AliveOnes  B == AliveOnes \ ss
    <2>1. IsFiniteSet(B) /\ Cardinality(B) \in Nat
      BY AliveFinite, FS_Subset, FS_CardinalityType
    <2>2. B \cap ss = {} /\ A \subseteq B \cup ss
      OBVIOUS
    <2>3. IsFiniteSet(B \cup ss) /\ Cardinality(B \cup ss) = Cardinality(B) + Cardinality(ss)
      BY <1>2, <2>1, <2>2, DisjointSizes, Zenon
    <2>4. Cardinality(A) <= Cardinality(B \cup ss)
      BY <2>2, <2>3, FS_Subset
    <2> HIDE DEF A, B
    <2>5. Cardinality(A) - Cardinality(ss) <= Cardinality(B)
      BY <1>2, <2>1, <2>3, <2>4, AliveFinite DEF A
    <2> QED
      BY <1>4, <2>1, <2>5 DEF A, B
  <1>6. activeCount' \in Nat /\ activeCount' <= Cardinality(AliveOnes')
    BY <1>1, <1>2, <1>3, <1>5, AliveFinite
  <1>7. /\ \A s \in Client : External!Alive(s)' <=> timer'[s]
        /\ \A s \in Client : External!Alive(s)' <=> s \in onError'
    BY <1>1, Released DEF ExternalInv, External!Alive
  <1>8. External!ReleasedWhenClosed'
    BY <1>6, <1>7, SameSize DEF External!ReleasedWhenClosed, AliveOnes
  <1>9. /\ call' \in [Client -> {"none", "waiting", "joining"}]
        /\ outcome' \in [Client -> {"none", "done", "error"}]
        /\ \A s \in Client : call'[s] # "none" => call[s] # "none"
    BY DEF External!Close, ExternalInv, External!TypeOK
  <1>10. closed' \in [Client -> BOOLEAN] /\ timer' \in [Client -> BOOLEAN] /\ onError' \subseteq Client
    BY <1>1 DEF ExternalInv, External!TypeOK
  <1>11. failedPosts' \in [Client -> 0..Patience]
    BY SubscriptionsAssumption DEF External!Close, ExternalInv, External!TypeOK
  <1> QED
    BY <1>1, <1>6, <1>8, <1>9, <1>10, <1>11

\* Steps that leave the iterators and the clients of Redis alone.
LEMMA IteratorsKept ==
    ASSUME ExternalInv, External!TypeOK',
           UNCHANGED <<healthy, stage, redisOf, closed, timer, onError, activeCount, crashed>>,
           \A s \in Client : call'[s] # "none" => stage[s] = "open"
    PROVE  ExternalInv'
  BY DEF ExternalInv, External!ReleasedWhenClosed, External!NoneOnFailedRedis, External!Alive

\* Steps that close iterators of subscribe()s at their end.
LEMMA ClosesStep ==
    ASSUME ExternalInv, NEW ss \in SUBSET Client, NEW how \in {"done", "error"}, External!Close(ss, how),
           \A s \in ss : stage[s] = "open",
           UNCHANGED <<subscriptionsMode, shared, producers, producer, stage, redisOf>>,
           healthy' \in Seq(BOOLEAN), Len(healthy') = Len(healthy), crashed' \in BOOLEAN,
           returned' \subseteq Client, lease' \in [Client -> 0..Patience],
           channel' \in [Client -> Seq(External!Message)],
           published' \in 0..MaxPublished, errors' \in 0..MaxErrors,
           ~crashed' => \A s \in Client \ ss : External!Alive(s) => healthy'[redisOf[s]]
    PROVE  ExternalInv'
  <1>1. /\ closed' = [s \in Client |-> closed[s] \/ s \in ss] /\ closed' \in [Client -> BOOLEAN]
        /\ timer' \in [Client -> BOOLEAN] /\ onError' \subseteq Client
        /\ call' \in [Client -> {"none", "waiting", "joining"}]
        /\ outcome' \in [Client -> {"none", "done", "error"}]
        /\ listens' \subseteq listens /\ activeCount' \in Nat
        /\ \A s \in Client : call'[s] # "none" => call[s] # "none"
        /\ External!ReleasedWhenClosed' /\ failedPosts' \in [Client -> 0..Patience]
    BY Closes
  <1>2. External!TypeOK'
    BY <1>1 DEF ExternalInv, External!TypeOK
  <1>3. \A s \in Client : External!Alive(s)' => External!Alive(s) /\ s \notin ss
    BY <1>1 DEF External!Alive
  <1>4. External!NoneOnFailedRedis'
    BY <1>3 DEF External!NoneOnFailedRedis
  <1>5. DOMAIN healthy' = DOMAIN healthy
    BY DEF ExternalInv, External!TypeOK
  <1> QED
    BY <1>1, <1>2, <1>4, <1>5 DEF ExternalInv

\* next() waits, or is told of the end.
LEMMA ConsumerNextStep ==
    ASSUME ExternalInv, NEW s \in Client, External!ConsumerNext(s)
    PROVE  ExternalInv'
  <1>1. /\ UNCHANGED <<subscriptionsMode, healthy, shared, producers, producer, crashed, stage, redisOf, closed,
                       timer, onError, activeCount, returned, lease, channel, published, errors, failedPosts>>
        /\ stage[s] = "open"
    BY DEF External!ConsumerNext, External!server, External!resolver, External!services
  <1>2. /\ call' \in [Client -> {"none", "waiting", "joining"}]
        /\ outcome' \in [Client -> {"none", "done", "error"}] /\ listens' \subseteq Client
        /\ \A r \in Client : r # s => call'[r] = call[r]
    <2>1. /\ call \in [Client -> {"none", "waiting", "joining"}]
          /\ outcome \in [Client -> {"none", "done", "error"}] /\ listens \subseteq Client
      BY DEF ExternalInv, External!TypeOK
    <2>2. CASE closed[s]
      BY <2>1, <2>2 DEF External!ConsumerNext
    <2>3. CASE ~closed[s]
      <3>1. call' = [call EXCEPT ![s] = "waiting"] /\ listens' = listens \cup {s} /\ outcome' = outcome
        BY <2>3 DEF External!ConsumerNext
      <3> QED
        BY <2>1, <3>1
    <2> QED
      BY <2>2, <2>3
  <1>3. External!TypeOK'
    BY <1>1, <1>2 DEF ExternalInv, External!TypeOK
  <1> QED
    BY <1>1, <1>2, <1>3, IteratorsKept DEF ExternalInv

\* A message is a document to join, or it ends the subscription.
LEMMA ReceiveStep ==
    ASSUME ExternalInv, NEW s \in Client, External!Receive(s)
    PROVE  ExternalInv'
  <1>1. UNCHANGED <<subscriptionsMode, healthy, shared, producers, producer, crashed, stage, redisOf,
                    returned, lease, published, errors>>
    BY DEF External!Receive, External!server, External!resolver
  <1>2. stage[s] = "open"
    BY DEF External!Receive, ExternalInv
  <1>3. channel' \in [Client -> Seq(External!Message)]
    <2>1. channel[s] \in Seq(External!Message) /\ channel[s] # <<>>
          /\ channel' = [channel EXCEPT ![s] = Tail(channel[s])]
      BY DEF External!Receive, ExternalInv, External!TypeOK
    <2>2. Tail(channel[s]) \in Seq(External!Message)
      BY <2>1
    <2> QED
      BY <2>1, <2>2 DEF ExternalInv, External!TypeOK
  <1>4. CASE Head(channel[s]) = "document"
    <2>1. UNCHANGED <<closed, timer, onError, activeCount, failedPosts, outcome, listens>>
          /\ call' = [call EXCEPT ![s] = "joining"]
      BY <1>4 DEF External!Receive, External!resolver
    <2>2. External!TypeOK'
      BY <1>1, <1>3, <2>1 DEF ExternalInv, External!TypeOK
    <2>3. \A r \in Client : call'[r] # "none" => stage[r] = "open"
      BY <1>2, <2>1 DEF ExternalInv, External!TypeOK
    <2> QED
      BY <1>1, <2>1, <2>2, <2>3, IteratorsKept
  <1>5. CASE Head(channel[s]) # "document"
    <2>1. External!Close({s}, "error") /\ {s} \in SUBSET Client /\ "error" \in {"done", "error"}
      BY <1>5 DEF External!Receive
    <2>2. /\ healthy' \in Seq(BOOLEAN) /\ Len(healthy') = Len(healthy) /\ crashed' \in BOOLEAN
          /\ returned' \subseteq Client /\ lease' \in [Client -> 0..Patience]
          /\ published' \in 0..MaxPublished /\ errors' \in 0..MaxErrors
      BY <1>1 DEF ExternalInv, External!TypeOK
    <2>3. ~crashed' => \A r \in Client : External!Alive(r) => healthy'[redisOf[r]]
      BY <1>1 DEF ExternalInv, External!NoneOnFailedRedis
    <2> QED
      BY <1>1, <1>2, <1>3, <2>1, <2>2, <2>3, ClosesStep
  <1> QED
    BY <1>4, <1>5

\* The end of a join answers the call that waits for it.
LEMMA JoinEndsStep ==
    ASSUME ExternalInv, NEW s \in Client, External!JoinEnds(s)
    PROVE  ExternalInv'
  <1>1. /\ UNCHANGED <<subscriptionsMode, healthy, shared, producers, producer, crashed, stage, redisOf, closed,
                       timer, onError, activeCount, returned, listens, lease, channel, published, errors, failedPosts>>
        /\ call' = [call EXCEPT ![s] = "none"]
    BY DEF External!JoinEnds, External!server, External!resolver, External!services
  <1>2. outcome' \in [Client -> {"none", "done", "error"}]
    BY DEF External!JoinEnds, ExternalInv, External!TypeOK
  <1>3. External!TypeOK'
    BY <1>1, <1>2 DEF ExternalInv, External!TypeOK
  <1>4. \A r \in Client : call'[r] # "none" => stage[r] = "open"
    BY <1>1 DEF ExternalInv, External!TypeOK
  <1> QED
    BY <1>1, <1>3, <1>4, IteratorsKept

\* return() of the client closes its subscription.
LEMMA ConsumerReturnStep ==
    ASSUME ExternalInv, NEW s \in Client, External!ConsumerReturn(s)
    PROVE  ExternalInv'
  <1>1. /\ UNCHANGED <<subscriptionsMode, healthy, shared, producers, producer, crashed, stage, redisOf,
                       lease, channel, published, errors>>
        /\ returned' = returned \cup {s} /\ stage[s] = "open"
    BY DEF External!ConsumerReturn, External!server, External!services
  <1>2. External!Close({s}, "done") /\ {s} \in SUBSET Client /\ "done" \in {"done", "error"}
    BY DEF External!ConsumerReturn
  <1>3. /\ healthy' \in Seq(BOOLEAN) /\ Len(healthy') = Len(healthy) /\ crashed' \in BOOLEAN
        /\ returned' \subseteq Client /\ lease' \in [Client -> 0..Patience]
        /\ channel' \in [Client -> Seq(External!Message)]
        /\ published' \in 0..MaxPublished /\ errors' \in 0..MaxErrors
    BY <1>1 DEF ExternalInv, External!TypeOK
  <1>4. ~crashed' => \A r \in Client : External!Alive(r) => healthy'[redisOf[r]]
    BY <1>1 DEF ExternalInv, External!NoneOnFailedRedis
  <1> QED
    BY <1>1, <1>2, <1>3, <1>4, ClosesStep

\* Until it is open, a subscription has nothing to release.
LEMMA EnsureRedisStep ==
    ASSUME ExternalInv, NEW s \in Client, External!EnsureRedis(s)
    PROVE  ExternalInv'
  <1>1. /\ UNCHANGED <<subscriptionsMode, shared, producers, producer, crashed, closed, timer, onError, activeCount, call,
                       outcome, returned, listens, lease, channel, published, errors, failedPosts>>
        /\ stage[s] = "idle"
    BY DEF External!EnsureRedis, External!client, External!services
  <1>2. PICK st \in {"redis", "check"}, k \in DOMAIN healthy' :
          /\ stage' = [stage EXCEPT ![s] = st] /\ redisOf' = [redisOf EXCEPT ![s] = k]
          /\ healthy' \in Seq(BOOLEAN) /\ Len(healthy) <= Len(healthy')
          /\ \A i \in DOMAIN healthy : i \in DOMAIN healthy' /\ healthy'[i] = healthy[i]
    <2>1. CASE shared # 0
      BY <2>1 DEF External!EnsureRedis, ExternalInv, External!TypeOK
    <2>2. CASE shared = 0
      <3>1. healthy' = Append(healthy, TRUE) /\ stage' = [stage EXCEPT ![s] = "redis"]
            /\ redisOf' = [redisOf EXCEPT ![s] = Len(healthy')] /\ healthy \in Seq(BOOLEAN)
        BY <2>2 DEF External!EnsureRedis, ExternalInv, External!TypeOK
      <3>2. /\ healthy' \in Seq(BOOLEAN) /\ Len(healthy') = Len(healthy) + 1 /\ Len(healthy) \in Nat
            /\ Len(healthy') \in DOMAIN healthy'
            /\ \A i \in DOMAIN healthy : i \in DOMAIN healthy' /\ healthy'[i] = healthy[i]
        <4>1. TRUE \in BOOLEAN /\ Len(healthy) \in Nat /\ DOMAIN healthy = 1..Len(healthy)
          BY <3>1
        <4>2. /\ healthy' \in Seq(BOOLEAN) /\ Len(healthy') = Len(healthy) + 1
              /\ \A i \in 1..Len(healthy) : healthy'[i] = healthy[i]
          BY <3>1, <4>1, AppendProperties
        <4>3. DOMAIN healthy' = 1..(Len(healthy) + 1)
          BY <4>2
        <4> QED
          BY <4>1, <4>2, <4>3
      <3>3. Len(healthy) <= Len(healthy') /\ "redis" \in {"redis", "check"}
        BY <3>2
      <3> QED
        BY <3>1, <3>2, <3>3
    <2> QED
      BY <2>1, <2>2
  <1>3. External!TypeOK'
    BY <1>1, <1>2 DEF ExternalInv, External!TypeOK
  <1>4. /\ \A r \in Client : r # s => stage'[r] = stage[r] /\ redisOf'[r] = redisOf[r]
        /\ stage'[s] \in {"redis", "check"} /\ redisOf'[s] \in DOMAIN healthy'
    BY <1>2 DEF ExternalInv, External!TypeOK
  <1>5. \A r \in Client : External!Alive(r)' <=> External!Alive(r)
    BY <1>1, <1>4 DEF External!Alive
  <1>6. External!ReleasedWhenClosed'
    BY <1>1, <1>5 DEF ExternalInv, External!ReleasedWhenClosed
  <1>7. External!NoneOnFailedRedis'
    BY <1>1, <1>2, <1>4, <1>5 DEF ExternalInv, External!NoneOnFailedRedis, External!Alive
  <1> QED
    BY <1>1, <1>2, <1>3, <1>4, <1>6, <1>7 DEF ExternalInv

\* The steps of subscribe() in between.
LEMMA ResolverKept ==
    ASSUME ExternalInv, NEW s \in Client, stage[s] \notin {"idle", "open"},
           NEW st \in {"check", "connect", "send", "rejected"}, stage' = [stage EXCEPT ![s] = st],
           UNCHANGED <<subscriptionsMode, healthy, crashed, redisOf, closed, timer, onError, activeCount, call,
                       outcome, returned, listens, lease, channel, published, errors, failedPosts>>,
           shared' \in 0..Len(healthy), producers' \in Nat, producer' \in 0..producers',
           ~closed[s]
    PROVE  ExternalInv'
  <1>1. External!TypeOK'
    BY DEF ExternalInv, External!TypeOK
  <1>2. \A r \in Client : IF r = s THEN stage'[r] = st ELSE stage'[r] = stage[r]
    BY DEF ExternalInv, External!TypeOK
  <1>3. \A r \in Client : External!Alive(r)' <=> External!Alive(r)
    BY <1>2 DEF External!Alive
  <1>4. External!ReleasedWhenClosed' /\ External!NoneOnFailedRedis'
    BY <1>3 DEF ExternalInv, External!ReleasedWhenClosed, External!NoneOnFailedRedis
  <1> QED
    BY <1>1, <1>2, <1>4 DEF ExternalInv

\* Until it is open, a subscription may fail at any await, with nothing to release.
LEMMA ResolverStep ==
    ASSUME ExternalInv, NEW s \in Client,
           External!RedisMade(s) \/ External!Check(s) \/ External!Connect(s) \/ External!SendFails(s)
    PROVE  ExternalInv'
  <1>1. stage[s] \in {"redis", "check", "connect", "send"} /\ ~closed[s] /\ redisOf[s] \in DOMAIN healthy
    BY DEF External!RedisMade, External!Check, External!Connect, External!SendFails, ExternalInv
  <1>2. UNCHANGED <<subscriptionsMode, healthy, crashed, redisOf, closed, timer, onError, activeCount, call,
                    outcome, returned, listens, lease, channel, published, errors, failedPosts>>
    BY DEF External!RedisMade, External!Check, External!Connect, External!SendFails, External!client,
           External!services, External!server
  <1>3. PICK st \in {"check", "connect", "send", "rejected"} : stage' = [stage EXCEPT ![s] = st]
    BY DEF External!RedisMade, External!Check, External!Connect, External!SendFails
  <1>4. shared' \in 0..Len(healthy) /\ producers' \in Nat /\ producer' \in 0..producers'
    <2>1. CASE External!RedisMade(s)
      BY <1>1, <2>1 DEF External!RedisMade, ExternalInv, External!TypeOK
    <2>2. CASE External!Check(s)
      BY <2>2 DEF External!Check, ExternalInv, External!TypeOK
    <2>3. CASE External!Connect(s)
      BY <2>3 DEF External!Connect, ExternalInv, External!TypeOK
    <2>4. CASE External!SendFails(s)
      BY <2>4 DEF External!SendFails, External!server, ExternalInv, External!TypeOK
    <2> QED
      BY <2>1, <2>2, <2>3, <2>4
  <1> QED
    BY <1>1, <1>2, <1>3, <1>4, ResolverKept

\* A subscription is opened: its timer, listener and place in the counter at once.
LEMMA ExternalOpenStep ==
    ASSUME ExternalInv, NEW s \in Client, External!Open(s)
    PROVE  ExternalInv'
  <1>1. /\ UNCHANGED <<subscriptionsMode, healthy, shared, producers, producer, crashed, redisOf, call, outcome,
                       returned, listens, channel, published, errors, failedPosts>>
        /\ stage[s] = "send" /\ lease' = [lease EXCEPT ![s] = Patience]
    BY DEF External!Open, External!server, External!client
  <1>2. ~closed[s] /\ ~External!Alive(s)
    BY <1>1 DEF ExternalInv, External!Alive
  <1>3. CASE healthy[redisOf[s]]
    <2>1. /\ stage' = [stage EXCEPT ![s] = "open"] /\ timer' = [timer EXCEPT ![s] = TRUE]
          /\ onError' = onError \cup {s} /\ activeCount' = activeCount + 1 /\ closed' = closed
      BY <1>3 DEF External!Open
    <2>2. External!TypeOK'
      BY <1>1, <2>1, SubscriptionsAssumption DEF ExternalInv, External!TypeOK
    <2>3. \A r \in Client : IF r = s THEN stage'[r] = "open" /\ timer'[r] ELSE stage'[r] = stage[r] /\ timer'[r] = timer[r]
      BY <2>1 DEF ExternalInv, External!TypeOK
    <2>4. \A r \in Client : External!Alive(r)' <=> r = s \/ External!Alive(r)
      BY <1>2, <2>1, <2>3 DEF External!Alive
    <2>5. AliveOnes' = AliveOnes \cup {s} /\ s \notin AliveOnes
      BY <1>2, <2>4 DEF AliveOnes
    <2>6. Cardinality(AliveOnes') = Cardinality(AliveOnes) + 1
      BY <2>5, AliveFinite, FS_AddElement
    <2>7. External!ReleasedWhenClosed'
      <3>1. activeCount \in Nat /\ activeCount <= Cardinality(AliveOnes)
        BY Released DEF ExternalInv, External!TypeOK
      <3>2. activeCount' <= Cardinality(AliveOnes')
        BY <2>1, <2>6, <3>1, AliveFinite
      <3> QED
        BY <2>1, <2>3, <2>4, <3>2, Released, SameSize DEF ExternalInv, External!ReleasedWhenClosed, AliveOnes
    <2>8. External!NoneOnFailedRedis'
      BY <1>1, <1>3, <2>4 DEF ExternalInv, External!NoneOnFailedRedis
    <2> QED
      BY <1>1, <2>1, <2>2, <2>3, <2>7, <2>8 DEF ExternalInv
  <1>4. CASE ~healthy[redisOf[s]]
    <2>1. /\ stage' = [stage EXCEPT ![s] = "rejected"] /\ closed' = [closed EXCEPT ![s] = TRUE]
          /\ UNCHANGED <<timer, onError, activeCount>>
      BY <1>4 DEF External!Open
    <2>2. External!TypeOK'
      BY <1>1, <2>1, SubscriptionsAssumption DEF ExternalInv, External!TypeOK
    <2>3. \A r \in Client : IF r = s THEN stage'[r] = "rejected" /\ closed'[r]
                                     ELSE stage'[r] = stage[r] /\ closed'[r] = closed[r]
      BY <2>1 DEF ExternalInv, External!TypeOK
    <2>4. \A r \in Client : External!Alive(r)' <=> External!Alive(r)
      BY <1>2, <2>3 DEF External!Alive
    <2>5. External!ReleasedWhenClosed' /\ External!NoneOnFailedRedis'
      BY <1>1, <2>1, <2>4 DEF ExternalInv, External!ReleasedWhenClosed, External!NoneOnFailedRedis
    <2> QED
      BY <1>1, <2>2, <2>3, <2>5 DEF ExternalInv
  <1> QED
    BY <1>3, <1>4

\* What happens to leases and messages outside the process touches nothing it holds.
LEMMA ServiceStep ==
    ASSUME ExternalInv, NEW s \in Client,
           External!KeepAlive(s) \/ External!Publish(s) \/ External!LeaseExpires(s)
    PROVE  ExternalInv'
  <1>1. UNCHANGED <<subscriptionsMode, healthy, shared, producers, producer, crashed, stage, redisOf, closed,
                    timer, onError, activeCount, call, outcome, returned, listens, errors>>
    BY DEF External!KeepAlive, External!Publish, External!LeaseExpires, External!server,
           External!resolver, External!client
  <1>2. lease' \in [Client -> 0..Patience] /\ failedPosts' \in [Client -> 0..Patience]
    <2>1. lease \in [Client -> 0..Patience] /\ failedPosts \in [Client -> 0..Patience] /\ Patience \in Nat
      BY SubscriptionsAssumption DEF ExternalInv, External!TypeOK
    <2>2. ASSUME External!Missed(s) PROVE lease' \in [Client -> 0..Patience]
      BY <2>1, <2>2 DEF External!Missed
    <2>3. CASE External!KeepAlive(s)
      <3>1. CASE External!Posted(s)
        BY <2>1, <3>1 DEF External!Posted
      <3>2. CASE External!PostFails(s)
        BY <2>1, <2>2, <3>2 DEF External!PostFails
      <3> QED
        BY <2>3, <3>1, <3>2 DEF External!KeepAlive
    <2>4. CASE External!Publish(s)
      BY <2>1, <2>4 DEF External!Publish, External!resolver
    <2>5. CASE External!LeaseExpires(s)
      BY <2>1, <2>2, <2>5 DEF External!LeaseExpires, External!resolver
    <2> QED
      BY <2>3, <2>4, <2>5
  <1>2a. published' \in 0..MaxPublished
    BY SubscriptionsAssumption DEF External!KeepAlive, External!Publish, External!LeaseExpires, ExternalInv, External!TypeOK
  <1>3. channel' \in [Client -> Seq(External!Message)]
    <2>1. CASE channel' = channel
      BY <2>1 DEF ExternalInv, External!TypeOK
    <2>2. CASE \E m \in External!Message : channel' = [channel EXCEPT ![s] = Append(@, m)]
      BY <2>2 DEF ExternalInv, External!TypeOK
    <2> QED
      BY <2>1, <2>2 DEF External!KeepAlive, External!Publish, External!LeaseExpires
  <1>4. External!TypeOK'
    BY <1>1, <1>2, <1>2a, <1>3 DEF ExternalInv, External!TypeOK
  <1> QED
    BY <1>1, <1>4, IteratorsKept DEF ExternalInv

\* An error of Redis closes the subscriptions that use it; it may be healthy again later.
LEMMA RedisStep ==
    ASSUME ExternalInv, NEW r \in External!Redis, External!RedisError(r) \/ External!RedisHealthy(r)
    PROVE  ExternalInv'
  <1>1. r \in DOMAIN healthy /\ r \in 1..Len(healthy) /\ healthy \in Seq(BOOLEAN)
    <2>1. r \in DOMAIN healthy
      BY DEF External!RedisError, External!RedisHealthy
    <2>2. healthy \in Seq(BOOLEAN)
      BY DEF ExternalInv, External!TypeOK
    <2> QED
      BY <2>1, <2>2
  <1>2. CASE External!RedisHealthy(r)
    <2>1. healthy' = [healthy EXCEPT ![r] = TRUE]
          /\ UNCHANGED <<subscriptionsMode, shared, producers, producer, crashed, stage, redisOf, closed, timer,
                         onError, activeCount, call, outcome, returned, listens, lease, channel, published, errors, failedPosts>>
      BY <1>2 DEF External!RedisHealthy, External!resolver, External!client, External!services
    <2>2. /\ healthy' \in Seq(BOOLEAN) /\ Len(healthy') = Len(healthy) /\ DOMAIN healthy' = DOMAIN healthy
          /\ \A i \in DOMAIN healthy : healthy[i] => healthy'[i]
      BY <1>1, <2>1, ExceptSeq
    <2>3. External!TypeOK'
      BY <2>1, <2>2 DEF ExternalInv, External!TypeOK
    <2>4. External!NoneOnFailedRedis'
      BY <2>1, <2>2 DEF ExternalInv, External!NoneOnFailedRedis, External!Alive
    <2>5. External!ReleasedWhenClosed'
      BY <2>1 DEF ExternalInv, External!ReleasedWhenClosed, External!Alive
    <2> QED
      BY <2>1, <2>2, <2>3, <2>4, <2>5 DEF ExternalInv
  <1>3. CASE External!RedisError(r)
    <2> DEFINE hear == {s \in onError : redisOf[s] = r}
    <2>1. /\ healthy' = [healthy EXCEPT ![r] = FALSE] /\ errors < MaxErrors /\ errors' = errors + 1
          /\ External!Close(hear, "error") /\ "error" \in {"done", "error"} /\ crashed' \in BOOLEAN
          /\ UNCHANGED <<subscriptionsMode, shared, producers, producer, stage, redisOf, returned, lease, channel,
                         published>> /\ ~crashed
      BY <1>3 DEF External!RedisError, External!Up
    <2>2. /\ healthy' \in Seq(BOOLEAN) /\ Len(healthy') = Len(healthy)
          /\ \A i \in 1..Len(healthy) : i # r => healthy'[i] = healthy[i]
      BY <1>1, <2>1, ExceptSeq
    <2>3. hear \in SUBSET Client /\ \A s \in hear : stage[s] = "open"
      BY DEF ExternalInv, External!TypeOK, External!ReleasedWhenClosed, External!Alive
    <2>4. \A s \in Client \ hear : External!Alive(s) => healthy'[redisOf[s]]
      <3> SUFFICES ASSUME NEW s \in Client \ hear, External!Alive(s) PROVE healthy'[redisOf[s]]
        OBVIOUS
      <3>1. s \in onError /\ redisOf[s] # r /\ healthy[redisOf[s]]
        BY <2>1 DEF ExternalInv, External!ReleasedWhenClosed, External!NoneOnFailedRedis
      <3>2. redisOf[s] \in 1..Len(healthy)
        BY <1>1 DEF ExternalInv, External!Alive
      <3> QED
        BY <2>2, <3>1, <3>2
    <2>5. /\ returned' \subseteq Client /\ lease' \in [Client -> 0..Patience]
          /\ channel' \in [Client -> Seq(External!Message)]
          /\ published' \in 0..MaxPublished /\ errors' \in 0..MaxErrors
      BY <2>1, SubscriptionsAssumption DEF ExternalInv, External!TypeOK
    <2> HIDE DEF hear
    <2> QED
      BY <2>1, <2>2, <2>3, <2>4, <2>5, ClosesStep
  <1> QED
    BY <1>2, <1>3

-----------------------------------------------------------------------------
(* Both backends in one process *)

\* Only the backend of the mode is ever used.
ModeInv ==
    /\ subscriptionsMode # "arango" => registered = {} /\ heard = <<>>
    /\ subscriptionsMode # "external" => lease = [c \in Client |-> 0] /\ healthy = <<>>

\* The inductive invariant: of the two backends, and that only one is used.
IInv == FeedInv /\ ExternalInv /\ ModeInv

\* What the properties of the feed say of a step.
FeedStaysSilent ==
    /\ stopState = "stopped" => heard' = heard /\ current' = 0
    /\ \A s \in Subscriber : phase[s] = "closed" => delivered'[s] = delivered[s]

\* The invariant holds at first, in either mode.
LEMMA InitIInv == Init => IInv
  <1> SUFFICES ASSUME Init PROVE IInv
    OBVIOUS
  <1>1. FeedInv /\ ExternalInv
    BY InitLog, InitSubs, InitExternal DEF Init, FeedInv
  <1>2. ModeInv
    BY DEF Init, Feed!Init, External!Init, ModeInv
  <1> QED
    BY <1>1, <1>2 DEF IInv

\* Every step of the feed keeps its invariant, and what has ended silent.
LEMMA FeedStep ==
    ASSUME FeedInv, Feed!Next
    PROVE  FeedInv' /\ FeedStaysSilent
  <1>0. stopState = "stopped" => current = 0
    BY DEF FeedInv, LogInv
  <1>1. CASE \/ Feed!Write \/ Feed!StartProvider \/ Feed!StopBegins \/ Feed!Stop
             \/ \E i \in DOMAIN listeners :
                   Feed!ListenerFails(i) \/ Feed!RestartListener(i) \/ Feed!Follow(i)
    BY <1>1, LogStep DEF FeedStaysSilent
  <1>2. CASE \E d \in counting : Feed!Emit(d)
    BY <1>0, <1>2, EmitStep DEF FeedStaysSilent
  <1>3. ASSUME NEW s \in Subscriber, NEW d \in joining[s], Feed!Joined(s, d) \/ Feed!JoinFails(s, d)
        PROVE  FeedInv' /\ FeedStaysSilent
    BY <1>0, <1>3, JoinedStep, JoinFailsStep DEF FeedStaysSilent
  <1>4. ASSUME NEW s \in Subscriber,
               Feed!Subscribe(s) \/ Feed!Open(s) \/ Feed!ConsumerNext(s) \/ Feed!ConsumerReturn(s)
        PROVE  FeedInv' /\ FeedStaysSilent
    BY <1>0, <1>4, SubscribeStep, OpenStep, NextStep, ReturnStep DEF FeedStaysSilent
  <1> QED
    BY <1>1, <1>2, <1>3, <1>4 DEF Feed!Next

\* A step of the feed is one of a server that is up, in its mode.
LEMMA FeedUp ==
    ASSUME Feed!Next
    PROVE  Feed!Up /\ subscriptionsMode' = subscriptionsMode
  BY DEF Feed!Next, Feed!Write, Feed!StartProvider, Feed!StopBegins, Feed!Stop, Feed!ListenerFails,
         Feed!RestartListener, Feed!Follow, Feed!Emit, Feed!Joined, Feed!JoinFails, Feed!Subscribe,
         Feed!Open, Feed!ConsumerNext, Feed!ConsumerReturn, Feed!database

\* Every step of the external services keeps their invariant.
LEMMA ExternalStep ==
    ASSUME ExternalInv, External!Next
    PROVE  ExternalInv'
  <1>1. ASSUME NEW s \in Client, External!Resolver(s) \/ External!KeepAlive(s) PROVE ExternalInv'
    BY <1>1, EnsureRedisStep, ResolverStep, ExternalOpenStep, ServiceStep DEF External!Resolver
  <1>2. ASSUME NEW s \in Client,
               \/ External!ConsumerNext(s) \/ External!Receive(s) \/ External!JoinEnds(s)
               \/ External!ConsumerReturn(s) \/ External!Publish(s) \/ External!LeaseExpires(s)
        PROVE  ExternalInv'
    BY <1>2, ConsumerNextStep, ReceiveStep, JoinEndsStep, ConsumerReturnStep, ServiceStep
  <1>3. ASSUME NEW r \in External!Redis, External!RedisError(r) \/ External!RedisHealthy(r)
        PROVE  ExternalInv'
    BY <1>3, RedisStep
  <1> QED
    BY <1>1, <1>2, <1>3 DEF External!Next

\* The external services take steps only while the process is up, and keep the mode.
LEMMA ExternalUp ==
    ASSUME External!Next
    PROVE  External!Up /\ subscriptionsMode' = subscriptionsMode
  <1>1. ASSUME NEW s \in Client, External!Resolver(s) \/ External!KeepAlive(s) \/ External!Publish(s) \/ External!LeaseExpires(s)
        PROVE  External!Up /\ subscriptionsMode' = subscriptionsMode
    BY <1>1 DEF External!Resolver, External!EnsureRedis, External!RedisMade, External!Check, External!Connect,
                External!Open, External!SendFails, External!KeepAlive, External!Publish, External!LeaseExpires,
                External!client, External!services
  <1>2. ASSUME NEW s \in Client, External!ConsumerNext(s) \/ External!Receive(s) \/ External!JoinEnds(s) \/ External!ConsumerReturn(s)
        PROVE  External!Up /\ subscriptionsMode' = subscriptionsMode
    BY <1>2 DEF External!ConsumerNext, External!Receive, External!JoinEnds, External!ConsumerReturn, External!services
  <1>3. ASSUME NEW r \in External!Redis, External!RedisError(r) \/ External!RedisHealthy(r)
        PROVE  External!Up /\ subscriptionsMode' = subscriptionsMode
    BY <1>3 DEF External!RedisError, External!RedisHealthy, External!services
  <1> QED
    BY <1>1, <1>2, <1>3 DEF External!Next

\* The feed does not notice a step that leaves it alone, and the external
\* subscriptions none but the end of the process.
LEMMA FeedKept ==
    ASSUME FeedInv, UNCHANGED <<subscriptionsMode, feedVars>>, crashed' \in BOOLEAN
    PROVE  FeedInv' /\ FeedStaysSilent
  <1>1. UNCHANGED logVars \/ UNCHANGED <<subscriptionsMode, wal, toStart, stopState, following, subscribed, listeners,
                                         current, failures, heard, counting>>
    BY DEF feedVars
  <1>2. LogTypes' /\ LogInv'
    BY LogKept DEF feedVars, FeedInv
  <1>3. SubTypes' /\ (\A s \in Subscriber : SubInv(s))' /\ CountInv'
    BY SubsKept DEF feedVars, FeedInv
  <1>4. FeedStaysSilent
    BY DEF FeedStaysSilent, feedVars, FeedInv, LogInv
  <1> QED
    BY <1>2, <1>3, <1>4 DEF FeedInv

\* The feed may end the process, which the external services notice.
LEMMA ExternalKept ==
    ASSUME ExternalInv, UNCHANGED <<subscriptionsMode, externalVars>>, crashed' \in BOOLEAN, ~crashed' => ~crashed
    PROVE  ExternalInv'
  <1>1. External!TypeOK'
    BY DEF ExternalInv, External!TypeOK, externalVars
  <1>2. External!ReleasedWhenClosed' /\ External!NoneOnFailedRedis'
    BY DEF ExternalInv, External!ReleasedWhenClosed, External!NoneOnFailedRedis, External!Alive, externalVars
  <1> QED
    BY <1>1, <1>2 DEF ExternalInv, externalVars

\* Every step keeps the invariant.
LEMMA NextIInv == IInv /\ [Next]_vars => IInv' /\ FeedStaysSilent
  <1> SUFFICES ASSUME IInv, [Next]_vars PROVE IInv' /\ FeedStaysSilent
    OBVIOUS
  <1>1. CASE OverArango
    <2>1. Feed!Up /\ UNCHANGED <<subscriptionsMode, externalVars>>
      BY <1>1, FeedUp DEF OverArango
    <2>2. FeedInv' /\ FeedStaysSilent
      BY <1>1, FeedStep DEF OverArango, IInv
    <2>3. ExternalInv'
      BY <2>1, <2>2, ExternalKept DEF IInv, FeedInv, LogTypes, Feed!Up
    <2>4. ModeInv'
      BY <2>1 DEF IInv, ModeInv, Feed!Up, externalVars
    <2> QED
      BY <2>2, <2>3, <2>4 DEF IInv
  <1>2. CASE OverExternal
    <2>1. External!Up /\ UNCHANGED <<subscriptionsMode, feedVars>>
      BY <1>2, ExternalUp DEF OverExternal
    <2>2. ExternalInv'
      BY <1>2, ExternalStep DEF OverExternal, IInv
    <2>3. FeedInv' /\ FeedStaysSilent
      BY <2>1, <2>2, FeedKept DEF IInv, ExternalInv, External!TypeOK
    <2>4. ModeInv'
      BY <2>1 DEF IInv, ModeInv, External!Up, feedVars
    <2> QED
      BY <2>2, <2>3, <2>4 DEF IInv
  <1>3. CASE UNCHANGED vars
    <2>1. UNCHANGED <<subscriptionsMode, crashed, feedVars, externalVars>>
      BY <1>3 DEF vars
    <2>2. crashed' \in BOOLEAN
      BY <2>1 DEF IInv, FeedInv, LogTypes
    <2>3. FeedInv' /\ FeedStaysSilent /\ ExternalInv'
      BY <2>1, <2>2, FeedKept, ExternalKept DEF IInv
    <2>4. ModeInv'
      BY <2>1 DEF IInv, ModeInv, feedVars, externalVars
    <2> QED
      BY <2>3, <2>4 DEF IInv
  <1> QED
    BY <1>1, <1>2, <1>3 DEF Next

\* The inductive invariant holds of all behaviours.
THEOREM SpecIInv == Spec => []IInv
  <1> QED
    BY InitIInv, NextIInv, PTL DEF Spec

-----------------------------------------------------------------------------
(* Properties *)

\* Both backends keep their types, and only the one of the mode is ever used
\* (subscriptionResolver, the constructor of data/collection.ts).
THEOREM TypeCorrect == Spec => []TypeOK
  <1>1. ASSUME IInv PROVE TypeOK
    <2>1. Feed!TypeOK
      BY <1>1 DEF IInv, FeedInv, LogTypes, SubTypes, Feed!TypeOK, Listener, Queue
    <2> QED
      BY <1>1, <2>1 DEF IInv, ExternalInv, ModeInv, TypeOK
  <1> QED
    BY <1>1, SpecIInv, PTL

\* A document reaches its collection at most once and in the order of the log,
\* however often the listener is stopped, replaced, fails and is started again
\* (checkStopListener(), onDataEvent() of data/database-provider.ts).
THEOREM FeedInOrder == Spec => []HeardOnceInOrder
  <1>1. IInv => HeardOnceInOrder
    BY DEF IInv, FeedInv, LogInv, HeardOnceInOrder
  <1> QED
    BY <1>1, SpecIInv, PTL

\* The places of the documents are disjoint, so that their sizes add up.
LEMMA PlacedSizes ==
    ASSUME NEW j \in SUBSET Feed!Docs, NEW l \in SUBSET Feed!Docs, NEW q \in Queue,
           NEW g \in Seq(Feed!Docs), NEW a, Placed(j, l, q, g, a)
    PROVE  Cardinality(j) + Cardinality(l) + Len(q.pushQueue) + Len(g) =
               Cardinality(j \cup l \cup Feed!Range(q.pushQueue) \cup Feed!Range(g))
  <1> DEFINE p == Feed!Range(q.pushQueue)
             r == Feed!Range(g)
  <1>1. IsFiniteSet(Feed!Docs)
    BY SubscriptionsAssumption, FS_Interval DEF Feed!Docs
  <1>2. IsFiniteSet(j) /\ IsFiniteSet(l)
    BY <1>1, FS_Subset
  <1>3. q.pushQueue \in Seq(Feed!Docs) /\ Distinct(q.pushQueue) /\ Distinct(g)
    BY DEF Queue, Placed
  <1>4. IsFiniteSet(p) /\ Cardinality(p) = Len(q.pushQueue) /\ IsFiniteSet(r) /\ Cardinality(r) = Len(g)
    BY <1>3, DistinctSize
  <1>5. j \cap l = {} /\ (j \cup l) \cap p = {} /\ (j \cup l \cup p) \cap r = {}
    BY DEF Placed
  <1> HIDE DEF p, r
  <1>6. IsFiniteSet(j \cup l) /\ Cardinality(j \cup l) = Cardinality(j) + Cardinality(l)
    BY <1>2, <1>5, DisjointSizes, Zenon
  <1>7. /\ IsFiniteSet((j \cup l) \cup p)
        /\ Cardinality((j \cup l) \cup p) = Cardinality(j \cup l) + Cardinality(p)
    BY <1>4, <1>5, <1>6, DisjointSizes, Zenon
  <1>8. Cardinality(((j \cup l) \cup p) \cup r) = Cardinality((j \cup l) \cup p) + Cardinality(r)
    BY <1>4, <1>5, <1>7, DisjointSizes, Zenon
  <1>9. Cardinality(((j \cup l) \cup p) \cup r)
            = Cardinality(j) + Cardinality(l) + Cardinality(p) + Cardinality(r)
    BY <1>6, <1>7, <1>8
  <1> QED
    BY <1>4, <1>9 DEF p, r

\* A document a subscription took is in one place: joining, lost by a failed
\* join, queued or delivered, and once; no call of next() waits while one is
\* queued (onDocumentInsertOrUpdate(), pushValue() and next() of data/listener.ts).
THEOREM FeedLosesNothing == Spec => []NothingLostNothingTwice
  <1>1. ASSUME IInv PROVE NothingLostNothingTwice
    <2> DEFINE held(s) == joining[s] \cup lost[s] \cup Feed!Range(queue[s].pushQueue) \cup Feed!Range(delivered[s])
    <2>1. ASSUME NEW s \in Subscriber
          PROVE  /\ phase[s] = "open" => held(s) = accepted[s]
                 /\ Feed!Cardinality(joining[s]) + Feed!Cardinality(lost[s]) + Len(queue[s].pushQueue)
                        + Len(delivered[s]) = Feed!Cardinality(held(s))
                 /\ queue[s].running /\ queue[s].pulls > 0 => queue[s].pushQueue = <<>>
      <3>1. /\ joining[s] \in SUBSET Feed!Docs /\ lost[s] \in SUBSET Feed!Docs
            /\ queue[s] \in Queue /\ delivered[s] \in Seq(Feed!Docs) /\ SubInv(s)
        BY <1>1 DEF IInv, FeedInv, SubTypes
      <3>2. Placed(joining[s], lost[s], queue[s], delivered[s], accepted[s])
        BY <3>1 DEF SubInv
      <3>3. phase[s] = "open" => held(s) = accepted[s]
        BY <3>1, <3>2 DEF SubInv, Placed, Whole
      <3>4. Cardinality(joining[s]) + Cardinality(lost[s]) + Len(queue[s].pushQueue)
                        + Len(delivered[s]) = Cardinality(held(s))
        BY <3>1, <3>2, PlacedSizes
      <3> QED
        BY <3>2, <3>3, <3>4, SameSize DEF Placed
    <2> QED
      BY <2>1 DEF NothingLostNothingTwice, Feed!NothingLostNothingTwice
  <1> QED
    BY <1>1, SpecIInv, PTL

\* A subscription of either backend that has ended, however it ended, holds
\* neither a listener nor a timer nor a place in the counter, and none goes on
\* over a client of Redis that has failed (onClose() and terminate() of
\* data/collection.ts, subcriptions-redis.ts).
THEOREM ClosedAreReleased == Spec => []ReleasedWhenClosed
  <1>1. ASSUME IInv PROVE ReleasedWhenClosed
    <2>1. \A c \in Collection : subscriptionCount[c] = Feed!Cardinality({s \in registered : collOf[s] = c})
      BY <1>1, SameSize DEF IInv, FeedInv, CountInv, Listening
    <2>2. Feed!ReleasedWhenClosed
      BY <1>1, <2>1 DEF IInv, FeedInv, SubInv, Feed!ReleasedWhenClosed
    <2> QED
      BY <1>1, <2>2 DEF IInv, ExternalInv, ReleasedWhenClosed
  <1> QED
    BY <1>1, SpecIInv, PTL

-----------------------------------------------------------------------------
(* The leases of filters *)

\* What the posts of an open subscription have told the services: each that failed
\* in a row has cost one of the posts they wait for.  None is posted before.
LeaseInv ==
    \A s \in Client : /\ External!Alive(s) => lease[s] + failedPosts[s] = Patience
                      /\ stage[s] # "open" => failedPosts[s] = 0

\* Subscriptions that have not just been opened, and whose leases are left alone.
LEMMA LeaseKept ==
    ASSUME LeaseInv, UNCHANGED <<lease, failedPosts>>,
           \A s \in Client : (stage[s] = "open" <=> stage'[s] = "open") /\ (closed[s] => closed'[s])
    PROVE  LeaseInv'
  BY DEF LeaseInv, External!Alive

\* onClose() of open subscriptions ends their intervals, and the count of failed posts.
LEMMA ClosedLease ==
    ASSUME ExternalInv, LeaseInv, NEW ss \in SUBSET Client, NEW how, External!Close(ss, how),
           UNCHANGED <<lease, stage>>
    PROVE  LeaseInv'
  <1>1. \A s \in Client : /\ closed'[s] <=> (closed[s] \/ s \in ss)
                         /\ failedPosts'[s] = IF s \in ss THEN 0 ELSE failedPosts[s]
    BY DEF External!Close
  <1> QED
    BY <1>1 DEF LeaseInv, External!Alive

\* A post of the key of an open subscription, which comes or fails.
LEMMA KeepAliveLease ==
    ASSUME ExternalInv, LeaseInv, NEW s \in Client, External!KeepAlive(s)
    PROVE  LeaseInv'
  <1>1. UNCHANGED <<stage, closed>> /\ timer[s]
    BY DEF External!KeepAlive, External!resolver
  <1>2. External!Alive(s) /\ stage[s] = "open"
    BY <1>1, Released DEF ExternalInv, External!Alive
  <1>3. lease \in [Client -> 0..Patience] /\ failedPosts \in [Client -> 0..Patience] /\ Patience \in Nat \ {0}
    BY SubscriptionsAssumption DEF ExternalInv, External!TypeOK
  <1>4. lease[s] + failedPosts[s] = Patience
    BY <1>2 DEF LeaseInv
  <1>5. CASE External!Posted(s)
    <2>1. lease' = [lease EXCEPT ![s] = IF lease[s] = 0 THEN 0 ELSE Patience]
          /\ failedPosts' = [failedPosts EXCEPT ![s] = IF failedPosts[s] = Patience THEN failedPosts[s] ELSE 0]
      BY <1>5 DEF External!Posted
    <2>2. lease'[s] + failedPosts'[s] = Patience
      BY <1>3, <1>4, <2>1
    <2>3. \A r \in Client : r # s => lease'[r] = lease[r] /\ failedPosts'[r] = failedPosts[r]
      BY <1>3, <2>1
    <2> QED
      BY <1>1, <1>2, <2>2, <2>3 DEF LeaseInv, External!Alive
  <1>6. CASE External!PostFails(s)
    <2>1. lease' = [lease EXCEPT ![s] = IF lease[s] = 0 THEN 0 ELSE lease[s] - 1]
          /\ failedPosts' = [failedPosts EXCEPT ![s] =
                                IF failedPosts[s] = Patience THEN failedPosts[s] ELSE failedPosts[s] + 1]
      BY <1>6 DEF External!PostFails, External!Missed
    <2>2. lease'[s] + failedPosts'[s] = Patience
      BY <1>3, <1>4, <2>1
    <2>3. \A r \in Client : r # s => lease'[r] = lease[r] /\ failedPosts'[r] = failedPosts[r]
      BY <1>3, <2>1
    <2> QED
      BY <1>1, <1>2, <2>2, <2>3 DEF LeaseInv, External!Alive
  <1> QED
    BY <1>5, <1>6 DEF External!KeepAlive

\* The lease begins with the post of the text, before which no post has failed.
LEMMA OpenLease ==
    ASSUME ExternalInv, LeaseInv, NEW s \in Client, External!Open(s)
    PROVE  LeaseInv'
  <1>1. stage[s] = "send" /\ lease' = [lease EXCEPT ![s] = Patience] /\ failedPosts' = failedPosts
    BY DEF External!Open
  <1>2. stage' \in {[stage EXCEPT ![s] = "open"], [stage EXCEPT ![s] = "rejected"]}
    BY DEF External!Open
  <1>3. \A r \in Client : closed[r] => closed'[r]
    <2>1. closed \in [Client -> BOOLEAN]
      BY DEF ExternalInv, External!TypeOK
    <2>2. closed' = closed \/ closed' = [closed EXCEPT ![s] = TRUE]
      BY DEF External!Open
    <2> QED
      BY <2>1, <2>2
  <1>4. lease \in [Client -> 0..Patience] /\ Patience \in Nat /\ DOMAIN stage = Client
    BY SubscriptionsAssumption DEF ExternalInv, External!TypeOK
  <1>5. failedPosts[s] = 0 /\ lease'[s] = Patience
    BY <1>1, <1>4 DEF LeaseInv
  <1>6. \A r \in Client : r # s => stage'[r] = stage[r] /\ lease'[r] = lease[r]
    BY <1>1, <1>2, <1>4
  <1> SUFFICES ASSUME NEW r \in Client
               PROVE  /\ External!Alive(r)' => lease'[r] + failedPosts'[r] = Patience
                      /\ stage'[r] # "open" => failedPosts'[r] = 0
    BY DEF LeaseInv
  <1>7. CASE r = s
    BY <1>1, <1>4, <1>5, <1>7
  <1>8. CASE r # s
    BY <1>1, <1>3, <1>6, <1>8 DEF LeaseInv, External!Alive
  <1> QED
    BY <1>7, <1>8

\* Only the filters of subscriptions that have ended are posted by nobody.
LEMMA ExpiryLease ==
    ASSUME ExternalInv, LeaseInv, NEW s \in Client, External!LeaseExpires(s)
    PROVE  LeaseInv'
  <1>1. UNCHANGED <<stage, closed, failedPosts>> /\ ~timer[s]
        /\ lease' = [lease EXCEPT ![s] = IF lease[s] = 0 THEN 0 ELSE lease[s] - 1]
    BY DEF External!LeaseExpires, External!Missed, External!resolver
  <1>2. ~External!Alive(s)
    BY <1>1, Released DEF ExternalInv
  <1>3. \A r \in Client : r # s => lease'[r] = lease[r]
    BY <1>1 DEF ExternalInv, External!TypeOK
  <1> QED
    BY <1>1, <1>2, <1>3 DEF LeaseInv, External!Alive

\* Every step of the external services keeps what the posts have told them.
LEMMA LeaseStep ==
    ASSUME ExternalInv, LeaseInv, External!Next
    PROVE  LeaseInv'
  <1>1. ASSUME NEW s \in Client, External!KeepAlive(s) \/ External!LeaseExpires(s) \/ External!Open(s) PROVE LeaseInv'
    BY <1>1, KeepAliveLease, ExpiryLease, OpenLease
  <1>2. ASSUME NEW s \in Client,
               \/ External!EnsureRedis(s) \/ External!RedisMade(s) \/ External!Check(s)
               \/ External!Connect(s) \/ External!SendFails(s)
        PROVE  LeaseInv'
    <2>1. UNCHANGED <<lease, failedPosts, closed>>
      BY <1>2 DEF External!EnsureRedis, External!RedisMade, External!Check, External!Connect,
                  External!SendFails, External!services
    <2>2. \E next \in {"redis", "check", "connect", "send", "rejected"} :
             stage[s] # "open" /\ stage' = [stage EXCEPT ![s] = next]
      BY <1>2 DEF External!EnsureRedis, External!RedisMade, External!Check, External!Connect, External!SendFails
    <2>3. \A r \in Client : stage[r] = "open" <=> stage'[r] = "open"
      BY <2>2 DEF ExternalInv, External!TypeOK
    <2> QED
      BY <2>1, <2>3, LeaseKept
  <1>3. ASSUME NEW s \in Client,
               \/ External!ConsumerNext(s) \/ External!JoinEnds(s) \/ External!Publish(s)
        PROVE  LeaseInv'
    <2>1. UNCHANGED <<lease, failedPosts, closed, stage>>
      BY <1>3 DEF External!ConsumerNext, External!JoinEnds, External!Publish, External!services, External!resolver
    <2> QED
      BY <2>1, LeaseKept
  <1>4. ASSUME NEW s \in Client, External!Receive(s) \/ External!ConsumerReturn(s) PROVE LeaseInv'
    <2>1. UNCHANGED <<lease, stage>>
      BY <1>4 DEF External!Receive, External!ConsumerReturn, External!services, External!resolver
    <2>2. \/ UNCHANGED <<failedPosts, closed>>
          \/ \E how \in {"done", "error"} : External!Close({s}, how)
      BY <1>4 DEF External!Receive, External!ConsumerReturn, External!resolver
    <2> QED
      BY <2>1, <2>2, LeaseKept, ClosedLease
  <1>5. ASSUME NEW r \in External!Redis, External!RedisError(r) \/ External!RedisHealthy(r) PROVE LeaseInv'
    <2> DEFINE hear == {s \in onError : redisOf[s] = r}
    <2>1. UNCHANGED <<lease, stage>> /\ hear \in SUBSET Client
      BY <1>5 DEF External!RedisError, External!RedisHealthy, External!services, External!resolver,
                  ExternalInv, External!TypeOK
    <2>2. UNCHANGED <<failedPosts, closed>> \/ External!Close(hear, "error")
      BY <1>5 DEF External!RedisError, External!RedisHealthy, External!resolver
    <2> HIDE DEF hear
    <2> QED
      BY <2>1, <2>2, LeaseKept, ClosedLease
  <1> QED
    BY <1>1, <1>2, <1>3, <1>4, <1>5 DEF External!Next, External!Resolver

\* The services know the filter of every external subscription in use, unless as many
\* posts of its interval have failed in a row as they wait for (the interval of
\* externalSubscriptionResolver in data/collection.ts, post-subscription.ts).
THEOREM LeasesLast == Spec => []External!LeaseIsKept
  <1>1. Init => LeaseInv
    BY DEF Init, External!Init, External!Alive, LeaseInv
  <1>2. IInv /\ LeaseInv /\ [Next]_vars => LeaseInv'
    <2> SUFFICES ASSUME IInv, LeaseInv, [Next]_vars PROVE LeaseInv'
      OBVIOUS
    <2>1. CASE OverExternal
      BY <2>1, LeaseStep DEF OverExternal, IInv
    <2>2. CASE OverArango \/ UNCHANGED vars
      <3>1. UNCHANGED <<lease, failedPosts, stage, closed>>
        BY <2>2 DEF OverArango, vars, externalVars
      <3> QED
        BY <3>1, LeaseKept
    <2> QED
      BY <2>1, <2>2 DEF Next
  <1>3. IInv /\ LeaseInv => External!LeaseIsKept
    <2> SUFFICES ASSUME IInv, LeaseInv, NEW s \in Client, External!Alive(s)
                 PROVE  lease[s] > 0 \/ failedPosts[s] = Patience
      BY DEF External!LeaseIsKept
    <2>1. lease[s] \in 0..Patience /\ failedPosts[s] \in 0..Patience /\ Patience \in Nat
      BY SubscriptionsAssumption DEF IInv, ExternalInv, External!TypeOK
    <2> QED
      BY <2>1 DEF LeaseInv
  <1> QED
    BY <1>1, <1>2, <1>3, SpecIInv, PTL DEF Spec

-----------------------------------------------------------------------------
(* What has ended *)

\* What has ended stays silent: a stopped server does not go on with its feed,
\* even if it still started or a failed listener was to be started again when it
\* was stopped, and a closed subscription delivers nothing more, although joins
\* under way still push their documents (stop() of data/database-provider.ts,
\* emptyQueue() and pushValue() of data/listener.ts).
THEOREM EndedStaySilent == Spec => EndsAreSilent
  <1>1. IInv /\ [Next]_vars =>
            /\ [stopState = "stopped" => heard' = heard /\ current' = 0]_(Feed!vars)
            /\ [\A s \in Subscriber : phase[s] = "closed" => delivered'[s] = delivered[s]]_(Feed!vars)
    BY NextIInv DEF FeedStaysSilent
  <1> QED
    BY <1>1, SpecIInv, PTL DEF Spec, EndsAreSilent, Feed!StoppedIsSilent, Feed!NothingAfterEnd
=============================================================================
