----------------------------- MODULE WaitFor_proofs -----------------------------
(***************************************************************************)
(* Proofs about WaitFor and WalkingCache: for any number of waits of a     *)
(* request, of which any may walk, and any number of documents.            *)
(***************************************************************************)
EXTENDS WalkingCache, TLAPS, FiniteSetTheorems

-----------------------------------------------------------------------------
(* The inductive invariant *)

\* The waits that go on; the polling ones among them listen, and all are counted.
Waiting == {w \in Wait : phase[w] = "waiting"}

\* How a wait stands by its phase.
Stands(w) ==
    /\ phase[w] = "idle" => poll[w] = "none" /\ finishedBy[w] = "nobody" /\ ~deadline[w]
    /\ phase[w] \in {"cleaning", "done", "returned"} => finishedBy[w] # "nobody"
    /\ phase[w] \in {"done", "returned"} => poll[w] # "timer"
    /\ finishedBy[w] = "nobody" => result[w] = "pending"

\* A walking wait asks while it waits and not after.  Only the client's leaving
\* gives it a reason before its loop ends, and only its loop a result.
Walks1(w) ==
    IF w \in walking
    THEN /\ phase[w] # "cleaning"
         /\ phase[w] # "waiting" => poll[w] = "none"
         /\ phase[w] = "waiting" => result[w] = "pending" /\ (finishedBy[w] # "nobody" => closed)
    ELSE poll[w] # "cache"

\* The waits that have begun hear of the client's leaving, until the first of
\* their request returns.
HearsClose ==
    /\ \A w \in closeHeard : phase[w] # "idle"
    /\ (\A w \in Wait : phase[w] # "returned") => \A w \in Wait : phase[w] # "idle" => w \in closeHeard

\* NoDocumentMissed of a wait.
Covered(w) ==
    w \notin walking /\ phase[w] = "waiting" /\ finishedBy[w] = "nobody" /\ w \in matched =>
        poll[w] \in {"sent", "found"} \/ \E doc \in feed : w \in doc

\* What is said of one wait.
One(w) == Stands(w) /\ Walks1(w) /\ Covered(w)

\* The inductive invariant.
IInv ==
    /\ WalkTypeOK /\ HearsClose /\ \A w \in Wait : One(w)
    /\ listening = Waiting \ walking
    /\ waitForCount = Cardinality(Waiting)

\* What FirstReasonDecides says of a step and a wait, but for the client's leaving.
Decides(w) ==
    /\ finishedBy[w] # "nobody" /\ w \notin walking =>
          finishedBy'[w] = finishedBy[w] /\ result'[w] = result[w]
    /\ result[w] # "pending" => result'[w] = result[w]
    /\ result[w] = "pending" /\ result'[w] = "empty" => answered'[w] \/ closed'

\* No wait has begun.
LEMMA InitIInv == WalkInit => IInv
  <1> SUFFICES ASSUME WalkInit PROVE IInv
    OBVIOUS
  <1>1. WalkTypeOK
    <2>1. docs \in 0..MaxDocs /\ waitForCount \in Nat
      BY WaitForAssumption DEF WalkInit, Init
    <2>2. /\ matched \subseteq Wait /\ feed \subseteq SUBSET Wait /\ closed \in BOOLEAN /\ walking \in Walks
          /\ listening \subseteq Wait /\ closeHeard \subseteq Wait /\ cached \subseteq walking
      BY DEF WalkInit, Init
    <2>3. /\ phase \in [Wait -> {"idle", "waiting", "cleaning", "done", "returned"}]
          /\ poll \in [Wait -> {"none", "sent", "found", "nothing", "timer", "cache"}]
          /\ finishedBy \in [Wait -> Reasons \cup {"nobody"}]
          /\ result \in [Wait -> {"pending", "docs", "empty", "error"}]
      BY DEF WalkInit, Init
    <2>4. lastQuery \in [Wait -> BOOLEAN] /\ answered \in [Wait -> BOOLEAN] /\ deadline \in [Wait -> BOOLEAN]
      BY DEF WalkInit, Init
    <2> QED
      BY <2>1, <2>2, <2>3, <2>4, Zenon DEF WalkTypeOK, TypeOK
  <1>2. Waiting = {}
    BY DEF Waiting, WalkInit, Init
  <1>3. \A w \in Wait : One(w)
    BY DEF One, Stands, Walks1, Covered, WalkInit, Init
  <1>4. HearsClose
    BY DEF HearsClose, WalkInit, Init
  <1> QED
    BY <1>1, <1>2, <1>3, <1>4, FS_EmptySet DEF IInv, WalkInit, Init

-----------------------------------------------------------------------------
(* Effects of the operations *)

\* The waits that go on can be counted.
LEMMA WaitingFinite == IsFiniteSet(Waiting) /\ Cardinality(Waiting) \in Nat
  BY WaitForAssumption, FS_Subset, FS_CardinalityType DEF Waiting

\* resolveBy() and failBy() for a set of waits.
LEMMA Finished ==
    ASSUME IInv, NEW ws \in SUBSET Wait, NEW reason \in Reasons, NEW how \in {"docs", "empty", "error"},
           Finish(ws, reason, how)
    PROVE  /\ finishedBy' \in [Wait -> Reasons \cup {"nobody"}]
           /\ result' \in [Wait -> {"pending", "docs", "empty", "error"}]
           /\ \A w \in Wait : w \in ws /\ finishedBy[w] = "nobody" =>
                 finishedBy'[w] = reason /\ result'[w] = IF w \in walking THEN result[w] ELSE how
           /\ \A w \in Wait : ~(w \in ws /\ finishedBy[w] = "nobody") =>
                 finishedBy'[w] = finishedBy[w] /\ result'[w] = result[w]
  BY DEF Finish, IInv, WalkTypeOK, TypeOK

\* For one wait that does not walk.
LEMMA FinishedOne ==
    ASSUME IInv, NEW w \in Wait, w \notin walking, NEW reason \in Reasons, NEW how \in {"docs", "empty", "error"},
           Finish({w}, reason, how)
    PROVE  /\ finishedBy' \in [Wait -> Reasons \cup {"nobody"}]
           /\ result' \in [Wait -> {"pending", "docs", "empty", "error"}]
           /\ \A v \in Wait : v # w \/ finishedBy[w] # "nobody" =>
                 finishedBy'[v] = finishedBy[v] /\ result'[v] = result[v]
           /\ finishedBy[w] = "nobody" => finishedBy'[w] = reason /\ result'[w] = how
  BY DEF Finish, IInv, WalkTypeOK, TypeOK

\* A wait begins.
LEMMA OneMore ==
    ASSUME IInv, NEW w \in Wait, phase[w] = "idle", phase' = [phase EXCEPT ![w] = "waiting"],
           waitForCount' = waitForCount + 1
    PROVE  /\ Waiting' = Waiting \cup {w} /\ w \notin Waiting
           /\ waitForCount' = Cardinality(Waiting') /\ waitForCount' \in Nat
  <1>1. Waiting' = Waiting \cup {w} /\ w \notin Waiting
    BY DEF Waiting, IInv, WalkTypeOK, TypeOK
  <1>2. Cardinality(Waiting') = Cardinality(Waiting) + 1
    BY <1>1, WaitingFinite, FS_AddElement
  <1> QED
    BY <1>1, <1>2, WaitingFinite DEF IInv

\* A wait ends.
LEMMA OneLess ==
    ASSUME IInv, NEW w \in Wait, phase[w] = "waiting", NEW p \in {"cleaning", "done"},
           phase' = [phase EXCEPT ![w] = p],
           waitForCount' = IF waitForCount > 0 THEN waitForCount - 1 ELSE 0
    PROVE  /\ Waiting' = Waiting \ {w}
           /\ waitForCount' = Cardinality(Waiting') /\ waitForCount' \in Nat
  <1>1. Waiting' = Waiting \ {w} /\ w \in Waiting
    BY DEF Waiting, IInv, WalkTypeOK, TypeOK
  <1>2. Cardinality(Waiting') = Cardinality(Waiting) - 1 /\ Cardinality(Waiting) # 0
    BY <1>1, WaitingFinite, FS_RemoveElement, FS_EmptySet
  <1> QED
    BY <1>1, <1>2, WaitingFinite DEF IInv

\* A step that leaves the phases alone leaves the sets of waits alone.
LEMMA SetsKept ==
    ASSUME IInv, UNCHANGED <<phase, walking, listening, closeHeard, waitForCount>>
    PROVE  listening' = (Waiting \ walking)' /\ waitForCount' = Cardinality(Waiting)' /\ HearsClose'
  BY DEF IInv, Waiting, HearsClose

\* A wait that a step leaves alone.
LEMMA OneKept ==
    ASSUME NEW v, One(v), UNCHANGED <<phase[v], poll[v], finishedBy[v], result[v], deadline[v], walking, matched>>,
           closed => closed', \A doc \in feed : v \in doc => doc \in feed'
    PROVE  One(v)' /\ Decides(v)
  BY DEF One, Stands, Walks1, Covered, Decides

-----------------------------------------------------------------------------
(* The steps of a wait that polls *)

\* The types, said of one wait.
LEMMA TypesOfWait ==
    ASSUME IInv
    PROVE  /\ phase \in [Wait -> {"idle", "waiting", "cleaning", "done", "returned"}]
           /\ poll \in [Wait -> {"none", "sent", "found", "nothing", "timer", "cache"}]
           /\ lastQuery \in [Wait -> BOOLEAN] /\ answered \in [Wait -> BOOLEAN]
           /\ finishedBy \in [Wait -> Reasons \cup {"nobody"}]
           /\ result \in [Wait -> {"pending", "docs", "empty", "error"}]
           /\ deadline \in [Wait -> BOOLEAN] /\ closed \in BOOLEAN
  BY DEF IInv, WalkTypeOK, TypeOK

\* queryWaitFor() up to its first await: listener, timer and first query in one step.
LEMMA StartStep ==
    ASSUME IInv, NEW w \in Wait, Start(w), cached' = cached
    PROVE  IInv' /\ \A v \in Wait : Decides(v)
  <1>1. /\ phase[w] = "idle" /\ w \notin walking /\ phase' = [phase EXCEPT ![w] = "waiting"]
        /\ poll' = [poll EXCEPT ![w] = "sent"] /\ deadline' = [deadline EXCEPT ![w] = TRUE]
        /\ closeHeard' = closeHeard \cup {w} /\ listening' = listening \cup {w}
        /\ waitForCount' = waitForCount + 1
        /\ UNCHANGED <<matched, feed, docs, closed, walking, lastQuery, answered, finishedBy, result>>
    BY DEF Start, env
  <1>2. Waiting' = Waiting \cup {w} /\ waitForCount' = Cardinality(Waiting') /\ waitForCount' \in Nat
    BY <1>1, OneMore
  <1>3. WalkTypeOK'
    BY <1>1, <1>2 DEF IInv, WalkTypeOK, TypeOK
  <1>4. phase'[w] = "waiting" /\ poll'[w] = "sent"
        /\ \A v \in Wait : v # w => phase'[v] = phase[v] /\ poll'[v] = poll[v] /\ deadline'[v] = deadline[v]
    BY <1>1, TypesOfWait
  <1>5. HearsClose'
    BY <1>1, <1>4 DEF IInv, HearsClose
  <1>6. One(w)' /\ Decides(w)
    BY <1>1, <1>4 DEF IInv, One, Stands, Walks1, Covered, Decides
  <1>7. \A v \in Wait : v # w => One(v)' /\ Decides(v)
    BY <1>1, <1>4, OneKept DEF IInv
  <1>8. listening' = (Waiting \ walking)'
    BY <1>1, <1>2 DEF IInv
  <1> QED
    BY <1>2, <1>3, <1>5, <1>6, <1>7, <1>8 DEF IInv

\* A step that leaves the phases alone.
LEMMA PhasesKept ==
    ASSUME IInv, WalkTypeOK', UNCHANGED <<phase, walking, listening, closeHeard, waitForCount>>,
           \A v \in Wait : One(v)' /\ Decides(v)
    PROVE  IInv' /\ \A v \in Wait : Decides(v)
  BY DEF IInv, Waiting, HearsClose

\* The database answers a query by what it has then.
LEMMA ExecuteStep ==
    ASSUME IInv, NEW w \in Wait, Execute(w), cached' = cached
    PROVE  IInv' /\ \A v \in Wait : Decides(v)
  <1>1. /\ poll[w] = "sent" /\ poll' = [poll EXCEPT ![w] = IF w \in matched THEN "found" ELSE "nothing"]
        /\ UNCHANGED <<matched, feed, docs, closed, walking, phase, lastQuery, answered, finishedBy, result, deadline,
                       listening, closeHeard, waitForCount>>
    BY DEF Execute, env, shared
  <1>2. WalkTypeOK'
    BY <1>1 DEF IInv, WalkTypeOK, TypeOK
  <1>3. /\ poll'[w] = IF w \in matched THEN "found" ELSE "nothing"
        /\ \A v \in Wait : v # w => poll'[v] = poll[v]
    BY <1>1, TypesOfWait
  <1>4. One(w)' /\ Decides(w)
    BY <1>1, <1>3 DEF IInv, One, Stands, Walks1, Covered, Decides
  <1>5. \A v \in Wait : v # w => One(v)' /\ Decides(v)
    BY <1>1, <1>3, OneKept DEF IInv
  <1> QED
    BY <1>1, <1>2, <1>4, <1>5, PhasesKept

\* An answer ends the wait, or a later query is planned.
LEMMA AnswerStep ==
    ASSUME IInv, NEW w \in Wait, Answer(w), cached' = cached
    PROVE  IInv' /\ \A v \in Wait : Decides(v)
  <1>1. /\ poll[w] \in {"found", "nothing"} /\ w \notin walking
        /\ answered' = [answered EXCEPT ![w] = TRUE]
        /\ UNCHANGED <<matched, feed, docs, closed, walking, phase, deadline, listening, closeHeard, waitForCount>>
    BY DEF Answer, env, shared
  <1>2. /\ finishedBy' \in [Wait -> Reasons \cup {"nobody"}]
        /\ result' \in [Wait -> {"pending", "docs", "empty", "error"}]
        /\ \A v \in Wait : v # w \/ poll[w] = "nothing" \/ finishedBy[w] # "nobody" =>
              finishedBy'[v] = finishedBy[v] /\ result'[v] = result[v]
        /\ poll[w] = "found" /\ finishedBy[w] = "nobody" => finishedBy'[w] = "query" /\ result'[w] = "docs"
    <2>1. CASE poll[w] = "found"
      <3>1. Finish({w}, "query", "docs") /\ {w} \in SUBSET Wait /\ "query" \in Reasons
            /\ "docs" \in {"docs", "empty", "error"}
        BY <2>1 DEF Answer, Reasons
      <3> QED
        BY <1>1, <2>1, <3>1, FinishedOne
    <2>2. CASE poll[w] # "found"
      BY <1>1, <2>2, TypesOfWait DEF Answer
    <2> QED
      BY <2>1, <2>2
  <1>3. PICK p \in {"timer", "none"} :
          /\ poll' = [poll EXCEPT ![w] = p] /\ lastQuery' \in [Wait -> BOOLEAN]
          /\ p = "timer" => poll[w] = "nothing" /\ finishedBy[w] = "nobody"
          /\ p = "none" /\ poll[w] = "nothing" => finishedBy[w] # "nobody" \/ lastQuery[w]
    BY TypesOfWait DEF Answer
  <1>4. WalkTypeOK'
    BY <1>1, <1>2, <1>3 DEF IInv, WalkTypeOK, TypeOK
  <1>5. poll'[w] = p /\ \A v \in Wait : v # w => poll'[v] = poll[v]
    BY <1>3, TypesOfWait
  <1>6. One(w)' /\ Decides(w)
    BY <1>1, <1>2, <1>3, <1>5 DEF IInv, One, Stands, Walks1, Covered, Decides
  <1>7. \A v \in Wait : v # w => One(v)' /\ Decides(v)
    BY <1>1, <1>2, <1>5, OneKept DEF IInv
  <1> QED
    BY <1>1, <1>4, <1>6, <1>7, PhasesKept

\* A failed query ends the wait, unless something has already.
LEMMA QueryFailsStep ==
    ASSUME IInv, NEW w \in Wait, QueryFails(w), cached' = cached
    PROVE  IInv' /\ \A v \in Wait : Decides(v)
  <1>1. /\ poll[w] = "sent" /\ w \notin walking /\ poll' = [poll EXCEPT ![w] = "none"]
        /\ Finish({w}, "query-error", "error") /\ {w} \in SUBSET Wait /\ "query-error" \in Reasons
        /\ "error" \in {"docs", "empty", "error"}
        /\ UNCHANGED <<matched, feed, docs, closed, walking, phase, lastQuery, answered, deadline,
                       listening, closeHeard, waitForCount>>
    BY DEF QueryFails, env, shared, Reasons
  <1>2. /\ finishedBy' \in [Wait -> Reasons \cup {"nobody"}]
        /\ result' \in [Wait -> {"pending", "docs", "empty", "error"}]
        /\ \A v \in Wait : v # w \/ finishedBy[w] # "nobody" =>
              finishedBy'[v] = finishedBy[v] /\ result'[v] = result[v]
        /\ finishedBy[w] = "nobody" => finishedBy'[w] = "query-error" /\ result'[w] = "error"
    BY <1>1, FinishedOne
  <1>3. poll'[w] = "none" /\ \A v \in Wait : v # w => poll'[v] = poll[v]
    BY <1>1, TypesOfWait
  <1>4. WalkTypeOK'
    BY <1>1, <1>2 DEF IInv, WalkTypeOK, TypeOK
  <1>5. One(w)' /\ Decides(w)
    BY <1>1, <1>2, <1>3 DEF IInv, One, Stands, Walks1, Covered, Decides
  <1>6. \A v \in Wait : v # w => One(v)' /\ Decides(v)
    BY <1>1, <1>2, <1>3, OneKept DEF IInv
  <1> QED
    BY <1>1, <1>4, <1>5, <1>6, PhasesKept

\* The timer of the polling sends the next query.
LEMMA PollAgainStep ==
    ASSUME IInv, NEW w \in Wait, PollAgain(w), cached' = cached
    PROVE  IInv' /\ \A v \in Wait : Decides(v)
  <1>1. /\ poll[w] = "timer" /\ w \notin walking /\ poll' = [poll EXCEPT ![w] = "sent"]
        /\ UNCHANGED <<matched, feed, docs, closed, walking, phase, lastQuery, answered, finishedBy, result, deadline,
                       listening, closeHeard, waitForCount>>
    BY DEF PollAgain, env, shared
  <1>2. WalkTypeOK'
    BY <1>1 DEF IInv, WalkTypeOK, TypeOK
  <1>3. poll'[w] = "sent" /\ \A v \in Wait : v # w => poll'[v] = poll[v]
    BY <1>1, TypesOfWait
  <1>4. One(w)' /\ Decides(w)
    BY <1>1, <1>3 DEF IInv, One, Stands, Walks1, Covered, Decides
  <1>5. \A v \in Wait : v # w => One(v)' /\ Decides(v)
    BY <1>1, <1>3, OneKept DEF IInv
  <1> QED
    BY <1>1, <1>2, <1>4, <1>5, PhasesKept

\* The timeout ends a wait that nothing else has ended.
LEMMA TimeoutStep ==
    ASSUME IInv, NEW w \in Wait, TimeoutFires(w), cached' = cached
    PROVE  IInv' /\ \A v \in Wait : Decides(v)
  <1> DEFINE how == IF answered[w] THEN "empty" ELSE "error"
  <1>1. /\ deadline[w] /\ w \notin walking /\ deadline' = [deadline EXCEPT ![w] = FALSE]
        /\ Finish({w}, "timeout", how) /\ {w} \in SUBSET Wait /\ "timeout" \in Reasons
        /\ how \in {"docs", "empty", "error"}
        /\ UNCHANGED <<matched, feed, docs, closed, walking, phase, poll, lastQuery, answered,
                       listening, closeHeard, waitForCount>>
    BY DEF TimeoutFires, env, shared, Reasons
  <1>0. how = "empty" => answered[w]
    OBVIOUS
  <1> HIDE DEF how
  <1>2. /\ finishedBy' \in [Wait -> Reasons \cup {"nobody"}]
        /\ result' \in [Wait -> {"pending", "docs", "empty", "error"}]
        /\ \A v \in Wait : v # w \/ finishedBy[w] # "nobody" =>
              finishedBy'[v] = finishedBy[v] /\ result'[v] = result[v]
        /\ finishedBy[w] = "nobody" => finishedBy'[w] = "timeout" /\ result'[w] = how
    BY <1>1, FinishedOne
  <1>3. ~deadline'[w] /\ \A v \in Wait : v # w => deadline'[v] = deadline[v]
    BY <1>1, TypesOfWait
  <1>4. WalkTypeOK'
    BY <1>1, <1>2 DEF IInv, WalkTypeOK, TypeOK
  <1>5. One(w)' /\ Decides(w)
    BY <1>1, <1>0, <1>2, <1>3 DEF IInv, One, Stands, Walks1, Covered, Decides
  <1>6. \A v \in Wait : v # w => One(v)' /\ Decides(v)
    BY <1>1, <1>2, <1>3, OneKept DEF IInv
  <1> QED
    BY <1>1, <1>4, <1>5, <1>6, PhasesKept

\* The finally block: timer, listener and counter, then the return.
LEMMA CleanUpStep ==
    ASSUME IInv, NEW w \in Wait, CleanUp(w), cached' = cached
    PROVE  IInv' /\ \A v \in Wait : Decides(v)
  <1>1. /\ phase[w] = "waiting" /\ finishedBy[w] # "nobody" /\ w \notin walking
        /\ phase' = [phase EXCEPT ![w] = "cleaning"] /\ listening' = listening \ {w}
        /\ waitForCount' = IF waitForCount > 0 THEN waitForCount - 1 ELSE 0
        /\ UNCHANGED <<matched, feed, docs, closed, walking, poll, lastQuery, answered, finishedBy, result,
                       deadline, closeHeard>>
    BY DEF CleanUp, env
  <1>2. Waiting' = Waiting \ {w} /\ waitForCount' = Cardinality(Waiting') /\ waitForCount' \in Nat
    BY <1>1, OneLess
  <1>3. WalkTypeOK'
    BY <1>1, <1>2 DEF IInv, WalkTypeOK, TypeOK
  <1>4. phase'[w] = "cleaning" /\ \A v \in Wait : v # w => phase'[v] = phase[v]
    BY <1>1, TypesOfWait
  <1>5. HearsClose'
    BY <1>1, <1>4 DEF IInv, HearsClose
  <1>6. One(w)' /\ Decides(w)
    BY <1>1, <1>4 DEF IInv, One, Stands, Walks1, Covered, Decides
  <1>7. \A v \in Wait : v # w => One(v)' /\ Decides(v)
    BY <1>1, <1>4, OneKept DEF IInv
  <1>8. listening' = (Waiting \ walking)'
    BY <1>1, <1>2 DEF IInv
  <1> QED
    BY <1>2, <1>3, <1>5, <1>6, <1>7, <1>8 DEF IInv

\* The steps of a wait that does not wait any more.
LEMMA EndSteps ==
    ASSUME IInv, NEW w \in Wait, CleanUpEnds(w) \/ Return(w), cached' = cached
    PROVE  IInv' /\ \A v \in Wait : Decides(v)
  <1>1. PICK p \in {"done", "returned"} : phase' = [phase EXCEPT ![w] = p]
    BY DEF CleanUpEnds, Return
  <1>2. /\ phase[w] \in {"cleaning", "done"} /\ (phase[w] = "done" <=> p = "returned")
        /\ UNCHANGED <<matched, feed, docs, closed, walking, lastQuery, answered, finishedBy, result,
                       deadline, listening, waitForCount>>
        /\ closeHeard' \subseteq closeHeard /\ (p = "done" => closeHeard' = closeHeard)
        /\ poll' \in [Wait -> {"none", "sent", "found", "nothing", "timer", "cache"}]
        /\ poll'[w] # "timer" /\ (w \in walking => poll'[w] = poll[w]) /\ (poll'[w] = poll[w] \/ poll'[w] = "none")
        /\ \A v \in Wait : v # w => poll'[v] = poll[v]
    <2>1. CASE CleanUpEnds(w)
      BY <1>1, <2>1, TypesOfWait DEF CleanUpEnds, env, shared, IInv, One, Walks1
    <2>2. CASE Return(w)
      BY <1>1, <2>2, TypesOfWait DEF Return, env, shared, IInv, One, Stands
    <2> QED
      BY <2>1, <2>2
  <1>3. phase'[w] = p /\ \A v \in Wait : v # w => phase'[v] = phase[v]
    BY <1>1, TypesOfWait
  <1>4. WalkTypeOK'
    BY <1>1, <1>2 DEF IInv, WalkTypeOK, TypeOK
  <1>5. Waiting' = Waiting
    BY <1>2, <1>3 DEF Waiting
  <1>6. HearsClose'
    <2>1. \A v \in closeHeard' : phase'[v] # "idle"
      BY <1>2, <1>3 DEF IInv, HearsClose, WalkTypeOK, TypeOK
    <2>2. CASE p = "done"
      <3>1. closeHeard' = closeHeard /\ phase[w] = "cleaning"
        BY <1>2, <2>2
      <3>2. \A v \in Wait : (phase[v] = "returned" => phase'[v] = "returned") /\ (phase'[v] # "idle" => phase[v] # "idle")
        BY <1>3, <3>1
      <3> QED
        BY <2>1, <3>1, <3>2 DEF IInv, HearsClose
    <2>3. CASE p = "returned"
      BY <1>3, <2>1, <2>3 DEF HearsClose
    <2> QED
      BY <2>1, <2>2, <2>3
  <1>7. One(w)' /\ Decides(w)
    BY <1>2, <1>3 DEF IInv, One, Stands, Walks1, Covered, Decides
  <1>8. \A v \in Wait : v # w => One(v)' /\ Decides(v)
    BY <1>2, <1>3, OneKept DEF IInv
  <1> QED
    BY <1>2, <1>4, <1>5, <1>6, <1>7, <1>8 DEF IInv

-----------------------------------------------------------------------------
(* The steps from outside *)

\* A document that is written is on its way through the feed.
LEMMA InsertStep ==
    ASSUME IInv, Insert, cached' = cached
    PROVE  IInv' /\ \A v \in Wait : Decides(v)
  <1> PICK doc \in (SUBSET Wait) \ {{}} : matched' = matched \cup doc /\ feed' = feed \cup {doc}
    BY DEF Insert
  <1>1. /\ docs < MaxDocs /\ docs' = docs + 1
        /\ UNCHANGED <<closed, walking, phase, poll, lastQuery, answered, finishedBy, result, deadline, listening,
                       closeHeard, waitForCount>>
    BY DEF Insert, wait, shared
  <1>2. WalkTypeOK'
    BY <1>1, WaitForAssumption DEF IInv, WalkTypeOK, TypeOK
  <1>3. \A v \in Wait : One(v)' /\ Decides(v)
    BY <1>1 DEF IInv, One, Stands, Walks1, Covered, Decides
  <1> QED
    BY <1>1, <1>2, <1>3, PhasesKept

\* A document of the feed ends the waits that listen and match it.
LEMMA FeedDocumentStep ==
    ASSUME IInv, FeedDocument, cached' = cached
    PROVE  IInv' /\ \A v \in Wait : Decides(v)
  <1> PICK doc \in feed : feed' = feed \ {doc} /\ Finish(doc \cap listening, "listener", "docs")
    BY DEF FeedDocument
  <1>1. UNCHANGED <<matched, docs, closed, walking, phase, poll, lastQuery, answered, deadline, listening,
                    closeHeard, waitForCount>>
    BY DEF FeedDocument, shared
  <1>2. doc \cap listening \in SUBSET Wait /\ "listener" \in Reasons /\ "docs" \in {"docs", "empty", "error"}
    BY DEF IInv, WalkTypeOK, TypeOK, Reasons
  <1>3. /\ finishedBy' \in [Wait -> Reasons \cup {"nobody"}]
        /\ result' \in [Wait -> {"pending", "docs", "empty", "error"}]
        /\ \A w \in Wait : w \in doc \cap listening /\ finishedBy[w] = "nobody" =>
              finishedBy'[w] = "listener" /\ result'[w] = IF w \in walking THEN result[w] ELSE "docs"
        /\ \A w \in Wait : ~(w \in doc \cap listening /\ finishedBy[w] = "nobody") =>
              finishedBy'[w] = finishedBy[w] /\ result'[w] = result[w]
    BY <1>2, Finished
  <1>4. WalkTypeOK'
    BY <1>1, <1>3 DEF IInv, WalkTypeOK, TypeOK
  <1>5. ASSUME NEW v \in Wait PROVE One(v)' /\ Decides(v)
    <2>1. One(v) /\ (v \in listening <=> phase[v] = "waiting" /\ v \notin walking)
      BY DEF IInv, Waiting
    <2>2. CASE v \in doc \cap listening /\ finishedBy[v] = "nobody"
      BY <1>1, <1>3, <2>1, <2>2 DEF One, Stands, Walks1, Covered, Decides
    <2>3. CASE ~(v \in doc \cap listening /\ finishedBy[v] = "nobody")
      <3>1. finishedBy'[v] = finishedBy[v] /\ result'[v] = result[v]
        BY <1>3, <2>3
      <3>2. Covered(v)'
        BY <1>1, <2>1, <2>3, <3>1 DEF One, Covered
      <3> QED
        BY <1>1, <2>1, <3>1, <3>2 DEF One, Stands, Walks1, Decides
    <2> QED
      BY <2>2, <2>3
  <1> QED
    BY <1>1, <1>4, <1>5, PhasesKept

\* What ClientCloses does to the waits that hear of it.
LEMMA CloseEffect ==
    ASSUME IInv, ClientCloses
    PROVE  /\ closed' = TRUE /\ finishedBy' \in [Wait -> Reasons \cup {"nobody"}]
           /\ result' \in [Wait -> {"pending", "docs", "empty", "error"}]
           /\ \A w \in Wait : w \in closeHeard /\ finishedBy[w] = "nobody" =>
                 finishedBy'[w] = "close" /\ result'[w] = IF w \in walking THEN result[w] ELSE "empty"
           /\ \A w \in Wait : ~(w \in closeHeard /\ finishedBy[w] = "nobody") =>
                 finishedBy'[w] = finishedBy[w] /\ result'[w] = result[w]
  <1>1. /\ closeHeard \in SUBSET Wait /\ "close" \in Reasons /\ "empty" \in {"docs", "empty", "error"}
        /\ Finish(closeHeard, "close", "empty") /\ closed' = TRUE
    BY DEF IInv, WalkTypeOK, TypeOK, Reasons, ClientCloses
  <1> QED
    BY <1>1, Finished

\* The client's leaving ends every wait that hears of it.
LEMMA ClientClosesStep ==
    ASSUME IInv, ClientCloses, cached' = cached
    PROVE  IInv' /\ \A v \in Wait : Decides(v)
  <1>1. UNCHANGED <<matched, feed, docs, walking, phase, poll, lastQuery, answered, deadline, listening,
                    closeHeard, waitForCount>>
    BY DEF ClientCloses, shared
  <1>2. WalkTypeOK'
    BY <1>1, CloseEffect DEF IInv, WalkTypeOK, TypeOK
  <1>3. ASSUME NEW v \in Wait PROVE One(v)' /\ Decides(v)
    <2>1. One(v) /\ (v \in closeHeard => phase[v] # "idle")
      BY DEF IInv, HearsClose
    <2>2. CASE v \in closeHeard /\ finishedBy[v] = "nobody"
      <3>1. closed' /\ finishedBy'[v] = "close" /\ result'[v] = IF v \in walking THEN result[v] ELSE "empty"
        BY <2>2, CloseEffect
      <3> QED
        BY <1>1, <2>1, <2>2, <3>1 DEF One, Stands, Walks1, Covered, Decides
    <2>3. CASE ~(v \in closeHeard /\ finishedBy[v] = "nobody")
      <3>1. closed' /\ finishedBy'[v] = finishedBy[v] /\ result'[v] = result[v]
        BY <2>3, CloseEffect
      <3> QED
        BY <1>1, <2>1, <3>1, OneKept
    <2> QED
      BY <2>2, <2>3
  <1> QED
    BY <1>1, <1>2, <1>3, PhasesKept

\* Every wait that waits hears of it, before the first returns.
LEMMA CloseDecides ==
    ASSUME IInv, ClientCloses, NEW w \in Wait, phase[w] = "waiting", \A v \in Wait : phase[v] # "returned"
    PROVE  finishedBy'[w] # "nobody"
  <1>1. w \in closeHeard
    BY DEF IInv, HearsClose
  <1> QED
    BY <1>1, CloseEffect

-----------------------------------------------------------------------------
(* The steps of a wait that walks *)

\* The cache of a walk learns a block; no wait is touched.
LEMMA CacheBlockStep ==
    ASSUME IInv, NEW w \in Wait, CacheBlock(w)
    PROVE  IInv' /\ \A v \in Wait : Decides(v)
  <1>1. /\ UNCHANGED <<matched, feed, docs, closed, walking, phase, poll, lastQuery, answered, finishedBy, result, deadline,
                       listening, closeHeard, waitForCount>>
        /\ cached' \subseteq walking
    BY DEF CacheBlock, vars, env, wait, shared, IInv, WalkTypeOK
  <1>2. WalkTypeOK'
    BY <1>1 DEF IInv, WalkTypeOK, TypeOK
  <1>3. \A v \in Wait : One(v)' /\ Decides(v)
    BY <1>1, OneKept DEF IInv
  <1> QED
    BY <1>1, <1>2, <1>3, PhasesKept

\* A walk is counted as a wait, but neither polls nor listens.
LEMMA StartWalkStep ==
    ASSUME IInv, NEW w \in Wait, StartWalk(w)
    PROVE  IInv' /\ \A v \in Wait : Decides(v)
  <1>1. /\ phase[w] = "idle" /\ w \in walking /\ phase' = [phase EXCEPT ![w] = "waiting"]
        /\ poll' = [poll EXCEPT ![w] = "cache"] /\ deadline' = [deadline EXCEPT ![w] = TRUE]
        /\ closeHeard' = closeHeard \cup {w} /\ waitForCount' = waitForCount + 1
        /\ UNCHANGED <<matched, feed, docs, closed, walking, lastQuery, answered, finishedBy, result, listening, cached>>
    BY DEF StartWalk, env
  <1>2. Waiting' = Waiting \cup {w} /\ waitForCount' = Cardinality(Waiting') /\ waitForCount' \in Nat
    BY <1>1, OneMore
  <1>3. WalkTypeOK'
    BY <1>1, <1>2 DEF IInv, WalkTypeOK, TypeOK
  <1>4. phase'[w] = "waiting" /\ poll'[w] = "cache"
        /\ \A v \in Wait : v # w => phase'[v] = phase[v] /\ poll'[v] = poll[v] /\ deadline'[v] = deadline[v]
    BY <1>1, TypesOfWait
  <1>5. HearsClose'
    BY <1>1, <1>4 DEF IInv, HearsClose
  <1>6. One(w)' /\ Decides(w)
    BY <1>1, <1>4 DEF IInv, One, Stands, Walks1, Covered, Decides
  <1>7. \A v \in Wait : v # w => One(v)' /\ Decides(v)
    BY <1>1, <1>4, OneKept DEF IInv
  <1>8. listening' = (Waiting \ walking)'
    BY <1>1, <1>2 DEF IInv
  <1> QED
    BY <1>2, <1>3, <1>5, <1>6, <1>7, <1>8 DEF IInv

\* A step of the loop: it ends, or asks on.
WalkKeeps == <<matched, feed, docs, closed, walking, lastQuery, deadline, listening, closeHeard, cached>>

\* The end of a walk's loop gives its result and is no longer counted.
LEMMA LoopEnds ==
    ASSUME IInv, NEW w \in walking, phase[w] = "waiting", NEW reason \in Reasons, NEW how \in {"docs", "empty", "error"},
           EndWalk(w, reason, how), UNCHANGED WalkKeeps, answered' \in [Wait -> BOOLEAN],
           how = "empty" => answered'[w] \/ closed
    PROVE  IInv' /\ \A v \in Wait : Decides(v)
  <1>0. w \in Wait
    BY WaitForAssumption DEF IInv, WalkTypeOK, TypeOK
  <1>1. /\ phase' = [phase EXCEPT ![w] = "done"] /\ poll' = [poll EXCEPT ![w] = "none"]
        /\ finishedBy' = [finishedBy EXCEPT ![w] = reason] /\ result' = [result EXCEPT ![w] = how]
        /\ waitForCount' = IF waitForCount > 0 THEN waitForCount - 1 ELSE 0
        /\ UNCHANGED <<matched, feed, docs, closed, walking, lastQuery, deadline, listening, closeHeard, cached>>
    BY DEF EndWalk, WalkKeeps
  <1>2. Waiting' = Waiting \ {w} /\ waitForCount' = Cardinality(Waiting') /\ waitForCount' \in Nat
    BY <1>0, <1>1, OneLess
  <1>3. WalkTypeOK'
    BY <1>0, <1>1, <1>2 DEF IInv, WalkTypeOK, TypeOK
  <1>4. /\ phase'[w] = "done" /\ poll'[w] = "none" /\ finishedBy'[w] = reason /\ result'[w] = how
        /\ \A v \in Wait : v # w => /\ phase'[v] = phase[v] /\ poll'[v] = poll[v]
                                    /\ finishedBy'[v] = finishedBy[v] /\ result'[v] = result[v]
    BY <1>0, <1>1, TypesOfWait
  <1>5. HearsClose'
    BY <1>0, <1>1, <1>4 DEF IInv, HearsClose
  <1>6. reason # "nobody"
    BY DEF Reasons
  <1>7. One(w)' /\ Decides(w)
    BY <1>0, <1>1, <1>4, <1>6 DEF IInv, One, Stands, Walks1, Covered, Decides
  <1>8. \A v \in Wait : v # w => One(v)' /\ Decides(v)
    BY <1>1, <1>4, OneKept DEF IInv
  <1>9. listening' = (Waiting \ walking)'
    BY <1>1, <1>2 DEF IInv
  <1> QED
    BY <1>2, <1>3, <1>5, <1>7, <1>8, <1>9 DEF IInv

\* A walk whose loop goes on stays a walk.
LEMMA LoopGoesOn ==
    ASSUME IInv, NEW w \in walking, phase[w] = "waiting", NEW p \in {"cache", "sent", "timer"},
           poll' = [poll EXCEPT ![w] = p], UNCHANGED WalkKeeps, answered' \in [Wait -> BOOLEAN],
           UNCHANGED <<phase, finishedBy, result, waitForCount>>
    PROVE  IInv' /\ \A v \in Wait : Decides(v)
  <1>0. w \in Wait
    BY WaitForAssumption DEF IInv, WalkTypeOK, TypeOK
  <1>1. UNCHANGED <<matched, feed, docs, closed, walking, lastQuery, deadline, listening, closeHeard, cached>>
    BY DEF WalkKeeps
  <1>2. WalkTypeOK'
    BY <1>1 DEF IInv, WalkTypeOK, TypeOK
  <1>3. poll'[w] = p /\ \A v \in Wait : v # w => poll'[v] = poll[v]
    BY <1>0, TypesOfWait
  <1>4. One(w)' /\ Decides(w)
    BY <1>0, <1>1, <1>3 DEF IInv, One, Stands, Walks1, Covered, Decides
  <1>5. \A v \in Wait : v # w => One(v)' /\ Decides(v)
    BY <1>1, <1>3, OneKept DEF IInv
  <1> QED
    BY <1>1, <1>2, <1>4, <1>5, PhasesKept

\* The steps of a walk.
LEMMA WalkStep ==
    ASSUME IInv, NEW w \in Wait, CacheAnswers(w) \/ WalkFails(w) \/ DatabaseAnswers(w) \/ WakeUp(w)
    PROVE  IInv' /\ \A v \in Wait : Decides(v)
  <1>1. w \in walking /\ phase[w] = "waiting" /\ poll[w] # "none"
    BY DEF IInv, One, Walks1, CacheAnswers, WalkFails, DatabaseAnswers, WakeUp
  <1>2. UNCHANGED WalkKeeps
    BY DEF WalkKeeps, CacheAnswers, WalkFails, DatabaseAnswers, WakeUp, env
  <1>3. answered' \in [Wait -> BOOLEAN] /\ (answered[w] => answered'[w]) /\ (DatabaseAnswers(w) => answered'[w])
    BY TypesOfWait DEF CacheAnswers, WalkFails, DatabaseAnswers, WakeUp
  <1>4. ASSUME SleepOrEnd(w), answered'[w] PROVE IInv' /\ \A v \in Wait : Decides(v)
    <2>1. CASE deadline[w]
      BY <1>1, <1>2, <1>3, <1>4, <2>1, LoopGoesOn DEF SleepOrEnd
    <2>2. CASE ~deadline[w]
      <3>1. EndWalk(w, "timeout", "empty") /\ "timeout" \in Reasons /\ "empty" \in {"docs", "empty", "error"}
        BY <1>4, <2>2 DEF SleepOrEnd, Reasons
      <3> QED
        BY <1>1, <1>2, <1>3, <1>4, <3>1, LoopEnds
    <2> QED
      BY <2>1, <2>2
  <1>5. CASE CacheAnswers(w)
    <2>1. CASE w \in cached
      <3>1. EndWalk(w, "cache", "docs") /\ "cache" \in Reasons /\ "docs" \in {"docs", "empty", "error"}
        BY <1>5, <2>1 DEF CacheAnswers, Reasons
      <3> QED
        BY <1>1, <1>2, <1>3, <3>1, LoopEnds
    <2>2. CASE w \notin cached /\ answered[w]
      BY <1>3, <1>4, <1>5, <2>2 DEF CacheAnswers
    <2>3. CASE w \notin cached /\ ~answered[w]
      BY <1>1, <1>2, <1>3, <1>5, <2>3, LoopGoesOn DEF CacheAnswers
    <2> QED
      BY <2>1, <2>2, <2>3
  <1>6. CASE WalkFails(w)
    <2>1. EndWalk(w, "query-error", "error") /\ "query-error" \in Reasons /\ "error" \in {"docs", "empty", "error"}
      BY <1>6 DEF WalkFails, Reasons
    <2> QED
      BY <1>1, <1>2, <1>3, <2>1, LoopEnds
  <1>7. CASE DatabaseAnswers(w)
    <2>1. CASE poll[w] = "found"
      <3>1. EndWalk(w, "query", "docs") /\ "query" \in Reasons /\ "docs" \in {"docs", "empty", "error"}
        BY <1>7, <2>1 DEF DatabaseAnswers, Reasons
      <3> QED
        BY <1>1, <1>2, <1>3, <3>1, LoopEnds
    <2>2. CASE poll[w] # "found"
      BY <1>3, <1>4, <1>7, <2>2 DEF DatabaseAnswers
    <2> QED
      BY <2>1, <2>2
  <1>8. CASE WakeUp(w)
    <2>1. CASE finishedBy[w] # "nobody"
      <3>1. /\ EndWalk(w, finishedBy[w], "empty") /\ finishedBy[w] \in Reasons
            /\ "empty" \in {"docs", "empty", "error"}
        BY <1>8, <2>1, TypesOfWait DEF WakeUp
      <3>2. closed
        BY <1>1, <2>1 DEF IInv, One, Walks1
      <3> QED
        BY <1>1, <1>2, <1>3, <3>1, <3>2, LoopEnds
    <2>2. CASE finishedBy[w] = "nobody"
      BY <1>1, <1>2, <1>3, <1>8, <2>2, LoopGoesOn DEF WakeUp
    <2> QED
      BY <2>1, <2>2
  <1> QED
    BY <1>5, <1>6, <1>7, <1>8

\* The deadline of a walk is only noted; the loop looks at it.
LEMMA TimePassesStep ==
    ASSUME IInv, NEW w \in Wait, TimePasses(w)
    PROVE  IInv' /\ \A v \in Wait : Decides(v)
  <1>1. /\ deadline' = [deadline EXCEPT ![w] = FALSE]
        /\ UNCHANGED <<matched, feed, docs, closed, walking, phase, poll, lastQuery, answered, finishedBy, result,
                       listening, closeHeard, waitForCount, cached>>
    BY DEF TimePasses, env, shared
  <1>2. WalkTypeOK'
    BY <1>1 DEF IInv, WalkTypeOK, TypeOK
  <1>3. \A v \in Wait : deadline'[v] => deadline[v]
    BY <1>1, TypesOfWait
  <1>4. \A v \in Wait : One(v)' /\ Decides(v)
    BY <1>1, <1>3 DEF IInv, One, Stands, Walks1, Covered, Decides
  <1> QED
    BY <1>1, <1>2, <1>4, PhasesKept

\* Every step keeps the invariant, and decides no result twice.
LEMMA NextIInv == IInv /\ [WalkNext]_walkVars => IInv' /\ \A w \in Wait : Decides(w)
  <1> SUFFICES ASSUME IInv, [WalkNext]_walkVars PROVE IInv' /\ \A v \in Wait : Decides(v)
    OBVIOUS
  <1>1. CASE Next /\ UNCHANGED cached
    <2>1. ASSUME NEW w \in Wait, Execute(w) \/ QueryFails(w) \/ Handlers(w) \/ TimeoutFires(w)
          PROVE  IInv' /\ \A v \in Wait : Decides(v)
      BY <1>1, <2>1, ExecuteStep, QueryFailsStep, TimeoutStep, StartStep, AnswerStep, PollAgainStep,
         CleanUpStep, EndSteps DEF Handlers
    <2>2. CASE Insert \/ FeedDocument \/ ClientCloses
      BY <1>1, <2>2, InsertStep, FeedDocumentStep, ClientClosesStep
    <2> QED
      BY <1>1, <2>1, <2>2 DEF Next
  <1>2. ASSUME NEW w \in Wait, CacheBlock(w) \/ StartWalk(w) \/ Walk(w) \/ TimePasses(w)
        PROVE  IInv' /\ \A v \in Wait : Decides(v)
    BY <1>2, CacheBlockStep, StartWalkStep, WalkStep, TimePassesStep, ExecuteStep DEF Walk
  <1>3. CASE UNCHANGED walkVars
    <2>1. UNCHANGED <<matched, feed, docs, closed, walking, phase, poll, lastQuery, answered, finishedBy, result, deadline,
                      listening, closeHeard, waitForCount, cached>>
      BY <1>3 DEF walkVars, vars, env, wait, shared
    <2>2. WalkTypeOK'
      BY <2>1 DEF IInv, WalkTypeOK, TypeOK
    <2>3. \A v \in Wait : One(v)' /\ Decides(v)
      BY <2>1, OneKept DEF IInv
    <2> QED
      BY <2>1, <2>2, <2>3, PhasesKept
  <1> QED
    BY <1>1, <1>2, <1>3 DEF WalkNext

\* The inductive invariant holds in every state, of polling and walking waits.
THEOREM SpecIInv == WalkSpec => []IInv
  <1> QED
    BY InitIInv, NextIInv, PTL DEF WalkSpec

-----------------------------------------------------------------------------
(* Properties *)

\* The types of the waits, of those that poll and those that walk
\* (queryWaitFor() of data/collection.ts, data/resolveUsingCache.ts).
THEOREM TypeCorrect == WalkSpec => []WalkTypeOK
  <1>1. IInv => WalkTypeOK
    BY DEF IInv
  <1> QED
    BY <1>1, SpecIInv, PTL

\* A wait that is over leaves neither a timer nor a listener, and the counter of
\* waits is right, however the waits end (the finally block of queryWaitFor()).
THEOREM WaitsLeaveNothingBehind == WalkSpec => []NothingLeftBehind
  <1>1. ASSUME IInv PROVE NothingLeftBehind
    <2>1. \A w \in Wait : phase[w] \in {"done", "returned"} => poll[w] # "timer" /\ w \notin listening
      BY <1>1 DEF IInv, One, Stands, Waiting
    <2>2. listening \cup {w \in walking : phase[w] = "waiting"} = Waiting
      BY <1>1, WaitForAssumption DEF IInv, Waiting, WalkTypeOK, TypeOK
    <2> QED
      BY <1>1, <2>1, <2>2 DEF IInv, NothingLeftBehind
  <1> QED
    BY <1>1, SpecIInv, PTL

\* While a wait goes on, a document that matches it is on its way in an answer or
\* in the feed: the first query is sent before the listener is registered, and
\* both in one step (queryWaitFor(), queryOnce() of data/collection.ts).
THEOREM WaitsMissNoDocument == WalkSpec => []NoDocumentMissed
  <1>1. IInv => NoDocumentMissed
    BY DEF IInv, One, Covered, NoDocumentMissed
  <1> QED
    BY <1>1, SpecIInv, PTL

\* The first reason ends a wait and no later one changes its result; an empty
\* result takes an answer of the database or the client's leaving, which ends
\* every wait of a request none of whose fields has returned (resolveBy() and
\* failBy() of data/collection.ts, emitClose() of request.ts).
THEOREM FirstReasonOfWaitDecides == WalkSpec => FirstReasonDecides
  <1>1. ASSUME IInv, [WalkNext]_walkVars
        PROVE  \A w \in Wait :
                  /\ ClientCloses /\ phase[w] = "waiting" /\ (\A v \in Wait : phase[v] # "returned") =>
                        finishedBy'[w] # "nobody"
                  /\ finishedBy[w] # "nobody" /\ w \notin walking =>
                        finishedBy'[w] = finishedBy[w] /\ result'[w] = result[w]
                  /\ result[w] # "pending" => result'[w] = result[w]
                  /\ result[w] = "pending" /\ result'[w] = "empty" => answered'[w] \/ closed'
    BY <1>1, NextIInv, CloseDecides DEF Decides
  <1> QED
    BY <1>1, SpecIInv, PTL DEF WalkSpec, FirstReasonDecides
=============================================================================
