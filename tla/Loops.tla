--------------------------------- MODULE Loops ---------------------------------
(***************************************************************************)
(* Loops, written as recursive functions of the models: that the function  *)
(* of a loop exists, and that what each turn keeps holds after all turns.  *)
(***************************************************************************)
EXTENDS Integers, TLAPS, FiniteSetTheorems, WellFoundedInduction

\* Induction over the numbers, for a set of them.
LEMMA ByInduction ==
    ASSUME NEW S \in SUBSET Nat, 0 \in S, \A n \in S : n + 1 \in S
    PROVE  S = Nat
  <1> SUFFICES ASSUME NEW x \in Nat \ S PROVE FALSE
    OBVIOUS
  <1> DEFINE Below == {0..m : m \in Nat \ S}
  <1>1. Below \subseteq FiniteSubsetsOf(Nat) /\ Below # {}
    <2>1. ASSUME NEW m \in Nat \ S PROVE 0..m \in FiniteSubsetsOf(Nat)
      <3>1. IsFiniteSet(0..m) BY FS_Interval, m \in Int
      <3>2. 0..m \in SUBSET Nat OBVIOUS
      <3> QED BY <3>1, <3>2 DEF FiniteSubsetsOf
    <2> QED BY <2>1
  <1>2. PICK B \in Below : \A C \in Below : ~ (<<C, B>> \in StrictSubsetOrdering(Nat))
    <2>1. IsWellFoundedOn(StrictSubsetOrdering(Nat), FiniteSubsetsOf(Nat))
      BY FS_StrictSubsetOrderingWellFounded
    <2> HIDE DEF Below
    <2> QED BY <1>1, <2>1, WFMin, Zenon
  <1>3. PICK m \in Nat \ S : B = 0..m
    BY <1>2
  <1>4. m - 1 \in Nat \ S
    OBVIOUS
  <1>5. 0..(m - 1) \in Below /\ 0..(m - 1) \in SUBSET Nat /\ 0..m \in SUBSET Nat
    BY <1>4
  <1>6. 0..(m - 1) \subseteq 0..m /\ 0..(m - 1) # 0..m
    <2>1. m \in Nat /\ m \in 0..m /\ m \notin 0..(m - 1)
      BY SMT
    <2> QED
      BY <2>1
  <1>7. <<0..(m - 1), 0..m>> \in StrictSubsetOrdering(Nat)
    BY <1>5, <1>6 DEF StrictSubsetOrdering
  <1> QED
    BY <1>2, <1>3, <1>5, <1>7

\* The functions on 0..n that begin with a value and go on by a step.
Steps(X) == [Nat \X X -> X]
Runs(X, first, step, n) ==
    {f \in [0..n -> X] : f[0] = first /\ \A i \in 1..n : f[i] = step[<<i, f[i - 1]>>]}

\* A function that takes each value from the one before it exists.
LEMMA Recursion ==
    ASSUME NEW X, NEW first \in X, NEW step \in Steps(X), NEW n \in Nat
    PROVE  Runs(X, first, step, n) # {}
  <1> DEFINE Is(f, m) == f[0] = first /\ \A i \in 1..m : f[i] = step[<<i, f[i - 1]>>]
             known == {m \in Nat : \E f \in [0..m -> X] : Is(f, m)}
  <1>1. 0 \in known
    <2>1. [i \in 0..0 |-> first] \in [0..0 -> X] /\ Is([i \in 0..0 |-> first], 0)
      OBVIOUS
    <2> QED
      BY <2>1
  <1>2. ASSUME NEW m \in known PROVE m + 1 \in known
    <2>1. PICK f \in [0..m -> X] : Is(f, m)
      OBVIOUS
    <2> DEFINE h == [i \in 0..(m + 1) |-> IF i = m + 1 THEN step[<<m + 1, f[m]>>] ELSE f[i]]
    <2>2. m \in Nat /\ f[m] \in X /\ step[<<m + 1, f[m]>>] \in X
      BY DEF Steps
    <2>3. h \in [0..(m + 1) -> X]
      BY <2>2
    <2>4. \A i \in 1..(m + 1) : h[i] = step[<<i, h[i - 1]>>]
      <3> TAKE i \in 1..(m + 1)
      <3>1. CASE i = m + 1
        <4>1. h[i] = step[<<m + 1, f[m]>>] /\ h[i - 1] = f[m] /\ i = m + 1
          BY <2>2, <3>1
        <4> HIDE DEF h
        <4> QED
          BY <4>1
      <3>2. CASE i # m + 1
        <4>1. i \in 1..m /\ h[i] = f[i] /\ h[i - 1] = f[i - 1]
          BY <2>2, <3>2
        <4> HIDE DEF h
        <4> QED
          BY <2>1, <4>1
      <3> QED
        BY <3>1, <3>2
    <2>5. h[0] = first
      BY <2>1, <2>2
    <2> HIDE DEF h
    <2>6. Is(h, m + 1)
      BY <2>4, <2>5
    <2> QED
      BY <2>2, <2>3, <2>6
  <1>3. known \in SUBSET Nat
    OBVIOUS
  <1>4. known = Nat
    <2> HIDE DEF known
    <2> QED
      BY <1>1, <1>2, <1>3, ByInduction
  <1>5. n \in known
    BY <1>4
  <1> QED
    BY <1>5 DEF Runs

\* What holds at first, and after each turn if before it, holds after all turns.
LEMMA Stays ==
    ASSUME NEW X, NEW n \in Nat, NEW f, f[0] \in X, \A i \in 1..n : f[i - 1] \in X => f[i] \in X
    PROVE  \A i \in 0..n : f[i] \in X
  <1> DEFINE known == {m \in Nat : m <= n => f[m] \in X}
  <1>1. 0 \in known
    OBVIOUS
  <1>2. ASSUME NEW m \in known PROVE m + 1 \in known
    <2>1. m + 1 <= n => m + 1 \in 1..n /\ (m + 1) - 1 = m
      OBVIOUS
    <2> QED
      BY <2>1
  <1>3. known \in SUBSET Nat
    OBVIOUS
  <1>4. known = Nat
    <2> HIDE DEF known
    <2> QED
      BY <1>1, <1>2, <1>3, ByInduction
  <1> QED
    BY <1>4

\* Some numbers have a least one.
LEMMA Least ==
    ASSUME NEW S \in SUBSET Nat, NEW x \in S
    PROVE  \E m \in S : \A k \in S : m <= k
  <1> SUFFICES ASSUME \A m \in S : \E k \in S : ~(m <= k) PROVE FALSE
    OBVIOUS
  <1> DEFINE below == {n \in Nat : \A k \in S : n <= k}
  <1>1. 0 \in below
    OBVIOUS
  <1>2. ASSUME NEW n \in below PROVE n + 1 \in below
    <2>1. n \notin S
      OBVIOUS
    <2> QED
      BY <2>1
  <1>3. below \in SUBSET Nat
    OBVIOUS
  <1>4. below = Nat
    <2> HIDE DEF below
    <2> QED
      BY <1>1, <1>2, <1>3, ByInduction
  <1>5. x + 1 \in below
    BY <1>4
  <1> QED
    BY <1>5
=============================================================================
