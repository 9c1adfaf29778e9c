----------------------------- MODULE Recursion -----------------------------
(***************************************************************************)
(* Induction over numbers, and the functions that recursion over numbers   *)
(* defines: what the proofs about tables and stacks rest on.               *)
(***************************************************************************)
EXTENDS Integers, FiniteSets, FiniteSetTheorems, WellFoundedInduction, TLAPS

\* A set of natural numbers has a least element.
LEMMA Least ==
  ASSUME NEW T \in SUBSET Nat, T # {}
  PROVE  \E n \in T : \A m \in T : n <= m
  <1> DEFINE UpTo(n) == {m \in T : m <= n}
             All     == {UpTo(n) : n \in T}
             R       == StrictSubsetOrdering(T)
  <1>1. All \subseteq FiniteSubsetsOf(T) /\ All # {}
    <2>1. \A n \in Nat : IsFiniteSet(0 .. n)
      BY FS_Interval
    <2>2. ASSUME NEW n \in T, NEW m \in UpTo(n)
          PROVE  m \in 0 .. n
      <3>1. m \in Nat /\ n \in Nat /\ m <= n
        OBVIOUS
      <3>2. QED
        BY <3>1
    <2>3. \A n \in T : UpTo(n) \in SUBSET T /\ IsFiniteSet(UpTo(n))
      BY <2>1, <2>2, FS_Subset
    <2>4. QED
      BY <2>3 DEF FiniteSubsetsOf
  <1>2. \A A, B \in SUBSET T : <<A, B>> \in R <=> A \subseteq B /\ A # B
    BY DEF StrictSubsetOrdering
  <1>3. IsWellFoundedOn(R, FiniteSubsetsOf(T))
    BY FS_StrictSubsetOrderingWellFounded
  <1> HIDE DEF R
  <1>4. PICK A \in All : \A B \in All : <<B, A>> \notin R
    BY <1>1, <1>3, WFMin
  <1>5. PICK n \in T : A = UpTo(n)
    OBVIOUS
  <1>6. ASSUME NEW m \in T, ~(n <= m)
        PROVE  FALSE
    <2>1. UpTo(m) \subseteq UpTo(n) /\ n \in UpTo(n) /\ n \notin UpTo(m)
      <3>1. m \in Nat /\ n \in Nat /\ m < n
        BY <1>6
      <3>2. \A k \in UpTo(m) : k \in T /\ k \in Nat /\ k <= m
        OBVIOUS
      <3>3. \A k \in UpTo(m) : k <= n
        BY <3>1, <3>2
      <3>4. UpTo(m) \subseteq UpTo(n)
        BY <3>2, <3>3
      <3>5. n <= n /\ ~(n <= m)
        BY <3>1
      <3>6. QED
        BY <3>4, <3>5
    <2>2. <<UpTo(m), UpTo(n)>> \in R
      BY <1>2, <2>1
    <2>3. QED
      BY <1>4, <1>5, <2>2
  <1>7. QED
    BY <1>6

\* What holds of 0, and of n + 1 if it holds of n, holds up to any bound.
LEMMA Induction ==
  ASSUME NEW Holds, NEW N \in Nat, 0 \in Holds,
         \A n \in 0 .. N : n < N /\ n \in Holds => n + 1 \in Holds
  PROVE  \A n \in 0 .. N : n \in Holds
  <1> DEFINE T == {n \in 0 .. N : n \notin Holds}
  <1>1. SUFFICES ASSUME T # {} PROVE FALSE
    OBVIOUS
  <1>2. T \in SUBSET Nat
    OBVIOUS
  <1>3. PICK n \in T : \A m \in T : n <= m
    <2> HIDE DEF T
    <2>1. QED
      BY <1>1, <1>2, Least
  <1>4. n \in 1 .. N /\ n - 1 \in 0 .. N /\ n - 1 < N
    OBVIOUS
  <1>5. n - 1 \in Holds
    BY <1>3, <1>4
  <1>6. QED
    BY <1>3, <1>4, <1>5

\* Value f[n] is base for 0, and otherwise made of n and the value before.
Follows(f, N, base, step) ==
  f[0] = base /\ \A n \in 1 .. N : f[n] = step[<<n, f[n - 1]>>]

\* There is a function with a value made step by step.
LEMMA Recursive ==
  ASSUME NEW N \in Nat, NEW V, NEW base \in V, NEW step \in [(1 .. N) \X V -> V]
  PROVE  \E f \in [0 .. N -> V] : Follows(f, N, base, step)
  <1> DEFINE UpTo(f, n) == f[0] = base /\ \A k \in 1 .. N : k <= n => f[k] = step[<<k, f[k - 1]>>]
             Holds == {n \in 0 .. N : \E f \in [0 .. N -> V] : UpTo(f, n)}
  <1>1. 0 \in Holds
    <2> DEFINE f == [k \in 0 .. N |-> base]
    <2>1. f \in [0 .. N -> V] /\ UpTo(f, 0)
      OBVIOUS
    <2> HIDE DEF f, UpTo
    <2>2. QED
      BY <2>1
  <1>2. ASSUME NEW n \in 0 .. N, n < N, n \in Holds
        PROVE  n + 1 \in Holds
    <2>1. PICK f \in [0 .. N -> V] : UpTo(f, n)
      BY <1>2
    <2>2. n + 1 \in 1 .. N /\ (n + 1) - 1 = n /\ n \in 0 .. N
      BY <1>2
    <2>3. step[<<n + 1, f[n]>>] \in V
      BY <2>2
    <2> DEFINE g == [k \in 0 .. N |-> IF k = n + 1 THEN step[<<n + 1, f[n]>>] ELSE f[k]]
    <2>4. g \in [0 .. N -> V]
      BY <2>3
    <2>5. g[0] = base
      BY <2>1, <2>2
    <2>6. ASSUME NEW k \in 1 .. N, k <= n + 1
          PROVE  g[k] = step[<<k, g[k - 1]>>]
      <3>1. k - 1 \in 0 .. N /\ k - 1 # n + 1
        BY <2>6
      <3>2. g[k - 1] = f[k - 1]
        BY <3>1
      <3>3. CASE k = n + 1
        <4>1. g[k] = step[<<n + 1, f[n]>>] /\ k - 1 = n
          BY <2>2, <3>3
        <4> HIDE DEF g
        <4>2. QED
          BY <3>2, <3>3, <4>1
      <3>4. CASE k # n + 1
        <4>1. g[k] = f[k] /\ k <= n
          BY <2>6, <3>4
        <4> HIDE DEF g
        <4>2. QED
          BY <2>1, <3>2, <4>1
      <3>5. QED
        BY <3>3, <3>4
    <2> HIDE DEF g
    <2>7. UpTo(g, n + 1)
      BY <2>5, <2>6
    <2> HIDE DEF UpTo
    <2>8. QED
      BY <2>2, <2>4, <2>7
  <1>3. N \in Holds
    <2> HIDE DEF Holds
    <2>1. \A n \in 0 .. N : n \in Holds
      BY <1>1, <1>2, Induction
    <2>2. QED
      BY <2>1
  <1>4. PICK f \in [0 .. N -> V] : UpTo(f, N)
    BY <1>3
  <1>5. Follows(f, N, base, step)
    BY <1>4 DEF Follows
  <1>6. QED
    BY <1>5
=============================================================================
