---------------------------- MODULE TableProofs ----------------------------
(***************************************************************************)
(* Theorems about Table for any number of keys, any size of the array and  *)
(* any number of changes: what #t answers, the caches, the keys that are   *)
(* const, and that it keeps the promise of LuaTable.                       *)
(***************************************************************************)
EXTENDS Table, Recursion, FunctionTheorems, SequenceTheorems

-----------------------------------------------------------------------------
(* The length.  A recursive function is given by the equation it           *)
(* satisfies; that there is one, and what it returns, is shown for the     *)
(* arguments of a measure n once it is shown for those of every lesser     *)
(* measure.                                                                *)

\* n is present (or 0) and its successor is absent.
Border(t, n) == (n = 0 \/ ~Absent(t, n)) /\ Absent(t, n + 1)

LEMMA Middle ==
  ASSUME NEW l \in Nat, NEW h \in Nat, h - l > 1
  PROVE  (l + h) \div 2 \in Nat /\ l < (l + h) \div 2 /\ (l + h) \div 2 < h
  OBVIOUS

Halved(t, f, at) ==
  LET middle == (at[1] + at[2]) \div 2
  IN IF at[2] - at[1] <= 1 THEN at[1]
     ELSE IF Absent(t, middle) THEN f[<<at[1], middle>>] ELSE f[<<middle, at[2]>>]

\* The halves of a pair are in bounds and nearer to each other.
LEMMA Halves ==
  ASSUME ArrayAssumption, NEW at \in Bounds \X Bounds, at[2] - at[1] > 1
  PROVE  LET middle == (at[1] + at[2]) \div 2
         IN /\ <<at[1], middle>> \in Bounds \X Bounds
            /\ <<middle, at[2]>> \in Bounds \X Bounds
            /\ middle - at[1] < at[2] - at[1]
            /\ at[2] - middle < at[2] - at[1]
            /\ middle \in Nat /\ at[1] < middle /\ middle < at[2]
  <1> DEFINE middle == (at[1] + at[2]) \div 2
  <1>1. at[1] \in Nat /\ at[2] \in Nat /\ at[2] <= 2 * MaxKey + 2 /\ MaxKey \in Nat
    BY DEF Bounds, ArrayAssumption
  <1>2. middle \in Nat /\ at[1] < middle /\ middle < at[2]
    BY <1>1, Middle
  <1> HIDE DEF middle
  <1>3. middle \in Bounds
    BY <1>1, <1>2 DEF Bounds
  <1>4. QED
    BY <1>1, <1>2, <1>3 DEF middle

\* The recursion of Narrow has a solution.
LEMMA HalveExists ==
  ASSUME ArrayAssumption, NEW t
  PROVE  \E f : f = [at \in Bounds \X Bounds |-> Halved(t, f, at)]
  <1> DEFINE N == 2 * MaxKey + 2
             Solves(f, n) == /\ f = [at \in Bounds \X Bounds |-> f[at]]
                             /\ \A at \in Bounds \X Bounds :
                                  at[2] - at[1] <= n => f[at] = Halved(t, f, at)
             Holds == {n \in 0 .. N : \E f : Solves(f, n)}
  <1>1. N \in Nat
    BY DEF ArrayAssumption
  <1>2. 0 \in Holds
    <2> DEFINE f == [at \in Bounds \X Bounds |-> at[1]]
    <2>1. \A at \in Bounds \X Bounds : at[2] - at[1] <= 0 => at[2] - at[1] <= 1
      BY DEF Bounds
    <2>2. Solves(f, 0)
      BY <2>1 DEF Halved
    <2> HIDE DEF Solves, f
    <2>3. QED
      BY <1>1, <2>2
  <1>3. ASSUME NEW n \in 0 .. N, n < N, n \in Holds
        PROVE  n + 1 \in Holds
    <2>1. PICK f : Solves(f, n)
      BY <1>3
    <2> DEFINE g == [at \in Bounds \X Bounds |->
                       IF at[2] - at[1] <= n THEN f[at] ELSE Halved(t, f, at)]
    <2>2. ASSUME NEW at \in Bounds \X Bounds, at[2] - at[1] <= n + 1
          PROVE  g[at] = Halved(t, g, at)
      <3>1. g[at] = Halved(t, f, at)
        BY <2>1
      <3>2. CASE at[2] - at[1] <= 1
        BY <3>1, <3>2 DEF Halved
      <3>3. CASE ~(at[2] - at[1] <= 1)
        <4> DEFINE middle == (at[1] + at[2]) \div 2
        <4>1. at[1] \in Int /\ at[2] \in Int /\ at[2] - at[1] > 1 /\ n \in Int
          BY <1>1, <3>3 DEF Bounds
        <4>2. /\ <<at[1], middle>> \in Bounds \X Bounds
              /\ <<middle, at[2]>> \in Bounds \X Bounds
              /\ middle - at[1] < at[2] - at[1]
              /\ at[2] - middle < at[2] - at[1]
              /\ middle \in Nat
          BY <4>1, Halves
        <4> HIDE DEF middle
        <4>3. middle - at[1] <= n /\ at[2] - middle <= n
          BY <2>2, <4>1, <4>2
        <4>4. g[<<at[1], middle>>] = f[<<at[1], middle>>] /\ g[<<middle, at[2]>>] = f[<<middle, at[2]>>]
          BY <4>2, <4>3
        <4> HIDE DEF g
        <4>5. QED
          BY <3>1, <3>3, <4>4 DEF Halved, middle
      <3>4. QED
        BY <3>2, <3>3
    <2>3. g = [at \in Bounds \X Bounds |-> g[at]]
      OBVIOUS
    <2> HIDE DEF g
    <2>4. Solves(g, n + 1)
      BY <2>2, <2>3
    <2> HIDE DEF Solves
    <2>5. n + 1 \in 0 .. N
      BY <1>1, <1>3
    <2>6. QED
      BY <2>4, <2>5
  <1>4. N \in Holds
    <2> HIDE DEF Holds, N
    <2>1. \A n \in 0 .. N : n \in Holds
      BY <1>1, <1>2, <1>3, Induction
    <2>2. QED
      BY <1>1, <2>1
  <1>5. PICK f : Solves(f, N)
    BY <1>4
  <1>6. \A at \in Bounds \X Bounds : at[2] - at[1] <= N
    BY <1>1 DEF Bounds
  <1>7. QED
    BY <1>5, <1>6

\* What Narrow answers lies between its bounds, and is a border.
LEMMA NarrowFinds ==
  ASSUME ArrayAssumption, NEW t, NEW low \in Bounds, NEW high \in Bounds,
         low < high, low = 0 \/ ~Absent(t, low), Absent(t, high)
  PROVE  Narrow(t, low, high) \in low .. (high - 1) /\ Border(t, Narrow(t, low, high))
  <1> DEFINE halve == CHOOSE f : f = [at \in Bounds \X Bounds |-> Halved(t, f, at)]
             N     == 2 * MaxKey + 2
             Apart(at) == at[1] < at[2] /\ (at[1] = 0 \/ ~Absent(t, at[1])) /\ Absent(t, at[2])
             Found(at) == halve[at] \in at[1] .. (at[2] - 1) /\ Border(t, halve[at])
             Holds == {n \in 0 .. N : \A at \in Bounds \X Bounds :
                                        Apart(at) /\ at[2] - at[1] <= n => Found(at)}
  <1>1. halve = [at \in Bounds \X Bounds |-> Halved(t, halve, at)]
    BY HalveExists
  <1>2. Narrow(t, low, high) = halve[<<low, high>>]
    BY DEF Narrow, Halved
  <1> HIDE DEF halve
  <1>3. N \in Nat
    BY DEF ArrayAssumption
  <1>4. 0 \in Holds
    <2>1. \A at \in Bounds \X Bounds : at[1] < at[2] => ~(at[2] - at[1] <= 0)
      BY DEF Bounds
    <2>2. QED
      BY <1>3, <2>1
  <1>5. ASSUME NEW n \in 0 .. N, n < N, n \in Holds
        PROVE  n + 1 \in Holds
    <2>1. SUFFICES ASSUME NEW at \in Bounds \X Bounds, Apart(at), at[2] - at[1] <= n + 1
                   PROVE  Found(at)
      <3> HIDE DEF Apart, Found
      <3>1. n + 1 \in 0 .. N
        BY <1>3, <1>5
      <3>2. QED
        BY <3>1
    <2>2. /\ at[1] \in Int /\ at[2] \in Int /\ n \in Int /\ at[1] < at[2]
      BY <1>3, <2>1 DEF Bounds
    <2>3. halve[at] = Halved(t, halve, at)
      BY <1>1
    <2>4. CASE at[2] - at[1] <= 1
      <3>1. halve[at] = at[1] /\ at[2] = at[1] + 1
        BY <2>2, <2>3, <2>4 DEF Halved
      <3>2. QED
        BY <2>1, <2>2, <3>1 DEF Border
    <2>5. CASE at[2] - at[1] > 1
      <3> DEFINE middle == (at[1] + at[2]) \div 2
                 left   == <<at[1], middle>>
                 right  == <<middle, at[2]>>
      <3>1. /\ left \in Bounds \X Bounds /\ right \in Bounds \X Bounds
            /\ middle - at[1] < at[2] - at[1]
            /\ at[2] - middle < at[2] - at[1]
            /\ middle \in Nat /\ at[1] < middle /\ middle < at[2]
        BY <2>5, Halves
      <3>2. halve[at] = IF Absent(t, middle) THEN halve[left] ELSE halve[right]
        BY <2>2, <2>3, <2>5 DEF Halved
      <3> HIDE DEF middle
      <3>3. /\ left[1] = at[1] /\ left[2] = middle /\ right[1] = middle /\ right[2] = at[2]
            /\ left[2] - left[1] <= n /\ right[2] - right[1] <= n
        BY <2>1, <2>2, <3>1
      <3> HIDE DEF left, right
      <3>4. CASE Absent(t, middle)
        <4>1. Apart(left)
          BY <2>1, <3>1, <3>3, <3>4
        <4>2. Found(left)
          BY <1>5, <3>1, <3>3, <4>1
        <4>3. halve[at] = halve[left]
          BY <3>2, <3>4
        <4>4. QED
          BY <2>2, <3>1, <3>3, <4>2, <4>3
      <3>5. CASE ~Absent(t, middle)
        <4>1. Apart(right)
          BY <2>1, <3>1, <3>3, <3>5
        <4>2. Found(right)
          BY <1>5, <3>1, <3>3, <4>1
        <4>3. halve[at] = halve[right]
          BY <3>2, <3>5
        <4>4. QED
          BY <2>2, <3>1, <3>3, <4>2, <4>3
      <3>6. QED
        BY <3>4, <3>5
    <2>6. QED
      BY <2>2, <2>4, <2>5
  <1>6. N \in Holds
    <2> HIDE DEF Holds, N
    <2>1. \A n \in 0 .. N : n \in Holds
      BY <1>3, <1>4, <1>5, Induction
    <2>2. QED
      BY <1>3, <2>1
  <1> DEFINE at == <<low, high>>
  <1>7. at \in Bounds \X Bounds /\ at[1] = low /\ at[2] = high /\ high - low <= N
    BY <1>3 DEF Bounds
  <1> HIDE DEF at
  <1>8. Found(at)
    BY <1>6, <1>7
  <1>9. QED
    BY <1>2, <1>7, <1>8 DEF at

\* Doubling stops, at the latest above MaxKey.
Doubled(t, f, at) ==
  IF Absent(t, at[2]) THEN Narrow(t, at[1], at[2]) ELSE f[<<at[2], 2 * at[2]>>]

LEMMA Doubles ==
  ASSUME ArrayAssumption, NEW t, NEW at \in Bounds \X (Bounds \ {0}), ~Absent(t, at[2])
  PROVE  /\ at[2] \in 1 .. MaxKey
         /\ <<at[2], 2 * at[2]>> \in Bounds \X (Bounds \ {0})
         /\ at[2] < 2 * at[2]
  BY DEF ArrayAssumption, Absent, Bounds

LEMMA DoubleExists ==
  ASSUME ArrayAssumption, NEW t
  PROVE  \E f : f = [at \in Bounds \X (Bounds \ {0}) |-> Doubled(t, f, at)]
  <1> DEFINE N == 2 * MaxKey + 2
             Places == Bounds \X (Bounds \ {0})
             Solves(f, n) == /\ f = [at \in Places |-> f[at]]
                             /\ \A at \in Places :
                                  at[2] >= N - n => f[at] = Doubled(t, f, at)
             Holds == {n \in 0 .. N : \E f : Solves(f, n)}
  <1>1. N \in Nat /\ \A at \in Places : at[2] \in 1 .. N
    BY DEF ArrayAssumption, Bounds
  <1>2. \A at \in Places : ~Absent(t, at[2]) =>
          /\ <<at[2], 2 * at[2]>> \in Places /\ at[2] < 2 * at[2] /\ at[2] < N
    BY <1>1, Doubles DEF ArrayAssumption
  <1> HIDE DEF Places
  <1>3. 0 \in Holds
    <2> DEFINE f == [at \in Places |-> Narrow(t, at[1], at[2])]
    <2>1. Solves(f, 0)
      BY <1>1, <1>2 DEF Doubled
    <2> HIDE DEF Solves, f
    <2>2. QED
      BY <1>1, <2>1
  <1>4. ASSUME NEW n \in 0 .. N, n < N, n \in Holds
        PROVE  n + 1 \in Holds
    <2>1. PICK f : Solves(f, n)
      BY <1>4
    <2> DEFINE g == [at \in Places |-> IF at[2] >= N - n THEN f[at] ELSE Doubled(t, f, at)]
    <2>2. ASSUME NEW at \in Places, at[2] >= N - (n + 1)
          PROVE  g[at] = Doubled(t, g, at)
      <3>1. g[at] = Doubled(t, f, at)
        BY <2>1
      <3>2. CASE Absent(t, at[2])
        BY <3>1, <3>2 DEF Doubled
      <3>3. CASE ~Absent(t, at[2])
        <4> DEFINE next == <<at[2], 2 * at[2]>>
        <4>1. next \in Places /\ next[2] = 2 * at[2] /\ at[2] < 2 * at[2]
          BY <1>2, <3>3
        <4> HIDE DEF next
        <4>2. next[2] >= N - n
          BY <1>1, <2>2, <4>1
        <4>3. g[next] = f[next]
          BY <4>1, <4>2
        <4> HIDE DEF g
        <4>4. QED
          BY <3>1, <3>3, <4>3 DEF Doubled, next
      <3>4. QED
        BY <3>2, <3>3
    <2>3. g = [at \in Places |-> g[at]]
      OBVIOUS
    <2> HIDE DEF g
    <2>4. Solves(g, n + 1)
      BY <2>2, <2>3
    <2> HIDE DEF Solves
    <2>5. n + 1 \in 0 .. N
      BY <1>1, <1>4
    <2>6. QED
      BY <2>4, <2>5
  <1>5. N \in Holds
    <2> HIDE DEF Holds, N
    <2>1. \A n \in 0 .. N : n \in Holds
      BY <1>1, <1>3, <1>4, Induction
    <2>2. QED
      BY <1>1, <2>1
  <1>6. PICK f : Solves(f, N)
    BY <1>5
  <1>7. \A at \in Places : at[2] >= N - N
    BY <1>1
  <1>8. f = [at \in Places |-> Doubled(t, f, at)]
    BY <1>6, <1>7
  <1>9. QED
    BY <1>8 DEF Places

\* From a present key (or 0) on, UnboundSearch answers with a border.
LEMMA UnboundFinds ==
  ASSUME ArrayAssumption, NEW t, NEW present \in 0 .. MaxKey,
         present = 0 \/ ~Absent(t, present)
  PROVE  UnboundSearch(t, present) \in Nat /\ Border(t, UnboundSearch(t, present))
  <1> DEFINE Places  == Bounds \X (Bounds \ {0})
             double == CHOOSE f : f = [at \in Places |-> Doubled(t, f, at)]
             N      == 2 * MaxKey + 2
             Apart(at) == at[1] < at[2] /\ (at[1] = 0 \/ ~Absent(t, at[1]))
             Found(at) == double[at] \in Nat /\ Border(t, double[at])
             Holds == {n \in 0 .. N : \A at \in Places :
                                        Apart(at) /\ at[2] >= N - n => Found(at)}
  <1>1. double = [at \in Places |-> Doubled(t, double, at)]
    BY DoubleExists
  <1>2. UnboundSearch(t, present) = IF present = 0 /\ Absent(t, 1) THEN 0
                                    ELSE double[<<present, present + 1>>]
    BY DEF UnboundSearch, Doubled
  <1> HIDE DEF double
  <1>3. N \in Nat /\ \A at \in Places : at[1] \in Nat /\ at[2] \in 1 .. N
    BY DEF ArrayAssumption, Bounds
  <1>4. \A at \in Places : ~Absent(t, at[2]) =>
          /\ <<at[2], 2 * at[2]>> \in Places /\ at[2] < 2 * at[2] /\ at[2] < N
    BY <1>3, Doubles DEF ArrayAssumption
  <1>5. ASSUME NEW at \in Places, Apart(at), Absent(t, at[2])
        PROVE  Found(at)
    <2>1. double[at] = Narrow(t, at[1], at[2])
      BY <1>1, <1>5 DEF Doubled
    <2>2. at[1] \in Bounds /\ at[2] \in Bounds
      OBVIOUS
    <2>3. /\ Narrow(t, at[1], at[2]) \in at[1] .. (at[2] - 1)
          /\ Border(t, Narrow(t, at[1], at[2]))
      BY <1>5, <2>2, NarrowFinds
    <2>4. QED
      BY <1>3, <2>1, <2>3
  <1> HIDE DEF Places, Found
  <1>6. 0 \in Holds
    <2>1. ASSUME NEW at \in Places, at[2] >= N - 0
          PROVE  Absent(t, at[2])
      <3>1. at[2] \in Int /\ ~(at[2] < N)
        BY <1>3, <2>1
      <3>2. QED
        BY <1>4, <3>1
    <2>2. QED
      BY <1>3, <1>5, <2>1
  <1>7. ASSUME NEW n \in 0 .. N, n < N, n \in Holds
        PROVE  n + 1 \in Holds
    <2>1. SUFFICES ASSUME NEW at \in Places, Apart(at), at[2] >= N - (n + 1)
                   PROVE  Found(at)
      <3> HIDE DEF Apart
      <3>1. n + 1 \in 0 .. N
        BY <1>3, <1>7
      <3>2. QED
        BY <3>1
    <2>2. CASE Absent(t, at[2])
      BY <1>5, <2>1, <2>2
    <2>3. CASE ~Absent(t, at[2])
      <3> DEFINE next == <<at[2], 2 * at[2]>>
      <3>1. /\ next \in Places /\ next[1] = at[2] /\ next[2] = 2 * at[2] /\ at[2] < 2 * at[2]
        BY <1>4, <2>3
      <3> HIDE DEF next
      <3>2. next[2] >= N - n /\ Apart(next)
        BY <1>3, <2>1, <2>3, <3>1
      <3>3. Found(next)
        BY <1>7, <3>1, <3>2
      <3>4. double[at] = double[next]
        BY <1>1, <2>3 DEF Doubled, next
      <3>5. QED
        BY <3>3, <3>4 DEF Found
    <2>4. QED
      BY <2>2, <2>3
  <1>8. N \in Holds
    <2> HIDE DEF Holds, N
    <2>1. \A n \in 0 .. N : n \in Holds
      BY <1>3, <1>6, <1>7, Induction
    <2>2. QED
      BY <1>3, <2>1
  <1>9. CASE present = 0 /\ Absent(t, 1)
    BY <1>2, <1>9 DEF Border
  <1>10. CASE ~(present = 0 /\ Absent(t, 1))
    <2> DEFINE at == <<present, present + 1>>
    <2>1. at \in Places /\ at[1] = present /\ at[2] = present + 1
      BY DEF Places, Bounds, ArrayAssumption
    <2> HIDE DEF at
    <2>2. Apart(at) /\ at[2] >= N - N
      BY <1>3, <2>1
    <2>3. Found(at)
      BY <1>8, <2>1, <2>2
    <2>4. QED
      BY <1>2, <1>10, <2>3 DEF Found, at
  <1>11. QED
    BY <1>9, <1>10

-----------------------------------------------------------------------------
(* A table and its contents *)

\* The compact array holds integers only, and nothing is beside it.
Compact(t) ==
  t.dense => /\ \A i \in 1 .. Len(t.array) : t.array[i] = Integer
             /\ \A k \in HashKeys : t.hash[k] = Nil
Shaped(t) == t \in TableType /\ Len(t.array) <= MaxArray /\ Compact(t)

LEMMA KeyFacts ==
  ASSUME ArrayAssumption, KeyAssumption, ValueAssumption
  PROVE  /\ MaxArray \in Nat /\ MaxKey \in Nat /\ MaxArray <= MaxKey
         /\ Positive = 1 .. MaxKey /\ Positive \subseteq Keys
         /\ OtherKeys \subseteq Keys /\ OtherKeys \subseteq HashKeys /\ HashKeys \subseteq Keys
         /\ \A k \in Positive : k \notin OtherKeys
         /\ \A k \in Positive : k \in HashKeys <=> k > MaxArray
         /\ \A k \in Keys : k \in OtherKeys \/ k \in Positive
         /\ Integer \in Values /\ Integer # Nil
         /\ \A k \in Keys : k # Nil
  BY DEF ArrayAssumption, KeyAssumption, ValueAssumption, Positive, Keys, HashKeys, Values

LEMMA FieldFacts ==
  ASSUME NEW t, Shaped(t)
  PROVE  /\ t.dense \in BOOLEAN
         /\ t.array \in Seq(Values \cup {Nil}) /\ Len(t.array) \in Nat
         /\ Len(t.array) <= MaxArray
         /\ \A i \in 1 .. Len(t.array) : t.array[i] \in Values \cup {Nil}
         /\ t.hash \in [HashKeys -> Values \cup {Nil}]
         /\ t.lengthCache \in NoLength .. MaxKey
         /\ t.iterationCache \subseteq Keys /\ t.iterationCacheValid \in BOOLEAN
         /\ t.staleIterationCache \subseteq Keys
         /\ t.constKeys \subseteq Keys /\ t.readOnly \in BOOLEAN
         /\ t.metatable \in BOOLEAN /\ t.mode \in WeakModes
         /\ t.inline \in Values \cup {Nil, Unknown}
  BY DEF Shaped, TableType

\* What is read at a positive integer, and at another key.
LEMMA ReadFacts ==
  ASSUME ArrayAssumption, KeyAssumption, ValueAssumption, NEW t, Shaped(t)
  PROVE  /\ \A k \in Positive : RawGet(t, k) = IF k <= Len(t.array) THEN t.array[k]
                                               ELSE IF k > MaxArray THEN t.hash[k] ELSE Nil
         /\ \A k \in OtherKeys : RawGet(t, k) = t.hash[k]
         /\ \A k \in Keys : RawGet(t, k) \in Values \cup {Nil}
  <1>1. \A k \in Positive : RawGet(t, k) = IF k <= Len(t.array) THEN t.array[k]
                                           ELSE IF k > MaxArray THEN t.hash[k] ELSE Nil
    BY KeyFacts DEF RawGet
  <1>2. \A k \in OtherKeys : RawGet(t, k) = t.hash[k]
    BY DEF RawGet
  <1>3. ASSUME NEW k \in Positive
        PROVE  RawGet(t, k) \in Values \cup {Nil}
    <2>1. k \in Nat /\ k >= 1
      BY KeyFacts
    <2>2. CASE k <= Len(t.array)
      BY <1>1, <2>1, <2>2, FieldFacts
    <2>3. CASE ~(k <= Len(t.array))
      BY <1>1, <2>3, FieldFacts, KeyFacts
    <2>4. QED
      BY <2>2, <2>3
  <1>4. \A k \in OtherKeys : RawGet(t, k) \in Values \cup {Nil}
    BY <1>2, FieldFacts, KeyFacts
  <1>5. QED
    BY <1>1, <1>2, <1>3, <1>4, KeyFacts

LEMMA AbsentFacts ==
  ASSUME NEW t, NEW n \in Nat, MaxKey \in Nat
  PROVE  /\ Absent(t, n) <=> n > MaxKey \/ RawGet(t, n) = Nil
         /\ ~Absent(t, n) => n <= MaxKey
  BY DEF Absent

\* The search of Len answers with a border, whichever areas hold the elements.
LEMMA SearchFinds ==
  ASSUME ArrayAssumption, KeyAssumption, ValueAssumption, NEW t, Shaped(t)
  PROVE  SearchLength(t) \in 0 .. MaxKey /\ Border(t, SearchLength(t))
  <1> DEFINE size == Len(t.array)
  <1>1. size \in 0 .. MaxKey /\ size <= MaxArray /\ MaxKey \in Nat
    BY FieldFacts, KeyFacts
  <1>2. size # 0 => size \in Positive /\ RawGet(t, size) = t.array[size]
    BY <1>1, KeyFacts, ReadFacts
  <1> SUFFICES SearchLength(t) \in Nat /\ Border(t, SearchLength(t))
    BY <1>1 DEF Border, Absent
  <1>3. CASE t.dense
    <2>1. SearchLength(t) = size
      BY <1>3 DEF SearchLength
    <2>2. size = 0 \/ ~Absent(t, size)
      BY <1>1, <1>2, <1>3, KeyFacts DEF Absent, Shaped, Compact
    <2>3. Absent(t, size + 1)
      <3>1. CASE size + 1 > MaxKey
        BY <3>1 DEF Absent
      <3>2. CASE size + 1 <= MaxKey
        <4>1. size + 1 \in Positive
          BY <1>1, <3>2, KeyFacts
        <4>2. RawGet(t, size + 1) = IF size + 1 > MaxArray THEN t.hash[size + 1] ELSE Nil
          BY <1>1, <4>1, ReadFacts
        <4>3. QED
          BY <1>3, <4>1, <4>2, KeyFacts DEF Absent, Shaped, Compact
      <3>3. QED
        BY <1>1, <3>1, <3>2
    <2>4. QED
      BY <1>1, <2>1, <2>2, <2>3 DEF Border
  <1>4. CASE ~t.dense /\ size > 0 /\ t.array[size] = Nil
    <2>1. SearchLength(t) = Narrow(t, 0, size)
      BY <1>4 DEF SearchLength
    <2>2. 0 \in Bounds /\ size \in Bounds /\ 0 < size
      BY <1>1, <1>4 DEF Bounds
    <2>3. Absent(t, size)
      BY <1>1, <1>2, <1>4 DEF Absent
    <2>4. Narrow(t, 0, size) \in 0 .. (size - 1) /\ Border(t, Narrow(t, 0, size))
      BY <2>2, <2>3, NarrowFinds
    <2>5. QED
      BY <2>1, <2>4
  <1>5. CASE ~t.dense /\ ~(size > 0 /\ t.array[size] = Nil)
    <2>1. SearchLength(t) = UnboundSearch(t, size)
      BY <1>5 DEF SearchLength
    <2>2. size = 0 \/ ~Absent(t, size)
      BY <1>1, <1>2, <1>5 DEF Absent
    <2>3. QED
      BY <1>1, <2>1, <2>2, UnboundFinds
  <1>6. QED
    BY <1>3, <1>4, <1>5

LEMMA LengthFacts ==
  ASSUME ArrayAssumption, KeyAssumption, ValueAssumption, NEW t, Shaped(t)
  PROVE  /\ Length(t) \in 0 .. MaxKey
         /\ IsBorder(t) <=> Border(t, Length(t))
         /\ t.lengthCache = NoLength => IsBorder(t)
         /\ t.lengthCache # NoLength => Length(t) = t.lengthCache
  <1>1. IsBorder(t) <=> Border(t, Length(t))
    BY DEF IsBorder, Border
  <1>2. t.lengthCache # NoLength => t.lengthCache \in 0 .. MaxKey
    BY FieldFacts, KeyFacts DEF NoLength
  <1>3. QED
    BY <1>1, <1>2, SearchFinds DEF Length

-----------------------------------------------------------------------------
(* What a write changes *)

\* The keys in W get v.
Sets(t, u, W, v) ==
  \A k \in Keys : RawGet(u, k) = IF k \in W THEN v ELSE RawGet(t, k)

\* The caches after noteMutation, and those of a table only looked at.
Noted(t, u) ==
  /\ u.iterationCacheValid = FALSE
  /\ u.staleIterationCache = IF t.iterationCacheValid THEN t.iterationCache
                                                      ELSE t.staleIterationCache
  /\ u.inline = Unknown
Quiet(t, u) ==
  /\ \A k \in Keys : RawGet(u, k) = RawGet(t, k)
  /\ u.iterationCacheValid = t.iterationCacheValid
  /\ u.iterationCache = t.iterationCache
  /\ u.staleIterationCache = t.staleIterationCache
  /\ u.inline = t.inline

LEMMA MaterializeFacts ==
  ASSUME ArrayAssumption, KeyAssumption, ValueAssumption, NEW t, Shaped(t)
  PROVE  /\ Shaped(Materialize(t)) /\ ~Materialize(t).dense
         /\ Quiet(t, Materialize(t))
         /\ Materialize(t).lengthCache = t.lengthCache
         /\ Materialize(t).constKeys = t.constKeys
         /\ Materialize(t).readOnly = t.readOnly
         /\ Materialize(t).array = t.array /\ Materialize(t).hash = t.hash
         /\ Materialize(t).mode = t.mode
  <1> DEFINE u == Materialize(t)
  <1>1. /\ u \in TableType /\ u.dense = FALSE
        /\ u.array = t.array /\ u.hash = t.hash /\ u.lengthCache = t.lengthCache
        /\ u.iterationCacheValid = t.iterationCacheValid
        /\ u.iterationCache = t.iterationCache
        /\ u.staleIterationCache = t.staleIterationCache
        /\ u.inline = t.inline /\ u.constKeys = t.constKeys /\ u.readOnly = t.readOnly
        /\ u.mode = t.mode
    BY DEF Shaped, TableType, Materialize
  <1> HIDE DEF u
  <1>2. Shaped(u)
    BY <1>1 DEF Shaped, Compact
  <1>3. \A k \in Keys : RawGet(u, k) = RawGet(t, k)
    BY <1>1 DEF RawGet
  <1>4. QED
    BY <1>1, <1>2, <1>3 DEF Quiet, u

LEMMA NoteFacts ==
  ASSUME NEW t, t \in TableType
  PROVE  LET u == NoteMutation(t)
         IN /\ u \in TableType /\ Noted(t, u)
            /\ u.array = t.array /\ u.hash = t.hash /\ u.dense = t.dense
            /\ u.lengthCache = t.lengthCache
  BY DEF NoteMutation, TableType, Noted

\* s is the array with v in slot k.
Slotted(V, array, k, v, s) ==
  /\ s \in Seq(V)
  /\ Len(s) = IF k > Len(array) THEN k ELSE Len(array)
  /\ \A i \in 1 .. Len(s) :
       s[i] = IF i = k THEN v ELSE IF i <= Len(array) THEN array[i] ELSE Nil

LEMMA SlotFacts ==
  ASSUME NEW V, NEW array \in Seq(V), NEW k \in Nat \ {0}, NEW v \in V, Nil \in V
  PROVE  Slotted(V, array, k, v, SetSlot(array, k, v))
  <1> DEFINE n == IF k > Len(array) THEN k ELSE Len(array)
             s == SetSlot(array, k, v)
  <1>1. n \in Nat /\ Len(array) \in Nat /\ \A i \in 1 .. Len(array) : array[i] \in V
    OBVIOUS
  <1>2. s = [i \in 1 .. n |-> IF i = k THEN v ELSE IF i <= Len(array) THEN array[i] ELSE Nil]
    BY DEF SetSlot
  <1> HIDE DEF n, s
  <1>3. \A i \in 1 .. n : s[i] \in V
    BY <1>1, <1>2
  <1>4. s \in Seq(V) /\ Len(s) = n
    <2>1. s = [i \in 1 .. n |-> s[i]]
      BY <1>2
    <2>2. QED
      BY <1>1, <1>2, <1>3, <2>1
  <1>5. QED
    BY <1>2, <1>4 DEF n, s, Slotted

LEMMA StoreFacts ==
  ASSUME ArrayAssumption, KeyAssumption, ValueAssumption, NEW t, Shaped(t),
         NEW k \in Positive, NEW v \in Values \cup {Nil}, t.dense => FitsDense(t, k, v)
  PROVE  LET u == StoreInteger(t, k, v)
         IN Shaped(u) /\ Sets(t, u, {k}, v) /\ Noted(t, u) /\ u.lengthCache = t.lengthCache
  <1> DEFINE m == IF k <= MaxArray THEN [t EXCEPT !.array = SetSlot(@, k, v)]
                                   ELSE [t EXCEPT !.hash[k] = v]
             u == StoreInteger(t, k, v)
             V == Values \cup {Nil}
  <1>1. k \in Nat \ {0} /\ k <= MaxKey /\ k \in Keys /\ k \notin OtherKeys
    BY KeyFacts
  <1>2. /\ SetSlot(t.array, k, v) \in Seq(V)
        /\ Len(SetSlot(t.array, k, v)) = IF k > Len(t.array) THEN k ELSE Len(t.array)
        /\ \A i \in 1 .. Len(SetSlot(t.array, k, v)) :
             SetSlot(t.array, k, v)[i] = IF i = k THEN v
                                         ELSE IF i <= Len(t.array) THEN t.array[i] ELSE Nil
    <2>1. Nil \in V /\ v \in V /\ t.array \in Seq(V)
      BY FieldFacts
    <2> HIDE DEF V
    <2>2. Slotted(V, t.array, k, v, SetSlot(t.array, k, v))
      BY <1>1, <2>1, SlotFacts
    <2>3. QED
      BY <2>2 DEF Slotted
  <1>3. /\ m \in TableType /\ m.dense = t.dense /\ m.lengthCache = t.lengthCache
        /\ m.iterationCacheValid = t.iterationCacheValid
        /\ m.iterationCache = t.iterationCache
        /\ m.staleIterationCache = t.staleIterationCache
        /\ k <= MaxArray => m.array = SetSlot(t.array, k, v) /\ m.hash = t.hash
        /\ k > MaxArray => m.array = t.array /\ m.hash = [t.hash EXCEPT ![k] = v]
    <2>1. CASE k <= MaxArray
      <3> DEFINE array == SetSlot(t.array, k, v)
      <3>1. t \in TableType /\ m = [t EXCEPT !.array = array]
        BY <2>1 DEF Shaped
      <3>2. ~(k > MaxArray)
        BY <1>1, <2>1, KeyFacts
      <3>3. array \in Seq(V)
        BY <1>2
      <3> HIDE DEF array, m
      <3>4. m \in TableType /\ m.array = array /\ m.hash = t.hash
        BY <3>1, <3>3 DEF TableType
      <3>5. /\ m.dense = t.dense /\ m.lengthCache = t.lengthCache
            /\ m.iterationCacheValid = t.iterationCacheValid
            /\ m.iterationCache = t.iterationCache
            /\ m.staleIterationCache = t.staleIterationCache
        BY <3>1 DEF TableType
      <3>6. QED
        BY <3>2, <3>4, <3>5 DEF array
    <2>2. CASE k > MaxArray
      <3>1. t \in TableType /\ m = [t EXCEPT !.hash = [t.hash EXCEPT ![k] = v]]
        BY <1>1, <2>2, KeyFacts DEF Shaped, TableType
      <3>2. [t.hash EXCEPT ![k] = v] \in [HashKeys -> V]
        BY FieldFacts
      <3>3. QED
        BY <1>1, <2>2, <3>1, <3>2, KeyFacts DEF TableType
    <2>3. QED
      BY <1>1, <2>1, <2>2, KeyFacts
  <1>4. u = NoteMutation(m)
    BY DEF StoreInteger
  <1> HIDE DEF m, u
  <1>5. /\ u \in TableType /\ Noted(m, u) /\ u.array = m.array /\ u.hash = m.hash
        /\ u.dense = m.dense /\ u.lengthCache = m.lengthCache
    BY <1>3, <1>4, NoteFacts
  <1>6. Noted(t, u) /\ u.lengthCache = t.lengthCache
    BY <1>3, <1>5 DEF Noted
  <1>7. Shaped(u)
    <2>1. Len(u.array) <= MaxArray
      BY <1>1, <1>2, <1>3, <1>5, FieldFacts, KeyFacts
    <2>2. ASSUME u.dense
          PROVE  (\A i \in 1 .. Len(u.array) : u.array[i] = Integer) /\ (\A j \in HashKeys : u.hash[j] = Nil)
      <3>1. k <= MaxArray /\ v = Integer /\ k <= Len(t.array) + 1
        BY <1>3, <1>5, <2>2 DEF FitsDense
      <3>2. (\A i \in 1 .. Len(t.array) : t.array[i] = Integer) /\ (\A j \in HashKeys : t.hash[j] = Nil)
        BY <1>3, <1>5, <2>2 DEF Shaped, Compact
      <3>3. Len(t.array) \in Nat
        BY FieldFacts
      <3>4. QED
        BY <1>1, <1>2, <1>3, <1>5, <3>1, <3>2, <3>3
    <2>3. QED
      BY <1>5, <2>1, <2>2 DEF Shaped, Compact
  <1>8. Sets(t, u, {k}, v)
    <2>1. ASSUME NEW j \in Positive
          PROVE  RawGet(u, j) = IF j = k THEN v ELSE RawGet(t, j)
      <3>1. j \in Nat /\ j >= 1 /\ Len(t.array) \in Nat /\ Len(t.array) <= MaxArray
        BY KeyFacts, FieldFacts
      <3>2. /\ RawGet(t, j) = IF j <= Len(t.array) THEN t.array[j]
                              ELSE IF j > MaxArray THEN t.hash[j] ELSE Nil
            /\ RawGet(u, j) = IF j <= Len(u.array) THEN u.array[j]
                              ELSE IF j > MaxArray THEN u.hash[j] ELSE Nil
        BY <1>7, ReadFacts
      <3>3. CASE k <= MaxArray
        BY <1>1, <1>2, <1>3, <1>5, <3>1, <3>2, <3>3, KeyFacts
      <3>4. CASE k > MaxArray
        <4>1. u.array = t.array /\ u.hash = [t.hash EXCEPT ![k] = v]
          BY <1>3, <1>5, <3>4
        <4>2. j > MaxArray => u.hash[j] = IF j = k THEN v ELSE t.hash[j]
          BY <1>1, <3>4, <4>1, FieldFacts, KeyFacts
        <4>3. QED
          BY <1>1, <3>1, <3>2, <3>4, <4>1, <4>2, KeyFacts
      <3>5. QED
        BY <1>1, <3>3, <3>4, KeyFacts
    <2>2. ASSUME NEW j \in OtherKeys
          PROVE  RawGet(u, j) = RawGet(t, j) /\ j # k
      <3>1. RawGet(u, j) = u.hash[j] /\ RawGet(t, j) = t.hash[j] /\ j \in HashKeys /\ j # k
        BY <1>1, <1>7, ReadFacts, KeyFacts
      <3>2. u.hash[j] = t.hash[j]
        BY <1>1, <1>3, <1>5, <3>1, FieldFacts, KeyFacts
      <3>3. QED
        BY <3>1, <3>2
    <2>3. QED
      BY <2>1, <2>2, KeyFacts DEF Sets
  <1>9. QED
    BY <1>6, <1>7, <1>8 DEF u

\* The length cache after slot k has got v.
CacheAfter(c, k, v) ==
  IF c = NoLength THEN NoLength
  ELSE IF v = Nil THEN IF k <= c THEN NoLength ELSE c
  ELSE IF k = c + 1 THEN k ELSE IF k <= c THEN c ELSE NoLength

LEMMA CachedFacts ==
  ASSUME ArrayAssumption, KeyAssumption, ValueAssumption, NEW t, Shaped(t),
         NEW c \in NoLength .. MaxKey
  PROVE  LET u == [t EXCEPT !.lengthCache = c]
         IN /\ Shaped(u) /\ Quiet(t, u) /\ u.lengthCache = c /\ u.dense = t.dense
            /\ u.array = t.array /\ u.hash = t.hash
            /\ u.constKeys = t.constKeys /\ u.readOnly = t.readOnly
  <1> DEFINE u == [t EXCEPT !.lengthCache = c]
  <1>1. /\ u \in TableType /\ u.lengthCache = c /\ u.dense = t.dense
        /\ u.array = t.array /\ u.hash = t.hash
        /\ u.iterationCacheValid = t.iterationCacheValid
        /\ u.iterationCache = t.iterationCache
        /\ u.staleIterationCache = t.staleIterationCache
        /\ u.inline = t.inline /\ u.constKeys = t.constKeys /\ u.readOnly = t.readOnly
    BY DEF Shaped, TableType
  <1> HIDE DEF u
  <1>2. Shaped(u)
    BY <1>1 DEF Shaped, Compact
  <1>3. \A k \in Keys : RawGet(u, k) = RawGet(t, k)
    BY <1>1 DEF RawGet
  <1>4. QED
    BY <1>1, <1>2, <1>3 DEF Quiet, u

LEMMA CacheRange ==
  ASSUME ArrayAssumption, NEW c \in NoLength .. MaxKey, NEW k \in Positive, NEW v
  PROVE  CacheAfter(c, k, v) \in NoLength .. MaxKey
  BY DEF CacheAfter, NoLength, Positive, ArrayAssumption

LEMMA UpdateFacts ==
  ASSUME ArrayAssumption, KeyAssumption, ValueAssumption, NEW t, Shaped(t),
         NEW k \in Positive, NEW v
  PROVE  UpdateLengthCache(t, k, v) = [t EXCEPT !.lengthCache = CacheAfter(t.lengthCache, k, v)]
  <1>1. t.lengthCache \in NoLength .. MaxKey
    BY FieldFacts
  <1>2. CASE t.lengthCache = NoLength
    <2>1. t = [t EXCEPT !.lengthCache = NoLength]
      BY <1>2 DEF Shaped, TableType
    <2>2. QED
      BY <1>2, <2>1 DEF UpdateLengthCache, CacheAfter
  <1>3. CASE t.lengthCache # NoLength
    BY <1>3 DEF UpdateLengthCache, CacheAfter
  <1>4. QED
    BY <1>2, <1>3

LEMMA StoreAfter ==
  ASSUME ArrayAssumption, KeyAssumption, ValueAssumption, NEW t, Shaped(t),
         NEW p, Shaped(p), Quiet(t, p), NEW k \in Positive, NEW v \in Values \cup {Nil},
         p.dense => FitsDense(p, k, v)
  PROVE  LET u == StoreInteger(p, k, v)
         IN Shaped(u) /\ Sets(t, u, {k}, v) /\ Noted(t, u) /\ u.lengthCache = p.lengthCache
  <1> DEFINE u == StoreInteger(p, k, v)
  <1>1. Shaped(u) /\ Sets(p, u, {k}, v) /\ Noted(p, u) /\ u.lengthCache = p.lengthCache
    BY StoreFacts
  <1> HIDE DEF u
  <1>2. Sets(t, u, {k}, v) /\ Noted(t, u)
    BY <1>1 DEF Sets, Noted, Quiet
  <1>3. QED
    BY <1>1, <1>2 DEF u

\* What any write of slot k does.
Stored(t, u, k, v) ==
  /\ Shaped(u) /\ Sets(t, u, {k}, v) /\ Noted(t, u)
  /\ u.lengthCache = CacheAfter(t.lengthCache, k, v)

LEMMA RawSetIntegerFacts ==
  ASSUME ArrayAssumption, KeyAssumption, ValueAssumption, NEW t, Shaped(t),
         NEW k \in Positive, NEW v \in Values \cup {Nil}
  PROVE  Stored(t, RawSetInteger(t, k, v), k, v)
  <1> DEFINE c == CacheAfter(t.lengthCache, k, v)
  <1>1. c \in NoLength .. MaxKey
    BY FieldFacts, CacheRange
  <1>2. CASE FitsDense(t, k, v)
    <2> DEFINE p == [t EXCEPT !.lengthCache = c]
    <2>1. RawSetInteger(t, k, v) = StoreInteger(p, k, v)
      BY <1>2, UpdateFacts DEF RawSetInteger
    <2>2. /\ Shaped(p) /\ Quiet(t, p) /\ p.lengthCache = c /\ p.dense = t.dense
          /\ p.array = t.array
      BY <1>1, CachedFacts
    <2> HIDE DEF p, c
    <2>3. FitsDense(p, k, v)
      BY <1>2, <2>2 DEF FitsDense
    <2>4. QED
      BY <2>1, <2>2, <2>3, StoreAfter DEF Stored, c
  <1>3. CASE ~FitsDense(t, k, v)
    <2> DEFINE q == Materialize(t)
               p == [q EXCEPT !.lengthCache = c]
    <2>1. Shaped(q) /\ ~q.dense /\ Quiet(t, q) /\ q.lengthCache = t.lengthCache
      BY MaterializeFacts
    <2> HIDE DEF q, c
    <2>2. RawSetInteger(t, k, v) = StoreInteger(p, k, v)
      BY <1>3, <2>1, UpdateFacts DEF RawSetInteger, c, q
    <2>3. Shaped(p) /\ Quiet(q, p) /\ p.lengthCache = c /\ p.dense = q.dense
      BY <1>1, <2>1, CachedFacts
    <2> HIDE DEF p
    <2>4. Quiet(t, p)
      BY <2>1, <2>3 DEF Quiet
    <2>5. QED
      BY <2>1, <2>2, <2>3, <2>4, StoreAfter DEF Stored, c
  <1>4. QED
    BY <1>2, <1>3

LEMMA RawSetPositiveFacts ==
  ASSUME ArrayAssumption, KeyAssumption, ValueAssumption, NEW t, Shaped(t),
         NEW k \in Positive, NEW v \in Values
  PROVE  /\ Stored(t, RawSetPositiveIntegerNonNil(t, k, v), k, v)
         /\ ~t.dense => ~RawSetPositiveIntegerNonNil(t, k, v).dense
  <1>1. v # Nil /\ v \in Values \cup {Nil}
    BY DEF ValueAssumption
  <1>2. CASE FitsDense(t, k, v)
    BY <1>1, <1>2, RawSetIntegerFacts DEF RawSetPositiveIntegerNonNil, FitsDense
  <1>3. CASE ~FitsDense(t, k, v)
    <2> DEFINE q == Materialize(t)
               c == CacheAfter(t.lengthCache, k, v)
               p == [q EXCEPT !.lengthCache = c]
               u == RawSetPositiveIntegerNonNil(t, k, v)
    <2>1. Shaped(q) /\ ~q.dense /\ Quiet(t, q) /\ q.lengthCache = t.lengthCache
      BY MaterializeFacts
    <2>2. c \in NoLength .. MaxKey
      BY <1>1, FieldFacts, CacheRange
    <2>3. u = StoreInteger(p, k, v)
      <3>1. t.lengthCache \in Int /\ k \in Int
        BY FieldFacts, KeyFacts DEF NoLength
      <3>2. c = IF q.lengthCache = NoLength \/ k <= q.lengthCache THEN q.lengthCache
                ELSE IF k = q.lengthCache + 1 THEN k ELSE NoLength
        BY <1>1, <2>1, <3>1 DEF CacheAfter
      <3> HIDE DEF c
      <3>3. QED
        BY <1>3, <3>2 DEF RawSetPositiveIntegerNonNil
    <2> HIDE DEF q, c
    <2>4. Shaped(p) /\ Quiet(q, p) /\ p.lengthCache = c /\ p.dense = q.dense
      BY <2>1, <2>2, CachedFacts
    <2> HIDE DEF p
    <2>5. Quiet(t, p)
      BY <2>1, <2>4 DEF Quiet
    <2>6. ~StoreInteger(p, k, v).dense
      <3>1. p \in TableType /\ ~p.dense
        BY <2>1, <2>4 DEF Shaped
      <3>2. QED
        BY <3>1 DEF StoreInteger, NoteMutation, TableType
    <2>7. QED
      BY <1>1, <2>1, <2>3, <2>4, <2>5, <2>6, StoreAfter DEF Stored, c
  <1>4. QED
    BY <1>2, <1>3

LEMMA RawSetOtherFacts ==
  ASSUME ArrayAssumption, KeyAssumption, ValueAssumption, NEW t, Shaped(t),
         NEW k \in OtherKeys, NEW v \in Values \cup {Nil}
  PROVE  LET u == RawSetOther(t, k, v)
         IN Shaped(u) /\ Sets(t, u, {k}, v) /\ Noted(t, u) /\ u.lengthCache = t.lengthCache
  <1> DEFINE q == Materialize(t)
             m == [q EXCEPT !.hash[k] = v]
             u == RawSetOther(t, k, v)
  <1>1. Shaped(q) /\ ~q.dense /\ Quiet(t, q) /\ q.lengthCache = t.lengthCache
    BY MaterializeFacts
  <1>2. k \in HashKeys /\ k \in Keys
    BY KeyFacts
  <1>3. u = NoteMutation(m)
    BY DEF RawSetOther
  <1> HIDE DEF q, u
  <1>4. /\ m \in TableType /\ ~m.dense /\ m.lengthCache = q.lengthCache
        /\ m.iterationCacheValid = q.iterationCacheValid
        /\ m.iterationCache = q.iterationCache
        /\ m.staleIterationCache = q.staleIterationCache
        /\ m.array = q.array /\ m.hash = [q.hash EXCEPT ![k] = v]
    <2> DEFINE h == [q.hash EXCEPT ![k] = v]
    <2>1. q \in TableType /\ m = [q EXCEPT !.hash = h]
      BY <1>1, <1>2 DEF Shaped, TableType
    <2>2. h \in [HashKeys -> Values \cup {Nil}]
      BY <1>1, FieldFacts
    <2> HIDE DEF h, m
    <2>3. m \in TableType
      BY <2>1, <2>2 DEF TableType
    <2>4. QED
      BY <1>1, <2>1, <2>3 DEF h, TableType
  <1> HIDE DEF m
  <1>5. /\ u \in TableType /\ Noted(m, u) /\ u.array = m.array /\ u.hash = m.hash
        /\ u.dense = m.dense /\ u.lengthCache = m.lengthCache
    BY <1>3, <1>4, NoteFacts
  <1>6. Shaped(u)
    BY <1>1, <1>4, <1>5 DEF Shaped, Compact
  <1>7. Noted(t, u) /\ u.lengthCache = t.lengthCache
    BY <1>1, <1>4, <1>5 DEF Noted, Quiet
  <1>8. ASSUME NEW j \in Keys
        PROVE  RawGet(u, j) = IF j = k THEN v ELSE RawGet(q, j)
    <2>1. CASE j \in OtherKeys
      BY <1>1, <1>4, <1>5, <2>1, FieldFacts, KeyFacts DEF RawGet
    <2>2. CASE j \notin OtherKeys
      <3>1. j # k /\ u.array = q.array
        BY <1>4, <1>5, <2>2
      <3>2. j \in HashKeys => u.hash[j] = q.hash[j]
        BY <1>1, <1>4, <1>5, <3>1, FieldFacts
      <3>3. QED
        BY <2>2, <3>1, <3>2 DEF RawGet
    <2>3. QED
      BY <2>1, <2>2
  <1>9. Sets(t, u, {k}, v)
    BY <1>1, <1>8 DEF Sets, Quiet
  <1>10. QED
    BY <1>6, <1>7, <1>9 DEF u

\* What any single assignment does to the length cache.
Cached(t, u, k, v) ==
  u.lengthCache = IF k \in OtherKeys THEN t.lengthCache ELSE CacheAfter(t.lengthCache, k, v)

LEMMA RawSetFacts ==
  ASSUME ArrayAssumption, KeyAssumption, ValueAssumption, NEW t, Shaped(t),
         NEW k \in Keys, NEW v \in Values \cup {Nil}
  PROVE  LET u == RawSetUnchecked(t, k, v)
         IN Shaped(u) /\ Sets(t, u, {k}, v) /\ Noted(t, u) /\ Cached(t, u, k, v)
  <1>1. CASE k \in OtherKeys
    BY <1>1, RawSetOtherFacts DEF RawSetUnchecked, Cached
  <1>2. CASE k \notin OtherKeys
    <2>1. k \in Positive
      BY <1>2, KeyFacts
    <2>2. QED
      BY <1>2, <2>1, RawSetIntegerFacts DEF RawSetUnchecked, Cached, Stored
  <1>3. QED
    BY <1>1, <1>2

\* A length that is not touched, or forgotten, stays a border if no element of
\* the sequence has changed.
LEMMA SameBorder ==
  ASSUME ArrayAssumption, KeyAssumption, ValueAssumption,
         NEW t, NEW u, Shaped(t), Shaped(u),
         u.lengthCache = NoLength
           \/ (u.lengthCache = t.lengthCache /\ \A k \in Positive : RawGet(u, k) = RawGet(t, k))
  PROVE  IsBorder(t) => IsBorder(u)
  <1>1. CASE u.lengthCache = NoLength
    BY <1>1, LengthFacts
  <1>2. CASE u.lengthCache # NoLength
    <2>1. Length(u) = Length(t) /\ Length(t) \in 0 .. MaxKey
      BY <1>2, LengthFacts
    <2>2. \A n \in Nat : n > 0 => (Absent(u, n) <=> Absent(t, n))
      BY <1>2, KeyFacts DEF Absent
    <2>3. Border(t, Length(t)) => Border(u, Length(t))
      BY <2>1, <2>2 DEF Border
    <2>4. QED
      BY <2>1, <2>3, LengthFacts
  <1>3. QED
    BY <1>1, <1>2

\* The length cache after the keys first .. last have got an integer each.
LoopCache(c, first, last) ==
  IF c = NoLength \/ first > c + 1 THEN NoLength ELSE IF last > c THEN last ELSE c

\* Elements that are filled move the length up, if it was a border, to the last
\* of them and no further.
LEMMA FilledDrift ==
  ASSUME ArrayAssumption, KeyAssumption, ValueAssumption,
         NEW t, NEW u, Shaped(t), Shaped(u),
         NEW first \in Positive, NEW last \in Positive, first <= last,
         NEW v \in Values, Sets(t, u, first .. last, v),
         u.lengthCache = LoopCache(t.lengthCache, first, last)
  PROVE  MayDrift(t, u)
  <1> DEFINE c == t.lengthCache
  <1>1. /\ first \in Nat /\ last \in Nat /\ first >= 1 /\ last <= MaxKey /\ MaxKey \in Nat
        /\ c \in NoLength .. MaxKey
    BY KeyFacts, FieldFacts
  <1>2. CASE u.lengthCache = NoLength
    BY <1>2, LengthFacts DEF MayDrift
  <1>3. CASE u.lengthCache # NoLength
    <2>1. c # NoLength /\ first <= c + 1 /\ c \in Nat /\ c <= MaxKey
      BY <1>1, <1>3 DEF LoopCache, NoLength
    <2>2. Length(t) = c /\ Length(u) = IF last > c THEN last ELSE c
      BY <1>1, <1>3, <2>1, LengthFacts DEF LoopCache
    <2>3. v # Nil
      BY DEF ValueAssumption
    <2>4. \A n \in Nat : n > 0 => (Absent(u, n) <=> (~(first <= n /\ n <= last) /\ Absent(t, n)))
      <3>1. ASSUME NEW n \in Nat, n > 0, n <= MaxKey
            PROVE  RawGet(u, n) = IF first <= n /\ n <= last THEN v ELSE RawGet(t, n)
        <4>1. n \in Keys /\ (n \in first .. last <=> first <= n /\ n <= last)
          BY <1>1, <3>1, KeyFacts
        <4>2. QED
          BY <4>1 DEF Sets
      <3>2. QED
        BY <1>1, <2>3, <3>1 DEF Absent
    <2>5. ASSUME Border(t, c)
          PROVE  \/ Border(u, Length(u))
                 \/ /\ Length(u) > Length(t)
                    /\ \A n \in (Length(t) + 1) .. Length(u) : ~Absent(u, n)
                    /\ ~Absent(t, Length(u) + 1)
      <3>1. CASE last > c
        <4>1. Length(u) = last
          BY <2>2, <3>1
        <4>2. \A n \in (c + 1) .. last : ~Absent(u, n)
          BY <1>1, <2>1, <2>4
        <4>3. ~Absent(u, last) /\ (Absent(u, last + 1) <=> Absent(t, last + 1))
          BY <1>1, <2>4
        <4>4. QED
          BY <1>1, <2>2, <3>1, <4>1, <4>2, <4>3 DEF Border
      <3>2. CASE ~(last > c)
        <4>1. Length(u) = c
          BY <2>2, <3>2
        <4>2. c > 0 => (~Absent(t, c) => ~Absent(u, c))
          BY <2>1, <2>4
        <4>3. Absent(u, c + 1) <=> Absent(t, c + 1)
          BY <1>1, <2>1, <2>4, <3>2
        <4>4. QED
          BY <2>1, <2>5, <4>1, <4>2, <4>3 DEF Border
      <3>3. QED
        BY <3>1, <3>2
    <2>6. QED
      BY <2>2, <2>5, LengthFacts DEF MayDrift
  <1>4. QED
    BY <1>2, <1>3

LEMMA RawSetDrift ==
  ASSUME ArrayAssumption, KeyAssumption, ValueAssumption,
         NEW t, NEW u, Shaped(t), Shaped(u),
         NEW k \in Keys, NEW v \in Values \cup {Nil},
         Sets(t, u, {k}, v), Cached(t, u, k, v)
  PROVE  MayDrift(t, u)
  <1>1. CASE k \in OtherKeys
    <2>1. \A n \in Positive : RawGet(u, n) = RawGet(t, n)
      BY <1>1, KeyFacts DEF Sets
    <2>2. QED
      BY <1>1, <2>1, SameBorder DEF Cached, MayDrift
  <1>2. CASE k \notin OtherKeys /\ v = Nil
    <2>1. k \in Positive /\ k \in Nat /\ MaxKey \in Nat /\ t.lengthCache \in NoLength .. MaxKey
      BY <1>2, KeyFacts, FieldFacts
    <2>2. CASE u.lengthCache = NoLength
      BY <2>2, LengthFacts DEF MayDrift
    <2>3. CASE u.lengthCache # NoLength
      <3> DEFINE c == t.lengthCache
      <3>1. u.lengthCache = c /\ k > c /\ c \in Nat /\ c # NoLength
        BY <1>2, <2>1, <2>3 DEF Cached, CacheAfter, NoLength
      <3>2. Length(t) = c /\ Length(u) = c
        BY <3>1, LengthFacts
      <3>3. c > 0 => (Absent(u, c) <=> Absent(t, c))
        <4>1. ASSUME c > 0, c <= MaxKey
              PROVE  RawGet(u, c) = RawGet(t, c)
          <5>1. c \in Keys /\ c # k
            BY <3>1, <4>1, KeyFacts
          <5>2. QED
            BY <5>1 DEF Sets
        <4>2. QED
          BY <2>1, <3>1, <4>1 DEF Absent
      <3>4. Absent(t, c + 1) => Absent(u, c + 1)
        <4>1. ASSUME c + 1 <= MaxKey
              PROVE  RawGet(u, c + 1) \in {RawGet(t, c + 1), Nil}
          <5>1. c + 1 \in Keys
            BY <3>1, <4>1, KeyFacts
          <5>2. QED
            BY <1>2, <5>1 DEF Sets
        <4>2. QED
          BY <2>1, <3>1, <4>1 DEF Absent
      <3>5. Border(t, c) => Border(u, c)
        BY <3>1, <3>3, <3>4 DEF Border
      <3>6. QED
        BY <3>2, <3>5, LengthFacts DEF MayDrift
    <2>4. QED
      BY <2>2, <2>3
  <1>3. CASE k \notin OtherKeys /\ v # Nil
    <2>1. /\ k \in Positive /\ k \in Nat /\ t.lengthCache \in Int /\ v \in Values
      BY <1>3, KeyFacts, FieldFacts DEF NoLength
    <2>2. Sets(t, u, k .. k, v) /\ k <= k
      <3>1. k .. k = {k}
        BY <2>1
      <3>2. QED
        BY <2>1, <3>1
    <2>3. u.lengthCache = LoopCache(t.lengthCache, k, k)
      BY <1>3, <2>1 DEF Cached, CacheAfter, LoopCache
    <2>4. QED
      BY <2>1, <2>2, <2>3, FilledDrift
  <1>4. QED
    BY <1>1, <1>2, <1>3

-----------------------------------------------------------------------------
(* The write loops *)

Step(t, f, first, k) ==
  IF k < first THEN t ELSE RawSetPositiveIntegerNonNil(f[k - 1], k, Integer)

\* The recursion of PlainWriteLoop has a solution.
LEMMA WrittenExists ==
  ASSUME NEW t, NEW first \in Nat, NEW last \in Nat, first <= last
  PROVE  \E f : f = [k \in (first - 1) .. last |-> Step(t, f, first, k)]
  <1> DEFINE N == last - first + 1
             Solves(f, n) == \A k \in (first - 1) .. last :
                               k <= first - 1 + n => f[k] = Step(t, f, first, k)
             Holds == {n \in 0 .. N : \E f : Solves(f, n)}
  <1>1. N \in Nat
    OBVIOUS
  <1>2. 0 \in Holds
    <2> DEFINE f == [k \in (first - 1) .. last |-> t]
    <2>1. Solves(f, 0)
      BY DEF Step
    <2> HIDE DEF Solves, f
    <2>2. QED
      BY <1>1, <2>1
  <1>3. ASSUME NEW n \in 0 .. N, n < N, n \in Holds
        PROVE  n + 1 \in Holds
    <2>1. PICK f : Solves(f, n)
      BY <1>3
    <2> DEFINE g == [k \in (first - 1) .. last |->
                       IF k <= first - 1 + n THEN f[k] ELSE Step(t, f, first, k)]
    <2>2. ASSUME NEW k \in (first - 1) .. last, k <= first - 1 + (n + 1)
          PROVE  g[k] = Step(t, g, first, k)
      <3>1. g[k] = Step(t, f, first, k)
        BY <2>1
      <3>2. CASE k < first
        BY <3>1, <3>2 DEF Step
      <3>3. CASE ~(k < first)
        <4>1. k - 1 \in (first - 1) .. last /\ k - 1 <= first - 1 + n
          BY <2>2, <3>3
        <4>2. g[k - 1] = f[k - 1]
          BY <4>1
        <4> HIDE DEF g
        <4>3. QED
          BY <3>1, <3>3, <4>2 DEF Step
      <3>4. QED
        BY <3>2, <3>3
    <2> HIDE DEF g
    <2>3. Solves(g, n + 1)
      BY <2>2
    <2> HIDE DEF Solves
    <2>4. n + 1 \in 0 .. N
      BY <1>1, <1>3
    <2>5. QED
      BY <2>3, <2>4
  <1>4. N \in Holds
    <2> HIDE DEF Holds, N
    <2>1. \A n \in 0 .. N : n \in Holds
      BY <1>1, <1>2, <1>3, Induction
    <2>2. QED
      BY <1>1, <2>1
  <1>5. PICK f : Solves(f, N)
    BY <1>4
  <1> DEFINE g == [k \in (first - 1) .. last |-> f[k]]
  <1>6. ASSUME NEW k \in (first - 1) .. last
        PROVE  g[k] = Step(t, g, first, k)
    <2>1. g[k] = Step(t, f, first, k)
      BY <1>5
    <2>2. ~(k < first) => k - 1 \in (first - 1) .. last
      OBVIOUS
    <2>3. ~(k < first) => g[k - 1] = f[k - 1]
      BY <2>2
    <2> HIDE DEF g
    <2>4. QED
      BY <2>1, <2>3 DEF Step
  <1>7. g = [k \in (first - 1) .. last |-> Step(t, g, first, k)]
    BY <1>6
  <1> HIDE DEF g
  <1>8. QED
    BY <1>7

\* What a loop that wrote first .. last has done.
Looped(t, u, first, last) ==
  /\ Shaped(u) /\ Sets(t, u, first .. last, Integer) /\ Noted(t, u)
  /\ u.lengthCache = LoopCache(t.lengthCache, first, last)

LEMMA LoopBegins ==
  ASSUME ArrayAssumption, KeyAssumption, ValueAssumption, NEW t, Shaped(t),
         NEW k \in Positive
  PROVE  Looped(t, RawSetPositiveIntegerNonNil(t, k, Integer), k, k)
  <1> DEFINE u == RawSetPositiveIntegerNonNil(t, k, Integer)
  <1>1. Stored(t, u, k, Integer) /\ Integer # Nil
    BY RawSetPositiveFacts, KeyFacts
  <1>2. k .. k = {k} /\ k \in Int /\ t.lengthCache \in Int
    BY KeyFacts, FieldFacts DEF NoLength
  <1>3. CacheAfter(t.lengthCache, k, Integer) = LoopCache(t.lengthCache, k, k)
    BY <1>1, <1>2 DEF CacheAfter, LoopCache
  <1> HIDE DEF u
  <1>4. QED
    BY <1>1, <1>2, <1>3 DEF Looped, Stored, u

LEMMA LoopGoesOn ==
  ASSUME ArrayAssumption, KeyAssumption, ValueAssumption, NEW t, Shaped(t),
         NEW p, NEW first \in Positive, NEW k \in Positive, k + 1 \in Positive, first <= k,
         Looped(t, p, first, k)
  PROVE  Looped(t, RawSetPositiveIntegerNonNil(p, k + 1, Integer), first, k + 1)
  <1> DEFINE u == RawSetPositiveIntegerNonNil(p, k + 1, Integer)
             n == k + 1
  <1>1. Shaped(p)
    BY DEF Looped
  <1>2. Stored(p, u, n, Integer) /\ Integer # Nil
    BY <1>1, RawSetPositiveFacts, KeyFacts
  <1>3. /\ first \in Nat /\ k \in Nat /\ n \in Nat /\ n = k + 1
        /\ t.lengthCache \in NoLength .. MaxKey /\ MaxKey \in Nat
        /\ \A j : j \in first .. n <=> j \in first .. k \/ j = n
    BY KeyFacts, FieldFacts
  <1> HIDE DEF u, n
  <1>4. CacheAfter(LoopCache(t.lengthCache, first, k), n, Integer) = LoopCache(t.lengthCache, first, n)
    BY <1>2, <1>3 DEF CacheAfter, LoopCache, NoLength
  <1>5. Sets(t, u, first .. n, Integer)
    BY <1>2, <1>3 DEF Looped, Stored, Sets
  <1>6. Noted(t, u)
    BY <1>2 DEF Looped, Stored, Noted
  <1>7. Looped(t, u, first, n)
    BY <1>2, <1>4, <1>5, <1>6 DEF Looped, Stored
  <1>8. QED
    BY <1>7 DEF u, n

LEMMA PlainWriteLoopFacts ==
  ASSUME ArrayAssumption, KeyAssumption, ValueAssumption, NEW t, Shaped(t),
         NEW first \in Positive, NEW last \in Positive, first <= last
  PROVE  Looped(t, PlainWriteLoop(t, first, last), first, last)
  <1> DEFINE written == CHOOSE f : f = [k \in (first - 1) .. last |-> Step(t, f, first, k)]
             N       == last - first
             Holds   == {n \in 0 .. N : Looped(t, written[first + n], first, first + n)}
  <1>1. first \in Nat /\ last \in Nat /\ first >= 1 /\ N \in Nat /\ last <= MaxKey /\ MaxKey \in Nat
    BY KeyFacts
  <1>2. written = [k \in (first - 1) .. last |-> Step(t, written, first, k)]
    BY <1>1, WrittenExists
  <1>3. PlainWriteLoop(t, first, last) = written[last]
    BY DEF PlainWriteLoop, Step
  <1> HIDE DEF written
  <1>4. written[first - 1] = t
    BY <1>1, <1>2 DEF Step
  <1>5. \A k \in first .. last :
          written[k] = RawSetPositiveIntegerNonNil(written[k - 1], k, Integer)
    BY <1>1, <1>2 DEF Step
  <1>6. 0 \in Holds
    <2>1. written[first] = RawSetPositiveIntegerNonNil(t, first, Integer)
      BY <1>1, <1>4, <1>5
    <2>2. first + 0 = first
      BY <1>1
    <2>3. QED
      BY <1>1, <2>1, <2>2, LoopBegins
  <1>7. ASSUME NEW n \in 0 .. N, n < N, n \in Holds
        PROVE  n + 1 \in Holds
    <2> DEFINE k == first + n
    <2>1. /\ k \in Positive /\ k + 1 \in Positive /\ k + 1 \in first .. last /\ first <= k
          /\ (k + 1) - 1 = k /\ first + (n + 1) = k + 1 /\ n + 1 \in 0 .. N
      BY <1>1, <1>7, KeyFacts
    <2>2. Looped(t, written[k], first, k)
      BY <1>7
    <2> HIDE DEF k, N
    <2>3. written[k + 1] = RawSetPositiveIntegerNonNil(written[k], k + 1, Integer)
      BY <1>5, <2>1
    <2>4. Looped(t, written[k + 1], first, k + 1)
      BY <2>1, <2>2, <2>3, LoopGoesOn
    <2>5. QED
      BY <2>1, <2>4
  <1>8. N \in Holds
    <2> HIDE DEF Holds, N
    <2>1. \A n \in 0 .. N : n \in Holds
      BY <1>1, <1>6, <1>7, Induction
    <2>2. QED
      BY <1>1, <2>1
  <1>9. first + N = last
    BY <1>1
  <1>10. QED
    BY <1>3, <1>8, <1>9

\* The dense loop writes up to the end of the array area.
LEMMA DenseWriteLoopFacts ==
  ASSUME ArrayAssumption, KeyAssumption, ValueAssumption, NEW t, Shaped(t), t.dense,
         NEW first \in Positive, NEW last \in Positive, first <= last,
         first <= MaxArray, first <= Len(t.array) + 1
  PROVE  LET u   == DenseWriteLoop(t, first, last)
             top == IF last < MaxArray THEN last ELSE MaxArray
         IN Shaped(u) /\ Sets(t, u, first .. top, Integer) /\ Noted(t, u) /\ IsBorder(u)
  <1> DEFINE top  == IF last < MaxArray THEN last ELSE MaxArray
             size == IF top > Len(t.array) THEN top ELSE Len(t.array)
             a    == [i \in 1 .. size |-> Integer]
             m    == [t EXCEPT !.array = a, !.lengthCache = size]
             u    == DenseWriteLoop(t, first, last)
  <1>1. /\ first \in Nat /\ last \in Nat /\ first >= 1 /\ MaxArray \in Nat /\ MaxKey \in Nat
        /\ MaxArray <= MaxKey /\ Len(t.array) \in Nat /\ Len(t.array) <= MaxArray
    BY KeyFacts, FieldFacts
  <1>2. /\ top \in Nat /\ first <= top /\ top <= last /\ top <= MaxArray
        /\ size \in Nat /\ size <= MaxArray /\ top <= size /\ Len(t.array) <= size
        /\ size = top \/ size = Len(t.array)
    BY <1>1
  <1>3. u = NoteMutation(m)
    BY DEF DenseWriteLoop
  <1> HIDE DEF top, size
  <1>4. a \in Seq(Values \cup {Nil}) /\ Len(a) = size /\ \A i \in 1 .. size : a[i] = Integer
    BY <1>2, KeyFacts
  <1>5. size \in NoLength .. MaxKey
    BY <1>1, <1>2 DEF NoLength
  <1> HIDE DEF a, u
  <1>6. /\ m \in TableType /\ m.dense = t.dense /\ m.lengthCache = size
        /\ m.iterationCacheValid = t.iterationCacheValid
        /\ m.iterationCache = t.iterationCache
        /\ m.staleIterationCache = t.staleIterationCache
        /\ m.array = a /\ m.hash = t.hash
    BY <1>4, <1>5 DEF Shaped, TableType
  <1> HIDE DEF m
  <1>7. /\ u \in TableType /\ Noted(m, u) /\ u.array = m.array /\ u.hash = m.hash
        /\ u.dense = m.dense /\ u.lengthCache = m.lengthCache
    BY <1>3, <1>6, NoteFacts
  <1>8. Shaped(u)
    BY <1>2, <1>4, <1>6, <1>7 DEF Shaped, Compact
  <1>9. Noted(t, u)
    BY <1>6, <1>7 DEF Noted
  <1>10. Sets(t, u, first .. top, Integer)
    <2>1. ASSUME NEW j \in Positive
          PROVE  RawGet(u, j) = IF j \in first .. top THEN Integer ELSE RawGet(t, j)
      <3>1. j \in Nat /\ j >= 1
        BY KeyFacts
      <3>2. /\ RawGet(t, j) = IF j <= Len(t.array) THEN t.array[j]
                              ELSE IF j > MaxArray THEN t.hash[j] ELSE Nil
            /\ RawGet(u, j) = IF j <= Len(u.array) THEN u.array[j]
                              ELSE IF j > MaxArray THEN u.hash[j] ELSE Nil
        BY <1>8, ReadFacts
      <3>3. j <= Len(t.array) => t.array[j] = Integer
        BY <1>1, <3>1 DEF Shaped, Compact
      <3>4. QED
        BY <1>1, <1>2, <1>4, <1>6, <1>7, <3>1, <3>2, <3>3
    <2>2. ASSUME NEW j \in OtherKeys
          PROVE  RawGet(u, j) = RawGet(t, j) /\ j \notin first .. top
      <3>1. RawGet(u, j) = u.hash[j] /\ RawGet(t, j) = t.hash[j]
        BY <1>8, ReadFacts
      <3>2. first .. top \subseteq Positive
        BY <1>1, <1>2, KeyFacts
      <3>3. j \notin Positive
        BY KeyFacts
      <3>4. QED
        BY <1>6, <1>7, <3>1, <3>2, <3>3
    <2>3. QED
      BY <2>1, <2>2, KeyFacts DEF Sets
  <1>11. IsBorder(u)
    <2>1. u.lengthCache = size /\ size # NoLength
      BY <1>2, <1>6, <1>7 DEF NoLength
    <2>2. Length(u) = size
      BY <1>8, <2>1, LengthFacts
    <2>3. SearchLength(u) = size
      BY <1>4, <1>6, <1>7 DEF SearchLength
    <2>4. QED
      BY <1>8, <2>2, <2>3, SearchFinds, LengthFacts
  <1>12. QED
    BY <1>8, <1>9, <1>10, <1>11 DEF u, top

\* A batch writes the keys from first to top, which may be less than last.
LEMMA WriteLoopFacts ==
  ASSUME ArrayAssumption, KeyAssumption, ValueAssumption, NEW t, Shaped(t),
         NEW first \in Positive, NEW last \in Positive, first <= last
  PROVE  LET u == WriteLoop(t, first, last)
         IN /\ Shaped(u) /\ Noted(t, u) /\ MayDrift(t, u)
            /\ \A k \in Keys \ (first .. last) : RawGet(u, k) = RawGet(t, k)
  <1> DEFINE u   == WriteLoop(t, first, last)
             top == IF last < MaxArray THEN last ELSE MaxArray
  <1>1. CASE t.dense /\ first <= MaxArray /\ first <= Len(t.array) + 1
    <2>1. u = DenseWriteLoop(t, first, last)
      BY <1>1 DEF WriteLoop
    <2> HIDE DEF u
    <2>2. Shaped(u) /\ Sets(t, u, first .. top, Integer) /\ Noted(t, u) /\ IsBorder(u)
      BY <1>1, <2>1, DenseWriteLoopFacts
    <2>3. first .. top \subseteq first .. last
      BY KeyFacts
    <2> HIDE DEF top
    <2>4. \A k \in Keys \ (first .. last) : RawGet(u, k) = RawGet(t, k)
      BY <2>2, <2>3 DEF Sets
    <2>5. QED
      BY <2>2, <2>4 DEF MayDrift, u
  <1>2. CASE ~(t.dense /\ first <= MaxArray /\ first <= Len(t.array) + 1)
    <2>1. u = PlainWriteLoop(t, first, last)
      BY <1>2 DEF WriteLoop
    <2> HIDE DEF u
    <2>2. Looped(t, u, first, last)
      BY <2>1, PlainWriteLoopFacts
    <2>3. MayDrift(t, u)
      BY <2>2, FilledDrift, KeyFacts DEF Looped
    <2>4. \A k \in Keys \ (first .. last) : RawGet(u, k) = RawGet(t, k)
      BY <2>2 DEF Looped, Sets
    <2>5. QED
      BY <2>2, <2>3, <2>4 DEF Looped, u
  <1>3. QED
    BY <1>1, <1>2

-----------------------------------------------------------------------------
(* The sweeps *)

\* Entries leave, and the length is forgotten; or there was none to leave.
Swept(t, u) ==
  /\ Shaped(u) /\ (Quiet(t, u) \/ Noted(t, u))
  /\ u.lengthCache \in {t.lengthCache, NoLength}
  /\ u.lengthCache = NoLength \/ \A k \in Keys : RawGet(u, k) = RawGet(t, k)
  /\ \A k \in Keys : RawGet(u, k) \in {RawGet(t, k), Nil}

LEMMA DropFacts ==
  ASSUME ArrayAssumption, KeyAssumption, ValueAssumption,
         NEW t, Shaped(t), NEW p, Shaped(p), ~p.dense, Quiet(t, p),
         p.lengthCache = t.lengthCache, NEW gone
  PROVE  Swept(t, Drop(p, gone))
  <1> DEFINE a == [i \in DOMAIN p.array |-> IF i \in gone THEN Nil ELSE p.array[i]]
             h == [k \in HashKeys |-> IF k \in gone THEN Nil ELSE p.hash[k]]
             m == [p EXCEPT !.array = a, !.hash = h, !.lengthCache = NoLength]
             u == Drop(p, gone)
             V == Values \cup {Nil}
  <1>1. CASE gone = {}
    <2>1. u = p
      BY <1>1 DEF Drop
    <2>2. QED
      BY <2>1 DEF Swept, Quiet
  <1>2. CASE gone # {}
    <2>1. u = NoteMutation([[p EXCEPT !.array = a, !.hash = h] EXCEPT !.lengthCache = NoLength])
      BY <1>2 DEF Drop
    <2>2. [[p EXCEPT !.array = a, !.hash = h] EXCEPT !.lengthCache = NoLength] = m
      <3> HIDE DEF a, h
      <3>1. QED
        BY DEF Shaped, TableType
    <2>3. /\ DOMAIN p.array = 1 .. Len(p.array) /\ Len(p.array) \in Nat
          /\ \A i \in 1 .. Len(p.array) : p.array[i] \in V
          /\ p.hash \in [HashKeys -> V]
      BY FieldFacts
    <2>4. a \in Seq(V) /\ Len(a) = Len(p.array)
      <3>1. \A i \in 1 .. Len(p.array) : a[i] \in V
        BY <2>3
      <3> DEFINE n == Len(p.array)
      <3>2. n \in Nat /\ a = [i \in 1 .. n |-> a[i]] /\ \A i \in 1 .. n : a[i] \in V
        BY <2>3, <3>1
      <3> HIDE DEF a, V, n
      <3>3. a \in Seq(V) /\ Len(a) = n
        BY <3>2
      <3>4. QED
        BY <3>3 DEF n
    <2>5. h \in [HashKeys -> V]
      BY <2>3
    <2>6. /\ \A i \in 1 .. Len(p.array) : a[i] = IF i \in gone THEN Nil ELSE p.array[i]
          /\ \A k \in HashKeys : h[k] = IF k \in gone THEN Nil ELSE p.hash[k]
      BY <2>3
    <2> HIDE DEF a, h, u
    <2>7. /\ m \in TableType /\ m.dense = p.dense /\ m.lengthCache = NoLength
          /\ m.iterationCacheValid = p.iterationCacheValid
          /\ m.iterationCache = p.iterationCache
          /\ m.staleIterationCache = p.staleIterationCache
          /\ m.array = a /\ m.hash = h
      <3>1. NoLength \in NoLength .. MaxKey
        BY KeyFacts DEF NoLength
      <3>2. p \in TableType
        BY DEF Shaped
      <3> HIDE DEF m
      <3>3. m \in TableType
        BY <2>4, <2>5, <3>1, <3>2 DEF TableType, m
      <3>4. QED
        BY <3>2, <3>3 DEF TableType, m
    <2> HIDE DEF m
    <2>8. /\ u \in TableType /\ Noted(m, u) /\ u.array = a /\ u.hash = h
          /\ u.dense = p.dense /\ u.lengthCache = NoLength
      BY <2>1, <2>2, <2>7, NoteFacts
    <2>9. Shaped(u)
      BY <2>4, <2>8 DEF Shaped, Compact
    <2>10. Noted(t, u)
      BY <2>7, <2>8 DEF Noted, Quiet
    <2>11. ASSUME NEW k \in Keys
           PROVE  RawGet(u, k) \in {RawGet(p, k), Nil}
      <3>1. CASE k \in OtherKeys
        BY <2>6, <2>8, <3>1, KeyFacts DEF RawGet
      <3>2. CASE k \in Positive
        <4>1. /\ k \in Nat /\ k >= 1
              /\ RawGet(p, k) = IF k <= Len(p.array) THEN p.array[k]
                                ELSE IF k > MaxArray THEN p.hash[k] ELSE Nil
              /\ RawGet(u, k) = IF k <= Len(u.array) THEN u.array[k]
                                ELSE IF k > MaxArray THEN u.hash[k] ELSE Nil
              /\ k > MaxArray => k \in HashKeys
          BY <2>9, <3>2, ReadFacts, KeyFacts
        <4>2. CASE k <= Len(p.array)
          BY <2>3, <2>4, <2>6, <2>8, <4>1, <4>2
        <4>3. CASE ~(k <= Len(p.array))
          BY <2>3, <2>4, <2>6, <2>8, <4>1, <4>3
        <4>4. QED
          BY <4>2, <4>3
      <3>3. QED
        BY <3>1, <3>2, KeyFacts
    <2>12. QED
      BY <2>8, <2>9, <2>10, <2>11 DEF Swept, Quiet, u
  <1>3. QED
    BY <1>1, <1>2

LEMMA SweepsFacts ==
  ASSUME ArrayAssumption, KeyAssumption, ValueAssumption, NEW t, Shaped(t), NEW strong
  PROVE  /\ Swept(t, SweepWeakEntries(t, strong))
         /\ Swept(t, SweepWeakValueEntries(t, strong))
         /\ Swept(t, SweepWeakKVEntriesBeforeFinalizers(t, strong))
  <1> DEFINE p == Materialize(t)
  <1>1. /\ Shaped(p) /\ ~p.dense /\ Quiet(t, p) /\ p.lengthCache = t.lengthCache
    BY MaterializeFacts
  <1> HIDE DEF p
  <1>2. Swept(t, p)
    BY <1>1 DEF Swept, Quiet
  <1>3. \A gone : Swept(t, Drop(p, gone))
    BY <1>1, DropFacts
  <1>4. Swept(t, SweepWeakEntries(t, strong))
    BY <1>2, <1>3 DEF SweepWeakEntries, p
  <1>5. Swept(t, SweepWeakValueEntries(t, strong))
    BY <1>2, <1>3 DEF SweepWeakValueEntries, p
  <1>6. Swept(t, SweepWeakKVEntriesBeforeFinalizers(t, strong))
    BY <1>2, <1>3 DEF SweepWeakKVEntriesBeforeFinalizers, p
  <1>7. QED
    BY <1>4, <1>5, <1>6

LEMMA SweptDrift ==
  ASSUME ArrayAssumption, KeyAssumption, ValueAssumption,
         NEW t, Shaped(t), NEW u, Swept(t, u)
  PROVE  MayDrift(t, u)
  BY SameBorder, KeyFacts DEF Swept, MayDrift

-----------------------------------------------------------------------------
(* The order of a snapshot *)

\* There is an order of the hash, so that keys have different positions.
LEMMA Positions ==
  ASSUME ArrayAssumption, KeyAssumption, ValueAssumption
  PROVE  /\ \A k \in Keys : Position(k) \in Nat
         /\ \A j, k \in Keys : Position(j) = Position(k) => j = k
  <1> DEFINE n == Cardinality(HashKeys)
             Orders(f) == /\ f \in [HashKeys -> 1 .. n]
                          /\ \A j, k \in HashKeys : f[j] = f[k] => j = k
  <1>1. IsFiniteSet(HashKeys)
    <2>1. MaxArray + 1 \in Int /\ MaxKey \in Int
      BY KeyFacts
    <2>2. IsFiniteSet((MaxArray + 1) .. MaxKey)
      BY <2>1, FS_Interval
    <2>3. IsFiniteSet(OtherKeys)
      BY DEF KeyAssumption
    <2>4. QED
      BY <2>2, <2>3, FS_Union DEF HashKeys
  <1>2. n \in Nat /\ ExistsBijection(HashKeys, 1 .. n)
    BY <1>1, FS_CardinalityType, Fun_ExistsBijSymmetric
  <1> HIDE DEF n
  <1>3. \E f : Orders(f)
    <2>1. PICK f \in Bijection(HashKeys, 1 .. n) : TRUE
      BY <1>2 DEF ExistsBijection
    <2>2. Orders(f)
      BY <2>1 DEF Bijection, Injection, IsInjective
    <2>3. QED
      BY <2>2
  <1>4. Orders(HashOrder)
    BY <1>3 DEF HashOrder, n
  <1>5. /\ \A k \in HashKeys : Position(k) = MaxArray + HashOrder[k] /\ HashOrder[k] \in 1 .. n
        /\ \A k \in Keys \ HashKeys : Position(k) = k /\ k \in 1 .. MaxArray
    BY <1>4, KeyFacts DEF Position
  <1>6. \A k \in Keys : Position(k) \in Nat
    BY <1>2, <1>5, KeyFacts
  <1>7. ASSUME NEW j \in Keys, NEW k \in Keys, Position(j) = Position(k)
        PROVE  j = k
    <2>1. CASE j \in HashKeys /\ k \in HashKeys
      <3>1. HashOrder[j] = HashOrder[k]
        BY <1>2, <1>5, <1>7, <2>1, KeyFacts
      <3>2. QED
        BY <1>4, <2>1, <3>1
    <2>2. CASE j \notin HashKeys /\ k \notin HashKeys
      BY <1>5, <1>7, <2>2
    <2>3. CASE (j \in HashKeys) # (k \in HashKeys)
      BY <1>2, <1>5, <1>7, <2>3, KeyFacts
    <2>4. QED
      BY <2>1, <2>2, <2>3
  <1>8. QED
    BY <1>6, <1>7

LEMMA FirstFacts ==
  ASSUME ArrayAssumption, KeyAssumption, ValueAssumption,
         NEW keys \in SUBSET Keys, keys # {}
  PROVE  /\ First(keys) \in keys
         /\ \A j \in keys : Position(First(keys)) <= Position(j)
  <1> DEFINE T == {Position(k) : k \in keys}
  <1>1. T \in SUBSET Nat /\ T # {}
    BY Positions
  <1>2. PICK n \in T : \A m \in T : n <= m
    <2> HIDE DEF T
    <2>1. QED
      BY <1>1, Least
  <1>3. PICK k \in keys : n = Position(k)
    OBVIOUS
  <1>4. \A j \in keys : Position(k) <= Position(j)
    BY <1>2, <1>3
  <1>5. \E i \in keys : \A j \in keys : Position(i) <= Position(j)
    BY <1>4
  <1>6. QED
    BY <1>5 DEF First

-----------------------------------------------------------------------------
(* The inductive invariant *)

\* What a traversal that goes on has met is what lies before its control key.
\* That key is found again: in the current snapshot, or in the one before it,
\* which then has every key that is left; unless another reader built a snapshot
\* without it.
Followed(t, w) ==
  w.state = "on" =>
    /\ w.key = Nil => w.seen = {}
    /\ w.key # Nil =>
         /\ \A k \in Present(t) : k \in w.seen <=> Position(k) <= Position(w.key)
         /\ \/ t.iterationCacheValid /\ w.key \in Present(t)
            \/ Present(t) \subseteq t.staleIterationCache
         /\ w.key \notin Present(t) =>
              \/ w.disturbed
              \/ ~t.iterationCacheValid /\ w.key \in t.staleIterationCache

Current(t) ==
  /\ t.iterationCacheValid => t.iterationCache = Present(t)
  /\ t.inline # Unknown => t.inline = RawGet(t, Name)

TableInv ==
  /\ Shaped(table) /\ walk \in WalkType /\ writes \in 0 .. MaxWrites
  /\ Current(table) /\ Followed(table, walk)

LEMMA TableInvImplies ==
  ASSUME TableInv
  PROVE  TableTypeOK /\ CachesCurrent
  BY DEF TableInv, TableTypeOK, CachesCurrent, Shaped, Current

LEMMA QuietCurrent ==
  ASSUME KeyAssumption, NEW t, NEW u, Quiet(t, u), Current(t)
  PROVE  Current(u) /\ Present(u) = Present(t)
  <1>1. Present(u) = Present(t)
    BY DEF Quiet, Present
  <1>2. Name \in Keys
    BY DEF KeyAssumption, Keys
  <1>3. QED
    BY <1>1, <1>2 DEF Quiet, Current

\* A step that leaves the contents and the snapshots.
LEMMA QuietStep ==
  ASSUME KeyAssumption, TableInv, Shaped(table'), Quiet(table, table'), walk' = walk,
         writes' \in 0 .. MaxWrites
  PROVE  TableInv'
  <1>1. Current(table') /\ Present(table') = Present(table)
    BY QuietCurrent DEF TableInv
  <1>2. Followed(table', walk')
    BY <1>1 DEF TableInv, Followed, Quiet
  <1>3. QED
    BY <1>1, <1>2 DEF TableInv

LEMMA NotedFollowed ==
  ASSUME ArrayAssumption, KeyAssumption, ValueAssumption,
         NEW t, NEW u, NEW w, Current(t), Followed(t, w), Noted(t, u),
         Present(u) \subseteq Present(t)
  PROVE  Followed(u, w)
  <1> SUFFICES ASSUME w.state = "on", w.key # Nil
               PROVE  /\ \A k \in Present(u) : k \in w.seen <=> Position(k) <= Position(w.key)
                      /\ Present(u) \subseteq u.staleIterationCache
                      /\ w.key \notin Present(u) =>
                           w.disturbed \/ w.key \in u.staleIterationCache
    BY DEF Followed, Noted
  <1>1. CASE t.iterationCacheValid
    <2>1. u.staleIterationCache = Present(t)
      BY <1>1 DEF Noted, Current
    <2>2. QED
      BY <1>1, <2>1 DEF Followed
  <1>2. CASE ~t.iterationCacheValid
    <2>1. u.staleIterationCache = t.staleIterationCache /\ Present(t) \subseteq t.staleIterationCache
      BY <1>2 DEF Noted, Followed
    <2>2. QED
      BY <1>2, <2>1 DEF Followed
  <1>3. QED
    BY <1>1, <1>2

\* A change of the table by any of its writers.
LEMMA BecomeStep ==
  ASSUME ArrayAssumption, KeyAssumption, ValueAssumption, TableInv,
         NEW u, Shaped(u), Quiet(table, u) \/ Noted(table, u), Become(u)
  PROVE  TableInv'
  <1>1. table' = u /\ writes' \in 0 .. MaxWrites
    BY DEF Become, TableInv, ArrayAssumption
  <1>2. CASE Quiet(table, u)
    <2>1. walk' = walk
      BY <1>2, QuietCurrent DEF Become, TableInv
    <2>2. QED
      BY <1>1, <1>2, <2>1, QuietStep
  <1>3. CASE Noted(table, u)
    <2>1. Current(u)
      BY <1>3 DEF Noted, Current
    <2>2. walk' \in WalkType
      BY DEF Become, TableInv, WalkType, NoWalk
    <2>3. Followed(u, walk')
      <3>1. CASE Present(u) \subseteq Present(table)
        BY <1>3, <3>1, NotedFollowed DEF Become, TableInv
      <3>2. CASE ~(Present(u) \subseteq Present(table))
        BY <3>2 DEF Become, NoWalk, Followed
      <3>3. QED
        BY <3>1, <3>2
    <2>4. QED
      BY <1>1, <2>1, <2>2, <2>3 DEF TableInv
  <1>4. QED
    BY <1>2, <1>3

LEMMA InvInit ==
  ASSUME ArrayAssumption, KeyAssumption, ValueAssumption, TableInit
  PROVE  TableInv
  <1>1. PICK dense \in BOOLEAN : table = NewTable(dense)
    BY DEF TableInit
  <1>2. Shaped(table)
    <2>1. /\ <<>> \in Seq(Values \cup {Nil}) /\ Len(<<>>) = 0
          /\ NoLength \in NoLength .. MaxKey /\ 0 <= MaxArray
      BY KeyFacts DEF NoLength
    <2>2. table \in TableType
      BY <1>1, <2>1 DEF NewTable, TableType, WeakModes
    <2>3. table.array = <<>> /\ table.hash = [k \in HashKeys |-> Nil]
      BY <1>1 DEF NewTable
    <2>4. QED
      BY <2>1, <2>2, <2>3 DEF Shaped, Compact
  <1>3. Current(table)
    BY <1>1 DEF NewTable, Current
  <1>4. walk \in WalkType /\ Followed(table, walk) /\ writes \in 0 .. MaxWrites
    BY DEF TableInit, NoWalk, WalkType, Followed, ArrayAssumption
  <1>5. QED
    BY <1>2, <1>3, <1>4 DEF TableInv

-----------------------------------------------------------------------------
(* The steps *)

\* What every change of the table by Lua or by the collector does.
Change(u) ==
  /\ Become(u) /\ Shaped(u) /\ MayDrift(table, u)
  /\ Quiet(table, u) \/ Noted(table, u)

LEMMA SetKeyStep ==
  ASSUME ArrayAssumption, KeyAssumption, ValueAssumption, TableInv,
         NEW k \in Keys, NEW v \in Values \cup {Nil}, SetKey(k, v)
  PROVE  /\ Change(RawSetUnchecked(table, k, v))
         /\ Sets(table, table', {k}, v)
         /\ ~table.readOnly /\ k \notin table.constKeys
  <1> DEFINE u == RawSetUnchecked(table, k, v)
  <1>1. Shaped(table)
    BY DEF TableInv
  <1>2. Shaped(u) /\ Sets(table, u, {k}, v) /\ Noted(table, u) /\ Cached(table, u, k, v)
    BY <1>1, RawSetFacts
  <1>3. Become(u) /\ ~table.readOnly /\ k \notin table.constKeys
    BY DEF SetKey, CheckConst
  <1> HIDE DEF u
  <1>4. MayDrift(table, u)
    BY <1>1, <1>2, RawSetDrift
  <1>5. Change(u) /\ Sets(table, table', {k}, v)
    BY <1>2, <1>3, <1>4 DEF Change, Become
  <1>6. QED
    BY <1>3, <1>5 DEF u

LEMMA SetPositiveStep ==
  ASSUME ArrayAssumption, KeyAssumption, ValueAssumption, TableInv,
         NEW k \in Positive, NEW v \in Values, SetPositive(k, v)
  PROVE  /\ Change(RawSetPositiveIntegerNonNil(table, k, v))
         /\ Sets(table, table', {k}, v)
         /\ ~table.readOnly /\ k \notin table.constKeys
  <1> DEFINE u == RawSetPositiveIntegerNonNil(table, k, v)
  <1>1. Shaped(table)
    BY DEF TableInv
  <1>2. Stored(table, u, k, v)
    BY <1>1, RawSetPositiveFacts
  <1>3. Become(u) /\ ~table.readOnly /\ k \notin table.constKeys
    BY DEF SetPositive, CheckConst
  <1> HIDE DEF u
  <1>4. Shaped(u) /\ Sets(table, u, {k}, v) /\ Noted(table, u)
    BY <1>2 DEF Stored
  <1>5. k \in Keys /\ v \in Values \cup {Nil} /\ Cached(table, u, k, v)
    BY <1>2, KeyFacts DEF Stored, Cached
  <1>6. MayDrift(table, u)
    BY <1>1, <1>4, <1>5, RawSetDrift
  <1>7. Change(u) /\ Sets(table, table', {k}, v)
    BY <1>3, <1>4, <1>6 DEF Change, Become
  <1>8. QED
    BY <1>3, <1>7 DEF u

LEMMA WriteLoopStep ==
  ASSUME ArrayAssumption, KeyAssumption, ValueAssumption, TableInv,
         NEW first \in Positive, NEW last \in Positive, first <= last,
         WriteLoopBatch(first, last)
  PROVE  /\ Change(WriteLoop(table, first, last))
         /\ \A k \in Keys \ (first .. last) : RawGet(table', k) = RawGet(table, k)
  <1> DEFINE u == WriteLoop(table, first, last)
  <1>1. Shaped(table) /\ Become(u)
    BY DEF TableInv, WriteLoopBatch
  <1>2. /\ Shaped(u) /\ Noted(table, u) /\ MayDrift(table, u)
        /\ \A k \in Keys \ (first .. last) : RawGet(u, k) = RawGet(table, k)
    BY <1>1, WriteLoopFacts
  <1> HIDE DEF u
  <1>3. Change(u) /\ table' = u
    BY <1>1, <1>2 DEF Change, Become
  <1>4. QED
    BY <1>2, <1>3 DEF u

\* The flags and the weak mode do not matter to reading and measuring.
LEMMA OtherFields ==
  ASSUME ArrayAssumption, KeyAssumption, ValueAssumption,
         NEW t, Shaped(t), NEW u, u \in TableType,
         u.dense = t.dense, u.array = t.array, u.hash = t.hash,
         u.lengthCache = t.lengthCache, u.iterationCache = t.iterationCache,
         u.iterationCacheValid = t.iterationCacheValid,
         u.staleIterationCache = t.staleIterationCache, u.inline = t.inline
  PROVE  Shaped(u) /\ Quiet(t, u) /\ MayDrift(t, u)
  <1>1. Shaped(u) /\ Quiet(t, u)
    BY DEF Shaped, Compact, Quiet, RawGet
  <1>2. MayDrift(t, u)
    BY <1>1, SameBorder, KeyFacts DEF Quiet, MayDrift
  <1>3. QED
    BY <1>1, <1>2

LEMMA GluaConstStep ==
  ASSUME ArrayAssumption, KeyAssumption, ValueAssumption, TableInv,
         NEW k \in Keys, NEW v \in Values \cup {Nil}, ApplyGluaConst(k, v)
  PROVE  /\ Change([RawSetUnchecked(table, k, v) EXCEPT !.constKeys = @ \cup {k}])
         /\ Sets(table, table', {k}, v)
  <1> DEFINE r == RawSetUnchecked(table, k, v)
  <1>1. Shaped(table)
    BY DEF TableInv
  <1>2. Shaped(r) /\ Sets(table, r, {k}, v) /\ Noted(table, r) /\ Cached(table, r, k, v)
    BY <1>1, RawSetFacts
  <1> HIDE DEF r
  <1> DEFINE u == [r EXCEPT !.constKeys = @ \cup {k}]
  <1>3. Become(u)
    BY DEF ApplyGluaConst, r
  <1>4. /\ u.iterationCacheValid = r.iterationCacheValid
        /\ u.staleIterationCache = r.staleIterationCache /\ u.inline = r.inline
        /\ u.array = r.array /\ u.hash = r.hash /\ u.dense = r.dense
        /\ u.lengthCache = r.lengthCache
    BY <1>2 DEF Shaped, TableType
  <1>5. u \in TableType
    BY <1>2 DEF Shaped, TableType
  <1> HIDE DEF u
  <1>6. Shaped(u) /\ Noted(table, u)
    BY <1>2, <1>4, <1>5 DEF Shaped, Compact, Noted
  <1>7. Sets(table, u, {k}, v) /\ Cached(table, u, k, v)
    BY <1>2, <1>4 DEF Sets, RawGet, Cached
  <1>8. MayDrift(table, u)
    BY <1>1, <1>6, <1>7, RawSetDrift
  <1>9. Change(u) /\ table' = u
    BY <1>3, <1>6, <1>8 DEF Change, Become
  <1>10. QED
    BY <1>7, <1>9 DEF u, r

LEMMA FreezeStep ==
  ASSUME ArrayAssumption, KeyAssumption, ValueAssumption, TableInv, Freeze
  PROVE  /\ Change([table EXCEPT !.readOnly = TRUE])
         /\ Quiet(table, table')
  <1> DEFINE u == [table EXCEPT !.readOnly = TRUE]
  <1>1. Shaped(table) /\ Become(u)
    BY DEF TableInv, Freeze
  <1>2. u \in TableType
    BY <1>1 DEF Shaped, TableType
  <1>3. /\ u.dense = table.dense /\ u.array = table.array /\ u.hash = table.hash
        /\ u.lengthCache = table.lengthCache
        /\ u.iterationCache = table.iterationCache
        /\ u.iterationCacheValid = table.iterationCacheValid
        /\ u.staleIterationCache = table.staleIterationCache /\ u.inline = table.inline
    BY <1>1 DEF Shaped, TableType
  <1> HIDE DEF u
  <1>4. Shaped(u) /\ Quiet(table, u) /\ MayDrift(table, u)
    BY <1>1, <1>2, <1>3, OtherFields
  <1>5. table' = u
    BY <1>1 DEF Become
  <1>6. QED
    BY <1>1, <1>4, <1>5 DEF Change, u

LEMMA MetatableStep ==
  ASSUME ArrayAssumption, KeyAssumption, ValueAssumption, TableInv,
         NEW metatable \in BOOLEAN, NEW mode \in WeakModes, SetTableMetatable(metatable, mode)
  PROVE  /\ Change([table EXCEPT !.metatable = metatable, !.mode = mode])
         /\ Quiet(table, table')
  <1> DEFINE u == [table EXCEPT !.metatable = metatable, !.mode = mode]
  <1>1. Shaped(table) /\ Become(u)
    BY DEF TableInv, SetTableMetatable
  <1>2. u \in TableType
    BY <1>1 DEF Shaped, TableType
  <1>3. /\ u.dense = table.dense /\ u.array = table.array /\ u.hash = table.hash
        /\ u.lengthCache = table.lengthCache
        /\ u.iterationCache = table.iterationCache
        /\ u.iterationCacheValid = table.iterationCacheValid
        /\ u.staleIterationCache = table.staleIterationCache /\ u.inline = table.inline
    BY <1>1 DEF Shaped, TableType
  <1> HIDE DEF u
  <1>4. Shaped(u) /\ Quiet(table, u) /\ MayDrift(table, u)
    BY <1>1, <1>2, <1>3, OtherFields
  <1>5. table' = u
    BY <1>1 DEF Become
  <1>6. QED
    BY <1>1, <1>4, <1>5 DEF Change, u

LEMMA SweepStep ==
  ASSUME ArrayAssumption, KeyAssumption, ValueAssumption, TableInv,
         NEW strong, Sweep(strong)
  PROVE  Change(table') /\ Swept(table, table')
  <1>1. Shaped(table)
    BY DEF TableInv
  <1>2. PICK u : Become(u) /\ Swept(table, u)
    BY <1>1, SweepsFacts DEF Sweep
  <1>3. MayDrift(table, u) /\ table' = u
    BY <1>1, <1>2, SweptDrift DEF Become
  <1>4. QED
    BY <1>2, <1>3 DEF Change, Swept

\* #t fills the length cache with what it answers.
LEMMA MeasureStep ==
  ASSUME ArrayAssumption, KeyAssumption, ValueAssumption, TableInv, Measure
  PROVE  /\ TableInv' /\ Quiet(table, table') /\ MayDrift(table, table')
         /\ UNCHANGED walk
  <1> DEFINE n == Length(table)
  <1>1. Shaped(table) /\ n \in 0 .. MaxKey
    BY LengthFacts DEF TableInv
  <1>2. n \in NoLength .. MaxKey /\ n # NoLength
    BY <1>1, KeyFacts DEF NoLength
  <1>3. table' = [table EXCEPT !.lengthCache = n] /\ walk' = walk /\ writes' = writes
    BY DEF Measure
  <1> HIDE DEF n
  <1>4. Shaped(table') /\ Quiet(table, table') /\ table'.lengthCache = n
    BY <1>1, <1>2, <1>3, CachedFacts
  <1>5. TableInv'
    <2>1. writes' \in 0 .. MaxWrites
      BY <1>3 DEF TableInv
    <2>2. QED
      BY <1>3, <1>4, <2>1, QuietStep
  <1>6. Length(table') = n
    BY <1>2, <1>4 DEF Length
  <1>7. MayDrift(table, table')
    <2>1. IsBorder(table) <=> Border(table, n)
      BY <1>1, LengthFacts DEF n
    <2>2. IsBorder(table') <=> Border(table', n)
      BY <1>4, <1>6, LengthFacts
    <2>3. Border(table, n) => Border(table', n)
      <3>1. \A k \in 1 .. MaxKey : RawGet(table', k) = RawGet(table, k)
        BY <1>4, KeyFacts DEF Quiet
      <3>2. QED
        BY <1>1, <3>1, KeyFacts DEF Border, Absent
    <2>4. QED
      BY <2>1, <2>2, <2>3 DEF MayDrift
  <1>8. QED
    BY <1>3, <1>4, <1>5, <1>7

\* Filling the inline cache.
LEMMA ReadNameStep ==
  ASSUME ArrayAssumption, KeyAssumption, ValueAssumption, TableInv, ReadName
  PROVE  /\ TableInv' /\ MayDrift(table, table') /\ UNCHANGED walk
         /\ \A k \in Keys : RawGet(table', k) = RawGet(table, k)
  <1> DEFINE v == IF table.inline = Unknown THEN RawGet(table, Name) ELSE table.inline
  <1>1. Shaped(table) /\ Name \in Keys
    BY KeyFacts DEF TableInv, KeyAssumption
  <1>2. v \in Values \cup {Nil, Unknown}
    BY <1>1, ReadFacts, FieldFacts
  <1>3. v = RawGet(table, Name)
    BY DEF TableInv, Current
  <1>4. table' = [table EXCEPT !.inline = v] /\ walk' = walk /\ writes' = writes
    BY <1>1 DEF ReadName, Shaped, TableType
  <1> HIDE DEF v
  <1>5. table' \in TableType
    BY <1>1, <1>2, <1>4 DEF Shaped, TableType
  <1>6. /\ table'.dense = table.dense /\ table'.array = table.array /\ table'.hash = table.hash
        /\ table'.lengthCache = table.lengthCache
        /\ table'.iterationCache = table.iterationCache
        /\ table'.iterationCacheValid = table.iterationCacheValid
        /\ table'.staleIterationCache = table.staleIterationCache
        /\ table'.inline = v
    BY <1>1, <1>4 DEF Shaped, TableType
  <1>7. Shaped(table')
    BY <1>1, <1>5, <1>6 DEF Shaped, Compact
  <1>8. \A k : RawGet(table', k) = RawGet(table, k)
    BY <1>6 DEF RawGet
  <1>9. Present(table') = Present(table)
    BY <1>8 DEF Present
  <1>10. Current(table') /\ Followed(table', walk')
    BY <1>3, <1>4, <1>6, <1>8, <1>9 DEF TableInv, Current, Followed
  <1>11. TableInv'
    BY <1>4, <1>7, <1>10 DEF TableInv
  <1>12. MayDrift(table, table')
    BY <1>1, <1>6, <1>7, <1>8, SameBorder DEF MayDrift
  <1>13. QED
    BY <1>4, <1>8, <1>11, <1>12

\* The snapshot that is built, or was there, lists what the table holds.
LEMMA EntriesFacts ==
  ASSUME ArrayAssumption, KeyAssumption, ValueAssumption, NEW t, Shaped(t), Current(t)
  PROVE  LET u == RawIterationEntries(t)
         IN /\ Shaped(u) /\ Current(u) /\ MayDrift(t, u)
            /\ \A k \in Keys : RawGet(u, k) = RawGet(t, k)
            /\ Present(u) = Present(t)
            /\ u.iterationCacheValid /\ u.iterationCache = Present(t)
            /\ u.staleIterationCache = t.staleIterationCache
  <1> DEFINE p == Materialize(t)
  <1>1. Shaped(p) /\ Quiet(t, p) /\ p.lengthCache = t.lengthCache
    BY MaterializeFacts
  <1>2. Current(p) /\ Present(p) = Present(t)
    BY <1>1, QuietCurrent
  <1> HIDE DEF p
  <1> DEFINE u == IF p.iterationCacheValid THEN p
                  ELSE [p EXCEPT !.iterationCache = Present(p), !.iterationCacheValid = TRUE]
  <1>3. u = RawIterationEntries(t)
    BY DEF RawIterationEntries, p
  <1>4. Present(p) \subseteq Keys
    BY DEF Present
  <1>5. u \in TableType
    BY <1>1, <1>4 DEF Shaped, TableType
  <1>6. /\ u.dense = p.dense /\ u.array = p.array /\ u.hash = p.hash
        /\ u.lengthCache = p.lengthCache /\ u.inline = p.inline
        /\ u.staleIterationCache = p.staleIterationCache
        /\ u.iterationCacheValid /\ u.iterationCache = Present(p)
    BY <1>1, <1>2 DEF Shaped, TableType, Current
  <1> HIDE DEF u
  <1>7. Shaped(u)
    BY <1>1, <1>5, <1>6 DEF Shaped, Compact
  <1>8. \A k : RawGet(u, k) = RawGet(p, k)
    BY <1>6 DEF RawGet
  <1>9. \A k \in Keys : RawGet(u, k) = RawGet(t, k)
    BY <1>1, <1>8 DEF Quiet
  <1>10. Present(u) = Present(t)
    BY <1>9 DEF Present
  <1>11. Current(u)
    BY <1>2, <1>6, <1>8, <1>10 DEF Current
  <1>12. u.lengthCache = t.lengthCache /\ u.staleIterationCache = t.staleIterationCache
    BY <1>1, <1>6 DEF Quiet
  <1>13. MayDrift(t, u)
    BY <1>7, <1>9, <1>12, SameBorder, KeyFacts DEF MayDrift
  <1>14. QED
    BY <1>2, <1>3, <1>6, <1>7, <1>9, <1>10, <1>11, <1>12, <1>13

\* r ends a traversal that has met every key in present, or names the next.
Found(present, seen, r) ==
  \/ r.outcome = "end" /\ present \subseteq seen
  \/ /\ r.outcome = "key" /\ r.key \in present \ seen
     /\ \A k \in present : k \in seen \cup {r.key} <=> Position(k) <= Position(r.key)

\* Any snapshot that has every present key leads to the next of them.
LEMMA FromEntries ==
  ASSUME ArrayAssumption, KeyAssumption, ValueAssumption, NEW t,
         NEW snapshot, snapshot \subseteq Keys, Present(t) \subseteq snapshot,
         NEW key \in Keys, NEW seen,
         \A k \in Present(t) : k \in seen <=> Position(k) <= Position(key)
  PROVE  Found(Present(t), seen, RawNextFromEntries(t, snapshot, key))
  <1> DEFINE left == {j \in snapshot : Position(key) < Position(j) /\ RawGet(t, j) # Nil}
  <1>1. left = {j \in Present(t) : Position(key) < Position(j)}
    BY DEF Present
  <1>2. Present(t) \subseteq Keys
    BY DEF Present
  <1>3. \A k \in Keys : Position(k) \in Nat
    BY Positions
  <1>4. CASE left = {}
    <2>1. RawNextFromEntries(t, snapshot, key) = [outcome |-> "end", key |-> Nil]
      BY <1>4 DEF RawNextFromEntries
    <2>2. Present(t) \subseteq seen
      BY <1>1, <1>2, <1>3, <1>4
    <2>3. QED
      BY <2>1, <2>2 DEF Found
  <1>5. CASE left # {}
    <2> DEFINE k == First(left)
    <2>1. RawNextFromEntries(t, snapshot, key) = [outcome |-> "key", key |-> k]
      BY <1>5 DEF RawNextFromEntries
    <2>2. k \in left /\ \A j \in left : Position(k) <= Position(j)
      BY <1>1, <1>2, <1>5, FirstFacts
    <2> HIDE DEF k
    <2>3. k \in Present(t) \ seen /\ k \in Keys /\ Position(key) < Position(k)
      BY <1>1, <1>2, <1>3, <2>2
    <2>4. ASSUME NEW j \in Present(t)
          PROVE  j \in seen \cup {k} <=> Position(j) <= Position(k)
      <3>1. j \in Keys /\ Position(j) \in Nat /\ Position(k) \in Nat /\ Position(key) \in Nat
        BY <1>2, <1>3, <2>3
      <3>2. CASE Position(j) <= Position(key)
        BY <2>3, <3>1, <3>2
      <3>3. CASE Position(key) < Position(j)
        <4>1. Position(k) <= Position(j) /\ j \notin seen
          BY <1>1, <2>2, <3>1, <3>3
        <4>2. Position(j) = Position(k) <=> j = k
          BY <2>3, <3>1, Positions
        <4>3. QED
          BY <3>1, <4>1, <4>2
      <3>4. QED
        BY <3>1, <3>2, <3>3
    <2>5. QED
      BY <2>1, <2>3, <2>4 DEF Found
  <1>6. QED
    BY <1>4, <1>5

\* A step of the traversal goes to a key it has not met, or has met them all, or
\* is refused: then another reader came in between.
LEMMA NextFinds ==
  ASSUME ArrayAssumption, KeyAssumption, ValueAssumption, TableInv, walk.state = "on"
  PROVE  LET r == RawNext(RawIterationEntries(table), walk.key)
         IN \/ Found(Present(table), walk.seen, r)
            \/ r.outcome = "invalid" /\ walk.disturbed
  <1> DEFINE u == RawIterationEntries(table)
             r == RawNext(u, walk.key)
  <1>1. /\ Present(u) = Present(table) /\ u.iterationCache = Present(table)
        /\ u.staleIterationCache = table.staleIterationCache
    BY EntriesFacts DEF TableInv
  <1>2. /\ walk.key \in Keys \cup {Nil} /\ Nil \notin Keys
        /\ table.staleIterationCache \subseteq Keys /\ Present(table) \subseteq Keys
    BY KeyFacts, FieldFacts DEF TableInv, WalkType, Present
  <1> HIDE DEF u
  <1>3. CASE Present(table) = {}
    <2>1. r = [outcome |-> "end", key |-> Nil]
      BY <1>1, <1>3 DEF RawNext
    <2>2. QED
      BY <1>3, <2>1 DEF Found, u
  <1>4. CASE Present(table) # {} /\ walk.key = Nil
    <2> DEFINE k == First(Present(table))
    <2>1. r = [outcome |-> "key", key |-> k]
      BY <1>1, <1>4 DEF RawNext
    <2>2. k \in Present(table) /\ \A j \in Present(table) : Position(k) <= Position(j)
      BY <1>2, <1>4, FirstFacts
    <2> HIDE DEF k
    <2>3. walk.seen = {}
      BY <1>4 DEF TableInv, Followed
    <2>4. ASSUME NEW j \in Present(table)
          PROVE  j \in walk.seen \cup {k} <=> Position(j) <= Position(k)
      <3>1. Position(j) = Position(k) <=> j = k
        BY <1>2, <2>2, Positions
      <3>2. Position(j) \in Nat /\ Position(k) \in Nat /\ Position(k) <= Position(j)
        BY <1>2, <2>2, Positions
      <3>3. QED
        BY <2>3, <3>1, <3>2
    <2>5. QED
      BY <2>1, <2>2, <2>3, <2>4 DEF Found, u
  <1>5. CASE Present(table) # {} /\ walk.key # Nil
    <2>1. \A k \in Present(table) : k \in walk.seen <=> Position(k) <= Position(walk.key)
      BY <1>5 DEF TableInv, Followed
    <2>2. \A snapshot : snapshot \subseteq Keys /\ Present(table) \subseteq snapshot =>
            Found(Present(table), walk.seen, RawNextFromEntries(u, snapshot, walk.key))
      BY <1>1, <1>2, <1>5, <2>1, FromEntries
    <2>3. CASE walk.key \in Present(table)
      <3>1. r = RawNextFromEntries(u, Present(table), walk.key)
        BY <1>1, <1>5, <2>3 DEF RawNext
      <3>2. QED
        BY <1>2, <2>2, <3>1 DEF u
    <2>4. CASE walk.key \notin Present(table) /\ walk.key \in table.staleIterationCache
      <3>1. Present(table) \subseteq table.staleIterationCache
        BY <1>5, <2>4 DEF TableInv, Followed
      <3>2. r = RawNextFromEntries(u, table.staleIterationCache, walk.key)
        BY <1>1, <1>5, <2>4 DEF RawNext
      <3>3. QED
        BY <1>2, <2>2, <3>1, <3>2 DEF u
    <2>5. CASE walk.key \notin Present(table) /\ walk.key \notin table.staleIterationCache
      <3>1. walk.disturbed
        BY <1>5, <2>5 DEF TableInv, Followed
      <3>2. r = [outcome |-> "invalid", key |-> Nil]
        BY <1>1, <1>5, <2>5 DEF RawNext
      <3>3. QED
        BY <3>1, <3>2 DEF u
    <2>6. QED
      BY <2>3, <2>4, <2>5
  <1>6. QED
    BY <1>3, <1>4, <1>5

LEMMA WalkNextStep ==
  ASSUME ArrayAssumption, KeyAssumption, ValueAssumption, TableInv, WalkNext
  PROVE  /\ TableInv' /\ MayDrift(table, table')
         /\ \A k \in Keys : RawGet(table', k) = RawGet(table, k)
         /\ \/ /\ \E k \in Present(table) \ walk.seen :
                    walk' = [state |-> "on", key |-> k, seen |-> walk.seen \cup {k},
                             disturbed |-> FALSE]
            \/ Present(table) \subseteq walk.seen /\ walk' = NoWalk
            \/ walk.disturbed /\ walk' = [NoWalk EXCEPT !.state = "refused"]
  <1> DEFINE u == RawIterationEntries(table)
             r == RawNext(u, walk.key)
  <1>1. walk.state = "on" /\ table' = u /\ writes' = writes
    BY DEF WalkNext
  <1>2. /\ Shaped(u) /\ Current(u) /\ MayDrift(table, u)
        /\ \A k \in Keys : RawGet(u, k) = RawGet(table, k)
        /\ Present(u) = Present(table) /\ u.iterationCacheValid
    BY EntriesFacts DEF TableInv
  <1>3. \/ Found(Present(table), walk.seen, r)
        \/ r.outcome = "invalid" /\ walk.disturbed
    BY <1>1, NextFinds
  <1>4. walk' = CASE r.outcome = "end" -> NoWalk
                  [] r.outcome = "key" ->
                       [walk EXCEPT !.key = r.key, !.disturbed = FALSE,
                                    !.seen = @ \cup {r.key}]
                  [] r.outcome = "invalid" -> [NoWalk EXCEPT !.state = "refused"]
    BY DEF WalkNext
  <1>5. walk \in WalkType
    BY DEF TableInv
  <1> HIDE DEF u, r
  <1>6. SUFFICES /\ walk' \in WalkType /\ Followed(u, walk')
                 /\ \/ /\ \E k \in Present(table) \ walk.seen :
                            walk' = [state |-> "on", key |-> k, seen |-> walk.seen \cup {k},
                                     disturbed |-> FALSE]
                    \/ Present(table) \subseteq walk.seen /\ walk' = NoWalk
                    \/ walk.disturbed /\ walk' = [NoWalk EXCEPT !.state = "refused"]
    BY <1>1, <1>2 DEF TableInv
  <1>7. CASE r.outcome = "end"
    <2>1. walk' = NoWalk /\ Present(table) \subseteq walk.seen
      BY <1>3, <1>4, <1>7 DEF Found
    <2>2. QED
      BY <2>1 DEF NoWalk, WalkType, Followed
  <1>8. CASE r.outcome = "key"
    <2> DEFINE k == r.key
    <2>1. /\ k \in Present(table) \ walk.seen
          /\ \A j \in Present(table) : j \in walk.seen \cup {k} <=> Position(j) <= Position(k)
      BY <1>3, <1>8 DEF Found
    <2> HIDE DEF k
    <2>2. walk' = [walk EXCEPT !.key = k, !.disturbed = FALSE, !.seen = @ \cup {k}]
      BY <1>4, <1>8 DEF k
    <2>3. walk' = [state |-> "on", key |-> k, seen |-> walk.seen \cup {k}, disturbed |-> FALSE]
      BY <1>1, <1>5, <2>2 DEF WalkType
    <2>4. walk' \in WalkType
      BY <1>5, <2>1, <2>3 DEF WalkType, Present
    <2>5. k # Nil
      BY <2>1, KeyFacts DEF Present
    <2>6. Followed(u, walk')
      BY <1>2, <2>1, <2>3, <2>5 DEF Followed
    <2>7. QED
      BY <2>1, <2>3, <2>4, <2>6
  <1>9. CASE r.outcome = "invalid"
    <2>1. walk' = [NoWalk EXCEPT !.state = "refused"] /\ walk.disturbed
      BY <1>3, <1>4, <1>9 DEF Found
    <2>2. QED
      BY <2>1 DEF NoWalk, WalkType, Followed
  <1>10. QED
    BY <1>3, <1>7, <1>8, <1>9 DEF Found

LEMMA OtherReaderStep ==
  ASSUME ArrayAssumption, KeyAssumption, ValueAssumption, TableInv, OtherReader
  PROVE  /\ TableInv' /\ MayDrift(table, table')
         /\ \A k \in Keys : RawGet(table', k) = RawGet(table, k)
         /\ walk'.state = walk.state /\ walk'.key = walk.key /\ walk'.seen = walk.seen
         /\ walk'.disturbed =
              (walk.disturbed \/ (walk.key # Nil /\ walk.key \notin Present(table)))
  <1> DEFINE u == RawIterationEntries(table)
             d == walk.disturbed \/ (walk.key # Nil /\ walk.key \notin Present(table))
  <1>1. /\ Shaped(u) /\ Current(u) /\ MayDrift(table, u)
        /\ \A k \in Keys : RawGet(u, k) = RawGet(table, k)
        /\ Present(u) = Present(table) /\ u.iterationCacheValid
        /\ u.staleIterationCache = table.staleIterationCache
    BY EntriesFacts DEF TableInv
  <1>2. walk \in WalkType /\ table' = u /\ writes' = writes
    BY DEF OtherReader, TableInv
  <1>3. walk' = [walk EXCEPT !.disturbed = d]
    BY <1>2 DEF OtherReader, WalkType
  <1> HIDE DEF u
  <1>4. /\ walk'.state = walk.state /\ walk'.key = walk.key /\ walk'.seen = walk.seen
        /\ walk'.disturbed = d /\ walk' \in WalkType
    BY <1>2, <1>3 DEF WalkType
  <1> HIDE DEF d
  <1>5. Followed(table, walk) /\ (walk.key # Nil /\ walk.key \notin Present(table) => d)
    BY DEF TableInv, d
  <1>6. Followed(u, walk')
    BY <1>1, <1>4, <1>5 DEF Followed
  <1>7. TableInv'
    BY <1>1, <1>2, <1>4, <1>6 DEF TableInv
  <1>8. QED
    BY <1>1, <1>2, <1>4, <1>7 DEF d

LEMMA PairsStep ==
  ASSUME TableInv, Pairs
  PROVE  /\ TableInv' /\ UNCHANGED table
         /\ walk' = [NoWalk EXCEPT !.state = "on"]
  <1>1. walk' \in WalkType /\ Followed(table, walk')
    BY DEF Pairs, NoWalk, WalkType, Followed
  <1>2. QED
    BY <1>1 DEF Pairs, TableInv

\* Every step is a change by a writer or one that leaves the contents.
LEMMA Steps ==
  ASSUME ArrayAssumption, KeyAssumption, ValueAssumption, TableInv, TableNext
  PROVE  \/ Change(table')
         \/ Measure \/ ReadName \/ Pairs \/ WalkNext \/ OtherReader
  <1>1. CASE \E k \in Keys, v \in Values \cup {Nil} : SetKey(k, v)
    BY <1>1, SetKeyStep DEF Change, Become
  <1>2. CASE \E k \in Positive, v \in Values : SetPositive(k, v)
    BY <1>2, SetPositiveStep DEF Change, Become
  <1>3. CASE \E first, last \in Positive : first <= last /\ WriteLoopBatch(first, last)
    BY <1>3, WriteLoopStep DEF Change, Become
  <1>4. CASE \E k \in ConstNames, v \in Values \cup {Nil} : ApplyGluaConst(k, v)
    <2>1. PICK k \in Keys, v \in Values \cup {Nil} : ApplyGluaConst(k, v)
      BY <1>4 DEF KeyAssumption
    <2>2. Change([RawSetUnchecked(table, k, v) EXCEPT !.constKeys = @ \cup {k}])
      BY <2>1, GluaConstStep
    <2>3. QED
      BY <2>2 DEF Change, Become
  <1>5. CASE Freeze
    BY <1>5, FreezeStep DEF Change, Become
  <1>6. CASE \E metatable \in BOOLEAN, mode \in WeakModes : SetTableMetatable(metatable, mode)
    BY <1>6, MetatableStep DEF Change, Become
  <1>7. CASE \E strong \in BOOLEAN : Sweep(strong)
    BY <1>7, SweepStep
  <1>8. QED
    BY <1>1, <1>2, <1>3, <1>4, <1>5, <1>6, <1>7 DEF TableNext

LEMMA InvStep ==
  ASSUME ArrayAssumption, KeyAssumption, ValueAssumption, TableInv, [TableNext]_tableVars
  PROVE  TableInv'
  <1>1. CASE Change(table')
    BY <1>1, BecomeStep DEF Change
  <1>2. CASE Measure
    BY <1>2, MeasureStep
  <1>3. CASE ReadName
    BY <1>3, ReadNameStep
  <1>4. CASE Pairs
    BY <1>4, PairsStep
  <1>5. CASE WalkNext
    BY <1>5, WalkNextStep
  <1>6. CASE OtherReader
    BY <1>6, OtherReaderStep
  <1>7. CASE UNCHANGED tableVars
    BY <1>7 DEF tableVars, TableInv
  <1>8. QED
    BY <1>1, <1>2, <1>3, <1>4, <1>5, <1>6, <1>7, Steps

LEMMA BorderFound ==
  ASSUME ArrayAssumption, KeyAssumption, ValueAssumption, TableInv
  PROVE  SearchFindsBorder
  <1> DEFINE n == SearchLength(table)
  <1>1. n \in 0 .. MaxKey /\ Border(table, n)
    BY SearchFinds DEF TableInv
  <1> HIDE DEF n
  <1>2. n = 0 \/ RawGet(table, n) # Nil
    BY <1>1 DEF Border, Absent
  <1>3. Absent(table, n + 1)
    BY <1>1 DEF Border
  <1>4. QED
    BY <1>2, <1>3 DEF SearchFindsBorder, n

LEMMA DriftStep ==
  ASSUME ArrayAssumption, KeyAssumption, ValueAssumption, TableInv, [TableNext]_tableVars
  PROVE  MayDrift(table, table')
  <1>1. CASE Change(table')
    BY <1>1 DEF Change
  <1>2. CASE Measure
    BY <1>2, MeasureStep
  <1>3. CASE ReadName
    BY <1>3, ReadNameStep
  <1>4. CASE WalkNext
    BY <1>4, WalkNextStep
  <1>5. CASE OtherReader
    BY <1>5, OtherReaderStep
  <1>6. CASE UNCHANGED table
    BY <1>6 DEF MayDrift
  <1>7. QED
    BY <1>1, <1>2, <1>3, <1>4, <1>5, <1>6, Steps DEF Pairs, tableVars

\* What a step does to a key that is projected as const, or to a frozen table.
Keeps(k) ==
  table.readOnly \/ k \in table.constKeys =>
    \/ RawGet(table', k) = RawGet(table, k)
    \/ \E strong \in BOOLEAN : Sweep(strong)
    \/ \E v \in Values \cup {Nil} : ApplyGluaConst(k, v)
    \/ \E first, last \in Positive : k \in first .. last /\ WriteLoopBatch(first, last)

LEMMA ConstStep ==
  ASSUME ArrayAssumption, KeyAssumption, ValueAssumption, TableInv, [TableNext]_tableVars,
         NEW k \in Keys
  PROVE  Keeps(k)
  <1>1. ASSUME NEW j \in Keys, NEW v \in Values \cup {Nil}, SetKey(j, v)
        PROVE  Keeps(k)
    BY <1>1, SetKeyStep DEF Keeps, Sets
  <1>2. ASSUME NEW j \in Positive, NEW v \in Values, SetPositive(j, v)
        PROVE  Keeps(k)
    BY <1>2, SetPositiveStep DEF Keeps, Sets
  <1>3. ASSUME NEW first \in Positive, NEW last \in Positive, first <= last,
               WriteLoopBatch(first, last)
        PROVE  Keeps(k)
    <2>1. CASE k \in first .. last
      BY <1>3, <2>1 DEF Keeps
    <2>2. CASE k \notin first .. last
      <3>1. RawGet(table', k) = RawGet(table, k)
        BY <1>3, <2>2, WriteLoopStep
      <3>2. QED
        BY <3>1 DEF Keeps
    <2>3. QED
      BY <2>1, <2>2
  <1>4. ASSUME NEW j \in ConstNames, NEW v \in Values \cup {Nil}, ApplyGluaConst(j, v)
        PROVE  Keeps(k)
    <2>1. CASE j = k
      BY <1>4, <2>1 DEF Keeps
    <2>2. CASE j # k
      <3>1. Sets(table, table', {j}, v)
        BY <1>4, GluaConstStep DEF KeyAssumption
      <3>2. QED
        BY <2>2, <3>1 DEF Keeps, Sets
    <2>3. QED
      BY <2>1, <2>2
  <1>5. CASE Freeze
    BY <1>5, FreezeStep DEF Keeps, Quiet
  <1>6. ASSUME NEW metatable \in BOOLEAN, NEW mode \in WeakModes,
               SetTableMetatable(metatable, mode)
        PROVE  Keeps(k)
    BY <1>6, MetatableStep DEF Keeps, Quiet
  <1>7. CASE Measure
    BY <1>7, MeasureStep DEF Keeps, Quiet
  <1>8. CASE ReadName
    BY <1>8, ReadNameStep DEF Keeps
  <1>9. CASE \E strong \in BOOLEAN : Sweep(strong)
    BY <1>9 DEF Keeps
  <1>10. CASE WalkNext
    BY <1>10, WalkNextStep DEF Keeps
  <1>11. CASE OtherReader
    BY <1>11, OtherReaderStep DEF Keeps
  <1>12. CASE UNCHANGED table
    BY <1>12 DEF Keeps
  <1>13. QED
    BY <1>1, <1>2, <1>3, <1>4, <1>5, <1>6, <1>7, <1>8, <1>9, <1>10, <1>11, <1>12
    DEF TableNext, Pairs, tableVars

-----------------------------------------------------------------------------
(* Refinement: the table is a Lua table *)

LEMMA PresentContent ==
  Promise!Present = Present(table)
  BY DEF Promise!Present, Present, Content

LEMMA PromiseInit ==
  ASSUME ArrayAssumption, KeyAssumption, ValueAssumption, TableInit
  PROVE  Promise!Init
  <1>1. PICK dense \in BOOLEAN : table = NewTable(dense)
    BY DEF TableInit
  <1>2. table.array = <<>> /\ table.hash = [k \in HashKeys |-> Nil]
    BY <1>1 DEF NewTable
  <1>3. Shaped(table)
    BY InvInit DEF TableInv
  <1>4. \A k \in Keys : RawGet(table, k) = Nil
    BY <1>2, <1>3, ReadFacts, KeyFacts
  <1>5. Content(table) = [k \in Keys |-> Nil]
    BY <1>4 DEF Content
  <1>6. QED
    BY <1>5 DEF TableInit, NoWalk, Promise!Init

LEMMA ChangeRefines ==
  ASSUME ArrayAssumption, KeyAssumption, ValueAssumption, TableInv, Change(table')
  PROVE  Promise!Change
  <1>1. Shaped(table') /\ Become(table')
    BY DEF Change
  <1>2. Content(table') \in [Keys -> Values \cup {Nil}]
    BY <1>1, ReadFacts DEF Content
  <1>3. (\E k \in Keys : Content(table)[k] = Nil /\ Content(table')[k] # Nil)
          <=> ~(Present(table') \subseteq Present(table))
    BY DEF Content, Present
  <1>4. CASE Present(table') \subseteq Present(table)
    BY <1>1, <1>2, <1>3, <1>4 DEF Become, Promise!Change
  <1>5. CASE ~(Present(table') \subseteq Present(table))
    <2>1. walk' = NoWalk
      BY <1>1, <1>5 DEF Become
    <2>2. QED
      BY <1>2, <1>3, <1>5, <2>1 DEF NoWalk, Promise!Change, Promise!Stopped
  <1>6. QED
    BY <1>4, <1>5

\* A reader leaves the contents.
LEMMA SameContent ==
  ASSUME \A k \in Keys : RawGet(table', k) = RawGet(table, k)
  PROVE  Content(table') = Content(table)
  BY DEF Content

LEMMA RefinesStep ==
  ASSUME ArrayAssumption, KeyAssumption, ValueAssumption, TableInv, [TableNext]_tableVars
  PROVE  [Promise!Next]_Promise!vars
  <1>1. CASE Change(table')
    BY <1>1, ChangeRefines DEF Promise!Next
  <1>2. CASE Measure
    BY <1>2, MeasureStep, SameContent DEF Quiet, Promise!vars
  <1>3. CASE ReadName
    BY <1>3, ReadNameStep, SameContent DEF Promise!vars
  <1>4. CASE Pairs
    <2>1. walk' = [NoWalk EXCEPT !.state = "on"] /\ table' = table
      BY <1>4, PairsStep
    <2>2. Promise!Begin
      BY <2>1 DEF NoWalk, Promise!Begin, Promise!Stopped
    <2>3. QED
      BY <2>2 DEF Promise!Next
  <1>5. CASE WalkNext
    <2>1. Content(table') = Content(table) /\ walk.state = "on"
      BY <1>5, WalkNextStep, SameContent DEF WalkNext
    <2>2. CASE \E k \in Present(table) \ walk.seen :
                 walk' = [state |-> "on", key |-> k, seen |-> walk.seen \cup {k},
                          disturbed |-> FALSE]
      <3>1. Promise!Continue
        BY <2>1, <2>2, PresentContent DEF Promise!Continue
      <3>2. QED
        BY <3>1 DEF Promise!Next
    <2>3. CASE Present(table) \subseteq walk.seen /\ walk' = NoWalk
      <3>1. Promise!End
        BY <2>1, <2>3, PresentContent DEF NoWalk, Promise!End, Promise!Stopped
      <3>2. QED
        BY <3>1 DEF Promise!Next
    <2>4. CASE walk.disturbed /\ walk' = [NoWalk EXCEPT !.state = "refused"]
      <3>1. Promise!Refuse
        BY <2>1, <2>4 DEF NoWalk, Promise!Refuse, Promise!Stopped
      <3>2. QED
        BY <3>1 DEF Promise!Next
    <2>5. QED
      BY <1>5, <2>2, <2>3, <2>4, WalkNextStep
  <1>6. CASE OtherReader
    <2>1. Promise!Read
      BY <1>6, OtherReaderStep, SameContent, PresentContent DEF Promise!Read
    <2>2. QED
      BY <2>1 DEF Promise!Next
  <1>7. CASE UNCHANGED tableVars
    BY <1>7 DEF tableVars, Content, Promise!vars
  <1>8. QED
    BY <1>1, <1>2, <1>3, <1>4, <1>5, <1>6, <1>7, Steps

-----------------------------------------------------------------------------
(* The theorems *)

\* The table is well formed, its caches are current, and a traversal that goes
\* on has met what lies before its control key, which is found again.
THEOREM Invariant == TableSpec => []TableInv
  <1>1. TableInit => TableInv
    BY InvInit, ArrayAssumption, KeyAssumption, ValueAssumption
  <1>2. TableInv /\ [TableNext]_tableVars => TableInv'
    BY InvStep, ArrayAssumption, KeyAssumption, ValueAssumption
  <1>3. QED
    BY <1>1, <1>2, PTL DEF TableSpec

\* Whatever is written, swept, measured or traversed, the fields of Table keep
\* their ranges, and the array area its limit.
THEOREM TypeCorrect == TableSpec => []TableTypeOK
  BY Invariant, TableInvImplies, PTL

\* The snapshot of next and the VM's inline cache answer with what the table
\* holds, after any setter, loop batch or sweep.
THEOREM CachesCurrentHolds == TableSpec => []CachesCurrent
  BY Invariant, TableInvImplies, PTL

\* The search of Len finds a border, whichever areas hold the elements.
THEOREM SearchFindsBorderHolds == TableSpec => []SearchFindsBorder
  <1>1. TableInv => SearchFindsBorder
    BY BorderFound, ArrayAssumption, KeyAssumption, ValueAssumption
  <1>2. QED
    BY <1>1, Invariant, PTL

\* #t stops being a border only by an assignment just above it.
THEOREM LengthDriftHolds == TableSpec => LengthDrift
  <1>1. TableInv /\ [TableNext]_tableVars => [MayDrift(table, table')]_tableVars
    BY DriftStep, ArrayAssumption, KeyAssumption, ValueAssumption
  <1>2. QED
    BY <1>1, Invariant, PTL DEF TableSpec, LengthDrift

\* Const keys and frozen tables keep their values, except for sweeps, another
\* projection and the write loops.
THEOREM ConstKeptHolds == TableSpec => ConstKept
  <1>1. TableInv /\ [TableNext]_tableVars => [\A k \in Keys : Keeps(k)]_tableVars
    BY ConstStep, ArrayAssumption, KeyAssumption, ValueAssumption
  <1>2. QED
    BY <1>1, Invariant, PTL DEF TableSpec, ConstKept, Keeps

\* The table, with its areas and caches, keeps the promise of a Lua table.
THEOREM KeepsPromiseHolds == TableSpec => KeepsPromise
  <1>1. TableInit => Promise!Init
    BY PromiseInit, ArrayAssumption, KeyAssumption, ValueAssumption
  <1>2. TableInv /\ [TableNext]_tableVars => [Promise!Next]_Promise!vars
    BY RefinesStep, ArrayAssumption, KeyAssumption, ValueAssumption
  <1>3. QED
    BY <1>1, <1>2, Invariant, PTL DEF TableSpec, KeepsPromise, Promise!Spec
=============================================================================
