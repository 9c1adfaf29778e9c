------------------------- MODULE ContinuationProofs -------------------------
(***************************************************************************)
(* What package lua does with yields, errors and saved continuations moves *)
(* the threads only as Coroutine allows, for every set of coroutines and   *)
(* every program shape: a step of Continuation is a step of Coroutine or   *)
(* none.  The invariants CoroutineProofs shows of that module are used for *)
(* the state as it is mapped.                                              *)
(*                                                                         *)
(* And for programs without the delicate shapes, package lua keeps the     *)
(* promise of Stackful, for any depth and any nesting of resumes and       *)
(* callbacks: the chain of continuations is the coroutine's stack.         *)
(***************************************************************************)
EXTENDS Continuation, Recursion, FiniteSetTheorems, SequenceTheorems, TLAPS

M == INSTANCE CoroutineProofs WITH
       kind   <- [t \in Threads |-> IF status[t] = "none" THEN "none" ELSE "lua"],
       status <- [t \in Threads |-> IF status[t] = "none" THEN "suspended" ELSE status[t]],
       calls  <- CallsIn(acts),
       signal <- IF signal = "yield" THEN "yield" ELSE "none",
       closed <- FALSE

Activations == [frame : Frames, thread : Threads, todo : Seq(Saved)]
IsCall(a)   == a.frame \in {"resume", "callback"}
Front(s)    == SubSeq(s, 1, Len(s) - 1)

-----------------------------------------------------------------------------
(* The calls among the activations of a stack *)

\* An activation on top of a stack.
LEMMA AppendFacts ==
  ASSUME NEW Elem, NEW s \in Seq(Elem), NEW e \in Elem
  PROVE  /\ Append(s, e) \in Seq(Elem)
         /\ Len(Append(s, e)) = Len(s) + 1 /\ Len(s) \in Nat
         /\ Append(s, e)[Len(s) + 1] = e
         /\ Append(s, e) # <<>>
         /\ \A i \in 1..Len(s) : Append(s, e)[i] = s[i]
  OBVIOUS

\* A stack without its top.
LEMMA FrontFacts ==
  ASSUME NEW Elem, NEW s \in Seq(Elem), s # <<>>
  PROVE  /\ Front(s) \in Seq(Elem)
         /\ Len(s) \in Nat \ {0} /\ Len(Front(s)) = Len(s) - 1
         /\ \A i \in 1..(Len(s) - 1) : Front(s)[i] = s[i]
         /\ s[Len(s)] \in Elem
         /\ s = Append(Front(s), s[Len(s)])
  <1>1. /\ Front(s) \in Seq(Elem)
        /\ Len(s) \in Nat \ {0} /\ Len(Front(s)) = Len(s) - 1
        /\ \A i \in 1..(Len(s) - 1) : Front(s)[i] = s[i]
        /\ s[Len(s)] \in Elem
    <2>1. Len(s) \in Nat \ {0} /\ \A i \in 1..Len(s) : s[i] \in Elem
      OBVIOUS
    <2> DEFINE n == Len(s) - 1
    <2>2. /\ SubSeq(s, 1, n) \in Seq(Elem)
          /\ Len(SubSeq(s, 1, n)) = IF 1 <= n THEN n - 1 + 1 ELSE 0
          /\ \A i \in 1..n - 1 + 1 : SubSeq(s, 1, n)[i] = s[1 + i - 1]
      BY <2>1, SubSeqProperties, SMT
    <2>3. n \in Nat /\ Front(s) = SubSeq(s, 1, n)
      BY <2>1 DEF Front
    <2> HIDE DEF n
    <2>4. Len(Front(s)) = n /\ \A i \in 1..n : Front(s)[i] = s[i]
      BY <2>2, <2>3
    <2>5. QED
      BY <2>1, <2>2, <2>3, <2>4 DEF n
  <1>2. s = Append(Front(s), s[Len(s)])
    <2> DEFINE u == Append(Front(s), s[Len(s)])
    <2>1. u \in Seq(Elem) /\ Len(u) = Len(s) /\ \A i \in 1..Len(s) : u[i] = s[i]
      BY <1>1
    <2> HIDE DEF u
    <2>2. u = s
      BY <1>1, <2>1, SeqEqual
    <2>3. QED
      BY <2>2 DEF u
  <1>3. QED
    BY <1>1, <1>2

LEMMA IndicesFinite ==
  ASSUME NEW Elem, NEW s \in Seq(Elem)
  PROVE  /\ IsFiniteSet(CallIndices(s))
         /\ Cardinality(CallIndices(s)) \in Nat
         /\ CallIndices(s) \subseteq 1..Len(s)
         /\ \A i : /\ Cardinality({j \in CallIndices(s) : j <= i}) \in Nat
                   /\ Cardinality({j \in CallIndices(s) : j <= i}) <= Cardinality(CallIndices(s))
  <1>1. CallIndices(s) \subseteq 1..Len(s) /\ Len(s) \in Nat
    BY DEF CallIndices
  <1>2. IsFiniteSet(1..Len(s))
    BY <1>1, FS_Interval
  <1>3. IsFiniteSet(CallIndices(s)) /\ Cardinality(CallIndices(s)) \in Nat
    BY <1>1, <1>2, FS_Subset, FS_CardinalityType
  <1>4. ASSUME NEW i
        PROVE  /\ Cardinality({j \in CallIndices(s) : j <= i}) \in Nat
               /\ Cardinality({j \in CallIndices(s) : j <= i}) <= Cardinality(CallIndices(s))
    <2>1. {j \in CallIndices(s) : j <= i} \subseteq CallIndices(s)
      OBVIOUS
    <2>2. QED
      BY <1>3, <2>1, FS_Subset, FS_CardinalityType
  <1>5. QED
    BY <1>1, <1>3, <1>4

LEMMA NoCalls == CallsIn(<<>>) = <<>>
  <1>1. CallIndices(<<>>) = {}
    BY DEF CallIndices
  <1>2. Cardinality(CallIndices(<<>>)) = 0
    BY <1>1, FS_EmptySet
  <1>3. CallsIn(<<>>) = [n \in 1..0 |-> Only({CallOf(<<>>[i]) : i \in NthCall(<<>>, n)})]
    BY <1>2 DEF CallsIn
  <1>4. QED
    BY <1>3

\* Stacks with the same calls at the same places hold the same calls.
LEMMA SameCalls ==
  ASSUME NEW s \in Seq(Activations), NEW u \in Seq(Activations), Len(u) = Len(s),
         \A i \in 1..Len(s) : u[i].frame = s[i].frame /\ u[i].thread = s[i].thread
  PROVE  CallsIn(u) = CallsIn(s)
  <1>1. CallIndices(u) = CallIndices(s)
    BY DEF CallIndices
  <1>2. ASSUME NEW n
        PROVE  {CallOf(u[i]) : i \in NthCall(u, n)} = {CallOf(s[i]) : i \in NthCall(s, n)}
    <2>1. NthCall(u, n) = NthCall(s, n) /\ NthCall(s, n) \subseteq 1..Len(s)
      BY <1>1 DEF NthCall, CallIndices
    <2>2. \A i \in NthCall(s, n) : CallOf(u[i]) = CallOf(s[i])
      BY <2>1 DEF CallOf
    <2>3. QED
      BY <2>1, <2>2
  <1>3. QED
    BY <1>1, <1>2 DEF CallsIn

\* An activation that is no call of Resume or of a library function does not
\* show, one that is one comes last.
LEMMA PushCalls ==
  ASSUME NEW s \in Seq(Activations), NEW a \in Activations
  PROVE  /\ ~IsCall(a) => CallsIn(Append(s, a)) = CallsIn(s)
         /\ IsCall(a) => CallsIn(Append(s, a)) = Append(CallsIn(s), CallOf(a))
  <1> DEFINE u == Append(s, a)
             m == Len(s) + 1
             c == Cardinality(CallIndices(s))
             Told(v, n) == {CallOf(v[i]) : i \in NthCall(v, n)}
             Rank(v, i) == Cardinality({j \in CallIndices(v) : j <= i})
  <1>1. /\ u \in Seq(Activations) /\ Len(u) = m /\ u[m] = a /\ m \in Nat
        /\ \A i \in 1..Len(s) : u[i] = s[i]
    OBVIOUS
  <1>2. /\ ~IsCall(a) => CallIndices(u) = CallIndices(s)
        /\ IsCall(a) => CallIndices(u) = CallIndices(s) \cup {m}
    BY <1>1 DEF CallIndices, IsCall
  <1>3. /\ IsFiniteSet(CallIndices(s)) /\ c \in Nat /\ CallIndices(s) \subseteq 1..Len(s)
        /\ \A i : /\ Cardinality({j \in CallIndices(s) : j <= i}) \in Nat
                  /\ Cardinality({j \in CallIndices(s) : j <= i}) <= c
    BY IndicesFinite
  <1>4. CASE ~IsCall(a)
    <2>1. ASSUME NEW n PROVE Told(u, n) = Told(s, n)
      <3>1. NthCall(u, n) = NthCall(s, n) /\ NthCall(s, n) \subseteq 1..Len(s)
        BY <1>2, <1>3, <1>4 DEF NthCall
      <3>2. \A i \in NthCall(s, n) : CallOf(u[i]) = CallOf(s[i])
        BY <1>1, <3>1
      <3>3. QED
        BY <3>1, <3>2
    <2>2. CallIndices(u) = CallIndices(s)
      BY <1>2, <1>4
    <2> HIDE DEF u
    <2>3. CallsIn(u) = CallsIn(s)
      BY <2>1, <2>2 DEF CallsIn
    <2>4. QED
      BY <1>4, <2>3 DEF u
  <1>5. CASE IsCall(a)
    <2>1. /\ IsFiniteSet(CallIndices(u)) /\ m \notin CallIndices(s)
          /\ CallIndices(u) = CallIndices(s) \cup {m}
      BY <1>1, <1>2, <1>3, <1>5, FS_AddElement
    <2>2. Cardinality(CallIndices(u)) = c + 1
      BY <1>3, <2>1, FS_AddElement
    <2>3. \A i \in CallIndices(s) : {j \in CallIndices(u) : j <= i} = {j \in CallIndices(s) : j <= i}
      BY <1>1, <1>3, <2>1
    <2>4. {j \in CallIndices(u) : j <= m} = CallIndices(u)
      BY <1>1, <1>3, <2>1
    <2>14. /\ Rank(u, m) = c + 1
           /\ \A i \in CallIndices(s) : Rank(u, i) = Rank(s, i) /\ Rank(s, i) \in Nat /\ Rank(s, i) <= c
      BY <1>3, <2>2, <2>3, <2>4
    <2>15. /\ \A n : NthCall(u, n) = {i \in CallIndices(u) : Rank(u, i) = n}
           /\ \A n : NthCall(s, n) = {i \in CallIndices(s) : Rank(s, i) = n}
      BY DEF NthCall
    <2> HIDE DEF Rank
    <2>5. ASSUME NEW n \in 1..c PROVE Told(u, n) = Told(s, n)
      <3>1. NthCall(u, n) = NthCall(s, n)
        <4>1. Rank(u, m) # n
          BY <1>3, <2>14
        <4>2. \A i \in CallIndices(s) : Rank(u, i) = Rank(s, i)
          BY <2>14
        <4>3. /\ NthCall(u, n) = {i \in CallIndices(u) : Rank(u, i) = n}
              /\ NthCall(s, n) = {i \in CallIndices(s) : Rank(s, i) = n}
          BY <2>15
        <4> HIDE DEF u, m
        <4>4. QED
          BY <2>1, <4>1, <4>2, <4>3
      <3>2. NthCall(s, n) \subseteq 1..Len(s)
        BY <1>3 DEF NthCall
      <3>3. \A i \in NthCall(s, n) : CallOf(u[i]) = CallOf(s[i])
        BY <1>1, <3>2
      <3>4. QED
        BY <3>1, <3>3
    <2>6. Told(u, c + 1) = {CallOf(a)}
      <3>1. NthCall(u, c + 1) = {m}
        BY <1>3, <2>1, <2>14, <2>15
      <3>2. QED
        BY <1>1, <3>1
    <2>7. Only({CallOf(a)}) = CallOf(a)
      BY DEF Only
    <2> HIDE DEF u
    <2>8. CallsIn(u) = [n \in 1..(c + 1) |-> Only(Told(u, n))]
      BY <2>2 DEF CallsIn
    <2>9. CallsIn(s) = [n \in 1..c |-> Only(Told(s, n))]
      BY DEF CallsIn
    <2> HIDE DEF c, Told
    <2>10. Append(CallsIn(s), CallOf(a)) = [n \in 1..(c + 1) |-> IF n = c + 1 THEN CallOf(a) ELSE Only(Told(s, n))]
      BY <1>3, <2>9
    <2>11. \A n \in 1..(c + 1) : Only(Told(u, n)) = IF n = c + 1 THEN CallOf(a) ELSE Only(Told(s, n))
      <3>1. TAKE n \in 1..(c + 1)
      <3>2. CASE n = c + 1
        BY <2>6, <2>7, <3>2
      <3>3. CASE n # c + 1
        <4>1. n \in 1..c
          BY <1>3, <3>3
        <4>2. QED
          BY <2>5, <3>3, <4>1
      <3>4. QED
        BY <3>2, <3>3
    <2>12. CallsIn(u) = Append(CallsIn(s), CallOf(a))
      BY <2>8, <2>10, <2>11
    <2>13. QED
      BY <1>5, <2>12 DEF u
  <1>6. QED
    BY <1>4, <1>5

-----------------------------------------------------------------------------
(* A Go stack: every activation runs on the thread of the innermost call   *)
(* of Resume or of a library function at or below it.                      *)

InnermostThread(s) == CallsIn(s)[Len(CallsIn(s))].thread
RunsAt(s, i) ==
  CallsIn(SubSeq(s, 1, i)) # <<>> /\ InnermostThread(SubSeq(s, 1, i)) = s[i].thread
Grounded(s) == s \in Seq(Activations) /\ \A i \in 1..Len(s) : RunsAt(s, i)

LEMMA PrefixFacts ==
  ASSUME NEW Elem, NEW s \in Seq(Elem)
  PROVE  /\ SubSeq(s, 1, Len(s)) = s
         /\ \A e \in Elem : \A i \in 1..Len(s) : SubSeq(Append(s, e), 1, i) = SubSeq(s, 1, i)
  <1>1. SubSeq(s, 1, Len(s)) = s
    BY SubSeqProperties
  <1>2. ASSUME NEW e \in Elem, NEW i \in 1..Len(s)
        PROVE  SubSeq(Append(s, e), 1, i) = SubSeq(s, 1, i)
    <2>1. /\ Append(s, e) \in Seq(Elem) /\ Len(Append(s, e)) = Len(s) + 1 /\ Len(s) \in Nat
          /\ \A j \in 1..Len(s) : Append(s, e)[j] = s[j]
      OBVIOUS
    <2>2. /\ SubSeq(s, 1, i) = [j \in 1..i |-> s[j]]
          /\ SubSeq(Append(s, e), 1, i) = [j \in 1..i |-> Append(s, e)[j]]
      BY <2>1
    <2>3. QED
      BY <2>1, <2>2
  <1>3. QED
    BY <1>1, <1>2

LEMMA TopRuns ==
  ASSUME NEW s, Grounded(s), s # <<>>
  PROVE  CallsIn(s) # <<>> /\ InnermostThread(s) = s[Len(s)].thread
  <1>1. Len(s) \in 1..Len(s) /\ SubSeq(s, 1, Len(s)) = s
    BY PrefixFacts DEF Grounded
  <1>2. QED
    BY <1>1 DEF Grounded, RunsAt

LEMMA PushGrounded ==
  ASSUME NEW s, Grounded(s), NEW a \in Activations,
         CallsIn(Append(s, a)) # <<>>, InnermostThread(Append(s, a)) = a.thread
  PROVE  Grounded(Append(s, a))
  <1> DEFINE u == Append(s, a)
  <1>1. /\ s \in Seq(Activations) /\ u \in Seq(Activations)
        /\ Len(s) \in Nat /\ Len(u) = Len(s) + 1 /\ u[Len(s) + 1] = a
        /\ \A j \in 1..Len(s) : u[j] = s[j]
    BY DEF Grounded
  <1>2. SubSeq(u, 1, Len(s) + 1) = u
    BY <1>1, PrefixFacts
  <1>3. \A i \in 1..Len(s) : SubSeq(u, 1, i) = SubSeq(s, 1, i)
    BY <1>1, PrefixFacts
  <1> HIDE DEF u
  <1>4. \A i \in 1..Len(s) : RunsAt(u, i)
    BY <1>1, <1>3 DEF Grounded, RunsAt
  <1>5. RunsAt(u, Len(s) + 1)
    BY <1>1, <1>2 DEF RunsAt, u
  <1>6. QED
    BY <1>1, <1>4, <1>5 DEF Grounded, u

\* A function or a protected call starts on the thread that calls it.
LEMMA PushPlain ==
  ASSUME NEW s, Grounded(s), NEW a \in Activations, ~IsCall(a),
         s # <<>>, a.thread = s[Len(s)].thread
  PROVE  Grounded(Append(s, a)) /\ CallsIn(Append(s, a)) = CallsIn(s)
  <1>1. CallsIn(Append(s, a)) = CallsIn(s)
    BY PushCalls DEF Grounded
  <1>2. QED
    BY <1>1, TopRuns, PushGrounded DEF InnermostThread

LEMMA PushCall ==
  ASSUME NEW s, Grounded(s), NEW a \in Activations, IsCall(a), CallsIn(s) \in Seq(M!Calls)
  PROVE  /\ Grounded(Append(s, a))
         /\ CallsIn(Append(s, a)) = Append(CallsIn(s), CallOf(a))
  <1>1. CallsIn(Append(s, a)) = Append(CallsIn(s), CallOf(a))
    BY PushCalls DEF Grounded
  <1>2. CallOf(a) \in M!Calls
    BY DEF CallOf, M!Calls, IsCall, Activations
  <1>3. CallsIn(Append(s, a)) # <<>> /\ InnermostThread(Append(s, a)) = a.thread
    BY <1>1, <1>2 DEF InnermostThread, CallOf
  <1>4. QED
    BY <1>1, <1>3, PushGrounded

LEMMA PopGrounded ==
  ASSUME NEW s, Grounded(s), s # <<>>
  PROVE  Grounded(Front(s))
  <1>1. /\ s \in Seq(Activations) /\ Front(s) \in Seq(Activations) /\ s[Len(s)] \in Activations
        /\ Len(Front(s)) = Len(s) - 1 /\ Len(s) \in Nat \ {0}
        /\ s = Append(Front(s), s[Len(s)])
        /\ \A i \in 1..(Len(s) - 1) : Front(s)[i] = s[i]
    BY FrontFacts DEF Grounded
  <1>2. \A i \in 1..Len(Front(s)) : SubSeq(s, 1, i) = SubSeq(Front(s), 1, i)
    BY <1>1, PrefixFacts
  <1> DEFINE f == Front(s)
  <1>3. ASSUME NEW i \in 1..Len(f) PROVE RunsAt(f, i)
    <2>1. i \in 1..Len(s) /\ f[i] = s[i] /\ SubSeq(s, 1, i) = SubSeq(f, 1, i)
      BY <1>1, <1>2
    <2>2. RunsAt(s, i)
      BY <2>1 DEF Grounded
    <2> HIDE DEF f
    <2>3. QED
      BY <2>1, <2>2 DEF RunsAt
  <1>4. QED
    BY <1>1, <1>3 DEF Grounded

\* The end of a function or of a protected call uncovers one of the same thread.
LEMMA PopPlain ==
  ASSUME NEW s, Grounded(s), s # <<>>, ~IsCall(s[Len(s)])
  PROVE  /\ Grounded(Front(s)) /\ CallsIn(Front(s)) = CallsIn(s)
         /\ Front(s) # <<>> /\ Front(s)[Len(Front(s))].thread = s[Len(s)].thread
  <1>1. /\ Front(s) \in Seq(Activations) /\ s[Len(s)] \in Activations
        /\ s = Append(Front(s), s[Len(s)])
    BY FrontFacts DEF Grounded
  <1>2. CallsIn(Front(s)) = CallsIn(s)
    BY <1>1, PushCalls
  <1>3. CallsIn(s) # <<>> /\ InnermostThread(s) = s[Len(s)].thread
    BY TopRuns
  <1>4. CallsIn(<<>>) = <<>>
    BY NoCalls
  <1>5. Front(s) # <<>>
    BY <1>2, <1>3, <1>4
  <1>6. QED
    BY <1>2, <1>3, <1>5, PopGrounded, TopRuns DEF InnermostThread

LEMMA PopCall ==
  ASSUME NEW s, Grounded(s), s # <<>>, IsCall(s[Len(s)]), CallsIn(s) \in Seq(M!Calls)
  PROVE  /\ Grounded(Front(s))
         /\ CallsIn(s) # <<>> /\ CallsIn(s)[Len(CallsIn(s))] = CallOf(s[Len(s)])
         /\ CallsIn(Front(s)) = SubSeq(CallsIn(s), 1, Len(CallsIn(s)) - 1)
  <1> DEFINE f == Front(s)
             a == s[Len(s)]
             v == CallsIn(f)
  <1>1. f \in Seq(Activations) /\ a \in Activations /\ s = Append(f, a)
    BY FrontFacts DEF Grounded
  <1>2. CallsIn(s) = Append(v, CallOf(a))
    BY <1>1, PushCalls
  <1> DEFINE Elem == {v[n] : n \in DOMAIN v} \cup {CallOf(a)}
  <1>3. v \in Seq(Elem)
    <2>1. Cardinality(CallIndices(f)) \in Nat
      BY <1>1, IndicesFinite
    <2>2. v = [n \in 1..Cardinality(CallIndices(f)) |-> v[n]]
      BY DEF CallsIn
    <2> HIDE DEF v
    <2>3. QED
      BY <2>1, <2>2
  <1>4. CallOf(a) \in Elem
    OBVIOUS
  <1> HIDE DEF v, Elem
  <1>5. /\ Len(Append(v, CallOf(a))) = Len(v) + 1 /\ Len(v) \in Nat
        /\ Append(v, CallOf(a))[Len(v) + 1] = CallOf(a)
        /\ Append(v, CallOf(a)) # <<>>
    BY <1>3, <1>4, AppendFacts
  <1>6. SubSeq(Append(v, CallOf(a)), 1, Len(v)) = v
    <2>1. SubSeq(v, 1, Len(v)) = v
      BY <1>3, PrefixFacts
    <2>2. Append(v, CallOf(a)) \in Seq(Elem) /\ SubSeq(Append(v, CallOf(a)), 1, Len(v)) \in Seq(Elem)
      BY <1>3, <1>4, <1>5
    <2>3. CASE Len(v) = 0
      BY <1>3, <1>5, <2>2, <2>3
    <2>4. CASE Len(v) # 0
      <3>1. Len(v) \in 1..Len(v)
        BY <1>5, <2>4
      <3>2. QED
        BY <1>3, <1>4, <2>1, <3>1, PrefixFacts
    <2>5. QED
      BY <2>3, <2>4
  <1>7. Grounded(f)
    BY PopGrounded
  <1>8. QED
    BY <1>2, <1>5, <1>6, <1>7 DEF v

\* A continuation taken from the loop changes neither.
LEMMA Retold ==
  ASSUME NEW s, Grounded(s), s # <<>>, NEW c \in Seq(Saved)
  PROVE  LET u == [s EXCEPT ![Len(s)].todo = c]
         IN  /\ Grounded(u) /\ CallsIn(u) = CallsIn(s)
             /\ u # <<>> /\ Len(u) = Len(s) /\ u[Len(u)].thread = s[Len(s)].thread
  <1> DEFINE u == [s EXCEPT ![Len(s)].todo = c]
  <1>1. s \in Seq(Activations) /\ Len(s) \in Nat \ {0}
    BY DEF Grounded
  <1>2. /\ u \in Seq(Activations) /\ Len(u) = Len(s)
        /\ \A i \in 1..Len(s) : u[i].frame = s[i].frame /\ u[i].thread = s[i].thread
    <2> DEFINE a == [s[Len(s)] EXCEPT !.todo = c]
    <2>1. s[Len(s)] \in Activations
      BY <1>1
    <2>2. /\ a \in Activations
          /\ a.frame = s[Len(s)].frame /\ a.thread = s[Len(s)].thread
      BY <2>1 DEF Activations
    <2>3. u = [s EXCEPT ![Len(s)] = a]
      OBVIOUS
    <2> HIDE DEF a, u
    <2>4. u \in Seq(Activations) /\ Len(u) = Len(s)
      BY <1>1, <2>2, <2>3
    <2>5. \A i \in 1..Len(s) : u[i] = IF i = Len(s) THEN a ELSE s[i]
      BY <1>1, <2>2, <2>3
    <2>6. QED
      BY <2>2, <2>4, <2>5
  <1> HIDE DEF u
  <1>3. CallsIn(u) = CallsIn(s)
    BY <1>1, <1>2, SameCalls
  <1>4. ASSUME NEW i \in 1..Len(s) PROVE RunsAt(u, i)
    <2> DEFINE p == SubSeq(s, 1, i)
               q == SubSeq(u, 1, i)
    <2>1. /\ p \in Seq(Activations) /\ q \in Seq(Activations) /\ Len(p) = i /\ Len(q) = i
          /\ \A j \in 1..i : p[j] = s[j] /\ q[j] = u[j]
      BY <1>1, <1>2
    <2>2. \A j \in 1..i : q[j].frame = p[j].frame /\ q[j].thread = p[j].thread
      BY <1>1, <1>2, <2>1
    <2>3. CallsIn(q) = CallsIn(p)
      BY <2>1, <2>2, SameCalls
    <2>4. RunsAt(s, i) /\ u[i].thread = s[i].thread
      BY <1>1, <1>2 DEF Grounded
    <2>5. QED
      BY <2>3, <2>4 DEF RunsAt, InnermostThread
  <1>5. Grounded(u)
    BY <1>2, <1>4 DEF Grounded
  <1>6. u # <<>> /\ u[Len(u)].thread = s[Len(s)].thread
    BY <1>1, <1>2
  <1>7. QED
    BY <1>2, <1>3, <1>5, <1>6 DEF u

-----------------------------------------------------------------------------
(* The invariant *)

\* Every activation is of a coroutine that was created.
AllCreated(s, st) == \A i \in 1..Len(s) : st[s[i].thread] # "none"

Created ==
  /\ AllCreated(acts, status)
  /\ runningThread \in Threads => status[runningThread] # "none"
  /\ \A t \in Threads : resumeParent[t] \in Threads => status[resumeParent[t]] # "none"
  /\ \A t \in Threads : conts[t] # <<>> => status[t] # "none"

OwnInv == TypeOK /\ MapsAgree /\ Grounded(acts) /\ Created
Inv    == OwnInv /\ M!IInv

LEMMA PushCreated ==
  ASSUME NEW s \in Seq(Activations), NEW st, AllCreated(s, st),
         NEW a \in Activations, st[a.thread] # "none"
  PROVE  AllCreated(Append(s, a), st)
  BY AppendFacts DEF AllCreated

LEMMA FrontCreated ==
  ASSUME NEW s \in Seq(Activations), NEW st, AllCreated(s, st), s # <<>>
  PROVE  AllCreated(Front(s), st)
  <1>1. /\ Len(s) \in Nat \ {0} /\ Len(Front(s)) = Len(s) - 1
        /\ \A i \in 1..(Len(s) - 1) : Front(s)[i] = s[i]
    BY FrontFacts
  <1>2. QED
    BY <1>1 DEF AllCreated

LEMMA RetoldCreated ==
  ASSUME NEW s \in Seq(Activations), NEW st, AllCreated(s, st), s # <<>>, NEW c \in Seq(Saved)
  PROVE  AllCreated([s EXCEPT ![Len(s)].todo = c], st)
  <1> DEFINE u == [s EXCEPT ![Len(s)].todo = c]
             a == [s[Len(s)] EXCEPT !.todo = c]
  <1>1. Len(s) \in Nat \ {0} /\ s[Len(s)] \in Activations
    OBVIOUS
  <1>2. a.thread = s[Len(s)].thread
    BY <1>1 DEF Activations
  <1>3. u = [s EXCEPT ![Len(s)] = a]
    OBVIOUS
  <1> HIDE DEF a, u
  <1>4. Len(u) = Len(s) /\ \A i \in 1..Len(s) : u[i].thread = s[i].thread
    BY <1>1, <1>2, <1>3
  <1>5. QED
    BY <1>4 DEF AllCreated, u

\* What the invariant says of the mapped state.
LEMMA Mapped ==
  ASSUME Inv
  PROVE  /\ CallsIn(acts) \in Seq(M!Calls)
         /\ \A t \in Threads : status[t] = "running" => resumeParent[t] \in Threads \cup {Main}
         /\ signal # "yield" =>
              \A i \in 1..Len(CallsIn(acts)) :
                LET t == CallsIn(acts)[i].thread
                IN  CallsIn(acts)[i].frame = "resume" =>
                      status[t] = "running" /\ resumeParent[t] \in Threads \cup {Main}
  <1>1. M!TypeOK /\ M!ChainLinked /\ M!ChainCovers
    BY DEF Inv, M!IInv, M!ResumeChain
  <1>2. CallsIn(acts) \in Seq(M!Calls)
    BY <1>1 DEF M!TypeOK
  <1>3. \A i \in 1..Len(CallsIn(acts)) : M!ThreadAt(i - 1) \in Threads \cup {Main}
    <2>1. TAKE i \in 1..Len(CallsIn(acts))
    <2>2. CASE i = 1
      BY <2>2 DEF M!ThreadAt
    <2>3. CASE i # 1
      <3>1. i - 1 \in 1..Len(CallsIn(acts)) /\ i - 1 # 0
        BY <2>3, <1>2
      <3>2. CallsIn(acts)[i - 1] \in M!Calls
        BY <1>2, <3>1
      <3>3. QED
        BY <3>1, <3>2 DEF M!ThreadAt, M!Calls
    <2>4. QED
      BY <2>2, <2>3
  <1>4. ASSUME NEW i \in 1..Len(CallsIn(acts)), CallsIn(acts)[i].frame = "resume", M!Active(i)
        PROVE  /\ status[CallsIn(acts)[i].thread] = "running"
               /\ resumeParent[CallsIn(acts)[i].thread] \in Threads \cup {Main}
    BY <1>1, <1>3, <1>4 DEF M!ChainLinked
  <1>5. ASSUME NEW t \in Threads, status[t] = "running"
        PROVE  resumeParent[t] \in Threads \cup {Main}
    <2>1. t \in M!ActiveThreads
      BY <1>1, <1>5 DEF M!ChainCovers
    <2>2. QED
      BY <1>4, <2>1 DEF M!ActiveThreads, M!ResumeIndices
  <1>6. ASSUME signal # "yield", NEW i \in 1..Len(CallsIn(acts)), CallsIn(acts)[i].frame = "resume"
        PROVE  /\ status[CallsIn(acts)[i].thread] = "running"
               /\ resumeParent[CallsIn(acts)[i].thread] \in Threads \cup {Main}
    BY <1>4, <1>6 DEF M!Active
  <1>7. QED
    BY <1>2, <1>5, <1>6

\* The step changes the Go stack where Coroutine does not look.
LEMMA StackStep ==
  ASSUME Inv, UNCHANGED <<threadVars, goCallbackDepth, contVars, entered>>,
         Grounded(acts'), AllCreated(acts', status), CallsIn(acts') = CallsIn(acts),
         signal' \in {"run", "ret", "err", "yield"}, signal' = "yield" <=> signal = "yield"
  PROVE  OwnInv' /\ UNCHANGED C!vars
  <1>1. UNCHANGED <<status, runningThread, resumeParent, yielded, continuationPending,
                    goCallbackDepth, conts, last, entered>>
    BY DEF threadVars, contVars
  <1>2. acts' \in Seq(Activations)
    BY DEF Grounded
  <1>3. TypeOK'
    BY <1>1, <1>2 DEF Inv, OwnInv, TypeOK, Activations
  <1>4. MapsAgree'
    BY <1>1 DEF Inv, OwnInv, MapsAgree
  <1>5. Created'
    BY <1>1 DEF Inv, OwnInv, Created
  <1>6. UNCHANGED C!vars
    BY <1>1 DEF C!vars
  <1>7. QED
    BY <1>3, <1>4, <1>5, <1>6 DEF OwnInv

-----------------------------------------------------------------------------
(* What a running function does *)

LEMMA ActFacts ==
  ASSUME NEW t \in Threads
  PROVE  /\ \A f \in Frames : /\ Act(f, t) \in Activations
                              /\ Act(f, t).frame = f /\ Act(f, t).thread = t
         /\ \A c \in Seq(Saved) : /\ ResumeAct(t, c) \in Activations
                                  /\ ResumeAct(t, c).frame = "resume"
                                  /\ ResumeAct(t, c).thread = t
  BY DEF Act, ResumeAct, Activations, Frames, Saved, Protected

\* A call of a Lua function, of pcall or of xpcall on the thread that is on top.
LEMMA CallsMore ==
  ASSUME NEW s, NEW st, Grounded(s), AllCreated(s, st), s # <<>>,
         NEW t \in Threads, s[Len(s)].thread = t, NEW f \in Saved
  PROVE  LET u == Append(s, Act(f, t))
         IN  /\ Grounded(u) /\ AllCreated(u, st) /\ CallsIn(u) = CallsIn(s)
             /\ u # <<>> /\ u[Len(u)] = Act(f, t) /\ u[Len(u)].thread = t
  <1> DEFINE a == Act(f, t)
             u == Append(s, a)
  <1>1. a \in Activations /\ a.frame = f /\ a.thread = t /\ ~IsCall(a)
    BY ActFacts DEF Frames, Saved, Protected, IsCall
  <1>2. s \in Seq(Activations) /\ Len(s) \in 1..Len(s)
    BY DEF Grounded
  <1> HIDE DEF a
  <1>3. Grounded(u) /\ CallsIn(u) = CallsIn(s)
    BY <1>1, PushPlain
  <1>4. AllCreated(u, st)
    BY <1>1, <1>2, PushCreated DEF AllCreated
  <1>5. u # <<>> /\ u[Len(u)] = a
    BY <1>1, <1>2, AppendFacts
  <1>6. QED
    BY <1>1, <1>3, <1>4, <1>5 DEF a

\* The function or protected call on top is gone.
LEMMA CallsLess ==
  ASSUME NEW s, NEW st, Grounded(s), AllCreated(s, st), s # <<>>,
         s[Len(s)].frame \in Saved
  PROVE  /\ Grounded(Front(s)) /\ AllCreated(Front(s), st) /\ CallsIn(Front(s)) = CallsIn(s)
         /\ Front(s) # <<>> /\ Front(s)[Len(Front(s))].thread = s[Len(s)].thread
  <1>1. ~IsCall(s[Len(s)])
    BY DEF IsCall, Saved, Protected
  <1>2. s \in Seq(Activations)
    BY DEF Grounded
  <1>3. QED
    BY <1>1, <1>2, PopPlain, FrontCreated

LEMMA ConcatFacts ==
  ASSUME NEW Elem, NEW s \in Seq(Elem), NEW a \in Elem, NEW b \in Elem
  PROVE  /\ s \o <<>> = s
         /\ s \o <<a>> = Append(s, a)
         /\ s \o <<a, b>> = Append(Append(s, a), b)
  <1>1. s \o <<>> = s
    BY ConcatEmptySeq
  <1>2. s \o <<a>> = Append(s, a)
    OBVIOUS
  <1>3. s \o <<a, b>> = Append(Append(s, a), b)
    <2> DEFINE u == s \o <<a, b>>
               v == Append(Append(s, a), b)
    <2>1. /\ v \in Seq(Elem) /\ Len(v) = Len(s) + 2 /\ Len(s) \in Nat
          /\ v[Len(s) + 2] = b /\ v[Len(s) + 1] = a
          /\ \A i \in 1..Len(s) : v[i] = s[i]
      OBVIOUS
    <2>2. /\ u \in Seq(Elem) /\ Len(u) = Len(s) + 2
          /\ u[Len(s) + 2] = b /\ u[Len(s) + 1] = a
          /\ \A i \in 1..Len(s) : u[i] = s[i]
      OBVIOUS
    <2> HIDE DEF u, v
    <2>3. \A i \in 1..Len(u) : u[i] = v[i]
      BY <2>1, <2>2
    <2>4. u = v
      BY <2>1, <2>2, <2>3, SeqEqual
    <2>5. QED
      BY <2>4 DEF u, v
  <1>4. QED
    BY <1>1, <1>2, <1>3

LEMMA TopFacts ==
  ASSUME Inv, acts # <<>>
  PROVE  /\ Grounded(acts) /\ AllCreated(acts, status)
         /\ acts \in Seq(Activations) /\ Len(acts) \in 1..Len(acts)
         /\ Top \in Activations /\ Top = acts[Len(acts)]
         /\ Top.thread \in Threads /\ status[Top.thread] # "none"
         /\ Popped = Front(acts) /\ Popped \in Seq(Activations)
  <1>1. Grounded(acts) /\ AllCreated(acts, status) /\ acts \in Seq(Activations)
    BY DEF Inv, OwnInv, Created, Grounded
  <1>2. Len(acts) \in 1..Len(acts) /\ acts[Len(acts)] \in Activations /\ Front(acts) \in Seq(Activations)
    BY <1>1, FrontFacts
  <1>3. QED
    BY <1>1, <1>2 DEF Top, Popped, Front, AllCreated, Activations

LEMMA CallStep ==
  ASSUME Inv, NEW t \in Threads, Call(t)
  PROVE  OwnInv' /\ UNCHANGED C!vars
  <1>1. /\ acts # <<>> /\ Top.thread = t /\ signal = "run"
        /\ UNCHANGED <<threadVars, goCallbackDepth, signal, contVars, entered>>
        /\ \E f \in {<<>>, <<Act("pcall", t)>>, <<Act("xpcall", t)>>} :
             acts' = acts \o f \o <<Act("lua", t)>>
    BY DEF Call, LuaRuns, TopIs
  <1>2. /\ Grounded(acts) /\ AllCreated(acts, status) /\ acts \in Seq(Activations)
        /\ acts[Len(acts)].thread = t
    BY <1>1, TopFacts
  <1>3. ASSUME NEW f \in {"pcall", "xpcall"}
        PROVE  LET u == acts \o <<Act(f, t)>> \o <<Act("lua", t)>>
               IN  Grounded(u) /\ AllCreated(u, status) /\ CallsIn(u) = CallsIn(acts)
    <2> DEFINE u == Append(acts, Act(f, t))
               v == Append(u, Act("lua", t))
    <2>1. f \in Saved /\ "lua" \in Saved
      BY DEF Saved, Protected
    <2>2. /\ Grounded(u) /\ AllCreated(u, status) /\ CallsIn(u) = CallsIn(acts)
          /\ u # <<>> /\ u[Len(u)].thread = t
      BY <1>1, <1>2, <2>1, CallsMore
    <2>3. Act(f, t) \in Activations /\ Act("lua", t) \in Activations /\ u \in Seq(Activations)
      BY <2>1, <2>2, ActFacts DEF Frames, Grounded
    <2>4. acts \o <<Act(f, t)>> \o <<Act("lua", t)>> = v
      BY <1>2, <2>3, ConcatFacts
    <2> HIDE DEF u
    <2>5. Grounded(v) /\ AllCreated(v, status) /\ CallsIn(v) = CallsIn(acts)
      BY <2>1, <2>2, CallsMore
    <2>6. QED
      BY <2>4, <2>5
  <1>4. LET u == acts \o <<>> \o <<Act("lua", t)>>
        IN  Grounded(u) /\ AllCreated(u, status) /\ CallsIn(u) = CallsIn(acts)
    <2>1. "lua" \in Saved /\ Act("lua", t) \in Activations
      BY ActFacts DEF Saved, Frames
    <2>2. acts \o <<>> \o <<Act("lua", t)>> = Append(acts, Act("lua", t))
      BY <1>2, <2>1, ConcatFacts
    <2>3. QED
      BY <1>1, <1>2, <2>1, <2>2, CallsMore
  <1>5. Grounded(acts') /\ AllCreated(acts', status) /\ CallsIn(acts') = CallsIn(acts)
    BY <1>1, <1>3, <1>4
  <1>6. QED
    BY <1>1, <1>5, StackStep

\* A function, a protected call or a handler that ends.
LEMMA PopStep ==
  ASSUME Inv, acts # <<>>, Top.frame \in Saved, acts' = Popped,
         UNCHANGED <<threadVars, goCallbackDepth, contVars, entered>>,
         signal' \in {"run", "ret", "err"}, signal # "yield"
  PROVE  OwnInv' /\ UNCHANGED C!vars
  <1>1. Grounded(acts') /\ AllCreated(acts', status) /\ CallsIn(acts') = CallsIn(acts)
    BY TopFacts, CallsLess
  <1>2. QED
    BY <1>1, StackStep

\* The handler of xpcall takes the place of the call.
LEMMA HandlerStep ==
  ASSUME Inv, NEW t \in Threads, HandlerStarts(t)
  PROVE  OwnInv' /\ UNCHANGED C!vars
  <1>1. /\ acts # <<>> /\ Top.thread = t /\ Top.frame = "xpcall" /\ signal = "err" /\ signal' = "run"
        /\ UNCHANGED <<threadVars, goCallbackDepth, contVars, entered>>
        /\ acts' = Popped \o <<Act("handler", t), Act("lua", t)>>
    BY DEF HandlerStarts, TopIs
  <1>2. "xpcall" \in Saved /\ "handler" \in Saved /\ "lua" \in Saved
    BY DEF Saved, Protected
  <1> DEFINE p == Popped
             u == Append(p, Act("handler", t))
             v == Append(u, Act("lua", t))
  <1>3. /\ Grounded(p) /\ AllCreated(p, status) /\ CallsIn(p) = CallsIn(acts)
        /\ p # <<>> /\ p[Len(p)].thread = t /\ p \in Seq(Activations)
    BY <1>1, <1>2, TopFacts, CallsLess
  <1>4. acts' = v
    <2>1. Act("handler", t) \in Activations /\ Act("lua", t) \in Activations
      BY <1>2, ActFacts DEF Frames
    <2>2. QED
      BY <1>1, <1>3, <2>1, ConcatFacts
  <1> HIDE DEF p
  <1>5. /\ Grounded(u) /\ AllCreated(u, status) /\ CallsIn(u) = CallsIn(acts)
        /\ u # <<>> /\ u[Len(u)].thread = t
    BY <1>2, <1>3, CallsMore
  <1> HIDE DEF u
  <1>6. Grounded(v) /\ AllCreated(v, status) /\ CallsIn(v) = CallsIn(acts)
    BY <1>2, <1>5, CallsMore
  <1>7. QED
    BY <1>1, <1>4, <1>6, StackStep

\* The loop of a resumed coroutine runs its next continuation.
LEMMA LoopStep ==
  ASSUME Inv, NEW t \in Threads, LoopRuns(t)
  PROVE  OwnInv' /\ UNCHANGED C!vars
  <1> DEFINE rest == [acts EXCEPT ![Len(acts)].todo = Tail(@)]
             f == Head(Top.todo)
  <1>1. /\ acts # <<>> /\ Top.thread = t /\ Top.todo # <<>>
        /\ UNCHANGED <<threadVars, goCallbackDepth, contVars, entered>>
        /\ signal \in {"ret", "err"} /\ signal' \in {"run", "ret"}
        /\ acts' \in {Append(rest, Act("lua", t)), rest \o <<Act("handler", t), Act("lua", t)>>, rest}
    BY DEF LoopRuns, TopIs
  <1>2. "handler" \in Saved /\ "lua" \in Saved
    BY DEF Saved, Protected
  <1>3. /\ Grounded(acts) /\ AllCreated(acts, status) /\ acts \in Seq(Activations)
        /\ Top = acts[Len(acts)] /\ Tail(Top.todo) \in Seq(Saved)
    BY <1>1, TopFacts DEF Activations
  <1>4. rest = [acts EXCEPT ![Len(acts)].todo = Tail(Top.todo)]
    BY <1>3
  <1>5. /\ Grounded(rest) /\ CallsIn(rest) = CallsIn(acts) /\ AllCreated(rest, status)
        /\ rest # <<>> /\ rest[Len(rest)].thread = t /\ rest \in Seq(Activations)
    <2> HIDE DEF rest
    <2>1. /\ Grounded(rest) /\ CallsIn(rest) = CallsIn(acts)
          /\ rest # <<>> /\ rest[Len(rest)].thread = t
      BY <1>1, <1>3, <1>4, Retold
    <2>2. AllCreated(rest, status)
      BY <1>1, <1>3, <1>4, RetoldCreated
    <2>3. QED
      BY <2>1, <2>2 DEF Grounded
  <1> HIDE DEF rest
  <1> DEFINE u == Append(rest, Act("handler", t))
             v == Append(u, Act("lua", t))
  <1>6. /\ Grounded(Append(rest, Act("lua", t))) /\ AllCreated(Append(rest, Act("lua", t)), status)
        /\ CallsIn(Append(rest, Act("lua", t))) = CallsIn(acts)
    BY <1>2, <1>5, CallsMore
  <1>7. Grounded(v) /\ AllCreated(v, status) /\ CallsIn(v) = CallsIn(acts)
    <2>1. /\ Grounded(u) /\ AllCreated(u, status) /\ CallsIn(u) = CallsIn(acts)
          /\ u # <<>> /\ u[Len(u)].thread = t
      BY <1>2, <1>5, CallsMore
    <2> HIDE DEF u
    <2>2. QED
      BY <1>2, <2>1, CallsMore
  <1>8. rest \o <<Act("handler", t), Act("lua", t)>> = v
    <2>1. Act("handler", t) \in Activations /\ Act("lua", t) \in Activations
      BY <1>2, ActFacts DEF Frames
    <2>2. QED
      BY <1>5, <2>1, ConcatFacts
  <1> HIDE DEF v
  <1>9. Grounded(acts') /\ AllCreated(acts', status) /\ CallsIn(acts') = CallsIn(acts)
    BY <1>1, <1>5, <1>6, <1>7, <1>8
  <1>10. QED
    BY <1>1, <1>9, StackStep

-----------------------------------------------------------------------------
(* The steps of the coroutine machine *)

LEMMA CreateStep ==
  ASSUME Inv, NEW t \in Threads, Create(t)
  PROVE  OwnInv' /\ C!NewThread(t, "lua")
  <1>1. /\ signal = "run" /\ status[t] = "none" /\ status' = [status EXCEPT ![t] = "suspended"]
        /\ UNCHANGED <<runningThread, resumeParent, yielded, continuationPending,
                       goCallbackDepth, acts, signal, conts, last, entered>>
    BY DEF Create, contVars
  <1>2. TypeOK /\ MapsAgree /\ Grounded(acts) /\ Created
    BY DEF Inv, OwnInv
  <1>3. TypeOK'
    BY <1>1, <1>2 DEF TypeOK
  <1>4. MapsAgree'
    BY <1>1, <1>2 DEF TypeOK, MapsAgree
  <1>5. Created'
    BY <1>1, <1>2 DEF TypeOK, Created, AllCreated
  <1>6. C!NewThread(t, "lua")
    BY <1>1, <1>2 DEF TypeOK, C!NewThread
  <1>7. QED
    BY <1>1, <1>2, <1>3, <1>4, <1>5, <1>6 DEF OwnInv

LEMMA PeekStep ==
  ASSUME Inv, NEW t \in Threads, ResumePeek(t)
  PROVE  OwnInv' /\ C!ResumePeek(t)
  <1>1. /\ signal = "run" /\ status[t] \notin {"none", "dead", "running"}
        /\ yielded[t] /\ ~continuationPending[t]
        /\ yielded' = [yielded EXCEPT ![t] = FALSE]
        /\ status' = [status EXCEPT ![t] = "normal"]
        /\ resumeParent' = [resumeParent EXCEPT ![t] = NoThread]
        /\ UNCHANGED <<runningThread, continuationPending, goCallbackDepth, acts,
                       signal, conts, last, entered>>
    BY DEF ResumePeek, Resumable, contVars
  <1>2. TypeOK /\ MapsAgree /\ Grounded(acts) /\ Created
    BY DEF Inv, OwnInv
  <1>3. TypeOK'
    BY <1>1, <1>2 DEF TypeOK
  <1>4. MapsAgree'
    BY <1>1, <1>2 DEF TypeOK, MapsAgree
  <1>5. Created'
    BY <1>1, <1>2, ThreadAssumption DEF TypeOK, Created, AllCreated
  <1>6. C!ResumePeek(t)
    BY <1>1, <1>2, ThreadAssumption DEF TypeOK, C!ResumePeek, C!Resumable, C!PreviousRunning
  <1>7. QED
    BY <1>1, <1>2, <1>3, <1>4, <1>5, <1>6 DEF OwnInv

LEMMA EnterStep ==
  ASSUME Inv, NEW t \in Threads, ResumeEnter(t)
  PROVE  OwnInv' /\ C!ResumeEnter(t)
  <1>1. /\ signal = "run" /\ status[t] \notin {"none", "dead", "running"}
        /\ ~(yielded[t] /\ ~continuationPending[t])
        /\ status' = [status EXCEPT ![t] = "running"]
        /\ resumeParent' = [resumeParent EXCEPT ![t] = runningThread]
        /\ runningThread' = t
        /\ yielded' = [yielded EXCEPT ![t] = FALSE]
        /\ conts' = [conts EXCEPT ![t] = <<>>]
        /\ last' = IF last = t THEN NoThread ELSE last
        /\ continuationPending' = [continuationPending EXCEPT ![t] = FALSE]
        /\ goCallbackDepth' = goCallbackDepth
    BY DEF ResumeEnter, Resumable, Take
  <1>2. TypeOK /\ MapsAgree /\ Grounded(acts) /\ Created /\ acts \in Seq(Activations)
    BY DEF Inv, OwnInv, Grounded
  <1>3. /\ entered' \subseteq Threads /\ signal' \in {"run", "ret"}
        /\ \/ acts' = acts \o <<ResumeAct(t, <<>>), Act("lua", t)>>
           \/ acts' = Append(acts, ResumeAct(t, conts[t]))
    <2>1. CASE conts[t] = <<>>
      <3>1. /\ acts' = acts \o <<ResumeAct(t, <<>>), Act("lua", t)>>
            /\ entered' = entered \cup {t} /\ signal' = signal
        BY <2>1, Zenon DEF ResumeEnter
      <3>2. entered \subseteq Threads
        BY <1>2 DEF TypeOK
      <3>3. QED
        BY <1>1, <3>1, <3>2
    <2>2. CASE conts[t] # <<>>
      BY <1>1, <1>2, <2>2 DEF ResumeEnter, TypeOK
    <2>3. QED
      BY <2>1, <2>2
  <1>4. \A c \in Seq(Saved) :
          /\ Grounded(Append(acts, ResumeAct(t, c)))
          /\ AllCreated(Append(acts, ResumeAct(t, c)), status)
          /\ CallsIn(Append(acts, ResumeAct(t, c))) = Append(CallsIn(acts), C!Call(t, "resume"))
          /\ Append(acts, ResumeAct(t, c)) # <<>>
          /\ LET u == Append(acts, ResumeAct(t, c)) IN u[Len(u)].thread = t
    <2>1. TAKE c \in Seq(Saved)
    <2> DEFINE a == ResumeAct(t, c)
    <2>2. /\ a \in Activations /\ IsCall(a) /\ a.thread = t
          /\ CallOf(a) = C!Call(t, "resume")
      BY ActFacts DEF IsCall, CallOf, C!Call
    <2>3. CallsIn(acts) \in Seq(M!Calls)
      BY Mapped
    <2> HIDE DEF a
    <2>4. /\ Grounded(Append(acts, a)) /\ AllCreated(Append(acts, a), status)
          /\ CallsIn(Append(acts, a)) = Append(CallsIn(acts), C!Call(t, "resume"))
      BY <1>1, <1>2, <2>2, <2>3, PushCall, PushCreated DEF Created
    <2>5. Append(acts, a) # <<>> /\ Append(acts, a)[Len(Append(acts, a))].thread = t
      BY <1>2, <2>2, AppendFacts
    <2>6. QED
      BY <2>4, <2>5 DEF a
  <1>5. /\ Grounded(acts') /\ AllCreated(acts', status)
        /\ CallsIn(acts') = Append(CallsIn(acts), C!Call(t, "resume"))
    <2>1. conts[t] \in Seq(Saved) /\ <<>> \in Seq(Saved)
      BY <1>2 DEF TypeOK
    <2> DEFINE u == Append(acts, ResumeAct(t, <<>>))
               v == Append(u, Act("lua", t))
    <2>2. Grounded(v) /\ AllCreated(v, status) /\ CallsIn(v) = CallsIn(u)
      <3>1. /\ Grounded(u) /\ AllCreated(u, status) /\ u # <<>> /\ u[Len(u)].thread = t
            /\ "lua" \in Saved
        BY <1>4, <2>1 DEF Saved
      <3> HIDE DEF u
      <3>2. QED
        BY <3>1, CallsMore
    <2>3. acts \o <<ResumeAct(t, <<>>), Act("lua", t)>> = v
      <3>1. ResumeAct(t, <<>>) \in Activations /\ Act("lua", t) \in Activations
        BY <2>1, ActFacts DEF Frames, Saved
      <3>2. QED
        BY <1>2, <3>1, ConcatFacts
    <2>4. CallsIn(u) = Append(CallsIn(acts), C!Call(t, "resume"))
      BY <1>4, <2>1
    <2> HIDE DEF u, v
    <2>5. QED
      BY <1>3, <1>4, <2>1, <2>2, <2>3, <2>4
  <1>6. TypeOK'
    <2>1. acts' \in Seq(Activations)
      BY <1>5 DEF Grounded
    <2>2. /\ status' \in [Threads -> {"none", "suspended", "running", "normal", "dead"}]
          /\ runningThread' \in Threads \cup {Main}
          /\ resumeParent' \in [Threads -> Threads \cup {Main, NoThread}]
          /\ yielded' \in [Threads -> BOOLEAN]
          /\ continuationPending' \in [Threads -> BOOLEAN]
          /\ goCallbackDepth' \in 0..MaxBoundaries
      BY <1>1, <1>2 DEF TypeOK
    <2>3. conts' \in [Threads -> Seq(Saved)] /\ last' \in Threads \cup {NoThread}
      BY <1>1, <1>2 DEF TypeOK
    <2>4. QED
      BY <1>3, <2>1, <2>2, <2>3 DEF TypeOK, Activations
  <1>7. MapsAgree'
    BY <1>1, <1>2 DEF TypeOK, MapsAgree
  <1>8. Created'
    <2>1. AllCreated(acts', status')
      BY <1>1, <1>2, <1>5 DEF TypeOK, AllCreated
    <2>2. QED
      BY <1>1, <1>2, <2>1, ThreadAssumption DEF TypeOK, Created
  <1>9. C!ResumeEnter(t)
    <2>1. IF signal' = "yield" THEN signal = "yield" ELSE signal # "yield"
      BY <1>1, <1>3
    <2>2. runningThread \in Threads \cup {Main} /\ runningThread # NoThread
      BY <1>2, ThreadAssumption DEF TypeOK
    <2> DEFINE kindOf(st) == [u \in Threads |-> IF st[u] = "none" THEN "none" ELSE "lua"]
               stored(st) == [u \in Threads |-> IF st[u] = "none" THEN "suspended" ELSE st[u]]
    <2>3. /\ kindOf(status)[t] = "lua" /\ stored(status)[t] = status[t]
          /\ kindOf(status') = kindOf(status)
          /\ stored(status') = [stored(status) EXCEPT ![t] = "running"]
      BY <1>1, <1>2 DEF TypeOK
    <2>4. /\ yielded' = [yielded EXCEPT ![t] = @ /\ kindOf(status)[t] = "go"]
          /\ continuationPending' = [continuationPending EXCEPT ![t] = @ /\ kindOf(status)[t] = "go"]
      <3> HIDE DEF kindOf
      <3>1. \A p : (p /\ kindOf(status)[t] = "go") = FALSE
        BY <2>3
      <3>2. QED
        BY <1>1, <3>1
    <2>5. goCallbackDepth' = goCallbackDepth + (IF kindOf(status)[t] = "go" THEN 1 ELSE 0)
      BY <1>1, <1>2, <2>3 DEF TypeOK
    <2>6. QED
      BY <1>1, <1>5, <2>1, <2>2, <2>3, <2>4, <2>5
      DEF C!ResumeEnter, C!Resumable, C!PreviousRunning
  <1>10. QED
    BY <1>5, <1>6, <1>7, <1>8, <1>9 DEF OwnInv

LEMMA SameCount ==
  ASSUME NEW Elem
  PROVE  C!Cardinality(Elem) = Cardinality(Elem) /\ M!Cardinality(Elem) = Cardinality(Elem)
  BY DEF C!Cardinality, M!Cardinality, Cardinality

\* The depth counter is the number of library calls on the Go stack.
CallbackIndices(v) == {i \in 1..Len(v) : v[i].frame = "callback"}

LEMMA Balanced ==
  ASSUME Inv
  PROVE  /\ goCallbackDepth = Cardinality(CallbackIndices(CallsIn(acts)))
         /\ goCallbackDepth = 0 <=> CallbackIndices(CallsIn(acts)) = {}
  <1> DEFINE v == CallsIn(acts)
  <1>1. /\ M!TypeOK /\ M!ChainLinked /\ M!BoundaryBalanced
    BY DEF Inv, M!IInv, M!ResumeChain
  <1>2. v \in Seq(M!Calls)
    BY Mapped
  <1>3. M!Blocking = CallbackIndices(v)
    <2>1. \A i \in 1..Len(v) : v[i].frame = "callback" \/ v[i].frame = "resume"
      <3>1. \A i \in 1..Len(v) : v[i] \in M!Calls
        BY <1>2
      <3>2. QED
        BY <3>1 DEF M!Calls
    <2>2. \A i \in 1..Len(v) : v[i].frame = "resume" => v[i].thread \in Threads
      BY <1>1 DEF M!ChainLinked
    <2> HIDE DEF v
    <2>3. \A i \in 1..Len(v) : v[i].frame = "resume" =>
             [t \in Threads |-> IF status[t] = "none" THEN "none" ELSE "lua"][v[i].thread] # "go"
      BY <2>2
    <2>4. QED
      BY <2>1, <2>3 DEF M!Blocking, CallbackIndices, v
  <1>4. IsFiniteSet(CallbackIndices(v))
    <2>1. IsFiniteSet(1..Len(v)) /\ CallbackIndices(v) \subseteq 1..Len(v)
      BY <1>2, FS_Interval DEF CallbackIndices
    <2>2. QED
      BY <2>1, FS_Subset
  <1>5. Cardinality(CallbackIndices(v)) = 0 <=> CallbackIndices(v) = {}
    BY <1>4, FS_EmptySet
  <1>6. goCallbackDepth = Cardinality(CallbackIndices(v))
    BY <1>1, <1>3, SameCount DEF M!BoundaryBalanced
  <1>7. QED
    BY <1>5, <1>6

LEMMA LibraryStep ==
  ASSUME Inv, NEW t \in Threads, CallFromLibrary(t)
  PROVE  OwnInv' /\ C!EnterGoCallback
  <1>1. /\ acts # <<>> /\ Top.thread = t /\ signal = "run"
        /\ goCallbackDepth < MaxBoundaries /\ goCallbackDepth' = goCallbackDepth + 1
        /\ UNCHANGED <<status, runningThread, resumeParent, yielded, continuationPending,
                       signal, conts, last, entered>>
        /\ acts' = acts \o <<Act("callback", t), Act("lua", t)>>
    BY DEF CallFromLibrary, LuaRuns, TopIs, threadVars, contVars
  <1>2. TypeOK /\ MapsAgree /\ Grounded(acts) /\ Created /\ acts \in Seq(Activations)
    BY DEF Inv, OwnInv, Grounded
  <1> DEFINE u == Append(acts, Act("callback", t))
             v == Append(u, Act("lua", t))
  <1>3. /\ Grounded(u) /\ AllCreated(u, status) /\ u # <<>> /\ u[Len(u)].thread = t
        /\ CallsIn(u) = Append(CallsIn(acts), C!Call(t, "callback"))
    <2> DEFINE a == Act("callback", t)
    <2>1. /\ a \in Activations /\ IsCall(a) /\ a.thread = t
          /\ CallOf(a) = C!Call(t, "callback")
      BY ActFacts DEF IsCall, CallOf, C!Call, Frames
    <2>2. CallsIn(acts) \in Seq(M!Calls) /\ status[t] # "none"
      BY <1>1, Mapped, TopFacts
    <2> HIDE DEF a
    <2>3. /\ Grounded(Append(acts, a)) /\ AllCreated(Append(acts, a), status)
          /\ CallsIn(Append(acts, a)) = Append(CallsIn(acts), C!Call(t, "callback"))
      BY <1>2, <2>1, <2>2, PushCall, PushCreated DEF Created
    <2>4. Append(acts, a) # <<>> /\ Append(acts, a)[Len(Append(acts, a))].thread = t
      BY <1>2, <2>1, AppendFacts
    <2>5. QED
      BY <2>3, <2>4 DEF a
  <1>4. acts' = v
    <2>1. Act("callback", t) \in Activations /\ Act("lua", t) \in Activations
      BY ActFacts DEF Frames, Saved
    <2>2. QED
      BY <1>1, <1>2, <2>1, ConcatFacts
  <1> HIDE DEF u
  <1>5. Grounded(v) /\ AllCreated(v, status) /\ CallsIn(v) = CallsIn(u)
    <2>1. "lua" \in Saved
      BY DEF Saved
    <2>2. QED
      BY <1>3, <2>1, CallsMore
  <1> HIDE DEF v
  <1>6. /\ Grounded(acts') /\ AllCreated(acts', status)
        /\ CallsIn(acts') = Append(CallsIn(acts), C!Call(t, "callback"))
    BY <1>3, <1>4, <1>5
  <1>7. TypeOK'
    <2>1. acts' \in Seq(Activations)
      BY <1>6 DEF Grounded
    <2>2. goCallbackDepth' \in 0..MaxBoundaries
      BY <1>1, <1>2, BoundAssumption DEF TypeOK
    <2>3. QED
      BY <1>1, <1>2, <2>1, <2>2 DEF TypeOK, Activations
  <1>8. MapsAgree' /\ Created'
    BY <1>1, <1>2, <1>6 DEF MapsAgree, Created
  <1>9. C!EnterGoCallback
    <2>1. C!Current = t
      <3>1. /\ CallsIn(acts) # <<>> /\ CallsIn(acts)[Len(CallsIn(acts))].thread = t
            /\ CallsIn(acts) \in Seq(M!Calls)
        BY <1>1, <1>2, TopRuns, Mapped DEF Top, InnermostThread
      <3>2. Len(CallsIn(acts)) # 0
        BY <3>1
      <3>3. QED
        BY <3>1, <3>2 DEF C!Current, C!ThreadAt
    <2>2. C!Cardinality({i \in 1..Len(CallsIn(acts)) : CallsIn(acts)[i].frame = "callback"}) < MaxBoundaries
      BY <1>1, Balanced, SameCount DEF CallbackIndices
    <2>3. CallsIn(acts') = Append(CallsIn(acts), C!Call(C!Current, "callback"))
      BY <1>6, <2>1
    <2>4. UNCHANGED C!threadVars
      BY <1>1 DEF C!threadVars
    <2>5. QED
      BY <1>1, <2>2, <2>3, <2>4 DEF C!EnterGoCallback
  <1>10. QED
    BY <1>6, <1>7, <1>8, <1>9 DEF OwnInv

LEMMA CallbackStep ==
  ASSUME Inv, NEW t \in Threads, CallbackEnds(t)
  PROVE  OwnInv' /\ C!LeaveGoCallback
  <1>1. /\ acts # <<>> /\ Top.frame = "callback" /\ signal \in {"ret", "err"}
        /\ goCallbackDepth' = goCallbackDepth - 1 /\ acts' = Popped
        /\ UNCHANGED <<status, runningThread, resumeParent, yielded, continuationPending,
                       signal, conts, last, entered>>
    BY DEF CallbackEnds, TopIs, threadVars, contVars
  <1>2. TypeOK /\ MapsAgree /\ Grounded(acts) /\ Created /\ acts \in Seq(Activations)
    BY DEF Inv, OwnInv, Grounded
  <1>3. CallsIn(acts) \in Seq(M!Calls)
    BY Mapped
  <1>4. /\ Grounded(acts') /\ AllCreated(acts', status) /\ CallsIn(acts) # <<>>
        /\ CallsIn(acts)[Len(CallsIn(acts))].frame = "callback"
        /\ CallsIn(acts') = SubSeq(CallsIn(acts), 1, Len(CallsIn(acts)) - 1)
    <2>1. IsCall(acts[Len(acts)])
      BY <1>1, TopFacts DEF IsCall
    <2>2. /\ Grounded(Front(acts)) /\ CallsIn(acts) # <<>>
          /\ CallsIn(acts)[Len(CallsIn(acts))] = CallOf(acts[Len(acts)])
          /\ CallsIn(Front(acts)) = SubSeq(CallsIn(acts), 1, Len(CallsIn(acts)) - 1)
      BY <1>1, <1>2, <1>3, <2>1, PopCall
    <2>3. AllCreated(Front(acts), status)
      BY <1>1, <1>2, FrontCreated DEF Created
    <2>4. acts' = Front(acts) /\ acts[Len(acts)].frame = "callback"
      BY <1>1, TopFacts
    <2>5. QED
      BY <2>2, <2>3, <2>4 DEF CallOf
  <1>5. Len(CallsIn(acts)) > 0 /\ Len(CallsIn(acts)) \in CallbackIndices(CallsIn(acts))
    BY <1>3, <1>4 DEF CallbackIndices
  <1>6. goCallbackDepth \in 1..MaxBoundaries
    BY <1>2, <1>5, Balanced, BoundAssumption DEF TypeOK
  <1>7. TypeOK'
    <2>1. acts' \in Seq(Activations)
      BY <1>4 DEF Grounded
    <2>2. goCallbackDepth' \in 0..MaxBoundaries
      BY <1>1, <1>6, BoundAssumption
    <2>3. QED
      BY <1>1, <1>2, <2>1, <2>2 DEF TypeOK, Activations
  <1>8. MapsAgree' /\ Created'
    BY <1>1, <1>2, <1>4 DEF MapsAgree, Created
  <1>9. C!LeaveGoCallback
    <2>1. C!ExitGoCallback
      BY <1>1, <1>6 DEF C!ExitGoCallback
    <2>2. QED
      BY <1>1, <1>4, <1>5, <2>1 DEF C!LeaveGoCallback, C!Pop, C!threadVars
  <1>10. QED
    BY <1>4, <1>7, <1>8, <1>9 DEF OwnInv

\* coroutine.yield, called by a function, in its tail position or by pcall.
LEMMA YieldStep ==
  ASSUME Inv, NEW t \in Threads, Yield(t)
  PROVE  OwnInv' /\ C!Yield(t)
  <1>1. /\ acts # <<>> /\ Top.frame = "lua" /\ Top.thread = t /\ signal = "run" /\ signal' = "yield"
        /\ goCallbackDepth = 0 /\ status[t] = "running" /\ runningThread = t
        /\ \E values \in BOOLEAN : yielded' = [yielded EXCEPT ![t] = values]
        /\ status' = [status EXCEPT ![t] = "suspended"]
        /\ runningThread' = resumeParent[t]
        /\ UNCHANGED <<resumeParent, continuationPending, goCallbackDepth, conts, last, entered>>
        /\ \/ acts' = acts \/ acts' = Popped
           \/ acts' = Append(acts, Act("pcall", t)) \/ acts' = Append(acts, Act("xpcall", t))
    BY DEF Yield, LuaRuns, TopIs, contVars
  <1>2. TypeOK /\ MapsAgree /\ Grounded(acts) /\ Created
    BY DEF Inv, OwnInv
  <1>3. resumeParent[t] \in Threads \cup {Main}
    BY <1>1, Mapped
  <1>4. Grounded(acts') /\ AllCreated(acts', status) /\ CallsIn(acts') = CallsIn(acts)
    <2>1. /\ "lua" \in Saved /\ "pcall" \in Saved /\ "xpcall" \in Saved
          /\ AllCreated(acts, status) /\ acts[Len(acts)].thread = t
          /\ acts[Len(acts)].frame = "lua" /\ Popped = Front(acts)
      BY <1>1, TopFacts DEF Saved, Protected
    <2>2. CASE acts' = acts
      BY <1>2, <2>1, <2>2
    <2>3. CASE acts' = Popped
      BY <1>1, <1>2, <2>1, <2>3, CallsLess
    <2>4. ASSUME NEW f \in {"pcall", "xpcall"}, acts' = Append(acts, Act(f, t))
          PROVE  Grounded(acts') /\ AllCreated(acts', status) /\ CallsIn(acts') = CallsIn(acts)
      <3>1. f \in Saved
        BY <2>1
      <3>2. QED
        BY <1>1, <1>2, <2>1, <2>4, <3>1, CallsMore
    <2>5. QED
      BY <1>1, <2>2, <2>3, <2>4
  <1>5. TypeOK'
    <2>1. acts' \in Seq(Activations)
      BY <1>4 DEF Grounded
    <2>2. QED
      BY <1>1, <1>2, <1>3, <2>1 DEF TypeOK, Activations
  <1>6. MapsAgree'
    BY <1>1, <1>2 DEF TypeOK, MapsAgree
  <1>7. Created'
    BY <1>1, <1>2, <1>4 DEF TypeOK, Created, AllCreated
  <1>8. C!Yield(t)
    <2>1. C!ResumeParentOrMain(t) = resumeParent[t]
      BY <1>3, ThreadAssumption DEF C!ResumeParentOrMain
    <2>2. C!YieldAllowed(t)
      BY <1>1, <1>2 DEF TypeOK, C!YieldAllowed
    <2>3. QED
      BY <1>1, <1>2, <1>4, <2>1, <2>2 DEF TypeOK, C!Yield
  <1>9. QED
    BY <1>4, <1>5, <1>6, <1>7, <1>8 DEF OwnInv

-----------------------------------------------------------------------------
(* The ends of Resume *)

\* The call of Resume that is on top of the Go stack is on top for Coroutine.
LEMMA ResumeOnTop ==
  ASSUME Inv, NEW t \in Threads, acts # <<>>, Top.frame = "resume", Top.thread = t
  PROVE  /\ C!AtResume(t)
         /\ Grounded(Popped) /\ AllCreated(Popped, status)
         /\ CallsIn(Popped) = C!Pop
         /\ signal # "yield" => resumeParent[t] \in Threads \cup {Main}
  <1>1. /\ Grounded(acts) /\ AllCreated(acts, status) /\ acts \in Seq(Activations)
        /\ IsCall(acts[Len(acts)]) /\ CallOf(acts[Len(acts)]) = C!Call(t, "resume")
        /\ Popped = Front(acts)
    BY TopFacts DEF IsCall, CallOf, C!Call
  <1>2. CallsIn(acts) \in Seq(M!Calls)
    BY Mapped
  <1>3. /\ Grounded(Front(acts)) /\ CallsIn(acts) # <<>>
        /\ CallsIn(acts)[Len(CallsIn(acts))] = C!Call(t, "resume")
        /\ CallsIn(Front(acts)) = SubSeq(CallsIn(acts), 1, Len(CallsIn(acts)) - 1)
    BY <1>1, <1>2, PopCall
  <1>4. Len(CallsIn(acts)) > 0 /\ Len(CallsIn(acts)) \in 1..Len(CallsIn(acts))
    BY <1>2, <1>3
  <1>5. AllCreated(Front(acts), status)
    BY <1>1, FrontCreated
  <1>6. signal # "yield" => resumeParent[t] \in Threads \cup {Main}
    BY <1>3, <1>4, Mapped DEF C!Call
  <1>7. QED
    BY <1>1, <1>3, <1>4, <1>5, <1>6 DEF C!AtResume, C!Pop

\* What a finished Resume does is what Coroutine does, on the State's side too.
LEMMA FinishedStep ==
  ASSUME Inv, NEW t \in Threads, acts # <<>>, Top.frame = "resume", Top.thread = t,
         signal # "yield", signal' # "yield", signal' \in {"ret", "err"}, Finished(t),
         continuationPending' = continuationPending \/
           continuationPending' = [continuationPending EXCEPT ![t] = FALSE],
         UNCHANGED <<yielded, goCallbackDepth, conts, last, entered>>
  PROVE  /\ OwnInv' /\ C!AtResume(t) /\ C!ResumeFinish(t)
         /\ UNCHANGED [u \in Threads |-> IF status[u] = "none" THEN "none" ELSE "lua"]
         /\ [u \in Threads |-> IF status[u] = "none" THEN "none" ELSE "lua"][t] = "lua"
  <1>1. TypeOK /\ MapsAgree /\ Created
    BY DEF Inv, OwnInv
  <1>2. /\ C!AtResume(t) /\ Grounded(Popped) /\ AllCreated(Popped, status)
        /\ CallsIn(Popped) = C!Pop
        /\ resumeParent[t] \in Threads \cup {Main} /\ status[t] # "none"
    BY ResumeOnTop, TopFacts
  <1>3. /\ status' = [status EXCEPT ![t] = "dead"] /\ runningThread' = resumeParent[t]
        /\ resumeParent' = [resumeParent EXCEPT ![t] = NoThread] /\ acts' = Popped
    BY DEF Finished
  <1>4. TypeOK'
    <2>1. acts' \in Seq(Activations)
      BY <1>2, <1>3 DEF Grounded
    <2>2. QED
      BY <1>1, <1>2, <1>3, <2>1 DEF TypeOK, Activations
  <1>5. MapsAgree'
    BY <1>1, <1>3 DEF TypeOK, MapsAgree
  <1>6. Created'
    <2>1. AllCreated(acts', status')
      BY <1>1, <1>2, <1>3 DEF TypeOK, AllCreated
    <2>2. QED
      BY <1>1, <1>2, <1>3, <2>1, ThreadAssumption DEF TypeOK, Created
  <1>7. /\ UNCHANGED [u \in Threads |-> IF status[u] = "none" THEN "none" ELSE "lua"]
        /\ [u \in Threads |-> IF status[u] = "none" THEN "none" ELSE "lua"][t] = "lua"
    BY <1>1, <1>2, <1>3 DEF TypeOK
  <1>8. C!ResumeFinish(t)
    <2>1. C!ResumeParentOrMain(t) = resumeParent[t]
      BY <1>2, ThreadAssumption DEF C!ResumeParentOrMain
    <2>2. CallsIn(acts') = C!Pop
      BY <1>2, <1>3
    <2>3. [u \in Threads |-> IF status[u] = "none" THEN "suspended" ELSE status[u]]'
            = [[u \in Threads |-> IF status[u] = "none" THEN "suspended" ELSE status[u]]
                 EXCEPT ![t] = "dead"]
      BY <1>1, <1>3 DEF TypeOK
    <2>4. QED
      BY <1>3, <1>7, <2>1, <2>2, <2>3 DEF C!ResumeFinish
  <1>9. QED
    BY <1>2, <1>3, <1>4, <1>5, <1>6, <1>7, <1>8 DEF OwnInv

LEMMA ReturnedStep ==
  ASSUME Inv, NEW t \in Threads, ResumeReturned(t)
  PROVE  OwnInv' /\ C!ResumeReturned(t)
  <1>1. /\ acts # <<>> /\ Top.frame = "resume" /\ Top.thread = t /\ signal = "ret" /\ signal' = "ret"
        /\ Finished(t) /\ continuationPending' = [continuationPending EXCEPT ![t] = FALSE]
        /\ UNCHANGED <<yielded, goCallbackDepth, conts, last, entered>>
    BY DEF ResumeReturned, TopIs, ResumeAct, contVars
  <1>2. /\ OwnInv' /\ C!AtResume(t) /\ C!ResumeFinish(t)
        /\ UNCHANGED [u \in Threads |-> IF status[u] = "none" THEN "none" ELSE "lua"]
        /\ [u \in Threads |-> IF status[u] = "none" THEN "none" ELSE "lua"][t] = "lua"
    BY <1>1, FinishedStep
  <1>3. QED
    BY <1>1, <1>2 DEF C!ResumeReturned

LEMMA FailedStep ==
  ASSUME Inv, NEW t \in Threads, ResumeFailed(t)
  PROVE  OwnInv' /\ C!ResumeFailed(t)
  <1>1. /\ acts # <<>> /\ Top.frame = "resume" /\ Top.thread = t
        /\ signal = "err" /\ signal' \in {"ret", "err"} /\ Finished(t)
        /\ UNCHANGED <<yielded, continuationPending, goCallbackDepth, conts, last, entered>>
    BY DEF ResumeFailed, TopIs, contVars
  <1>2. /\ OwnInv' /\ C!AtResume(t) /\ C!ResumeFinish(t)
        /\ UNCHANGED [u \in Threads |-> IF status[u] = "none" THEN "none" ELSE "lua"]
    BY <1>1, FinishedStep
  <1>3. QED
    BY <1>1, <1>2 DEF C!ResumeFailed

LEMMA YieldedStep ==
  ASSUME Inv, NEW t \in Threads, ResumeYielded(t)
  PROVE  OwnInv' /\ C!ResumeYielded(t)
  <1>1. /\ acts # <<>> /\ Top.frame = "resume" /\ Top.thread = t
        /\ signal = "yield" /\ signal' = "ret" /\ acts' = Popped
        /\ UNCHANGED <<status, runningThread, resumeParent, yielded, continuationPending,
                       goCallbackDepth, conts, last, entered>>
    BY DEF ResumeYielded, TopIs, ResumeAct, contVars, threadVars
  <1>2. TypeOK /\ MapsAgree /\ Created
    BY DEF Inv, OwnInv
  <1>3. /\ C!AtResume(t) /\ Grounded(acts') /\ AllCreated(acts', status) /\ CallsIn(acts') = C!Pop
    BY <1>1, ResumeOnTop
  <1>4. TypeOK'
    <2>1. acts' \in Seq(Activations)
      BY <1>3 DEF Grounded
    <2>2. QED
      BY <1>1, <1>2, <2>1 DEF TypeOK, Activations
  <1>5. MapsAgree' /\ Created'
    BY <1>1, <1>2, <1>3 DEF MapsAgree, Created
  <1>6. C!ResumeYielded(t)
    BY <1>1, <1>3 DEF C!ResumeYielded, C!threadVars
  <1>7. QED
    BY <1>3, <1>4, <1>5, <1>6 DEF OwnInv

-----------------------------------------------------------------------------
(* Continuations that are saved while a yield unwinds *)

\* Saving marks a coroutine, and only takes functions off the Go stack.
LEMMA SaveStep ==
  ASSUME Inv, NEW t \in Threads, status[t] # "none", signal = "yield", signal' = "yield",
         UNCHANGED <<status, runningThread, resumeParent, yielded, goCallbackDepth, entered>>,
         NEW c \in Seq(Saved), c # <<>>,
         conts' = [conts EXCEPT ![t] = c], last' = t,
         continuationPending' = [continuationPending EXCEPT ![t] = TRUE],
         Grounded(acts'), AllCreated(acts', status), CallsIn(acts') = CallsIn(acts)
  PROVE  OwnInv' /\ C!MarkContinuationPending(t)
  <1>1. TypeOK /\ MapsAgree /\ Created
    BY DEF Inv, OwnInv
  <1>2. TypeOK'
    <2>1. acts' \in Seq(Activations)
      BY DEF Grounded
    <2>2. QED
      BY <1>1, <2>1 DEF TypeOK, Activations
  <1>3. MapsAgree'
    BY <1>1 DEF TypeOK, MapsAgree
  <1>4. Created'
    BY <1>1 DEF TypeOK, Created
  <1>5. C!MarkContinuationPending(t)
    BY <1>1 DEF TypeOK, C!MarkContinuationPending
  <1>6. QED
    BY <1>2, <1>3, <1>4, <1>5 DEF OwnInv

LEMMA LuaSavesStep ==
  ASSUME Inv, NEW t \in Threads, LuaSaves(t)
  PROVE  OwnInv' /\ C!MarkContinuationPending(t)
  <1>1. /\ acts # <<>> /\ Top.frame = "lua" /\ Top.thread = t
        /\ signal = "yield" /\ signal' = "yield" /\ acts' = Popped
        /\ UNCHANGED <<status, runningThread, resumeParent, yielded, goCallbackDepth, entered>>
        /\ conts' = [conts EXCEPT ![t] = Append(@, "lua")] /\ last' = t
        /\ continuationPending' = [continuationPending EXCEPT ![t] = TRUE]
    BY DEF LuaSaves, TopIs, Save
  <1>2. /\ Append(conts[t], "lua") \in Seq(Saved) /\ Append(conts[t], "lua") # <<>>
        /\ conts' = [conts EXCEPT ![t] = Append(conts[t], "lua")]
    <2>1. conts[t] \in Seq(Saved) /\ "lua" \in Saved
      BY DEF Inv, OwnInv, TypeOK, Saved
    <2>2. QED
      BY <1>1, <2>1, AppendFacts
  <1>3. /\ Grounded(acts') /\ AllCreated(acts', status) /\ CallsIn(acts') = CallsIn(acts)
        /\ status[t] # "none"
    BY <1>1, TopFacts, CallsLess DEF Saved
  <1>4. QED
    BY <1>1, <1>2, <1>3, SaveStep

LEMMA ProtectedSavesStep ==
  ASSUME Inv, NEW t \in Threads, ProtectedSaves(t)
  PROVE  /\ OwnInv'
         /\ (\E u \in Threads : C!MarkContinuationPending(u)) \/ UNCHANGED C!vars
  <1>1. /\ acts # <<>> /\ Top.frame \in Protected /\ Top.frame \in Saved
        /\ signal = "yield" /\ signal' = "yield" /\ acts' = Popped
        /\ UNCHANGED <<status, runningThread, resumeParent, yielded, goCallbackDepth, entered>>
    BY DEF ProtectedSaves, Saved
  <1>2. /\ Grounded(acts') /\ AllCreated(acts', status) /\ CallsIn(acts') = CallsIn(acts)
    BY <1>1, TopFacts, CallsLess
  <1>3. CASE ProtectedThreads = {}
    <2>1. UNCHANGED <<conts, last, continuationPending>>
      BY <1>3 DEF ProtectedSaves, contVars
    <2>2. QED
      BY <1>1, <1>2, <2>1, StackStep DEF threadVars, contVars
  <1>4. CASE ProtectedThreads # {}
    <2>1. PICK u \in ProtectedThreads : Save(u, Top.frame)
      BY <1>4 DEF ProtectedSaves
    <2>2. u \in Threads /\ status[u] # "none"
      BY DEF ProtectedThreads, PendingThreads, Inv, OwnInv, TypeOK, MapsAgree, Created
    <2>3. /\ Append(conts[u], Top.frame) \in Seq(Saved) /\ Append(conts[u], Top.frame) # <<>>
          /\ conts' = [conts EXCEPT ![u] = Append(conts[u], Top.frame)] /\ last' = u
          /\ continuationPending' = [continuationPending EXCEPT ![u] = TRUE]
      <3>1. conts[u] \in Seq(Saved)
        BY <2>2 DEF Inv, OwnInv, TypeOK
      <3>2. QED
        BY <1>1, <2>1, <3>1, AppendFacts DEF Save
    <2>4. QED
      BY <1>1, <1>2, <2>2, <2>3, SaveStep
  <1>5. QED
    BY <1>3, <1>4

LEMMA AppendParentStep ==
  ASSUME Inv, NEW t \in Threads, AppendParent(t)
  PROVE  OwnInv' /\ C!MarkContinuationPending(t)
  <1> DEFINE rest == [acts EXCEPT ![Len(acts)].todo = <<>>]
  <1>1. /\ acts # <<>> /\ Top.thread = t /\ Top.todo # <<>> /\ acts' = rest
        /\ signal = "yield" /\ signal' = "yield"
        /\ UNCHANGED <<status, runningThread, resumeParent, yielded, goCallbackDepth, entered>>
        /\ conts' = [conts EXCEPT ![t] = @ \o Top.todo] /\ last' = t
        /\ continuationPending' = [continuationPending EXCEPT ![t] = TRUE]
    BY DEF AppendParent, TopIs
  <1>2. /\ Grounded(acts) /\ AllCreated(acts, status) /\ acts \in Seq(Activations)
        /\ status[t] # "none" /\ Top.todo \in Seq(Saved) /\ conts \in [Threads -> Seq(Saved)]
    BY <1>1, TopFacts DEF Activations, Inv, OwnInv, TypeOK
  <1> DEFINE c == conts[t] \o Top.todo
  <1>3. c \in Seq(Saved) /\ c # <<>> /\ conts' = [conts EXCEPT ![t] = c]
    <2>1. conts[t] \in Seq(Saved) /\ c \in Seq(Saved)
      BY <1>2
    <2>2. Len(c) = Len(conts[t]) + Len(Top.todo) /\ Len(conts[t]) >= 0 /\ Len(Top.todo) > 0
      BY <1>1, <1>2, <2>1
    <2>3. c # <<>>
      BY <2>1, <2>2
    <2>4. QED
      BY <1>1, <2>1, <2>3
  <1>4. Grounded(rest) /\ CallsIn(rest) = CallsIn(acts) /\ AllCreated(rest, status)
    <2>1. <<>> \in Seq(Saved)
      OBVIOUS
    <2>2. QED
      BY <1>1, <1>2, <2>1, Retold, RetoldCreated
  <1> HIDE DEF c, rest
  <1>5. QED
    BY <1>1, <1>2, <1>3, <1>4, SaveStep

-----------------------------------------------------------------------------
(* The theorems *)

LEMMA OwnInit == Init => OwnInv /\ C!Init
  <1> SUFFICES ASSUME Init PROVE OwnInv /\ C!Init
    OBVIOUS
  <1>1. acts = <<>> /\ acts \in Seq(Activations) /\ Len(acts) = 0
    BY DEF Init
  <1>2. CallsIn(acts) = <<>>
    BY <1>1, NoCalls
  <1>3. TypeOK
    BY <1>1, BoundAssumption DEF Init, TypeOK, Activations
  <1>4. MapsAgree /\ Grounded(acts) /\ Created
    BY <1>1, ThreadAssumption DEF Init, MapsAgree, Grounded, Created, AllCreated
  <1>5. C!Init
    BY <1>2 DEF Init, C!Init
  <1>6. QED
    BY <1>3, <1>4, <1>5 DEF OwnInv

\* Every step of Continuation is a step of Coroutine, or one that Coroutine
\* does not see.
LEMMA StepMaps ==
  ASSUME Inv, [Next]_vars
  PROVE  OwnInv' /\ [C!Next]_(C!vars)
  <1>1. ASSUME NEW t \in Threads, Program(t) PROVE OwnInv' /\ [C!Next]_(C!vars)
    <2>1. CASE Create(t)
      BY <2>1, CreateStep DEF C!Next, C!Kinds
    <2>2. CASE Call(t)
      BY <2>2, CallStep
    <2>3. CASE CallFromLibrary(t)
      BY <2>3, LibraryStep DEF C!Next
    <2>4. CASE Return(t) \/ Fail(t)
      <3>1. /\ acts # <<>> /\ Top.frame \in Saved /\ acts' = Popped
            /\ UNCHANGED <<threadVars, goCallbackDepth, contVars, entered>>
            /\ signal' \in {"run", "ret", "err"} /\ signal # "yield"
        BY <2>4 DEF Return, Fail, LuaRuns, TopIs, Saved
      <3>2. QED
        BY <3>1, PopStep
    <2>5. CASE Yield(t)
      BY <2>5, YieldStep DEF C!Next
    <2>6. QED
      BY <1>1, <2>1, <2>2, <2>3, <2>4, <2>5 DEF Program
  <1>2. ASSUME NEW t \in Threads, ThreadResume(t) PROVE OwnInv' /\ [C!Next]_(C!vars)
    <2>1. CASE ResumePeek(t)
      BY <2>1, PeekStep DEF C!Next
    <2>2. CASE ResumeEnter(t)
      BY <2>2, EnterStep DEF C!Next
    <2>3. CASE ResumeReturned(t)
      BY <2>3, ReturnedStep DEF C!Next
    <2>4. CASE ResumeFailed(t)
      BY <2>4, FailedStep DEF C!Next
    <2>5. CASE ResumeYielded(t)
      BY <2>5, YieldedStep DEF C!Next
    <2>6. QED
      BY <1>2, <2>1, <2>2, <2>3, <2>4, <2>5 DEF ThreadResume
  <1>3. ASSUME NEW t \in Threads, Executor(t) PROVE OwnInv' /\ [C!Next]_(C!vars)
    <2>1. CASE LoopRuns(t)
      BY <2>1, LoopStep
    <2>2. CASE AppendParent(t)
      BY <2>2, AppendParentStep DEF C!Next
    <2>3. CASE LuaReceives(t)
      <3>1. /\ UNCHANGED <<threadVars, goCallbackDepth, contVars, entered>>
            /\ acts' = acts /\ signal = "ret" /\ signal' = "run" /\ acts # <<>>
        BY <2>3 DEF LuaReceives, TopIs
      <3>2. QED
        BY <3>1, TopFacts, StackStep
    <2>4. CASE LuaFails(t) \/ ProtectedEnds(t)
      <3>1. /\ acts # <<>> /\ Top.frame \in Saved /\ acts' = Popped
            /\ UNCHANGED <<threadVars, goCallbackDepth, contVars, entered>>
            /\ signal' \in {"run", "ret", "err"} /\ signal # "yield"
        BY <2>4 DEF LuaFails, ProtectedEnds, TopIs, Saved
      <3>2. QED
        BY <3>1, PopStep
    <2>5. CASE LuaSaves(t)
      BY <2>5, LuaSavesStep DEF C!Next
    <2>6. CASE HandlerStarts(t)
      BY <2>6, HandlerStep
    <2>7. CASE ProtectedSaves(t)
      BY <2>7, ProtectedSavesStep DEF C!Next
    <2>8. CASE CallbackEnds(t)
      BY <2>8, CallbackStep DEF C!Next
    <2>9. QED
      BY <1>3, <2>1, <2>2, <2>3, <2>4, <2>5, <2>6, <2>7, <2>8 DEF Executor
  <1>4. ASSUME acts' = acts, signal' \in {"run", "ret", "err", "yield"},
               signal' = "yield" <=> signal = "yield",
               UNCHANGED <<threadVars, goCallbackDepth, contVars, entered>>
        PROVE  OwnInv' /\ [C!Next]_(C!vars)
    <2>1. Grounded(acts) /\ AllCreated(acts, status)
      BY DEF Inv, OwnInv, Created
    <2>2. QED
      BY <1>4, <2>1, StackStep
  <1>5. CASE HostReceives
    BY <1>4, <1>5 DEF HostReceives
  <1>6. CASE UNCHANGED vars
    <2>1. signal \in {"run", "ret", "err", "yield"}
      BY DEF Inv, OwnInv, TypeOK
    <2>2. QED
      BY <1>4, <1>6, <2>1 DEF vars, threadVars, contVars
  <1>7. QED
    BY <1>1, <1>2, <1>3, <1>5, <1>6 DEF Next

LEMMA SameInit == C!Init => M!Init
  BY DEF C!Init, M!Init

LEMMA SameStep == [C!Next]_(C!vars) => [M!Next]_(M!vars)
  <1> SUFFICES ASSUME [C!Next]_(C!vars) PROVE [M!Next]_(M!vars)
    OBVIOUS
  <1>1. C!vars = M!vars /\ (C!vars)' = (M!vars)' /\ C!Kinds = M!Kinds
    BY DEF C!vars, M!vars, C!Kinds, M!Kinds
  <1>2. ASSUME NEW t \in Threads, NEW k, C!NewThread(t, k) PROVE M!NewThread(t, k)
    BY <1>2 DEF C!NewThread, M!NewThread
  <1>3. ASSUME NEW t \in Threads, C!ResumePeek(t) PROVE M!ResumePeek(t)
    BY <1>3 DEF C!ResumePeek, M!ResumePeek, C!Resumable, M!Resumable, C!PreviousRunning, M!PreviousRunning
  <1>4. ASSUME NEW t \in Threads, C!ResumeUncallable(t) PROVE M!ResumeUncallable(t)
    BY <1>4 DEF C!ResumeUncallable, M!ResumeUncallable, C!Resumable, M!Resumable, C!PreviousRunning, M!PreviousRunning
  <1>5. ASSUME NEW t \in Threads, C!ResumeEnter(t) PROVE M!ResumeEnter(t)
    BY <1>5 DEF C!ResumeEnter, M!ResumeEnter, C!Resumable, M!Resumable, C!PreviousRunning, M!PreviousRunning, C!Call, M!Call
  <1>6. ASSUME NEW t \in Threads, C!ResumeReturned(t) PROVE M!ResumeReturned(t)
    BY <1>6 DEF C!ResumeReturned, M!ResumeReturned, C!AtResume, M!AtResume, C!Call, M!Call, C!ResumeFinish, M!ResumeFinish, C!ResumeParentOrMain, M!ResumeParentOrMain, C!ExitGoCallback, M!ExitGoCallback, C!Pop, M!Pop
  <1>7. ASSUME NEW t \in Threads, C!ResumeFailed(t) PROVE M!ResumeFailed(t)
    BY <1>7 DEF C!ResumeFailed, M!ResumeFailed, C!AtResume, M!AtResume, C!Call, M!Call, C!ResumeFinish, M!ResumeFinish, C!ResumeParentOrMain, M!ResumeParentOrMain, C!ExitGoCallback, M!ExitGoCallback, C!Pop, M!Pop
  <1>8. ASSUME NEW t \in Threads, C!ResumeYielded(t) PROVE M!ResumeYielded(t)
    BY <1>8 DEF C!ResumeYielded, M!ResumeYielded, C!AtResume, M!AtResume, C!Call, M!Call, C!Pop, M!Pop, C!threadVars, M!threadVars
  <1>9. ASSUME NEW t \in Threads, C!Yield(t) PROVE M!Yield(t)
    BY <1>9 DEF C!Yield, M!Yield, C!YieldAllowed, M!YieldAllowed, C!ResumeParentOrMain, M!ResumeParentOrMain
  <1>10. ASSUME NEW t \in Threads, C!MarkContinuationPending(t) PROVE M!MarkContinuationPending(t)
    BY <1>10 DEF C!MarkContinuationPending, M!MarkContinuationPending
  <1>11. C!EnterGoCallback => M!EnterGoCallback
    BY SameCount DEF C!EnterGoCallback, M!EnterGoCallback, C!Call, M!Call, C!Current, M!Current, C!ThreadAt, M!ThreadAt, C!threadVars, M!threadVars
  <1>12. C!LeaveGoCallback => M!LeaveGoCallback
    BY DEF C!LeaveGoCallback, M!LeaveGoCallback, C!ExitGoCallback, M!ExitGoCallback, C!Pop, M!Pop, C!threadVars, M!threadVars
  <1>13. C!Close => M!Close
    BY DEF C!Close, M!Close, C!threadVars, M!threadVars
  <1>14. C!Next => M!Next
    BY <1>1, <1>2, <1>3, <1>4, <1>5, <1>6, <1>7, <1>8, <1>9, <1>10, <1>11, <1>12, <1>13 DEF C!Next, M!Next
  <1>15. QED
    BY <1>1, <1>14

LEMMA InvInit == Init => Inv
  BY OwnInit, SameInit, M!IInvInit, ThreadAssumption, BoundAssumption
  DEF M!ThreadAssumption, M!BoundAssumption, Inv

LEMMA InvStep ==
  ASSUME Inv, [Next]_vars
  PROVE  Inv'
  BY StepMaps, SameStep, M!IInvStep, ThreadAssumption, BoundAssumption
  DEF M!ThreadAssumption, M!BoundAssumption, Inv

\* Whatever a program calls, yields, resumes and fails in, and whatever shape
\* its stack has then, the parts of the invariant hold together.
THEOREM Invariant == Spec => []Inv
  BY InvInit, InvStep, PTL DEF Spec

\* The Go stack holds calls of created coroutines, and control always goes to a
\* coroutine or to the main thread: the parent a resume left is never lost.
THEOREM TypeCorrect == Spec => []TypeOK
  <1>1. Inv => TypeOK
    BY DEF Inv, OwnInv
  <1>2. QED
    BY <1>1, Invariant, PTL

\* saveLuaContinuation, appendContinuationParent, takeLuaContinuation and the
\* end of Resume keep the flag of runtime and the maps of package lua in
\* agreement, even when a continuation was saved for the wrong coroutine.
THEOREM MapsAgreeHolds == Spec => []MapsAgree
  <1>1. Inv => MapsAgree
    BY DEF Inv, OwnInv
  <1>2. QED
    BY <1>1, Invariant, PTL

\* The executor of package lua is one of the environments runtime/thread.go is
\* written for: unwinding a yield, saving, taking and running continuations
\* drives the threads through steps of Resume, Yield and the callback boundary
\* only.  What CoroutineProofs shows holds for programs run this way.
THEOREM RefinesCoroutine == Spec => ImplementsCoroutine
  <1>1. Init => C!Init
    BY OwnInit
  <1>2. Inv /\ [Next]_vars => [C!Next]_(C!vars)
    BY StepMaps
  <1>3. QED
    BY <1>1, <1>2, Invariant, PTL DEF Spec, ImplementsCoroutine, C!Spec

-----------------------------------------------------------------------------
(* What a Go stack holds of a thread, and the threads it has resumed       *)

Kinds == Saved \cup {"callback"}

LEMMA FramesFacts ==
  ASSUME NEW a \in Activations
  PROVE  /\ FramesOf(a) \in Seq(Kinds)
         /\ a.frame # "resume" => FramesOf(a) = <<a.frame>> /\ a.frame \in Kinds
         /\ a.frame = "resume" => FramesOf(a) = a.todo /\ a.todo \in Seq(Saved)
  <1>1. a.frame \in Frames /\ a.todo \in Seq(Saved)
    BY DEF Activations
  <1>2. CASE a.frame = "resume"
    <2>1. a.todo \in Seq(Kinds)
      BY <1>1 DEF Kinds
    <2>2. QED
      BY <1>1, <1>2, <2>1 DEF FramesOf
  <1>3. CASE a.frame # "resume"
    <2>1. a.frame \in Kinds
      BY <1>1, <1>3 DEF Frames, Kinds
    <2>2. QED
      BY <1>3, <2>1 DEF FramesOf
  <1>4. QED
    BY <1>2, <1>3

\* The recursion of StackIn: f[n] is what the first n activations hold of t.
Grows(s, t, f) ==
  /\ f \in [0..Len(s) -> Seq(Kinds)] /\ f[0] = <<>>
  /\ \A n \in 1..Len(s) :
       f[n] = IF s[n].thread = t THEN FramesOf(s[n]) \o f[n - 1] ELSE f[n - 1]

LEMMA StackGrows ==
  ASSUME NEW s \in Seq(Activations), NEW t
  PROVE  \E f : Grows(s, t, f) /\ StackIn(s, t) = f[Len(s)]
  <1> DEFINE N == Len(s)
             V == Seq(Kinds)
             Body(f, n) == IF n = 0 THEN <<>>
                           ELSE IF s[n].thread = t THEN FramesOf(s[n]) \o f[n - 1] ELSE f[n - 1]
             step == [q \in (1 .. N) \X V |->
                        IF s[q[1]].thread = t THEN FramesOf(s[q[1]]) \o q[2] ELSE q[2]]
             upTo == CHOOSE f : f = [n \in 0 .. N |-> Body(f, n)]
  <1>1. N \in Nat /\ <<>> \in V /\ \A n \in 1 .. N : FramesOf(s[n]) \in V
    <2>1. \A n \in 1 .. N : s[n] \in Activations
      OBVIOUS
    <2>2. QED
      BY <2>1, FramesFacts
  <1>2. step \in [(1 .. N) \X V -> V]
    <2>1. ASSUME NEW q \in (1 .. N) \X V
          PROVE  (IF s[q[1]].thread = t THEN FramesOf(s[q[1]]) \o q[2] ELSE q[2]) \in V
      <3>1. FramesOf(s[q[1]]) \in V /\ q[2] \in V
        BY <1>1
      <3>2. FramesOf(s[q[1]]) \o q[2] \in V
        BY <3>1, ConcatProperties
      <3>3. QED
        BY <3>1, <3>2
    <2>2. QED
      BY <2>1
  <1>3. \A n \in 1 .. N : \A v \in V :
          step[<<n, v>>] = IF s[n].thread = t THEN FramesOf(s[n]) \o v ELSE v
    OBVIOUS
  <1> HIDE DEF step
  <1>4. PICK f \in [0 .. N -> V] : Follows(f, N, <<>>, step)
    <2> HIDE DEF N, V
    <2>1. QED
      BY <1>1, <1>2, Recursive
  <1>5. \A n \in 0 .. N : f[n] = Body(f, n)
    <2>1. ASSUME NEW n \in 1 .. N
          PROVE  f[n] = Body(f, n)
      <3>1. f[n - 1] \in V /\ n # 0
        <4>1. n - 1 \in 0 .. N /\ n # 0
          BY <1>1
        <4> HIDE DEF N, V
        <4>2. QED
          BY <1>4, <4>1
      <3>2. f[n] = step[<<n, f[n - 1]>>]
        BY <1>4 DEF Follows
      <3>3. QED
        BY <1>3, <3>1, <3>2
    <2>2. f[0] = <<>>
      BY <1>4 DEF Follows
    <2>3. Body(f, 0) = <<>> /\ \A n \in 0 .. N : n = 0 \/ n \in 1 .. N
      BY <1>1
    <2> HIDE DEF Body
    <2>4. QED
      BY <2>1, <2>2, <2>3
  <1>6. f = [n \in 0 .. N |-> Body(f, n)]
    BY <1>5
  <1>7. upTo = [n \in 0 .. N |-> Body(upTo, n)]
    BY <1>6
  <1>8. StackIn(s, t) = upTo[N]
    BY DEF StackIn
  <1> HIDE DEF upTo
  <1>9. Follows(upTo, N, <<>>, step) /\ upTo \in [0 .. N -> V]
    <2> DEFINE Holds == {n \in 0 .. N : upTo[n] = f[n]}
    <2>1. 0 \in Holds
      <3>1. 0 \in 0 .. N
        BY <1>1
      <3>2. upTo[0] = <<>> /\ f[0] = <<>>
        BY <1>5, <1>7, <3>1
      <3>3. QED
        BY <3>1, <3>2
    <2>2. ASSUME NEW n \in 0 .. N, n < N, n \in Holds
          PROVE  n + 1 \in Holds
      <3>1. n + 1 \in 0 .. N /\ n + 1 # 0 /\ (n + 1) - 1 = n
        BY <1>1, <2>2
      <3>2. upTo[n + 1] = Body(upTo, n + 1) /\ f[n + 1] = Body(f, n + 1)
        BY <1>5, <1>7, <3>1
      <3>3. QED
        BY <2>2, <3>1, <3>2
    <2>3. \A n \in 0 .. N : upTo[n] = f[n]
      <3> HIDE DEF Holds, N
      <3>1. \A n \in 0 .. N : n \in Holds
        BY <1>1, <2>1, <2>2, Induction
      <3>2. QED
        BY <3>1 DEF Holds
    <2>4. upTo = f
      BY <1>7, <2>3
    <2>5. QED
      BY <1>4, <2>4
  <1>10. Grows(s, t, upTo)
    <2>1. upTo[0] = <<>>
      BY <1>9 DEF Follows
    <2>2. ASSUME NEW n \in 1 .. N
          PROVE  upTo[n] = IF s[n].thread = t THEN FramesOf(s[n]) \o upTo[n - 1]
                                              ELSE upTo[n - 1]
      <3>1. n \in 0 .. N /\ n # 0
        BY <1>1
      <3>2. QED
        BY <1>7, <3>1
    <2>3. QED
      BY <1>9, <2>1, <2>2 DEF Grows
  <1>11. QED
    BY <1>8, <1>10

\* The recursion of ResumedIn.
Resumes(s, f) ==
  /\ f \in [0..Len(s) -> Seq(Threads)] /\ f[0] = <<>>
  /\ \A n \in 1..Len(s) :
       f[n] = IF s[n].frame = "resume" THEN Append(f[n - 1], s[n].thread) ELSE f[n - 1]

LEMMA ResumedGrows ==
  ASSUME NEW s \in Seq(Activations)
  PROVE  \E f : Resumes(s, f) /\ ResumedIn(s) = f[Len(s)]
  <1> DEFINE N == Len(s)
             V == Seq(Threads)
             Body(f, n) == IF n = 0 THEN <<>>
                           ELSE IF s[n].frame = "resume" THEN Append(f[n - 1], s[n].thread) ELSE f[n - 1]
             step == [q \in (1 .. N) \X V |->
                        IF s[q[1]].frame = "resume" THEN Append(q[2], s[q[1]].thread) ELSE q[2]]
             upTo == CHOOSE f : f = [n \in 0 .. N |-> Body(f, n)]
  <1>1. N \in Nat /\ <<>> \in V /\ \A n \in 1 .. N : s[n].thread \in Threads
    <2>1. \A n \in 1 .. N : s[n] \in Activations
      OBVIOUS
    <2>2. QED
      BY <2>1 DEF Activations
  <1>2. step \in [(1 .. N) \X V -> V]
    <2>1. ASSUME NEW q \in (1 .. N) \X V
          PROVE  (IF s[q[1]].frame = "resume" THEN Append(q[2], s[q[1]].thread) ELSE q[2]) \in V
      <3>1. s[q[1]].thread \in Threads /\ q[2] \in V
        BY <1>1
      <3>2. Append(q[2], s[q[1]].thread) \in V
        BY <3>1
      <3>3. QED
        BY <3>1, <3>2
    <2>2. QED
      BY <2>1
  <1>3. \A n \in 1 .. N : \A v \in V :
          step[<<n, v>>] = IF s[n].frame = "resume" THEN Append(v, s[n].thread) ELSE v
    OBVIOUS
  <1> HIDE DEF step
  <1>4. PICK f \in [0 .. N -> V] : Follows(f, N, <<>>, step)
    <2> HIDE DEF N, V
    <2>1. QED
      BY <1>1, <1>2, Recursive
  <1>5. \A n \in 0 .. N : f[n] = Body(f, n)
    <2>1. ASSUME NEW n \in 1 .. N
          PROVE  f[n] = Body(f, n)
      <3>1. f[n - 1] \in V /\ n # 0
        <4>1. n - 1 \in 0 .. N /\ n # 0
          BY <1>1
        <4> HIDE DEF N, V
        <4>2. QED
          BY <1>4, <4>1
      <3>2. f[n] = step[<<n, f[n - 1]>>]
        BY <1>4 DEF Follows
      <3>3. QED
        BY <1>3, <3>1, <3>2
    <2>2. f[0] = <<>>
      BY <1>4 DEF Follows
    <2>3. Body(f, 0) = <<>> /\ \A n \in 0 .. N : n = 0 \/ n \in 1 .. N
      BY <1>1
    <2> HIDE DEF Body
    <2>4. QED
      BY <2>1, <2>2, <2>3
  <1>6. f = [n \in 0 .. N |-> Body(f, n)]
    BY <1>5
  <1>7. upTo = [n \in 0 .. N |-> Body(upTo, n)]
    BY <1>6
  <1>8. ResumedIn(s) = upTo[N]
    BY DEF ResumedIn
  <1> HIDE DEF upTo
  <1>9. Follows(upTo, N, <<>>, step) /\ upTo \in [0 .. N -> V]
    <2> DEFINE Holds == {n \in 0 .. N : upTo[n] = f[n]}
    <2>1. 0 \in Holds
      <3>1. 0 \in 0 .. N
        BY <1>1
      <3>2. upTo[0] = <<>> /\ f[0] = <<>>
        BY <1>5, <1>7, <3>1
      <3>3. QED
        BY <3>1, <3>2
    <2>2. ASSUME NEW n \in 0 .. N, n < N, n \in Holds
          PROVE  n + 1 \in Holds
      <3>1. n + 1 \in 0 .. N /\ n + 1 # 0 /\ (n + 1) - 1 = n
        BY <1>1, <2>2
      <3>2. upTo[n + 1] = Body(upTo, n + 1) /\ f[n + 1] = Body(f, n + 1)
        BY <1>5, <1>7, <3>1
      <3>3. QED
        BY <2>2, <3>1, <3>2
    <2>3. \A n \in 0 .. N : upTo[n] = f[n]
      <3> HIDE DEF Holds, N
      <3>1. \A n \in 0 .. N : n \in Holds
        BY <1>1, <2>1, <2>2, Induction
      <3>2. QED
        BY <3>1 DEF Holds
    <2>4. upTo = f
      BY <1>7, <2>3
    <2>5. QED
      BY <1>4, <2>4
  <1>10. Resumes(s, upTo)
    <2>1. upTo[0] = <<>>
      BY <1>9 DEF Follows
    <2>2. ASSUME NEW n \in 1 .. N
          PROVE  upTo[n] = IF s[n].frame = "resume" THEN Append(upTo[n - 1], s[n].thread)
                                              ELSE upTo[n - 1]
      <3>1. n \in 0 .. N /\ n # 0
        BY <1>1
      <3>2. QED
        BY <1>7, <3>1
    <2>3. QED
      BY <1>9, <2>1, <2>2 DEF Resumes
  <1>11. QED
    BY <1>8, <1>10

LEMMA EmptyFacts ==
  /\ ResumedIn(<<>>) = <<>>
  /\ \A t : StackIn(<<>>, t) = <<>>
  <1>1. <<>> \in Seq(Activations) /\ Len(<<>>) = 0
    OBVIOUS
  <1>2. ResumedIn(<<>>) = <<>>
    BY <1>1, ResumedGrows DEF Resumes
  <1>3. ASSUME NEW t
        PROVE  StackIn(<<>>, t) = <<>>
    <2>1. PICK f : Grows(<<>>, t, f) /\ StackIn(<<>>, t) = f[Len(<<>>)]
      BY <1>1, StackGrows
    <2>2. f[0] = <<>>
      BY <2>1 DEF Grows
    <2>3. QED
      BY <1>1, <2>1, <2>2
  <1>4. QED
    BY <1>2, <1>3

\* One activation more.
LEMMA StackInPush ==
  ASSUME NEW s \in Seq(Activations), NEW a \in Activations, NEW t
  PROVE  /\ StackIn(s, t) \in Seq(Kinds)
         /\ StackIn(Append(s, a), t) =
              IF a.thread = t THEN FramesOf(a) \o StackIn(s, t) ELSE StackIn(s, t)
  <1> DEFINE u == Append(s, a)
             N == Len(s)
  <1>1. /\ u \in Seq(Activations) /\ Len(u) = N + 1 /\ u[N + 1] = a /\ N \in Nat
        /\ \A n \in 1 .. N : u[n] = s[n]
    BY AppendFacts
  <1> HIDE DEF u
  <1>2. PICK f : Grows(s, t, f) /\ StackIn(s, t) = f[N]
    BY StackGrows
  <1>3. PICK g : Grows(u, t, g) /\ StackIn(u, t) = g[N + 1]
    BY <1>1, StackGrows
  <1> DEFINE Holds == {n \in 0 .. N : g[n] = f[n]}
  <1>4. 0 \in Holds
    BY <1>1, <1>2, <1>3 DEF Grows
  <1>5. ASSUME NEW n \in 0 .. N, n < N, n \in Holds
        PROVE  n + 1 \in Holds
    <2>1. n + 1 \in 1 .. N /\ n + 1 \in 1 .. Len(u) /\ (n + 1) - 1 = n
      BY <1>1, <1>5
    <2>2. /\ f[n + 1] = IF s[n + 1].thread = t THEN FramesOf(s[n + 1]) \o f[n] ELSE f[n]
          /\ g[n + 1] = IF u[n + 1].thread = t THEN FramesOf(u[n + 1]) \o g[n] ELSE g[n]
      BY <1>2, <1>3, <2>1 DEF Grows
    <2>3. g[n] = f[n] /\ u[n + 1] = s[n + 1]
      BY <1>1, <1>5, <2>1
    <2>4. g[n + 1] = f[n + 1]
      BY <2>2, <2>3
    <2>5. QED
      BY <2>1, <2>4
  <1>6. g[N] = f[N]
    <2>1. \A n \in 0 .. N : n \in Holds
      <3> HIDE DEF Holds, N
      <3>1. QED
        BY <1>1, <1>4, <1>5, Induction
    <2>2. N \in 0 .. N
      BY <1>1
    <2>3. QED
      BY <2>1, <2>2
  <1>7. g[N + 1] = IF a.thread = t THEN FramesOf(a) \o g[N] ELSE g[N]
    <2>1. N + 1 \in 1 .. Len(u) /\ (N + 1) - 1 = N
      BY <1>1
    <2>2. g[N + 1] = IF u[N + 1].thread = t THEN FramesOf(u[N + 1]) \o g[N] ELSE g[N]
      BY <1>3, <2>1 DEF Grows
    <2>3. QED
      BY <1>1, <2>2
  <1>8. f[N] \in Seq(Kinds)
    BY <1>1, <1>2 DEF Grows
  <1>9. QED
    BY <1>2, <1>3, <1>6, <1>7, <1>8 DEF u

LEMMA ResumedPush ==
  ASSUME NEW s \in Seq(Activations), NEW a \in Activations
  PROVE  /\ ResumedIn(s) \in Seq(Threads)
         /\ ResumedIn(Append(s, a)) =
              IF a.frame = "resume" THEN Append(ResumedIn(s), a.thread) ELSE ResumedIn(s)
  <1> DEFINE u == Append(s, a)
             N == Len(s)
  <1>1. /\ u \in Seq(Activations) /\ Len(u) = N + 1 /\ u[N + 1] = a /\ N \in Nat
        /\ \A n \in 1 .. N : u[n] = s[n]
    BY AppendFacts
  <1> HIDE DEF u
  <1>2. PICK f : Resumes(s, f) /\ ResumedIn(s) = f[N]
    BY ResumedGrows
  <1>3. PICK g : Resumes(u, g) /\ ResumedIn(u) = g[N + 1]
    BY <1>1, ResumedGrows
  <1> DEFINE Holds == {n \in 0 .. N : g[n] = f[n]}
  <1>4. 0 \in Holds
    BY <1>1, <1>2, <1>3 DEF Resumes
  <1>5. ASSUME NEW n \in 0 .. N, n < N, n \in Holds
        PROVE  n + 1 \in Holds
    <2>1. n + 1 \in 1 .. N /\ n + 1 \in 1 .. Len(u) /\ (n + 1) - 1 = n
      BY <1>1, <1>5
    <2>2. /\ f[n + 1] = IF s[n + 1].frame = "resume" THEN Append(f[n], s[n + 1].thread) ELSE f[n]
          /\ g[n + 1] = IF u[n + 1].frame = "resume" THEN Append(g[n], u[n + 1].thread) ELSE g[n]
      BY <1>2, <1>3, <2>1 DEF Resumes
    <2>3. g[n] = f[n] /\ u[n + 1] = s[n + 1]
      BY <1>1, <1>5, <2>1
    <2>4. g[n + 1] = f[n + 1]
      BY <2>2, <2>3
    <2>5. QED
      BY <2>1, <2>4
  <1>6. g[N] = f[N]
    <2>1. \A n \in 0 .. N : n \in Holds
      <3> HIDE DEF Holds, N
      <3>1. QED
        BY <1>1, <1>4, <1>5, Induction
    <2>2. N \in 0 .. N
      BY <1>1
    <2>3. QED
      BY <2>1, <2>2
  <1>7. g[N + 1] = IF a.frame = "resume" THEN Append(g[N], a.thread) ELSE g[N]
    <2>1. N + 1 \in 1 .. Len(u) /\ (N + 1) - 1 = N
      BY <1>1
    <2>2. g[N + 1] = IF u[N + 1].frame = "resume" THEN Append(g[N], u[N + 1].thread) ELSE g[N]
      BY <1>3, <2>1 DEF Resumes
    <2>3. QED
      BY <1>1, <2>2
  <1>8. f[N] \in Seq(Threads)
    BY <1>1, <1>2 DEF Resumes
  <1>9. QED
    BY <1>2, <1>3, <1>6, <1>7, <1>8 DEF u

-----------------------------------------------------------------------------
(* The shape of a Go stack: at its bottom a call of Resume, above it the   *)
(* activations of the thread resumed last; no thread is resumed twice.     *)

OnStack(s) == {s[i].thread : i \in 1..Len(s)}
Owned(s) ==
  s # <<>> => /\ s[1].frame = "resume"
              /\ \A i \in 2..Len(s) : s[i].frame = "resume" \/ s[i].thread = s[i - 1].thread
Distinct(s) ==
  \A i, j \in 1..Len(s) : i < j /\ s[j].frame = "resume" => s[i].thread # s[j].thread
Stacked(s)  == s \in Seq(Activations) /\ Owned(s) /\ Distinct(s)
LastOf(s)   == s[Len(s)]

\* What a stack does not hold of a thread.
LEMMA NoneIn ==
  ASSUME NEW s \in Seq(Activations), NEW t, t \notin OnStack(s)
  PROVE  StackIn(s, t) = <<>>
  <1> DEFINE N == Len(s)
  <1>1. PICK f : Grows(s, t, f) /\ StackIn(s, t) = f[N]
    BY StackGrows
  <1> DEFINE Holds == {n \in 0 .. N : f[n] = <<>>}
  <1>2. N \in Nat /\ 0 \in Holds
    BY <1>1 DEF Grows
  <1>3. ASSUME NEW n \in 0 .. N, n < N, n \in Holds
        PROVE  n + 1 \in Holds
    <2>1. n + 1 \in 1 .. N /\ n + 1 \in 0 .. N /\ (n + 1) - 1 = n
      BY <1>2, <1>3
    <2>2. f[n + 1] = IF s[n + 1].thread = t THEN FramesOf(s[n + 1]) \o f[n] ELSE f[n]
      BY <1>1, <2>1 DEF Grows
    <2>3. s[n + 1].thread # t
      BY <2>1 DEF OnStack
    <2>4. QED
      BY <1>3, <2>1, <2>2, <2>3
  <1>4. \A n \in 0 .. N : n \in Holds
    <2> HIDE DEF Holds, N
    <2>1. QED
      BY <1>2, <1>3, Induction
  <1>5. N \in 0 .. N
    BY <1>2
  <1>6. QED
    BY <1>1, <1>4, <1>5

\* The thread resumed last is the thread of the top.
LEMMA LastResumed ==
  ASSUME NEW s, Stacked(s), s # <<>>
  PROVE  ResumedIn(s) # <<>> /\ LastOf(ResumedIn(s)) = LastOf(s).thread
  <1> DEFINE N == Len(s)
  <1>1. s \in Seq(Activations) /\ N \in Nat \ {0} /\ \A n \in 1 .. N : s[n].thread \in Threads
    <2>1. s \in Seq(Activations) /\ N \in Nat \ {0}
      BY DEF Stacked
    <2>2. \A n \in 1 .. N : s[n] \in Activations
      BY <2>1
    <2>3. QED
      BY <2>1, <2>2 DEF Activations
  <1>2. PICK f : Resumes(s, f) /\ ResumedIn(s) = f[N]
    BY <1>1, ResumedGrows
  <1> DEFINE Right(n) == f[n] # <<>> /\ LastOf(f[n]) = s[n].thread
             Holds == {n \in 0 .. N : n = 0 \/ Right(n)}
  <1>3. 0 \in Holds
    BY <1>1
  <1>4. ASSUME NEW n \in 0 .. N, n < N, n \in Holds
        PROVE  n + 1 \in Holds
    <2>1. n + 1 \in 1 .. N /\ n + 1 \in 0 .. N /\ (n + 1) - 1 = n /\ n \in 0 .. Len(s)
      BY <1>1, <1>4
    <2>2. f[n + 1] = IF s[n + 1].frame = "resume" THEN Append(f[n], s[n + 1].thread) ELSE f[n]
      BY <1>2, <2>1 DEF Resumes
    <2>3. f[n] \in Seq(Threads) /\ s[n + 1].thread \in Threads
      BY <1>1, <1>2, <2>1 DEF Resumes
    <2>4. CASE s[n + 1].frame = "resume"
      <3>1. f[n + 1] = Append(f[n], s[n + 1].thread)
        BY <2>2, <2>4
      <3>2. Right(n + 1)
        BY <2>3, <3>1, AppendFacts DEF LastOf
      <3> HIDE DEF Right
      <3>3. QED
        BY <2>1, <3>2
    <2>5. CASE s[n + 1].frame # "resume"
      <3>1. n # 0 /\ n + 1 \in 2 .. Len(s)
        <4>1. n # 0
          BY <1>1, <2>5 DEF Stacked, Owned
        <4>2. QED
          BY <2>1, <4>1
      <3>2. s[n + 1].thread = s[n].thread
        BY <1>1, <2>1, <2>5, <3>1 DEF Stacked, Owned
      <3>3. Right(n) /\ f[n + 1] = f[n]
        BY <1>4, <2>2, <2>5, <3>1
      <3>4. Right(n + 1)
        BY <3>2, <3>3
      <3> HIDE DEF Right
      <3>5. QED
        BY <2>1, <3>4
    <2>6. QED
      BY <2>4, <2>5
  <1>5. \A n \in 0 .. N : n \in Holds
    <2> HIDE DEF Holds, N
    <2>1. QED
      BY <1>1, <1>3, <1>4, Induction
  <1>6. N \in 0 .. N /\ N # 0
    BY <1>1
  <1>7. QED
    BY <1>2, <1>5, <1>6 DEF LastOf

LEMMA ResumedOn ==
  ASSUME NEW s \in Seq(Activations)
  PROVE  \A i \in 1..Len(ResumedIn(s)) : ResumedIn(s)[i] \in OnStack(s)
  <1> DEFINE N == Len(s)
             Inside(v) == \A i \in 1..Len(v) : v[i] \in OnStack(s)
  <1>1. N \in Nat /\ \A n \in 1 .. N : s[n].thread \in Threads
    <2>1. \A n \in 1 .. N : s[n] \in Activations
      OBVIOUS
    <2>2. QED
      BY <2>1 DEF Activations
  <1>2. PICK f : Resumes(s, f) /\ ResumedIn(s) = f[N]
    BY <1>1, ResumedGrows
  <1> DEFINE Holds == {n \in 0 .. N : Inside(f[n])}
  <1>3. 0 \in Holds
    BY <1>1, <1>2 DEF Resumes
  <1>4. ASSUME NEW n \in 0 .. N, n < N, n \in Holds
        PROVE  n + 1 \in Holds
    <2>1. n + 1 \in 1 .. N /\ n + 1 \in 0 .. N /\ (n + 1) - 1 = n /\ n \in 0 .. Len(s)
      BY <1>1, <1>4
    <2>2. f[n + 1] = IF s[n + 1].frame = "resume" THEN Append(f[n], s[n + 1].thread) ELSE f[n]
      BY <1>2, <2>1 DEF Resumes
    <2>3. f[n] \in Seq(Threads) /\ s[n + 1].thread \in Threads /\ s[n + 1].thread \in OnStack(s)
      BY <1>1, <1>2, <2>1 DEF Resumes, OnStack
    <2>4. Inside(f[n + 1])
      <3>1. Inside(f[n])
        BY <1>4
      <3>2. CASE s[n + 1].frame = "resume"
        <4> DEFINE u == Append(f[n], s[n + 1].thread)
        <4>1. /\ Len(u) = Len(f[n]) + 1 /\ Len(f[n]) \in Nat /\ u[Len(f[n]) + 1] = s[n + 1].thread
              /\ \A i \in 1..Len(f[n]) : u[i] = f[n][i]
          BY <2>3, AppendFacts
        <4> HIDE DEF u
        <4>2. Inside(u)
          BY <2>3, <3>1, <4>1
        <4>3. QED
          BY <2>2, <3>2, <4>2 DEF u
      <3>3. CASE s[n + 1].frame # "resume"
        BY <2>2, <3>1, <3>3
      <3>4. QED
        BY <3>2, <3>3
    <2> HIDE DEF Inside
    <2>5. QED
      BY <2>1, <2>4
  <1>5. \A n \in 0 .. N : n \in Holds
    <2> HIDE DEF Holds, N
    <2>1. QED
      BY <1>1, <1>3, <1>4, Induction
  <1>6. N \in 0 .. N
    BY <1>1
  <1>7. QED
    BY <1>2, <1>5, <1>6

LEMMA PushStacked ==
  ASSUME NEW s, Stacked(s), NEW a \in Activations,
         IF a.frame = "resume" THEN a.thread \notin OnStack(s)
                               ELSE s # <<>> /\ a.thread = LastOf(s).thread
  PROVE  /\ Stacked(Append(s, a)) /\ Append(s, a) # <<>> /\ LastOf(Append(s, a)) = a
         /\ OnStack(Append(s, a)) = OnStack(s) \cup {a.thread}
  <1> DEFINE u == Append(s, a)
             N == Len(s)
  <1>1. /\ s \in Seq(Activations) /\ u \in Seq(Activations) /\ Len(u) = N + 1 /\ N \in Nat
        /\ u # <<>> /\ u[N + 1] = a
        /\ \A i \in 1 .. N : u[i] = s[i]
    BY AppendFacts DEF Stacked
  <1>2. s # <<>> => N # 0
    BY <1>1
  <1>3. s = <<>> <=> N = 0
    BY <1>1
  <1> HIDE DEF u
  <1>4. Owned(u)
    <2>1. u[1].frame = "resume"
      <3>1. CASE s = <<>>
        BY <1>1, <1>3, <3>1
      <3>2. CASE s # <<>>
        BY <1>1, <1>2, <3>2 DEF Stacked, Owned
      <3>3. QED
        BY <3>1, <3>2
    <2>2. ASSUME NEW i \in 2..Len(u)
          PROVE  u[i].frame = "resume" \/ u[i].thread = u[i - 1].thread
      <3>1. CASE i = N + 1
        BY <1>1, <3>1 DEF LastOf
      <3>2. CASE i # N + 1
        <4>1. i \in 2..N /\ i \in 1..N /\ i - 1 \in 1..N /\ N # 0
          BY <1>1, <3>2
        <4>2. s[i].frame = "resume" \/ s[i].thread = s[i - 1].thread
          BY <1>3, <4>1 DEF Stacked, Owned
        <4>3. QED
          BY <1>1, <4>1, <4>2
      <3>3. QED
        BY <3>1, <3>2
    <2>3. QED
      BY <2>1, <2>2 DEF Owned
  <1>5. Distinct(u)
    <2>1. SUFFICES ASSUME NEW i \in 1..Len(u), NEW j \in 1..Len(u), i < j, u[j].frame = "resume"
                   PROVE  u[i].thread # u[j].thread
      BY DEF Distinct
    <2>2. i \in 1..N
      BY <1>1, <2>1
    <2>3. CASE j = N + 1
      BY <1>1, <2>1, <2>2, <2>3 DEF OnStack
    <2>4. CASE j # N + 1
      <3>1. j \in 1..N
        BY <1>1, <2>4
      <3>2. QED
        BY <1>1, <2>1, <2>2, <3>1 DEF Stacked, Distinct
    <2>5. QED
      BY <2>3, <2>4
  <1>6. OnStack(u) = OnStack(s) \cup {a.thread}
    <2>1. \A i \in 1..Len(u) : i \in 1..N \/ i = N + 1
      BY <1>1
    <2>2. \A i \in 1..N : i \in 1..Len(u)
      BY <1>1
    <2>3. N + 1 \in 1..Len(u)
      BY <1>1
    <2>4. QED
      BY <1>1, <2>1, <2>2, <2>3 DEF OnStack
  <1>7. LastOf(u) = a
    BY <1>1 DEF LastOf
  <1>8. QED
    BY <1>1, <1>4, <1>5, <1>6, <1>7 DEF Stacked, u

LEMMA PopStacked ==
  ASSUME NEW s, Stacked(s), s # <<>>
  PROVE  /\ Stacked(Front(s)) /\ LastOf(s) \in Activations /\ s = Append(Front(s), LastOf(s))
         /\ OnStack(s) = OnStack(Front(s)) \cup {LastOf(s).thread}
         /\ IF LastOf(s).frame = "resume" THEN LastOf(s).thread \notin OnStack(Front(s))
            ELSE /\ Front(s) # <<>> /\ LastOf(Front(s)).thread = LastOf(s).thread
                 /\ OnStack(Front(s)) = OnStack(s)
  <1> DEFINE u == Front(s)
             N == Len(s)
             a == s[N]
  <1>1. /\ s \in Seq(Activations) /\ u \in Seq(Activations) /\ Len(u) = N - 1 /\ N \in Nat \ {0}
        /\ a \in Activations /\ s = Append(u, a)
        /\ \A i \in 1 .. (N - 1) : u[i] = s[i]
    BY FrontFacts DEF Stacked
  <1>2. u = <<>> <=> N = 1
    BY <1>1
  <1> HIDE DEF u
  <1>3. Owned(u)
    <2>1. ASSUME u # <<>>
          PROVE  u[1].frame = "resume"
      <3>1. 1 \in 1 .. (N - 1)
        BY <1>1, <1>2, <2>1
      <3>2. QED
        BY <1>1, <3>1 DEF Stacked, Owned
    <2>2. ASSUME NEW i \in 2..Len(u)
          PROVE  u[i].frame = "resume" \/ u[i].thread = u[i - 1].thread
      <3>1. i \in 1 .. (N - 1) /\ i - 1 \in 1 .. (N - 1) /\ i \in 2 .. N
        BY <1>1
      <3>2. s[i].frame = "resume" \/ s[i].thread = s[i - 1].thread
        BY <3>1 DEF Stacked, Owned
      <3>3. QED
        BY <1>1, <3>1, <3>2
    <2>3. QED
      BY <2>1, <2>2 DEF Owned
  <1>4. Distinct(u)
    <2>1. SUFFICES ASSUME NEW i \in 1..Len(u), NEW j \in 1..Len(u), i < j, u[j].frame = "resume"
                   PROVE  u[i].thread # u[j].thread
      BY DEF Distinct
    <2>2. i \in 1 .. (N - 1) /\ j \in 1 .. (N - 1) /\ i \in 1 .. N /\ j \in 1 .. N
      BY <1>1
    <2>3. QED
      BY <1>1, <2>1, <2>2 DEF Stacked, Distinct
  <1>5. OnStack(s) = OnStack(u) \cup {a.thread}
    <2>1. \A i \in 1..N : i \in 1..Len(u) \/ i = N
      BY <1>1
    <2>2. \A i \in 1..Len(u) : i \in 1..N /\ i \in 1 .. (N - 1)
      BY <1>1
    <2>3. N \in 1..N
      BY <1>1
    <2>4. QED
      BY <1>1, <2>1, <2>2, <2>3 DEF OnStack
  <1>6. CASE a.frame = "resume"
    <2>1. ASSUME NEW i \in 1..Len(u)
          PROVE  u[i].thread # a.thread
      <3>1. i \in 1 .. (N - 1) /\ i \in 1..N /\ N \in 1..N /\ i < N
        BY <1>1
      <3>2. s[i].thread # s[N].thread
        BY <1>6, <3>1 DEF Stacked, Distinct
      <3>3. QED
        BY <1>1, <3>1, <3>2
    <2>2. a.thread \notin OnStack(u)
      BY <2>1 DEF OnStack
    <2>3. QED
      BY <1>1, <1>3, <1>4, <1>5, <1>6, <2>2 DEF Stacked, LastOf, u
  <1>7. CASE a.frame # "resume"
    <2>1. N # 1 /\ N \in 2..N
      BY <1>1, <1>7 DEF Stacked, Owned
    <2>2. a.thread = s[N - 1].thread
      BY <1>1, <1>7, <2>1 DEF Stacked, Owned
    <2>3. u # <<>> /\ LastOf(u).thread = a.thread
      <3>1. N - 1 \in 1 .. (N - 1)
        BY <1>1, <2>1
      <3>2. QED
        BY <1>1, <1>2, <2>1, <2>2, <3>1 DEF LastOf
    <2>4. a.thread \in OnStack(u)
      <3>1. Len(u) \in 1..Len(u)
        BY <1>1, <2>1
      <3>2. QED
        BY <2>3, <3>1 DEF OnStack, LastOf
    <2>5. OnStack(u) = OnStack(s)
      BY <1>5, <2>4
    <2>6. QED
      BY <1>1, <1>3, <1>4, <1>5, <1>7, <2>3, <2>5 DEF Stacked, LastOf, u
  <1>8. QED
    BY <1>6, <1>7

-----------------------------------------------------------------------------
(* The invariant of plain programs                                         *)

\* The coroutine a yield unwinds the Go stack of.
Leaving(t) == signal = "yield" /\ acts # <<>> /\ t = Top.thread

\* Whoever is on the Go stack runs and has nothing saved, but for the coroutine
\* that yielded; whoever is not has ended, was never entered or has all saved.
Standing ==
  /\ \A t \in OnStack(acts) :
       /\ t \in entered
       /\ IF Leaving(t) THEN status[t] = "suspended" ELSE status[t] = "running" /\ conts[t] = <<>>
  /\ \A t \in Threads : conts[t] # <<>> \/ yielded[t] => t \in entered
  /\ \A t \in Threads : t \in entered => status[t] # "none"
  /\ \A t \in entered : t \in OnStack(acts) \/ status[t] = "dead" \/ conts[t] # <<>>

\* The activations a yield has left are saved when it reaches the call of Resume;
\* through protected calls it goes in the outermost coroutine only, and there
\* the continuation before was saved for the same coroutine.
OnTopThread(s) == {i \in 1..Len(s) : s[i].thread = LastOf(s).thread /\ s[i].frame \in Protected}
Unwinding ==
  /\ acts # <<>>
  /\ Top.frame = "resume" /\ Top.todo = <<>> => conts[Top.thread] # <<>>
  /\ OnTopThread(acts) # {} => runningThread = Main
  /\ Top.frame \in Protected => last = Top.thread

OwnPlain ==
  /\ Shapes = {}
  /\ Stacked(acts)
  /\ Standing
  /\ signal = "yield" => Unwinding
  /\ signal = "err" => ~DeepErrorAhead

PlainInv == Inv /\ OwnPlain

-----------------------------------------------------------------------------
(* The state as Stackful sees it                                           *)

Lives  == [t \in Threads |-> CASE status[t] = "none" -> "none"
                               [] status[t] = "dead" -> "dead"
                               [] OTHER -> "alive"]
Stacks == [t \in Threads |-> StackOf(t)]
Mode   == IF signal = "yield" THEN "ret" ELSE signal

LEMMA StackKinds ==
  ASSUME NEW s \in Seq(Activations), NEW t
  PROVE  StackIn(s, t) \in Seq(Kinds)
  <1>1. CASE s = <<>>
    BY <1>1, EmptyFacts, EmptySeq
  <1>2. CASE s # <<>>
    <2>1. s[1] \in Activations
      BY <1>2
    <2>2. QED
      BY <2>1, StackInPush
  <1>3. QED
    BY <1>1, <1>2

LEMMA Cons ==
  ASSUME NEW Elem, NEW f \in Elem, NEW rest \in Seq(Elem)
  PROVE  /\ <<f>> \o rest \in Seq(Elem) /\ <<f>> \o rest # <<>>
         /\ Head(<<f>> \o rest) = f /\ Tail(<<f>> \o rest) = rest
  <1> DEFINE s == <<f>> \o rest
  <1>1. <<f>> \in Seq(Elem) /\ Len(<<f>>) = 1 /\ <<f>>[1] = f
    OBVIOUS
  <1>2. /\ s \in Seq(Elem) /\ Len(s) = 1 + Len(rest) /\ Len(rest) \in Nat
        /\ \A i \in 1 .. 1 + Len(rest) : s[i] = IF i <= 1 THEN <<f>>[i] ELSE rest[i - 1]
    BY <1>1, ConcatProperties
  <1> HIDE DEF s
  <1>3. s # <<>> /\ s[1] = f
    BY <1>1, <1>2
  <1>4. /\ Tail(s) \in Seq(Elem) /\ Len(Tail(s)) = Len(rest)
        /\ \A i \in 1 .. Len(rest) : Tail(s)[i] = s[i + 1]
    BY <1>2, <1>3, HeadTailProperties
  <1>5. \A i \in 1 .. Len(rest) : Tail(s)[i] = rest[i]
    <2>1. TAKE i \in 1 .. Len(rest)
    <2>2. i + 1 \in 1 .. 1 + Len(rest) /\ ~(i + 1 <= 1) /\ (i + 1) - 1 = i
      BY <1>2
    <2>3. s[i + 1] = rest[i]
      BY <1>2, <2>2
    <2>4. QED
      BY <1>4, <2>3
  <1>6. Tail(s) = rest
    BY <1>4, <1>5, SeqEqual
  <1>7. Head(s) = f
    BY <1>2, <1>3
  <1>8. QED
    BY <1>2, <1>3, <1>6, <1>7 DEF s

\* The top of the Go stack is of the coroutine Stackful takes for running.
LEMMA TopOf ==
  ASSUME OwnPlain, acts # <<>>
  PROVE  /\ Stacked(acts) /\ Stacked(Popped) /\ Popped = Front(acts) /\ Top = LastOf(acts)
         /\ acts \in Seq(Activations) /\ Popped \in Seq(Activations)
         /\ Top \in Activations /\ acts = Append(Popped, Top)
         /\ Top.thread \in Threads /\ Top.thread \in OnStack(acts) /\ Top.thread \in entered
         /\ OnStack(acts) = OnStack(Popped) \cup {Top.thread}
         /\ IF Top.frame = "resume" THEN Top.thread \notin OnStack(Popped)
            ELSE /\ Popped # <<>> /\ LastOf(Popped).thread = Top.thread
                 /\ OnStack(Popped) = OnStack(acts)
  <1>1. Stacked(acts) /\ Popped = Front(acts) /\ Top = LastOf(acts)
    BY DEF OwnPlain, Popped, Front, Top, LastOf
  <1>2. /\ Stacked(Front(acts)) /\ LastOf(acts) \in Activations /\ acts = Append(Front(acts), LastOf(acts))
        /\ OnStack(acts) = OnStack(Front(acts)) \cup {LastOf(acts).thread}
        /\ IF LastOf(acts).frame = "resume" THEN LastOf(acts).thread \notin OnStack(Front(acts))
           ELSE /\ Front(acts) # <<>> /\ LastOf(Front(acts)).thread = LastOf(acts).thread
                /\ OnStack(Front(acts)) = OnStack(acts)
    BY <1>1, PopStacked
  <1>3. Top.thread \in Threads
    BY <1>1, <1>2 DEF Activations
  <1>4. Top.thread \in entered
    BY <1>1, <1>2 DEF OwnPlain, Standing
  <1>5. QED
    BY <1>1, <1>2, <1>3, <1>4 DEF Stacked

\* What the top activation adds.
LEMMA TopAdds ==
  ASSUME OwnPlain, acts # <<>>
  PROVE  /\ StackIn(acts, Top.thread) = FramesOf(Top) \o StackIn(Popped, Top.thread)
         /\ \A u : u # Top.thread => StackIn(acts, u) = StackIn(Popped, u)
         /\ ResumedIn(acts) = IF Top.frame = "resume" THEN Append(ResumedIn(Popped), Top.thread)
                              ELSE ResumedIn(Popped)
  <1>1. Popped \in Seq(Activations) /\ Top \in Activations /\ acts = Append(Popped, Top)
    BY TopOf
  <1> DEFINE p == Popped
             a == Top
  <1> HIDE DEF p, a
  <1>2. p \in Seq(Activations) /\ a \in Activations /\ acts = Append(p, a)
    BY <1>1 DEF p, a
  <1>3. StackIn(acts, a.thread) = FramesOf(a) \o StackIn(p, a.thread)
    BY <1>2, StackInPush
  <1>4. ASSUME NEW u, u # a.thread
        PROVE  StackIn(acts, u) = StackIn(p, u)
    BY <1>2, <1>4, StackInPush
  <1>5. ResumedIn(acts) = IF a.frame = "resume" THEN Append(ResumedIn(p), a.thread) ELSE ResumedIn(p)
    BY <1>2, ResumedPush
  <1>6. QED
    BY <1>3, <1>4, <1>5 DEF p, a

LEMMA TopView ==
  ASSUME OwnPlain, acts # <<>>
  PROVE  /\ ResumedIn(acts) # <<>> /\ LastOf(ResumedIn(acts)) = Top.thread
         /\ ResumedIn(acts) \in Seq(Threads)
         /\ signal # "yield" =>
              /\ ResumedThreads = ResumedIn(acts) /\ Mode = signal
              /\ status[Top.thread] = "running" /\ conts[Top.thread] = <<>>
              /\ StackOf(Top.thread) = StackIn(acts, Top.thread)
  <1>1. /\ Stacked(acts) /\ Top = LastOf(acts) /\ acts \in Seq(Activations) /\ Top \in Activations
        /\ Top.thread \in OnStack(acts) /\ Top.thread \in entered
    BY TopOf
  <1>2. ResumedIn(acts) # <<>> /\ LastOf(ResumedIn(acts)) = Top.thread
    BY <1>1, LastResumed
  <1>3. ResumedIn(acts) \in Seq(Threads)
    BY <1>1, ResumedPush
  <1>4. ASSUME signal # "yield"
        PROVE  /\ ResumedThreads = ResumedIn(acts) /\ Mode = signal
               /\ status[Top.thread] = "running" /\ conts[Top.thread] = <<>>
               /\ StackOf(Top.thread) = StackIn(acts, Top.thread)
    <2>1. ResumedThreads = ResumedIn(acts) /\ Mode = signal
      BY <1>4 DEF ResumedThreads, Mode
    <2>2. status[Top.thread] = "running" /\ conts[Top.thread] = <<>>
      BY <1>1, <1>4 DEF OwnPlain, Standing, Leaving
    <2>3. <<>> \o StackIn(acts, Top.thread) = StackIn(acts, Top.thread)
      BY <1>1, StackKinds, ConcatEmptySeq
    <2>4. StackOf(Top.thread) = StackIn(acts, Top.thread)
      BY <1>1, <2>2, <2>3 DEF StackOf, Chain
    <2>5. QED
      BY <2>1, <2>2, <2>4
  <1>5. QED
    BY <1>2, <1>3, <1>4

LEMMA RunningView ==
  S!Running = LastOf(ResumedThreads)
  BY DEF S!Running, LastOf

\* A step that replaces the top of the running coroutine's stack.
SameLives == \A u \in Threads : /\ status'[u] = "none" <=> status[u] = "none"
                                /\ status'[u] = "dead" <=> status[u] = "dead"

LEMMA ReplaceStep ==
  ASSUME OwnPlain, acts # <<>>, signal # "yield", NEW t \in Threads, t = Top.thread,
         NEW f \in Kinds, NEW g \in Seq(Kinds), NEW rest \in Seq(Kinds),
         StackIn(acts, t) = <<f>> \o rest,
         StackIn(acts', t) = g \o rest,
         \A u \in Threads : u # t => StackIn(acts', u) = StackIn(acts, u),
         SameLives, UNCHANGED <<conts, entered>>
  PROVE  S!Replaces(f, g) /\ Lives' = Lives
  <1>1. /\ ResumedThreads # <<>> /\ LastOf(ResumedThreads) = t /\ t \in Threads /\ t \in entered
        /\ status[t] = "running" /\ conts[t] = <<>>
        /\ StackOf(t) = <<f>> \o rest
    BY TopView, TopOf
  <1>2. StackOf(t) # <<>> /\ Head(StackOf(t)) = f /\ Tail(StackOf(t)) = rest
    BY <1>1, Cons
  <1>3. Lives' = Lives
    BY DEF Lives, SameLives
  <1>4. StackOf(t)' = g \o rest
    <2>1. g \o rest \in Seq(Kinds)
      BY ConcatProperties
    <2>2. <<>> \o (g \o rest) = g \o rest
      BY <2>1, ConcatEmptySeq
    <2>3. conts'[t] = <<>> /\ t \in entered' /\ status'[t] # "none" /\ status'[t] # "dead"
      BY <1>1 DEF SameLives
    <2>4. StackOf(t)' = IF status'[t] = "none" \/ status'[t] = "dead" THEN <<>>
                        ELSE IF t \notin entered' THEN <<"entry">> ELSE conts'[t] \o StackIn(acts', t)
      BY DEF StackOf, Chain
    <2>5. QED
      BY <2>2, <2>3, <2>4
  <1>5. ASSUME NEW u \in Threads, u # t
        PROVE  StackOf(u)' = StackOf(u)
    <2>1. StackIn(acts', u) = StackIn(acts, u)
      BY <1>5
    <2>2. /\ conts' = conts /\ entered' = entered
          /\ status'[u] = "none" <=> status[u] = "none"
          /\ status'[u] = "dead" <=> status[u] = "dead"
      BY DEF SameLives
    <2>3. QED
      BY <2>1, <2>2 DEF StackOf, Chain
  <1>6. Stacks' = [Stacks EXCEPT ![t] = g \o Tail(@)]
    <2>1. Stacks' = [u \in Threads |-> StackOf(u)'] /\ Stacks = [u \in Threads |-> StackOf(u)]
      BY DEF Stacks
    <2>2. \A u \in Threads : StackOf(u)' = IF u = t THEN g \o Tail(StackOf(t)) ELSE StackOf(u)
      BY <1>2, <1>4, <1>5
    <2>3. QED
      BY <1>1, <2>1, <2>2
  <1>7. S!Replaces(f, g)
    <2>1. S!Running = t
      BY <1>1, RunningView
    <2>2. Stacks[t] = StackOf(t)
      BY <1>1 DEF Stacks
    <2>3. Stacks[S!Running] # <<>> /\ Head(Stacks[S!Running]) = f
      BY <1>2, <2>1, <2>2
    <2>4. Stacks' = [Stacks EXCEPT ![S!Running] = g \o Tail(@)]
      BY <1>6, <2>1
    <2>5. QED
      BY <1>1, <2>3, <2>4 DEF S!Replaces, Stacks
  <1>8. QED
    BY <1>3, <1>7

-----------------------------------------------------------------------------
(* Steps of the top activation                                             *)

\* Stack s is b but for what is at the top, of thread t: g, before rest.
Above(s, b, t, g, rest) ==
  /\ Stacked(s) /\ s # <<>> /\ LastOf(s).thread = t
  /\ OnStack(s) = OnStack(b) /\ ResumedIn(s) = ResumedIn(b)
  /\ g \in Seq(Kinds) /\ rest \in Seq(Kinds) /\ StackIn(s, t) = g \o rest
  /\ \A u : u # t => StackIn(s, u) = StackIn(b, u)

LEMMA PushAbove ==
  ASSUME NEW s, NEW b, NEW t \in Threads, NEW g, NEW rest, Above(s, b, t, g, rest), NEW f \in Kinds
  PROVE  /\ Act(f, t) \in Activations
         /\ Above(Append(s, Act(f, t)), b, t, <<f>> \o g, rest)
  <1> DEFINE a == Act(f, t)
             n == Append(s, a)
  <1>1. /\ a.frame = f /\ a.thread = t /\ f # "resume" /\ f \in Frames /\ a = [frame |-> f, thread |-> t, todo |-> <<>>]
    BY DEF Act, Kinds, Saved, Protected, Frames
  <1>2. a \in Activations
    BY <1>1 DEF Activations
  <1>3. FramesOf(a) = <<f>>
    BY <1>1 DEF FramesOf
  <1> HIDE DEF a
  <1>4. s \in Seq(Activations)
    BY DEF Above, Stacked
  <1>5. /\ Stacked(n) /\ n # <<>> /\ LastOf(n) = a
        /\ OnStack(n) = OnStack(s) \cup {t}
    BY <1>1, <1>2, PushStacked DEF Above
  <1>6. t \in OnStack(s)
    <2>1. Len(s) \in 1..Len(s)
      BY <1>4 DEF Above
    <2>2. QED
      BY <2>1 DEF Above, OnStack, LastOf
  <1>7. ResumedIn(n) = ResumedIn(s)
    BY <1>1, <1>2, <1>4, ResumedPush
  <1>8. StackIn(n, t) = <<f>> \o StackIn(s, t)
    BY <1>1, <1>2, <1>3, <1>4, StackInPush
  <1>9. ASSUME NEW u, u # t
        PROVE  StackIn(n, u) = StackIn(s, u)
    BY <1>1, <1>2, <1>4, <1>9, StackInPush
  <1> HIDE DEF n
  <1>10. <<f>> \o g \in Seq(Kinds) /\ StackIn(n, t) = (<<f>> \o g) \o rest
    <2>1. <<f>> \in Seq(Kinds) /\ g \in Seq(Kinds) /\ rest \in Seq(Kinds) /\ StackIn(s, t) = g \o rest
      BY DEF Above
    <2>2. <<f>> \o g \in Seq(Kinds)
      BY <2>1, ConcatProperties
    <2>3. (<<f>> \o g) \o rest = <<f>> \o (g \o rest)
      BY <2>1, ConcatAssociative
    <2>4. QED
      BY <1>8, <2>1, <2>2, <2>3
  <1>11. Above(n, b, t, <<f>> \o g, rest)
    BY <1>1, <1>5, <1>6, <1>7, <1>9, <1>10 DEF Above
  <1>12. QED
    BY <1>2, <1>11 DEF n, a

\* An activation that is no call of Resume, and the stack without it.
LEMMA PlainTop ==
  ASSUME OwnPlain, acts # <<>>, Top.frame # "resume", NEW t \in Threads, t = Top.thread
  PROVE  \E rest \in Seq(Kinds) :
           /\ Top.frame \in Kinds
           /\ StackIn(acts, t) = <<Top.frame>> \o rest
           /\ Above(Popped, acts, t, <<>>, rest)
           /\ Above(acts, acts, t, <<Top.frame>>, rest)
  <1> DEFINE rest == StackIn(Popped, t)
  <1>1. /\ Stacked(acts) /\ Stacked(Popped) /\ Top = LastOf(acts)
        /\ Popped \in Seq(Activations) /\ Top \in Activations
        /\ OnStack(Popped) = OnStack(acts)
        /\ Popped # <<>> /\ LastOf(Popped).thread = t
    BY TopOf
  <1>2. /\ StackIn(acts, t) = FramesOf(Top) \o rest
        /\ \A u : u # t => StackIn(acts, u) = StackIn(Popped, u)
        /\ ResumedIn(acts) = ResumedIn(Popped)
    BY TopAdds
  <1>3. FramesOf(Top) = <<Top.frame>> /\ Top.frame \in Kinds
    BY <1>1, FramesFacts
  <1>4. rest \in Seq(Kinds) /\ rest = <<>> \o rest
    BY <1>1, StackKinds, ConcatEmptySeq
  <1>5. <<>> \in Seq(Kinds) /\ <<Top.frame>> \in Seq(Kinds)
    BY <1>3
  <1>6. Above(Popped, acts, t, <<>>, rest)
    BY <1>1, <1>2, <1>4, <1>5 DEF Above
  <1>7. Above(acts, acts, t, <<Top.frame>>, rest)
    BY <1>1, <1>2, <1>3, <1>4, <1>5 DEF Above
  <1>8. QED
    BY <1>2, <1>3, <1>4, <1>6, <1>7

\* Where an error may not pass.
DeepIn(s) ==
  \E i \in 1..Len(s) : /\ s[i].todo # <<>> /\ Head(s[i].todo) = "lua"
                       /\ \E j \in 1..Len(s[i].todo) : s[i].todo[j] \in Protected

LEMMA DeepFacts ==
  /\ DeepErrorAhead <=> DeepIn(acts)
  /\ DeepErrorAhead' <=> DeepIn(acts')
  /\ \A s \in Seq(Activations) : s # <<>> /\ ~DeepIn(s) => ~DeepIn(Front(s))
  <1>1. DeepErrorAhead <=> DeepIn(acts)
    BY DEF DeepErrorAhead, DeepIn
  <1>2. DeepErrorAhead' <=> DeepIn(acts')
    BY DEF DeepErrorAhead, DeepIn
  <1>3. ASSUME NEW s \in Seq(Activations), s # <<>>, DeepIn(Front(s))
        PROVE  DeepIn(s)
    <2>1. /\ Len(s) \in Nat \ {0} /\ Len(Front(s)) = Len(s) - 1
          /\ \A i \in 1..(Len(s) - 1) : Front(s)[i] = s[i]
      BY <1>3, FrontFacts
    <2> DEFINE u == Front(s)
    <2> HIDE DEF u
    <2>2. PICK i \in 1..Len(u) : /\ u[i].todo # <<>> /\ Head(u[i].todo) = "lua"
                                 /\ \E j \in 1..Len(u[i].todo) : u[i].todo[j] \in Protected
      BY <1>3 DEF DeepIn, u
    <2>3. i \in 1..Len(s) /\ u[i] = s[i]
      BY <2>1 DEF u
    <2>4. QED
      BY <2>2, <2>3 DEF DeepIn
  <1>4. QED
    BY <1>1, <1>2, <1>3

LEMMA KeepPlain ==
  ASSUME OwnPlain, signal # "yield", signal' # "yield", Stacked(acts'), OnStack(acts') = OnStack(acts),
         UNCHANGED <<status, yielded, conts, entered>>, signal' = "err" => ~DeepIn(acts')
  PROVE  OwnPlain'
  <1>1. Shapes = {} /\ Standing
    BY DEF OwnPlain
  <1>2. Standing'
    <2>1. \A t : ~Leaving(t) /\ ~Leaving(t)'
      BY DEF Leaving
    <2>2. QED
      BY <1>1, <2>1 DEF Standing
  <1>3. signal' = "err" => ~DeepErrorAhead'
    BY DeepFacts
  <1>4. QED
    BY <1>1, <1>2, <1>3 DEF OwnPlain

LEMMA StepAbove ==
  ASSUME OwnPlain, acts # <<>>, signal # "yield", signal' # "yield",
         NEW t \in Threads, t = Top.thread,
         NEW f \in Kinds, NEW g, NEW rest,
         StackIn(acts, t) = <<f>> \o rest, Above(acts', acts, t, g, rest),
         UNCHANGED <<status, yielded, conts, entered>>,
         signal' = "err" => ~DeepIn(acts')
  PROVE  /\ OwnPlain' /\ S!Replaces(f, g)
         /\ Lives' = Lives /\ ResumedThreads' = ResumedThreads
         /\ Mode = signal /\ Mode' = signal'
  <1>1. OwnPlain'
    BY KeepPlain DEF Above
  <1>2. SameLives
    BY DEF SameLives
  <1>3. S!Replaces(f, g) /\ Lives' = Lives
    BY <1>2, ReplaceStep DEF Above
  <1>4. ResumedThreads' = ResumedThreads
    BY DEF Above, ResumedThreads
  <1>5. Mode = signal /\ Mode' = signal'
    BY DEF Mode
  <1>6. QED
    BY <1>1, <1>3, <1>4, <1>5

\* LuaRuns: the top is a Lua function of t.
LEMMA RunningTop ==
  ASSUME NEW t, LuaRuns(t)
  PROVE  acts # <<>> /\ Top.frame = "lua" /\ Top.frame # "resume" /\ Top.thread = t /\ signal = "run"
  BY DEF LuaRuns, TopIs

LEMMA CallPlain ==
  ASSUME OwnPlain, NEW t \in Threads, Call(t)
  PROVE  OwnPlain' /\ S!Call
  <1>1. /\ acts # <<>> /\ Top.frame = "lua" /\ Top.frame # "resume" /\ Top.thread = t /\ signal = "run"
        /\ UNCHANGED <<status, yielded, conts, entered, signal>>
        /\ \E f \in {<<>>, <<Act("pcall", t)>>, <<Act("xpcall", t)>>} :
             acts' = acts \o f \o <<Act("lua", t)>>
    BY RunningTop DEF Call, threadVars, contVars
  <1>2. PICK rest \in Seq(Kinds) : /\ StackIn(acts, t) = <<"lua">> \o rest
                                   /\ Above(acts, acts, t, <<"lua">>, rest)
    BY <1>1, PlainTop
  <1>3. "lua" \in Kinds /\ "pcall" \in Kinds /\ "xpcall" \in Kinds
    BY DEF Kinds, Saved, Protected
  <1>4. acts \in Seq(Activations)
    BY <1>2 DEF Above, Stacked
  <1>5. \A f \in {"lua", "pcall", "xpcall"} : Act(f, t) \in Activations
    BY <1>2, <1>3, PushAbove
  <1>6. signal # "yield" /\ signal' # "yield" /\ signal' # "err"
    BY <1>1
  <1>7. CASE acts' = acts \o <<>> \o <<Act("lua", t)>>
    <2>1. acts' = Append(acts, Act("lua", t))
      BY <1>4, <1>5, <1>7
    <2>2. Above(acts', acts, t, <<"lua">> \o <<"lua">>, rest)
      BY <1>2, <1>3, <2>1, PushAbove
    <2>3. /\ OwnPlain' /\ S!Replaces("lua", <<"lua">> \o <<"lua">>)
          /\ Lives' = Lives /\ ResumedThreads' = ResumedThreads /\ Mode = signal /\ Mode' = signal'
      BY <1>1, <1>2, <1>3, <1>6, <2>2, StepAbove
    <2>4. <<"lua">> \o <<>> \o <<"lua">> = <<"lua">> \o <<"lua">>
      OBVIOUS
    <2>5. QED
      BY <1>1, <2>3, <2>4 DEF S!Call, Lives, Mode
  <1>8. ASSUME NEW p \in {"pcall", "xpcall"}, acts' = acts \o <<Act(p, t)>> \o <<Act("lua", t)>>
        PROVE  OwnPlain' /\ S!Call
    <2>1. acts' = Append(Append(acts, Act(p, t)), Act("lua", t))
      <3>1. Act(p, t) \in Activations /\ Act("lua", t) \in Activations
        BY <1>5
      <3>2. QED
        BY <1>4, <1>8, <3>1
    <2>2. Above(Append(acts, Act(p, t)), acts, t, <<p>> \o <<"lua">>, rest)
      BY <1>2, <1>3, PushAbove
    <2>3. Above(acts', acts, t, <<"lua">> \o (<<p>> \o <<"lua">>), rest)
      BY <1>3, <2>1, <2>2, PushAbove
    <2>4. /\ OwnPlain' /\ S!Replaces("lua", <<"lua">> \o (<<p>> \o <<"lua">>))
          /\ Lives' = Lives /\ ResumedThreads' = ResumedThreads /\ Mode = signal /\ Mode' = signal'
      BY <1>1, <1>2, <1>3, <1>6, <2>3, StepAbove
    <2>5. <<"lua">> \o <<p>> \o <<"lua">> = <<"lua">> \o (<<p>> \o <<"lua">>)
      OBVIOUS
    <2>6. QED
      BY <1>1, <2>4, <2>5 DEF S!Call, Lives, Mode
  <1>9. QED
    BY <1>1, <1>7, <1>8

LEMMA LibraryPlain ==
  ASSUME OwnPlain, NEW t \in Threads, CallFromLibrary(t)
  PROVE  OwnPlain' /\ S!Call
  <1>1. /\ acts # <<>> /\ Top.frame = "lua" /\ Top.frame # "resume" /\ Top.thread = t /\ signal = "run"
        /\ UNCHANGED <<status, yielded, conts, entered, signal>>
        /\ acts' = acts \o <<Act("callback", t), Act("lua", t)>>
    BY RunningTop DEF CallFromLibrary, threadVars, contVars
  <1>2. PICK rest \in Seq(Kinds) : /\ StackIn(acts, t) = <<"lua">> \o rest
                                   /\ Above(acts, acts, t, <<"lua">>, rest)
    BY <1>1, PlainTop
  <1>3. "lua" \in Kinds /\ "callback" \in Kinds
    BY DEF Kinds, Saved, Protected
  <1>4. acts \in Seq(Activations) /\ Act("callback", t) \in Activations /\ Act("lua", t) \in Activations
    BY <1>2, <1>3, PushAbove DEF Above, Stacked
  <1>5. acts' = Append(Append(acts, Act("callback", t)), Act("lua", t))
    BY <1>1, <1>4
  <1>6. Above(Append(acts, Act("callback", t)), acts, t, <<"callback">> \o <<"lua">>, rest)
    BY <1>2, <1>3, PushAbove
  <1>7. Above(acts', acts, t, <<"lua">> \o (<<"callback">> \o <<"lua">>), rest)
    BY <1>3, <1>5, <1>6, PushAbove
  <1>8. signal # "yield" /\ signal' # "yield" /\ signal' # "err"
    BY <1>1
  <1>9. /\ OwnPlain' /\ S!Replaces("lua", <<"lua">> \o (<<"callback">> \o <<"lua">>))
        /\ Lives' = Lives /\ ResumedThreads' = ResumedThreads /\ Mode = signal /\ Mode' = signal'
    BY <1>1, <1>2, <1>3, <1>7, <1>8, StepAbove
  <1>10. <<"lua">> \o <<"callback">> \o <<"lua">> = <<"lua">> \o (<<"callback">> \o <<"lua">>)
    OBVIOUS
  <1>11. QED
    BY <1>1, <1>9, <1>10 DEF S!Call, Lives, Mode

LEMMA LeavePlain ==
  ASSUME OwnPlain, NEW t \in Threads, Return(t) \/ Fail(t)
  PROVE  OwnPlain' /\ S!Leave
  <1>1. /\ acts # <<>> /\ Top.frame = "lua" /\ Top.frame # "resume" /\ Top.thread = t /\ signal = "run"
        /\ UNCHANGED <<status, yielded, conts, entered>>
        /\ acts' = Popped /\ signal' \in {"ret", "err"}
        /\ signal' = "err" => ~DeepErrorAhead
    BY RunningTop DEF Return, Fail, threadVars, contVars, OwnPlain
  <1>2. PICK rest \in Seq(Kinds) : /\ StackIn(acts, t) = <<"lua">> \o rest
                                   /\ Above(Popped, acts, t, <<>>, rest)
    BY <1>1, PlainTop
  <1>3. "lua" \in Kinds
    BY DEF Kinds, Saved
  <1>4. signal' = "err" => ~DeepIn(acts')
    BY <1>1, TopOf, DeepFacts
  <1>5. signal # "yield" /\ signal' # "yield" /\ Above(acts', acts, t, <<>>, rest)
    BY <1>1, <1>2
  <1>6. /\ OwnPlain' /\ S!Replaces("lua", <<>>)
        /\ Lives' = Lives /\ ResumedThreads' = ResumedThreads /\ Mode = signal /\ Mode' = signal'
    BY <1>1, <1>2, <1>3, <1>4, <1>5, StepAbove
  <1>7. QED
    BY <1>1, <1>6 DEF S!Leave, Lives, Mode

-----------------------------------------------------------------------------
(* Steps that deliver a result or an error                                 *)

LEMMA FrameKinds ==
  /\ "lua" \in Kinds /\ "pcall" \in Kinds /\ "xpcall" \in Kinds /\ "handler" \in Kinds
  /\ "callback" \in Kinds /\ "resume" \notin Kinds
  /\ "lua" \in Saved /\ "pcall" \in Saved /\ "xpcall" \in Saved /\ "handler" \in Saved
  BY DEF Kinds, Saved, Protected

LEMMA Pair == <<"lua">> \o (<<"handler">> \o <<>>) = <<"lua", "handler">>
  <1>1. <<"handler">> \o <<>> = <<"handler">>
    BY FrameKinds, ConcatEmptySeq
  <1> DEFINE u == <<"lua">> \o <<"handler">>
             v == <<"lua", "handler">>
  <1>2. /\ <<"lua">> \in Seq(Kinds) /\ Len(<<"lua">>) = 1 /\ <<"lua">>[1] = "lua"
        /\ <<"handler">> \in Seq(Kinds) /\ Len(<<"handler">>) = 1 /\ <<"handler">>[1] = "handler"
        /\ v \in Seq(Kinds) /\ Len(v) = 2 /\ v[1] = "lua" /\ v[2] = "handler"
    BY FrameKinds
  <1>3. /\ u \in Seq(Kinds) /\ Len(u) = 1 + 1
        /\ \A i \in 1 .. 1 + 1 : u[i] = IF i <= 1 THEN <<"lua">>[i] ELSE <<"handler">>[i - 1]
    BY <1>2, ConcatProperties
  <1>4. u[1] = "lua" /\ u[2] = "handler"
    BY <1>2, <1>3
  <1> HIDE DEF u, v
  <1>5. Len(u) = 2 /\ \A i \in 1..2 : i = 1 \/ i = 2
    BY <1>3
  <1>6. u = v
    BY <1>2, <1>3, <1>4, <1>5, SeqEqual
  <1>7. QED
    BY <1>1, <1>6 DEF u, v

\* The end of a call that does not run anything else.
LEMMA EndsPlain ==
  ASSUME OwnPlain, NEW t \in Threads,
         LuaReceives(t) \/ LuaFails(t) \/ ProtectedEnds(t) \/ CallbackEnds(t)
  PROVE  OwnPlain' /\ S!Deliver
  <1>1. /\ acts # <<>> /\ Top.frame \in Kinds /\ Top.frame # "resume" /\ Top.thread = t
        /\ signal \in {"ret", "err"} /\ signal # "yield"
        /\ UNCHANGED <<status, yielded, conts, entered>>
    BY FrameKinds DEF LuaReceives, LuaFails, ProtectedEnds, CallbackEnds, TopIs, Kinds, Saved, threadVars, contVars
  <1>2. PICK rest \in Seq(Kinds) : /\ StackIn(acts, t) = <<Top.frame>> \o rest
                                   /\ Above(Popped, acts, t, <<>>, rest)
                                   /\ Above(acts, acts, t, <<Top.frame>>, rest)
    BY <1>1, PlainTop
  <1>3. acts' = Popped /\ signal' = signal => (signal' = "err" => ~DeepIn(acts'))
    BY <1>1, TopOf, DeepFacts DEF OwnPlain
  <1>4. CASE LuaReceives(t)
    <2>1. Top.frame = "lua" /\ acts' = acts /\ signal = "ret" /\ signal' = "run"
      BY <1>4 DEF LuaReceives, TopIs
    <2>2. Above(acts', acts, t, <<"lua">>, rest) /\ signal' # "yield" /\ signal' # "err"
      BY <1>2, <2>1
    <2>3. /\ OwnPlain' /\ S!Replaces("lua", <<"lua">>)
          /\ Lives' = Lives /\ ResumedThreads' = ResumedThreads /\ Mode = signal /\ Mode' = signal'
      BY <1>1, <1>2, <2>1, <2>2, StepAbove
    <2>4. S!LuaReceives
      BY <2>1, <2>3 DEF S!LuaReceives, Mode
    <2>5. QED
      BY <2>1, <2>3, <2>4 DEF S!Deliver, Lives, Mode
  <1>5. CASE LuaFails(t)
    <2>1. Top.frame = "lua" /\ acts' = Popped /\ signal = "err" /\ signal' = "err"
      BY <1>5 DEF LuaFails, TopIs
    <2>2. Above(acts', acts, t, <<>>, rest) /\ signal' # "yield" /\ ~DeepIn(acts')
      BY <1>2, <1>3, <2>1
    <2>3. /\ OwnPlain' /\ S!Replaces("lua", <<>>)
          /\ Lives' = Lives /\ ResumedThreads' = ResumedThreads /\ Mode = signal /\ Mode' = signal'
      BY <1>1, <1>2, <2>1, <2>2, StepAbove
    <2>4. S!LuaFails
      BY <2>1, <2>3 DEF S!LuaFails, Mode
    <2>5. QED
      BY <2>1, <2>3, <2>4 DEF S!Deliver, Lives, Mode
  <1>6. CASE ProtectedEnds(t)
    <2>1. /\ Top.frame \in {"pcall", "xpcall", "handler"} /\ acts' = Popped /\ signal' = "ret"
          /\ Top.frame = "xpcall" => signal = "ret"
      BY <1>1, <1>6 DEF ProtectedEnds, Protected
    <2>2. Above(acts', acts, t, <<>>, rest) /\ signal' # "yield" /\ signal' # "err"
      BY <1>2, <2>1
    <2>3. PICK f : f = Top.frame
      OBVIOUS
    <2>4. StackIn(acts, t) = <<f>> \o rest /\ f \in Kinds
      BY <1>1, <1>2, <2>3
    <2>5. /\ OwnPlain' /\ S!Replaces(f, <<>>)
          /\ Lives' = Lives /\ ResumedThreads' = ResumedThreads /\ Mode = signal /\ Mode' = signal'
      BY <1>1, <2>2, <2>4, StepAbove
    <2>6. S!ProtectedEnds(f)
      BY <2>1, <2>5 DEF S!ProtectedEnds, Mode
    <2>7. QED
      BY <1>1, <2>1, <2>3, <2>5, <2>6 DEF S!Deliver, Lives, Mode
  <1>7. CASE CallbackEnds(t)
    <2>1. Top.frame = "callback" /\ acts' = Popped /\ signal' = signal
      BY <1>7 DEF CallbackEnds, TopIs
    <2>2. Above(acts', acts, t, <<>>, rest) /\ signal' # "yield" /\ (signal' = "err" => ~DeepIn(acts'))
      BY <1>1, <1>2, <1>3, <2>1
    <2>3. /\ OwnPlain' /\ S!Replaces("callback", <<>>)
          /\ Lives' = Lives /\ ResumedThreads' = ResumedThreads /\ Mode = signal /\ Mode' = signal'
      BY <1>1, <1>2, <2>1, <2>2, StepAbove
    <2>4. S!CallbackEnds
      BY <2>1, <2>3 DEF S!CallbackEnds, Mode
    <2>5. QED
      BY <1>1, <2>1, <2>3, <2>4 DEF S!Deliver, Lives, Mode
  <1>8. QED
    BY <1>4, <1>5, <1>6, <1>7

LEMMA HandlerPlain ==
  ASSUME OwnPlain, NEW t \in Threads, HandlerStarts(t)
  PROVE  OwnPlain' /\ S!Deliver
  <1>1. /\ acts # <<>> /\ Top.frame = "xpcall" /\ Top.frame # "resume" /\ Top.thread = t
        /\ signal = "err" /\ signal' = "run" /\ signal # "yield" /\ signal' # "yield" /\ signal' # "err"
        /\ UNCHANGED <<status, yielded, conts, entered>>
        /\ acts' = Popped \o <<Act("handler", t), Act("lua", t)>>
    BY DEF HandlerStarts, TopIs, threadVars, contVars
  <1>2. PICK rest \in Seq(Kinds) : /\ StackIn(acts, t) = <<"xpcall">> \o rest
                                   /\ Above(Popped, acts, t, <<>>, rest)
    BY <1>1, PlainTop
  <1>3. PICK p : p = Popped
    OBVIOUS
  <1>4. Above(p, acts, t, <<>>, rest) /\ p \in Seq(Activations)
    BY <1>2, <1>3 DEF Above, Stacked
  <1>5. /\ Act("handler", t) \in Activations
        /\ Above(Append(p, Act("handler", t)), acts, t, <<"handler">> \o <<>>, rest)
    BY <1>4, FrameKinds, PushAbove
  <1>6. /\ Act("lua", t) \in Activations
        /\ Above(Append(Append(p, Act("handler", t)), Act("lua", t)), acts, t,
                 <<"lua">> \o (<<"handler">> \o <<>>), rest)
    BY <1>5, FrameKinds, PushAbove
  <1>7. acts' = Append(Append(p, Act("handler", t)), Act("lua", t))
    BY <1>1, <1>3, <1>4, <1>5, <1>6
  <1>8. <<"lua">> \o (<<"handler">> \o <<>>) = <<"lua", "handler">>
    BY Pair
  <1>9. Above(acts', acts, t, <<"lua", "handler">>, rest)
    BY <1>6, <1>7, <1>8
  <1>10. /\ OwnPlain' /\ S!Replaces("xpcall", <<"lua", "handler">>)
         /\ Lives' = Lives /\ ResumedThreads' = ResumedThreads /\ Mode = signal /\ Mode' = signal'
    BY <1>1, <1>2, <1>9, FrameKinds, StepAbove
  <1>11. S!HandlerStarts
    BY <1>1, <1>10 DEF S!HandlerStarts, Mode
  <1>12. QED
    BY <1>1, <1>10, <1>11 DEF S!Deliver, Lives, Mode

\* Another activation in place of the top.
WithTop(s, a) == [s EXCEPT ![Len(s)] = a]

LEMMA ReplaceLast ==
  ASSUME NEW Elem, NEW s \in Seq(Elem), s # <<>>, NEW a \in Elem
  PROVE  WithTop(s, a) = Append(Front(s), a)
  <1> DEFINE r == [s EXCEPT ![Len(s)] = a]
             u == Append(Front(s), a)
             N == Len(s)
  <1>1. /\ Front(s) \in Seq(Elem) /\ N \in Nat \ {0} /\ Len(Front(s)) = N - 1
        /\ \A i \in 1..(N - 1) : Front(s)[i] = s[i]
    BY FrontFacts
  <1>2. r \in Seq(Elem) /\ Len(r) = N /\ r[N] = a /\ \A i \in 1..(N - 1) : r[i] = s[i]
    <2>1. \A i \in 1..(N - 1) : i \in 1..N /\ i # N
      BY <1>1
    <2>2. N \in 1..N
      BY <1>1
    <2>3. QED
      BY <2>1, <2>2
  <1>3. /\ u \in Seq(Elem) /\ Len(u) = (N - 1) + 1 /\ u[(N - 1) + 1] = a
        /\ \A i \in 1..(N - 1) : u[i] = Front(s)[i]
    BY <1>1, AppendFacts
  <1> HIDE DEF r, u
  <1>4. ASSUME NEW i \in 1..N
        PROVE  r[i] = u[i]
    <2>1. CASE i = N
      BY <1>1, <1>2, <1>3, <2>1
    <2>2. CASE i # N
      <3>1. i \in 1..(N - 1)
        BY <1>1, <2>2
      <3>2. QED
        BY <1>1, <1>2, <1>3, <3>1
    <2>3. QED
      BY <2>1, <2>2
  <1>5. Len(u) = N
    BY <1>1, <1>3
  <1>6. r = u
    BY <1>2, <1>3, <1>4, <1>5, SeqEqual
  <1>7. QED
    BY <1>6 DEF r, u, WithTop

LEMMA RestFacts ==
  ASSUME OwnPlain, acts # <<>>, Top.frame = "resume", NEW t \in Threads, t = Top.thread,
         NEW c \in Seq(Saved)
  PROVE  /\ [acts EXCEPT ![Len(acts)].todo = c] = Append(Popped, ResumeAct(t, c))
         /\ Top.todo = c => Top = ResumeAct(t, c)
  <1>1. /\ acts \in Seq(Activations) /\ Popped = Front(acts) /\ Top \in Activations
        /\ Top = acts[Len(acts)]
    BY TopOf DEF LastOf
  <1>2. ResumeAct(t, c) \in Activations
    BY DEF ResumeAct, Activations, Frames
  <1>3. [Top EXCEPT !.todo = c] = ResumeAct(t, c)
    BY <1>1 DEF Activations, ResumeAct
  <1>4. [acts EXCEPT ![Len(acts)].todo = c] = [acts EXCEPT ![Len(acts)] = [Top EXCEPT !.todo = c]]
    BY <1>1
  <1>5. WithTop(acts, ResumeAct(t, c)) = Append(Popped, ResumeAct(t, c))
    BY <1>1, <1>2, ReplaceLast
  <1>6. Top.todo = c => Top = ResumeAct(t, c)
    BY <1>1 DEF Activations, ResumeAct
  <1>7. QED
    BY <1>3, <1>4, <1>5, <1>6 DEF WithTop

\* A call of Resume with c to run, in place of the one at the top.
LeftToRun(r, t, c) ==
  /\ LastOf(r) = ResumeAct(t, c)
  /\ Stacked(r) /\ r # <<>> /\ LastOf(r).thread = t
  /\ OnStack(r) = OnStack(acts) /\ ResumedIn(r) = ResumedIn(acts)
  /\ StackIn(r, t) = c \o StackIn(Popped, t)
  /\ \A u : u # t => StackIn(r, u) = StackIn(acts, u)

LEMMA Retodo ==
  ASSUME OwnPlain, acts # <<>>, Top.frame = "resume", NEW t \in Threads, t = Top.thread,
         NEW c \in Seq(Saved)
  PROVE  LeftToRun(Append(Popped, ResumeAct(t, c)), t, c)
  <1> DEFINE a == ResumeAct(t, c)
             r == Append(Popped, a)
  <1>1. PICK p : p = Popped
    OBVIOUS
  <1>2. /\ p \in Seq(Activations)
        /\ Stacked(p) /\ t \notin OnStack(p) /\ acts = Append(p, Top)
        /\ OnStack(acts) = OnStack(p) \cup {t}
    BY <1>1, TopOf
  <1>3. a \in Activations /\ a.frame = "resume" /\ a.thread = t /\ a.todo = c
    BY DEF ResumeAct, Activations, Frames
  <1>4. FramesOf(a) = c
    BY <1>3 DEF FramesOf
  <1>5. r = Append(p, a)
    BY <1>1 DEF r
  <1> HIDE DEF a, r
  <1>7. /\ Stacked(r) /\ r # <<>> /\ LastOf(r) = a /\ OnStack(r) = OnStack(p) \cup {t}
    BY <1>2, <1>3, <1>5, PushStacked
  <1>8. /\ ResumedIn(r) = Append(ResumedIn(p), t)
        /\ ResumedIn(acts) = Append(ResumedIn(p), t)
    BY <1>1, <1>2, <1>3, <1>5, ResumedPush, TopAdds
  <1>9. StackIn(r, t) = c \o StackIn(p, t)
    BY <1>2, <1>3, <1>4, <1>5, StackInPush
  <1>10. ASSUME NEW u, u # t
         PROVE  StackIn(r, u) = StackIn(acts, u)
    <2>1. StackIn(r, u) = StackIn(p, u)
      BY <1>2, <1>3, <1>5, <1>10, StackInPush
    <2>2. StackIn(acts, u) = StackIn(p, u)
      BY <1>1, <1>10, TopAdds
    <2>3. QED
      BY <2>1, <2>2
  <1>11. QED
    BY <1>1, <1>2, <1>3, <1>4, <1>7, <1>8, <1>9, <1>10 DEF LeftToRun, a, r

\* The next continuation of a chain runs where its activation was.
LEMMA LoopPlain ==
  ASSUME OwnPlain, NEW t \in Threads, LoopRuns(t)
  PROVE  OwnPlain' /\ S!Deliver
  <1>1. PICK r : r = [acts EXCEPT ![Len(acts)].todo = Tail(@)]
    OBVIOUS
  <1>2. PICK f : f = Head(Top.todo)
    OBVIOUS
  <1>3. /\ acts # <<>> /\ Top.frame = "resume" /\ Top.thread = t /\ Top.todo # <<>>
        /\ UNCHANGED <<status, yielded, conts, entered>>
        /\ signal \in {"ret", "err"} /\ signal # "yield"
        /\ \/ f = "lua" /\ signal = "ret" /\ acts' = Append(r, Act("lua", t)) /\ signal' = "run"
           \/ f = "xpcall" /\ signal = "err" /\ acts' = r \o <<Act("handler", t), Act("lua", t)>> /\ signal' = "run"
           \/ /\ f \in Protected /\ ~(f = "xpcall" /\ signal = "err")
              /\ acts' = r /\ signal' = "ret"
    BY <1>1, <1>2 DEF LoopRuns, TopIs, threadVars, contVars
  <1>4. /\ Top \in Activations /\ acts \in Seq(Activations) /\ Popped \in Seq(Activations)
        /\ Top = acts[Len(acts)]
    BY <1>3, TopOf DEF LastOf
  <1>5. Top.todo \in Seq(Saved)
    BY <1>4 DEF Activations
  <1>6. PICK c : c = Tail(Top.todo)
    OBVIOUS
  <1>7. f \in Saved /\ c \in Seq(Saved) /\ Top.todo = <<f>> \o c
    <2>1. f \in Saved /\ c \in Seq(Saved) /\ Len(c) = Len(Top.todo) - 1
          /\ \A i \in 1..Len(c) : c[i] = Top.todo[i + 1]
      BY <1>2, <1>3, <1>5, <1>6, HeadTailProperties
    <2>2. /\ <<f>> \o c \in Seq(Saved) /\ Len(<<f>> \o c) = 1 + Len(c)
          /\ \A i \in 1 .. 1 + Len(c) : (<<f>> \o c)[i] = IF i <= 1 THEN <<f>>[i] ELSE c[i - 1]
      BY <2>1, ConcatProperties
    <2>3. Len(Top.todo) \in Nat \ {0} /\ Top.todo[1] = f
      BY <1>2, <1>3, <1>5
    <2> DEFINE d == Top.todo
    <2> HIDE DEF d
    <2>4. ASSUME NEW i \in 1..Len(d)
          PROVE  (<<f>> \o c)[i] = d[i]
      <3>1. Len(d) = 1 + Len(c) /\ Len(c) \in Nat
        BY <2>1, <2>3 DEF d
      <3>2. CASE i = 1
        BY <2>2, <2>3, <3>1, <3>2 DEF d
      <3>3. CASE i # 1
        <4>1. i - 1 \in 1..Len(c) /\ (i - 1) + 1 = i /\ ~(i <= 1) /\ i \in 1 .. 1 + Len(c)
          BY <3>1, <3>3
        <4>2. c[i - 1] = d[i]
          BY <2>1, <4>1 DEF d
        <4>3. QED
          BY <2>2, <4>1, <4>2
      <3>4. QED
        BY <3>2, <3>3
    <2>5. d \in Seq(Saved) /\ Len(<<f>> \o c) = Len(d)
      BY <1>5, <2>1, <2>2, <2>3 DEF d
    <2>6. <<f>> \o c = d
      BY <2>2, <2>4, <2>5, SeqEqual
    <2>7. QED
      BY <2>1, <2>6 DEF d
  <1>8. r = Append(Popped, ResumeAct(t, c))
    <2>1. r = [acts EXCEPT ![Len(acts)].todo = c]
      BY <1>1, <1>4, <1>6
    <2>2. QED
      BY <1>3, <1>7, <2>1, RestFacts
  <1>9. /\ Stacked(r) /\ r # <<>> /\ LastOf(r).thread = t
        /\ OnStack(r) = OnStack(acts) /\ ResumedIn(r) = ResumedIn(acts)
        /\ StackIn(r, t) = c \o StackIn(Popped, t)
        /\ \A u : u # t => StackIn(r, u) = StackIn(acts, u)
    <2>1. acts # <<>> /\ Top.frame = "resume" /\ t = Top.thread
      BY <1>3
    <2>2. QED
      BY <1>7, <1>8, <2>1, Retodo DEF LeftToRun
  <1>10. PICK rest : rest = c \o StackIn(Popped, t)
    OBVIOUS
  <1>11. c \in Seq(Kinds) /\ f \in Kinds /\ StackIn(Popped, t) \in Seq(Kinds) /\ rest \in Seq(Kinds)
    <2>1. c \in Seq(Kinds) /\ f \in Kinds
      BY <1>7 DEF Kinds
    <2>2. StackIn(Popped, t) \in Seq(Kinds)
      BY <1>4, StackKinds
    <2>3. QED
      BY <1>10, <2>1, <2>2, ConcatProperties
  <1>12. StackIn(acts, t) = <<f>> \o rest
    <2>1. StackIn(acts, t) = FramesOf(Top) \o StackIn(Popped, t)
      BY <1>3, TopAdds
    <2>2. FramesOf(Top) = <<f>> \o c
      BY <1>3, <1>7 DEF FramesOf
    <2>3. <<f>> \in Seq(Kinds)
      BY <1>11
    <2>4. (<<f>> \o c) \o StackIn(Popped, t) = <<f>> \o (c \o StackIn(Popped, t))
      BY <1>11, <2>3, ConcatAssociative
    <2>5. QED
      BY <1>10, <2>1, <2>2, <2>4
  <1>13. Above(r, acts, t, <<>>, rest) /\ r \in Seq(Activations)
    <2>1. <<>> \o rest = rest
      BY <1>11, ConcatEmptySeq
    <2>2. r \in Seq(Activations) /\ <<>> \in Seq(Kinds)
      BY <1>9 DEF Stacked
    <2>3. QED
      BY <1>9, <1>10, <1>11, <2>1, <2>2 DEF Above
  <1>14. CASE f = "lua" /\ signal = "ret" /\ acts' = Append(r, Act("lua", t)) /\ signal' = "run"
    <2>1. Above(acts', acts, t, <<"lua">> \o <<>>, rest)
      BY <1>13, <1>14, FrameKinds, PushAbove
    <2>2. <<"lua">> \o <<>> = <<"lua">> /\ signal' # "yield" /\ signal' # "err"
      BY <1>14
    <2>3. /\ OwnPlain' /\ S!Replaces("lua", <<"lua">>)
          /\ Lives' = Lives /\ ResumedThreads' = ResumedThreads /\ Mode = signal /\ Mode' = signal'
      BY <1>3, <1>12, <1>14, <2>1, <2>2, FrameKinds, StepAbove
    <2>4. S!LuaReceives
      BY <1>14, <2>3 DEF S!LuaReceives, Mode
    <2>5. QED
      BY <1>3, <2>3, <2>4 DEF S!Deliver, Lives, Mode
  <1>15. CASE /\ f = "xpcall" /\ signal = "err" /\ signal' = "run"
              /\ acts' = r \o <<Act("handler", t), Act("lua", t)>>
    <2>1. /\ Act("handler", t) \in Activations
          /\ Above(Append(r, Act("handler", t)), acts, t, <<"handler">> \o <<>>, rest)
      BY <1>13, FrameKinds, PushAbove
    <2>2. /\ Act("lua", t) \in Activations
          /\ Above(Append(Append(r, Act("handler", t)), Act("lua", t)), acts, t,
                   <<"lua">> \o (<<"handler">> \o <<>>), rest)
      BY <2>1, FrameKinds, PushAbove
    <2>3. acts' = Append(Append(r, Act("handler", t)), Act("lua", t))
      BY <1>13, <1>15, <2>1, <2>2
    <2>4. <<"lua">> \o (<<"handler">> \o <<>>) = <<"lua", "handler">> /\ signal' # "yield" /\ signal' # "err"
      BY <1>15, Pair
    <2>5. Above(acts', acts, t, <<"lua", "handler">>, rest)
      BY <2>2, <2>3, <2>4
    <2>6. /\ OwnPlain' /\ S!Replaces("xpcall", <<"lua", "handler">>)
          /\ Lives' = Lives /\ ResumedThreads' = ResumedThreads /\ Mode = signal /\ Mode' = signal'
      BY <1>3, <1>12, <1>15, <2>4, <2>5, FrameKinds, StepAbove
    <2>7. S!HandlerStarts
      BY <1>15, <2>6 DEF S!HandlerStarts, Mode
    <2>8. QED
      BY <1>3, <2>6, <2>7 DEF S!Deliver, Lives, Mode
  <1>16. CASE /\ f \in Protected /\ ~(f = "xpcall" /\ signal = "err")
              /\ acts' = r /\ signal' = "ret"
    <2>1. Above(acts', acts, t, <<>>, rest) /\ signal' # "yield" /\ signal' # "err"
      BY <1>13, <1>16
    <2>2. /\ OwnPlain' /\ S!Replaces(f, <<>>)
          /\ Lives' = Lives /\ ResumedThreads' = ResumedThreads /\ Mode = signal /\ Mode' = signal'
      BY <1>3, <1>11, <1>12, <2>1, StepAbove
    <2>3. S!ProtectedEnds(f)
      BY <1>16, <2>2 DEF S!ProtectedEnds, Mode
    <2>4. f \in {"pcall", "handler"} \/ (f = "xpcall" /\ signal = "ret")
      BY <1>3, <1>16 DEF Protected
    <2>5. QED
      BY <1>3, <2>2, <2>3, <2>4 DEF S!Deliver, Lives, Mode
  <1>17. QED
    BY <1>3, <1>14, <1>15, <1>16

-----------------------------------------------------------------------------
(* A yield, and the Go stack it unwinds                                    *)

LEMMA YieldPlain ==
  ASSUME TypeOK, OwnPlain, NEW t \in Threads, Yield(t)
  PROVE  OwnPlain' /\ S!Yield
  <1>1. /\ acts # <<>> /\ Top.frame = "lua" /\ Top.frame # "resume" /\ Top.thread = t /\ signal = "run"
        /\ status' = [status EXCEPT ![t] = "suspended"] /\ runningThread' = resumeParent[t]
        /\ \E values \in BOOLEAN : yielded' = [yielded EXCEPT ![t] = values]
        /\ signal' = "yield" /\ status[t] = "running"
        /\ UNCHANGED <<conts, last, entered>>
    BY RunningTop DEF Yield, contVars
  <1>2. /\ acts' \in {acts, Popped} \cup {Append(acts, Act(f, t)) : f \in {"pcall", "xpcall"}}
        /\ YieldShape(t, acts')
    BY DEF Yield
  <1>3. /\ LastOf(acts').frame \notin Protected
        /\ ~(LastOf(acts').frame = "resume" /\ LastOf(acts').todo = <<>>)
        /\ resumeParent[t] # Main =>
             ~ \E i \in 1..Len(acts') : acts'[i].thread = t /\ acts'[i].frame \in Protected
    BY <1>2 DEF YieldShape, OwnPlain, LastOf
  <1>4. PICK rest \in Seq(Kinds) : /\ StackIn(acts, t) = <<"lua">> \o rest
                                   /\ Above(Popped, acts, t, <<>>, rest)
                                   /\ Above(acts, acts, t, <<"lua">>, rest)
    BY <1>1, PlainTop
  <1>5. acts' \in {acts, Popped}
    <2>1. ASSUME NEW f \in {"pcall", "xpcall"}, acts' = Append(acts, Act(f, t))
          PROVE  FALSE
      <3>1. Act(f, t) \in Activations /\ acts \in Seq(Activations)
        <4>1. f \in Kinds
          BY FrameKinds
        <4>2. acts \in Seq(Activations)
          BY <1>4 DEF Above, Stacked
        <4>3. QED
          BY <1>4, <4>1, <4>2, PushAbove
      <3>2. LastOf(acts') = Act(f, t)
        BY <2>1, <3>1, AppendFacts DEF LastOf
      <3>3. LastOf(acts').frame \in Protected
        BY <3>2 DEF Act, Protected
      <3>4. QED
        BY <1>3, <3>3
    <2>2. QED
      BY <1>2, <2>1
  <1>6. PICK g \in {<<>>, <<"lua">>} : Above(acts', acts, t, g, rest)
    BY <1>4, <1>5
  <1>7. /\ Stacked(acts') /\ acts' # <<>> /\ LastOf(acts').thread = t
        /\ OnStack(acts') = OnStack(acts) /\ ResumedIn(acts') = ResumedIn(acts)
        /\ g \in Seq(Kinds)
    BY <1>6 DEF Above
  <1>8. t \in OnStack(acts) /\ t \in entered
    BY <1>1, TopOf
  <1>9. Standing'
    <2>1. \A u : Leaving(u)' <=> u = t
      BY <1>1, <1>7 DEF Leaving, Top, LastOf
    <2>2. \A u : ~Leaving(u)
      BY <1>1 DEF Leaving
    <2>3. /\ \A u \in Threads : u # t => status'[u] = status[u] /\ yielded'[u] = yielded[u]
          /\ status'[t] = "suspended"
      BY <1>1 DEF TypeOK
    <2>4. \A u \in OnStack(acts) : u \in entered /\ status[u] = "running" /\ conts[u] = <<>>
      BY <2>2 DEF OwnPlain, Standing
    <2>5. entered \subseteq Threads
      BY DEF TypeOK
    <2>6. \A u \in Threads : conts[u] # <<>> \/ yielded[u] => u \in entered
      BY DEF OwnPlain, Standing
    <2>7. \A u \in Threads : u \in entered => status[u] # "none"
      BY DEF OwnPlain, Standing
    <2>8. \A u \in entered : u \in OnStack(acts) \/ status[u] = "dead" \/ conts[u] # <<>>
      BY DEF OwnPlain, Standing
    <2>9. \A u \in OnStack(acts)' :
            u \in entered' /\ IF Leaving(u)' THEN status'[u] = "suspended"
                              ELSE status'[u] = "running" /\ conts'[u] = <<>>
      BY <1>1, <1>7, <2>1, <2>3, <2>4, <2>5
    <2>10. \A u \in Threads : conts'[u] # <<>> \/ yielded'[u] => u \in entered'
      BY <1>1, <1>8, <2>3, <2>6
    <2>11. \A u \in Threads : u \in entered' => status'[u] # "none"
      BY <1>1, <2>3, <2>7
    <2>12. \A u \in entered' : u \in OnStack(acts)' \/ status'[u] = "dead" \/ conts'[u] # <<>>
      BY <1>1, <1>7, <1>8, <2>3, <2>5, <2>8
    <2>13. QED
      BY <2>9, <2>10, <2>11, <2>12 DEF Standing
  <1>10. Unwinding'
    <2>1. Top' = LastOf(acts')
      BY DEF Top, LastOf
    <2>2. OnTopThread(acts') # {} => runningThread' = Main
      BY <1>1, <1>3, <1>7 DEF OnTopThread
    <2>3. QED
      BY <1>3, <1>7, <2>1, <2>2 DEF Unwinding
  <1>11. OwnPlain'
    BY <1>1, <1>7, <1>9, <1>10 DEF OwnPlain
  <1>12. S!Replaces("lua", g) /\ Lives' = Lives
    <2>1. SameLives
      BY <1>1 DEF SameLives, TypeOK
    <2>2. /\ StackIn(acts', t) = g \o rest /\ signal # "yield" /\ "lua" \in Kinds
          /\ \A u \in Threads : u # t => StackIn(acts', u) = StackIn(acts, u)
      BY <1>1, <1>6, FrameKinds DEF Above
    <2>3. QED
      BY <1>1, <1>4, <1>7, <2>1, <2>2, ReplaceStep
  <1>13. ResumedThreads' = S!Back
    BY <1>1, <1>7 DEF ResumedThreads, S!Back, WithoutLast
  <1>14. Mode = "run" /\ Mode' = "ret"
    BY <1>1 DEF Mode
  <1>15. QED
    BY <1>11, <1>12, <1>13, <1>14 DEF S!Yield, Lives, Mode

\* What a coroutine has on the Go stack goes over to what is saved for it.
LEMMA MovesStep ==
  ASSUME TypeOK, signal = "yield", Mode' = "ret", ResumedThreads' = ResumedThreads,
         UNCHANGED <<status, entered>>,
         \A u \in Threads : conts'[u] \o StackIn(acts', u) = conts[u] \o StackIn(acts, u)
  PROVE  UNCHANGED S!vars
  <1>1. \A u \in Threads : StackOf(u)' = StackOf(u)
    BY DEF StackOf, Chain
  <1>2. Stacks' = Stacks
    BY <1>1 DEF Stacks
  <1>3. Lives' = Lives
    BY DEF Lives
  <1>4. Mode' = Mode
    BY DEF Mode
  <1>5. QED
    BY <1>2, <1>3, <1>4 DEF S!vars, Stacks, Lives, Mode

\* While a yield unwinds, the conditions on threads that stay as they are.
LEMMA SavedStanding ==
  ASSUME TypeOK, OwnPlain, signal = "yield", signal' = "yield", acts # <<>>, acts' # <<>>,
         NEW t \in Threads, t = Top.thread, LastOf(acts').thread = t,
         NEW c, conts' = [conts EXCEPT ![t] = c],
         OnStack(acts') = OnStack(acts),
         UNCHANGED <<status, yielded, entered>>
  PROVE  Standing'
  <1>1. (\A u : Leaving(u) <=> u = t) /\ (\A u : Leaving(u)' <=> u = t)
    BY DEF Leaving, Top, LastOf
  <1>2. \A u \in Threads : u # t => conts'[u] = conts[u]
    BY DEF TypeOK
  <1>3. t \in OnStack(acts) /\ t \in entered
    BY TopOf
  <1>4. entered \subseteq Threads
    BY DEF TypeOK
  <1>5. \A u \in OnStack(acts) : /\ u \in entered
                                 /\ IF u = t THEN status[u] = "suspended"
                                    ELSE status[u] = "running" /\ conts[u] = <<>>
    BY <1>1 DEF OwnPlain, Standing
  <1>6. /\ \A u \in Threads : conts[u] # <<>> \/ yielded[u] => u \in entered
        /\ \A u \in Threads : u \in entered => status[u] # "none"
        /\ \A u \in entered : u \in OnStack(acts) \/ status[u] = "dead" \/ conts[u] # <<>>
    BY DEF OwnPlain, Standing
  <1>7. \A u \in OnStack(acts)' : /\ u \in entered'
                                  /\ IF Leaving(u)' THEN status'[u] = "suspended"
                                     ELSE status'[u] = "running" /\ conts'[u] = <<>>
    BY <1>1, <1>2, <1>4, <1>5
  <1>8. \A u \in Threads : conts'[u] # <<>> \/ yielded'[u] => u \in entered'
    BY <1>2, <1>3, <1>6
  <1>9. \A u \in Threads : u \in entered' => status'[u] # "none"
    BY <1>6
  <1>10. \A u \in entered' : u \in OnStack(acts)' \/ status'[u] = "dead" \/ conts'[u] # <<>>
    BY <1>2, <1>3, <1>4, <1>6
  <1>11. QED
    BY <1>7, <1>8, <1>9, <1>10 DEF Standing

LEMMA SavesPlain ==
  ASSUME TypeOK, OwnPlain, signal = "yield", signal' = "yield", acts # <<>>, Top.frame \in Saved,
         NEW t \in Threads, t = Top.thread, acts' = Popped,
         conts' = [conts EXCEPT ![t] = Append(@, Top.frame)], last' = t,
         UNCHANGED <<status, runningThread, yielded, entered>>
  PROVE  OwnPlain' /\ UNCHANGED S!vars
  <1>1. PICK f \in Saved : f = Top.frame
    OBVIOUS
  <1>2. f # "resume" /\ f \in Kinds
    BY DEF Saved, Protected, Kinds
  <1>3. PICK rest \in Seq(Kinds) : /\ StackIn(acts, t) = <<f>> \o rest
                                   /\ Above(Popped, acts, t, <<>>, rest)
    BY <1>1, <1>2, PlainTop
  <1>4. /\ Stacked(acts') /\ acts' # <<>> /\ LastOf(acts').thread = t
        /\ OnStack(acts') = OnStack(acts) /\ ResumedIn(acts') = ResumedIn(acts)
        /\ StackIn(acts', t) = <<>> \o rest
        /\ \A u : u # t => StackIn(acts', u) = StackIn(acts, u)
    BY <1>3 DEF Above
  <1>5. conts[t] \in Seq(Saved) /\ conts'[t] = Append(conts[t], f) /\ \A u \in Threads : u # t => conts'[u] = conts[u]
    BY <1>1 DEF TypeOK
  <1>6. Standing'
    <2>1. conts' = [conts EXCEPT ![t] = Append(conts[t], Top.frame)]
      OBVIOUS
    <2>2. QED
      BY <1>4, <2>1, SavedStanding
  <1>7. Unwinding'
    <2>1. Unwinding
      BY DEF OwnPlain
    <2>2. Top' = LastOf(acts')
      BY DEF Top, LastOf
    <2>3. conts'[t] # <<>>
      BY <1>5, AppendFacts
    <2>4. ASSUME NEW i \in OnTopThread(acts')
          PROVE  i \in OnTopThread(acts)
      <3>1. /\ acts \in Seq(Activations) /\ Popped = Front(acts) /\ LastOf(acts).thread = t
        BY TopOf
      <3>2. /\ Len(acts) \in Nat \ {0} /\ Len(acts') = Len(acts) - 1
            /\ \A j \in 1..(Len(acts) - 1) : acts'[j] = acts[j]
        BY <3>1, FrontFacts
      <3>3. i \in 1..Len(acts') /\ acts'[i].thread = t /\ acts'[i].frame \in Protected
        BY <1>4, <2>4 DEF OnTopThread
      <3>4. i \in 1..(Len(acts) - 1) /\ i \in 1..Len(acts)
        BY <3>2, <3>3
      <3>5. acts[i].thread = t /\ acts[i].frame \in Protected
        BY <3>2, <3>3, <3>4
      <3>6. QED
        BY <3>1, <3>4, <3>5 DEF OnTopThread
    <2>5. OnTopThread(acts') # {} => runningThread' = Main
      BY <2>1, <2>4 DEF Unwinding
    <2>6. QED
      BY <1>4, <2>2, <2>3, <2>5 DEF Unwinding
  <1>8. OwnPlain'
    BY <1>4, <1>6, <1>7 DEF OwnPlain
  <1>9. ASSUME NEW u \in Threads
        PROVE  conts'[u] \o StackIn(acts', u) = conts[u] \o StackIn(acts, u)
    <2>1. CASE u = t
      <3>1. conts[t] \in Seq(Kinds) /\ <<f>> \in Seq(Kinds)
        BY <1>2, <1>5 DEF Kinds
      <3>2. <<>> \o rest = rest
        BY ConcatEmptySeq
      <3>3. Append(conts[t], f) = conts[t] \o <<f>>
        BY <1>2, <3>1, AppendIsConcat
      <3>4. (conts[t] \o <<f>>) \o rest = conts[t] \o (<<f>> \o rest)
        <4>1. PICK a \in Seq(Kinds) : a = conts[t]
          BY <3>1
        <4>2. (a \o <<f>>) \o rest = a \o (<<f>> \o rest)
          BY <3>1, ConcatAssociative
        <4>3. QED
          BY <4>1, <4>2
      <3>5. QED
        BY <1>3, <1>4, <1>5, <2>1, <3>2, <3>3, <3>4
    <2>2. CASE u # t
      BY <1>4, <1>5, <2>2
    <2>3. QED
      BY <2>1, <2>2
  <1>10. Mode' = "ret" /\ ResumedThreads' = ResumedThreads
    BY <1>4 DEF Mode, ResumedThreads
  <1>11. QED
    BY <1>8, <1>9, <1>10, MovesStep

LEMMA LuaSavesPlain ==
  ASSUME TypeOK, OwnPlain, NEW t \in Threads, LuaSaves(t)
  PROVE  OwnPlain' /\ UNCHANGED S!vars
  <1>1. /\ signal = "yield" /\ signal' = "yield" /\ acts # <<>> /\ Top.frame = "lua" /\ Top.frame \in Saved
        /\ t = Top.thread /\ acts' = Popped
        /\ conts' = [conts EXCEPT ![t] = Append(@, Top.frame)] /\ last' = t
        /\ UNCHANGED <<status, runningThread, yielded, entered>>
    BY FrameKinds DEF LuaSaves, TopIs, Save
  <1>2. QED
    BY <1>1, SavesPlain

\* saveProtectedCallContinuation finds the coroutine that yielded: none runs,
\* and the continuation saved last is of that coroutine.
LEMMA SavesHere ==
  ASSUME OwnPlain, signal = "yield", acts # <<>>, Top.frame \in Protected,
         NEW t \in Threads, t = Top.thread
  PROVE  ProtectedThreads = {t}
  <1>1. Unwinding
    BY DEF OwnPlain
  <1>2. Top = LastOf(acts) /\ acts \in Seq(Activations)
    BY TopOf
  <1>3. Len(acts) \in OnTopThread(acts)
    <2>1. Len(acts) \in 1..Len(acts)
      BY <1>2
    <2>2. QED
      BY <1>2, <2>1 DEF OnTopThread, LastOf
  <1>4. last = t /\ runningThread = Main
    BY <1>1, <1>3 DEF Unwinding
  <1>5. QED
    BY <1>4, ThreadAssumption DEF ProtectedThreads, PendingThreads

LEMMA ProtectedSavesPlain ==
  ASSUME TypeOK, OwnPlain, NEW t \in Threads, ProtectedSaves(t)
  PROVE  OwnPlain' /\ UNCHANGED S!vars
  <1>1. /\ signal = "yield" /\ signal' = "yield" /\ acts # <<>> /\ Top.frame \in Protected
        /\ Top.frame \in Saved /\ t = Top.thread /\ acts' = Popped
        /\ UNCHANGED <<status, runningThread, yielded, entered>>
    BY DEF ProtectedSaves, Saved
  <1>2. ProtectedThreads = {t}
    BY <1>1, SavesHere
  <1>3. Save(t, Top.frame)
    BY <1>2 DEF ProtectedSaves
  <1>4. QED
    BY <1>1, <1>3, SavesPlain DEF Save

\* What the loop did not run goes behind what this yield saved.
LEMMA ParentPlain ==
  ASSUME TypeOK, OwnPlain, NEW t \in Threads, AppendParent(t)
  PROVE  OwnPlain' /\ UNCHANGED S!vars
  <1>1. PICK c : c = Top.todo
    OBVIOUS
  <1>2. /\ signal = "yield" /\ signal' = "yield" /\ acts # <<>> /\ Top.frame = "resume"
        /\ t = Top.thread /\ c # <<>>
        /\ acts' = [acts EXCEPT ![Len(acts)].todo = <<>>]
        /\ conts' = [conts EXCEPT ![t] = @ \o c] /\ last' = t
        /\ UNCHANGED <<status, runningThread, yielded, entered>>
    BY <1>1 DEF AppendParent, TopIs
  <1>3. /\ acts \in Seq(Activations) /\ Top \in Activations /\ Popped \in Seq(Activations)
        /\ Top = LastOf(acts)
    BY <1>2, TopOf
  <1>4. c \in Seq(Saved) /\ FramesOf(Top) = c /\ <<>> \in Seq(Saved)
    BY <1>1, <1>2, <1>3 DEF Activations, FramesOf
  <1>5. acts' = Append(Popped, ResumeAct(t, <<>>))
    BY <1>2, <1>4, RestFacts
  <1>6. LeftToRun(acts', t, <<>>)
    BY <1>2, <1>4, <1>5, Retodo
  <1>7. /\ LastOf(acts') = ResumeAct(t, <<>>)
        /\ Stacked(acts') /\ acts' # <<>> /\ LastOf(acts').thread = t
        /\ OnStack(acts') = OnStack(acts) /\ ResumedIn(acts') = ResumedIn(acts)
        /\ StackIn(acts', t) = <<>> \o StackIn(Popped, t)
        /\ \A u : u # t => StackIn(acts', u) = StackIn(acts, u)
    BY <1>6 DEF LeftToRun
  <1>8. conts[t] \in Seq(Saved) /\ conts'[t] = conts[t] \o c /\ \A u \in Threads : u # t => conts'[u] = conts[u]
    BY <1>2 DEF TypeOK
  <1>9. Standing'
    <2>1. conts' = [conts EXCEPT ![t] = conts[t] \o c]
      BY <1>2
    <2>2. QED
      BY <1>2, <1>7, <2>1, SavedStanding
  <1>10. Unwinding'
    <2>1. Unwinding
      BY <1>2 DEF OwnPlain
    <2>2. Top' = LastOf(acts')
      BY DEF Top, LastOf
    <2>3. conts'[t] # <<>>
      BY <1>2, <1>4, <1>8, ConcatEqualIffEmpty
    <2>4. ASSUME NEW i \in OnTopThread(acts')
          PROVE  i \in OnTopThread(acts)
      <3>1. i \in 1..Len(acts') /\ acts'[i].thread = t /\ acts'[i].frame \in Protected
        BY <1>7, <2>4 DEF OnTopThread
      <3>2. Len(acts') = Len(acts) /\ Len(acts) \in Nat
        BY <1>2, <1>3
      <3>3. i # Len(acts')
        BY <1>7, <3>1 DEF LastOf, ResumeAct, Protected
      <3>4. acts'[i] = acts[i]
        BY <1>2, <1>3, <3>1, <3>2, <3>3
      <3>5. QED
        BY <1>2, <1>3, <3>1, <3>2, <3>4 DEF OnTopThread
    <2>5. OnTopThread(acts') # {} => runningThread' = Main
      BY <1>2, <2>1, <2>4 DEF Unwinding
    <2>6. Top'.frame \notin Protected
      BY <1>7, <2>2 DEF ResumeAct, Protected
    <2>7. QED
      BY <1>7, <2>2, <2>3, <2>5, <2>6 DEF Unwinding
  <1>11. OwnPlain'
    BY <1>2, <1>7, <1>9, <1>10 DEF OwnPlain
  <1>12. ASSUME NEW u \in Threads
         PROVE  conts'[u] \o StackIn(acts', u) = conts[u] \o StackIn(acts, u)
    <2>1. CASE u = t
      <3>1. PICK r \in Seq(Kinds) : r = StackIn(Popped, t)
        BY <1>3, StackKinds
      <3>2. conts[t] \in Seq(Kinds) /\ c \in Seq(Kinds)
        BY <1>4, <1>8 DEF Kinds
      <3>3. <<>> \o r = r
        BY ConcatEmptySeq
      <3>4. (conts[t] \o c) \o r = conts[t] \o (c \o r)
        <4>1. PICK a \in Seq(Kinds) : a = conts[t]
          BY <3>2
        <4>2. (a \o c) \o r = a \o (c \o r)
          BY <3>2, ConcatAssociative
        <4>3. QED
          BY <4>1, <4>2
      <3>5. StackIn(acts, t) = c \o r
        BY <1>2, <1>4, <3>1, TopAdds
      <3>6. StackIn(acts', t) = r
        BY <1>7, <3>1, <3>3
      <3>7. QED
        BY <1>8, <2>1, <3>4, <3>5, <3>6
    <2>2. CASE u # t
      BY <1>7, <1>8, <2>2
    <2>3. QED
      BY <2>1, <2>2
  <1>13. Mode' = "ret" /\ ResumedThreads' = ResumedThreads
    BY <1>2, <1>7 DEF Mode, ResumedThreads
  <1>14. QED
    BY <1>2, <1>11, <1>12, <1>13, MovesStep

LEMMA FrontAppend ==
  ASSUME NEW Elem, NEW s \in Seq(Elem), NEW e \in Elem
  PROVE  Front(Append(s, e)) = s
  <1>1. /\ Append(s, e) \in Seq(Elem) /\ Len(Append(s, e)) = Len(s) + 1 /\ Append(s, e) # <<>>
        /\ Len(s) \in Nat /\ \A i \in 1..Len(s) : Append(s, e)[i] = s[i]
    BY AppendFacts
  <1>2. PICK q : q = Append(s, e)
    OBVIOUS
  <1>3. /\ Front(q) \in Seq(Elem) /\ Len(Front(q)) = Len(q) - 1
        /\ \A i \in 1..(Len(q) - 1) : Front(q)[i] = q[i]
    BY <1>1, <1>2, FrontFacts
  <1>4. Len(Front(q)) = Len(s) /\ \A i \in 1..Len(s) : Front(q)[i] = s[i]
    BY <1>1, <1>2, <1>3
  <1>5. Front(q) = s
    BY <1>3, <1>4, SeqEqual
  <1>6. QED
    BY <1>2, <1>5

\* The yield has reached the call of Resume: everything is saved.
LEMMA YieldedPlain ==
  ASSUME TypeOK, OwnPlain, NEW t \in Threads, ResumeYielded(t)
  PROVE  OwnPlain' /\ UNCHANGED S!vars
  <1>1. /\ signal = "yield" /\ signal' = "ret" /\ acts # <<>> /\ Top.frame = "resume"
        /\ Top = ResumeAct(t, <<>>) /\ Top.thread = t /\ Top.todo = <<>> /\ acts' = Popped
        /\ UNCHANGED <<status, yielded, conts, entered>>
    BY DEF ResumeYielded, TopIs, threadVars, contVars, ResumeAct
  <1>2. /\ Stacked(Popped) /\ t \notin OnStack(Popped) /\ OnStack(acts) = OnStack(Popped) \cup {t}
        /\ t \in entered /\ Popped \in Seq(Activations)
    BY <1>1, TopOf
  <1>3. conts[t] # <<>>
    BY <1>1 DEF OwnPlain, Unwinding
  <1>4. Standing'
    <2>1. (\A u : Leaving(u) <=> u = t) /\ (\A u : ~Leaving(u)')
      BY <1>1 DEF Leaving
    <2>2. \A u \in OnStack(acts) : /\ u \in entered
                                   /\ IF u = t THEN status[u] = "suspended"
                                      ELSE status[u] = "running" /\ conts[u] = <<>>
      BY <2>1 DEF OwnPlain, Standing
    <2>3. /\ \A u \in Threads : conts[u] # <<>> \/ yielded[u] => u \in entered
          /\ \A u \in Threads : u \in entered => status[u] # "none"
          /\ \A u \in entered : u \in OnStack(acts) \/ status[u] = "dead" \/ conts[u] # <<>>
      BY DEF OwnPlain, Standing
    <2>4. OnStack(acts)' = OnStack(Popped)
      BY <1>1
    <2>5. QED
      BY <1>1, <1>2, <1>3, <2>1, <2>2, <2>3, <2>4 DEF Standing
  <1>5. OwnPlain'
    BY <1>1, <1>2, <1>4 DEF OwnPlain
  <1>6. /\ StackIn(acts, t) = <<>> \o StackIn(Popped, t)
        /\ \A u : u # t => StackIn(acts, u) = StackIn(Popped, u)
        /\ ResumedIn(acts) = Append(ResumedIn(Popped), t)
    BY <1>1, TopAdds DEF FramesOf
  <1>7. StackIn(acts, t) = StackIn(Popped, t)
    BY <1>2, <1>6, StackKinds, ConcatEmptySeq
  <1>8. WithoutLast(ResumedIn(acts)) = ResumedIn(Popped)
    <2>1. PICK s \in Seq(Threads) : s = ResumedIn(Popped)
      <3>1. Top \in Activations
        BY <1>1, TopOf
      <3>2. QED
        BY <1>2, <3>1, ResumedPush
    <2>2. Front(Append(s, t)) = s
      BY FrontAppend
    <2>3. QED
      BY <1>6, <2>1, <2>2 DEF WithoutLast, Front
  <1>9. Mode' = "ret" /\ ResumedThreads' = ResumedThreads
    BY <1>1, <1>8 DEF Mode, ResumedThreads
  <1>10. \A u \in Threads : conts'[u] \o StackIn(acts', u) = conts[u] \o StackIn(acts, u)
    BY <1>1, <1>6, <1>7
  <1>11. QED
    BY <1>1, <1>5, <1>9, <1>10, MovesStep

-----------------------------------------------------------------------------
(* The life of a coroutine                                                 *)

LEMMA StacksChange ==
  ASSUME NEW t \in Threads, NEW v, StackOf(t)' = v,
         \A u \in Threads : u # t => StackOf(u)' = StackOf(u)
  PROVE  Stacks' = [Stacks EXCEPT ![t] = v]
  <1>1. Stacks' = [u \in Threads |-> StackOf(u)'] /\ Stacks = [u \in Threads |-> StackOf(u)]
    BY DEF Stacks
  <1>2. \A u \in Threads : StackOf(u)' = IF u = t THEN v ELSE StackOf(u)
    OBVIOUS
  <1>3. QED
    BY <1>1, <1>2

LEMMA LivesChange ==
  ASSUME NEW t \in Threads, NEW st, status' = [status EXCEPT ![t] = st],
         status \in [Threads -> {"none", "suspended", "running", "normal", "dead"}]
  PROVE  Lives' = [Lives EXCEPT ![t] = CASE st = "none" -> "none" [] st = "dead" -> "dead"
                                         [] OTHER -> "alive"]
  BY DEF Lives

LEMMA NotOnStack ==
  ASSUME OwnPlain, NEW t \in Threads, t \in OnStack(acts)
  PROVE  /\ t \in entered
         /\ signal = "yield" => status[t] \in {"suspended", "running"}
         /\ signal # "yield" => status[t] = "running" /\ conts[t] = <<>>
  BY DEF OwnPlain, Standing, Leaving

LEMMA CreatePlain ==
  ASSUME TypeOK, OwnPlain, NEW t \in Threads, Create(t)
  PROVE  OwnPlain' /\ S!Create(t)
  <1>1. /\ signal = "run" /\ signal' = "run" /\ status[t] = "none"
        /\ status' = [status EXCEPT ![t] = "suspended"]
        /\ UNCHANGED <<yielded, acts, conts, entered>>
    BY DEF Create, contVars
  <1>2. t \notin OnStack(acts) /\ t \notin entered
    BY <1>1, NotOnStack DEF OwnPlain, Standing
  <1>3. \A u \in Threads : u # t => status'[u] = status[u]
    BY <1>1 DEF TypeOK
  <1>4. status'[t] = "suspended"
    BY <1>1 DEF TypeOK
  <1>5. entered \subseteq Threads /\ conts[t] = <<>>
    BY <1>2 DEF TypeOK, OwnPlain, Standing
  <1>6. Standing'
    <2>1. \A u : ~Leaving(u) /\ ~Leaving(u)'
      BY <1>1 DEF Leaving
    <2>2. \A u \in OnStack(acts) : u \in entered /\ status[u] = "running" /\ conts[u] = <<>>
      BY <2>1 DEF OwnPlain, Standing
    <2>3. \A u \in entered : u # t /\ u \in Threads
      BY <1>2, <1>5
    <2>4. QED
      BY <1>1, <1>3, <2>1, <2>2, <2>3 DEF OwnPlain, Standing
  <1>7. OwnPlain'
    BY <1>1, <1>6 DEF OwnPlain
  <1>8. StackOf(t)' = <<"entry">>
    BY <1>1, <1>2, <1>4 DEF StackOf
  <1>9. ASSUME NEW u \in Threads, u # t
        PROVE  StackOf(u)' = StackOf(u)
    BY <1>1, <1>3, <1>9 DEF StackOf, Chain
  <1>10. Stacks' = [Stacks EXCEPT ![t] = <<"entry">>]
    BY <1>8, <1>9, StacksChange
  <1>11. Lives' = [Lives EXCEPT ![t] = "alive"] /\ Lives[t] = "none"
    <2>1. Lives' = [Lives EXCEPT ![t] = CASE "suspended" = "none" -> "none" [] "suspended" = "dead" -> "dead"
                                         [] OTHER -> "alive"]
      BY <1>1, LivesChange DEF TypeOK
    <2>2. Lives[t] = "none"
      BY <1>1 DEF Lives
    <2>3. QED
      BY <2>1, <2>2
  <1>12. ResumedThreads' = ResumedThreads /\ Mode = "run" /\ Mode' = "run"
    BY <1>1 DEF ResumedThreads, Mode
  <1>13. QED
    BY <1>7, <1>10, <1>11, <1>12 DEF S!Create, Lives, Stacks, Mode

\* Old yield values always come with a continuation.
LEMMA NoPeek ==
  ASSUME OwnPlain, MapsAgree, NEW t \in Threads, ResumePeek(t)
  PROVE  FALSE
  <1>1. /\ signal = "run" /\ status[t] \notin {"none", "dead", "running"}
        /\ yielded[t] /\ ~continuationPending[t]
    BY DEF ResumePeek, Resumable
  <1>2. t \in entered /\ t \notin OnStack(acts)
    BY <1>1, NotOnStack DEF OwnPlain, Standing
  <1>3. conts[t] # <<>>
    BY <1>1, <1>2 DEF OwnPlain, Standing
  <1>4. QED
    BY <1>1, <1>3 DEF MapsAgree

LEMMA EnterPlain ==
  ASSUME TypeOK, OwnPlain, NEW t \in Threads, ResumeEnter(t)
  PROVE  OwnPlain' /\ S!Resume(t)
  <1>1. /\ signal = "run" /\ status[t] \notin {"none", "dead", "running"}
        /\ status' = [status EXCEPT ![t] = "running"]
        /\ yielded' = [yielded EXCEPT ![t] = FALSE]
        /\ conts' = [conts EXCEPT ![t] = <<>>]
    BY DEF ResumeEnter, Resumable, Take
  <1>2. IF conts[t] = <<>>
        THEN /\ acts' = acts \o <<ResumeAct(t, <<>>), Act("lua", t)>>
             /\ entered' = entered \cup {t} /\ signal' = signal
        ELSE /\ acts' = Append(acts, ResumeAct(t, conts[t]))
             /\ signal' = "ret" /\ entered' = entered
    BY DEF ResumeEnter
  <1>3. t \notin OnStack(acts)
    BY <1>1, NotOnStack
  <1>4. Stacked(acts) /\ acts \in Seq(Activations)
    BY DEF OwnPlain, Stacked
  <1>5. conts[t] = <<>> <=> t \notin entered
    BY <1>1, <1>3 DEF OwnPlain, Standing
  <1>6. StackIn(acts, t) = <<>>
    BY <1>3, <1>4, NoneIn
  <1>7. /\ \A u \in Threads : u # t => status'[u] = status[u] /\ conts'[u] = conts[u] /\ yielded'[u] = yielded[u]
        /\ status'[t] = "running" /\ conts'[t] = <<>> /\ ~yielded'[t]
    BY <1>1 DEF TypeOK
  <1>8. conts[t] \in Seq(Saved) /\ entered \subseteq Threads
    BY DEF TypeOK
  \* Both ways t is pushed, with the stack v.
  <1> DEFINE Pushed(v) ==
        /\ Stacked(acts') /\ OnStack(acts') = OnStack(acts) \cup {t}
        /\ ResumedIn(acts') = Append(ResumedIn(acts), t)
        /\ StackIn(acts', t) = v /\ v \in Seq(Kinds)
        /\ \A u : u # t => StackIn(acts', u) = StackIn(acts, u)
  <1>9. ASSUME NEW c \in Seq(Saved), NEW r, r = Append(acts, ResumeAct(t, c))
        PROVE  /\ ResumeAct(t, c) \in Activations
               /\ Stacked(r) /\ r # <<>> /\ LastOf(r).thread = t
               /\ OnStack(r) = OnStack(acts) \cup {t}
               /\ ResumedIn(r) = Append(ResumedIn(acts), t)
               /\ StackIn(r, t) = c /\ c \in Seq(Kinds)
               /\ \A u : u # t => StackIn(r, u) = StackIn(acts, u)
    <2>1. PICK a : a = ResumeAct(t, c)
      OBVIOUS
    <2>2. a \in Activations /\ a.frame = "resume" /\ a.thread = t /\ a.todo = c
      BY <2>1 DEF ResumeAct, Activations, Frames
    <2>3. FramesOf(a) = c /\ c \in Seq(Kinds)
      BY <2>2 DEF FramesOf, Kinds
    <2>4. r = Append(acts, a)
      BY <1>9, <2>1
    <2>5. Stacked(r) /\ r # <<>> /\ LastOf(r) = a /\ OnStack(r) = OnStack(acts) \cup {t}
      BY <1>3, <1>4, <2>2, <2>4, PushStacked
    <2>6. ResumedIn(r) = Append(ResumedIn(acts), t)
      BY <1>4, <2>2, <2>4, ResumedPush
    <2>7. StackIn(r, t) = c \o <<>>
      BY <1>4, <1>6, <2>2, <2>3, <2>4, StackInPush
    <2>8. c \o <<>> = c
      BY <2>3, ConcatEmptySeq
    <2>9. ASSUME NEW u, u # t
          PROVE  StackIn(r, u) = StackIn(acts, u)
      BY <1>4, <2>2, <2>4, <2>9, StackInPush
    <2>10. QED
      BY <2>1, <2>2, <2>3, <2>5, <2>6, <2>7, <2>8, <2>9
  <1>10. ASSUME conts[t] = <<>>
         PROVE  Pushed(<<"lua">>)
    <2>1. PICK r : r = Append(acts, ResumeAct(t, <<>>))
      OBVIOUS
    <2>2. <<>> \in Seq(Saved)
      OBVIOUS
    <2>3. /\ ResumeAct(t, <<>>) \in Activations
          /\ Stacked(r) /\ r # <<>> /\ LastOf(r).thread = t
          /\ OnStack(r) = OnStack(acts) \cup {t}
          /\ ResumedIn(r) = Append(ResumedIn(acts), t)
          /\ StackIn(r, t) = <<>>
          /\ \A u : u # t => StackIn(r, u) = StackIn(acts, u)
      BY <1>9, <2>1, <2>2
    <2>4. PICK b : b = Act("lua", t)
      OBVIOUS
    <2>5. b \in Activations /\ b.frame = "lua" /\ b.frame # "resume" /\ b.thread = t
      BY <2>4 DEF Act, Activations, Frames, Saved
    <2>6. FramesOf(b) = <<"lua">> /\ <<"lua">> \in Seq(Kinds)
      BY <2>5, FrameKinds DEF FramesOf
    <2>7. acts' = Append(r, b)
      BY <1>2, <1>4, <1>10, <2>1, <2>3, <2>4, <2>5
    <2>8. r \in Seq(Activations)
      BY <2>3 DEF Stacked
    <2>9. Stacked(acts') /\ OnStack(acts') = OnStack(acts) \cup {t}
      BY <2>3, <2>5, <2>7, PushStacked
    <2>10. ResumedIn(acts') = Append(ResumedIn(acts), t)
      BY <2>3, <2>5, <2>7, <2>8, ResumedPush
    <2>11. StackIn(acts', t) = <<"lua">> \o <<>>
      BY <2>3, <2>5, <2>6, <2>7, <2>8, StackInPush
    <2>12. <<"lua">> \o <<>> = <<"lua">>
      BY <2>6, ConcatEmptySeq
    <2>13. ASSUME NEW u, u # t
           PROVE  StackIn(acts', u) = StackIn(acts, u)
      <3>1. StackIn(acts', u) = StackIn(r, u)
        BY <2>5, <2>7, <2>8, <2>13, StackInPush
      <3>2. QED
        BY <2>3, <2>13, <3>1
    <2>14. QED
      BY <2>6, <2>9, <2>10, <2>11, <2>12, <2>13
  <1>11. ASSUME conts[t] # <<>>
         PROVE  Pushed(conts[t])
    <2>1. PICK c \in Seq(Saved) : c = conts[t]
      BY <1>8
    <2>2. acts' = Append(acts, ResumeAct(t, c))
      BY <1>2, <1>11, <2>1
    <2>3. /\ Stacked(acts') /\ OnStack(acts') = OnStack(acts) \cup {t}
          /\ ResumedIn(acts') = Append(ResumedIn(acts), t)
          /\ StackIn(acts', t) = c /\ c \in Seq(Kinds)
          /\ \A u : u # t => StackIn(acts', u) = StackIn(acts, u)
      BY <1>9, <2>2
    <2>4. QED
      BY <2>1, <2>3
  <1>12. PICK v : v = (IF conts[t] = <<>> THEN <<"lua">> ELSE conts[t]) /\ Pushed(v)
    BY <1>10, <1>11
  <1> HIDE DEF Pushed
  <1>13. t \in entered' /\ entered' = entered \cup {t} /\ signal' \in {"run", "ret"}
    BY <1>1, <1>2, <1>5
  <1>14. Standing'
    <2>1. \A u : ~Leaving(u) /\ ~Leaving(u)'
      BY <1>1, <1>13 DEF Leaving
    <2>2. \A u \in OnStack(acts) : u \in entered /\ status[u] = "running" /\ conts[u] = <<>>
      BY <2>1 DEF OwnPlain, Standing
    <2>3. OnStack(acts)' = OnStack(acts) \cup {t}
      BY <1>12 DEF Pushed
    <2>4. /\ \A u \in Threads : conts[u] # <<>> \/ yielded[u] => u \in entered
          /\ \A u \in Threads : u \in entered => status[u] # "none"
          /\ \A u \in entered : u \in OnStack(acts) \/ status[u] = "dead" \/ conts[u] # <<>>
      BY DEF OwnPlain, Standing
    <2>5. \A u \in OnStack(acts)' : u \in entered' /\ status'[u] = "running" /\ conts'[u] = <<>>
      BY <1>7, <1>8, <1>13, <2>2, <2>3
    <2>6. \A u \in Threads : conts'[u] # <<>> \/ yielded'[u] => u \in entered'
      BY <1>7, <1>13, <2>4
    <2>7. \A u \in Threads : u \in entered' => status'[u] # "none"
      BY <1>7, <1>13, <2>4
    <2>8. \A u \in entered' : u \in OnStack(acts)' \/ status'[u] = "dead" \/ conts'[u] # <<>>
      BY <1>7, <1>8, <1>13, <2>3, <2>4
    <2>9. QED
      BY <2>1, <2>5, <2>6, <2>7, <2>8 DEF Standing
  <1>15. OwnPlain'
    BY <1>12, <1>13, <1>14 DEF OwnPlain, Pushed
  <1>16. StackOf(t)' = v
    <2>1. StackOf(t)' = conts'[t] \o StackIn(acts', t)
      BY <1>7, <1>13 DEF StackOf, Chain
    <2>2. StackIn(acts', t) = v /\ v \in Seq(Kinds)
      BY <1>12 DEF Pushed
    <2>3. QED
      BY <1>7, <2>1, <2>2, ConcatEmptySeq
  <1>17. ASSUME NEW u \in Threads, u # t
         PROVE  StackOf(u)' = StackOf(u)
    <2>1. StackIn(acts', u) = StackIn(acts, u)
      BY <1>12, <1>17 DEF Pushed
    <2>2. u \in entered' <=> u \in entered
      BY <1>13, <1>17
    <2>3. QED
      BY <1>7, <1>17, <2>1, <2>2 DEF StackOf, Chain
  <1>18. Stacks' = [Stacks EXCEPT ![t] = v]
    BY <1>16, <1>17, StacksChange
  <1>19. IF conts[t] = <<>> THEN Stacks[t] = <<"entry">> ELSE Stacks[t] = v /\ v # <<"entry">>
    <2>1. CASE conts[t] = <<>>
      BY <1>1, <1>5, <2>1 DEF Stacks, StackOf
    <2>2. CASE conts[t] # <<>>
      <3>1. StackOf(t) = conts[t] \o <<>>
        BY <1>1, <1>5, <1>6, <2>2 DEF StackOf, Chain
      <3>2. conts[t] \o <<>> = conts[t]
        BY <1>8, ConcatEmptySeq
      <3>3. v = conts[t]
        BY <1>12, <2>2
      <3>4. v # <<"entry">>
        BY <1>8, <3>3 DEF Saved, Protected
      <3>5. QED
        BY <2>2, <3>1, <3>2, <3>3, <3>4 DEF Stacks
    <2>3. QED
      BY <2>1, <2>2
  <1>20. ResumedThreads = ResumedIn(acts) /\ ResumedThreads' = Append(ResumedThreads, t)
    BY <1>1, <1>12, <1>13 DEF ResumedThreads, Pushed
  <1>21. t \notin S!Resumed
    <2>1. \A i \in 1..Len(ResumedThreads) : ResumedThreads[i] # t
      BY <1>3, <1>4, <1>20, ResumedOn
    <2>2. QED
      BY <2>1 DEF S!Resumed
  <1>22. Lives' = Lives /\ Lives[t] = "alive"
    BY <1>1, <1>7 DEF Lives
  <1>23. Mode = "run" /\ Mode' = IF conts[t] = <<>> THEN "run" ELSE "ret"
    BY <1>1, <1>2 DEF Mode
  <1>24. S!Resume(t)
    <2>1. CASE conts[t] = <<>>
      <3>1. v = <<"lua">>
        BY <1>12, <2>1
      <3>2. QED
        BY <1>18, <1>19, <1>20, <1>21, <1>22, <1>23, <2>1, <3>1 DEF S!Resume, Lives, Stacks, Mode
    <2>2. CASE conts[t] # <<>>
      <3>1. Stacks' = Stacks
        BY <1>18, <1>19, <2>2 DEF Stacks
      <3>2. QED
        BY <1>18, <1>19, <1>20, <1>21, <1>22, <1>23, <2>2, <3>1 DEF S!Resume, Lives, Stacks, Mode
    <2>3. QED
      BY <2>1, <2>2
  <1>25. QED
    BY <1>15, <1>24

\* The end of a coroutine.
LEMMA FinishPlain ==
  ASSUME TypeOK, OwnPlain, NEW t \in Threads, ResumeReturned(t) \/ ResumeFailed(t)
  PROVE  OwnPlain' /\ S!Finish
  <1>1. /\ acts # <<>> /\ Top.frame = "resume" /\ Top.thread = t
        /\ signal \in {"ret", "err"} /\ signal' \in {"ret", "err"}
        /\ signal' = "err" => signal = "err"
        /\ status' = [status EXCEPT ![t] = "dead"] /\ acts' = Popped
        /\ UNCHANGED <<yielded, conts, entered>>
    BY DEF ResumeReturned, ResumeFailed, Finished, TopIs, ResumeAct, contVars
  <1>2. /\ Stacked(Popped) /\ t \notin OnStack(Popped) /\ OnStack(acts) = OnStack(Popped) \cup {t}
        /\ t \in entered /\ Popped \in Seq(Activations) /\ Top \in Activations /\ Popped = Front(acts)
        /\ acts \in Seq(Activations) /\ t \in OnStack(acts)
    BY <1>1, TopOf
  <1>3. /\ ResumedThreads = ResumedIn(acts) /\ ResumedIn(acts) # <<>> /\ LastOf(ResumedIn(acts)) = t
        /\ Mode = signal /\ StackOf(t) = StackIn(acts, t) /\ status[t] = "running"
    <2>1. signal # "yield"
      BY <1>1
    <2>2. QED
      BY <1>1, <2>1, TopView
  <1>4. \A u \in Threads : u # t => status'[u] = status[u]
    BY <1>1 DEF TypeOK
  <1>5. status'[t] = "dead" /\ entered \subseteq Threads
    BY <1>1 DEF TypeOK
  <1>6. Standing'
    <2>1. \A u : ~Leaving(u) /\ ~Leaving(u)'
      BY <1>1 DEF Leaving
    <2>2. \A u \in OnStack(acts) : u \in entered /\ status[u] = "running" /\ conts[u] = <<>>
      BY <2>1 DEF OwnPlain, Standing
    <2>3. OnStack(acts)' = OnStack(Popped)
      BY <1>1
    <2>4. /\ \A u \in Threads : conts[u] # <<>> \/ yielded[u] => u \in entered
          /\ \A u \in Threads : u \in entered => status[u] # "none"
          /\ \A u \in entered : u \in OnStack(acts) \/ status[u] = "dead" \/ conts[u] # <<>>
      BY DEF OwnPlain, Standing
    <2>5. \A u \in OnStack(Popped) : u \in OnStack(acts) /\ u # t
      BY <1>2
    <2>6. QED
      BY <1>1, <1>2, <1>4, <1>5, <2>1, <2>2, <2>3, <2>4, <2>5 DEF Standing
  <1>7. signal' = "err" => ~DeepErrorAhead'
    BY <1>1, <1>2, DeepFacts DEF OwnPlain
  <1>8. OwnPlain'
    BY <1>1, <1>2, <1>6, <1>7 DEF OwnPlain
  <1>9. /\ StackIn(acts, t) = Top.todo
        /\ \A u : u # t => StackIn(Popped, u) = StackIn(acts, u)
        /\ ResumedIn(acts) = Append(ResumedIn(Popped), t)
    <2>1. /\ StackIn(acts, t) = FramesOf(Top) \o StackIn(Popped, t)
          /\ \A u : u # t => StackIn(acts, u) = StackIn(Popped, u)
          /\ ResumedIn(acts) = Append(ResumedIn(Popped), t)
      BY <1>1, TopAdds
    <2>2. FramesOf(Top) = Top.todo /\ Top.todo \in Seq(Saved)
      BY <1>1, <1>2, FramesFacts
    <2>3. StackIn(Popped, t) = <<>>
      BY <1>2, NoneIn
    <2>4. Top.todo \o <<>> = Top.todo
      BY <2>2, ConcatEmptySeq
    <2>5. QED
      BY <2>1, <2>2, <2>3, <2>4
  <1>10. StackOf(t)' = <<>>
    BY <1>5 DEF StackOf
  <1>11. ASSUME NEW u \in Threads, u # t
         PROVE  StackOf(u)' = StackOf(u)
    BY <1>1, <1>4, <1>9, <1>11 DEF StackOf, Chain
  <1>12. Stacks' = [Stacks EXCEPT ![t] = <<>>]
    BY <1>10, <1>11, StacksChange
  <1>13. Lives' = [Lives EXCEPT ![t] = "dead"]
    <2>1. Lives' = [Lives EXCEPT ![t] = CASE "dead" = "none" -> "none" [] "dead" = "dead" -> "dead"
                                         [] OTHER -> "alive"]
      BY <1>1, LivesChange DEF TypeOK
    <2>2. QED
      BY <2>1
  <1>14. ResumedThreads' = S!Back
    <2>1. ResumedThreads' = ResumedIn(Popped)
      BY <1>1 DEF ResumedThreads
    <2>2. ResumedIn(Popped) \in Seq(Threads)
      BY <1>2, ResumedPush
    <2>3. Front(ResumedIn(acts)) = ResumedIn(Popped)
      BY <1>9, <2>2, FrontAppend
    <2>4. QED
      BY <1>3, <2>1, <2>3 DEF S!Back, Front
  <1>15. S!Running = t /\ Stacks[t] = Top.todo
    BY <1>3, <1>9, RunningView DEF Stacks
  <1>16. Mode' = signal'
    BY <1>1 DEF Mode
  <1>17. CASE ResumeReturned(t)
    <2>1. signal = "ret" /\ signal' = "ret" /\ Top.todo = <<>>
      BY <1>17 DEF ResumeReturned, ResumeAct
    <2>2. QED
      BY <1>3, <1>8, <1>12, <1>13, <1>14, <1>15, <1>16, <2>1 DEF S!Finish, Lives, Stacks, Mode
  <1>18. CASE ResumeFailed(t)
    <2>1. signal = "err" /\ (Top.todo # <<>> => Head(Top.todo) = "lua")
      BY <1>18 DEF ResumeFailed
    <2>2. ~DeepIn(acts)
      BY <2>1, DeepFacts DEF OwnPlain
    <2>3. Top = acts[Len(acts)] /\ Len(acts) \in 1..Len(acts)
      BY <1>1, <1>2 DEF Top
    <2>4. Top.todo # <<>> => \A j \in 1..Len(Top.todo) : Top.todo[j] \notin Protected
      BY <2>1, <2>2, <2>3 DEF DeepIn
    <2>5. Top.todo \in Seq(Saved)
      BY <1>2 DEF Activations
    <2>6. \A j \in 1..Len(Top.todo) : Top.todo[j] = "lua"
      <3>1. TAKE j \in 1..Len(Top.todo)
      <3>2. Top.todo # <<>> /\ Top.todo[j] \in Saved
        BY <2>5
      <3>3. QED
        BY <2>4, <3>2 DEF Saved
    <2>7. QED
      BY <1>1, <1>3, <1>8, <1>12, <1>13, <1>14, <1>15, <1>16, <2>1, <2>6 DEF S!Finish, Lives, Stacks, Mode
  <1>19. QED
    BY <1>17, <1>18

LEMMA HostPlain ==
  ASSUME TypeOK, OwnPlain, HostReceives
  PROVE  OwnPlain' /\ S!HostReceives
  <1>1. /\ acts = <<>> /\ acts' = acts /\ signal \in {"ret", "err"} /\ signal' = "run"
        /\ signal # "yield" /\ signal' # "yield" /\ signal' # "err"
        /\ UNCHANGED <<status, yielded, conts, entered>>
    BY DEF HostReceives, threadVars, contVars
  <1>2. OwnPlain'
    BY <1>1, KeepPlain DEF OwnPlain
  <1>3. ResumedThreads = <<>> /\ ResumedThreads' = <<>> /\ Mode = signal /\ Mode' = "run"
    BY <1>1, EmptyFacts DEF ResumedThreads, Mode
  <1>4. Lives' = Lives /\ Stacks' = Stacks
    BY <1>1 DEF Lives, Stacks, StackOf, Chain
  <1>5. QED
    BY <1>1, <1>2, <1>3, <1>4 DEF S!HostReceives, Lives, Stacks, Mode

LEMMA PlainStutters ==
  ASSUME OwnPlain, UNCHANGED vars
  PROVE  OwnPlain' /\ UNCHANGED S!vars
  <1>1. UNCHANGED <<status, runningThread, yielded, acts, signal, conts, last, entered>>
    BY DEF vars
  <1>2. OwnPlain'
    BY <1>1 DEF OwnPlain, Standing, Leaving, Unwinding, DeepErrorAhead, Top
  <1>3. Lives' = Lives /\ Stacks' = Stacks /\ ResumedThreads' = ResumedThreads /\ Mode' = Mode
    BY <1>1 DEF Lives, Stacks, StackOf, Chain, ResumedThreads, Mode
  <1>4. QED
    BY <1>2, <1>3 DEF S!vars, Lives, Stacks, Mode

-----------------------------------------------------------------------------
(* The theorem                                                             *)

LEMMA PlainInit ==
  ASSUME Init, Shapes = {}
  PROVE  OwnPlain /\ S!Init
  <1>1. /\ acts = <<>> /\ Len(acts) = 0 /\ acts \in Seq(Activations) /\ signal = "run"
        /\ status = [t \in Threads |-> "none"] /\ conts = [t \in Threads |-> <<>>]
        /\ yielded = [t \in Threads |-> FALSE] /\ entered = {}
    BY DEF Init
  <1>2. Stacked(acts)
    BY <1>1 DEF Stacked, Owned, Distinct
  <1>3. OnStack(acts) = {}
    BY <1>1 DEF OnStack
  <1>4. Standing
    BY <1>1, <1>3 DEF Standing
  <1>5. OwnPlain
    BY <1>1, <1>2, <1>4 DEF OwnPlain
  <1>6. ResumedThreads = <<>> /\ Mode = "run"
    BY <1>1, EmptyFacts DEF ResumedThreads, Mode
  <1>7. Lives = [t \in Threads |-> "none"] /\ Stacks = [t \in Threads |-> <<>>]
    BY <1>1 DEF Lives, Stacks, StackOf
  <1>8. QED
    BY <1>5, <1>6, <1>7 DEF S!Init, Lives, Stacks, Mode

LEMMA PlainStep ==
  ASSUME TypeOK, MapsAgree, OwnPlain, [Next]_vars
  PROVE  OwnPlain' /\ [S!Next]_(S!vars)
  <1>1. ASSUME NEW t \in Threads, Program(t) PROVE OwnPlain' /\ S!Next
    <2>1. CASE Create(t)
      BY <2>1, CreatePlain DEF S!Next
    <2>2. CASE Call(t)
      BY <2>2, CallPlain DEF S!Next
    <2>3. CASE CallFromLibrary(t)
      BY <2>3, LibraryPlain DEF S!Next
    <2>4. CASE Return(t) \/ Fail(t)
      BY <2>4, LeavePlain DEF S!Next
    <2>5. CASE Yield(t)
      BY <2>5, YieldPlain DEF S!Next
    <2>6. QED
      BY <1>1, <2>1, <2>2, <2>3, <2>4, <2>5 DEF Program
  <1>2. ASSUME NEW t \in Threads, ThreadResume(t) PROVE OwnPlain' /\ [S!Next]_(S!vars)
    <2>1. CASE ResumePeek(t)
      BY <2>1, NoPeek
    <2>2. CASE ResumeEnter(t)
      BY <2>2, EnterPlain DEF S!Next
    <2>3. CASE ResumeReturned(t) \/ ResumeFailed(t)
      BY <2>3, FinishPlain DEF S!Next
    <2>4. CASE ResumeYielded(t)
      BY <2>4, YieldedPlain
    <2>5. QED
      BY <1>2, <2>1, <2>2, <2>3, <2>4 DEF ThreadResume
  <1>3. ASSUME NEW t \in Threads, Executor(t) PROVE OwnPlain' /\ [S!Next]_(S!vars)
    <2>1. CASE LoopRuns(t)
      BY <2>1, LoopPlain DEF S!Next
    <2>2. CASE AppendParent(t)
      BY <2>2, ParentPlain
    <2>3. CASE LuaReceives(t) \/ LuaFails(t) \/ ProtectedEnds(t) \/ CallbackEnds(t)
      BY <2>3, EndsPlain DEF S!Next
    <2>4. CASE LuaSaves(t)
      BY <2>4, LuaSavesPlain
    <2>5. CASE HandlerStarts(t)
      BY <2>5, HandlerPlain DEF S!Next
    <2>6. CASE ProtectedSaves(t)
      BY <2>6, ProtectedSavesPlain
    <2>7. QED
      BY <1>3, <2>1, <2>2, <2>3, <2>4, <2>5, <2>6 DEF Executor
  <1>4. CASE HostReceives
    BY <1>4, HostPlain DEF S!Next
  <1>5. CASE UNCHANGED vars
    BY <1>5, PlainStutters
  <1>6. QED
    BY <1>1, <1>2, <1>3, <1>4, <1>5 DEF Next

\* The shape of a Go stack and the places of the continuations, for programs
\* without the delicate shapes.
THEOREM PlainInvariant == Shapes = {} /\ Spec => []PlainInv
  <1>1. Shapes = {} /\ Init => PlainInv
    BY InvInit, PlainInit DEF PlainInv
  <1>2. PlainInv /\ [Next]_vars => PlainInv'
    BY InvStep, PlainStep DEF PlainInv, Inv, OwnInv
  <1>3. QED
    BY <1>1, <1>2, PTL DEF Spec

\* For programs without the delicate shapes no yield loses, doubles, reorders
\* or misplaces an activation, and every error reaches the protected call it is
\* inside of: saveLuaContinuation, saveProtectedCallContinuation,
\* appendContinuationParent and the loop of executeLuaThreadClosure keep every
\* coroutine's stack.
THEOREM RefinesStackful == Shapes = {} /\ Spec => ImplementsStackful
  <1>1. Shapes = {} /\ Init => S!Init
    BY PlainInit
  <1>2. PlainInv /\ [Next]_vars => [S!Next]_(S!vars)
    BY PlainStep DEF PlainInv, Inv, OwnInv
  <1>3. QED
    BY <1>1, <1>2, PlainInvariant, PTL DEF Spec, ImplementsStackful, S!Spec

\* The steps of a protected call a yield passes.
LEMMA ProtectedUnwinds ==
  ASSUME Next, signal = "yield", TopIs("pcall")
  PROVE  \E t \in Threads : ProtectedSaves(t) /\ t = Top.thread
  <1>1. signal \notin {"run", "ret", "err"} /\ acts # <<>> /\ Top.frame = "pcall"
        /\ Top.frame \notin {"lua", "resume", "callback"} /\ ~TopIs("lua") /\ ~TopIs("resume")
    BY DEF TopIs
  <1>2. ASSUME NEW t \in Threads, Program(t)
        PROVE  FALSE
    BY <1>1, <1>2 DEF Program, Create, Call, CallFromLibrary, Return, Fail, Yield, LuaRuns
  <1>3. ASSUME NEW t \in Threads, ThreadResume(t)
        PROVE  FALSE
    BY <1>1, <1>3
    DEF ThreadResume, ResumePeek, ResumeEnter, ResumeReturned, ResumeFailed, ResumeYielded, Resumable
  <1>4. ASSUME NEW t \in Threads, Executor(t)
        PROVE  ProtectedSaves(t) /\ t = Top.thread
    <2>1. ~LoopRuns(t) /\ ~AppendParent(t) /\ ~LuaReceives(t) /\ ~LuaFails(t) /\ ~LuaSaves(t)
      BY <1>1 DEF LoopRuns, AppendParent, LuaReceives, LuaFails, LuaSaves
    <2>2. ~ProtectedEnds(t) /\ ~HandlerStarts(t) /\ ~CallbackEnds(t)
      BY <1>1 DEF ProtectedEnds, HandlerStarts, CallbackEnds
    <2>3. ProtectedSaves(t)
      BY <1>4, <2>1, <2>2 DEF Executor
    <2>4. QED
      BY <2>3 DEF ProtectedSaves
  <1>5. ~HostReceives
    BY <1>1 DEF HostReceives
  <1>6. QED
    BY <1>2, <1>3, <1>4, <1>5 DEF Next

\* A yield through pcall saves its continuation for the coroutine that yielded,
\* in programs without the delicate shapes: saveProtectedCallContinuation finds
\* another coroutine only when one that was resumed by a coroutine yields.
THEOREM ProtectedCallKeptHolds == Shapes = {} /\ Spec => ProtectedCallKept
  <1>1. ASSUME PlainInv, Next, NEW t \in Threads,
               signal = "yield", TopIs("pcall"), Top.thread = t
        PROVE  conts'[t] = Append(conts[t], "pcall")
    <2>1. OwnPlain /\ TypeOK /\ Unwinding
      BY <1>1 DEF PlainInv, OwnPlain, Inv, OwnInv
    <2>2. ProtectedSaves(t)
      BY <1>1, ProtectedUnwinds
    <2>3. Top.frame = "pcall" /\ Top.frame \in Protected /\ acts # <<>>
      BY <1>1 DEF TopIs, Protected
    <2>4. ProtectedThreads = {t}
      BY <1>1, <2>1, <2>3, SavesHere
    <2>5. Save(t, "pcall")
      BY <2>2, <2>3, <2>4 DEF ProtectedSaves
    <2>6. QED
      BY <2>1, <2>5 DEF Save, TypeOK
  <1>2. PlainInv /\ [Next]_vars =>
          [\A t \in Threads :
             signal = "yield" /\ TopIs("pcall") /\ Top.thread = t /\ Len(acts') < Len(acts)
               => conts'[t] = Append(conts[t], "pcall")]_vars
    BY <1>1
  <1>3. QED
    BY <1>2, PlainInvariant, PTL DEF Spec, ProtectedCallKept

\* Only the first resume starts from the entry function, in programs without
\* the delicate shapes: executeLuaThreadClosure, which takes a coroutine without
\* continuations for a new one, is right unless the entry function yields in
\* tail position.
THEOREM EntryStartsOnceHolds == Shapes = {} /\ Spec => EntryStartsOnce
  <1>1. ASSUME PlainInv, NEW t \in entered, conts[t] = <<>>, ResumeEnter(t)
        PROVE  FALSE
    <2>1. OwnPlain /\ t \in Threads
      BY <1>1 DEF PlainInv, Inv, OwnInv, TypeOK
    <2>2. signal = "run" /\ status[t] \notin {"none", "dead", "running"}
      BY <1>1 DEF ResumeEnter, Resumable
    <2>3. t \notin OnStack(acts)
      BY <2>1, <2>2, NotOnStack
    <2>4. QED
      BY <1>1, <2>1, <2>2, <2>3 DEF OwnPlain, Standing
  <1>2. PlainInv /\ [Next]_vars => [\A t \in entered : conts[t] = <<>> => ~ResumeEnter(t)]_vars
    BY <1>1
  <1>3. QED
    BY <1>2, PlainInvariant, PTL DEF Spec, EntryStartsOnce

\* The loop of continuations ends with an error only when no protected call is
\* left in it, in programs without the delicate shapes: after a resume nothing
\* fails in a function called below pcall.
THEOREM ErrorReachesProtectedHolds == Shapes = {} /\ Spec => ErrorReachesProtected
  <1>1. ASSUME PlainInv, NEW t \in Threads, ResumeFailed(t), NEW i \in 1..Len(Top.todo)
        PROVE  Top.todo[i] \notin Protected
    <2>1. OwnPlain /\ acts # <<>> /\ signal = "err" /\ (Top.todo # <<>> => Head(Top.todo) = "lua")
      BY <1>1 DEF PlainInv, ResumeFailed, TopIs
    <2>2. ~DeepIn(acts)
      BY <2>1, DeepFacts DEF OwnPlain
    <2>3. acts \in Seq(Activations) /\ Top \in Activations
      BY <2>1, TopOf
    <2>4. Top.todo \in Seq(Saved)
      BY <2>3 DEF Activations
    <2>5. Top.todo # <<>>
      BY <1>1, <2>4
    <2>6. Top = acts[Len(acts)] /\ Len(acts) \in 1..Len(acts)
      BY <2>1, <2>3 DEF Top
    <2>7. QED
      BY <1>1, <2>1, <2>2, <2>5, <2>6 DEF DeepIn
  <1>2. PlainInv /\ [Next]_vars =>
          [\A t \in Threads :
             ResumeFailed(t) => \A i \in 1..Len(Top.todo) : Top.todo[i] \notin Protected]_vars
    BY <1>1
  <1>3. QED
    BY <1>2, PlainInvariant, PTL DEF Spec, ErrorReachesProtected
=============================================================================
