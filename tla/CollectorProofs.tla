-------------------------- MODULE CollectorProofs --------------------------
(***************************************************************************)
(* Theorems about Collector for any number of tables, of operations of the *)
(* program and of collections inside each other.                           *)
(***************************************************************************)
EXTENDS Collector, FiniteSetTheorems, SequenceTheorems, TLAPS

-----------------------------------------------------------------------------
(* The inductive invariant *)

\* A finalizer that runs or has returned was that of a finalized table.
Busy(run) == IF run.object = None THEN 0 ELSE 1
Counted ==
  /\ calls \in [Objects -> {0, 1}]
  /\ \A o \in Objects : calls[o] = 1 => o \in finalized
  /\ \A i \in DOMAIN runs : runs[i].count + Busy(runs[i]) <= Cardinality(finalized)

\* Every collection but the innermost waits for a finalizer and knows that
\* another one ran inside it.
Nested ==
  /\ \A i \in DOMAIN runs : i < Len(runs) => runs[i].nested /\ runs[i].object # None
  /\ \A i \in DOMAIN runs : runs[i].nested => ~debugLibrary
  /\ panicked => runs # <<>> /\ Top.nested

\* What a collection noted when it began is about tables registered by then.
Began ==
  /\ deferred \subseteq ToSet(queue) \cup finalized
  /\ \A i \in DOMAIN runs :
       /\ Len(runs[i].start) <= MaxObjects
       /\ ToSet(runs[i].start) \cup runs[i].late \subseteq ToSet(queue) \cup finalized
       /\ runs[i].kind = "full" =>
            heap.thread = "suspended" \/ runs[i].held \subseteq runs[i].strong
       /\ runs[i].swept => runs[i].ran

\* A collection inside which no other ran is alone to take tables from the
\* queue, and what it found keeps its order.
Alone == runs # <<>> /\ ~Top.nested
Ordered ==
  Alone =>
    /\ Top.index <= Len(queue)
    /\ \A j, k \in DOMAIN queue, a, b \in DOMAIN Top.start :
         Top.start[a] = queue[j] /\ Top.start[b] = queue[k] /\ j < k => a < b
    /\ \A j \in DOMAIN queue, a \in DOMAIN Top.start :
         Top.start[a] = queue[j] /\ j <= Top.index => a < Top.last

\* Without an error before it, it finds the tables it has not looked at where
\* they were, and has left those it has looked at for a reason.
Undisturbed ==
  Alone /\ ~Top.inserting =>
    /\ insertIndex = -1
    /\ \A j \in DOMAIN queue : j <= Top.index => queue[j] \in ToSet(Top.start)
Justified ==
  Alone /\ ~Top.inserting /\ Top.kind = "full" =>
    /\ ToSet(queue) \cap Top.late \subseteq deferred
    /\ \A j \in DOMAIN queue :
         j > Top.index /\ queue[j] \in ToSet(Top.start) =>
           queue[j] \in Top.strong \cup (deferred \ Top.late) \cup Top.passed

\* Weak tables are known to the State, and hold nothing before they exist.
WeakKnown == (heap.weak => hasWeakTables) /\ (~heap.weak => heap.values = {})

\* Until the first finalizer of a full collection, what it swept stays swept.
Swept ==
  /\ WeakKnown
  /\ runs # <<>> /\ Top.kind = "full" /\ Top.object = None /\ Top.count = 0 =>
       heap.values \subseteq Top.strong

CollectorInv ==
  /\ TypeOK /\ Counted /\ Nested /\ Began
  /\ Ordered /\ Undisturbed /\ Justified /\ Swept
-----------------------------------------------------------------------------
(* Queues and frames as sequences *)

\* Taking a table from the queue moves those behind it to the front by one.
LEMMA RemoveAtFacts ==
  ASSUME NEW S, NEW s \in Seq(S), NEW i \in 1..Len(s)
  PROVE  /\ RemoveAt(s, i) \in Seq(S)
         /\ Len(RemoveAt(s, i)) = Len(s) - 1
         /\ \A j \in 1..(Len(s) - 1) : RemoveAt(s, i)[j] = IF j < i THEN s[j] ELSE s[j + 1]
  <1> DEFINE l == SubSeq(s, 1, i - 1)
             r == SubSeq(s, i + 1, Len(s))
  <1>1. \A j \in 1..Len(s) : s[j] \in S
    OBVIOUS
  <1>2. /\ l \in Seq(S) /\ Len(l) = i - 1
        /\ \A j \in 1..(i - 1) : l[j] = s[j]
    BY <1>1, SubSeqProperties
  <1>3. /\ r \in Seq(S) /\ Len(r) = Len(s) - i
        /\ \A j \in 1..(Len(s) - i) : r[j] = s[i + j]
    BY <1>1, SubSeqProperties
  <1>4. RemoveAt(s, i) = l \o r
    BY DEF RemoveAt
  <1> HIDE DEF l, r
  <1>5. /\ l \o r \in Seq(S) /\ Len(l \o r) = Len(l) + Len(r)
        /\ \A j \in 1..(Len(l) + Len(r)) : (l \o r)[j] = IF j <= Len(l) THEN l[j] ELSE r[j - Len(l)]
    BY <1>2, <1>3, ConcatProperties
  <1>6. QED
    BY <1>2, <1>3, <1>4, <1>5

\* A table registered during a walk after an error goes to the front.
LEMMA InsertAtFacts ==
  ASSUME NEW S, NEW s \in Seq(S), NEW i \in 1..(Len(s) + 1), NEW e \in S
  PROVE  /\ InsertAt(s, i, e) \in Seq(S)
         /\ Len(InsertAt(s, i, e)) = Len(s) + 1
         /\ \A j \in 1..(Len(s) + 1) :
              InsertAt(s, i, e)[j] = IF j < i THEN s[j] ELSE IF j = i THEN e ELSE s[j - 1]
  <1> DEFINE l == SubSeq(s, 1, i - 1)
             r == SubSeq(s, i, Len(s))
  <1>1. \A j \in 1..Len(s) : s[j] \in S
    OBVIOUS
  <1>2. /\ l \in Seq(S) /\ Len(l) = i - 1
        /\ \A j \in 1..(i - 1) : l[j] = s[j]
    BY <1>1, SubSeqProperties
  <1>3. /\ r \in Seq(S) /\ Len(r) = Len(s) - i + 1
        /\ \A j \in 1..(Len(s) - i + 1) : r[j] = s[i + j - 1]
    BY <1>1, SubSeqProperties
  <1>4. InsertAt(s, i, e) = (l \o <<e>>) \o r
    BY DEF InsertAt
  <1> HIDE DEF l, r
  <1>5. /\ <<e>> \in Seq(S) /\ Len(<<e>>) = 1 /\ <<e>>[1] = e
    OBVIOUS
  <1>6. /\ l \o <<e>> \in Seq(S) /\ Len(l \o <<e>>) = i
        /\ \A j \in 1..i : (l \o <<e>>)[j] = IF j < i THEN s[j] ELSE e
    BY <1>2, <1>5, ConcatProperties
  <1>7. QED
    BY <1>3, <1>4, <1>6, ConcatProperties

LEMMA FrontFacts ==
  ASSUME NEW S, NEW s \in Seq(S), s # <<>>
  PROVE  /\ Front(s) \in Seq(S)
         /\ Len(Front(s)) = Len(s) - 1 /\ Len(s) \in Nat \ {0}
         /\ \A i \in 1..(Len(s) - 1) : Front(s)[i] = s[i]
         /\ Last(s) = s[Len(s)] /\ Last(s) \in S
  <1>1. /\ Len(s) \in Nat \ {0}
        /\ \A i \in 1..Len(s) : s[i] \in S
    OBVIOUS
  <1>2. ASSUME NEW n \in Nat, n = Len(s) - 1
        PROVE  /\ SubSeq(s, 1, n) \in Seq(S)
               /\ Len(SubSeq(s, 1, n)) = n
               /\ \A i \in 1..n : SubSeq(s, 1, n)[i] = s[i]
    <2>1. /\ SubSeq(s, 1, n) \in Seq(S)
          /\ Len(SubSeq(s, 1, n)) = IF 1 <= n THEN n - 1 + 1 ELSE 0
          /\ \A i \in 1..(n - 1 + 1) : SubSeq(s, 1, n)[i] = s[1 + i - 1]
      BY <1>1, <1>2, SubSeqProperties
    <2>2. QED
      BY <1>2, <2>1
  <1>3. QED
    BY <1>1, <1>2 DEF Front, Last

\* A queue holds no table twice, so it has no more than there are.
LEMMA QueueBound ==
  ASSUME CollectorAssumption, NEW q \in Seq(Objects), IsInjective(q)
  PROVE  Len(q) <= MaxObjects
  <1>1. q \in Injection(1..Len(q), Objects)
    BY DEF Injection, IsInjective
  <1>2. IsFiniteSet(Objects) /\ Cardinality(Objects) = MaxObjects
    BY FS_Interval DEF Objects, CollectorAssumption
  <1>3. Len(q) \in Nat
    OBVIOUS
  <1>4. Cardinality(1..Len(q)) = Len(q)
    BY <1>3, FS_Interval
  <1>5. Cardinality(1..Len(q)) <= Cardinality(Objects)
    BY <1>1, <1>2, FS_Injection
  <1>6. QED
    BY <1>2, <1>4, <1>5

-----------------------------------------------------------------------------
(* What an operation of the program does *)

\* RegisterTableFinalizer puts o into the queue at p.
Inserted(o, p) ==
  /\ o \notin finalized \cup ToSet(queue)
  /\ queue' \in Seq(Objects) /\ Len(queue') = Len(queue) + 1
  /\ \A j \in 1..(Len(queue) + 1) :
       queue'[j] = IF j < p THEN queue[j] ELSE IF j = p THEN o ELSE queue[j - 1]
  /\ insertIndex = -1 => p = Len(queue) + 1
  /\ insertIndex' = insertIndex \/ (insertIndex # -1 /\ insertIndex' = p)

QueueGrows ==
  \/ UNCHANGED <<queue, insertIndex>>
  \/ \E o \in Objects, p \in 1..(Len(queue) + 1) : Inserted(o, p)

ProgramEffect ==
  /\ Mutating
  /\ QueueGrows
  /\ UNCHANGED <<finalized, deferred, runs, calls, debugLibrary, panicked>>
  /\ born' \subseteq Objects
  /\ gc' \in [Objects -> {"function", "other"}]
  /\ hasWeakTables' \in BOOLEAN
  /\ heap' \in HeapType
  /\ runs # <<>> => heap'.thread = heap.thread
  /\ WeakKnown => WeakKnown'
  /\ work' = work + 1 /\ work' \in 0..MaxWork

LEMMA UsableObjects == Usable \subseteq Objects
  BY DEF Usable, strongReferenceKeys, WithEphemerons

LEMMA RegisterFacts ==
  ASSUME CollectorAssumption, TypeOK, NEW o \in Objects, RegisterTableFinalizer(o)
  PROVE  QueueGrows /\ UNCHANGED <<finalized, deferred>> /\ born' \subseteq Objects
  <1>1. CASE o \in finalized \cup ToSet(queue)
    BY <1>1 DEF RegisterTableFinalizer, QueueGrows, collector, TypeOK
  <1>2. CASE o \notin finalized \cup ToSet(queue)
    <2>1. UNCHANGED <<finalized, deferred>> /\ born' \subseteq Objects
      BY <1>2 DEF RegisterTableFinalizer, TypeOK
    <2>2. queue \in Seq(Objects) /\ Len(queue) \in Nat /\ insertIndex \in Int
      BY DEF TypeOK
    <2>3. CASE insertIndex \in 0..Len(queue)
      <3>1. PICK p \in 1..(Len(queue) + 1) : p = insertIndex + 1
        BY <2>2, <2>3
      <3>2. queue' = InsertAt(queue, p, o) /\ insertIndex' = p /\ insertIndex # -1
        BY <1>2, <2>2, <2>3, <3>1 DEF RegisterTableFinalizer
      <3>3. /\ InsertAt(queue, p, o) \in Seq(Objects)
            /\ Len(InsertAt(queue, p, o)) = Len(queue) + 1
            /\ \A j \in 1..(Len(queue) + 1) :
                 InsertAt(queue, p, o)[j] =
                   IF j < p THEN queue[j] ELSE IF j = p THEN o ELSE queue[j - 1]
        BY <2>2, InsertAtFacts
      <3>4. Inserted(o, p)
        BY <1>2, <3>2, <3>3, Zenon DEF Inserted
      <3>5. QED
        BY <2>1, <3>4 DEF QueueGrows
    <2>4. CASE insertIndex \notin 0..Len(queue)
      <3>1. queue' = Append(queue, o) /\ insertIndex' = insertIndex
        BY <1>2, <2>4 DEF RegisterTableFinalizer
      <3>2. Inserted(o, Len(queue) + 1)
        BY <1>2, <2>2, <3>1 DEF Inserted
      <3>3. QED
        BY <2>1, <2>2, <3>2 DEF QueueGrows
    <2>5. QED
      BY <2>3, <2>4
  <1>3. QED
    BY <1>1, <1>2

\* A registration keeps the queue free of repetitions and of finalized tables.
LEMMA GrownQueue ==
  ASSUME CollectorAssumption, TypeOK, QueueGrows, UNCHANGED finalized
  PROVE  /\ queue' \in Seq(Objects) /\ IsInjective(queue')
         /\ ToSet(queue) \subseteq ToSet(queue')
         /\ finalized' \cap ToSet(queue') = {}
         /\ insertIndex' \in -1..MaxObjects
  <1>0. /\ queue \in Seq(Objects) /\ Len(queue) \in Nat /\ insertIndex \in -1..MaxObjects
        /\ \A i, j \in 1..Len(queue) : queue[i] = queue[j] => i = j
        /\ finalized \cap ToSet(queue) = {}
    BY DEF TypeOK, IsInjective
  <1>1. CASE UNCHANGED <<queue, insertIndex>>
    BY <1>1 DEF TypeOK
  <1>2. ASSUME NEW o \in Objects, NEW p \in 1..(Len(queue) + 1), Inserted(o, p)
        PROVE  /\ queue' \in Seq(Objects) /\ IsInjective(queue')
               /\ ToSet(queue) \subseteq ToSet(queue')
               /\ finalized' \cap ToSet(queue') = {}
               /\ insertIndex' \in -1..MaxObjects
    <2>1. /\ queue' \in Seq(Objects) /\ Len(queue') = Len(queue) + 1
          /\ DOMAIN queue' = 1..(Len(queue) + 1)
      BY <1>0, <1>2 DEF Inserted
    <2>2. \A j \in 1..(Len(queue) + 1) :
            queue'[j] = IF j < p THEN queue[j] ELSE IF j = p THEN o ELSE queue[j - 1]
      BY <1>2 DEF Inserted
    <2>3. \A j \in 1..Len(queue) : queue[j] \in ToSet(queue) /\ o # queue[j]
      BY <1>0, <1>2 DEF ToSet, Inserted
    <2>4. IsInjective(queue')
      <3>1. \A a, b \in 1..(Len(queue) + 1) : queue'[a] = queue'[b] => a = b
        BY <1>0, <2>2, <2>3
      <3>2. QED
        BY <2>1, <3>1 DEF IsInjective
    <2>5. ToSet(queue) \subseteq ToSet(queue')
      <3>1. \A j \in 1..Len(queue) : \E k \in 1..(Len(queue) + 1) : queue'[k] = queue[j]
        <4> TAKE j \in 1..Len(queue)
        <4>1. CASE j < p
          BY <1>0, <2>2, <4>1
        <4>2. CASE j >= p
          <5>1. j + 1 \in 1..(Len(queue) + 1) /\ queue'[j + 1] = queue[j]
            BY <1>0, <2>2, <4>2
          <5>2. QED
            BY <5>1
        <4>3. QED
          BY <1>0, <4>1, <4>2
      <3>2. QED
        BY <1>0, <2>1, <3>1 DEF ToSet
    <2>6. finalized' \cap ToSet(queue') = {}
      <3>1. \A j \in 1..(Len(queue) + 1) : queue'[j] \notin finalized
        BY <1>0, <1>2, <2>2, <2>3 DEF Inserted
      <3>2. QED
        BY <2>1, <3>1 DEF ToSet
    <2>7. Len(queue) + 1 <= MaxObjects
      BY <2>1, <2>4, QueueBound
    <2>8. insertIndex' \in -1..MaxObjects
      BY <1>0, <1>2, <2>7 DEF Inserted, CollectorAssumption
    <2>9. QED
      BY <2>1, <2>4, <2>5, <2>6, <2>8
  <1>3. QED
    BY <1>1, <1>2 DEF QueueGrows

LEMMA ProgramFacts ==
  ASSUME CollectorAssumption, TypeOK, Program
  PROVE  ProgramEffect
  <1> USE DEF ProgramEffect, WeakKnown
  <1>0. /\ heap \in HeapType /\ work \in Nat /\ MaxWork \in Nat
        /\ born \subseteq Objects /\ gc \in [Objects -> {"function", "other"}]
        /\ hasWeakTables \in BOOLEAN
    BY DEF TypeOK, CollectorAssumption
  <1>1. ASSUME Working PROVE Mutating /\ work' = work + 1 /\ work' \in 0..MaxWork
    BY <1>0, <1>1 DEF Working
  <1>2. ASSUME OnlyHeap, heap' \in HeapType, runs # <<>> => heap'.thread = heap.thread,
               WeakKnown => WeakKnown'
        PROVE  ProgramEffect
    BY <1>0, <1>1, <1>2 DEF OnlyHeap, Same, QueueGrows, collector
  <1>3. ASSUME NEW holder \in Holders \cup {"none"}, NewObject(holder) PROVE ProgramEffect
    <2>1. heap.created + 1 \in Objects
      BY <1>0, <1>3 DEF NewObject, HeapType, Objects, CollectorAssumption
    <2>2. /\ Working /\ Same /\ UNCHANGED hasWeakTables
          /\ RegisterTableFinalizer(heap.created + 1)
          /\ gc' = [gc EXCEPT ![heap.created + 1] = "function"]
          /\ holder \in {"none", "globals", "coroutine", "locals"}
      BY <1>3 DEF NewObject
    <2>3. /\ heap' \in HeapType /\ heap'.thread = heap.thread
          /\ heap'.weak = heap.weak /\ heap'.values = heap.values
      <3>1. heap.created + 1 \in 0..MaxObjects
        BY <2>1 DEF Objects, CollectorAssumption
      <3>2. CASE holder = "none"
        BY <1>0, <1>3, <2>1, <3>1, <3>2 DEF NewObject, HeapType
      <3>3. CASE holder = "globals"
        BY <1>0, <1>3, <2>1, <3>1, <3>3 DEF NewObject, HeapType
      <3>4. CASE holder = "coroutine"
        BY <1>0, <1>3, <2>1, <3>1, <3>4 DEF NewObject, HeapType
      <3>5. CASE holder = "locals"
        BY <1>0, <1>3, <2>1, <3>1, <3>5 DEF NewObject, HeapType
      <3>6. QED
        BY <2>2, <3>2, <3>3, <3>4, <3>5
    <2>4. gc' \in [Objects -> {"function", "other"}]
      BY <1>0, <2>2
    <2>5. QED
      BY <1>0, <1>1, <2>1, <2>2, <2>3, <2>4, RegisterFacts DEF Same
  <1>4. ASSUME NEW o \in Objects, NEW g \in {"function", "other"}, SetMetatable(o, g)
        PROVE  ProgramEffect
    BY <1>0, <1>1, <1>4, RegisterFacts DEF SetMetatable, Same
  <1>5. ASSUME NEW o \in Objects, NEW holder \in Holders \ {"resumed"},
               Store(o, holder) \/ Forget(o, holder)
        PROVE  ProgramEffect
    <2>1. holder \in {"globals", "locals", "coroutine"}
      BY DEF Holders
    <2>2. /\ heap' \in HeapType /\ heap'.thread = heap.thread
          /\ heap'.weak = heap.weak /\ heap'.values = heap.values
      <3>1. CASE holder = "globals"
        BY <1>0, <1>5, <3>1 DEF Store, Forget, HeapType
      <3>2. CASE holder = "locals"
        BY <1>0, <1>5, <3>2 DEF Store, Forget, HeapType
      <3>3. CASE holder = "coroutine"
        BY <1>0, <1>5, <3>3 DEF Store, Forget, HeapType
      <3>4. QED
        BY <2>1, <3>1, <3>2, <3>3
    <2>3. OnlyHeap /\ UNCHANGED hasWeakTables
      BY <1>5 DEF Store, Forget, OnlyHeap
    <2>4. QED
      BY <1>2, <2>2, <2>3
  <1>6. ASSUME NEW o \in Objects, NEW v \in Objects \cup {Plain}, SetWeakKey(o, v)
        PROVE  ProgramEffect
    <2>1. /\ heap' \in HeapType /\ heap'.thread = heap.thread
          /\ heap'.weak = heap.weak /\ heap'.values = heap.values
      BY <1>0, <1>6 DEF SetWeakKey, HeapType
    <2>2. OnlyHeap /\ UNCHANGED hasWeakTables
      BY <1>6 DEF SetWeakKey, OnlyHeap
    <2>3. QED
      BY <1>2, <2>1, <2>2
  <1>7. ASSUME NEW o \in Objects, SetWeakValue(o) PROVE ProgramEffect
    <2>1. /\ heap' \in HeapType /\ heap'.thread = heap.thread
          /\ heap'.weak = heap.weak /\ heap.weak
      BY <1>0, <1>7 DEF SetWeakValue, HeapType
    <2>2. OnlyHeap /\ UNCHANGED hasWeakTables
      BY <1>7 DEF SetWeakValue, OnlyHeap
    <2>3. QED
      BY <1>2, <2>1, <2>2
  <1>8. CASE RegisterWeakTable
    <2>1. /\ heap' \in HeapType /\ heap'.thread = heap.thread /\ heap'.weak = TRUE
      BY <1>0, <1>8 DEF RegisterWeakTable, HeapType
    <2>2. QED
      BY <1>0, <1>1, <1>8, <2>1 DEF RegisterWeakTable, Same, QueueGrows, collector
  <1>9. CASE DropWeakTables
    <2>1. /\ heap' \in HeapType /\ heap'.thread = heap.thread
          /\ heap'.weak = FALSE /\ heap'.values = {}
      BY <1>0, <1>9 DEF DropWeakTables, HeapType
    <2>2. OnlyHeap
      BY <1>9 DEF DropWeakTables
    <2>3. QED
      BY <1>2, <2>1, <2>2
  <1>10. ASSUME NEW S \in SUBSET Objects, Resume(S) PROVE ProgramEffect
    <2>1. /\ heap' \in HeapType /\ heap'.weak = heap.weak /\ heap'.values = heap.values
      BY <1>0, <1>10 DEF Resume, HeapType
    <2>2. OnlyHeap /\ UNCHANGED hasWeakTables /\ runs = <<>>
      BY <1>10 DEF Resume, OnlyHeap
    <2>3. QED
      BY <1>2, <2>1, <2>2
  <1>11. CASE Yield \/ Return
    <2>1. /\ heap' \in HeapType /\ heap'.weak = heap.weak /\ heap'.values = heap.values
      BY <1>0, <1>11 DEF Yield, Return, HeapType
    <2>2. OnlyHeap /\ UNCHANGED hasWeakTables /\ runs = <<>>
      BY <1>11 DEF Yield, Return, OnlyHeap
    <2>3. QED
      BY <1>2, <2>1, <2>2
  <1>12. QED
    BY <1>3, <1>4, <1>5, <1>6, <1>7, <1>8, <1>9, <1>10, <1>11 DEF Program

\* A table registered during a walk changes neither the order of those the walk
\* found nor, without an error before it, which of them it has looked at.
LEMMA ProgramStep ==
  ASSUME CollectorAssumption, CollectorInv, Program
  PROVE  CollectorInv'
  <1>0. TypeOK /\ ProgramEffect
    BY ProgramFacts DEF CollectorInv
  <1>1. /\ UNCHANGED <<finalized, deferred, runs, calls, debugLibrary, panicked>>
        /\ QueueGrows /\ Mutating
    BY <1>0 DEF ProgramEffect
  <1>2. /\ queue' \in Seq(Objects) /\ IsInjective(queue')
        /\ ToSet(queue) \subseteq ToSet(queue')
        /\ finalized' \cap ToSet(queue') = {}
        /\ insertIndex' \in -1..MaxObjects
    BY <1>0, <1>1, GrownQueue
  <1>3. Top' = Top /\ Alone' = Alone
    BY <1>1 DEF Top, Last, Alone
  <1>4. TypeOK'
    BY <1>0, <1>2 DEF TypeOK, ProgramEffect
  <1>5. Counted' /\ Nested'
    BY <1>1, <1>3 DEF CollectorInv, Counted, Nested
  <1>6. Began'
    <2>1. CASE runs = <<>>
      BY <1>1, <1>2, <2>1 DEF CollectorInv, Began
    <2>2. CASE runs # <<>>
      <3>1. heap'.thread = heap.thread
        BY <1>0, <2>2 DEF ProgramEffect
      <3>2. QED
        BY <1>1, <1>2, <3>1 DEF CollectorInv, Began
    <2>3. QED
      BY <2>1, <2>2
  <1>7. Swept'
    BY <1>0, <1>1, <1>3 DEF ProgramEffect, CollectorInv, Swept, Mutating
  <1>8. Ordered' /\ Undisturbed' /\ Justified'
    <2>1. CASE UNCHANGED <<queue, insertIndex>>
      BY <1>1, <1>3, <2>1 DEF CollectorInv, Ordered, Undisturbed, Justified
    <2>2. ASSUME NEW o \in Objects, NEW p \in 1..(Len(queue) + 1), Inserted(o, p), Alone
          PROVE  Ordered' /\ Undisturbed' /\ Justified'
      <3> DEFINE Old(j) == IF j < p THEN j ELSE j - 1
      <3>1. /\ queue \in Seq(Objects) /\ Len(queue) \in Nat
            /\ DOMAIN queue = 1..Len(queue) /\ DOMAIN queue' = 1..(Len(queue) + 1)
            /\ Len(queue') = Len(queue) + 1
        BY <1>0, <2>2 DEF TypeOK, Inserted
      <3>2. Len(runs) \in DOMAIN runs /\ Top = runs[Len(runs)] /\ Top \in RunType
        BY <1>0, <2>2 DEF TypeOK, Alone, Top, Last
      <3>3. Top.index \in Nat /\ Top.last \in Nat /\ Top.start \in Seq(Objects)
        BY <3>2 DEF RunType
      <3>4. o \notin ToSet(Top.start) \cup Top.late
        BY <2>2, <3>2 DEF Inserted, CollectorInv, Began
      <3>5. \A j \in 1..(Len(queue) + 1) : queue'[j] # o =>
              Old(j) \in 1..Len(queue) /\ queue'[j] = queue[Old(j)] /\ Old(j) <= j
        BY <2>2, <3>1 DEF Inserted
      <3>6. \A j \in 1..(Len(queue) + 1) : queue'[j] \in ToSet(Top.start) \cup Top.late =>
              Old(j) \in 1..Len(queue) /\ queue'[j] = queue[Old(j)] /\ Old(j) <= j
        BY <3>4, <3>5
      <3>7. \A a \in DOMAIN Top.start : Top.start[a] \in ToSet(Top.start)
        BY DEF ToSet
      <3>8. /\ \A j, k \in 1..Len(queue), a, b \in DOMAIN Top.start :
                 Top.start[a] = queue[j] /\ Top.start[b] = queue[k] /\ j < k => a < b
            /\ \A j \in 1..Len(queue), a \in DOMAIN Top.start :
                 Top.start[a] = queue[j] /\ j <= Top.index => a < Top.last
            /\ Top.index <= Len(queue)
        BY <2>2, <3>1 DEF CollectorInv, Ordered
      <3>9. Ordered'
        <4>1. ASSUME NEW j \in 1..(Len(queue) + 1), NEW k \in 1..(Len(queue) + 1),
                     NEW a \in DOMAIN Top.start, NEW b \in DOMAIN Top.start,
                     Top.start[a] = queue'[j], Top.start[b] = queue'[k], j < k
              PROVE  a < b
          <5>1. /\ queue'[j] = queue[Old(j)] /\ queue'[k] = queue[Old(k)]
                /\ Old(j) \in 1..Len(queue) /\ Old(k) \in 1..Len(queue)
            BY <3>6, <3>7, <4>1
          <5>2. j # p /\ k # p
            BY <2>2, <3>4, <3>7, <4>1 DEF Inserted
          <5>3. Old(j) < Old(k)
            BY <4>1, <5>2
          <5>4. QED
            BY <3>8, <4>1, <5>1, <5>3
        <4>2. ASSUME NEW j \in 1..(Len(queue) + 1), NEW a \in DOMAIN Top.start,
                     Top.start[a] = queue'[j], j <= Top.index
              PROVE  a < Top.last
          <5>1. queue'[j] = queue[Old(j)] /\ Old(j) \in 1..Len(queue) /\ Old(j) <= j
            BY <3>6, <3>7, <4>2
          <5>2. Old(j) <= Top.index
            BY <3>3, <4>2, <5>1
          <5>3. QED
            BY <3>8, <4>2, <5>1, <5>2
        <4>3. QED
          BY <1>3, <3>1, <3>3, <3>8, <4>1, <4>2 DEF Ordered
      <3>10. ASSUME ~Top.inserting
             PROVE  /\ insertIndex' = -1
                    /\ \A j \in 1..Len(queue) : queue'[j] = queue[j]
                    /\ queue'[Len(queue) + 1] = o
        BY <2>2, <3>1, <3>10 DEF Inserted, CollectorInv, Undisturbed
      <3>11. Undisturbed'
        BY <1>3, <2>2, <3>1, <3>3, <3>8, <3>10 DEF Undisturbed, CollectorInv
      <3>12. Justified'
        <4> SUFFICES ASSUME ~Top.inserting, Top.kind = "full"
                     PROVE  /\ ToSet(queue') \cap Top.late \subseteq deferred
                            /\ \A j \in DOMAIN queue' :
                                 j > Top.index /\ queue'[j] \in ToSet(Top.start) =>
                                   queue'[j] \in Top.strong \cup (deferred \ Top.late) \cup Top.passed
          BY <1>1, <1>3 DEF Justified
        <4>1. /\ ToSet(queue) \cap Top.late \subseteq deferred
              /\ \A j \in 1..Len(queue) :
                   j > Top.index /\ queue[j] \in ToSet(Top.start) =>
                     queue[j] \in Top.strong \cup (deferred \ Top.late) \cup Top.passed
          BY <2>2, <3>1 DEF CollectorInv, Justified
        <4>2. ToSet(queue') \subseteq ToSet(queue) \cup {o}
          <5>1. \A j \in 1..(Len(queue) + 1) :
                  queue'[j] = o \/ \E k \in 1..Len(queue) : queue'[j] = queue[k]
            BY <3>5
          <5>2. QED
            BY <3>1, <5>1 DEF ToSet
        <4>3. QED
          BY <3>1, <3>4, <3>10, <4>1, <4>2
      <3>13. QED
        BY <3>9, <3>11, <3>12
    <2>3. CASE ~Alone
      BY <1>3, <2>3 DEF Ordered, Undisturbed, Justified
    <2>4. QED
      BY <1>1, <2>1, <2>2, <2>3 DEF QueueGrows
  <1>9. QED
    BY <1>4, <1>5, <1>6, <1>7, <1>8 DEF CollectorInv

-----------------------------------------------------------------------------
(* The frame of a collection *)

LEMMA TopFacts ==
  ASSUME runs \in Seq(RunType), runs # <<>>
  PROVE  /\ Len(runs) \in Nat \ {0} /\ Len(runs) \in DOMAIN runs
         /\ DOMAIN runs = 1..Len(runs)
         /\ Top = runs[Len(runs)] /\ Top \in RunType
  BY DEF Top, Last

LEMMA BeginFacts ==
  ASSUME CollectorAssumption, TypeOK, NEW run \in RunType, Begin(run)
  PROVE  /\ runs' \in Seq(RunType) /\ Len(runs') = Len(runs) + 1
         /\ Len(runs') <= MaxDepth /\ Len(runs) \in Nat
         /\ runs' # <<>> /\ Top' = run
         /\ \A i \in 1..Len(runs) : runs'[i] = [runs[i] EXCEPT !.nested = TRUE]
         /\ runs'[Len(runs) + 1] = run
  <1> DEFINE outer == [i \in DOMAIN runs |-> [runs[i] EXCEPT !.nested = TRUE]]
  <1>1. /\ Len(runs) \in Nat /\ DOMAIN runs = 1..Len(runs)
        /\ \A i \in 1..Len(runs) : runs[i] \in RunType
    BY DEF TypeOK
  <1>2. \A i \in 1..Len(runs) : [runs[i] EXCEPT !.nested = TRUE] \in RunType
    <2> TAKE i \in 1..Len(runs)
    <2>1. runs[i] \in RunType
      BY <1>1
    <2>2. QED
      BY <2>1 DEF RunType
  <1>3. outer \in Seq(RunType) /\ Len(outer) = Len(runs)
    BY <1>1, <1>2
  <1>4. \A i \in 1..Len(runs) : outer[i] = [runs[i] EXCEPT !.nested = TRUE]
    BY <1>1
  <1>5. runs' = Append(outer, run) /\ Len(runs) < MaxDepth
    BY DEF Begin
  <1> HIDE DEF outer
  <1>6. /\ runs' \in Seq(RunType) /\ Len(runs') = Len(runs) + 1
        /\ \A i \in 1..Len(runs) : runs'[i] = outer[i]
        /\ runs'[Len(runs) + 1] = run
    BY <1>1, <1>3, <1>5
  <1>7. runs' # <<>> /\ Top' = run
    BY <1>1, <1>6 DEF Top, Last
  <1>8. QED
    BY <1>1, <1>4, <1>5, <1>6, <1>7 DEF CollectorAssumption

LEMMA RunIsRun ==
  ASSUME CollectorAssumption, TypeOK, NEW kind \in {"full", "auto"}, NEW tick \in BOOLEAN
  PROVE  Run(kind, tick) \in RunType
  <1>1. /\ queue \in Seq(Objects) /\ Len(queue) \in Nat
        /\ Len(queue) <= MaxObjects /\ MaxObjects \in Nat
    BY QueueBound DEF TypeOK, CollectorAssumption
  <1>2. strongReferenceKeys \subseteq Objects /\ Reachable \subseteq Objects
    BY DEF strongReferenceKeys, Reachable, WithEphemerons
  <1>3. /\ Len(queue) \in 0..MaxObjects /\ Len(queue) + 1 \in 0..(MaxObjects + 1)
        /\ deferred \in SUBSET Objects /\ (insertIndex # -1) \in BOOLEAN
    BY <1>1 DEF TypeOK
  <1>4. 0 \in 0..MaxObjects /\ queue \in Seq(Objects)
    BY <1>1
  <1>5. (IF kind = "full" THEN strongReferenceKeys ELSE {}) \in SUBSET Objects
    BY <1>2
  <1>6. QED
    BY <1>2, <1>3, <1>4, <1>5 DEF Run, RunType

\* A collection begins with nothing looked at.
LEMMA BeginStep ==
  ASSUME CollectorAssumption, CollectorInv, Mutating, ~HookActive,
         NEW kind \in {"full", "auto"}, NEW tick \in BOOLEAN, Begin(Run(kind, tick)),
         UNCHANGED <<gc, collector, hasWeakTables, debugLibrary, calls, work, panicked>>,
         heap' \in HeapType, heap'.thread = heap.thread, heap'.weak = heap.weak,
         heap'.values \subseteq heap.values,
         kind = "full" => heap'.values \subseteq strongReferenceKeys
  PROVE  CollectorInv'
  <1> DEFINE run == Run(kind, tick)
  <1>1. TypeOK /\ run \in RunType
    BY RunIsRun DEF CollectorInv
  <1>2. /\ UNCHANGED <<queue, finalized, deferred, born, insertIndex, gc, hasWeakTables,
                       debugLibrary, calls, work, panicked>>
        /\ ~panicked
    BY DEF collector, Mutating
  <1>3. /\ runs' \in Seq(RunType) /\ Len(runs') = Len(runs) + 1
        /\ Len(runs') <= MaxDepth /\ Len(runs) \in Nat
        /\ runs' # <<>> /\ Top' = run
        /\ \A i \in 1..Len(runs) : runs'[i] = [runs[i] EXCEPT !.nested = TRUE]
        /\ runs'[Len(runs) + 1] = run
    BY <1>1, BeginFacts
  <1>4. /\ DOMAIN runs = 1..Len(runs) /\ DOMAIN runs' = 1..(Len(runs) + 1)
        /\ \A i \in 1..Len(runs) : runs[i] \in RunType
    BY <1>1, <1>3 DEF TypeOK
  <1>5. \A i \in 1..Len(runs) :
          /\ runs'[i].kind = runs[i].kind /\ runs'[i].strong = runs[i].strong
          /\ runs'[i].object = runs[i].object /\ runs'[i].count = runs[i].count
          /\ runs'[i].ran = runs[i].ran /\ runs'[i].swept = runs[i].swept
          /\ runs'[i].start = runs[i].start /\ runs'[i].held = runs[i].held
          /\ runs'[i].late = runs[i].late /\ runs'[i].nested = TRUE
    BY <1>3, <1>4 DEF RunType
  <1>6. /\ run.kind = kind /\ run.index = Len(queue) /\ run.object = None /\ run.count = 0
        /\ run.strong = IF kind = "full" THEN strongReferenceKeys ELSE {}
        /\ run.swept = FALSE /\ run.start = queue /\ run.held = Reachable
        /\ run.late = deferred /\ run.inserting = (insertIndex # -1)
        /\ run.nested = FALSE /\ run.last = Len(queue) + 1
    BY DEF Run
  <1>7. /\ queue \in Seq(Objects) /\ Len(queue) \in Nat /\ Len(queue) <= MaxObjects
        /\ DOMAIN queue = 1..Len(queue)
        /\ \A i, j \in 1..Len(queue) : queue[i] = queue[j] => i = j
    BY <1>1, QueueBound DEF TypeOK, IsInjective
  <1> HIDE DEF run
  <1>8. TypeOK'
    BY <1>1, <1>2, <1>3 DEF TypeOK
  <1>9. Counted'
    <2>1. Cardinality(finalized) \in Nat
      <3>1. IsFiniteSet(Objects) /\ finalized \subseteq Objects
        BY <1>1, FS_Interval DEF TypeOK, Objects, CollectorAssumption
      <3>2. QED
        BY <3>1, FS_Subset, FS_CardinalityType
    <2>2. \A i \in 1..Len(runs) : runs'[i].count + Busy(runs'[i]) <= Cardinality(finalized)
      BY <1>4, <1>5 DEF CollectorInv, Counted, Busy
    <2>3. run.count + Busy(run) <= Cardinality(finalized)
      BY <1>6, <2>1 DEF Busy
    <2>4. QED
      BY <1>2, <1>3, <1>4, <2>2, <2>3 DEF CollectorInv, Counted
  <1>10. Nested'
    <2>1. ASSUME NEW i \in 1..Len(runs)
          PROVE  runs[i].object # None /\ ~debugLibrary
      <3>1. runs # <<>> /\ Top.object # None /\ Top = runs[Len(runs)]
        BY <1>4 DEF Mutating, Top, Last
      <3>2. runs[i].object # None
        BY <1>3, <1>4, <3>1 DEF CollectorInv, Nested
      <3>3. QED
        BY <1>4, <3>2 DEF HookActive, InFinalizer
    <2>2. QED
      BY <1>2, <1>3, <1>4, <1>5, <1>6, <2>1 DEF Nested
  <1>11. Began'
    <2>1. \A i \in 1..Len(runs) :
            /\ Len(runs'[i].start) <= MaxObjects
            /\ ToSet(runs'[i].start) \cup runs'[i].late \subseteq ToSet(queue) \cup finalized
            /\ runs'[i].kind = "full" =>
                 heap'.thread = "suspended" \/ runs'[i].held \subseteq runs'[i].strong
            /\ runs'[i].swept => runs'[i].ran
      BY <1>4, <1>5 DEF CollectorInv, Began
    <2>2. deferred \subseteq ToSet(queue) \cup finalized
      BY DEF CollectorInv, Began
    <2>3. heap.thread # "suspended" => Reachable \subseteq strongReferenceKeys
      BY DEF Reachable, strongReferenceKeys, Registers
    <2>4. QED
      BY <1>2, <1>3, <1>4, <1>6, <1>7, <2>1, <2>2, <2>3 DEF Began
  <1>12. Ordered' /\ Undisturbed' /\ Justified'
    <2>1. Ordered'
      BY <1>2, <1>3, <1>6, <1>7 DEF Ordered
    <2>2. \A j \in 1..Len(queue) : queue[j] \in ToSet(queue)
      BY <1>7 DEF ToSet
    <2>3. ~run.inserting => insertIndex = -1
      BY <1>6
    <2>4. Undisturbed'
      BY <1>2, <1>3, <1>6, <1>7, <2>2, <2>3 DEF Undisturbed
    <2>5. Justified'
      BY <1>2, <1>3, <1>6, <1>7 DEF Justified
    <2>6. QED
      BY <2>1, <2>4, <2>5
  <1>13. Swept'
    BY <1>2, <1>3, <1>6 DEF CollectorInv, Swept, WeakKnown
  <1>14. QED
    BY <1>8, <1>9, <1>10, <1>11, <1>12, <1>13 DEF CollectorInv

LEMMA SweepFacts ==
  ASSUME heap \in HeapType
  PROVE  /\ SweepWeakValues(heap) \in HeapType
         /\ SweepWeakValues(heap).thread = heap.thread /\ SweepWeakValues(heap).weak = heap.weak
         /\ SweepWeakValues(heap).keys = heap.keys
         /\ SweepWeakValues(heap).values = heap.values \cap strongReferenceKeys
         /\ SweepWeakTables(heap) \in HeapType
         /\ SweepWeakTables(heap).thread = heap.thread /\ SweepWeakTables(heap).weak = heap.weak
         /\ SweepWeakTables(heap).values = heap.values \cap strongReferenceKeys
         /\ \A o \in strongReferenceKeys : SweepWeakTables(heap).keys[o] = heap.keys[o]
  <1>1. strongReferenceKeys \subseteq Objects
    BY DEF strongReferenceKeys, WithEphemerons
  <1>2. QED
    BY <1>1 DEF SweepWeakValues, SweepWeakTables, HeapType

LEMMA FullGCStep ==
  ASSUME CollectorAssumption, CollectorInv, FullGC
  PROVE  CollectorInv'
  <1>1. heap \in HeapType
    BY DEF CollectorInv, TypeOK
  <1>2. /\ heap' \in HeapType /\ heap'.thread = heap.thread /\ heap'.weak = heap.weak
        /\ heap'.values = heap.values \cap strongReferenceKeys
    BY <1>1, SweepFacts DEF FullGC
  <1>3. QED
    BY <1>2, BeginStep DEF FullGC

LEMMA NoteTableAllocationStep ==
  ASSUME CollectorAssumption, CollectorInv, NEW sweep \in BOOLEAN, NoteTableAllocation(sweep)
  PROVE  CollectorInv'
  <1> DEFINE tick == sweep /\ hasWeakTables
  <1>1. heap \in HeapType /\ tick \in BOOLEAN
    BY DEF CollectorInv, TypeOK
  <1>2. CASE queue # <<>> /\ ~HookActive
    <2>1. /\ Mutating /\ Begin(Run("auto", tick))
          /\ UNCHANGED <<heap, gc, collector, hasWeakTables, debugLibrary, calls, work, panicked>>
      BY <1>2 DEF NoteTableAllocation
    <2> HIDE DEF tick
    <2>2. QED
      BY <1>1, <1>2, <2>1, BeginStep
  <1>3. CASE ~(queue # <<>> /\ ~HookActive)
    <2>1. /\ heap' = SweepWeakTables(heap) /\ Mutating
          /\ UNCHANGED <<queue, finalized, deferred, born, insertIndex, runs, gc, hasWeakTables,
                         debugLibrary, calls, work, panicked>>
      BY <1>3 DEF NoteTableAllocation, collector
    <2>2. /\ heap' \in HeapType /\ heap'.thread = heap.thread /\ heap'.weak = heap.weak
          /\ heap'.values \subseteq heap.values
      BY <1>1, <2>1, SweepFacts
    <2>3. Top' = Top /\ Alone' = Alone
      BY <2>1 DEF Top, Last, Alone
    <2>4. TypeOK' /\ Counted'
      BY <2>1, <2>2 DEF CollectorInv, TypeOK, Counted
    <2>5. Nested' /\ Began' /\ Ordered' /\ Undisturbed' /\ Justified'
      BY <2>1, <2>2, <2>3 DEF CollectorInv, Nested, Began, Ordered, Undisturbed, Justified
    <2>6. Swept'
      BY <2>1, <2>2, <2>3 DEF CollectorInv, Swept, WeakKnown, Mutating
    <2>7. QED
      BY <2>4, <2>5, <2>6 DEF CollectorInv
  <1>4. QED
    BY <1>2, <1>3

-----------------------------------------------------------------------------
(* The walk over the queue *)

LEMMA ReplaceTopFacts ==
  ASSUME runs \in Seq(RunType), runs # <<>>, NEW run \in RunType,
         runs' = [runs EXCEPT ![Len(runs)] = run]
  PROVE  /\ runs' \in Seq(RunType) /\ Len(runs') = Len(runs) /\ runs' # <<>>
         /\ Top' = run /\ runs'[Len(runs)] = run
         /\ \A i \in 1..Len(runs) : i # Len(runs) => runs'[i] = runs[i]
  <1>1. PICK n \in 1..Len(runs) : n = Len(runs)
    OBVIOUS
  <1>2. /\ [runs EXCEPT ![n] = run] \in Seq(RunType)
        /\ Len([runs EXCEPT ![n] = run]) = Len(runs)
        /\ \A j \in 1..Len(runs) : [runs EXCEPT ![n] = run][j] = IF j = n THEN run ELSE runs[j]
    BY ExceptSeq
  <1>3. runs' = [runs EXCEPT ![n] = run]
    BY <1>1
  <1>4. runs' # <<>> /\ Top' = run
    BY <1>1, <1>2, <1>3 DEF Top, Last
  <1>5. QED
    BY <1>1, <1>2, <1>3, <1>4

\* The parts of a frame that do not change while it walks.
SameWalk(run, next) ==
  /\ next.kind = run.kind /\ next.strong = run.strong /\ next.start = run.start
  /\ next.held = run.held /\ next.late = run.late
  /\ next.inserting = run.inserting /\ next.nested = run.nested

\* The walk is at a table of its queue.
Looking == ~panicked /\ runs # <<>> /\ Top.object = None /\ Top.index \in DOMAIN queue

LEMMA LookingFacts ==
  ASSUME CollectorAssumption, CollectorInv, Looking
  PROVE  /\ TypeOK
         /\ queue \in Seq(Objects) /\ Len(queue) \in Nat /\ DOMAIN queue = 1..Len(queue)
         /\ Top.index \in 1..Len(queue) /\ Top.index - 1 \in 0..MaxObjects
         /\ Candidate \in Objects /\ Candidate \in ToSet(queue) /\ Candidate \notin finalized
         /\ Top \in RunType /\ Top = runs[Len(runs)] /\ Len(runs) \in Nat \ {0}
         /\ runs \in Seq(RunType)
         /\ DOMAIN runs = 1..Len(runs) /\ Len(runs) <= MaxDepth
         /\ \A i \in 1..Len(runs) : runs[i] \in RunType
  <1>1. TypeOK
    BY DEF CollectorInv
  <1>2. runs \in Seq(RunType) /\ runs # <<>> /\ Len(runs) <= MaxDepth
    BY <1>1 DEF TypeOK, Looking
  <1>3. queue \in Seq(Objects) /\ Len(queue) \in Nat /\ DOMAIN queue = 1..Len(queue)
    BY <1>1 DEF TypeOK
  <1>4. Top.index \in 1..Len(queue)
    BY <1>3 DEF Looking
  <1>5. Top \in RunType /\ Top.index \in 0..MaxObjects /\ MaxObjects \in Nat
    BY <1>2, TopFacts DEF RunType, CollectorAssumption
  <1>6. Candidate \in Objects /\ Candidate \in ToSet(queue)
    BY <1>3, <1>4 DEF Candidate, ToSet
  <1>7. Candidate \notin finalized
    BY <1>1, <1>6 DEF TypeOK
  <1>8. QED
    BY <1>1, <1>2, <1>3, <1>4, <1>5, <1>6, <1>7, TopFacts

\* The walk leaves the table at its index in the queue.
LEMMA LeaveStep ==
  ASSUME CollectorAssumption, CollectorInv, Looking, NEW next \in RunType,
         runs' = [runs EXCEPT ![Len(runs)] = next], SameWalk(Top, next),
         next.index = Top.index - 1, next.object = None, next.count = Top.count,
         next.ran = Top.ran, next.swept = Top.swept, next.last = Top.last,
         Top.passed \subseteq next.passed,
         deferred \subseteq deferred', deferred' \subseteq deferred \cup {Candidate},
         Top.kind = "full" => Candidate \in Top.strong \cup next.passed \cup (deferred' \ deferred),
         UNCHANGED <<heap, gc, queue, finalized, born, insertIndex, hasWeakTables,
                     debugLibrary, calls, work, panicked>>
  PROVE  CollectorInv'
  <1>1. /\ TypeOK
        /\ queue \in Seq(Objects) /\ Len(queue) \in Nat /\ DOMAIN queue = 1..Len(queue)
        /\ Top.index \in 1..Len(queue)
        /\ Candidate \in Objects /\ Candidate \in ToSet(queue)
        /\ Top \in RunType /\ Top = runs[Len(runs)] /\ Len(runs) \in Nat \ {0}
        /\ runs \in Seq(RunType) /\ runs # <<>>
        /\ DOMAIN runs = 1..Len(runs) /\ Len(runs) <= MaxDepth
    BY LookingFacts DEF Looking
  <1>2. /\ runs' \in Seq(RunType) /\ Len(runs') = Len(runs) /\ runs' # <<>>
        /\ Top' = next /\ runs'[Len(runs)] = next /\ DOMAIN runs' = 1..Len(runs)
        /\ \A i \in 1..Len(runs) : i # Len(runs) => runs'[i] = runs[i]
    BY <1>1, ReplaceTopFacts
  <1>3. TypeOK'
    BY <1>1, <1>2 DEF TypeOK
  <1>4. Counted'
    <2>1. \A i \in 1..Len(runs) : runs'[i].count + Busy(runs'[i]) <= Cardinality(finalized)
      BY <1>1, <1>2 DEF CollectorInv, Counted, Busy, Looking
    <2>2. QED
      BY <1>2, <2>1 DEF CollectorInv, Counted
  <1>5. Nested'
    BY <1>1, <1>2 DEF CollectorInv, Nested, SameWalk, Looking
  <1>6. Began'
    <2>1. \A i \in 1..Len(runs) :
            /\ Len(runs'[i].start) <= MaxObjects
            /\ ToSet(runs'[i].start) \cup runs'[i].late \subseteq ToSet(queue) \cup finalized
            /\ runs'[i].kind = "full" =>
                 heap.thread = "suspended" \/ runs'[i].held \subseteq runs'[i].strong
            /\ runs'[i].swept => runs'[i].ran
      BY <1>1, <1>2 DEF CollectorInv, Began, SameWalk
    <2>2. deferred' \subseteq ToSet(queue) \cup finalized
      BY <1>1 DEF CollectorInv, Began
    <2>3. QED
      BY <1>2, <2>1, <2>2 DEF Began
  <1>7. Alone' = Alone
    BY <1>1, <1>2 DEF Alone, SameWalk
  <1>8. Ordered' /\ Undisturbed'
    BY <1>1, <1>2, <1>7 DEF CollectorInv, Ordered, Undisturbed, SameWalk
  <1>9. Justified'
    <2> SUFFICES ASSUME Alone, ~Top.inserting, Top.kind = "full"
                 PROVE  /\ ToSet(queue) \cap Top.late \subseteq deferred'
                        /\ \A j \in DOMAIN queue :
                             j > Top.index - 1 /\ queue[j] \in ToSet(Top.start) =>
                               queue[j] \in Top.strong \cup (deferred' \ Top.late) \cup next.passed
      BY <1>2, <1>7 DEF Justified, SameWalk
    <2>1. /\ ToSet(queue) \cap Top.late \subseteq deferred
          /\ \A j \in DOMAIN queue :
               j > Top.index /\ queue[j] \in ToSet(Top.start) =>
                 queue[j] \in Top.strong \cup (deferred \ Top.late) \cup Top.passed
      BY DEF CollectorInv, Justified
    <2>2. Candidate \in Top.strong \cup next.passed \cup (deferred' \ Top.late)
      BY <1>1, <2>1
    <2>3. ASSUME NEW j \in DOMAIN queue, j > Top.index - 1, queue[j] \in ToSet(Top.start)
          PROVE  queue[j] \in Top.strong \cup (deferred' \ Top.late) \cup next.passed
      <3>1. CASE j = Top.index
        BY <2>2, <3>1 DEF Candidate
      <3>2. CASE j > Top.index
        BY <2>1, <2>3, <3>2
      <3>3. QED
        BY <1>1, <2>3, <3>1, <3>2
    <2>4. QED
      BY <2>1, <2>3
  <1>10. Swept'
    BY <1>1, <1>2 DEF CollectorInv, Swept, SameWalk, WeakKnown, Looking
  <1>11. QED
    BY <1>3, <1>4, <1>5, <1>6, <1>8, <1>9, <1>10 DEF CollectorInv

\* The walk takes the table at its index from the queue.
LEMMA TakenQueue ==
  ASSUME CollectorAssumption, CollectorInv, Looking, Finalize(Candidate)
  PROVE  /\ queue' \in Seq(Objects) /\ Len(queue') = Len(queue) - 1 /\ IsInjective(queue')
         /\ DOMAIN queue' = 1..(Len(queue) - 1)
         /\ \A j \in 1..(Len(queue) - 1) :
              queue'[j] = IF j < Top.index THEN queue[j] ELSE queue[j + 1]
         /\ ToSet(queue') = ToSet(queue) \ {Candidate}
  <1>1. /\ queue \in Seq(Objects) /\ Len(queue) \in Nat /\ DOMAIN queue = 1..Len(queue)
        /\ Top.index \in 1..Len(queue) /\ queue' = RemoveAt(queue, Top.index)
        /\ \A i, j \in 1..Len(queue) : queue[i] = queue[j] => i = j
    BY LookingFacts DEF TypeOK, IsInjective, Finalize
  <1>2. PICK n \in 1..Len(queue) : n = Top.index
    BY <1>1
  <1>3. /\ RemoveAt(queue, n) \in Seq(Objects) /\ Len(RemoveAt(queue, n)) = Len(queue) - 1
        /\ \A j \in 1..(Len(queue) - 1) :
             RemoveAt(queue, n)[j] = IF j < n THEN queue[j] ELSE queue[j + 1]
    <2>1. queue \in Seq(Objects)
      BY <1>1
    <2>2. QED
      BY <2>1, RemoveAtFacts, Zenon
  <1>4. /\ queue' \in Seq(Objects) /\ Len(queue') = Len(queue) - 1
        /\ DOMAIN queue' = 1..(Len(queue) - 1)
        /\ \A j \in 1..(Len(queue) - 1) : queue'[j] = IF j < n THEN queue[j] ELSE queue[j + 1]
    BY <1>1, <1>2, <1>3
  <1>5. IsInjective(queue')
    <2>1. \A a, b \in 1..(Len(queue) - 1) : queue'[a] = queue'[b] => a = b
      BY <1>1, <1>4
    <2>2. QED
      BY <1>4, <2>1 DEF IsInjective
  <1>6. ToSet(queue') = ToSet(queue) \ {Candidate}
    <2>1. ASSUME NEW j \in 1..(Len(queue) - 1)
          PROVE  \E k \in 1..Len(queue) : k # n /\ queue'[j] = queue[k]
      <3>1. CASE j < n
        BY <1>1, <1>4, <3>1
      <3>2. CASE j >= n
        <4>1. j + 1 \in 1..Len(queue) /\ j + 1 # n /\ queue'[j] = queue[j + 1]
          BY <1>1, <1>4, <3>2
        <4>2. QED
          BY <4>1
      <3>3. QED
        BY <3>1, <3>2
    <2>2. ASSUME NEW k \in 1..Len(queue), k # n
          PROVE  \E j \in 1..(Len(queue) - 1) : queue'[j] = queue[k]
      <3>1. CASE k < n
        BY <1>1, <1>4, <3>1
      <3>2. CASE k > n
        <4>1. k - 1 \in 1..(Len(queue) - 1) /\ queue'[k - 1] = queue[k]
          BY <1>1, <1>4, <3>2
        <4>2. QED
          BY <4>1
      <3>3. QED
        BY <1>1, <2>2, <3>1, <3>2
    <2>3. Candidate = queue[n] /\ \A k \in 1..Len(queue) : queue[k] = queue[n] <=> k = n
      BY <1>1, <1>2 DEF Candidate
    <2>4. ToSet(queue) = {queue[k] : k \in 1..Len(queue)}
      BY <1>1 DEF ToSet
    <2>5. ToSet(queue') = {queue'[j] : j \in 1..(Len(queue) - 1)}
      BY <1>4 DEF ToSet
    <2>6. ASSUME NEW x PROVE x \in ToSet(queue') <=> x \in ToSet(queue) \ {Candidate}
      <3>1. ASSUME x \in ToSet(queue') PROVE x \in ToSet(queue) \ {Candidate}
        <4>1. PICK j \in 1..(Len(queue) - 1) : x = queue'[j]
          BY <2>5, <3>1
        <4>2. QED
          BY <2>1, <2>3, <2>4, <4>1
      <3>2. ASSUME x \in ToSet(queue), x # Candidate PROVE x \in ToSet(queue')
        <4>1. PICK k \in 1..Len(queue) : x = queue[k]
          BY <2>4, <3>2
        <4>2. k # n
          BY <2>3, <3>2, <4>1
        <4>3. QED
          BY <2>2, <2>5, <4>1, <4>2
      <3>3. QED
        BY <3>1, <3>2
    <2>7. QED
      BY <2>6
  <1>7. QED
    BY <1>2, <1>4, <1>5, <1>6

LEMMA FinalizedFinite ==
  ASSUME CollectorAssumption, TypeOK
  PROVE  /\ IsFiniteSet(finalized) /\ Cardinality(finalized) \in Nat
         /\ \A S \in SUBSET Objects : Cardinality(S) \in Nat /\ Cardinality(S) <= MaxObjects
  <1>1. IsFiniteSet(Objects) /\ Cardinality(Objects) = MaxObjects /\ finalized \subseteq Objects
    BY FS_Interval DEF TypeOK, Objects, CollectorAssumption
  <1>2. QED
    BY <1>1, FS_Subset, FS_CardinalityType

\* A finalizer that is called is the first of its table.
TakeCalls(next) ==
  \/ calls' = calls /\ next.object = None /\ next.last = Top.last
  \/ /\ calls' = [calls EXCEPT ![Candidate] = @ + 1]
     /\ next.object = Candidate
     /\ next.last = IF Candidate \in ToSet(Top.start) THEN Place(Candidate) ELSE Top.last

LEMMA TakeStep ==
  ASSUME CollectorAssumption, CollectorInv, Looking, Finalize(Candidate), NEW next \in RunType,
         runs' = [runs EXCEPT ![Len(runs)] = next], SameWalk(Top, next),
         next.index = Top.index - 1, next.count = Top.count, next.passed = Top.passed,
         next.swept => next.ran, TakeCalls(next),
         deferred' = deferred \/ deferred' = deferred \ {Candidate}, born' \subseteq born,
         heap' \in HeapType, heap'.thread = heap.thread, heap'.weak = heap.weak,
         heap'.values \subseteq heap.values,
         UNCHANGED <<gc, hasWeakTables, debugLibrary, work, panicked>>
  PROVE  CollectorInv'
  <1>1. /\ TypeOK
        /\ queue \in Seq(Objects) /\ Len(queue) \in Nat /\ DOMAIN queue = 1..Len(queue)
        /\ Top.index \in 1..Len(queue)
        /\ Candidate \in Objects /\ Candidate \in ToSet(queue) /\ Candidate \notin finalized
        /\ Top \in RunType /\ Top = runs[Len(runs)] /\ Len(runs) \in Nat \ {0}
        /\ runs \in Seq(RunType) /\ runs # <<>>
        /\ DOMAIN runs = 1..Len(runs) /\ Len(runs) <= MaxDepth
    BY LookingFacts DEF Looking
  <1>2. /\ runs' \in Seq(RunType) /\ Len(runs') = Len(runs) /\ runs' # <<>>
        /\ Top' = next /\ runs'[Len(runs)] = next /\ DOMAIN runs' = 1..Len(runs)
        /\ \A i \in 1..Len(runs) : i # Len(runs) => runs'[i] = runs[i]
    BY <1>1, ReplaceTopFacts
  <1>3. /\ queue' \in Seq(Objects) /\ Len(queue') = Len(queue) - 1 /\ IsInjective(queue')
        /\ DOMAIN queue' = 1..(Len(queue) - 1)
        /\ \A j \in 1..(Len(queue) - 1) :
             queue'[j] = IF j < Top.index THEN queue[j] ELSE queue[j + 1]
        /\ ToSet(queue') = ToSet(queue) \ {Candidate}
    BY TakenQueue
  <1>4. finalized' = finalized \cup {Candidate} /\ insertIndex' = insertIndex
    BY DEF Finalize
  <1>5. TypeOK'
    BY <1>1, <1>2, <1>3, <1>4 DEF TypeOK
  <1>6. Counted'
    <2>1. /\ calls \in [Objects -> {0, 1}]
          /\ \A o \in Objects : calls[o] = 1 => o \in finalized
          /\ \A i \in 1..Len(runs) : runs[i].count + Busy(runs[i]) <= Cardinality(finalized)
      BY <1>1 DEF CollectorInv, Counted
    <2>2. /\ Cardinality(finalized) \in Nat
          /\ Cardinality(finalized') = Cardinality(finalized) + 1
      BY <1>1, <1>4, FinalizedFinite, FS_AddElement
    <2>3. calls[Candidate] = 0
      BY <1>1, <2>1
    <2>4. /\ calls' \in [Objects -> {0, 1}]
          /\ \A o \in Objects : calls'[o] = 1 => o \in finalized'
      BY <1>1, <1>4, <2>1, <2>3 DEF TakeCalls
    <2>5. \A i \in 1..Len(runs) : runs'[i].count + Busy(runs'[i]) <= Cardinality(finalized')
      <3>1. next.count + Busy(next) <= Cardinality(finalized')
        <4>1. Top.count \in Nat /\ Top.count + 0 <= Cardinality(finalized)
          <5>1. Top.count \in 0..MaxObjects /\ MaxObjects \in Nat
            BY <1>1 DEF RunType, CollectorAssumption
          <5>2. Busy(runs[Len(runs)]) = 0 /\ Len(runs) \in 1..Len(runs)
            BY <1>1 DEF Looking, Busy
          <5>3. QED
            BY <1>1, <2>1, <5>1, <5>2
        <4>2. QED
          BY <2>2, <4>1 DEF Busy
      <3>2. \A i \in 1..Len(runs) : runs[i].count \in Nat /\ Busy(runs[i]) \in Nat
        <4> TAKE i \in 1..Len(runs)
        <4>1. runs[i] \in RunType /\ MaxObjects \in Nat
          BY <1>1 DEF CollectorAssumption
        <4>2. QED
          BY <4>1 DEF RunType, Busy
      <3>3. ASSUME NEW i \in 1..Len(runs), i # Len(runs)
            PROVE  runs'[i].count + Busy(runs'[i]) <= Cardinality(finalized')
        <4>1. runs'[i] = runs[i] /\ runs[i].count + Busy(runs[i]) <= Cardinality(finalized)
          BY <1>2, <2>1, <3>3
        <4>2. QED
          BY <2>2, <3>2, <4>1
      <3>4. QED
        BY <1>2, <3>1, <3>3
    <2>6. QED
      BY <1>2, <2>4, <2>5 DEF Counted
  <1>7. Nested'
    BY <1>1, <1>2 DEF CollectorInv, Nested, SameWalk, Looking
  <1>8. Began'
    <2>1. ToSet(queue') \cup finalized' = ToSet(queue) \cup finalized
      BY <1>1, <1>3, <1>4
    <2>2. \A i \in 1..Len(runs) :
            /\ Len(runs'[i].start) <= MaxObjects
            /\ ToSet(runs'[i].start) \cup runs'[i].late \subseteq ToSet(queue) \cup finalized
            /\ runs'[i].kind = "full" =>
                 heap.thread = "suspended" \/ runs'[i].held \subseteq runs'[i].strong
            /\ runs'[i].swept => runs'[i].ran
      BY <1>1, <1>2 DEF CollectorInv, Began, SameWalk
    <2>3. deferred' \subseteq ToSet(queue) \cup finalized
      BY DEF CollectorInv, Began
    <2>4. QED
      BY <1>2, <2>1, <2>2, <2>3 DEF Began
  <1>9. Alone' = Alone
    BY <1>1, <1>2 DEF Alone, SameWalk
  <1>10. ASSUME Alone
         PROVE  Ordered' /\ Undisturbed' /\ Justified'
    <2> DEFINE Old(j) == IF j < Top.index THEN j ELSE j + 1
    <2>1. \A j \in 1..(Len(queue) - 1) : Old(j) \in 1..Len(queue) /\ queue'[j] = queue[Old(j)]
      BY <1>1, <1>3
    <2>2. \A j, k \in 1..(Len(queue) - 1) : j < k => Old(j) < Old(k)
      BY <1>1
    <2>3. \A j \in 1..(Len(queue) - 1) : j <= Top.index - 1 => Old(j) = j
      BY <1>1
    <2>4. \A j \in 1..(Len(queue) - 1) : j > Top.index - 1 => Old(j) > Top.index
      BY <1>1
    <2> HIDE DEF Old
    <2>5. /\ \A j, k \in 1..Len(queue), a, b \in DOMAIN Top.start :
               Top.start[a] = queue[j] /\ Top.start[b] = queue[k] /\ j < k => a < b
          /\ \A j \in 1..Len(queue), a \in DOMAIN Top.start :
               Top.start[a] = queue[j] /\ j <= Top.index => a < Top.last
      BY <1>1, <1>10 DEF CollectorInv, Ordered
    <2>6. Ordered'
      <3>1. ASSUME NEW j \in 1..(Len(queue) - 1), NEW a \in DOMAIN Top.start,
                   Top.start[a] = queue'[j], j <= Top.index - 1
            PROVE  a < next.last
        <4>1. j \in 1..Len(queue) /\ queue'[j] = queue[j] /\ j < Top.index
          BY <1>1, <2>1, <2>3, <3>1
        <4>2. a < Top.last
          BY <1>1, <2>5, <3>1, <4>1
        <4>3. ASSUME Candidate \in ToSet(Top.start)
              PROVE  a < Place(Candidate)
          <5>1. \E i \in DOMAIN Top.start : Top.start[i] = Candidate
            BY <4>3 DEF ToSet
          <5>2. Place(Candidate) \in DOMAIN Top.start /\ Top.start[Place(Candidate)] = Candidate
            BY <5>1 DEF Place
          <5>3. QED
            BY <1>1, <2>5, <3>1, <4>1, <5>2 DEF Candidate
        <4>4. QED
          BY <4>2, <4>3 DEF TakeCalls
      <3>2. Top.index - 1 <= Len(queue) - 1
        BY <1>1
      <3>3. \A j, k \in 1..(Len(queue) - 1), a, b \in DOMAIN Top.start :
              Top.start[a] = queue'[j] /\ Top.start[b] = queue'[k] /\ j < k => a < b
        BY <2>1, <2>2, <2>5
      <3>4. Top'.start = Top.start /\ Top'.index = Top.index - 1 /\ Top'.last = next.last
        BY <1>2 DEF SameWalk
      <3>5. DOMAIN queue' = 1..(Len(queue) - 1) /\ Len(queue') = Len(queue) - 1
        BY <1>3
      <3>6. /\ Top'.index <= Len(queue')
            /\ \A j, k \in DOMAIN queue', a, b \in DOMAIN Top'.start :
                 Top'.start[a] = queue'[j] /\ Top'.start[b] = queue'[k] /\ j < k => a < b
        BY <3>2, <3>3, <3>4, <3>5
      <3>7. \A j \in DOMAIN queue', a \in DOMAIN Top'.start :
              Top'.start[a] = queue'[j] /\ j <= Top'.index => a < Top'.last
        BY <3>1, <3>4, <3>5
      <3>8. QED
        BY <3>6, <3>7, Zenon DEF Ordered
    <2>7. Undisturbed'
      <3>1. \A j \in 1..(Len(queue) - 1) : j <= Top.index - 1 =>
              j \in 1..Len(queue) /\ queue'[j] = queue[j] /\ j <= Top.index
        BY <1>1, <2>1, <2>3
      <3>2. QED
        BY <1>1, <1>2, <1>3, <1>4, <1>9, <1>10, <3>1 DEF CollectorInv, Undisturbed, SameWalk
    <2>8. Justified'
      <3> SUFFICES ASSUME ~Top.inserting, Top.kind = "full"
                   PROVE  /\ ToSet(queue') \cap Top.late \subseteq deferred'
                          /\ \A j \in 1..(Len(queue) - 1) :
                               j > Top.index - 1 /\ queue'[j] \in ToSet(Top.start) =>
                                 queue'[j] \in Top.strong \cup (deferred' \ Top.late) \cup Top.passed
        BY <1>2, <1>3, <1>9 DEF Justified, SameWalk
      <3>1. /\ ToSet(queue) \cap Top.late \subseteq deferred
            /\ \A j \in 1..Len(queue) :
                 j > Top.index /\ queue[j] \in ToSet(Top.start) =>
                   queue[j] \in Top.strong \cup (deferred \ Top.late) \cup Top.passed
        BY <1>1, <1>10 DEF CollectorInv, Justified
      <3>2. \A j \in 1..(Len(queue) - 1) : queue'[j] # Candidate
        BY <1>3 DEF ToSet
      <3>3. QED
        BY <1>3, <2>1, <2>4, <3>1, <3>2
    <2>9. QED
      BY <2>6, <2>7, <2>8
  <1>11. ~Alone => Ordered' /\ Undisturbed' /\ Justified'
    BY <1>9 DEF Ordered, Undisturbed, Justified
  <1>12. Swept'
    <2>1. WeakKnown'
      BY DEF CollectorInv, Swept, WeakKnown
    <2>2. Top.kind = "full" /\ Top.count = 0 => heap.values \subseteq Top.strong
      BY <1>1 DEF CollectorInv, Swept, Looking
    <2>3. QED
      BY <1>2, <2>1, <2>2 DEF Swept, SameWalk
  <1>13. QED
    BY <1>5, <1>6, <1>7, <1>8, <1>10, <1>11, <1>12 DEF CollectorInv

LEMMA PlaceFacts ==
  ASSUME CollectorAssumption, CollectorInv, Looking, Candidate \in ToSet(Top.start)
  PROVE  Place(Candidate) \in 0..(MaxObjects + 1) /\ Place(Candidate) \in DOMAIN Top.start
  <1>1. /\ Top \in RunType /\ Top = runs[Len(runs)] /\ Len(runs) \in DOMAIN runs
    BY LookingFacts
  <1>2. /\ Top.start \in Seq(Objects) /\ Len(Top.start) <= MaxObjects /\ MaxObjects \in Nat
    BY <1>1 DEF CollectorInv, Began, RunType, CollectorAssumption
  <1>3. \E i \in DOMAIN Top.start : Top.start[i] = Candidate
    BY DEF ToSet
  <1>4. Place(Candidate) \in DOMAIN Top.start
    BY <1>3 DEF Place
  <1>5. QED
    BY <1>2, <1>4

LEMMA RunTableFinalizersStep ==
  ASSUME CollectorAssumption, CollectorInv, RunTableFinalizers
  PROVE  CollectorInv'
  <1> DEFINE o == Candidate
  <1>1. /\ Looking /\ Top.kind = "full"
        /\ UNCHANGED <<heap, gc, hasWeakTables, debugLibrary, work, panicked>>
    BY DEF RunTableFinalizers, Scanning, Looking
  <1>2. /\ TypeOK /\ heap \in HeapType
        /\ Top \in RunType /\ Top = runs[Len(runs)] /\ Len(runs) \in DOMAIN runs
        /\ Top.index - 1 \in 0..MaxObjects /\ Candidate \in Objects
        /\ runs \in Seq(RunType) /\ Top.object = None /\ (Top.swept => Top.ran)
    BY <1>1, LookingFacts DEF TypeOK, Looking, CollectorInv, Began
  <1>3. ASSUME Kept(o),
               runs' = [runs EXCEPT ![Len(runs)] =
                          [Top EXCEPT !.index = @ - 1, !.passed = @ \cup ({o} \cap Registers)]],
               UNCHANGED <<collector, calls>>
        PROVE  CollectorInv'
    <2> DEFINE next == [Top EXCEPT !.index = @ - 1, !.passed = @ \cup ({o} \cap Registers)]
    <2>1. /\ next \in RunType /\ SameWalk(Top, next) /\ next.index = Top.index - 1
          /\ next.object = None /\ next.count = Top.count /\ next.ran = Top.ran
          /\ next.swept = Top.swept /\ next.last = Top.last
          /\ next.passed = Top.passed \cup ({o} \cap Registers)
      BY <1>2 DEF RunType, SameWalk
    <2>2. runs' = [runs EXCEPT ![Len(runs)] = next]
      BY <1>3
    <2> HIDE DEF next
    <2>3. Candidate \in Top.strong \cup next.passed \cup (deferred' \ deferred)
      BY <1>3, <2>1 DEF Kept
    <2>4. UNCHANGED <<queue, finalized, deferred, born, insertIndex, calls>>
      BY <1>3 DEF collector
    <2>5. QED
      BY <1>1, <2>1, <2>2, <2>3, <2>4, LeaveStep
  <1>4. ASSUME Skip PROVE runs' = [runs EXCEPT ![Len(runs)] = [Top EXCEPT !.index = @ - 1]]
    BY <1>2, <1>4 DEF Skip
  <1>5. /\ [Top EXCEPT !.index = @ - 1] \in RunType
        /\ SameWalk(Top, [Top EXCEPT !.index = @ - 1])
        /\ [Top EXCEPT !.index = @ - 1].index = Top.index - 1
        /\ [Top EXCEPT !.index = @ - 1].object = None
        /\ [Top EXCEPT !.index = @ - 1].count = Top.count
        /\ [Top EXCEPT !.index = @ - 1].ran = Top.ran
        /\ [Top EXCEPT !.index = @ - 1].swept = Top.swept
        /\ [Top EXCEPT !.index = @ - 1].last = Top.last
        /\ [Top EXCEPT !.index = @ - 1].passed = Top.passed
    BY <1>2 DEF RunType, SameWalk
  <1>6. ASSUME ~Kept(o), Deferred(o), deferred' = deferred \cup {o}, Skip,
               UNCHANGED <<queue, finalized, born, insertIndex, calls>>
        PROVE  CollectorInv'
    <2> DEFINE next == [Top EXCEPT !.index = @ - 1]
    <2>1. runs' = [runs EXCEPT ![Len(runs)] = next]
      BY <1>4, <1>6
    <2>2. /\ next \in RunType /\ SameWalk(Top, next) /\ next.index = Top.index - 1
          /\ next.object = None /\ next.count = Top.count /\ next.ran = Top.ran
          /\ next.swept = Top.swept /\ next.last = Top.last
          /\ next.passed = Top.passed
      BY <1>5
    <2> HIDE DEF next
    <2>3. Candidate \in deferred' \ deferred
      BY <1>6 DEF Deferred
    <2>4. QED
      BY <1>1, <1>6, <2>1, <2>2, <2>3, LeaveStep
  <1>7. ASSUME Finalize(o), deferred' = deferred \ {o}, born' = born \ {o},
               Skip, UNCHANGED calls
        PROVE  CollectorInv'
    <2> DEFINE next == [Top EXCEPT !.index = @ - 1]
    <2>1. runs' = [runs EXCEPT ![Len(runs)] = next]
      BY <1>4, <1>7
    <2>2. /\ next \in RunType /\ SameWalk(Top, next) /\ next.index = Top.index - 1
          /\ next.object = None /\ next.count = Top.count /\ next.ran = Top.ran
          /\ next.swept = Top.swept /\ next.last = Top.last
          /\ next.passed = Top.passed
      BY <1>5
    <2> HIDE DEF next
    <2>3. TakeCalls(next) /\ (next.swept => next.ran)
      BY <1>2, <1>7, <2>2 DEF TakeCalls
    <2>4. QED
      BY <1>1, <1>2, <1>7, <2>1, <2>2, <2>3, TakeStep
  <1>8. ASSUME Finalize(o), deferred' = deferred \ {o}, born' = born \ {o},
               Call(o, [Top EXCEPT !.associated = tableHasWeakAssociation(o)])
        PROVE  CollectorInv'
    <2> DEFINE next == [Top EXCEPT !.associated = tableHasWeakAssociation(o),
                                   !.object = o, !.index = @ - 1,
                                   !.last = IF o \in ToSet(Top.start) THEN Place(o) ELSE @]
    <2>1. runs' = [runs EXCEPT ![Len(runs)] = next] /\ calls' = [calls EXCEPT ![o] = @ + 1]
      BY <1>2, <1>8 DEF Call, RunType
    <2>2. tableHasWeakAssociation(o) \in BOOLEAN
      BY DEF tableHasWeakAssociation
    <2>3. (IF o \in ToSet(Top.start) THEN Place(o) ELSE Top.last) \in 0..(MaxObjects + 1)
      BY <1>1, <1>2, PlaceFacts DEF RunType
    <2>4. /\ next \in RunType /\ SameWalk(Top, next) /\ next.index = Top.index - 1
          /\ next.object = o /\ next.count = Top.count /\ next.ran = Top.ran
          /\ next.swept = Top.swept
          /\ next.last = IF o \in ToSet(Top.start) THEN Place(o) ELSE Top.last
          /\ next.passed = Top.passed
      BY <1>2, <2>2, <2>3 DEF RunType, SameWalk
    <2> HIDE DEF next
    <2>5. TakeCalls(next) /\ (next.swept => next.ran)
      BY <1>2, <2>1, <2>4 DEF TakeCalls
    <2>6. QED
      BY <1>1, <1>2, <1>8, <2>1, <2>4, <2>5, TakeStep
  <1>9. QED
    BY <1>3, <1>6, <1>7, <1>8 DEF RunTableFinalizers

LEMMA RunTableFinalizersForAutoStep ==
  ASSUME CollectorAssumption, CollectorInv, RunTableFinalizersForAuto
  PROVE  CollectorInv'
  <1> DEFINE o == Candidate
  <1>1. /\ Looking /\ Top.kind = "auto"
        /\ UNCHANGED <<gc, hasWeakTables, debugLibrary, work, panicked>>
    BY DEF RunTableFinalizersForAuto, Scanning, Looking
  <1>2. /\ TypeOK /\ heap \in HeapType /\ hasWeakTables \in BOOLEAN
        /\ Top \in RunType /\ Top = runs[Len(runs)] /\ Len(runs) \in DOMAIN runs
        /\ Top.index - 1 \in 0..MaxObjects /\ Candidate \in Objects
        /\ runs \in Seq(RunType) /\ Top.object = None /\ (Top.swept => Top.ran)
    BY <1>1, LookingFacts DEF TypeOK, Looking, CollectorInv, Began
  <1>3. ASSUME Skip, UNCHANGED <<heap, collector, calls>>
        PROVE  CollectorInv'
    <2> DEFINE next == [Top EXCEPT !.index = @ - 1]
    <2>1. runs' = [runs EXCEPT ![Len(runs)] = next]
      BY <1>2, <1>3 DEF Skip
    <2>2. /\ next \in RunType /\ SameWalk(Top, next) /\ next.index = Top.index - 1
          /\ next.object = None /\ next.count = Top.count /\ next.ran = Top.ran
          /\ next.swept = Top.swept /\ next.last = Top.last
          /\ next.passed = Top.passed
      BY <1>2 DEF RunType, SameWalk
    <2> HIDE DEF next
    <2>3. UNCHANGED <<queue, finalized, deferred, born, insertIndex>>
      BY <1>3 DEF collector
    <2>4. QED
      BY <1>1, <1>3, <2>1, <2>2, <2>3, LeaveStep
  <1>4. ASSUME heap' = IF hasWeakTables /\ ~Top.swept THEN SweepWeakValues(heap) ELSE heap,
               Finalize(o), UNCHANGED <<deferred, born>>,
               Call(o, [Top EXCEPT !.ran = TRUE, !.swept = @ \/ hasWeakTables])
        PROVE  CollectorInv'
    <2> DEFINE next == [Top EXCEPT !.ran = TRUE, !.swept = @ \/ hasWeakTables,
                                   !.object = o, !.index = @ - 1,
                                   !.last = IF o \in ToSet(Top.start) THEN Place(o) ELSE @]
    <2>1. runs' = [runs EXCEPT ![Len(runs)] = next] /\ calls' = [calls EXCEPT ![o] = @ + 1]
      BY <1>2, <1>4 DEF Call, RunType
    <2>2. (IF o \in ToSet(Top.start) THEN Place(o) ELSE Top.last) \in 0..(MaxObjects + 1)
      BY <1>1, <1>2, PlaceFacts DEF RunType
    <2>3. next \in RunType
      <3>1. \A b \in BOOLEAN, l \in 0..(MaxObjects + 1) :
              [Top EXCEPT !.ran = TRUE, !.swept = b, !.object = o, !.index = @ - 1,
                          !.last = l] \in RunType
        BY <1>2 DEF RunType
      <3>2. (Top.swept \/ hasWeakTables) \in BOOLEAN
        OBVIOUS
      <3>3. QED
        BY <2>2, <3>1, <3>2, Zenon
    <2>4. /\ next \in RunType /\ SameWalk(Top, next) /\ next.index = Top.index - 1
          /\ next.object = o /\ next.count = Top.count /\ next.ran = TRUE
          /\ next.last = IF o \in ToSet(Top.start) THEN Place(o) ELSE Top.last
          /\ next.passed = Top.passed
      BY <1>2, <2>2, <2>3 DEF RunType, SameWalk
    <2> HIDE DEF next
    <2>5. TakeCalls(next) /\ (next.swept => next.ran)
      BY <1>2, <2>1, <2>4 DEF TakeCalls
    <2>6. /\ heap' \in HeapType /\ heap'.thread = heap.thread /\ heap'.weak = heap.weak
          /\ heap'.values \subseteq heap.values
      BY <1>2, <1>4, SweepFacts
    <2>7. QED
      BY <1>1, <1>4, <2>1, <2>4, <2>5, <2>6, TakeStep
  <1>5. QED
    BY <1>3, <1>4 DEF RunTableFinalizersForAuto

LEMMA OutOfRangeStep ==
  ASSUME CollectorAssumption, CollectorInv, OutOfRange
  PROVE  CollectorInv'
  <1>1. /\ UNCHANGED <<heap, gc, queue, finalized, deferred, born, insertIndex, hasWeakTables,
                       debugLibrary, runs, calls, work>>
        /\ panicked' = TRUE /\ runs # <<>> /\ Top.index > Len(queue)
    BY DEF OutOfRange, Scanning, collector
  <1>2. Top.nested
    <2>1. Len(queue) \in Nat /\ Top.index \in Int
      <3>1. queue \in Seq(Objects) /\ Top \in RunType /\ MaxObjects \in Nat
        BY <1>1, TopFacts DEF CollectorInv, TypeOK, CollectorAssumption
      <3>2. QED
        BY <3>1 DEF RunType
    <2>2. QED
      BY <1>1, <2>1 DEF CollectorInv, Ordered, Alone
  <1>3. Top' = Top /\ Alone' = Alone
    BY <1>1 DEF Top, Last, Alone
  <1>4. TypeOK' /\ Counted' /\ Swept'
    BY <1>1, <1>3 DEF CollectorInv, TypeOK, Counted, Swept, WeakKnown
  <1>5. Nested' /\ Began' /\ Ordered' /\ Undisturbed' /\ Justified'
    BY <1>1, <1>2, <1>3 DEF CollectorInv, Nested, Began, Ordered, Undisturbed, Justified
  <1>6. QED
    BY <1>4, <1>5 DEF CollectorInv

LEMMA FinalizerReturnsStep ==
  ASSUME CollectorAssumption, CollectorInv, FinalizerReturns \/ (FinalizerFails /\ Returned)
  PROVE  CollectorInv'
  <1>1. /\ runs \in Seq(RunType) /\ runs # <<>> /\ Returned /\ Top.object # None /\ ~panicked
        /\ TypeOK
    BY DEF FinalizerReturns, FinalizerFails, Mutating, CollectorInv, TypeOK
  <1>2. /\ Len(runs) \in Nat \ {0} /\ DOMAIN runs = 1..Len(runs) /\ Len(runs) \in DOMAIN runs
        /\ Top = runs[Len(runs)] /\ Top \in RunType
    BY <1>1, TopFacts
  <1>3. UNCHANGED <<heap, gc, queue, finalized, deferred, born, insertIndex, hasWeakTables,
                    debugLibrary, calls, work, panicked>>
    <2>1. CASE FinalizerReturns
      BY <2>1 DEF FinalizerReturns, collector
    <2>2. CASE FinalizerFails /\ Returned
      <3>1. UNCHANGED insertIndex
        <4>1. Len(Front(runs)) = Len(runs) - 1
          BY <1>1, FrontFacts
        <4>2. Len(runs') = Len(runs)
          BY <1>1, <1>2 DEF Returned
        <4>3. runs' # Front(runs)
          BY <1>2, <4>1, <4>2
        <4>4. QED
          BY <2>2, <4>3 DEF FinalizerFails
      <3>2. QED
        BY <2>2, <3>1 DEF FinalizerFails
    <2>3. QED
      BY <2>1, <2>2
  <1>4. /\ Top.count \in Nat /\ Top.count + 1 <= Cardinality(finalized)
        /\ Cardinality(finalized) \in Nat /\ Cardinality(finalized) <= MaxObjects
        /\ \A i \in 1..Len(runs) : runs[i].count + Busy(runs[i]) <= Cardinality(finalized)
    <2>1. /\ Cardinality(finalized) \in Nat /\ Cardinality(finalized) <= MaxObjects
          /\ MaxObjects \in Nat
      BY <1>1, FinalizedFinite DEF TypeOK, CollectorAssumption
    <2>2. \A i \in 1..Len(runs) : runs[i].count + Busy(runs[i]) <= Cardinality(finalized)
      BY <1>2 DEF CollectorInv, Counted
    <2>3. Busy(Top) = 1 /\ Top.count \in 0..MaxObjects
      BY <1>1, <1>2 DEF Busy, RunType
    <2>4. QED
      BY <1>2, <2>1, <2>2, <2>3
  <1>5. Top.count + 1 \in 0..MaxObjects
    BY <1>4 DEF CollectorAssumption
  <1>6. PICK next \in RunType : next = [Top EXCEPT !.object = None, !.count = @ + 1]
    BY <1>2, <1>5 DEF RunType
  <1>7. runs' = [runs EXCEPT ![Len(runs)] = next]
    BY <1>1, <1>2, <1>6 DEF Returned, RunType
  <1>8. /\ SameWalk(Top, next) /\ next.index = Top.index /\ next.object = None
        /\ next.count = Top.count + 1 /\ next.ran = Top.ran /\ next.swept = Top.swept
        /\ next.last = Top.last /\ next.passed = Top.passed
    BY <1>2, <1>6 DEF RunType, SameWalk
  <1>9. /\ runs' \in Seq(RunType) /\ Len(runs') = Len(runs) /\ runs' # <<>>
        /\ Top' = next /\ runs'[Len(runs)] = next /\ DOMAIN runs' = 1..Len(runs)
        /\ \A i \in 1..Len(runs) : i # Len(runs) => runs'[i] = runs[i]
    BY <1>1, <1>2, <1>6, <1>7, ReplaceTopFacts
  <1>10. TypeOK'
    BY <1>1, <1>3, <1>9 DEF TypeOK
  <1>11. Counted'
    <2>1. next.count + Busy(next) <= Cardinality(finalized)
      BY <1>4, <1>8 DEF Busy
    <2>2. \A i \in 1..Len(runs) : runs'[i].count + Busy(runs'[i]) <= Cardinality(finalized)
      BY <1>4, <1>9, <2>1
    <2>3. QED
      BY <1>3, <1>9, <2>2 DEF CollectorInv, Counted
  <1>12. Nested' /\ Began'
    <2>1. \A i \in 1..Len(runs) :
            /\ i < Len(runs) => runs'[i].nested /\ runs'[i].object # None
            /\ runs'[i].nested => ~debugLibrary
      <3>1. next.nested = Top.nested
        BY <1>8 DEF SameWalk
      <3>2. /\ \A i \in 1..Len(runs) : i < Len(runs) => runs[i].nested /\ runs[i].object # None
            /\ \A i \in 1..Len(runs) : runs[i].nested => ~debugLibrary
        BY <1>2 DEF CollectorInv, Nested
      <3>3. next.nested => ~debugLibrary
        BY <1>2, <3>1, <3>2
      <3>4. ASSUME NEW i \in 1..Len(runs), i # Len(runs)
            PROVE  /\ i < Len(runs) => runs'[i].nested /\ runs'[i].object # None
                   /\ runs'[i].nested => ~debugLibrary
        BY <1>9, <3>2, <3>4
      <3>5. ASSUME NEW i \in 1..Len(runs), i = Len(runs)
            PROVE  /\ i < Len(runs) => runs'[i].nested /\ runs'[i].object # None
                   /\ runs'[i].nested => ~debugLibrary
        <4>1. runs'[i] = next
          BY <1>9, <3>5, Zenon
        <4>2. ~(i < Len(runs))
          BY <1>2, <3>5
        <4>3. QED
          BY <3>3, <4>1, <4>2
      <3>6. QED
        BY <3>4, <3>5
    <2>2. \A i \in 1..Len(runs) :
            /\ Len(runs'[i].start) <= MaxObjects
            /\ ToSet(runs'[i].start) \cup runs'[i].late \subseteq ToSet(queue) \cup finalized
            /\ runs'[i].kind = "full" =>
                 heap.thread = "suspended" \/ runs'[i].held \subseteq runs'[i].strong
            /\ runs'[i].swept => runs'[i].ran
      <3>1. /\ next.start = Top.start /\ next.late = Top.late /\ next.kind = Top.kind
            /\ next.held = Top.held /\ next.strong = Top.strong
            /\ next.swept = Top.swept /\ next.ran = Top.ran
        BY <1>8 DEF SameWalk
      <3>2. QED
        BY <1>2, <1>9, <3>1 DEF CollectorInv, Began
    <2>3. deferred \subseteq ToSet(queue) \cup finalized
      BY DEF CollectorInv, Began
    <2>4. Nested'
      BY <1>1, <1>3, <1>9, <2>1 DEF Nested
    <2>5. Began'
      BY <1>3, <1>9, <2>2, <2>3 DEF Began
    <2>6. QED
      BY <2>4, <2>5
  <1>13. Alone' = Alone
    BY <1>1, <1>8, <1>9 DEF Alone, SameWalk
  <1>14. Ordered' /\ Undisturbed' /\ Justified'
    <2>1. /\ Top'.index = Top.index /\ Top'.start = Top.start /\ Top'.last = Top.last
          /\ Top'.kind = Top.kind /\ Top'.strong = Top.strong /\ Top'.late = Top.late
          /\ Top'.passed = Top.passed /\ Top'.inserting = Top.inserting
      BY <1>8, <1>9 DEF SameWalk
    <2>2. Ordered' /\ Undisturbed'
      BY <1>3, <1>13, <2>1 DEF CollectorInv, Ordered, Undisturbed
    <2>3. Justified'
      BY <1>3, <1>13, <2>1 DEF CollectorInv, Justified
    <2>4. QED
      BY <2>2, <2>3
  <1>15. Swept'
    <2>1. Top.count \in Nat
      BY <1>4
    <2>2. next.count # 0
      BY <1>8, <2>1
    <2>3. Top' = next
      BY <1>9
    <2>4. QED
      BY <1>3, <2>2, <2>3 DEF CollectorInv, Swept, WeakKnown
  <1>16. QED
    BY <1>10, <1>11, <1>12, <1>14, <1>15 DEF CollectorInv

\* A collection ends, or an error ends it: the one around it goes on with its
\* finalizer.
LEMMA PopStep ==
  ASSUME CollectorAssumption, CollectorInv, ~panicked, runs # <<>>, runs' = Front(runs),
         insertIndex' = insertIndex \/ insertIndex' = -1 \/ insertIndex' = 0,
         heap' \in HeapType, heap'.thread = heap.thread, WeakKnown', hasWeakTables' \in BOOLEAN,
         UNCHANGED <<gc, queue, finalized, deferred, born, debugLibrary, calls, work, panicked>>
  PROVE  CollectorInv'
  <1>1. TypeOK /\ runs \in Seq(RunType) /\ Len(runs) <= MaxDepth
    BY DEF CollectorInv, TypeOK
  <1>2. /\ runs' \in Seq(RunType) /\ Len(runs') = Len(runs) - 1 /\ Len(runs) \in Nat \ {0}
        /\ \A i \in 1..(Len(runs) - 1) : runs'[i] = runs[i]
    BY <1>1, FrontFacts
  <1>3. DOMAIN runs = 1..Len(runs) /\ DOMAIN runs' = 1..(Len(runs) - 1)
    BY <1>1, <1>2
  <1>4. runs' # <<>> => Top'.nested /\ Top'.object # None
    <2> SUFFICES ASSUME runs' # <<>> PROVE Top'.nested /\ Top'.object # None
      OBVIOUS
    <2>1. Len(runs) - 1 \in 1..(Len(runs) - 1)
      BY <1>2
    <2>2. Top' = runs[Len(runs) - 1]
      BY <1>2, <2>1 DEF Top, Last
    <2>3. runs[Len(runs) - 1].nested /\ runs[Len(runs) - 1].object # None
      BY <1>2, <1>3, <2>1 DEF CollectorInv, Nested
    <2>4. QED
      BY <2>2, <2>3
  <1>5. TypeOK'
    <2>1. Len(runs') <= MaxDepth
      BY <1>1, <1>2 DEF CollectorAssumption
    <2>2. insertIndex' \in -1..MaxObjects
      BY <1>1 DEF TypeOK, CollectorAssumption
    <2>3. QED
      BY <1>1, <1>2, <2>1, <2>2 DEF TypeOK
  <1>6. Counted'
    BY <1>2, <1>3 DEF CollectorInv, Counted
  <1>7. Nested'
    <2>1. \A i \in 1..(Len(runs) - 1) : runs'[i].nested /\ runs'[i].object # None /\ ~debugLibrary
      BY <1>2, <1>3 DEF CollectorInv, Nested
    <2>2. QED
      BY <1>2, <1>3, <2>1 DEF Nested
  <1>8. Began'
    BY <1>2, <1>3 DEF CollectorInv, Began
  <1>9. ~Alone'
    BY <1>4 DEF Alone
  <1>10. Ordered' /\ Undisturbed' /\ Justified'
    BY <1>9 DEF Ordered, Undisturbed, Justified
  <1>11. Swept'
    BY <1>4 DEF Swept
  <1>12. QED
    BY <1>5, <1>6, <1>7, <1>8, <1>10, <1>11 DEF CollectorInv

LEMMA FinalizerFailsStep ==
  ASSUME CollectorAssumption, CollectorInv, FinalizerFails
  PROVE  CollectorInv'
  <1>1. CASE Returned
    BY <1>1, FinalizerReturnsStep
  <1>2. CASE ~Returned
    <2>1. /\ insertIndex' = 0 /\ runs' = Front(runs) /\ runs # <<>> /\ ~panicked
          /\ UNCHANGED <<heap, gc, queue, finalized, deferred, born, hasWeakTables,
                         debugLibrary, calls, work, panicked>>
      BY <1>2 DEF FinalizerFails, Mutating
    <2>2. heap' \in HeapType /\ WeakKnown' /\ hasWeakTables' \in BOOLEAN
      BY <2>1 DEF CollectorInv, TypeOK, Swept, WeakKnown
    <2>3. QED
      BY <2>1, <2>2, PopStep
  <1>3. QED
    BY <1>1, <1>2

LEMMA EndStep ==
  ASSUME CollectorAssumption, CollectorInv, EndFullGC \/ EndAuto
  PROVE  CollectorInv'
  <1>1. /\ heap \in HeapType /\ WeakKnown /\ hasWeakTables \in BOOLEAN /\ heap.weak \in BOOLEAN
    BY DEF CollectorInv, TypeOK, Swept, HeapType
  <1>2. /\ ~panicked /\ runs # <<>> /\ runs' = Front(runs)
        /\ insertIndex' = insertIndex \/ insertIndex' = -1
        /\ UNCHANGED <<gc, queue, finalized, deferred, born, debugLibrary, calls, work, panicked>>
    BY DEF EndFullGC, EndAuto, Scanning, collector
  <1>3. /\ heap' = heap \/ heap' = SweepWeakTables(heap)
        /\ hasWeakTables' = hasWeakTables \/ hasWeakTables' = heap.weak
             \/ hasWeakTables' = (hasWeakTables /\ heap.weak)
    BY DEF EndFullGC, EndAuto
  <1>4. /\ heap' \in HeapType /\ heap'.thread = heap.thread /\ heap'.weak = heap.weak
        /\ heap'.values \subseteq heap.values
    BY <1>1, <1>3, SweepFacts
  <1>5. hasWeakTables' \in BOOLEAN
    BY <1>1, <1>3
  <1>6. WeakKnown'
    BY <1>1, <1>3, <1>4 DEF WeakKnown
  <1>7. QED
    BY <1>2, <1>4, <1>5, <1>6, PopStep

LEMMA InvInit ==
  ASSUME CollectorAssumption, Init
  PROVE  CollectorInv
  <1>1. heap \in HeapType /\ heap.values = {} /\ hasWeakTables = heap.weak /\ heap.weak \in BOOLEAN
    BY DEF Init, HeapType, CollectorAssumption
  <1>2. /\ queue = <<>> /\ runs = <<>> /\ calls = [o \in Objects |-> 0] /\ panicked = FALSE
        /\ finalized = {} /\ deferred = {} /\ born = {} /\ insertIndex = -1 /\ work = 0
        /\ gc = [o \in Objects |-> "other"] /\ debugLibrary \in BOOLEAN
    BY DEF Init
  <1>3. /\ queue \in Seq(Objects) /\ IsInjective(queue) /\ ToSet(queue) = {}
        /\ runs \in Seq(RunType) /\ Len(runs) = 0 /\ DOMAIN runs = {}
    BY <1>2 DEF IsInjective, ToSet
  <1>4. TypeOK
    <2>1. insertIndex \in -1..MaxObjects /\ work \in 0..MaxWork /\ Len(runs) <= MaxDepth
      BY <1>2, <1>3 DEF CollectorAssumption
    <2>2. QED
      BY <1>1, <1>2, <1>3, <2>1 DEF TypeOK
  <1>5. Counted /\ Nested /\ Began /\ Ordered /\ Undisturbed /\ Justified /\ Swept
    BY <1>1, <1>2, <1>3
       DEF Counted, Nested, Began, Ordered, Undisturbed, Justified, Swept, Alone, WeakKnown
  <1>6. QED
    BY <1>4, <1>5 DEF CollectorInv

LEMMA InvStep ==
  ASSUME CollectorAssumption, CollectorInv, [Next]_vars
  PROVE  CollectorInv'
  <1>1. CASE Program
    BY <1>1, ProgramStep
  <1>2. CASE FullGC
    BY <1>2, FullGCStep
  <1>3. ASSUME NEW sweep \in BOOLEAN, NoteTableAllocation(sweep) PROVE CollectorInv'
    BY <1>3, NoteTableAllocationStep
  <1>4. CASE OutOfRange
    BY <1>4, OutOfRangeStep
  <1>5. CASE RunTableFinalizers
    BY <1>5, RunTableFinalizersStep
  <1>6. CASE RunTableFinalizersForAuto
    BY <1>6, RunTableFinalizersForAutoStep
  <1>7. CASE FinalizerReturns
    BY <1>7, FinalizerReturnsStep
  <1>8. CASE FinalizerFails
    BY <1>8, FinalizerFailsStep
  <1>9. CASE EndFullGC \/ EndAuto
    BY <1>9, EndStep
  <1>10. CASE UNCHANGED vars
    <2>1. UNCHANGED <<heap, gc, queue, finalized, deferred, born, insertIndex, hasWeakTables,
                      debugLibrary, runs, calls, work, panicked>>
      BY <1>10 DEF vars, collector
    <2>2. Top' = Top /\ Alone' = Alone
      BY <2>1 DEF Top, Last, Alone
    <2>3. TypeOK' /\ Counted' /\ Nested' /\ Began' /\ Swept'
      BY <2>1, <2>2 DEF CollectorInv, TypeOK, Counted, Nested, Began, Swept, WeakKnown
    <2>4. Ordered' /\ Undisturbed' /\ Justified'
      BY <2>1, <2>2 DEF CollectorInv, Ordered, Undisturbed, Justified
    <2>5. QED
      BY <2>3, <2>4 DEF CollectorInv
  <1>11. QED
    BY <1>1, <1>2, <1>3, <1>4, <1>5, <1>6, <1>7, <1>8, <1>9, <1>10 DEF Next, Collection

-----------------------------------------------------------------------------
(* Theorems: invariants *)

\* The conjunction above holds in every state, for any number of tables,
\* operations and collections inside each other.
THEOREM Invariant == ASSUME CollectorAssumption PROVE Spec => []CollectorInv
  <1>1. Init => CollectorInv
    BY InvInit
  <1>2. CollectorInv /\ [Next]_vars => CollectorInv'
    BY InvStep
  <1>3. QED
    BY <1>1, <1>2, PTL DEF Spec

\* The State's queue of tables with a finalizer holds no table twice and none
\* that was finalized, and no index of a collection leaves its bounds: gc.go's
\* registration, walk and error paths keep the types.
THEOREM TypeCorrect == ASSUME CollectorAssumption PROVE Spec => []TypeOK
  <1>1. CollectorInv => TypeOK
    BY DEF CollectorInv
  <1>2. QED
    BY <1>1, Invariant, PTL

\* A table's __gc is called at most once.
THEOREM FinalizersCalledOnce == ASSUME CollectorAssumption PROVE Spec => []CalledOnce
  <1>1. CollectorInv => CalledOnce
    <2> SUFFICES ASSUME CollectorInv, NEW o \in Objects PROVE calls[o] <= 1
      BY DEF CalledOnce
    <2>1. calls[o] \in {0, 1}
      BY DEF CollectorInv, Counted
    <2>2. QED
      BY <2>1
  <1>2. QED
    BY <1>1, Invariant, PTL

\* A walk that leaves its queue had a collection inside it.
THEOREM PanicsNested == ASSUME CollectorAssumption PROVE Spec => []PanicsOnlyNested
  <1>1. CollectorInv => PanicsOnlyNested
    <2> SUFFICES ASSUME CollectorInv, panicked PROVE ~debugLibrary /\ Top.nested
      BY DEF PanicsOnlyNested
    <2>1. runs # <<>> /\ Top.nested
      BY DEF CollectorInv, Nested
    <2>2. Len(runs) \in DOMAIN runs /\ Top = runs[Len(runs)]
      BY <2>1, TopFacts DEF CollectorInv, TypeOK
    <2>3. QED
      BY <2>1, <2>2 DEF CollectorInv, Nested
  <1>2. QED
    BY <1>1, Invariant, PTL

-----------------------------------------------------------------------------
(* Theorems: what a step may never do *)

\* Only the walk calls a finalizer, and it calls that of the table it looks at.
LEMMA Callers ==
  ASSUME CollectorAssumption, CollectorInv, [Next]_vars, NEW o \in Objects, Calls(o)
  PROVE  /\ Looking /\ o = Candidate
         /\ \/ RunTableFinalizers /\ Top.kind = "full" /\ ~Kept(o) /\ heap' = heap
            \/ /\ RunTableFinalizersForAuto /\ Top.kind = "auto"
               /\ o \notin Registers \cup tableReachableFromAutoRoots
               /\ heap' = IF hasWeakTables /\ ~Top.swept THEN SweepWeakValues(heap) ELSE heap
  <1>0. TypeOK /\ calls \in [Objects -> {0, 1}] /\ calls'[o] # calls[o]
    BY DEF CollectorInv, Counted, Calls
  <1>1. CASE Program
    <2>1. calls' = calls
      BY <1>0, <1>1, ProgramFacts DEF ProgramEffect
    <2>2. QED
      BY <1>0, <2>1
  <1>2. CASE FullGC \/ (\E sweep \in BOOLEAN : NoteTableAllocation(sweep))
    BY <1>0, <1>2 DEF FullGC, NoteTableAllocation
  <1>3. CASE OutOfRange \/ FinalizerReturns \/ FinalizerFails \/ EndFullGC \/ EndAuto
    BY <1>0, <1>3 DEF OutOfRange, FinalizerReturns, FinalizerFails, EndFullGC, EndAuto
  <1>4. CASE UNCHANGED vars
    BY <1>0, <1>4 DEF vars
  <1>5. ASSUME NEW run, Call(Candidate, run) PROVE o = Candidate
    BY <1>0, <1>5 DEF Call
  <1>6. CASE RunTableFinalizers
    <2>1. Looking /\ Top.kind = "full" /\ heap' = heap
      BY <1>6 DEF RunTableFinalizers, Scanning, Looking
    <2>2. /\ ~Kept(Candidate)
          /\ Call(Candidate, [Top EXCEPT !.associated = tableHasWeakAssociation(Candidate)])
      BY <1>0, <1>6 DEF RunTableFinalizers
    <2>3. QED
      BY <1>5, <1>6, <2>1, <2>2
  <1>7. CASE RunTableFinalizersForAuto
    <2>1. Looking /\ Top.kind = "auto"
      BY <1>7 DEF RunTableFinalizersForAuto, Scanning, Looking
    <2>2. /\ Candidate \notin Registers \cup tableReachableFromAutoRoots
          /\ Call(Candidate, [Top EXCEPT !.ran = TRUE, !.swept = @ \/ hasWeakTables])
          /\ heap' = IF hasWeakTables /\ ~Top.swept THEN SweepWeakValues(heap) ELSE heap
      BY <1>0, <1>7 DEF RunTableFinalizersForAuto
    <2>3. QED
      BY <1>5, <1>7, <2>1, <2>2
  <1>8. QED
    BY <1>1, <1>2, <1>3, <1>4, <1>6, <1>7 DEF Next, Collection

\* What is reached through a key of the weak-key table is a value of it: an
\* automatic collection, which takes every value for reachable, spares it.
LEMMA EphemeronsAreValues ==
  ASSUME heap \in HeapType, NEW S \in SUBSET Objects
  PROVE  WithEphemerons(S) \subseteq S \cup ValuesOf(Objects)
  <1>1. ValuesOf(Objects) \subseteq Objects
    BY DEF ValuesOf, HeapType
  <1>2. S \cup ValuesOf(Objects) \in SUBSET Objects
    BY <1>1
  <1>3. Closed(S \cup ValuesOf(Objects))
    BY <1>2 DEF Closed, ValuesOf
  <1>4. QED
    BY <1>2, <1>3 DEF WithEphemerons

LEMMA AutoRootsSuffice ==
  ASSUME TypeOK
  PROVE  strongReferenceKeys \subseteq Registers \cup tableReachableFromAutoRoots
  <1>1. heap \in HeapType /\ runs \in Seq(RunType)
    BY DEF TypeOK
  <1>2. heap.globals \cup Registers \in SUBSET Objects
    <2>1. \A i \in DOMAIN runs : runs[i].object \in Objects \cup {None}
      <3>1. \A i \in DOMAIN runs : runs[i] \in RunType
        BY <1>1
      <3>2. QED
        BY <3>1 DEF RunType
    <2>2. QED
      BY <1>1, <2>1 DEF Registers, HeapType
  <1>3. QED
    BY <1>1, <1>2, EphemeronsAreValues DEF strongReferenceKeys, tableReachableFromAutoRoots

\* A finalizer gets a table that was dead when its collection began, but for
\* what Collector's FinalizesTheDead says the code does not see.
THEOREM OnlyTheDeadFinalized == ASSUME CollectorAssumption PROVE Spec => FinalizesTheDead
  <1>1. ASSUME CollectorInv, [Next]_vars, NEW o \in Objects, Calls(o)
        PROVE  \/ Top.kind = "auto" /\ o \notin Reachable \ Hidden
               \/ Top.kind = "full" /\ tableHasWeakAssociation(o)
               \/ /\ Top.kind = "full"
                  /\ IF o \in ToSet(Top.start)
                       THEN o \in Top.held => o \notin Top.strong /\ heap.thread = "suspended"
                       ELSE o \notin Reachable \/ Top.inserting \/ Top.nested
    <2>1. Looking /\ o = Candidate /\ TypeOK
      BY <1>1, Callers DEF CollectorInv
    <2>2. CASE Top.kind = "auto"
      <3>1. o \notin Registers \cup tableReachableFromAutoRoots
        BY <1>1, <2>2, Callers
      <3>2. o \notin strongReferenceKeys
        BY <2>1, <3>1, AutoRootsSuffice
      <3>3. QED
        BY <2>2, <3>2 DEF Hidden
    <2>3. CASE Top.kind = "full" /\ ~tableHasWeakAssociation(o)
      <3>1. o \notin Top.strong
        BY <1>1, <2>3, Callers DEF Kept
      <3>2. heap.thread = "suspended" \/ Top.held \subseteq Top.strong
        BY <1>1, <2>1, <2>3, LookingFacts DEF CollectorInv, Began
      <3>3. o \in ToSet(Top.start) \/ Top.inserting \/ Top.nested
        <4>1. Top.index \in DOMAIN queue /\ Top.index <= Top.index /\ runs # <<>>
          BY <1>1, <2>1, LookingFacts DEF Looking
        <4>2. QED
          BY <1>1, <2>1, <4>1 DEF CollectorInv, Undisturbed, Alone, Candidate
      <3>4. QED
        BY <2>3, <3>1, <3>2, <3>3
    <2>4. QED
      BY <1>1, <2>2, <2>3, Callers
  <1>2. CollectorInv /\ [Next]_vars =>
          \A o \in Objects : Calls(o) =>
            \/ Top.kind = "auto" /\ o \notin Reachable \ Hidden
            \/ Top.kind = "full" /\ tableHasWeakAssociation(o)
            \/ /\ Top.kind = "full"
               /\ IF o \in ToSet(Top.start)
                    THEN o \in Top.held => o \notin Top.strong /\ heap.thread = "suspended"
                    ELSE o \notin Reachable \/ Top.inserting \/ Top.nested
    BY <1>1
  <1>3. QED
    BY <1>2, Invariant, PTL DEF Spec, FinalizesTheDead

\* A collection inside which no other ran calls the finalizers from the end of
\* the queue it found.
THEOREM FinalizedInReverse == ASSUME CollectorAssumption PROVE Spec => ReverseOrder
  <1>1. ASSUME CollectorInv, [Next]_vars, NEW o \in Objects, Calls(o),
               ~Top.nested, o \in ToSet(Top.start)
        PROVE  Place(o) < Top.last
    <2>1. Looking /\ o = Candidate
      BY <1>1, Callers
    <2>2. Place(o) \in DOMAIN Top.start /\ Top.start[Place(o)] = o
      <3>1. \E i \in DOMAIN Top.start : Top.start[i] = o
        BY <1>1 DEF ToSet
      <3>2. QED
        BY <3>1 DEF Place
    <2>3. Alone /\ Top.index \in DOMAIN queue /\ queue[Top.index] = o /\ Top.index <= Top.index
      BY <1>1, <2>1, LookingFacts DEF Looking, Alone, Candidate
    <2>4. QED
      BY <1>1, <2>2, <2>3 DEF CollectorInv, Ordered
  <1>2. CollectorInv /\ [Next]_vars =>
          \A o \in Objects : Calls(o) /\ ~Top.nested /\ o \in ToSet(Top.start) => Place(o) < Top.last
    BY <1>1
  <1>3. QED
    BY <1>2, Invariant, PTL DEF Spec, ReverseOrder

\* A full collection that succeeds leaves no dead table in the queue but those
\* it has put off, and puts none off twice.
THEOREM NoThirdCollection == ASSUME CollectorAssumption PROVE Spec => SecondCollection
  <1>1. ASSUME CollectorInv, EndFullGC, ~Top.inserting, ~Top.nested,
               NEW o \in ToSet(queue) \cap ToSet(Top.start)
        PROVE  o \in Top.strong \/ o \in deferred \ Top.late \/ o \in Top.passed
    <2>1. Alone /\ Top.kind = "full" /\ Top.index = 0
      BY <1>1 DEF EndFullGC, Scanning, Alone
    <2>2. PICK j \in DOMAIN queue : queue[j] = o
      BY DEF ToSet
    <2>3. j > Top.index
      BY <1>1, <2>1 DEF CollectorInv, TypeOK
    <2>4. QED
      BY <1>1, <2>1, <2>2, <2>3 DEF CollectorInv, Justified
  <1>2. CollectorInv /\ [Next]_vars =>
          (EndFullGC /\ ~Top.inserting /\ ~Top.nested =>
             \A o \in ToSet(queue) \cap ToSet(Top.start) :
               \/ o \in Top.strong
               \/ o \in deferred \ Top.late
               \/ o \in Top.passed)
    BY <1>1
  <1>3. QED
    BY <1>2, Invariant, PTL DEF Spec, SecondCollection

\* The first finalizer of a collection does not find its table in a weak-value
\* table, and every one finds its entry as a weak key (gc.go:201).
THEOREM WeakEntriesBeforeFinalizer ==
  ASSUME CollectorAssumption PROVE Spec => WeakBeforeFinalizer
  <1>1. ASSUME CollectorInv, [Next]_vars, NEW o \in Objects, Calls(o)
        PROVE  /\ heap'.keys = heap.keys
               /\ o \in heap'.values => o \in Top.strong \/ Top.count > 0 \/ Top.ran
    <2>1. /\ Looking /\ o = Candidate /\ TypeOK /\ heap \in HeapType
          /\ Top \in RunType /\ Top = runs[Len(runs)] /\ Len(runs) \in DOMAIN runs
      BY <1>1, Callers, LookingFacts DEF CollectorInv, TypeOK
    <2>2. CASE Top.kind = "full" /\ heap' = heap
      <3>1. Top.count = 0 => heap.values \subseteq Top.strong
        BY <1>1, <2>1, <2>2 DEF CollectorInv, Swept, Looking
      <3>2. Top.count \in Nat
        BY <2>1 DEF RunType, CollectorAssumption
      <3>3. QED
        BY <2>2, <3>1, <3>2
    <2>3. CASE /\ o \notin Registers \cup tableReachableFromAutoRoots
               /\ heap' = IF hasWeakTables /\ ~Top.swept THEN SweepWeakValues(heap) ELSE heap
      <3>1. CASE hasWeakTables /\ ~Top.swept
        <4>1. o \notin strongReferenceKeys
          BY <2>1, <2>3, AutoRootsSuffice
        <4>2. QED
          BY <2>1, <2>3, <3>1, <4>1, SweepFacts
      <3>2. CASE Top.swept
        BY <1>1, <2>1, <2>3, <3>2 DEF CollectorInv, Began
      <3>3. CASE ~hasWeakTables
        BY <1>1, <2>3, <3>3 DEF CollectorInv, Swept, WeakKnown
      <3>4. QED
        BY <3>1, <3>2, <3>3
    <2>4. QED
      BY <1>1, <2>2, <2>3, Callers
  <1>2. CollectorInv /\ [Next]_vars =>
          \A o \in Objects : Calls(o) =>
            /\ heap'.keys = heap.keys
            /\ o \in heap'.values => \/ o \in Top.strong
                                     \/ Top.count > 0 \/ Top.ran
    BY <1>1
  <1>3. QED
    BY <1>2, Invariant, PTL DEF Spec, WeakBeforeFinalizer

\* Whatever the collector takes from the weak tables the program cannot reach,
\* or only through the locals of a suspended coroutine.
THEOREM OnlyTheDeadSwept == ASSUME CollectorAssumption PROVE Spec => SweepsTheDead
  <1>1. ASSUME CollectorInv, heap' = heap \/ heap' = SweepWeakValues(heap) \/ heap' = SweepWeakTables(heap),
               NEW o \in Reachable
        PROVE  \/ heap.thread = "suspended" /\ o \in Hidden
               \/ /\ heap'.keys[o] = heap.keys[o]
                  /\ o \in heap.values => o \in heap'.values
    <2>1. heap \in HeapType
      BY <1>1 DEF CollectorInv, TypeOK
    <2>2. CASE o \in strongReferenceKeys
      BY <1>1, <2>1, <2>2, SweepFacts
    <2>3. CASE o \notin strongReferenceKeys
      <3>1. heap.thread = "suspended"
        BY <2>3 DEF Reachable, strongReferenceKeys, Registers
      <3>2. QED
        BY <2>3, <3>1 DEF Hidden
    <2>4. QED
      BY <2>2, <2>3
  <1>2. ASSUME CollectorInv, [Next]_vars, heap' # heap, work' = work
        PROVE  heap' = SweepWeakValues(heap) \/ heap' = SweepWeakTables(heap)
    <2>1. CASE Program
      <3>1. work' = work + 1 /\ work \in 0..MaxWork
        BY <1>2, <2>1, ProgramFacts DEF ProgramEffect, CollectorInv, TypeOK
      <3>2. QED
        BY <1>2, <3>1 DEF CollectorAssumption
    <2>2. CASE Collection
      BY <1>2, <2>2
         DEF Collection, FullGC, NoteTableAllocation, OutOfRange, RunTableFinalizers,
             RunTableFinalizersForAuto, FinalizerReturns, FinalizerFails, EndFullGC, EndAuto
    <2>3. CASE UNCHANGED vars
      BY <1>2, <2>3 DEF vars
    <2>4. QED
      BY <1>2, <2>1, <2>2, <2>3 DEF Next
  <1>3. CollectorInv /\ [Next]_vars =>
          (heap' # heap /\ work' = work =>
             \A o \in Reachable :
               \/ heap.thread = "suspended" /\ o \in Hidden
               \/ /\ heap'.keys[o] = heap.keys[o]
                  /\ o \in heap.values => o \in heap'.values)
    BY <1>1, <1>2
  <1>4. QED
    BY <1>3, Invariant, PTL DEF Spec, SweepsTheDead
=============================================================================
