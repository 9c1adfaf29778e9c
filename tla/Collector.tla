----------------------------- MODULE Collector -----------------------------
(***************************************************************************)
(* The collector of src/runtime/gc.go.  The Go runtime frees the memory;   *)
(* what the State does itself is to decide when a table with a __gc        *)
(* metamethod is dead, to call the metamethod, and to clear the entries of *)
(* weak tables.                                                            *)
(*                                                                         *)
(* A finalizer is a Lua function called in the middle of the collector's   *)
(* walk over its queue.  While it runs the program may do anything: store  *)
(* the dying object, register another one, allocate, or collect again.     *)
(* So a collection is not a step but a frame of "runs", one action for     *)
(* each position of its index, and the program moves when no frame is      *)
(* walking.                                                                *)
(***************************************************************************)
EXTENDS Integers, FiniteSets, SequencesExt

CONSTANTS
  MaxObjects,  \* bound on the tables with a __gc metamethod
  None,
  Plain,       \* a value that is not collectable
  MaxWork,     \* bound on the operations of the program
  MaxDepth     \* bound on the collections inside each other

\* Assumed where the constants get their values (MCData).
CollectorAssumption ==
  /\ MaxObjects \in Nat
  /\ None \notin 1..MaxObjects /\ Plain \notin 1..MaxObjects \cup {None}
  /\ MaxWork \in Nat /\ MaxDepth \in Nat \ {0}

VARIABLES
  heap,           \* what the program holds, see HeapType
  gc,             \* __gc of each object's metatable: "function" or "other"
  queue,          \* State.finalizableTables
  finalized,      \* State.finalizedTables
  deferred,       \* State.deferredThreadFinalizers
  born,           \* State.coroutineBornFinalizers
  insertIndex,    \* State.finalizerInsertIndex
  hasWeakTables,  \* State.hasWeakTables
  debugLibrary,   \* the debug library is open: finalizers run as hooks do
  runs,           \* the collections under way, the innermost last
  calls,          \* how often each finalizer was called
  work,           \* operations of the program so far
  panicked        \* the walk indexed its queue out of range

collector == <<queue, finalized, deferred, born, insertIndex>>
vars == <<heap, gc, collector, hasWeakTables, debugLibrary, runs, calls, work, panicked>>

\* Tables, in the order of their creation.
Objects == 1..MaxObjects

Holders == {"globals", "locals", "coroutine", "resumed"}

(* globals: held by _G or the registry.  locals: named locals of the main  *)
(* program.  coroutine: named locals of the coroutine's frame, which is an *)
(* active VM only while it runs.  resumed: the arguments of its last       *)
(* resume, Thread.stack, kept even when it is dead.  keys: the values of a *)
(* weak-key table, None where there is no entry.  values: what a           *)
(* weak-value table holds.  weak: the two weak tables exist.               *)
HeapType ==
  [ globals: SUBSET Objects, locals: SUBSET Objects,
    coroutine: SUBSET Objects, resumed: SUBSET Objects,
    thread: {"none", "running", "suspended", "dead"},
    weak: BOOLEAN,
    keys: [Objects -> Objects \cup {Plain, None}],
    values: SUBSET Objects,
    created: 0..MaxObjects ]

RunType ==
  [ kind: {"full", "auto"},
    index: 0..MaxObjects,                \* the next position to look at
    strong: SUBSET Objects,              \* strongRefs of a full collection
    object: Objects \cup {None},         \* whose finalizer is running
    associated: BOOLEAN,                 \* weakAssociated of that object
    count: 0..MaxObjects,                \* finalizedThisRun
    ran: BOOLEAN, swept: BOOLEAN,        \* ranFinalizer, sweptWeakValues
    tick: BOOLEAN,                       \* weakSweepTick of the allocation
    start: Seq(Objects),                 \* history: the queue it began with
    held: SUBSET Objects,                \* history: reachable when it began
    late: SUBSET Objects,                \* history: put off by an earlier one
    passed: SUBSET Objects,              \* history: left for an active local's sake
    inserting: BOOLEAN,                  \* history: insertIndex was set
    nested: BOOLEAN,                     \* history: another one ran inside it
    last: 0..(MaxObjects + 1) ]          \* history: last place called

----------------------------------------------------------------------------
(* Reachability *)

Top == Last(runs)
Mutating == ~panicked /\ (runs # <<>> => Top.object # None)
Scanning(kind) == ~panicked /\ runs # <<>> /\ Top.object = None /\ Top.kind = kind
InFinalizer == \E i \in DOMAIN runs : runs[i].object # None

\* Mutant: a finalizer does not count as a hook.
HookNeverActive == FALSE

\* RunWithHooksSuppressed keeps hookActive set for as long as a finalizer runs.
HookActive == debugLibrary /\ InFinalizer

\* Named locals of the active VMs; a finalizer's argument is one.
Registers ==
  UNION { heap.locals,
          IF heap.thread = "running" THEN heap.coroutine ELSE {},
          {runs[i].object : i \in DOMAIN runs} \ {None} }

ValuesOf(S) == {heap.keys[k] : k \in S} \ {Plain, None}

\* S and the values of the weak-key table whose keys are in it, and so on: the
\* least set that holds S and the values of its keys.
Closed(C) == ValuesOf(C) \subseteq C
WithEphemerons(S) ==
  {o \in Objects : \A C \in SUBSET Objects : S \subseteq C /\ Closed(C) => o \in C}

\* Neither a coroutine's stack nor its suspended frame is a root here.
strongReferenceKeys == WithEphemerons(heap.globals \cup Registers)

\* A value of the weak-key table counts whether its key is alive or not.
tableReachableFromAutoRoots ==
  UNION {heap.globals, Registers, heap.resumed, ValuesOf(Objects)}

tableReferencedBySuspendedThread ==
  IF heap.thread = "suspended" THEN heap.resumed ELSE {}

tableHasWeakAssociation(o) == heap.keys[o] # None

\* What the program can still get at: the definition the collector is judged by.
Usable == strongReferenceKeys
Reachable ==
  WithEphemerons(UNION { heap.globals, Registers,
                         IF heap.thread = "suspended" THEN heap.coroutine ELSE {} })

----------------------------------------------------------------------------
(* Weak tables *)

\* Mutants: the values stay until after the finalizers; a key counts as
\* reachable only if it is so without a weak table.
SweepNothing(h) == h
SweepWithoutEphemerons(h) ==
  LET roots == heap.globals \cup Registers
  IN  [h EXCEPT !.values = @ \cap roots,
                !.keys = [o \in Objects |-> IF o \in roots THEN @[o] ELSE None]]

SweepWeakValues(h) == [h EXCEPT !.values = @ \cap strongReferenceKeys]

SweepWeakTables(h) ==
  [h EXCEPT !.values = @ \cap strongReferenceKeys,
            !.keys = [o \in Objects |-> IF o \in strongReferenceKeys THEN @[o] ELSE None]]

----------------------------------------------------------------------------
(* The program *)

Init ==
  /\ heap \in [ globals: {{}}, locals: {{}}, coroutine: {{}}, resumed: {{}},
                thread: {"none"}, weak: BOOLEAN, keys: {[o \in Objects |-> None]},
                values: {{}}, created: {0} ]
  /\ hasWeakTables = heap.weak
  /\ debugLibrary \in BOOLEAN
  /\ gc = [o \in Objects |-> "other"]
  /\ queue = <<>> /\ finalized = {} /\ deferred = {} /\ born = {} /\ insertIndex = -1
  /\ runs = <<>> /\ calls = [o \in Objects |-> 0] /\ work = 0 /\ panicked = FALSE

Working == Mutating /\ work < MaxWork /\ work' = work + 1
Same == UNCHANGED <<debugLibrary, runs, calls, panicked>>
OnlyHeap == Working /\ Same /\ UNCHANGED <<gc, collector, hasWeakTables>>

\* Mutants: a table may be queued again.
RegisterQueued(o) ==
  IF o \in finalized THEN UNCHANGED collector
  ELSE queue' = Append(queue, o) /\ UNCHANGED <<finalized, deferred, born, insertIndex>>
RegisterFinalized(o) ==
  IF o \in ToSet(queue) THEN UNCHANGED collector
  ELSE queue' = Append(queue, o) /\ UNCHANGED <<finalized, deferred, born, insertIndex>>

RegisterTableFinalizer(o) ==
  IF o \in finalized \cup ToSet(queue)
    THEN UNCHANGED collector
    ELSE /\ IF insertIndex \in 0..Len(queue)
              THEN /\ queue' = InsertAt(queue, insertIndex + 1, o)
                   /\ insertIndex' = insertIndex + 1
              ELSE queue' = Append(queue, o) /\ UNCHANGED insertIndex
         /\ born' = IF heap.thread = "running" THEN born \cup {o} ELSE born
         /\ UNCHANGED <<finalized, deferred>>

\* setmetatable with a __gc function on a new table.  A local of the code that
\* runs holds it, or a global, or nothing.
NewObject(holder) ==
  /\ Working /\ Same /\ UNCHANGED hasWeakTables
  /\ heap.created < MaxObjects
  /\ holder \in {"none"} \cup
       (IF runs # <<>> THEN {"globals"}
        ELSE IF heap.thread = "running" THEN {"coroutine"} ELSE {"locals"})
  /\ LET o == heap.created + 1
         h == [heap EXCEPT !.created = o]
     IN  /\ heap' = IF holder = "none" THEN h ELSE [h EXCEPT ![holder] = @ \cup {o}]
         /\ gc' = [gc EXCEPT ![o] = "function"]
         /\ RegisterTableFinalizer(o)

\* setmetatable on a table the program has, with another __gc.
SetMetatable(o, g) ==
  /\ Working /\ Same /\ UNCHANGED <<heap, hasWeakTables>>
  /\ o \in Usable /\ gc[o] # g
  /\ gc' = [gc EXCEPT ![o] = g]
  /\ RegisterTableFinalizer(o)

Store(o, holder) ==
  /\ OnlyHeap
  /\ o \in Usable \ heap[holder]
  /\ holder = "globals" \/ (holder = "locals" /\ heap.thread # "running")
       \/ (holder = "coroutine" /\ heap.thread = "running")
  /\ heap' = [heap EXCEPT ![holder] = @ \cup {o}]

Forget(o, holder) ==
  /\ OnlyHeap
  /\ o \in heap[holder]
  /\ holder = "globals" \/ holder = "locals" \/ heap.thread = "running"
  /\ heap' = [heap EXCEPT ![holder] = @ \ {o}]

SetWeakKey(o, v) ==
  /\ OnlyHeap
  /\ heap.weak /\ o \in Usable /\ v \in Usable \cup {Plain} /\ heap.keys[o] # v
  /\ heap' = [heap EXCEPT !.keys[o] = v]

SetWeakValue(o) ==
  /\ OnlyHeap
  /\ heap.weak /\ o \in Usable \ heap.values
  /\ heap' = [heap EXCEPT !.values = @ \cup {o}]

\* setmetatable with __mode on two new tables, held by globals.
RegisterWeakTable ==
  /\ Working /\ Same /\ UNCHANGED <<gc, collector>>
  /\ ~heap.weak
  /\ heap' = [heap EXCEPT !.weak = TRUE]
  /\ hasWeakTables' = TRUE

DropWeakTables ==
  /\ OnlyHeap
  /\ heap.weak
  /\ heap' = [heap EXCEPT !.weak = FALSE, !.values = {},
                          !.keys = [o \in Objects |-> None]]

\* The coroutine is resumed with at most one object, and is held by a global.
Resume(S) ==
  /\ OnlyHeap
  /\ runs = <<>> /\ heap.thread \in {"none", "suspended"}
  /\ S \subseteq Usable /\ Cardinality(S) <= 1
  /\ heap' = [heap EXCEPT !.thread = "running", !.resumed = S, !.coroutine = @ \cup S]

Yield ==
  /\ OnlyHeap
  /\ runs = <<>> /\ heap.thread = "running"
  /\ heap' = [heap EXCEPT !.thread = "suspended"]

Return ==
  /\ OnlyHeap
  /\ runs = <<>> /\ heap.thread = "running"
  /\ heap' = [heap EXCEPT !.thread = "dead", !.coroutine = {}]

----------------------------------------------------------------------------
(* A collection begins *)

Run(kind, tick) ==
  [ kind |-> kind, index |-> Len(queue),
    strong |-> IF kind = "full" THEN strongReferenceKeys ELSE {},
    object |-> None, associated |-> FALSE, count |-> 0,
    ran |-> FALSE, swept |-> FALSE, tick |-> tick,
    start |-> queue, held |-> Reachable, late |-> deferred, passed |-> {},
    inserting |-> insertIndex # -1,
    nested |-> FALSE, last |-> Len(queue) + 1 ]

Begin(run) ==
  /\ Len(runs) < MaxDepth
  /\ runs' = Append([i \in DOMAIN runs |-> [runs[i] EXCEPT !.nested = TRUE]], run)

\* collectgarbage("collect"); under a hook or, with the debug library, in a
\* finalizer it only resets the counters.
FullGC ==
  /\ Mutating /\ ~HookActive
  /\ Begin(Run("full", FALSE))
  /\ heap' = SweepWeakValues(heap)
  /\ UNCHANGED <<gc, collector, hasWeakTables, debugLibrary, calls, work, panicked>>

\* Every sixteenth allocation while the collector is not stopped; every
\* eightieth (sweep) is also a tick of the weak tables.
NoteTableAllocation(sweep) ==
  /\ Mutating
  /\ LET weakSweepTick == sweep /\ hasWeakTables
     IN  IF queue # <<>> /\ ~HookActive
           THEN Begin(Run("auto", weakSweepTick)) /\ UNCHANGED heap
           ELSE weakSweepTick /\ heap' = SweepWeakTables(heap) /\ UNCHANGED runs
  /\ UNCHANGED <<gc, collector, hasWeakTables, debugLibrary, calls, work, panicked>>

----------------------------------------------------------------------------
(* Its walk over the queue, from the end *)

Candidate == queue[Top.index]

Place(o) == CHOOSE i \in DOMAIN Top.start : Top.start[i] = o

\* The walk leaves the table at its index and goes on.
Skip == runs' = [runs EXCEPT ![Len(runs)].index = @ - 1]

\* The index outlives what a finalizer did to the queue.
OutOfRange ==
  /\ Scanning("full") \/ Scanning("auto")
  /\ Top.index > Len(queue)
  /\ panicked' = TRUE
  /\ UNCHANGED <<heap, gc, collector, hasWeakTables, debugLibrary, runs, calls, work>>

\* The table leaves the queue for good, and its finalizer is called if it has one.
Finalize(o) ==
  /\ finalized' = finalized \cup {o}
  /\ queue' = RemoveAt(queue, Top.index)
  /\ UNCHANGED insertIndex

\* Mutant: the walk stays at its index, where the next table has moved.
CallAndStay(o, run) ==
  /\ runs' = [runs EXCEPT ![Len(runs)] =
                [run EXCEPT !.object = o,
                            !.last = IF o \in ToSet(run.start) THEN Place(o) ELSE @]]
  /\ calls' = [calls EXCEPT ![o] = @ + 1]

Call(o, run) ==
  /\ runs' = [runs EXCEPT ![Len(runs)] =
                [run EXCEPT !.object = o, !.index = @ - 1,
                            !.last = IF o \in ToSet(run.start) THEN Place(o) ELSE @]]
  /\ calls' = [calls EXCEPT ![o] = @ + 1]

\* Mutant: what was strong when the collection began is not looked up.
KeptByRegisters(o) == o \in Registers /\ ~tableHasWeakAssociation(o)

Kept(o) ==
  /\ o \in Top.strong \cup Registers
  /\ ~tableHasWeakAssociation(o)

\* Mutant: a table may be put off every time.
DeferredAgain(o) == o \in born \cup tableReferencedBySuspendedThread

Deferred(o) ==
  /\ o \in born \cup tableReferencedBySuspendedThread
  /\ o \notin deferred

RunTableFinalizers ==
  /\ Scanning("full") /\ Top.index \in DOMAIN queue
  /\ LET o == Candidate IN
     \/ /\ Kept(o)
        /\ runs' = [runs EXCEPT ![Len(runs)] =
                      [Top EXCEPT !.index = @ - 1, !.passed = @ \cup ({o} \cap Registers)]]
        /\ UNCHANGED <<collector, calls>>
     \/ /\ ~Kept(o) /\ Deferred(o)
        /\ deferred' = deferred \cup {o}
        /\ Skip
        /\ UNCHANGED <<queue, finalized, born, insertIndex, calls>>
     \/ /\ ~Kept(o) /\ ~Deferred(o)
        /\ Finalize(o)
        /\ deferred' = deferred \ {o} /\ born' = born \ {o}
        /\ IF gc[o] = "function"
             THEN Call(o, [Top EXCEPT !.associated = tableHasWeakAssociation(o)])
             ELSE Skip /\ UNCHANGED calls
  /\ UNCHANGED <<heap, gc, hasWeakTables, debugLibrary, work, panicked>>

RunTableFinalizersForAuto ==
  /\ Scanning("auto") /\ Top.index \in DOMAIN queue
  /\ LET o == Candidate IN
     \/ /\ o \in Registers \cup tableReachableFromAutoRoots \/ gc[o] # "function"
        /\ Skip
        /\ UNCHANGED <<heap, collector, calls>>
     \/ /\ o \notin Registers \cup tableReachableFromAutoRoots /\ gc[o] = "function"
        /\ heap' = IF hasWeakTables /\ ~Top.swept THEN SweepWeakValues(heap) ELSE heap
        /\ Finalize(o)
        /\ Call(o, [Top EXCEPT !.ran = TRUE, !.swept = @ \/ hasWeakTables])
        /\ UNCHANGED <<deferred, born>>
  /\ UNCHANGED <<gc, hasWeakTables, debugLibrary, work, panicked>>

\* The finalizer returns, or fails where the walk goes on after an error.
Returned == runs' = [runs EXCEPT ![Len(runs)].object = None, ![Len(runs)].count = @ + 1]

FinalizerReturns ==
  /\ Mutating /\ runs # <<>>
  /\ Returned
  /\ UNCHANGED <<heap, gc, collector, hasWeakTables, debugLibrary, calls, work, panicked>>

\* An automatic run swallows the error; a full one does from its second
\* finalizer on, unless a weak table has the object as a key.
FinalizerFails ==
  /\ Mutating /\ runs # <<>>
  /\ IF Top.kind = "auto" \/ (~Top.associated /\ Top.count > 0)
       THEN Returned /\ UNCHANGED insertIndex
       ELSE insertIndex' = 0 /\ runs' = Front(runs)
  /\ UNCHANGED <<heap, gc, queue, finalized, deferred, born, hasWeakTables,
                 debugLibrary, calls, work, panicked>>

EndFullGC ==
  /\ Scanning("full") /\ Top.index = 0
  /\ runs' = Front(runs)
  /\ insertIndex' = IF Top.start = <<>> THEN insertIndex ELSE -1
  /\ heap' = SweepWeakTables(heap)
  /\ hasWeakTables' = (hasWeakTables /\ heap.weak)
  /\ UNCHANGED <<gc, queue, finalized, deferred, born, debugLibrary, calls, work, panicked>>

EndAuto ==
  /\ Scanning("auto") /\ Top.index = 0
  /\ runs' = Front(runs)
  /\ LET cycle == Top.ran /\ hasWeakTables
     IN  /\ heap' = IF cycle \/ Top.tick THEN SweepWeakTables(heap) ELSE heap
         /\ hasWeakTables' = IF cycle THEN heap.weak ELSE hasWeakTables
  /\ UNCHANGED <<gc, collector, debugLibrary, calls, work, panicked>>

----------------------------------------------------------------------------
Program ==
  \/ \E holder \in Holders \cup {"none"} : NewObject(holder)
  \/ \E o \in Objects, g \in {"function", "other"} : SetMetatable(o, g)
  \/ \E o \in Objects, holder \in Holders \ {"resumed"} : Store(o, holder) \/ Forget(o, holder)
  \/ \E o \in Objects, v \in Objects \cup {Plain} : SetWeakKey(o, v)
  \/ \E o \in Objects : SetWeakValue(o)
  \/ RegisterWeakTable
  \/ DropWeakTables
  \/ \E S \in SUBSET Objects : Resume(S)
  \/ Yield
  \/ Return

Collection ==
  \/ FullGC
  \/ \E sweep \in BOOLEAN : NoteTableAllocation(sweep)
  \/ OutOfRange
  \/ RunTableFinalizers
  \/ RunTableFinalizersForAuto
  \/ FinalizerReturns
  \/ FinalizerFails
  \/ EndFullGC
  \/ EndAuto

Next == Program \/ Collection

Spec == Init /\ [][Next]_vars
----------------------------------------------------------------------------
(* Properties *)

\* The step calls the finalizer of o.
Calls(o) == calls'[o] # calls[o]

\* Held by nothing but the locals of a suspended coroutine.
Hidden == Reachable \ strongReferenceKeys

\* The types of the State's fields; a table is queued once, and never after it
\* was finalized.
TypeOK ==
  /\ heap \in HeapType
  /\ gc \in [Objects -> {"function", "other"}]
  /\ queue \in Seq(Objects) /\ IsInjective(queue)
  /\ finalized \subseteq Objects /\ finalized \cap ToSet(queue) = {}
  /\ deferred \subseteq Objects /\ born \subseteq Objects
  /\ insertIndex \in -1..MaxObjects
  /\ hasWeakTables \in BOOLEAN /\ debugLibrary \in BOOLEAN /\ panicked \in BOOLEAN
  /\ runs \in Seq(RunType) /\ Len(runs) <= MaxDepth
  /\ work \in 0..MaxWork

\* __gc is called at most once for a table, whatever registers it again and
\* however often collections fail or run inside each other.
CalledOnce == \A o \in Objects : calls[o] <= 1

\* A finalizer gets a table that was dead when the collection began, as an
\* automatic one finds it dead at the call.  What the code does beyond: it takes
\* a table that is a key of a weak table for dead; it does not see the locals of
\* a suspended coroutine; and what is queued during the walk may be reached by it
\* when an earlier error or a collection inside this one has moved the queue.
FinalizesTheDead ==
  [][\A o \in Objects : Calls(o) =>
       \/ Top.kind = "auto" /\ o \notin Reachable \ Hidden
       \/ Top.kind = "full" /\ tableHasWeakAssociation(o)
       \/ /\ Top.kind = "full"
          /\ IF o \in ToSet(Top.start)
               THEN o \in Top.held => o \notin Top.strong /\ heap.thread = "suspended"
               ELSE o \notin Reachable \/ Top.inserting \/ Top.nested]_vars

\* One collection calls the finalizers from the end of the queue it found, also
\* when finalizers queue more tables or fail; only a collection inside it,
\* which shortens the queue under its index, can bring it back to a table it
\* has passed.
ReverseOrder ==
  [][\A o \in Objects :
       Calls(o) /\ ~Top.nested /\ o \in ToSet(Top.start) => Place(o) < Top.last]_vars

\* No dead table waits for a third full collection: one that succeeds leaves in
\* the queue only what was strong when it began, what an active local held when
\* the walk looked at it, or a table it has put off to the next one, and it puts
\* no table off twice.  Tables queued during the walk are left, and so may be
\* others when an earlier error makes them go to the front and move the rest
\* past the index.
SecondCollection ==
  [][EndFullGC /\ ~Top.inserting /\ ~Top.nested =>
       \A o \in ToSet(queue) \cap ToSet(Top.start) :
         \/ o \in Top.strong
         \/ o \in deferred \ Top.late
         \/ o \in Top.passed]_vars

\* A finalizer that a full collection calls no longer finds its table in a
\* weak-value table, unless an earlier finalizer of that collection put it
\* there, but still finds its entry as a weak key (gc.go:201).
WeakBeforeFinalizer ==
  [][\A o \in Objects : Calls(o) =>
       /\ heap'.keys = heap.keys
       /\ o \in heap'.values => \/ o \in Top.strong
                                \/ Top.count > 0 \/ Top.ran]_vars

\* The collector takes from the weak tables only what is dead, or held by
\* nothing but the locals of a suspended coroutine, which it does not see.
SweepsTheDead ==
  [][heap' # heap /\ work' = work =>
       \A o \in Reachable :
         \/ heap.thread = "suspended" /\ o \in Hidden
         \/ /\ heap'.keys[o] = heap.keys[o]
            /\ o \in heap.values => o \in heap'.values]_vars

\* The walk leaves its queue only when a finalizer of it collected, which the
\* debug library prevents: it marks finalizers as hooks.
PanicsOnlyNested == panicked => ~debugLibrary /\ Top.nested
=============================================================================
