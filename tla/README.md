# A verification project for go-lua-vm

go-lua-vm is Lua 5.3 in Go without cgo: a compiler, a register VM that calls Go
functions recursively, coroutines made of saved VM states rather than
goroutines, the standard libraries, and an event system of its own ("glua
events").  These modules model the parts whose correctness depends on *order*:
who runs, who is resumed, what is saved while an error-like signal unwinds the
Go stack, what a second goroutine may do between two lock sections, what a
finalizer may do in the middle of a walk over the finalizers, and in which
order a one-pass code generator hands out and takes back registers.

| file | what it is |
| --- | --- |
| `Coroutine.tla` | the threads of `runtime/thread.go` with the parts of `runtime/state.go` they share |
| `CoroutineProofs.tla` | its invariants and action properties, proved for all constants |
| `Continuation.tla` | `lua/api.go`: yield through Lua calls, pcall and xpcall; the map of continuations |
| `ContinuationProofs.tla` | its invariants, and that it implements Coroutine, proved for all constants; that it implements Stackful without the delicate shapes, and what the code promises then, proved for all coroutines, depths and nestings |
| `Recursion.tla` | induction over numbers and functions recursive over numbers: what the proofs about tables, stacks and loops share |
| `Stackful.tla` | the abstract specification of the same: coroutines with a stack each |
| `Events.tla` | `lua/events.go`: listeners, claims, the queue, dispatch and drain |
| `EventsProofs.tla` | no re-entry, the run limits, and what the queue and the claims promise, proved for all constants |
| `Table.tla` | `runtime/table.go`: the areas of a table and the caches kept beside them |
| `TableProofs.tla` | its invariants, its action properties and that it implements LuaTable, proved for all constants |
| `LuaTable.tla` | the abstract specification of the same: what assignments and `next` promise |
| `Loops.tla` | the super-instructions for numeric loops, next to the instructions they replace |
| `LoopBatchesProofs.tla` | what an instruction and a round of a batch do to a machine, for integers of any width: the lemmas of the next module, and the batches that write their registers round by round |
| `LoopsProofs.tla` | the other batches, the driver, and the invariants of Loops, proved for all constants |
| `Collector.tla` | `runtime/gc.go`: finalizer queue, weak tables, collections inside collections |
| `CollectorProofs.tla` | its invariants and action properties, proved for all constants |
| `Values.tla`, `Text.tla`, `Syntax.tla` | the values of a program; strings; the trees of `parser/ast.go` |
| `Numbers.tla` | what `runtime/vm.go` and `value.go` compute with numbers, and the entry an instruction keeps |
| `LuaManual.tla` | the same operators by the manual |
| `Parser.tla`, `Analyzer.tla` | `compiler/parser`: from tokens to trees; labels, gotos, locals and switch values |
| `Printer.tla` | programs as the tokens a programmer writes: what the parser is given |
| `Codegen.tla` | `compiler/codegen`: registers, scopes, upvalues, jumps |
| `Chunk.tla` | `bytecode`: constant tables, what `string.dump` writes and `load` reads |
| `Luac.tla` | `internal/luac`: the short way to compile, the combination of several files |
| `Machine.tla` | `runtime/vm.go` and the executor of `lua/api.go`: one action per family of instructions |
| `Source.tla` | what a program means, by the manual |
| `ProgramFamilies.tla`, `NumberFamilies.tla`, `TextFamilies.tla` | the programs, and texts that are none |
| `Programs.tla` | the programs as they are loaded, beside what they mean |
| `MC*.tla`, `MC*.cfg` | the instances TLC checks; `MCData` puts three machines that share no state into one run: table, collector and loops |

`PROJECT.json` maps every definition to its lines and lists runs, mutants,
hazards, findings and theorems.

## Inventory

| component | state | operations | talks to |
| --- | --- | --- | --- |
| threads, `runtime/thread.go` | status, resumeParent, yieldedValues, continuationPending per thread | NewThread, Resume, Yield, Status, Wrap | State (runningThread, boundary depth), the runner of package lua |
| State, `runtime/state.go` | runningThread, goCallbackDepth, stack, call frames, VM pool, interrupts, closed | Close, boundaries, ProtectedCall, CheckContext | everything |
| continuations, `lua/api.go` | luaContinuations, luaLastContinuationThreads (package-wide), the Go stack | save, take, append, pcall, xpcall, coroutine.* | threads |
| events, `lua/events.go` | listeners, queue, claims, dispatchDepth, under one mutex | register, remove, mute, setConfig, trigger, drain, Close | the VM (safe points), callbacks, host goroutines |
| event Go API, `lua/event_api.go` | none | option patches | events |
| collector, `runtime/gc.go` | weak tables, finalizer queue, what was deferred | collect, automatic collection, run finalizers, sweep | the VM (runs Lua in `__gc`) |
| VM, `runtime/vm.go`, metamethods | registers, open cells, top, countdown | instructions, super-instructions | tables, calls |
| tables, values | compact array, array, hash; length, snapshots, version | get, set, next, length, freeze, sweeps | VM, collector |
| compiler, `compiler/*`, `bytecode/*` | during a call: scopes, registers, pending jumps | lex, parse, generate, dump, undump | VM |
| libraries, `stdlib/*` | file handles, package.loaded, hooks | one function per entry | State, boundaries |
| debug adapter, `runtime/dap` | session, breakpoints, continue channel | stop, continue, step, disconnect | the VM's observer |
| playground, `internal/playground` | command channel, input reader | run, stop, command | the VM's observer |
| command line, `internal/cli` | pending signals | run, interrupt | State |
| bridge, native, serialization, LSP | conversions | - | - |

What is hard:

* *Unwinding.*  A yield is an error value that returns through every Go call of
  the coroutine.  While it travels, `runningThread` is already the resumer, and
  handlers on the way save what they need.  Later the same work is done again
  by a loop over saved continuations.  The two have to agree.
* *Nesting.*  Coroutines resume coroutines; library callbacks (table.sort,
  string.gsub) lie between; Close may be called from inside all of it.
* *Claims.*  A limited listener is charged when an event is triggered and
  settled when its callback has run, or when the task is dropped, merged,
  trimmed, discarded or lost.
* *Two goroutines.*  `docs/glua-event.md` (line 221) lets one goroutine execute
  Lua and has the lock protect the listeners for other goroutines of the host.
* *Failure in the middle* of a chain of continuations or of a batch of tasks.
* *Re-entry* of callbacks and finalizers, which are Lua code.
* *Caches.*  A table keeps its length, a snapshot for `next`, the snapshot before
  the last write and a version for inline caches; a dozen writers end them by
  rules of their own.
* *Batches.*  A numeric loop is executed many rounds at a time; a check of the
  context may stop it between any two.
* *Registers.*  A one-pass generator gives them out and takes them back in the
  order it meets expressions; a local, the hidden state of a loop and an open
  upvalue must keep theirs.

For each component, what makes it correct: *threads*: control returns to the
resumer, the status is what the stack shows, the dead stay dead, the boundary
depth is the number of boundaries.  *Continuations*: the saved chain is the
coroutine's stack.  *Events*: claims equal tasks, runs stay within limits, no
callback inside a callback.  *Collector*: a finalizer runs once, for the dead, in
reverse order, after the weak values and before the weak keys.  *Tables*: a key
holds what was assigned last, `next` meets every key once.  *Loops*: a batch does
what its instructions do.  *Compiler and VM*: a program emits what the manual
says.  *Debug adapter*: every stop is continued by the command sent
for it.  *State*: a protected call leaves frames and depth as it found them.

## Plan

The order is by how much of the language depends on it.

1. `Coroutine`, with proofs (done).
2. `Continuation` on top of it, with `Stackful` as its promise (done, with
   proofs that it implements Coroutine and, without the delicate shapes, Stackful).
3. `Events`, with proofs of all its invariants (done).
4. `Table` with `LuaTable` as its promise, `Loops`, `Collector` (done, with
   proofs of all their invariants, and of the refinement of `LuaTable`).
5. `Parser`, `Analyzer`, `Codegen` and `Machine` against `Source`: programs do what
   they say (done for the language without metamethods and coroutines).
6. `Frames`: the call frames and the Lua stack through errors, pcall, xpcall,
   ProtectedCall and resumed continuations.
7. `DebugServer`: VM and client around a stop; `Interrupts`: signals, the
   two-second window and CheckContext.
8. Coroutine and Events composed: a callback that yields.

Abstract specifications: `Stackful` for 2, `LuaTable` for 4, `Source` for 5.  Runs stay few:
one per question.  Theorems: the invariants of each module first, then the
refinements step by step.

## Coroutine

State.  `kind` is the kind of the body (Lua closure; Go function; Go function
that may yield, called trampoline; not callable).  The other variables have the
names of the fields.  `yieldedValues` is reduced to whether it is empty.
`calls` is the Go stack reduced to `Thread.Resume` calls and open callback
boundaries, `signal` tells that ErrCoroutineYield is on its way.  Everything in
the module happens on the goroutine that runs Lua; an action ends where other
code runs: where a body starts, returns, or has to unwind.

| action | code |
| --- | --- |
| `NewThread` | `State.NewThread`, by create and wrap |
| `ResumePeek`, `ResumeUncallable`, `ResumeEnter` | the exits of `Resume` before and at the body |
| `ResumeReturned`, `ResumeFailed`, `ResumeYielded` | its three ends |
| `Yield` | `coroutine.yield` with all its refusals |
| `MarkContinuationPending` | a save by package lua while the signal unwinds, of *any* Lua thread |
| `EnterGoCallback`, `LeaveGoCallback` | `EnterGoCallbackBoundary` and its deferred exit |
| `Close` | `State.Close`, by the host or from a body |

Properties: `ResumeChain` (the Resume calls are linked by resumeParent and hold
every active thread once), `RunningIsCurrent`, `BoundaryBalanced`,
`StatusReported` (status() against the Go stack, with the one case the code
gets "normal" for a thread that is not on it), `YieldStaysInside` (a yield never
crosses a boundary), `DeadForever`, and `ClosedUnwinds` (after Close the Go
stack empties).

Fairness: `WF(Unwinds)`, since an error return does not wait for anything; and
`WF(closed /\ BodyEnds)`, since `CheckContext` fails in a closed State at the
next call or checked instruction of every body.  Nothing is assumed of bodies
before Close: a Lua loop may run for ever.  Go functions are assumed to return.

Run `Coroutine`: three coroutines (a chain main - A - B - C), two library
callbacks at once beside the boundary a Go coroutine brings: enough for a
callback inside a callback's coroutine, with a further resume in it.  No
symmetry, since a liveness property is checked.

Run `CoroutineYieldable` shows that the depth is the State's and not the
thread's: a coroutine resumed inside a comparator cannot yield.

`CHECK_DEADLOCK FALSE`: a closed State is at rest.

### What is proved

`CoroutineProofs` proves for every set `Threads` and every `MaxBoundaries`,
from the assumption that Main and NoThread are two values outside of `Threads`
(and that the bound is a natural number):

    IInv == TypeOK /\ ResumeChain /\ RunningIsCurrent /\ BoundaryBalanced

is inductive.  None of the conjuncts is by itself.  RunningIsCurrent after a
return needs the link of the top Resume (ResumeChain); ResumeChain after an
enter needs to know that the running thread is the one on top
(RunningIsCurrent) and that a thread which is not running is not on the stack;
`TypeOK` needs BoundaryBalanced, as the depth would otherwise fall below zero;
and Yield keeps its promise because a zero depth means no boundary on the stack.
The proof has a lemma per action and, inside, a step per conjunct.
`StatusReported`, `YieldStaysInside` and `DeadForever` follow from it, the last
with the auxiliary invariant that a thread that was never created is not dead.
`ClosedUnwinds` is a liveness property and stays with TLC.

## Continuation and Stackful

State.  The thread variables again, `acts` for the Go stack (Lua functions,
pcall, xpcall, xpcall in its handler, library callbacks, Resume calls), `signal`
for how the call on top ends, `conts` and `last` for the two maps.  A Resume
call holds in `todo` the continuations its loop has still to run.  `entered` is
a history variable.  The bodies are Lua closures.

A Lua program is nondeterminism: a running function may call (directly or
through pcall or xpcall), call a library that calls back, create, resume, yield,
return or fail.  The remaining actions are what the Go code does with the end of
the call on top: `LuaReceives`, `LuaFails`, `LuaSaves`; `ProtectedEnds`,
`HandlerStarts`, `ProtectedSaves`; `LoopRuns` and `AppendParent` for
`executeLuaThreadClosure`.

`Stackful` is what Lua promises: each coroutine has a stack, yield leaves it
alone, resume goes on where it was, an error pops to the nearest protected call
of the same coroutine.  It has no continuations, no map, no pending flags.  The
refinement mapping (`Chain`) puts together the saved chain and, from the top of
the Go stack down, the coroutine's activations with what the loop of each of its
resumes has still to run (`StackIn`).

The code keeps that promise for part of the programs only.  `Shapes` names the
program shapes that are let in, so that a run either excludes or contains them:

* `nested`: a coroutine that a coroutine resumed yields through pcall;
* `direct`: pcall calls coroutine.yield itself, or calls a function that yields
  in tail position;
* `entryTail`: the entry function yields in tail position;
* `deepError`: after a resume an error occurs in a function that a Lua function
  below pcall called.

| run | shapes | shows |
| --- | --- | --- |
| `Continuation` | none | the chain *is* the stack (`ImplementsStackful`) |
| `ContinuationAll` | all | the threads move only as Coroutine allows (`ImplementsCoroutine`), flag and maps agree (`MapsAgree`), for every program |
| `ProtectedYield` | nested, direct | the pcall is saved for the wrong coroutine, or for none |
| `EntryTail` | entryTail | the entry function starts twice |
| `DeepError` | deepError | an error passes a pcall that follows in the chain |

Each of the three violations is a finding that quotes the comment it
contradicts.

Bounds: two coroutines suffice for a resumer and a resumed one, and for a
stale `last`; depth four for an entry function that calls pcall, whose function
calls a function that yields; one library callback.  `ContinuationAll` has depth
three and `ShortChains`, because a continuation saved for the wrong coroutine
lets its chain grow without end.  The coroutines are interchangeable: symmetry.

### What is proved

`ContinuationProofs` proves, for every set of threads, every set of program
shapes, every depth and every bound of the chains: `TypeOK`, `MapsAgree` (a
thread's pending flag tells whether the map has continuations for it) and the
refinement itself, `RefinesCoroutine`: every step of Continuation, seen through
the mapping, is a step of Coroutine or changes nothing Coroutine has.

The module CoroutineProofs is instantiated with the mapping, so that the
invariant `IInv` of Coroutine is available for the mapped state and need not be
proved again: a step that maps to a step of Coroutine preserves it by the lemma
proved there.  What Continuation adds is

    OwnInv == TypeOK /\ MapsAgree /\ Grounded(acts) /\ Created

* `Grounded`: every activation belongs to the thread of the innermost Resume
  call or library callback at or below it.  Coroutine sees the calls only; when
  the Go stack is cut back to one of them, the thread that Continuation ends,
  saves for or blames must be the one Coroutine says is running.
* `Created`: whatever is on a stack, running, a parent or in the maps is a
  coroutine that exists, as Coroutine would not resume another.

The calls among the activations (`CallsIn`) are counted by rank: the n-th call is
the one with n calls at or below it.  So pushing and popping an activation is a
fact about cardinalities, and no induction over the stack is needed.

The second half of `ContinuationProofs` proves that the chain is the stack, `RefinesStackful`: for any
set of coroutines, any depth, any number of resumes inside resumes and of
callbacks between them, Continuation with `Shapes = {}` implements Stackful.  The
hypothesis is the one the runs `ProtectedYield`, `EntryTail` and `DeepError` need:
each lets one shape in and finds a behaviour that Stackful does not have.  The
same invariant gives the three properties these runs refute, for the programs
without the shapes: `ProtectedCallKept`, `EntryStartsOnce`,
`ErrorReachesProtected`.

The invariant is `PlainInv`, of these parts beyond `Inv`:

* `Stacked`: the Go stack begins with a call of Resume; every other activation is
  of the thread of the one below it, and a call of Resume is of a thread that has
  nothing below.  So what a thread holds of the Go stack lies together, and
  popping the top changes the stack of one thread.
* `Standing`: a thread on the Go stack runs and has nothing in the map, but for
  the one whose yield is under way, which is suspended; an entered thread that is
  not on the Go stack is dead or has its continuations in the map.  So the two
  parts of `Chain` are in use at the same time only while a yield unwinds.
* `Unwinding`: a yield that arrives at its call of Resume has left continuations
  in the map; it passes protected calls in a coroutine resumed by the main thread
  only, and then the thread saved last is its own.  These are what
  `saveProtectedCallContinuation` relies on when it looks up whom to save for.
* while an error unwinds, no loop of a resumed coroutine still has a Lua
  continuation before a protected one (`DeepErrorAhead`), so that the loop finds
  the protected call that catches the error where Stackful pops to.

`Chain` is computed by recursion along the Go stack, so that pushing, popping and
cutting back are lemmas about one function, by `Induction` of the module
`Recursion`.

Library callbacks call `callWithDebugName` through the State's runner and are
frames of their own; a metamethod or an iterator that yields saves the same kind
of continuation as a call and is not told apart.

## Events

State.  The fields of the registry and of each listener under their names;
`acts` for the dispatch or drain in progress, with its snapshot or batch and how
far it is with the callback at hand.  `expiring` holds the listeners between the
two halves of `setEventConfig`; `abandoned` is a history variable.

Granularity.  The code locks the registry many times per callback.  Each lock
section is an action: `Claim` (canDispatch), `Enqueue`, `Merge`, `DropNewest`,
`Reject` (enqueue, and the release that follows), `Take`, `Accept`, `Discard`
(drain), `Start` and `Return` (callCallback), `Finish` and `Expire`
(finishDispatch), `Resolve...` (resolveCallbackError).  `Remove`, `SetMuted`,
`SetConfig` may come between any two, from the callback or from another
goroutine.  Only the goroutine that runs Lua triggers, drains and closes.

A release joined to an enqueue that refused is a second lock section in the
code; no other claim of the listener can be told from it, so joining them hides
nothing but a moment in which the count is one too high.  `callCallback` checks
the depth itself; on one goroutine `progressCallbacks` and `takeQueuedTasks`
have refused before, so the skip has no action.  The comment in
`drainGluaEventQueueCount` lets callbacks queue more tasks; the depth keeps them
from it.

The clock is abstract: a debounced task becomes due at some time and a new
trigger makes it wait again.  Filter, sampling and throttle make `Skip` possible
always.  The order of listeners is any order.

Properties: `ClaimsMatch` (reservedCount is the number of tasks in the queue, in
the batch and at hand), `RunsWithinLimit` (once and maxCalls), `QueuedMayRun`
(the queued tasks of a limited listener may all still run), `NoReentry`,
`OneDebounced`.  `ClaimsReleased`, the comment's promise that claims which are not
run are released, fails: an error that propagates drops the rest of the batch.

Bounds: two listeners, queue and drain budget two, so that a batch has a second
task and the queue is full; three runs and claims in all, so that a limit of two
can be reached, and passed.  The configurations of `Governed` cover the three
overflow policies, the four error policies, debouncing, a limit and none.
No fairness: no property needs it.  `CHECK_DEADLOCK FALSE`: after Close, or with
the budgets used up, nothing is left to do.

### What is proved

`EventsProofs` proves `NoReentry` and `RunsWithinLimit` for every set of
configurations, all limits and bounds, from the three named assumptions of
`Events`, by the inductive invariant `EventsInv`:

* `Alone`: there is one activity at most.  It needs `DepthTracks`, as a trigger
  is refused by the depth and by nothing else, and `ClosedQuiet`, as Close in a
  callback resets the depth: what keeps a second activity away after that is
  that no listener and no task is left.
* `Bounded`: a registered listener has a run left, except between the return of
  its last run and its removal.  A run is charged when it returns, so that the
  run that starts must be the one that was left; that claims count as well is
  not needed for it, and decides `QueuedMayRun` only.
* `Counters`: identifiers are not used twice and the runs of a new one are zero.

The second half of `EventsProofs` proves the rest of what run `Events` checks: `TypeOK`,
`ClaimsMatch`, `QueuedMayRun` and `OneDebounced`, from the same assumptions.  The
invariant is `EventsInv /\ QueueInv`, where `QueueInv` has seven parts:

* `Typed`: the types that `EventsInv` leaves out.
* `Known`: every task and activity names a listener that was registered; an
  identifier that comes into use later has nothing waiting for it.
* `Limited`: the queue, and a batch taken from it, keeps to the State's limit, and
  an activity that has picked a listener has it in front of its list.
* `DepthAfterClose`: Close resets the depth, a callback that was running takes one
  off; the type of the depth needs it.
* `Balanced`: the claims of a registered listener are its tasks in the queue and in
  the batch, the one at hand, and those that an error lost (`abandoned`), at every
  moment of a dispatch and of a drain.
* `RunsLeft`: what has run, what runs now and what is queued is within the limit.
  `QueuedMayRun` leaves out the batch and the callback that runs, and is not
  inductive for that reason.
* `OldestFirst`: a task whose debounce time runs is the oldest of its listener: the
  queue is merged, trimmed and drained by position.

The queue is a sequence and the code filters it (`Kept`).  Its elements are counted
by rank: an element of a finite ordered set is known by how many are at or below it
(`Ranks`), and a filtered queue has a bijection from its positions to those kept
(`KeptFacts`).  Everything about queues follows from that without an induction.

Both invariants are passed by TLC too, in place of those of run `Events`.

## Table and LuaTable

State.  `table` is the struct with the code's field names: the compact integer
array (`dense`), the array, the hash, `lengthCache`, the iteration snapshot, the
stale one, the keys projected by `_glua_const`, the freeze flag, the weak mode;
and the inline cache of one string read, since the table's version is what ends
it.  `walk` is a traversal with `next`.  A value is an integer or an object, as
only that decides about the compact array.

Every Lua-facing write is an action (the raw setters, the append paths, the two
batches that write a table, `table.insert`'s path, freeze and `_glua_const`), and
so are `#t`, `next`, a second reader that makes a snapshot in the middle of a
traversal, and the two sweeps.  Properties: `KeepsPromise` (the refinement of
`LuaTable`: a key holds the last value assigned, in whatever area it lies;
traversal meets every key that stays once), `SearchFindsBorder` (the binary
search finds a border of the table as it is), `LengthDrift` (the cached length
leaves the border only through the append rule), `CachesCurrent` (a valid snapshot
is the table's content, a filled inline cache its value), `ConstKept` (what is
frozen or const stays, but for the batches).

`LuaTable` promises less than the language where the code keeps less:
`disturbed` says that the control key has been cleared and another reader has
built a snapshot since.

Bounds: two array slots, a third integer key and two other keys, four writes: a
table can leave the compact form, move a key from the hash to the array, lose a
middle element, and be read by two traversals in between.

What it shows of the code, and differs from Lua or from a comment:

* clearing the current key, a second reader and one more write make `next`
  answer "invalid key" (`table.go` 848-853);
* the append rule of the length cache (`table.go` 251, 704, 1345) does not look
  at the key behind the new one, so that `#t` need not be a border;
* the write batches (`vm.go` 2741-2808 and 2815-2867, `api.go` 2664) write frozen
  tables and const keys, while the comment at `table.go` 357 says that every
  Lua-facing write checks; a const key can be re-assigned through
  `_glua_const` itself;
* `SweepWeakValueEntries` drops Lua closures that are strongly referenced
  (`table.go` 1042).

Not modelled: `__index` and `__newindex` chains, shapes, the conversion of float
keys.

### What is proved

`TableProofs` proves everything run `Data` checks of the table, for any size of the
array area, any largest key, any finite set of other keys and any number of
changes: `TableTypeOK`, `CachesCurrent`, `SearchFindsBorder`, `LengthDrift`,
`ConstKept`, and that `Table` implements `LuaTable` (`KeepsPromise`).  The
assumptions are the three named ones of `Table`: the array area is no larger than
the keys, the other keys are a finite set of no positive integers, the values and
markers differ.  Run `Data` evaluates them.

The invariant is `TableInv`, of four parts:

* `Shaped`: the types, and that the compact array holds integers only and has an
  empty hash beside it.  Without the second part the length of a compact array
  would not be a border.
* `Current`: `CachesCurrent`.
* `Followed`: what a traversal has met is what lies before its control key, in the
  one order all snapshots are sorted by; and that key is found again, either in the
  current snapshot or in the stale one, which then still has every key that is left;
  unless another reader built a snapshot without it.  This is the argument for
  keeping *one* stale snapshot: a write keeps the older one only while no new one
  was built, so that it is never missing a key the table has, as long as nothing was
  added.
* the bounds of `walk` and `writes`.

Each writer has a lemma on its operator (what it assigns, what it does to the
length cache, that it ends the snapshot and the version) and one on its step.  All
writers then go through `BecomeStep`, and `LengthDrift` through `RawSetDrift` or, for
a loop, `FilledDrift`: the rule of the cache is spelled out three times in the code
and comes to one fact, `LoopCache`.

`Narrow`, `UnboundSearch` and `PlainWriteLoop` are recursive functions.  That they
have a value, and which, is proved by the least element of a set of numbers
(`Least`, `Induction`): the distance of the bounds shrinks, doubling ends above the
largest key, a loop writes key after key.

## Loops

Nine of the eleven super-instructions of `runtime/vm.go`, each as the function
that recognises it and the function that executes a batch, beside the plain
instructions.  `fast` is the machine of the driver, `plain` executes one at a
time as many instructions as the driver claims to have done; `countdown` runs to
the next check of the context, which may fail at any check.

Properties: `BatchIsInstructions` (the machines agree), `CancelledBetweenInstructions`
(a cancellation leaves the registers of an instruction boundary),
`WindowKept` (no check comes later than the interval), `RangeKept` (the
precomputed limits and sums are those of the loop, in wrapped integers).

Bounds: integers of four bits; ranges up and down, in steps of one, two and
three, that end at their limit, between two values, before their first, and at
either end of the integers; an interval of 16 with countdowns that stop at once,
in the middle or at the end; and checks that fail first, second, third or much
later.  Overflow of the index, of the progression's sum and of the step all occur.

What differs: `AddForLoop` with step one (`vm.go` 3351-3420) and the whole batch of
`StringAppend` (10279-10300) stop where the plain `FORLOOP` wraps past the last
integer (`StopsAtEnd` is the condition under which the comparison is made);
string appends in a batch do not call `NoteTableAllocation`; the mix batch with
aliased registers (`MixAliased`; `for i = 1, 3 do x = i * 3; x = x + x; x = x - 1;
x = x // 2; y = i % 5; x = x + y end`) computes from stale operands, because
`buildMixArithmeticForLoopSuperInstructions` only clears BatchValid
(`vm.go` 3939) although the comment at 4036 says that aliased forms keep the order
of the instructions.  `preciseFrameSync` switches the batches off for hooks,
events and coroutines, which is why they do not meet.

Not modelled: `FormatLenAdd` and `StdlibMathString`, floats and metamethods (the
code leaves the batch for them).

Run `Data` checks the loops beside the table and the collector: the three share
no state, and a behaviour is of one of them.  Deadlock is checked.  (A table
whose writes are used up can still be read; a finished loop has a stuttering
step of its own, and so has a collector whose operations are used up.)

### What is proved

`LoopsProofs` proves the four properties, `BatchHolds`, `CancellationHolds`,
`WindowHolds` and `RangeHolds`, from `LoopsAssumption`, which run `Data`
evaluates: the width and the interval are any positive numbers, a body is any
sequence of the recognised instructions with any operands the compiler gives
them, the table, the upvalue and the registers hold any values, a range has any
start, step and limit.  So they hold for integers of 64 bits and the interval of
128, where the run has four bits and 16.

The properties are not inductive: that a batch is right needs to know where the
machine is.  The invariant `LoopInv` says

* `OnItsWay`, of the machine of the instructions: it is well typed; the controls
  are integers, limit and step those of the range; at the first instruction of the
  body the visible variable is the index, and the limit lets it through; and the
  index is one the range says (`Within`, the invariant behind `RangeKept`).  Without
  the third part a batch, which reads the index once, would not be the
  instructions, which read the variable.
* the two machines agree, but for the two differences named above.  An aliased
  mix body makes them differ in integers only (`Alike`), which is what keeps
  every later step of the two together.
* `LoopWindow`: the countdown and what was done since the last check are together
  at most an interval and one.

`LoopBatchesProofs` has the lemmas: of wrapped integers (it does not matter when a
sum is wrapped); of
`Instructions` and `Iterate`, functions recursive over numbers, which are taken
apart one step at a time with the induction of `Recursion`; of each instruction
(what it writes, that `OnItsWay` is kept); and of FORLOOP, which takes a machine
from one value of the range to the next one or past its last.  A super-instruction
is then right by one induction over its rounds: after n of them the batch holds
the machine that n times as many instructions make (`InStep`).  Batches that
compute in Go locals (the two mixes, `sum = f(sum, i)`, string appends) leave the
registers alone until they commit; for them (`Local`) there is a machine of the
instructions that the locals describe, and the commit writes it.
The sum of a progression (`addForLoopStepOneTermSum`) is shown to be that of the
rounds; the whole batch of string appends goes boundary by boundary (`Whole`): a
check that fails in phase k of round n commits what 4n + k instructions have
done (`Committed`).  Last, each family's step of the driver is so many
instructions, deducted once from the countdown (`WindowBatch`, `CallBatch`).

The theorems say nothing of bodies outside `LoopsAssumption`, nor, after
`StopsAtEnd`, of a machine that has left the loop: nothing steps then.

## Collector

The Go runtime frees memory; the State decides when a table with `__gc` is
dead, calls the metamethod and clears the entries of weak tables.  A collection
is a frame of `runs` with the index of its walk, one action per index, because
the finalizer it calls is Lua code that may register a table, store the dying
one, allocate, fail or collect again.  `calls` counts what was called, `work`
bounds the program's operations.

Properties: `CalledOnce`, `FinalizesTheDead` (a call is for an object nothing
holds, up to the exceptions named there), `ReverseOrder`, `SecondCollection`
(what a suspended coroutine holds is deferred once), `WeakBeforeFinalizer`,
`SweepsTheDead`, `PanicsOnlyNested`.

Bounds: four objects and four operations (a failed finalizer, a registration in
the next collection, and a third object under the walk), two collections inside
each other.  Objects are made in a fixed order, which is a symmetry reduction.

What it shows of the code: a full collection finalizes a strongly reachable
table that is a weak key of a reachable table (`gc.go` 1162, against the comment
at 1134); the locals of a suspended coroutine are no root (finalized by an
automatic collection at once, by a full one after a deferral); without the debug
library a `collectgarbage` inside `__gc` shortens the queue under the walk, which
indexes out of range (`gc.go` 1154; with it `hookActive` refuses the inner one,
`debug.go` 161-177); after a failed finalizer `insertIndex` stays 0 and later
registrations shift the queue (907-917); an automatic run leaves stale entries of
deferred and born objects; temporaries that are no named locals are no roots
(`vm.go` 6423); an error return skips `SweepWeakTables`.

### What is proved

`CollectorProofs` proves every property of the collector for any number of tables,
of operations and of collections inside each other, from `CollectorAssumption`
(the bounds are natural numbers, and None and Plain are two values that are no
tables), which run `Data` evaluates.  The invariant `CollectorInv` has, beside
`TypeOK`:

* `Counted`: a call of a finalizer is charged to a table that was taken from the
  queue, and a collection has called no more than were taken.  That gives
  `CalledOnce`, and bounds the counters of a frame.
* `Nested`: every collection but the innermost waits for a finalizer and knows
  that another ran inside it; so only a nested collection may run past the end of
  the queue (`PanicsOnlyNested`).
* `Began`: what a collection noted when it began, about tables registered then.
* `Ordered`: while no other collection ran inside it, the queue keeps the order it
  had and the walk has passed what it finalized.  `ReverseOrder` is a consequence
  for the next call only, and says nothing about the call after it.
* `Undisturbed` and `Justified`: unless an error moved the point of insertion, the
  walk finds the tables where they were, and each one it left in the queue was
  reachable, deferred, or passed to the next collection.  `SecondCollection` and
  `FinalizesTheDead` need it at the moment of the call, when the collection began
  many steps of Lua ago.
* `WeakKnown` and `Swept`: what the first pass over the weak tables removed does
  not come back before the first finalizer runs.

The values of an ephemeron table are reachable through the *least* set closed
under its entries (`WithEphemerons`); that it is one among the closed sets, and
below every one, is all the proofs use.  `passed` is a history variable of a
collection: the dead tables it left in the queue for the sake of an active local.

Not modelled: the mode `kv`, fields between tables, graphs through closures and
userdata, external root frames, the counters and the pause of
`collectgarbage`.

## Parser, Analyzer, Codegen, Machine, Source

A program goes the way it goes in the code: `Printer` writes its tokens,
`Parser!ParseChunk` and `Analyzer` read them or refuse them, `CompileChunk` makes
instructions and `Machine` executes them.  `Programs` puts the steps together.

`Parser` has an operator for each function of `compiler/parser`: it takes a
parser and gives the parser after it with the node it made.  The first error ends
the parse.  `Analyzer` walks over the tree with the scopes, labels and gotos of
`semantic.go`.  What they decide is decided a second time by `Source`: the
precedence of operators (`Grouped` in `TextFamilies` builds the tree by the
manual, without brackets in the text), which jumps are legal, which texts are
programs, which cases of a switch are the same value (2 and 2.0 are).  A text that
is refused must emit nothing; one that is accepted but should not be emits
something first.


`Codegen` has an operator for each Go function of `compiler/codegen`, under its
name: it takes what the function takes and the stack of generators, and returns
the generators after it.  Scopes, active locals, the captured table, the
register counter, pending breaks, continues and gotos are fields of a generator.
The special forms are all there (which of them applies decides in which order
registers are written): a dozen of assignments, safe operands, conditions that
jump (in an `if` only `<`, `<=`, `>` and `>=`; `==` and `~=` become a boolean and
a TEST), single-value returns, tail calls.

`Chunk` takes the constants of the finished code into a table, writes the fields
of a binary chunk one after the other and reads them back; `Luac` compiles a
text that has the shape of its benchmark without parser and generator, every
other one with the parser's compact functions, and joins several files.  Programs
go through them too: dumped whole, stripped or without the RETURN at the end of a
function (which a chunk need not have), and loaded again; compiled by luac;
combined; and a chunk that is cut off behind every one of its fields, has another
header, or counts more than there is, which must be refused.  A chunk does not
say in which registers its locals live: `assignLoadedLocalRegisters` guesses, and
`ClearFixedCallArgumentTemporaries` believes it.  A wrong guess would clear a
local in use, which `RunsAsWritten` would see; `RegistersApart` and `OpenCellsActive`
are not asked of such functions.

`Machine` executes the result: one action per family of instructions,
and `CallLua`, `TailCallSelf`, `CallGo`, `Return`, `FallOffTheEnd`, `Fail` for the
executor.  A frame has its register window, the varargs, the top that the last
open call left and its open cells; a closure shares cells with others.

`Source` is the reference: the meaning of a program by the manual, as an
evaluator over environments and stores.  It knows nothing of registers.  It is
not in the map: it models the manual.

`Numbers` is the arithmetic of the machine: integers that wrap around, floats,
strings that are numbers, shifts, comparisons of an integer with a float,
numeric for loops, and keys.  An arithmetic instruction keeps an *entry* of the
operands it had last and of what worked for them, and tries it first; an entry
whose operands have changed their type must be noticed.  `LuaManual` has the same
operators by the manual, written independently, as `Source` uses them.  An
integer has 16 bits, so that products stay inside TLC's numbers; a float is a
fraction in lowest terms, with infinity and no-number.

The families list 3797 programs: 3091 of `ProgramFamilies` and `TextFamilies`, in families that put one construct
together with what may go wrong around it: loops of all kinds that are left by
break, continue, goto and return with closures over their variables;
expressions and assignments whose right side calls something that changes the
left; calls and returns with open ends; declarations with more and fewer values;
conditions of every shape under every statement that tests one; errors;
operators without brackets, short forms, jumps over locals and into blocks, and
texts with a word missing or too many; and the dumped, compiled, combined and
damaged chunks.  The 706 of `NumberFamilies` run every operator over integers, floats,
numerals and values that are none, the instruction of a loop body over operands whose
type changes from round to round (the entry goes stale), comparisons around the
ends of the integers, loops up to them, and the reading and writing of numerals.

Properties: `RunsAsWritten` (the output is, at every moment, a prefix of what
`Source` says, and all of it in the end), `RegistersApart` (locals in scope share no
register with each other or with a loop's hidden state), `OpenCellsActive` (a cell is
open only while its local is in scope), `Ends` (every program comes to its end:
a program is terminating by `Source`, so a loop that goes on is a wrong jump).

Fairness: `Next` is taken again and again as long as the program runs.  It is
written `<>[](~Running) \/ []<><<Next>>_vars`, which is weak fairness of Next
for a step that is enabled exactly while the program runs; that it is enabled is
checked, since the run reports a deadlock.

The programs are handed to `Machine` as compiled chunks (`Chunks`), so that the
code generator is evaluated once per program and not in each state.

The families avoid what the code is known to get wrong, which is:

1. the limit or the start of a numeric for is a call minus something, and the
   body has locals: the run `OverwrittenLoop` shows it;
2. closures over the variables of a generic for share one cell;
3. an open cell keeps pointing to the old registers after the window has grown
   (`vm.go` 6627, `writeLuaCallResults` in `api.go` 5355);
4. `local a, b = f(1) + 1` leaves nextRegister below b;
5. repeat-until whose condition is a comparison and whose body has a captured
   local: the closing JMP lies between test and jump (2817-2830), for ever;
6. a captured local shadowed in its own scope loses the captured mark;
7. `function f() end` with an upvalue f assigns the global (2408);
8. a numeric for whose only closure is inside `do ... end` shares its variable
   (3566-3614 has no case for it);
9. a register that is not the last is not given back after calls;
10. generic for with arithmetic over calls among the iterator's values;
11. goto forward past a later local, to a label at the end of the block, does
    not close it;
12. a self tail call of a vararg function with more arguments than the first
    call had does not grow the window;
13. a Go function that returns an error is called a second time with a debug
    frame (`api.go` 4109-4113).

With numbers they avoid: floats are written with Go's shortest form (`1e+06`,
`+Inf`, `NaN`, 17 digits); a float key from 2^63 on becomes a negative integer
(`makeTableKey` goes by `ToInteger`); closures of one function with the same cells are
equal; `_` is accepted in hexadecimal floats; a for loop up to the last integer
wraps around; strings are converted as bounds of a for loop; the cases 2^63, a
float, and 0x8000000000000000 are duplicates (`switchCaseStaticValueKey` converts
the float, on amd64 to the least integer).

Where the analyzer differs from Lua 5.3, the programs keep away from it: a forward
goto over a local is accepted when a backward goto closes the scope
(`hasScopeClosingBackwardGoto`), a label before a `return` counts as the end of
its block (`labelAtBlockTail`), function expressions are not analyzed (the code
generator finds their gotos), and the limit of 200 locals is one of a scope.

In luac the short way takes keywords for names (`luac.go` 518-560), and
`tryParseCompactSimpleFunctionBody` is never reached, as the one caller has tried
the compact form already.

Not modelled: the lexer, positions, the wording of errors; the limits of nesting
and of lists are there but no program reaches them; const bindings, `_ENV` as a variable, the limits of operand
fields, lines, the rounding of floats, the sign of zero, exponents of `^` that
are not whole, metamethods, hooks, events and coroutines,
the pool of VMs, the fast paths for leaf functions and for Fibonacci (they are
ordinary calls here), the equality of closures that share everything.

Run `VM` checks these programs: 197,304 states.  (Run `Data` has 1,273,718: 1,178,073
of the table and the collector, 95,645 of the loops.)  Neither has symmetry.

## Only model-checked

`ClosedUnwinds` and `Ends`: liveness under fairness is out of the prover's reach,
as is ENABLED.
Everything about programs: Parser, Codegen, Machine and Source are recursive over
trees, and what a recursive definition computes for every tree cannot be proved
with the provers at hand.  (Recursion over numbers can: see Table.)

## Not modelled

Lexer and formatter and the LSP: sequential code without state
between calls.  Of luac the listings and the arguments; of chunks the bytes.  The standard libraries: sequential functions, which enter as
calls.  Native modules: cgo, behind a build tag.  Frames, debug adapter,
playground and signals: planned above; their hazards are listed in
`PROJECT.json` with a note.  In Coroutine: user data finalizers and hooks that
run inside Close, which is one step; traceback and register snapshots of
suspended threads.
