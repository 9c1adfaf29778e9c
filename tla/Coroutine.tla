----------------------------- MODULE Coroutine -----------------------------
(***************************************************************************)
(* The coroutine state machine of one State: runtime/thread.go (NewThread, *)
(* Resume, Yield, Status) together with the Go-callback boundary and the   *)
(* Close switch of runtime/state.go.                                       *)
(*                                                                         *)
(* A State runs on one goroutine.  A Resume call is a Go call that stays   *)
(* on the Go stack while the body of the coroutine runs, so the calls in   *)
(* progress form a stack, the variable "calls".  What a body does (resume, *)
(* yield, enter a Go callback, return, fail) is a choice of the            *)
(* environment; module Continuation replaces that choice by the executor   *)
(* of package lua and refines this module.                                 *)
(***************************************************************************)
EXTENDS Integers, Sequences, FiniteSets

CONSTANTS Threads,        \* coroutines other than the main thread
          Main,           \* State.mainThread
          NoThread,       \* a nil *Thread
          MaxBoundaries   \* bound: Go callback boundaries open at once

ASSUME ThreadAssumption == Main \notin Threads /\ NoThread \notin Threads /\ Main # NoThread
ASSUME BoundAssumption  == MaxBoundaries \in Nat

(***************************************************************************)
(* What the entry function of a coroutine is: a Lua closure, a Go closure, *)
(* a Go closure with AllowYield (the dofile trampoline), or a value Resume *)
(* cannot call.  "none" is a coroutine that was not created yet.           *)
(***************************************************************************)
Kinds    == {"lua", "go", "trampoline", "uncallable"}
Statuses == {"suspended", "running", "normal", "dead"}

VARIABLES
  kind,                \* thread.function
  status,              \* thread.status, the stored one
  runningThread,       \* state.runningThread
  resumeParent,        \* thread.resumeParent
  yielded,             \* len(thread.yieldedValues) > 0
  continuationPending, \* thread.continuationPending
  goCallbackDepth,     \* state.goCallbackDepth
  calls,               \* the Go stack: Resume calls and open Go callbacks
  signal,              \* "yield" while ErrCoroutineYield travels to Resume
  closed               \* state.closed

threadVars == <<kind, status, resumeParent, yielded, continuationPending>>
vars == <<kind, status, runningThread, resumeParent, yielded,
          continuationPending, goCallbackDepth, calls, signal, closed>>

Call(t, f) == [thread |-> t, frame |-> f]
Calls      == [thread : Threads \cup {Main}, frame : {"resume", "callback"}]

\* The thread whose body is at height i of the Go stack; the host at 0.
ThreadAt(i) == IF i = 0 THEN Main ELSE calls[i].thread
Current     == ThreadAt(Len(calls))
Pop         == SubSeq(calls, 1, Len(calls) - 1)

TypeOK ==
  /\ kind \in [Threads -> Kinds \cup {"none"}]
  /\ status \in [Threads -> Statuses]
  /\ runningThread \in Threads \cup {Main, NoThread}
  /\ resumeParent \in [Threads -> Threads \cup {Main, NoThread}]
  /\ yielded \in [Threads -> BOOLEAN]
  /\ continuationPending \in [Threads -> BOOLEAN]
  /\ goCallbackDepth \in Nat
  /\ calls \in Seq(Calls)
  /\ signal \in {"none", "yield"}
  /\ closed \in BOOLEAN

Init ==
  /\ kind = [t \in Threads |-> "none"]
  /\ status = [t \in Threads |-> "suspended"]
  /\ runningThread = Main
  /\ resumeParent = [t \in Threads |-> NoThread]
  /\ yielded = [t \in Threads |-> FALSE]
  /\ continuationPending = [t \in Threads |-> FALSE]
  /\ goCallbackDepth = 0
  /\ calls = <<>>
  /\ signal = "none"
  /\ closed = FALSE

-----------------------------------------------------------------------------
(* Thread operations *)

NewThread(t, k) ==
  /\ signal = "none"
  /\ ~closed
  /\ kind[t] = "none"
  /\ kind' = [kind EXCEPT ![t] = k]
  /\ status' = [status EXCEPT ![t] = "suspended"]
  /\ UNCHANGED <<runningThread, resumeParent, yielded, continuationPending,
                 goCallbackDepth, calls, signal, closed>>

\* Mutant: the stored status is reported as it is.
StatusStored(t) == status[t]

\* Status(): the stored status, corrected by who is running now.
Status(t) ==
  IF runningThread = t THEN "running"
  ELSE IF status[t] = "running" THEN "normal" ELSE status[t]

\* Mutants: a refusal of Resume is forgotten.
ResumableDead(t)    == kind[t] # "none" /\ ~closed /\ status[t] # "running"
ResumableRunning(t) == kind[t] # "none" /\ ~closed /\ status[t] # "dead"

\* The refusals of Resume leave every variable alone.
Resumable(t) ==
  /\ kind[t] # "none"
  /\ ~closed
  /\ status[t] \notin {"dead", "running"}

PreviousRunning == IF runningThread = NoThread THEN Main ELSE runningThread

\* Mutant: a finished coroutine always hands control to the main thread.
ParentIsMain(t) == IF closed THEN NoThread ELSE Main

\* After Close the main thread is nil and every parent counts as lost.
ResumeParentOrMain(t) ==
  IF closed THEN NoThread
  ELSE IF resumeParent[t] = NoThread THEN Main ELSE resumeParent[t]

\* Resume, first exit: values of an earlier yield nobody saved a continuation
\* for are handed over without running the body.
ResumePeek(t) ==
  /\ signal = "none"
  /\ Resumable(t)
  /\ yielded[t] /\ ~continuationPending[t]
  /\ yielded' = [yielded EXCEPT ![t] = FALSE]
  /\ status' = [status EXCEPT ![t] = "normal"]
  /\ runningThread' = PreviousRunning
  /\ resumeParent' = [resumeParent EXCEPT ![t] = NoThread]
  /\ UNCHANGED <<kind, continuationPending, goCallbackDepth, calls, signal, closed>>

\* Resume, second exit: a nil function or a value it cannot run.
ResumeUncallable(t) ==
  /\ signal = "none"
  /\ Resumable(t)
  /\ ~(yielded[t] /\ ~continuationPending[t])
  /\ kind[t] = "uncallable"
  /\ status' = [status EXCEPT ![t] = "dead"]
  /\ runningThread' = PreviousRunning
  /\ resumeParent' = [resumeParent EXCEPT ![t] = NoThread]
  /\ UNCHANGED <<kind, yielded, continuationPending, goCallbackDepth, calls, signal, closed>>

\* Resume up to the point where the body runs.  The runner of package lua
\* takes the continuation at once, which clears the pending mark.
ResumeEnter(t) ==
  /\ signal = "none"
  /\ Resumable(t)
  /\ ~(yielded[t] /\ ~continuationPending[t])
  /\ kind[t] # "uncallable"
  /\ status' = [status EXCEPT ![t] = "running"]
  /\ runningThread' = t
  /\ resumeParent' = [resumeParent EXCEPT ![t] = PreviousRunning]
  /\ yielded' = [yielded EXCEPT ![t] = @ /\ kind[t] = "go"]
  /\ continuationPending' = [continuationPending EXCEPT ![t] = @ /\ kind[t] = "go"]
  /\ goCallbackDepth' = goCallbackDepth + (IF kind[t] = "go" THEN 1 ELSE 0)
  /\ calls' = Append(calls, Call(t, "resume"))
  /\ UNCHANGED <<kind, signal, closed>>

ExitGoCallback == goCallbackDepth' = IF goCallbackDepth <= 0 THEN 0 ELSE goCallbackDepth - 1

\* Mutants: a finished coroutine keeps its Go callback boundary, or every
\* coroutine, Lua or Go, gives one back.
FinishInsideBoundary(t) ==
  /\ status' = [status EXCEPT ![t] = "dead"]
  /\ runningThread' = ResumeParentOrMain(t)
  /\ resumeParent' = [resumeParent EXCEPT ![t] = NoThread]
  /\ UNCHANGED goCallbackDepth
  /\ calls' = Pop
FinishLeavesBoundary(t) ==
  /\ status' = [status EXCEPT ![t] = "dead"]
  /\ runningThread' = ResumeParentOrMain(t)
  /\ resumeParent' = [resumeParent EXCEPT ![t] = NoThread]
  /\ goCallbackDepth' = goCallbackDepth - 1
  /\ calls' = Pop

\* What every finished Resume does once its body came back.
ResumeFinish(t) ==
  /\ status' = [status EXCEPT ![t] = "dead"]
  /\ runningThread' = ResumeParentOrMain(t)
  /\ resumeParent' = [resumeParent EXCEPT ![t] = NoThread]
  /\ IF kind[t] = "go" THEN ExitGoCallback ELSE UNCHANGED goCallbackDepth
  /\ calls' = Pop

AtResume(t) == Len(calls) > 0 /\ calls[Len(calls)] = Call(t, "resume")

ResumeReturned(t) ==
  /\ signal = "none"
  /\ AtResume(t)
  /\ ResumeFinish(t)
  /\ continuationPending' =
       [continuationPending EXCEPT ![t] = IF kind[t] = "lua" THEN FALSE ELSE @]
  /\ UNCHANGED <<kind, yielded, signal, closed>>

ResumeFailed(t) ==
  /\ signal = "none"
  /\ AtResume(t)
  /\ ResumeFinish(t)
  /\ UNCHANGED <<kind, yielded, continuationPending, signal, closed>>

\* ErrCoroutineYield reached the Resume call it belongs to.
ResumeYielded(t) ==
  /\ signal = "yield"
  /\ AtResume(t)
  /\ calls' = Pop
  /\ signal' = "none"
  /\ UNCHANGED <<threadVars, runningThread, goCallbackDepth, closed>>

\* Mutant: coroutine.yield does not look at the Go callbacks it is inside of.
YieldAnywhere(t) == ~closed /\ runningThread = t /\ status[t] = "running"

\* The checks of coroutine.yield on the running thread; Main can never pass.
YieldAllowed(t) ==
  /\ ~closed
  /\ runningThread = t
  /\ goCallbackDepth = 0
  /\ status[t] = "running"

\* coroutine.yield: the thread gives control to the body that resumed it.
Yield(t) ==
  /\ signal = "none"
  /\ YieldAllowed(t)
  /\ \E values \in BOOLEAN : yielded' = [yielded EXCEPT ![t] = values]
  /\ status' = [status EXCEPT ![t] = "suspended"]
  /\ runningThread' = ResumeParentOrMain(t)
  /\ signal' = "yield"
  /\ UNCHANGED <<kind, resumeParent, continuationPending, goCallbackDepth, calls, closed>>

\* Package lua marks threads while ErrCoroutineYield unwinds its executors.
MarkContinuationPending(t) ==
  /\ signal = "yield"
  /\ kind[t] \in {"lua", "trampoline"}
  /\ continuationPending' = [continuationPending EXCEPT ![t] = TRUE]
  /\ UNCHANGED <<kind, status, resumeParent, yielded, runningThread,
                 goCallbackDepth, calls, signal, closed>>

-----------------------------------------------------------------------------
(* State operations *)

\* Mutant: a closed State lets callbacks in.
EnterWhenClosed ==
  /\ signal = "none"
  /\ Cardinality({i \in 1..Len(calls) : calls[i].frame = "callback"}) < MaxBoundaries
  /\ goCallbackDepth' = goCallbackDepth + 1
  /\ calls' = Append(calls, Call(Current, "callback"))
  /\ UNCHANGED <<threadVars, runningThread, signal, closed>>

\* EnterGoCallbackBoundary by table.sort, string.gsub, ... in the body.
EnterGoCallback ==
  /\ signal = "none"
  /\ ~closed
  /\ Cardinality({i \in 1..Len(calls) : calls[i].frame = "callback"}) < MaxBoundaries
  /\ goCallbackDepth' = goCallbackDepth + 1
  /\ calls' = Append(calls, Call(Current, "callback"))
  /\ UNCHANGED <<threadVars, runningThread, signal, closed>>

\* The deferred exit, run whether the callback returned or failed.
LeaveGoCallback ==
  /\ signal = "none"
  /\ Len(calls) > 0 /\ calls[Len(calls)].frame = "callback"
  /\ ExitGoCallback
  /\ calls' = Pop
  /\ UNCHANGED <<threadVars, runningThread, signal, closed>>

\* Close called by the host or by a Go function of the running body.
Close ==
  /\ signal = "none"
  /\ ~closed
  /\ closed' = TRUE
  /\ runningThread' = NoThread
  /\ UNCHANGED <<threadVars, goCallbackDepth, calls, signal>>

IsYieldable == ~closed /\ runningThread \in Threads /\ goCallbackDepth = 0

-----------------------------------------------------------------------------

BodyEnds == LeaveGoCallback \/ \E t \in Threads : ResumeReturned(t) \/ ResumeFailed(t)
Unwinds  == \E t \in Threads : ResumeYielded(t)

Next ==
  \/ \E t \in Threads, k \in Kinds : NewThread(t, k)
  \/ \E t \in Threads : ResumePeek(t)
  \/ \E t \in Threads : ResumeUncallable(t)
  \/ \E t \in Threads : ResumeEnter(t)
  \/ \E t \in Threads : ResumeReturned(t)
  \/ \E t \in Threads : ResumeFailed(t)
  \/ \E t \in Threads : ResumeYielded(t)
  \/ \E t \in Threads : Yield(t)
  \/ \E t \in Threads : MarkContinuationPending(t)
  \/ EnterGoCallback
  \/ LeaveGoCallback
  \/ Close

Spec == Init /\ [][Next]_vars

\* A closed State fails the next CheckContext of every body, so bodies end;
\* before Close a Lua loop may run for ever.  Unwinding runs no Lua code.
Fairness == WF_vars(closed /\ BodyEnds) /\ WF_vars(Unwinds)
FairSpec == Spec /\ Fairness

-----------------------------------------------------------------------------
(* Properties *)

ResumeIndices == {i \in 1..Len(calls) : calls[i].frame = "resume"}

\* The Resume call a yield is unwinding to no longer runs its thread.
Active(i) == signal = "none" \/ i < Len(calls)

ActiveThreads == {calls[i].thread : i \in {j \in ResumeIndices : Active(j)}}

\* Parts of ResumeChain: entries link to the body below them, ...
ChainLinked ==
  \A i \in 1..Len(calls) :
    /\ calls[i].frame = "callback" => calls[i].thread = ThreadAt(i - 1)
    /\ calls[i].frame = "resume" => /\ calls[i].thread \in Threads
                                    /\ kind[calls[i].thread] \in {"lua", "go", "trampoline"}
    /\ calls[i].frame = "resume" /\ Active(i) =>
         /\ status[calls[i].thread] = "running"
         /\ resumeParent[calls[i].thread] = ThreadAt(i - 1)

\* ... no coroutine is resumed inside itself, ...
ChainDistinct ==
  \A i, j \in ResumeIndices : calls[i].thread = calls[j].thread => i = j

\* ... only the chain runs, ...
ChainCovers == \A t \in Threads : status[t] = "running" => t \in ActiveThreads

\* ... and a yield on its way has its Resume call on top.
YieldArrives ==
  signal = "yield" => /\ calls # <<>> /\ calls[Len(calls)].frame = "resume"
                      /\ goCallbackDepth = 0
                      /\ ~closed

\* The calls in progress are a chain from the host to the running body: each
\* active thread is stored as running and remembers the body that resumed it,
\* no thread is resumed twice, and a thread off the chain is not running.
ResumeChain == ChainLinked /\ ChainDistinct /\ ChainCovers /\ YieldArrives

\* runningThread is the thread whose body executes, at every depth of nesting
\* and also after an inner coroutine yielded, returned or failed; after Close
\* there is none.
RunningIsCurrent ==
  runningThread = IF closed THEN NoThread
                  ELSE IF signal = "none" THEN Current ELSE ThreadAt(Len(calls) - 1)

\* The frames coroutine.yield must not cross.
Blocking ==
  {i \in 1..Len(calls) : calls[i].frame = "callback" \/ kind[calls[i].thread] = "go"}

\* The depth counter equals the number of Go callbacks open on the Go stack:
\* every exit path of Resume and of a boundary gives back what it took.
BoundaryBalanced == goCallbackDepth = Cardinality(Blocking)

\* What coroutine.status reports: "running" for the body that executes only,
\* "normal" for every body waiting for one it resumed.
StatusReported ==
  (signal = "none" /\ ~closed) =>
    \A t \in Threads :
      /\ Status(t) = "running" <=> t = Current
      /\ t \in ActiveThreads \ {Current} => Status(t) = "normal"

\* A yield leaves the innermost Resume call only: no Go callback, not even
\* one of an outer body, is unwound by it.
YieldStaysInside ==
  [][\A t \in Threads :
       status[t] = "running" /\ status'[t] = "suspended"
         => /\ calls # <<>> /\ calls[Len(calls)] = Call(t, "resume")
            /\ \A i \in 1..Len(calls) : calls[i].frame = "resume" /\ kind[calls[i].thread] # "go"]_vars

\* A coroutine that returned or failed stays dead, and after Close no
\* coroutine enters or leaves the running state by being resumed.
DeadForever ==
  [][\A t \in Threads :
       /\ status[t] = "dead" => status'[t] = "dead"
       /\ closed /\ status'[t] = "running" => status[t] = "running"]_vars

\* After Close every call in progress comes back to the host.
ClosedUnwinds == closed ~> (calls = <<>>)

\* runtime/state.go promises for IsYieldable what Lua 5.3 shows: a coroutine
\* whose own body is not inside a Go callback can yield.
OwnBodyYieldable ==
  (signal = "none" /\ ~closed /\ AtResume(runningThread) /\ kind[runningThread] = "lua")
    => IsYieldable

=============================================================================
