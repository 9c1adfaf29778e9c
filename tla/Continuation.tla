---------------------------- MODULE Continuation ----------------------------
(***************************************************************************)
(* How package lua makes stackless Go code yield: lua/api.go on top of     *)
(* runtime/thread.go.                                                      *)
(*                                                                         *)
(* Every call of a Lua function, of pcall or of xpcall is a Go call.       *)
(* coroutine.yield returns ErrCoroutineYield through all of them up to the *)
(* Thread.Resume they belong to; on its way each saves a continuation in   *)
(* the package-wide map luaContinuations.  The next resume takes the chain *)
(* and runs it from the innermost continuation outwards.                   *)
(*                                                                         *)
(* The coroutines here are Lua closures; Coroutine has the other kinds and *)
(* Close, which ends the State whatever is saved.                          *)
(***************************************************************************)
EXTENDS Integers, Sequences, FiniteSets

CONSTANTS Threads,       \* coroutines other than the main thread
          Main, NoThread,
          MaxBoundaries, \* bound: library callbacks open at once
          MaxDepth,      \* bound: activations of one coroutine
          Shapes         \* the delicate program shapes a run admits

\* What a program may do beyond plain calls, yields and errors:
\*   "nested"       yield through pcall in a coroutine another one resumed
\*   "direct"       yield called by pcall itself or by its tail-calling callee
\*   "entryTail"    yield in tail position of the entry function
\*   "deepError"    after a resume, fail in a function called below pcall
AllShapes == {"nested", "direct", "entryTail", "deepError"}

ASSUME ThreadAssumption == Main \notin Threads /\ NoThread \notin Threads /\ Main # NoThread
ASSUME BoundAssumption  == MaxBoundaries \in Nat /\ MaxDepth \in Nat /\ Shapes \subseteq AllShapes

Protected == {"pcall", "xpcall", "handler"} \* handler: xpcall while its handler runs
Saved     == {"lua"} \cup Protected       \* what a continuation is saved for
Frames    == {"resume", "callback"} \cup Saved

VARIABLES
  status, runningThread, resumeParent, yielded, continuationPending,
  goCallbackDepth,
  acts,    \* the Go stack, innermost last
  signal,  \* how the top call ends: "run" while it does not
  conts,   \* luaContinuations[t] and its parents, innermost first
  last,    \* luaLastContinuationThreads[state]
  entered  \* auxiliary: coroutines whose entry function was started

threadVars == <<status, runningThread, resumeParent, yielded, continuationPending>>
contVars   == <<conts, last>>
vars == <<status, runningThread, resumeParent, yielded, continuationPending,
          goCallbackDepth, acts, signal, conts, last, entered>>

\* A Go call in progress.  todo: of a Resume, the continuations still to run.
Act(f, t)     == [frame |-> f, thread |-> t, todo |-> <<>>]
ResumeAct(t, c) == [frame |-> "resume", thread |-> t, todo |-> c]

Top     == acts[Len(acts)]
TopIs(f) == acts # <<>> /\ Top.frame = f
Popped  == SubSeq(acts, 1, Len(acts) - 1)

\* The activations of t, innermost first: those on a Go stack s, with what the
\* loop of executeLuaThreadClosure has still to run; before them the saved ones.
FramesOf(a) == IF a.frame = "resume" THEN a.todo ELSE <<a.frame>>
StackIn(s, t) ==
  LET upTo[n \in 0..Len(s)] ==
        IF n = 0 THEN <<>>
        ELSE IF s[n].thread = t THEN FramesOf(s[n]) \o upTo[n - 1] ELSE upTo[n - 1]
  IN  upTo[Len(s)]
Chain(t) == conts[t] \o StackIn(acts, t)

TypeOK ==
  /\ status \in [Threads -> {"none", "suspended", "running", "normal", "dead"}]
  /\ runningThread \in Threads \cup {Main}
  /\ resumeParent \in [Threads -> Threads \cup {Main, NoThread}]
  /\ yielded \in [Threads -> BOOLEAN]
  /\ continuationPending \in [Threads -> BOOLEAN]
  /\ goCallbackDepth \in 0..MaxBoundaries
  /\ acts \in Seq([frame : Frames, thread : Threads, todo : Seq(Saved)])
  /\ signal \in {"run", "ret", "err", "yield"}
  /\ conts \in [Threads -> Seq(Saved)]
  /\ last \in Threads \cup {NoThread}
  /\ entered \subseteq Threads

Init ==
  /\ status = [t \in Threads |-> "none"]
  /\ runningThread = Main
  /\ resumeParent = [t \in Threads |-> NoThread]
  /\ yielded = [t \in Threads |-> FALSE]
  /\ continuationPending = [t \in Threads |-> FALSE]
  /\ goCallbackDepth = 0
  /\ acts = <<>>
  /\ signal = "run"
  /\ conts = [t \in Threads |-> <<>>]
  /\ last = NoThread
  /\ entered = {}

-----------------------------------------------------------------------------
(* The map of continuations *)

\* Mutants: the new continuation goes before the ones saved further inside,
\* or the thread is not marked.
SaveInFront(t, f) ==
  /\ conts' = [conts EXCEPT ![t] = <<f>> \o @]
  /\ last' = t
  /\ continuationPending' = [continuationPending EXCEPT ![t] = TRUE]
SaveUnmarked(t, f) ==
  /\ conts' = [conts EXCEPT ![t] = Append(@, f)]
  /\ last' = t
  /\ UNCHANGED continuationPending

\* saveLuaContinuation: behind the continuations saved further inside.
Save(t, f) ==
  /\ conts' = [conts EXCEPT ![t] = Append(@, f)]
  /\ last' = t
  /\ continuationPending' = [continuationPending EXCEPT ![t] = TRUE]

\* pendingContinuationThread: the thread saved last, else any of the map.
PendingThreads ==
  IF last # NoThread THEN {last} ELSE {t \in Threads : conts[t] # <<>>}

\* saveProtectedCallContinuation asks for the running coroutine first, which
\* after Yield is the one that resumed the yielding one.
ProtectedThreads ==
  IF runningThread \in Threads THEN {runningThread} ELSE PendingThreads

\* takeLuaContinuation, called by the runner on every resume.
Take(t) ==
  /\ conts' = [conts EXCEPT ![t] = <<>>]
  /\ last' = IF last = t THEN NoThread ELSE last
  /\ continuationPending' = [continuationPending EXCEPT ![t] = FALSE]

\* appendContinuationParent: what the loop did not run yet goes behind what
\* this yield saved.
AppendParent(t) ==
  /\ signal = "yield" /\ TopIs("resume") /\ Top.thread = t
  /\ Top.todo # <<>>
  /\ conts' = [conts EXCEPT ![t] = @ \o Top.todo]
  /\ last' = t
  /\ continuationPending' = [continuationPending EXCEPT ![t] = TRUE]
  /\ acts' = [acts EXCEPT ![Len(acts)].todo = <<>>]
  /\ UNCHANGED <<status, runningThread, resumeParent, yielded, goCallbackDepth,
                 signal, entered>>

-----------------------------------------------------------------------------
(* Calls a running Lua function makes *)

LuaRuns(t) == signal = "run" /\ TopIs("lua") /\ Top.thread = t

\* coroutine.create or coroutine.wrap.
Create(t) ==
  /\ signal = "run" /\ status[t] = "none"
  /\ status' = [status EXCEPT ![t] = "suspended"]
  /\ UNCHANGED <<runningThread, resumeParent, yielded, continuationPending,
                 goCallbackDepth, acts, signal, contVars, entered>>

\* A function, or a function called through pcall or xpcall.
Call(t) ==
  /\ LuaRuns(t)
  /\ \E f \in {<<>>, <<Act("pcall", t)>>, <<Act("xpcall", t)>>} :
       /\ Len(Chain(t)) + Len(f) < MaxDepth
       /\ acts' = acts \o f \o <<Act("lua", t)>>
  /\ UNCHANGED <<threadVars, goCallbackDepth, signal, contVars, entered>>

\* A function called back by table.sort or string.gsub.
CallFromLibrary(t) ==
  /\ LuaRuns(t)
  /\ Len(Chain(t)) + 1 < MaxDepth
  /\ goCallbackDepth < MaxBoundaries
  /\ goCallbackDepth' = goCallbackDepth + 1
  /\ acts' = acts \o <<Act("callback", t), Act("lua", t)>>
  /\ UNCHANGED <<threadVars, signal, contVars, entered>>

Return(t) ==
  /\ LuaRuns(t)
  /\ acts' = Popped /\ signal' = "ret"
  /\ UNCHANGED <<threadVars, goCallbackDepth, contVars, entered>>

\* The loop of a resumed coroutine has a Lua continuation before a pcall.
DeepErrorAhead ==
  \E i \in 1..Len(acts) :
    LET c == acts[i].todo
    IN  c # <<>> /\ Head(c) = "lua" /\ \E j \in 1..Len(c) : c[j] \in Protected

Fail(t) ==
  /\ LuaRuns(t)
  /\ DeepErrorAhead => "deepError" \in Shapes
  /\ acts' = Popped /\ signal' = "err"
  /\ UNCHANGED <<threadVars, goCallbackDepth, contVars, entered>>

\* The Go stack at the moment of a yield has the shape a run admits.
YieldShape(t, stack) ==
  LET top == stack[Len(stack)]
  IN  /\ top.frame \in Protected => "direct" \in Shapes
      /\ top.frame = "resume" /\ top.todo = <<>> => "entryTail" \in Shapes
      /\ resumeParent[t] # Main /\ (\E i \in 1..Len(stack) :
           stack[i].thread = t /\ stack[i].frame \in Protected) => "nested" \in Shapes

\* Thread.Yield with the Go stack it is called on: a function called it, in
\* tail position, or pcall and xpcall called it themselves.
Yield(t) ==
  /\ LuaRuns(t)
  /\ goCallbackDepth = 0 /\ status[t] = "running" /\ runningThread = t
  /\ \E stack \in {acts, Popped} \cup {Append(acts, Act(f, t)) : f \in {"pcall", "xpcall"}} :
       /\ YieldShape(t, stack)
       /\ Len(stack) > Len(acts) => Len(Chain(t)) < MaxDepth
       /\ acts' = stack
  /\ \E values \in BOOLEAN : yielded' = [yielded EXCEPT ![t] = values]
  /\ status' = [status EXCEPT ![t] = "suspended"]
  /\ runningThread' = resumeParent[t]
  /\ signal' = "yield"
  /\ UNCHANGED <<resumeParent, continuationPending, goCallbackDepth, contVars, entered>>

-----------------------------------------------------------------------------
(* Thread.Resume and the loop of executeLuaThreadClosure *)

Resumable(t) ==
  /\ signal = "run"
  /\ acts = <<>> \/ TopIs("lua")
  /\ status[t] \notin {"none", "dead", "running"}

\* Old yield values without a continuation are handed over.
ResumePeek(t) ==
  /\ Resumable(t)
  /\ yielded[t] /\ ~continuationPending[t]
  /\ yielded' = [yielded EXCEPT ![t] = FALSE]
  /\ status' = [status EXCEPT ![t] = "normal"]
  /\ resumeParent' = [resumeParent EXCEPT ![t] = NoThread]
  /\ UNCHANGED <<runningThread, continuationPending, goCallbackDepth, acts,
                 signal, contVars, entered>>

\* The chain is taken; without one the entry function starts.
ResumeEnter(t) ==
  /\ Resumable(t)
  /\ ~(yielded[t] /\ ~continuationPending[t])
  /\ status' = [status EXCEPT ![t] = "running"]
  /\ resumeParent' = [resumeParent EXCEPT ![t] = runningThread]
  /\ runningThread' = t
  /\ yielded' = [yielded EXCEPT ![t] = FALSE]
  /\ Take(t)
  /\ IF conts[t] = <<>>
     THEN /\ acts' = acts \o <<ResumeAct(t, <<>>), Act("lua", t)>>
          /\ entered' = entered \cup {t}
          /\ UNCHANGED signal
     ELSE /\ acts' = Append(acts, ResumeAct(t, conts[t]))
          /\ signal' = "ret"
          /\ UNCHANGED entered
  /\ UNCHANGED goCallbackDepth

\* The loop runs its next continuation with the outcome of the last one.  A
\* Lua continuation runs on; a protected call turns the outcome into a result
\* and only xpcall, to handle an error, runs Lua code for that.
LoopRuns(t) ==
  /\ TopIs("resume") /\ Top.thread = t /\ Top.todo # <<>>
  /\ LET f    == Head(Top.todo)
         rest == [acts EXCEPT ![Len(acts)].todo = Tail(@)]
     IN  \/ /\ f = "lua" /\ signal = "ret"
            /\ acts' = Append(rest, Act("lua", t)) /\ signal' = "run"
         \/ /\ f = "xpcall" /\ signal = "err"
            /\ acts' = rest \o <<Act("handler", t), Act("lua", t)>> /\ signal' = "run"
         \/ /\ f \in Protected /\ signal \in {"ret", "err"} /\ ~(f = "xpcall" /\ signal = "err")
            /\ acts' = rest /\ signal' = "ret"
  /\ UNCHANGED <<threadVars, goCallbackDepth, contVars, entered>>

\* Mutants: the parent is cleared before it is read, or the main thread takes
\* over whoever resumed the coroutine.
FinishedOrphaned(t) ==
  /\ status' = [status EXCEPT ![t] = "dead"]
  /\ resumeParent' = [resumeParent EXCEPT ![t] = NoThread]
  /\ runningThread' = resumeParent'[t]
  /\ acts' = Popped
FinishedToMain(t) ==
  /\ status' = [status EXCEPT ![t] = "dead"]
  /\ resumeParent' = [resumeParent EXCEPT ![t] = NoThread]
  /\ runningThread' = Main
  /\ acts' = Popped

\* The end of Thread.Resume, which gives control back to the resumer.
Finished(t) ==
  /\ status' = [status EXCEPT ![t] = "dead"]
  /\ runningThread' = resumeParent[t]
  /\ resumeParent' = [resumeParent EXCEPT ![t] = NoThread]
  /\ acts' = Popped

\* Every continuation has run.
ResumeReturned(t) ==
  /\ signal = "ret" /\ TopIs("resume") /\ Top = ResumeAct(t, <<>>)
  /\ Finished(t)
  /\ continuationPending' = [continuationPending EXCEPT ![t] = FALSE]
  /\ UNCHANGED <<yielded, goCallbackDepth, signal, contVars, entered>>

\* An error nothing caught, or one that meets a Lua continuation: the loop
\* gives up there.  resume returns it, wrap raises it.
ResumeFailed(t) ==
  /\ signal = "err" /\ TopIs("resume") /\ Top.thread = t
  /\ Top.todo # <<>> => Head(Top.todo) = "lua"
  /\ Finished(t)
  /\ signal' \in {"ret", "err"}
  /\ UNCHANGED <<yielded, continuationPending, goCallbackDepth, contVars, entered>>

ResumeYielded(t) ==
  /\ signal = "yield" /\ TopIs("resume") /\ Top = ResumeAct(t, <<>>)
  /\ acts' = Popped /\ signal' = "ret"
  /\ UNCHANGED <<threadVars, goCallbackDepth, contVars, entered>>

-----------------------------------------------------------------------------
(* What a Go call does with the end of the call above it *)

LuaReceives(t) ==
  /\ signal = "ret" /\ TopIs("lua") /\ Top.thread = t
  /\ signal' = "run"
  /\ UNCHANGED <<threadVars, goCallbackDepth, acts, contVars, entered>>

LuaFails(t) ==
  /\ signal = "err" /\ TopIs("lua") /\ Top.thread = t
  /\ acts' = Popped
  /\ UNCHANGED <<threadVars, goCallbackDepth, signal, contVars, entered>>

\* The CALL instruction, for the thread it read before the call.
LuaSaves(t) ==
  /\ signal = "yield" /\ TopIs("lua") /\ Top.thread = t
  /\ Save(t, "lua")
  /\ acts' = Popped
  /\ UNCHANGED <<status, runningThread, resumeParent, yielded, goCallbackDepth,
                 signal, entered>>

\* pcall and xpcall get a result, or pcall or the handler an error.
ProtectedEnds(t) ==
  /\ signal \in {"ret", "err"}
  /\ acts # <<>> /\ Top.thread = t /\ Top.frame \in Protected
  /\ ~(Top.frame = "xpcall" /\ signal = "err")
  /\ acts' = Popped /\ signal' = "ret"
  /\ UNCHANGED <<threadVars, goCallbackDepth, contVars, entered>>

HandlerStarts(t) ==
  /\ signal = "err" /\ TopIs("xpcall") /\ Top.thread = t
  /\ acts' = Popped \o <<Act("handler", t), Act("lua", t)>>
  /\ signal' = "run"
  /\ UNCHANGED <<threadVars, goCallbackDepth, contVars, entered>>

\* saveProtectedCallContinuation for whichever thread it finds, or for none.
ProtectedSaves(t) ==
  /\ signal = "yield"
  /\ acts # <<>> /\ Top.thread = t /\ Top.frame \in Protected
  /\ IF ProtectedThreads = {}
     THEN UNCHANGED <<contVars, continuationPending>>
     ELSE \E u \in ProtectedThreads : Save(u, Top.frame)
  /\ acts' = Popped
  /\ UNCHANGED <<status, runningThread, resumeParent, yielded, goCallbackDepth,
                 signal, entered>>

CallbackEnds(t) ==
  /\ signal \in {"ret", "err"} /\ TopIs("callback") /\ Top.thread = t
  /\ goCallbackDepth' = goCallbackDepth - 1
  /\ acts' = Popped
  /\ UNCHANGED <<threadVars, signal, contVars, entered>>

HostReceives ==
  /\ signal \in {"ret", "err"} /\ acts = <<>>
  /\ signal' = "run"
  /\ UNCHANGED <<threadVars, goCallbackDepth, acts, contVars, entered>>

-----------------------------------------------------------------------------

Program(t) == Create(t) \/ Call(t) \/ CallFromLibrary(t) \/ Return(t) \/ Fail(t) \/ Yield(t)

ThreadResume(t) ==
  ResumePeek(t) \/ ResumeEnter(t) \/ ResumeReturned(t) \/ ResumeFailed(t) \/ ResumeYielded(t)

Executor(t) ==
  \/ LoopRuns(t) \/ AppendParent(t)
  \/ LuaReceives(t) \/ LuaFails(t) \/ LuaSaves(t)
  \/ ProtectedEnds(t) \/ HandlerStarts(t) \/ ProtectedSaves(t)
  \/ CallbackEnds(t)

Next ==
  \/ \E t \in Threads : Program(t) \/ ThreadResume(t) \/ Executor(t)
  \/ HostReceives

Spec == Init /\ [][Next]_vars

-----------------------------------------------------------------------------
(* Properties *)

\* The two maps agree with the flag runtime keeps: a coroutine that can be
\* resumed has a continuation pending exactly when the map holds one, and the
\* thread saved last still has its chain.
MapsAgree ==
  /\ \A t \in Threads : status[t] # "dead" => (continuationPending[t] <=> conts[t] # <<>>)
  /\ last # NoThread => conts[last] # <<>>

\* The coroutine machine of runtime/thread.go, seen through the Go stack: of the
\* calls it holds, those of Resume and of library functions, the n-th at n.
CallIndices(s) == {i \in 1..Len(s) : s[i].frame \in {"resume", "callback"}}
NthCall(s, n)  == {i \in CallIndices(s) : Cardinality({j \in CallIndices(s) : j <= i}) = n}
Only(S)        == CHOOSE i \in S : TRUE

CallOf(a)      == [thread |-> a.thread, frame |-> a.frame]
CallsIn(s)     == [n \in 1..Cardinality(CallIndices(s)) |-> Only({CallOf(s[i]) : i \in NthCall(s, n)})]

C == INSTANCE Coroutine WITH
       kind   <- [t \in Threads |-> IF status[t] = "none" THEN "none" ELSE "lua"],
       status <- [t \in Threads |-> IF status[t] = "none" THEN "suspended" ELSE status[t]],
       calls  <- CallsIn(acts),
       signal <- IF signal = "yield" THEN "yield" ELSE "none",
       closed <- FALSE

\* Unwinding, saving and restoring never drives the threads through a step
\* Resume and Yield do not allow.
ImplementsCoroutine == C!Spec

\* Every coroutine as a stack of its own: what is saved, what lives on the Go
\* stack and what the loop still has to run.
StackOf(t) ==
  IF status[t] = "none" \/ status[t] = "dead" THEN <<>>
  ELSE IF t \notin entered THEN <<"entry">> ELSE Chain(t)

\* The threads of the calls of Resume on a Go stack; a yield has left the last.
ResumedIn(s) ==
  LET upTo[n \in 0..Len(s)] ==
        IF n = 0 THEN <<>>
        ELSE IF s[n].frame = "resume" THEN Append(upTo[n - 1], s[n].thread) ELSE upTo[n - 1]
  IN  upTo[Len(s)]
WithoutLast(s) == SubSeq(s, 1, Len(s) - 1)
ResumedThreads ==
  IF signal = "yield" THEN WithoutLast(ResumedIn(acts)) ELSE ResumedIn(acts)

S == INSTANCE Stackful WITH
       life  <- [t \in Threads |-> CASE status[t] = "none" -> "none"
                                     [] status[t] = "dead" -> "dead"
                                     [] OTHER -> "alive"],
       stack <- [t \in Threads |-> StackOf(t)],
       chain <- ResumedThreads,
       mode  <- IF signal = "yield" THEN "ret" ELSE signal

\* For programs without the delicate shapes, the chain of continuations is
\* the coroutine's stack: no yield loses, doubles, reorders or misplaces an
\* activation, and every error reaches the protected call it is inside of.
ImplementsStackful == S!Spec

\* lua/api.go:609 and 768: a yield through a protected call saves its
\* continuation for the coroutine that yielded.
ProtectedCallKept ==
  [][\A t \in Threads :
       signal = "yield" /\ TopIs("pcall") /\ Top.thread = t /\ Len(acts') < Len(acts)
         => conts'[t] = Append(conts[t], "pcall")]_vars

\* lua/api.go:835: only the first resume starts from the entry function.
EntryStartsOnce ==
  [][\A t \in entered : conts[t] = <<>> => ~ResumeEnter(t)]_vars

\* lua/api.go:1978: an error goes to the protected continuations that follow.
ErrorReachesProtected ==
  [][\A t \in Threads :
       ResumeFailed(t) => \A i \in 1..Len(Top.todo) : Top.todo[i] \notin Protected]_vars

=============================================================================
