------------------------------- MODULE Events -------------------------------
(***************************************************************************)
(* The progress-event registry of one State (lua/events.go): listeners,    *)
(* the asynchronous queue, and the loops of dispatchCallbacks and          *)
(* drainGluaEventQueueCount.                                               *)
(*                                                                         *)
(* One goroutine runs Lua, dispatches and drains; any goroutine of the     *)
(* host may call the management functions (remove, mute, setConfig).  The  *)
(* registry is locked piecewise, so that every lock section of a loop is a *)
(* step here and a management call may come between any two of them.       *)
(*                                                                         *)
(* A callback's Lua code may trigger events and flush the queue as well:   *)
(* an attempt is an activity pushed on "acts", and dispatchDepth is what   *)
(* the code has to keep it from starting.                                  *)
(*                                                                         *)
(* Abstracted: the source, name, filters and priority of a listener (a     *)
(* dispatch reaches any subset of the listeners in any order, and may skip *)
(* one for its filter, sampling or throttle), the contexts, the counters   *)
(* that are only reported, and the clock (a debounced task is due when     *)
(* DebounceElapsed says so).                                               *)
(***************************************************************************)
EXTENDS Integers, Sequences, FiniteSets
LOCAL INSTANCE Functions

CONSTANTS MaxListeners,      \* registry.maxListeners
          MaxQueuedTasks,    \* registry.maxQueuedTasks
          MaxTasksPerDrain,  \* registry.maxTasksPerDrain
          Configs,           \* the configurations a listener may be given
          MaxIDs,            \* bound: listeners ever registered
          MaxRuns            \* bound: no event once there are so many runs and claims

Overflows == {"drop_newest", "drop_oldest", "error"}
OnErrors  == {"propagate", "ignore", "mute", "remove"}

ASSUME LimitAssumption ==
  /\ MaxListeners \in Nat \ {0}
  /\ MaxQueuedTasks \in Nat \ {0}
  /\ MaxTasksPerDrain \in Nat \ {0}
ASSUME EventBoundAssumption == MaxIDs \in Nat /\ MaxRuns \in Nat
ASSUME ConfigAssumption ==
  /\ Configs # {}
  /\ Configs \subseteq [limit : Nat, queueLimit : Nat, overflow : Overflows,
                         onError : OnErrors, debounce : BOOLEAN]

IDs == 1 .. MaxIDs

VARIABLES
  nextID,         \* registry.nextID
  eventsByID,     \* the keys of registry.eventsByID
  muted,          \* the registered listeners whose callback.muted is set
  async,          \* callback.async
  options,        \* callback.options
  reservedCount,  \* callback.reservedCount: claims not run yet
  dispatchCount,  \* callback.dispatchCount: runs
  queue,          \* registry.queue
  dispatchDepth,  \* registry.dispatchDepth
  acts,           \* the dispatches and drains in progress, innermost last
  expiring,       \* setConfig has unlocked and still has to call removeEvent
  closed,         \* closeGluaEventRegistry has run
  abandoned       \* history: claims whose batch was left by an error

listenerVars == <<nextID, eventsByID, muted, async, options>>
countVars    == <<reservedCount, dispatchCount, abandoned>>
vars == <<nextID, eventsByID, muted, async, options, reservedCount,
          dispatchCount, queue, dispatchDepth, acts, expiring, closed, abandoned>>

Phases == {"next", "claimed", "running", "returned", "expire", "resolve"}
Tasks  == [callback : IDs, due : BOOLEAN]
Acts   == [work : {"dispatch", "drain"}, force : BOOLEAN, todo : Seq(IDs),
           processed : Nat, phase : Phases, current : IDs \cup {0}, failed : BOOLEAN]

TypeOK ==
  /\ nextID \in 0 .. MaxIDs
  /\ eventsByID \subseteq 1 .. nextID
  /\ muted \subseteq eventsByID
  /\ async \in [IDs -> BOOLEAN]
  /\ options \in [IDs -> Configs]
  /\ reservedCount \in [IDs -> Nat]
  /\ dispatchCount \in [IDs -> Nat]
  /\ queue \in Seq(Tasks)
  /\ dispatchDepth \in {-1, 0, 1}
  /\ acts \in Seq(Acts)
  /\ expiring \subseteq IDs
  /\ closed \in BOOLEAN
  /\ abandoned \in [IDs -> Nat]

Init ==
  /\ nextID = 0
  /\ eventsByID = {}
  /\ muted = {}
  /\ async = [l \in IDs |-> FALSE]
  /\ options = [l \in IDs |-> CHOOSE c \in Configs : TRUE]
  /\ reservedCount = [l \in IDs |-> 0]
  /\ dispatchCount = [l \in IDs |-> 0]
  /\ queue = <<>>
  /\ dispatchDepth = 0
  /\ acts = <<>>
  /\ expiring = {}
  /\ closed = FALSE
  /\ abandoned = [l \in IDs |-> 0]

-----------------------------------------------------------------------------
(* The queue. *)

\* The tasks of q at the indices I, in their order: every loop over the
\* queue that compacts it in place.
Kept(q, I) ==
  [j \in 1 .. Cardinality(I) |->
     q[CHOOSE i \in I : Cardinality({k \in I : k <= i}) = j]]

TasksOf(l) == {i \in DOMAIN queue : queue[i].callback = l}
Oldest(l)  == CHOOSE i \in TasksOf(l) : \A k \in TasksOf(l) : i <= k

\* The newest n tasks of l (all of them when l has fewer).
Newest(l, n) == {i \in TasksOf(l) : Cardinality({k \in TasksOf(l) : k >= i}) <= n}

\* What one round of drain may take: the first n tasks that are due.
Due(force)         == {i \in DOMAIN queue : force \/ queue[i].due}
Drainable(force, n) ==
  {i \in Due(force) : Cardinality({k \in Due(force) : k <= i}) <= n}

-----------------------------------------------------------------------------
(* Management: registration, removal, muting, configuration, Close. *)

Register(config, isAsync) ==
  /\ ~closed
  /\ nextID < MaxIDs
  /\ Cardinality(eventsByID) < MaxListeners
  /\ config.debounce => isAsync
  /\ nextID' = nextID + 1
  /\ eventsByID' = eventsByID \cup {nextID'}
  /\ async' = [async EXCEPT ![nextID'] = isAsync]
  /\ options' = [options EXCEPT ![nextID'] = config]
  /\ UNCHANGED <<muted, countVars, queue, dispatchDepth, acts, expiring, closed>>

\* removeEvent: the listener and its queued tasks; a missing id is left alone.
Removed(l) ==
  /\ eventsByID' = eventsByID \ {l}
  /\ muted' = muted \ {l}
  /\ queue' = IF l \in eventsByID THEN Kept(queue, DOMAIN queue \ TasksOf(l)) ELSE queue

Remove(l) ==
  /\ l \in eventsByID
  /\ Removed(l)
  /\ UNCHANGED <<nextID, async, options, countVars, dispatchDepth, acts,
                 expiring, closed>>

SetMuted(l, value) ==
  /\ l \in eventsByID
  /\ muted' = IF value THEN muted \cup {l} ELSE muted \ {l}
  /\ UNCHANGED <<nextID, eventsByID, async, options, countVars, queue,
                 dispatchDepth, acts, expiring, closed>>

\* The tasks trimCallbackQueueLocked cancels when limit runs are allowed.
Trimmed(l, limit) ==
  LET remaining == IF limit < dispatchCount[l] THEN 0 ELSE limit - dispatchCount[l]
  IN  IF limit = 0 \/ reservedCount[l] <= remaining THEN {}
      ELSE Newest(l, reservedCount[l] - remaining)

\* The locked part of setEventConfig.  A limit already used up is noticed
\* here, and the listener removed after unlocking.
SetConfig(l, config) ==
  /\ l \in eventsByID
  /\ config.debounce => async[l]
  /\ options' = [options EXCEPT ![l] = config]
  /\ LET gone == Trimmed(l, config.limit) IN
       /\ queue' = Kept(queue, DOMAIN queue \ gone)
       /\ reservedCount' = [reservedCount EXCEPT ![l] = @ - Cardinality(gone)]
  /\ expiring' = IF config.limit > 0 /\ dispatchCount[l] >= config.limit
                 THEN expiring \cup {l} ELSE expiring
  /\ UNCHANGED <<nextID, eventsByID, muted, async, dispatchCount, abandoned,
                 dispatchDepth, acts, closed>>

RemoveExpired(l) ==
  /\ l \in expiring
  /\ expiring' = expiring \ {l}
  /\ Removed(l)
  /\ UNCHANGED <<nextID, async, options, countVars, dispatchDepth, acts, closed>>

DebounceElapsed(i) ==
  /\ ~queue[i].due
  /\ queue' = [queue EXCEPT ![i].due = TRUE]
  /\ UNCHANGED <<listenerVars, countVars, dispatchDepth, acts, expiring, closed>>

\* closeGluaEventRegistry, called between VM steps or by the running callback.
\* The table and the queue go; dispatchDepth is reset even in a callback, whose
\* deferred decrement then leaves -1.
Close ==
  /\ ~closed
  /\ \A k \in DOMAIN acts : acts[k].phase = "running"
  /\ closed' = TRUE
  /\ eventsByID' = {}
  /\ muted' = {}
  /\ queue' = <<>>
  /\ dispatchDepth' = 0
  /\ UNCHANGED <<nextID, async, options, countVars, acts, expiring>>

-----------------------------------------------------------------------------
(* Activities. *)

Top     == acts[Len(acts)]
Set(a)  == acts' = [acts EXCEPT ![Len(acts)] = a]
Leave   == acts' = SubSeq(acts, 1, Len(acts) - 1)
InPhase(work, phase) == acts # <<>> /\ Top.work \in work /\ Top.phase = phase
Both    == {"dispatch", "drain"}
Skipped(a) == [a EXCEPT !.phase = "next", !.todo = Tail(a.todo), !.current = 0,
                        !.failed = FALSE]

\* A bug: the depth is not looked at.
AdmittedAlways == TRUE

\* progressCallbacks and takeQueuedTasks give a running callback nothing.
Admitted == dispatchDepth <= 0

\* The goroutine is in Lua code: outside every callback, or inside the last.
InLua == \A k \in DOMAIN acts : acts[k].phase = "running"

Total(f)  == FoldFunction(+, 0, f)
Orders(S) == {s \in [1 .. Cardinality(S) -> S] : \A i, j \in DOMAIN s : s[i] = s[j] => i = j}

Activity(work, force, todo) ==
  [work |-> work, force |-> force, todo |-> todo, processed |-> 0,
   phase |-> "next", current |-> 0, failed |-> FALSE]

\* dispatchGluaProgressEvent: the callbacks are a snapshot, later
\* registrations are not called and removed ones are looked up again.
Trigger(matching, force) ==
  /\ InLua
  /\ Admitted
  /\ matching # {}
  /\ Total(dispatchCount) + Total(reservedCount) < MaxRuns
  /\ \E s \in Orders(matching) : acts' = Append(acts, Activity("dispatch", force, s))
  /\ UNCHANGED <<listenerVars, countVars, queue, dispatchDepth, expiring, closed>>

\* A VM safe point, or flush with force.
Drain(force) ==
  /\ InLua
  /\ Admitted
  /\ Due(force) # {}
  /\ acts' = Append(acts, Activity("drain", force, <<>>))
  /\ UNCHANGED <<listenerVars, countVars, queue, dispatchDepth, expiring, closed>>

Active(l) == l \in eventsByID /\ l \notin muted

\* A bug: queued tasks do not count towards the limit.
CanDispatchQueued(l) ==
  /\ Active(l)
  /\ options[l].limit > 0 => dispatchCount[l] < options[l].limit

\* canDispatch without the filter, sampling and throttle.
CanDispatch(l) ==
  /\ Active(l)
  /\ options[l].limit > 0 => dispatchCount[l] + reservedCount[l] < options[l].limit

Claim ==
  /\ InPhase({"dispatch"}, "next")
  /\ Top.todo # <<>>
  /\ LET l == Head(Top.todo) IN
       /\ CanDispatch(l)
       /\ reservedCount' = [reservedCount EXCEPT ![l] = @ + 1]
       /\ Set([Top EXCEPT !.phase = "claimed", !.current = l])
  /\ UNCHANGED <<listenerVars, dispatchCount, abandoned, queue, dispatchDepth,
                 expiring, closed>>

\* canDispatch refused, for one of its reasons.
Skip ==
  /\ InPhase({"dispatch"}, "next")
  /\ Top.todo # <<>>
  /\ Set(Skipped(Top))
  /\ UNCHANGED <<listenerVars, countVars, queue, dispatchDepth, expiring, closed>>

\* A bug: the claim of a task that does not run is kept.
ReleaseNothing(l) == reservedCount' = reservedCount

\* releaseDispatchClaim.
Release(l) ==
  reservedCount' = IF l \in eventsByID /\ reservedCount[l] > 0
                   THEN [reservedCount EXCEPT ![l] = @ - 1] ELSE reservedCount

\* A bug: debounced triggers are queued one by one.
MergesNever(l) == FALSE

Queued(l)   == Top.force \/ async[l]
Merges(l)   == options[l].debounce /\ TasksOf(l) # {}
Full(l)     == options[l].queueLimit > 0 /\ Cardinality(TasksOf(l)) >= options[l].queueLimit
Replaces(l) == Full(l) /\ options[l].overflow = "drop_oldest"

\* The queue the new task is appended to.
Room(l)     == IF Replaces(l) THEN Kept(queue, DOMAIN queue \ {Oldest(l)}) ELSE queue
Fits(l)     == Len(Room(l)) < MaxQueuedTasks

Enqueuing(l) == InPhase({"dispatch"}, "claimed") /\ Top.current = l /\ Queued(l)

\* A debounced trigger joins the pending task and restarts its clock.
Merge(l) ==
  /\ Enqueuing(l)
  /\ Merges(l)
  /\ queue' = [queue EXCEPT ![Oldest(l)].due = FALSE]
  /\ Release(l)
  /\ Set(Skipped(Top))
  /\ UNCHANGED <<listenerVars, dispatchCount, abandoned, dispatchDepth, expiring, closed>>

Enqueue(l) ==
  /\ Enqueuing(l)
  /\ ~Merges(l)
  /\ ~Full(l) \/ Replaces(l)
  /\ Fits(l)
  /\ queue' = Append(Room(l), [callback |-> l, due |-> ~options[l].debounce])
  /\ reservedCount' = IF Replaces(l) /\ reservedCount[l] > 0
                      THEN [reservedCount EXCEPT ![l] = @ - 1] ELSE reservedCount
  /\ Set(Skipped(Top))
  /\ UNCHANGED <<listenerVars, dispatchCount, abandoned, dispatchDepth, expiring, closed>>

DropNewest(l) ==
  /\ Enqueuing(l)
  /\ ~Merges(l)
  /\ Full(l) /\ options[l].overflow = "drop_newest"
  /\ Release(l)
  /\ Set(Skipped(Top))
  /\ UNCHANGED <<listenerVars, dispatchCount, abandoned, queue, dispatchDepth,
                 expiring, closed>>

\* The listener's own limit with overflow "error", or the State's: the event
\* fails and the listeners behind this one are not called.
Reject(l) ==
  /\ Enqueuing(l)
  /\ ~Merges(l)
  /\ \/ Full(l) /\ options[l].overflow = "error"
     \/ ~Full(l) /\ ~Fits(l)
  /\ Release(l)
  /\ Leave
  /\ UNCHANGED <<listenerVars, dispatchCount, abandoned, queue, dispatchDepth,
                 expiring, closed>>

\* One round of the drain loop.
Take ==
  /\ InPhase({"drain"}, "next")
  /\ Top.todo = <<>>
  /\ Admitted
  /\ LET taken == Drainable(Top.force, MaxTasksPerDrain - Top.processed)
         batch == Kept(queue, taken)
     IN  /\ taken # {}
         /\ queue' = Kept(queue, DOMAIN queue \ taken)
         /\ Set([Top EXCEPT !.todo = [i \in DOMAIN batch |-> batch[i].callback]])
  /\ UNCHANGED <<listenerVars, countVars, dispatchDepth, expiring, closed>>

\* The batch's next task: its listener is looked up again.
Accept ==
  /\ InPhase({"drain"}, "next")
  /\ Top.todo # <<>>
  /\ Active(Head(Top.todo))
  /\ Set([Top EXCEPT !.phase = "claimed", !.current = Head(Top.todo),
                     !.processed = @ + 1])
  /\ UNCHANGED <<listenerVars, countVars, queue, dispatchDepth, expiring, closed>>

Discard ==
  /\ InPhase({"drain"}, "next")
  /\ Top.todo # <<>>
  /\ ~Active(Head(Top.todo))
  /\ Release(Head(Top.todo))
  /\ Set([Skipped(Top) EXCEPT !.processed = @ + 1])
  /\ UNCHANGED <<listenerVars, dispatchCount, abandoned, queue, dispatchDepth,
                 expiring, closed>>

\* callCallback: up to the Lua call, and from its return.  A callback fails
\* with a Lua error or with the yield signal, which it cannot catch.
Start ==
  /\ InPhase(Both, "claimed")
  /\ Top.work = "dispatch" => ~Queued(Top.current)
  /\ dispatchDepth <= 0
  /\ dispatchDepth' = dispatchDepth + 1
  /\ Set([Top EXCEPT !.phase = "running"])
  /\ UNCHANGED <<listenerVars, countVars, queue, expiring, closed>>

Return(failed) ==
  /\ InPhase(Both, "running")
  /\ dispatchDepth' = dispatchDepth - 1
  /\ dispatchCount' = [dispatchCount EXCEPT ![Top.current] = @ + 1]
  /\ Set([Top EXCEPT !.phase = "returned", !.failed = failed])
  /\ UNCHANGED <<listenerVars, reservedCount, abandoned, queue, expiring, closed>>

\* A bug: the listener stays for one run more than its limit.
ExhaustedLate(l) == options[l].limit > 0 /\ dispatchCount[l] > options[l].limit

\* finishDispatch's look at the limit: the runs are used up.
Exhausted(l) == options[l].limit > 0 /\ dispatchCount[l] >= options[l].limit

\* A bug: the claim is given back although the call already did.
FinishTwice ==
  /\ InPhase(Both, "returned")
  /\ reservedCount' = [reservedCount EXCEPT ![Top.current] = @ - 2]
  /\ Set([Top EXCEPT !.phase = IF Exhausted(Top.current) THEN "expire" ELSE "resolve"])
  /\ UNCHANGED <<listenerVars, dispatchCount, abandoned, queue, dispatchDepth,
                 expiring, closed>>

\* finishDispatch: the locked part, then removeEvent when the limit is reached.
Finish ==
  /\ InPhase(Both, "returned")
  /\ LET l == Top.current IN
       reservedCount' = IF reservedCount[l] > 0
                        THEN [reservedCount EXCEPT ![l] = @ - 1] ELSE reservedCount
  /\ Set([Top EXCEPT !.phase = IF Exhausted(Top.current) THEN "expire" ELSE "resolve"])
  /\ UNCHANGED <<listenerVars, dispatchCount, abandoned, queue, dispatchDepth,
                 expiring, closed>>

Expire ==
  /\ InPhase(Both, "expire")
  /\ Removed(Top.current)
  /\ Set([Top EXCEPT !.phase = "resolve"])
  /\ UNCHANGED <<nextID, async, options, countVars, dispatchDepth,
                 expiring, closed>>

\* resolveCallbackError, with the configuration of this moment.
Resolving(onError) ==
  InPhase(Both, "resolve") /\ Top.failed /\ options[Top.current].onError = onError

ResolveIgnore ==
  /\ InPhase(Both, "resolve")
  /\ Top.failed => options[Top.current].onError = "ignore"
  /\ Set(Skipped(Top))
  /\ UNCHANGED <<listenerVars, countVars, queue, dispatchDepth, expiring, closed>>

ResolveMute ==
  /\ Resolving("mute")
  /\ muted' = muted \cup ({Top.current} \cap eventsByID)
  /\ Set(Skipped(Top))
  /\ UNCHANGED <<nextID, eventsByID, async, options, countVars, queue,
                 dispatchDepth, expiring, closed>>

ResolveRemove ==
  /\ Resolving("remove")
  /\ Removed(Top.current)
  /\ Set(Skipped(Top))
  /\ UNCHANGED <<nextID, async, options, countVars, dispatchDepth,
                 expiring, closed>>

\* The error ends the activity.  What is left of a drain's batch is in no
\* queue any more, and nobody releases its claims.
Waiting(todo, l) == Cardinality({i \in DOMAIN todo : todo[i] = l})

ResolvePropagate ==
  /\ Resolving("propagate")
  /\ abandoned' = IF Top.work = "drain"
                  THEN [l \in IDs |-> abandoned[l] + Waiting(Tail(Top.todo), l)]
                  ELSE abandoned
  /\ Leave
  /\ UNCHANGED <<listenerVars, reservedCount, dispatchCount, queue,
                 dispatchDepth, expiring, closed>>

\* The snapshot is used up; the queue or the budget of the drain is.
End ==
  /\ InPhase(Both, "next")
  /\ Top.todo = <<>>
  /\ Top.work = "drain" =>
       ~Admitted \/ Drainable(Top.force, MaxTasksPerDrain - Top.processed) = {}
  /\ Leave
  /\ UNCHANGED <<listenerVars, countVars, queue, dispatchDepth, expiring, closed>>

-----------------------------------------------------------------------------
Manage ==
  \/ \E config \in Configs, isAsync \in BOOLEAN : Register(config, isAsync)
  \/ \E l \in IDs : Remove(l)
  \/ \E l \in IDs, value \in BOOLEAN : SetMuted(l, value)
  \/ \E l \in IDs, config \in Configs : SetConfig(l, config)
  \/ Close

Loops ==
  \/ Claim \/ Skip
  \/ \E l \in IDs : Merge(l) \/ Enqueue(l) \/ DropNewest(l) \/ Reject(l)
  \/ Take \/ Accept \/ Discard
  \/ Start \/ (\E failed \in BOOLEAN : Return(failed))
  \/ Finish \/ Expire
  \/ ResolveIgnore \/ ResolveMute \/ ResolveRemove \/ ResolvePropagate
  \/ End

Next ==
  \/ Manage
  \/ \E l \in IDs : RemoveExpired(l)
  \/ \E i \in DOMAIN queue : DebounceElapsed(i)
  \/ \E matching \in SUBSET eventsByID, force \in BOOLEAN : Trigger(matching, force)
  \/ \E force \in BOOLEAN : Drain(force)
  \/ Loops

Spec == Init /\ [][Next]_vars

-----------------------------------------------------------------------------
(* Properties. *)

InFlight(l) == \E k \in DOMAIN acts : acts[k].current = l
                                      /\ acts[k].phase \in {"claimed", "running"}

\* The tasks of l that drains took and have not reached yet.  A task that is
\* being run is still the head of its batch.
Batched(l) ==
  LET Rest(a) == IF a.phase = "next" THEN a.todo ELSE Tail(a.todo)
  IN  Cardinality({p \in (DOMAIN acts) \X (1 .. MaxQueuedTasks) :
                     /\ acts[p[1]].work = "drain"
                     /\ p[2] \in DOMAIN Rest(acts[p[1]])
                     /\ Rest(acts[p[1]])[p[2]] = l})

Claimed(l) == Cardinality({k \in DOMAIN acts : acts[k].current = l
                                   /\ acts[k].phase \in {"claimed", "running", "returned"}})

\* A registered listener's reservedCount is its tasks in the queue and in
\* a batch, and the claim in progress (and what errors abandoned): no path of
\* enqueue, drain, finishDispatch or setConfig forgets or repeats a release.
ClaimsMatch ==
  \A l \in eventsByID :
    reservedCount[l] = Cardinality(TasksOf(l)) + Batched(l) + Claimed(l) + abandoned[l]

\* once and maxCalls: counting the run in progress, a registered listener
\* never runs more often than its limit, whatever was queued, taken in a batch
\* or reconfigured before (unless setConfig is about to remove it).
RunsWithinLimit ==
  \A l \in eventsByID \ expiring :
    options[l].limit > 0 =>
      dispatchCount[l] + (IF InFlight(l) THEN 1 ELSE 0) <= options[l].limit

\* A queued task of a listener with a limit can still run: what it ran, runs
\* and has pending is within the limit, since canDispatch counts claims and
\* setConfig trims the queue to a new limit.
QueuedMayRun ==
  \A l \in eventsByID \ expiring :
    options[l].limit > 0 /\ TasksOf(l) # {} =>
      dispatchCount[l] + (IF InFlight(l) THEN 1 ELSE 0)
        + Cardinality(TasksOf(l)) + Batched(l) <= options[l].limit

\* Neither events triggered by a callback nor its flush start a dispatch or a
\* drain inside it, not even after a Close that the callback itself calls.
NoReentry == Len(acts) <= 1

\* A listener has at most one task whose debounce time is running, although
\* setConfig may switch debouncing on and off between triggers.
OneDebounced ==
  \A l \in IDs : Cardinality({i \in TasksOf(l) : ~queue[i].due}) <= 1

\* canDispatchAt's contract: what it reserved and did not run is released, so
\* that outside of every loop only queued tasks hold claims.
ClaimsReleased ==
  acts = <<>> => \A l \in eventsByID : reservedCount[l] = Cardinality(TasksOf(l))
=============================================================================
