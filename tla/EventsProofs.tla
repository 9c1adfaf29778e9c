---------------------------- MODULE EventsProofs ----------------------------
(***************************************************************************)
(* Theorems about Events for any limits, configurations and bounds: no     *)
(* dispatch or drain inside another, and no listener past its limit; then, *)
(* of the queue: the types, the claims that match the tasks, the queued    *)
(* tasks that may still run, and the one task whose debounce time runs.    *)
(*                                                                         *)
(* The first invariant says nothing of the queue's tasks but that a closed *)
(* registry has none, so its argument needs no fact about Kept.            *)
(***************************************************************************)
EXTENDS Events, FiniteSetTheorems, FunctionTheorems, SequenceTheorems, TLAPS

Fields == {"work", "force", "todo", "processed", "phase", "current", "failed"}

\* There is one activity at most, and it has the fields of an activity.
Alone ==
  /\ acts = <<>> \/ acts = <<acts[1]>>
  /\ acts # <<>> => DOMAIN acts[1] = Fields /\ acts[1].phase \in Phases

\* A closed registry offers nothing to start: no listener, no task, and no
\* callback on its way to be called.
ClosedQuiet ==
  closed => /\ eventsByID = {}
            /\ queue = <<>>
            /\ acts # <<>> => acts[1].phase # "claimed"

\* Until Close, dispatchDepth counts the callback that runs.
DepthTracks ==
  ~closed => dispatchDepth = IF acts # <<>> /\ acts[1].phase = "running" THEN 1 ELSE 0

\* What of TypeOK the limits need.  Identifiers are not used twice, so that a
\* listener starts with no run.
Counters ==
  /\ nextID \in 0 .. MaxIDs
  /\ eventsByID \subseteq 1 .. nextID
  /\ options \in [IDs -> Configs]
  /\ dispatchCount \in [IDs -> Nat]
  /\ \A l \in IDs : l > nextID => dispatchCount[l] = 0
  /\ acts # <<>> /\ acts[1].phase # "next" => acts[1].current \in 1 .. nextID

\* Between the return of a run and the removal that may follow it.
Settling(l) ==
  acts # <<>> /\ acts[1].current = l /\ acts[1].phase \in {"returned", "expire"}

\* A listener has runs left, or its last run is just being settled.
Bounded ==
  \A l \in eventsByID \ expiring :
    options[l].limit > 0 =>
      \/ dispatchCount[l] < options[l].limit
      \/ dispatchCount[l] <= options[l].limit /\ Settling(l)

EventsInv == Alone /\ ClosedQuiet /\ DepthTracks /\ Counters /\ Bounded

-----------------------------------------------------------------------------
(* The activity in progress *)

\* The innermost activity is the only one, and a step replaces or ends it.
LEMMA OneActivity ==
  ASSUME Alone, acts # <<>>
  PROVE  /\ Top = acts[1]
         /\ DOMAIN Top = Fields
         /\ Top.phase \in Phases
         /\ \A b : Set(b) => acts' = <<b>>
         /\ Leave => acts' = <<>>
  <1>1. acts = <<acts[1]>>
    BY DEF Alone
  <1>2. ASSUME NEW a, acts = <<a>>
        PROVE  /\ acts[Len(acts)] = a
               /\ \A b : [acts EXCEPT ![Len(acts)] = b] = <<b>>
               /\ SubSeq(acts, 1, Len(acts) - 1) = <<>>
    BY <1>2
  <1>3. QED
    BY <1>1, <1>2 DEF Alone, Top, Set, Leave

\* Nothing starts inside a callback.
LEMMA StartsAlone ==
  ASSUME EventsInv, InLua, Admitted, eventsByID # {} \/ queue # <<>>
  PROVE  acts = <<>>
  <1>1. ~closed
    BY DEF EventsInv, ClosedQuiet
  <1>2. SUFFICES ASSUME acts # <<>> PROVE FALSE
    OBVIOUS
  <1>3. 1 \in DOMAIN acts
    <2>1. ASSUME NEW a, acts = <<a>> PROVE 1 \in DOMAIN acts
      BY <2>1
    <2>2. QED
      BY <1>2, <2>1 DEF EventsInv, Alone
  <1>4. dispatchDepth = 1
    BY <1>1, <1>2, <1>3 DEF InLua, EventsInv, DepthTracks
  <1>5. QED
    BY <1>4 DEF Admitted

\* The step to an activity b, or to none, keeps it alone.
LEMMA StaysAlone ==
  ASSUME NEW b, DOMAIN b = Fields, b.phase \in Phases, acts' = <<b>>
  PROVE  Alone' /\ acts' # <<>> /\ acts'[1] = b
  <1>1. acts'[1] = b /\ acts' # <<>>
    OBVIOUS
  <1>2. QED
    BY <1>1 DEF Alone

LEMMA SkippedFacts ==
  ASSUME NEW a, DOMAIN a = Fields
  PROVE  DOMAIN Skipped(a) = Fields /\ Skipped(a).phase = "next" /\ Skipped(a).current = 0
  BY DEF Skipped, Fields

-----------------------------------------------------------------------------
(* Management.  It leaves the activity alone, and Close finds it running. *)

LEMMA RegisterKeeps ==
  ASSUME EventsInv, NEW config \in Configs, NEW isAsync \in BOOLEAN,
         Register(config, isAsync)
  PROVE  EventsInv'
  BY LimitAssumption, EventBoundAssumption, SMTT(20)
     DEF EventsInv, Alone, ClosedQuiet, DepthTracks, Counters, Bounded,
         Settling, IDs, Register, countVars

LEMMA RemoveKeeps ==
  ASSUME EventsInv, NEW l \in IDs, Remove(l)
  PROVE  EventsInv'
  BY SMTT(20)
     DEF EventsInv, Alone, ClosedQuiet, DepthTracks, Counters, Bounded,
         Settling, Remove, Removed, countVars

LEMMA SetMutedKeeps ==
  ASSUME EventsInv, NEW l \in IDs, NEW value \in BOOLEAN, SetMuted(l, value)
  PROVE  EventsInv'
  BY SMTT(20)
     DEF EventsInv, Alone, ClosedQuiet, DepthTracks, Counters, Bounded,
         Settling, SetMuted, countVars

LEMMA SetConfigKeeps ==
  ASSUME EventsInv, NEW l \in IDs, NEW config \in Configs, SetConfig(l, config)
  PROVE  EventsInv'
  BY ConfigAssumption, SMTT(20)
     DEF EventsInv, Alone, ClosedQuiet, DepthTracks, Counters, Bounded,
         Settling, SetConfig

LEMMA RemoveExpiredKeeps ==
  ASSUME EventsInv, NEW l \in IDs, RemoveExpired(l)
  PROVE  EventsInv'
  BY SMTT(20)
     DEF EventsInv, Alone, ClosedQuiet, DepthTracks, Counters, Bounded,
         Settling, RemoveExpired, Removed, countVars

LEMMA DebounceElapsedKeeps ==
  ASSUME EventsInv, NEW i \in DOMAIN queue, DebounceElapsed(i)
  PROVE  EventsInv'
  BY SMTT(20)
     DEF EventsInv, Alone, ClosedQuiet, DepthTracks, Counters, Bounded,
         Settling, DebounceElapsed, listenerVars, countVars

LEMMA CloseKeeps ==
  ASSUME EventsInv, Close
  PROVE  EventsInv'
  BY SMTT(20)
     DEF EventsInv, Alone, ClosedQuiet, DepthTracks, Counters, Bounded, Close,
         countVars

-----------------------------------------------------------------------------
(* The steps of an activity *)

LEMMA Moves ==
  ASSUME EventsInv, acts # <<>>, NEW b, Set(b), DOMAIN b = Fields, b.phase \in Phases
  PROVE  Alone' /\ acts' # <<>> /\ acts'[1] = b
  BY OneActivity, StaysAlone DEF EventsInv

\* An activity that neither runs a callback nor settles one goes on to its
\* next listener, or ends; listeners may have been removed with it.
LEMMA IdleKeeps ==
  ASSUME EventsInv, acts # <<>>, Top.phase \in {"next", "claimed", "resolve"},
         \/ acts' = <<>>
         \/ Alone' /\ acts' # <<>> /\ acts'[1].phase = "next",
         eventsByID' \subseteq eventsByID,
         closed => queue' = <<>>,
         UNCHANGED <<nextID, options, dispatchCount, dispatchDepth, expiring, closed>>
  PROVE  EventsInv'
  <1>1. Top = acts[1]
    BY OneActivity DEF EventsInv
  <1>2. Alone'
    BY DEF Alone
  <1>3. QED
    BY <1>1, <1>2, SMTT(20)
       DEF EventsInv, Alone, ClosedQuiet, DepthTracks, Counters, Bounded, Settling

LEMMA SkipsKeeps ==
  ASSUME EventsInv, acts # <<>>, Top.phase \in {"next", "claimed", "resolve"},
         Set(Skipped(Top)) \/ Leave,
         eventsByID' \subseteq eventsByID,
         closed => queue' = <<>>,
         UNCHANGED <<nextID, options, dispatchCount, dispatchDepth, expiring, closed>>
  PROVE  EventsInv'
  <1>1. CASE Set(Skipped(Top))
    <2>1. DOMAIN Skipped(Top) = Fields /\ Skipped(Top).phase = "next"
      BY OneActivity, SkippedFacts DEF EventsInv
    <2>2. Alone' /\ acts' # <<>> /\ acts'[1].phase = "next"
      BY <1>1, <2>1, Moves DEF Phases
    <2>3. QED
      BY <2>2, IdleKeeps
  <1>2. CASE Leave
    BY <1>2, OneActivity, IdleKeeps DEF EventsInv
  <1>3. QED
    BY <1>1, <1>2

LEMMA RemovedFacts ==
  ASSUME EventsInv, NEW l, Removed(l)
  PROVE  eventsByID' \subseteq eventsByID /\ (closed => queue' = <<>>)
  BY DEF Removed, EventsInv, ClosedQuiet

LEMMA MergeKeeps ==
  ASSUME EventsInv, NEW l \in IDs, Merge(l)
  PROVE  EventsInv'
  <1>1. acts # <<>> /\ Top.phase = "claimed" /\ ~closed
    BY OneActivity DEF Merge, Enqueuing, InPhase, EventsInv, ClosedQuiet
  <1>2. QED
    BY <1>1, SkipsKeeps DEF Merge, listenerVars

LEMMA EnqueueKeeps ==
  ASSUME EventsInv, NEW l \in IDs, Enqueue(l)
  PROVE  EventsInv'
  <1>1. acts # <<>> /\ Top.phase = "claimed" /\ ~closed
    BY OneActivity DEF Enqueue, Enqueuing, InPhase, EventsInv, ClosedQuiet
  <1>2. QED
    BY <1>1, SkipsKeeps DEF Enqueue, listenerVars

LEMMA DropNewestKeeps ==
  ASSUME EventsInv, NEW l \in IDs, DropNewest(l)
  PROVE  EventsInv'
  <1>1. acts # <<>> /\ Top.phase = "claimed" /\ ~closed
    BY OneActivity DEF DropNewest, Enqueuing, InPhase, EventsInv, ClosedQuiet
  <1>2. QED
    BY <1>1, SkipsKeeps DEF DropNewest, listenerVars

LEMMA RejectKeeps ==
  ASSUME EventsInv, NEW l \in IDs, Reject(l)
  PROVE  EventsInv'
  <1>1. acts # <<>> /\ Top.phase = "claimed" /\ ~closed
    BY OneActivity DEF Reject, Enqueuing, InPhase, EventsInv, ClosedQuiet
  <1>2. QED
    BY <1>1, SkipsKeeps DEF Reject, listenerVars

LEMMA SkipKeeps ==
  ASSUME EventsInv, Skip
  PROVE  EventsInv'
  BY SkipsKeeps
     DEF Skip, InPhase, listenerVars, countVars, EventsInv, ClosedQuiet

LEMMA ResolveIgnoreKeeps ==
  ASSUME EventsInv, ResolveIgnore
  PROVE  EventsInv'
  BY SkipsKeeps
     DEF ResolveIgnore, InPhase, listenerVars, countVars, EventsInv,
         ClosedQuiet

LEMMA ResolveMuteKeeps ==
  ASSUME EventsInv, ResolveMute
  PROVE  EventsInv'
  BY SkipsKeeps
     DEF ResolveMute, InPhase, Resolving, countVars, EventsInv, ClosedQuiet

LEMMA ResolvePropagateKeeps ==
  ASSUME EventsInv, ResolvePropagate
  PROVE  EventsInv'
  BY SkipsKeeps
     DEF ResolvePropagate, InPhase, Resolving, listenerVars, EventsInv,
         ClosedQuiet

LEMMA EndKeeps ==
  ASSUME EventsInv, End
  PROVE  EventsInv'
  BY SkipsKeeps
     DEF End, InPhase, listenerVars, countVars, EventsInv, ClosedQuiet

LEMMA ResolveRemoveKeeps ==
  ASSUME EventsInv, ResolveRemove
  PROVE  EventsInv'
  BY SkipsKeeps, RemovedFacts DEF ResolveRemove, InPhase, Resolving, countVars

\* Only an empty place is filled by a new activity.
LEMMA PushKeeps ==
  ASSUME EventsInv, InLua, Admitted, eventsByID # {} \/ queue # <<>>,
         NEW work, NEW force, NEW todo, acts' = Append(acts, Activity(work, force, todo)),
         UNCHANGED <<listenerVars, countVars, queue, dispatchDepth, expiring, closed>>
  PROVE  EventsInv'
  <1> DEFINE new == Activity(work, force, todo)
  <1>1. acts = <<>>
    BY StartsAlone
  <1>2. acts' = <<new>>
    BY <1>1
  <1>3. DOMAIN new = Fields /\ new.phase = "next"
    BY DEF Activity, Fields
  <1>4. Alone' /\ acts' # <<>> /\ acts'[1].phase = "next"
    <2> HIDE DEF new
    <2>1. QED
      BY <1>2, <1>3, StaysAlone DEF Phases
  <1>5. QED
    BY <1>1, <1>4, SMTT(20) DEF EventsInv, Alone, ClosedQuiet, DepthTracks, Counters, Bounded,
                                Settling, listenerVars, countVars

LEMMA TriggerKeeps ==
  ASSUME EventsInv, NEW matching \in SUBSET eventsByID, NEW force,
         Trigger(matching, force)
  PROVE  EventsInv'
  <1>1. eventsByID # {}
    BY DEF Trigger
  <1>2. QED
    BY <1>1, PushKeeps DEF Trigger

LEMMA DrainKeeps ==
  ASSUME EventsInv, NEW force, Drain(force)
  PROVE  EventsInv'
  <1>1. queue # <<>>
    BY DEF Drain, Due
  <1>2. QED
    BY <1>1, PushKeeps DEF Drain

\* The parts of a drain that do not call a callback.
LEMMA TakeKeeps ==
  ASSUME EventsInv, Take
  PROVE  EventsInv'
  <1>1. PICK b : Set([Top EXCEPT !.todo = b])
    BY DEF Take
  <1> DEFINE new == [Top EXCEPT !.todo = b]
  <1>2. DOMAIN new = Fields /\ new.phase = "next"
    BY OneActivity DEF Take, InPhase, EventsInv, Fields
  <1>3. ~closed
    <2>1. PICK n : Drainable(Top.force, n) # {}
      BY DEF Take
    <2>2. queue # <<>>
      BY <2>1 DEF Drainable, Due
    <2>3. QED
      BY <2>2 DEF EventsInv, ClosedQuiet
  <1>4. Alone' /\ acts' # <<>> /\ acts'[1].phase = "next"
    <2>1. Set(new)
      BY <1>1
    <2> HIDE DEF new
    <2>2. QED
      BY <1>2, <2>1, Moves DEF Phases, Take, InPhase
  <1>5. QED
    BY <1>3, <1>4, IdleKeeps DEF Take, InPhase, listenerVars, countVars

LEMMA DiscardKeeps ==
  ASSUME EventsInv, Discard
  PROVE  EventsInv'
  <1> DEFINE new == [Skipped(Top) EXCEPT !.processed = @ + 1]
  <1>1. DOMAIN new = Fields /\ new.phase = "next"
    <2>1. DOMAIN Skipped(Top) = Fields /\ Skipped(Top).phase = "next"
      BY OneActivity, SkippedFacts DEF Discard, InPhase, EventsInv
    <2>2. QED
      BY <2>1 DEF Fields
  <1>2. Alone' /\ acts' # <<>> /\ acts'[1].phase = "next"
    <2>1. Set(new)
      BY DEF Discard
    <2> HIDE DEF new
    <2>2. QED
      BY <1>1, <2>1, Moves DEF Phases, Discard, InPhase
  <1>3. QED
    BY <1>2, IdleKeeps DEF Discard, InPhase, listenerVars, EventsInv, ClosedQuiet

-----------------------------------------------------------------------------
(* The steps of a callback *)

\* Only a registered listener is claimed, and it has a run left.
LEMMA PickUpKeeps ==
  ASSUME EventsInv, acts # <<>>, Top.phase = "next",
         NEW l, Active(l), Alone', acts' # <<>>,
         acts'[1].phase = "claimed", acts'[1].current = l,
         UNCHANGED <<listenerVars, dispatchCount, queue, dispatchDepth, expiring, closed>>
  PROVE  EventsInv'
  <1>1. Top = acts[1]
    BY OneActivity DEF EventsInv
  <1>2. QED
    BY <1>1, SMTT(20) DEF EventsInv, Alone, ClosedQuiet, DepthTracks, Counters, Bounded,
                          Settling, listenerVars, Active

LEMMA ClaimKeeps ==
  ASSUME EventsInv, Claim
  PROVE  EventsInv'
  <1> DEFINE new == [Top EXCEPT !.phase = "claimed", !.current = Head(Top.todo)]
  <1>1. DOMAIN new = Fields /\ new.phase = "claimed" /\ new.current = Head(Top.todo)
    BY OneActivity DEF Claim, InPhase, EventsInv, Fields
  <1>2. Alone' /\ acts' # <<>> /\ acts'[1] = new
    <2>1. Set(new)
      BY DEF Claim
    <2> HIDE DEF new
    <2>2. QED
      BY <1>1, <2>1, Moves DEF Phases, Claim, InPhase
  <1>3. QED
    BY <1>1, <1>2, PickUpKeeps DEF Claim, CanDispatch, InPhase

LEMMA AcceptKeeps ==
  ASSUME EventsInv, Accept
  PROVE  EventsInv'
  <1> DEFINE new == [Top EXCEPT !.phase = "claimed", !.current = Head(Top.todo),
                                !.processed = @ + 1]
  <1>1. DOMAIN new = Fields /\ new.phase = "claimed" /\ new.current = Head(Top.todo)
    BY OneActivity DEF Accept, InPhase, EventsInv, Fields
  <1>2. Alone' /\ acts' # <<>> /\ acts'[1] = new
    <2>1. Set(new)
      BY DEF Accept
    <2> HIDE DEF new
    <2>2. QED
      BY <1>1, <2>1, Moves DEF Phases, Accept, InPhase
  <1>3. QED
    BY <1>1, <1>2, PickUpKeeps DEF Accept, InPhase, countVars

LEMMA StartKeeps ==
  ASSUME EventsInv, Start
  PROVE  EventsInv'
  <1> DEFINE new == [Top EXCEPT !.phase = "running"]
  <1>1. Top = acts[1] /\ Top.phase = "claimed" /\ ~closed
    BY OneActivity DEF Start, InPhase, EventsInv, ClosedQuiet
  <1>2. DOMAIN new = Fields /\ new.phase = "running" /\ new.current = Top.current
    BY OneActivity DEF Start, InPhase, EventsInv, Fields
  <1>3. Alone' /\ acts' # <<>> /\ acts'[1] = new
    <2>1. Set(new)
      BY DEF Start
    <2> HIDE DEF new
    <2>2. QED
      BY <1>2, <2>1, Moves DEF Phases, Start, InPhase
  <1> HIDE DEF new
  <1>4. acts # <<>> /\ dispatchDepth' = 1
    BY <1>1 DEF Start, InPhase, EventsInv, DepthTracks
  <1>5. QED
    BY <1>1, <1>2, <1>3, <1>4, SMTT(20)
       DEF EventsInv, ClosedQuiet, DepthTracks, Counters, Bounded, Settling, Start,
           listenerVars, countVars

\* The run that returns is the one the bound had left.
LEMMA ReturnKeeps ==
  ASSUME EventsInv, NEW failed \in BOOLEAN, Return(failed)
  PROVE  EventsInv'
  <1> DEFINE new == [Top EXCEPT !.phase = "returned", !.failed = failed]
  <1>1. Top = acts[1] /\ Top.phase = "running" /\ acts # <<>>
    BY OneActivity DEF Return, InPhase, EventsInv
  <1>2. DOMAIN new = Fields /\ new.phase = "returned" /\ new.current = Top.current
    BY OneActivity DEF Return, InPhase, EventsInv, Fields
  <1>3. Alone' /\ acts' # <<>> /\ acts'[1] = new
    <2>1. Set(new)
      BY DEF Return
    <2> HIDE DEF new
    <2>2. QED
      BY <1>1, <1>2, <2>1, Moves DEF Phases
  <1> HIDE DEF new
  <1>4. Top.current \in 1 .. nextID /\ Top.current \in IDs
    BY <1>1, EventBoundAssumption DEF EventsInv, Counters, IDs
  <1>5. ClosedQuiet' /\ DepthTracks'
    BY <1>1, <1>2, <1>3 DEF EventsInv, ClosedQuiet, DepthTracks, Return, listenerVars
  <1>6. Counters'
    BY <1>1, <1>2, <1>3, <1>4, SMTT(20) DEF EventsInv, Counters, Return, listenerVars
  <1>7. Bounded'
    <2> SUFFICES ASSUME NEW l \in eventsByID \ expiring, options[l].limit > 0
                 PROVE  \/ dispatchCount'[l] < options[l].limit
                        \/ dispatchCount'[l] <= options[l].limit /\ Settling(l)'
      BY DEF Bounded, Return, listenerVars
    <2>1. dispatchCount[l] < options[l].limit /\ l \in IDs /\ options[l].limit \in Nat
      BY <1>1, EventBoundAssumption, ConfigAssumption
         DEF EventsInv, Bounded, Settling, Counters, IDs
    <2>2. CASE l = Top.current
      BY <1>2, <1>3, <2>1, <2>2 DEF EventsInv, Counters, Return, Settling
    <2>3. CASE l # Top.current
      BY <2>1, <2>3 DEF EventsInv, Counters, Return
    <2>4. QED
      BY <2>2, <2>3
  <1>8. QED
    BY <1>3, <1>5, <1>6, <1>7 DEF EventsInv

\* finishDispatch sends every listener whose runs are used up to its removal.
LEMMA FinishKeeps ==
  ASSUME EventsInv, Finish
  PROVE  EventsInv'
  <1> DEFINE phase == IF Exhausted(Top.current) THEN "expire" ELSE "resolve"
             new   == [Top EXCEPT !.phase = phase]
  <1>1. Top = acts[1] /\ Top.phase = "returned" /\ acts # <<>>
    BY OneActivity DEF Finish, InPhase, EventsInv
  <1>2. DOMAIN new = Fields /\ new.phase = phase /\ new.current = Top.current
    BY OneActivity DEF Finish, InPhase, EventsInv, Fields
  <1>3. Alone' /\ acts' # <<>> /\ acts'[1] = new
    <2>1. Set(new) /\ phase \in Phases
      BY DEF Finish, Phases
    <2> HIDE DEF new
    <2>2. QED
      BY <1>1, <1>2, <2>1, Moves
  <1> HIDE DEF new
  <1>4. ClosedQuiet' /\ DepthTracks' /\ Counters'
    BY <1>1, <1>2, <1>3
       DEF EventsInv, ClosedQuiet, DepthTracks, Counters, Finish, listenerVars
  <1>5. Bounded'
    <2> SUFFICES ASSUME NEW l \in eventsByID \ expiring, options[l].limit > 0
                 PROVE  \/ dispatchCount[l] < options[l].limit
                        \/ dispatchCount[l] <= options[l].limit /\ Settling(l)'
      BY DEF Bounded, Finish, listenerVars
    <2>1. dispatchCount[l] \in Nat /\ options[l].limit \in Nat
      BY EventBoundAssumption, ConfigAssumption DEF EventsInv, Counters, IDs
    <2>2. CASE l = Top.current
      BY <1>1, <1>2, <1>3, <2>1, <2>2 DEF EventsInv, Bounded, Settling, Exhausted
    <2>3. CASE l # Top.current
      BY <1>1, <2>3 DEF EventsInv, Bounded, Settling
    <2>4. QED
      BY <2>2, <2>3
  <1>6. QED
    BY <1>3, <1>4, <1>5 DEF EventsInv

LEMMA ExpireKeeps ==
  ASSUME EventsInv, Expire
  PROVE  EventsInv'
  <1> DEFINE new == [Top EXCEPT !.phase = "resolve"]
  <1>1. Top = acts[1] /\ Top.phase = "expire" /\ acts # <<>>
    BY OneActivity DEF Expire, InPhase, EventsInv
  <1>2. DOMAIN new = Fields /\ new.phase = "resolve" /\ new.current = Top.current
    BY OneActivity DEF Expire, InPhase, EventsInv, Fields
  <1>3. Alone' /\ acts' # <<>> /\ acts'[1] = new
    <2>1. Set(new)
      BY DEF Expire
    <2> HIDE DEF new
    <2>2. QED
      BY <1>1, <1>2, <2>1, Moves DEF Phases
  <1> HIDE DEF new
  <1>4. eventsByID' = eventsByID \ {Top.current} /\ (closed => queue' = <<>>)
    BY RemovedFacts DEF Expire, Removed
  <1>5. QED
    BY <1>1, <1>2, <1>3, <1>4, SMTT(20)
       DEF EventsInv, ClosedQuiet, DepthTracks, Counters, Bounded, Settling, Expire, countVars

-----------------------------------------------------------------------------
(* The theorems *)

LEMMA InitInv ==
  ASSUME Init
  PROVE  EventsInv
  <1>1. (CHOOSE c \in Configs : TRUE) \in Configs
    BY ConfigAssumption
  <1>2. QED
    BY <1>1, EventBoundAssumption
       DEF Init, EventsInv, Alone, ClosedQuiet, DepthTracks, Counters, Bounded, IDs

LEMMA StepInv ==
  ASSUME EventsInv, [Next]_vars
  PROVE  EventsInv'
  <1>1. CASE Manage
    BY <1>1, RegisterKeeps, RemoveKeeps, SetMutedKeeps, SetConfigKeeps, CloseKeeps DEF Manage
  <1>2. CASE \E l \in IDs : RemoveExpired(l)
    BY <1>2, RemoveExpiredKeeps
  <1>3. CASE \E i \in DOMAIN queue : DebounceElapsed(i)
    BY <1>3, DebounceElapsedKeeps
  <1>4. CASE \E matching \in SUBSET eventsByID, force \in BOOLEAN : Trigger(matching, force)
    BY <1>4, TriggerKeeps
  <1>5. CASE \E force \in BOOLEAN : Drain(force)
    BY <1>5, DrainKeeps
  <1>6. CASE \E l \in IDs : Merge(l) \/ Enqueue(l) \/ DropNewest(l) \/ Reject(l)
    BY <1>6, MergeKeeps, EnqueueKeeps, DropNewestKeeps, RejectKeeps
  <1>7. CASE Claim \/ Skip \/ Take \/ Accept \/ Discard \/ End
    BY <1>7, ClaimKeeps, SkipKeeps, TakeKeeps, AcceptKeeps, DiscardKeeps, EndKeeps
  <1>8. CASE Start \/ (\E failed \in BOOLEAN : Return(failed)) \/ Finish \/ Expire
    BY <1>8, StartKeeps, ReturnKeeps, FinishKeeps, ExpireKeeps
  <1>9. CASE ResolveIgnore \/ ResolveMute \/ ResolveRemove \/ ResolvePropagate
    BY <1>9, ResolveIgnoreKeeps, ResolveMuteKeeps, ResolveRemoveKeeps, ResolvePropagateKeeps
  <1>10. CASE UNCHANGED vars
    BY <1>10 DEF vars, EventsInv, Alone, ClosedQuiet, DepthTracks, Counters, Bounded, Settling
  <1>11. QED
    BY <1>1, <1>2, <1>3, <1>4, <1>5, <1>6, <1>7, <1>8, <1>9, <1>10 DEF Next, Loops

\* In every reachable state the parts of the invariant hold together: one
\* activity at most, a depth that counts it, a closed registry that is empty.
THEOREM InvariantHolds == Spec => []EventsInv
  <1>1. Init => EventsInv
    BY InitInv
  <1>2. EventsInv /\ [Next]_vars => EventsInv'
    BY StepInv
  <1>3. QED
    BY <1>1, <1>2, PTL DEF Spec

\* Whatever a callback triggers, flushes or closes, no dispatch or drain
\* starts inside the one that called it.
THEOREM NoReentryHolds == Spec => []NoReentry
  <1>1. EventsInv => NoReentry
    <2>1. ASSUME NEW a, acts = <<a>> PROVE Len(acts) <= 1
      BY <2>1
    <2>2. ASSUME acts = <<>> PROVE Len(acts) <= 1
      BY <2>2
    <2>3. QED
      BY <2>1, <2>2 DEF EventsInv, Alone, NoReentry
  <1>2. QED
    BY <1>1, InvariantHolds, PTL

\* once and maxCalls hold for any number of listeners, any limit and any order
\* of triggers, drains, management calls and failures.
THEOREM RunsWithinLimitHolds == Spec => []RunsWithinLimit
  <1>1. EventsInv => RunsWithinLimit
    <2> SUFFICES ASSUME EventsInv, NEW l \in eventsByID \ expiring, options[l].limit > 0
                 PROVE  dispatchCount[l] + (IF InFlight(l) THEN 1 ELSE 0) <= options[l].limit
      BY DEF RunsWithinLimit
    <2>1. dispatchCount[l] \in Nat /\ options[l].limit \in Nat
      BY EventBoundAssumption, ConfigAssumption DEF EventsInv, Counters, IDs
    <2>2. CASE InFlight(l)
      <3>1. acts # <<>> /\ acts[1].phase \in {"claimed", "running"}
        <4>1. PICK k \in DOMAIN acts : acts[k].phase \in {"claimed", "running"}
          BY <2>2 DEF InFlight
        <4>2. ASSUME NEW a, acts = <<a>> PROVE k = 1
          BY <4>1, <4>2
        <4>3. QED
          BY <4>1, <4>2 DEF EventsInv, Alone
      <3>2. dispatchCount[l] < options[l].limit
        BY <3>1 DEF EventsInv, Bounded, Settling
      <3>3. QED
        BY <2>1, <2>2, <3>2
    <2>3. CASE ~InFlight(l)
      BY <2>1, <2>3 DEF EventsInv, Bounded
    <2>4. QED
      BY <2>2, <2>3
  <1>2. QED
    BY <1>1, InvariantHolds, PTL

-----------------------------------------------------------------------------
(* Counting *)

\* The elements of S at or below i.
Below(S, R, i) == {k \in S : <<k, i>> \in R}
Rank(S, R)     == [i \in S |-> Cardinality(Below(S, R, i))]

LEMMA UpTo ==
  ASSUME NEW n \in Nat
  PROVE  IsFiniteSet(1 .. n) /\ Cardinality(1 .. n) = n
  BY FS_Interval

\* In a finite set with a linear order, an element is known by its rank.
LEMMA Ranks ==
  ASSUME NEW S, IsFiniteSet(S), NEW R,
         \A i \in S : <<i, i>> \in R,
         \A i, j \in S : <<i, j>> \in R \/ <<j, i>> \in R,
         \A i, j \in S : <<i, j>> \in R /\ <<j, i>> \in R => i = j,
         \A i, j, k \in S : <<i, j>> \in R /\ <<j, k>> \in R => <<i, k>> \in R
  PROVE  /\ Rank(S, R) \in [S -> 1 .. Cardinality(S)]
         /\ \A n \in 1 .. Cardinality(S) : \E i \in S : Rank(S, R)[i] = n
         /\ \A i, j \in S : Rank(S, R)[i] = Rank(S, R)[j] => i = j
         /\ \A i, j \in S : Rank(S, R)[i] <= Rank(S, R)[j] <=> <<i, j>> \in R
  <1> DEFINE r == Rank(S, R)
  <1>1. \A i \in S : /\ IsFiniteSet(Below(S, R, i))
                     /\ Cardinality(Below(S, R, i)) \in 1 .. Cardinality(S)
    <2>1. SUFFICES ASSUME NEW i \in S
                   PROVE  /\ IsFiniteSet(Below(S, R, i))
                          /\ Cardinality(Below(S, R, i)) \in 1 .. Cardinality(S)
      OBVIOUS
    <2>2. Below(S, R, i) \in SUBSET S /\ i \in Below(S, R, i)
      BY DEF Below
    <2>3. /\ IsFiniteSet(Below(S, R, i))
          /\ Cardinality(Below(S, R, i)) <= Cardinality(S)
      BY <2>2, FS_Subset
    <2>4. /\ Cardinality(Below(S, R, i)) \in Nat
          /\ Cardinality(S) \in Nat
          /\ Cardinality(Below(S, R, i)) # 0
      BY <2>2, <2>3, FS_CardinalityType, FS_EmptySet
    <2>5. QED
      BY <2>3, <2>4
  <1>2. Cardinality(S) \in Nat
    BY FS_CardinalityType
  <1>3. r \in [S -> 1 .. Cardinality(S)]
    BY <1>1 DEF Rank
  <1>4. \A i, j \in S : <<i, j>> \in R => r[i] <= r[j] /\ (r[i] = r[j] => i = j)
    <2>1. SUFFICES ASSUME NEW i \in S, NEW j \in S, <<i, j>> \in R
                   PROVE  r[i] <= r[j] /\ (r[i] = r[j] => i = j)
      OBVIOUS
    <2>2. Below(S, R, i) \in SUBSET Below(S, R, j)
      BY <2>1 DEF Below
    <2>3. /\ Cardinality(Below(S, R, i)) <= Cardinality(Below(S, R, j))
          /\ Cardinality(Below(S, R, j)) = Cardinality(Below(S, R, i))
               => Below(S, R, j) = Below(S, R, i)
      BY <1>1, <2>2, FS_Subset
    <2>4. Below(S, R, j) = Below(S, R, i) => i = j
      BY <2>1 DEF Below
    <2>5. QED
      BY <2>3, <2>4 DEF Rank
  <1>5. \A i, j \in S : r[i] = r[j] => i = j
    BY <1>4
  <1>6. r \in Injection(S, 1 .. Cardinality(S))
    BY <1>3, <1>5, Fun_IsInj
  <1>7. /\ IsFiniteSet(1 .. Cardinality(S))
        /\ Cardinality(1 .. Cardinality(S)) = Cardinality(S)
    BY <1>2, UpTo
  <1>8. r \in Surjection(S, 1 .. Cardinality(S))
    BY <1>6, <1>7, FS_Injection
  <1>9. \A n \in 1 .. Cardinality(S) : \E i \in S : r[i] = n
    BY <1>8, Fun_SurjectionProperties
  <1>10. \A i, j \in S : r[i] <= r[j] => <<i, j>> \in R
    <2>1. SUFFICES ASSUME NEW i \in S, NEW j \in S, r[i] <= r[j], <<i, j>> \notin R
                   PROVE  FALSE
      OBVIOUS
    <2>2. r[j] \in 1 .. Cardinality(S) /\ r[i] \in 1 .. Cardinality(S)
      BY <1>3
    <2>3. i = j
      <3>1. <<j, i>> \in R
        BY <2>1
      <3>2. r[j] <= r[i]
        BY <1>4, <3>1
      <3>3. r[j] = r[i]
        BY <1>2, <2>1, <2>2, <3>2
      <3>4. QED
        BY <1>5, <3>3
    <2>4. QED
      BY <2>1, <2>3
  <1>11. QED
    BY <1>3, <1>4, <1>5, <1>9, <1>10

\* Two finite sets have as many elements if each has its partner.
LEMMA SameSize ==
  ASSUME NEW S, NEW T, IsFiniteSet(S), NEW f, f \in Bijection(S, T)
  PROVE  IsFiniteSet(T) /\ Cardinality(T) = Cardinality(S)
  BY FS_Bijection DEF ExistsBijection

\* g enumerates I as Kept does.
Enumerates(g, q, I) ==
  /\ g \in [1 .. Cardinality(I) -> I]
  /\ \A i \in I : \E j \in 1 .. Cardinality(I) : g[j] = i
  /\ \A j, k \in 1 .. Cardinality(I) : g[j] = g[k] => j = k
  /\ \A j \in 1 .. Cardinality(I) : Kept(q, I)[j] = q[g[j]]
  /\ \A j, k \in 1 .. Cardinality(I) : g[j] <= g[k] => j <= k

\* Kept lists the tasks at I, each once and in their order.
LEMMA KeptFacts ==
  ASSUME NEW S, NEW q \in Seq(S), NEW I \in SUBSET DOMAIN q
  PROVE  /\ IsFiniteSet(I) /\ Cardinality(I) \in Nat
         /\ Cardinality(I) <= Len(q)
         /\ Kept(q, I) \in Seq(S)
         /\ Len(Kept(q, I)) = Cardinality(I)
         /\ \E g : Enumerates(g, q, I)
  <1> DEFINE R == {p \in Nat \X Nat : p[1] <= p[2]}
             n == Cardinality(I)
             r == Rank(I, R)
             g == [j \in 1 .. n |-> CHOOSE i \in I : Cardinality({k \in I : k <= i}) = j]
  <1>1. DOMAIN q = 1 .. Len(q) /\ Len(q) \in Nat
    OBVIOUS
  <1>2. /\ IsFiniteSet(I)
        /\ Cardinality(I) <= Len(q)
    <2>1. IsFiniteSet(1 .. Len(q)) /\ Cardinality(1 .. Len(q)) = Len(q)
      BY <1>1, UpTo
    <2>2. QED
      BY <1>1, <2>1, FS_Subset
  <1>3. n \in Nat
    BY <1>2, FS_CardinalityType
  <1>4. I \in SUBSET Nat
    BY <1>1
  <1>5. /\ \A i, j \in I : <<i, j>> \in R <=> i <= j
        /\ \A i \in I : {k \in I : k <= i} = Below(I, R, i)
    BY <1>4 DEF Below
  <1>6. /\ r \in [I -> 1 .. n]
        /\ \A j \in 1 .. n : \E i \in I : r[i] = j
        /\ \A i, j \in I : r[i] = r[j] => i = j
        /\ \A i, j \in I : r[i] <= r[j] <=> <<i, j>> \in R
    <2>1. /\ \A i \in I : <<i, i>> \in R
          /\ \A i, j \in I : <<i, j>> \in R \/ <<j, i>> \in R
          /\ \A i, j \in I : <<i, j>> \in R /\ <<j, i>> \in R => i = j
          /\ \A i, j, k \in I : <<i, j>> \in R /\ <<j, k>> \in R => <<i, k>> \in R
      BY <1>4, <1>5
    <2> HIDE DEF R
    <2>2. QED
      BY <1>2, <2>1, Ranks
  <1>7. \A i \in I : r[i] = Cardinality({k \in I : k <= i})
    BY <1>5 DEF Rank
  <1> HIDE DEF R, r
  <1>9. \A j \in 1 .. n : g[j] \in I /\ r[g[j]] = j
    <2>1. SUFFICES ASSUME NEW j \in 1 .. n PROVE g[j] \in I /\ r[g[j]] = j
      OBVIOUS
    <2>2. \E i \in I : Cardinality({k \in I : k <= i}) = j
      BY <1>7, <1>6
    <2>3. /\ g[j] \in I
          /\ Cardinality({k \in I : k <= g[j]}) = j
      BY <2>2
    <2>4. QED
      BY <1>7, <2>3
  <1>10. g \in [1 .. n -> I]
    BY <1>9
  <1>11. \A i \in I : g[r[i]] = i
    <2>1. SUFFICES ASSUME NEW i \in I PROVE g[r[i]] = i
      OBVIOUS
    <2>2. r[i] \in 1 .. n
      BY <1>6
    <2>3. g[r[i]] \in I /\ r[g[r[i]]] = r[i]
      BY <1>9, <2>2
    <2>4. QED
      BY <1>6, <2>3
  <1> HIDE DEF g
  <1>12. /\ \A j, k \in 1 .. n : g[j] = g[k] => j = k
         /\ \A i \in I : \E j \in 1 .. n : g[j] = i
    BY <1>6, <1>9, <1>11
  <1>13. \A j, k \in 1 .. n : g[j] <= g[k] => j <= k
    <2>1. SUFFICES ASSUME NEW j \in 1 .. n, NEW k \in 1 .. n, g[j] <= g[k] PROVE j <= k
      OBVIOUS
    <2>2. g[j] \in I /\ g[k] \in I /\ r[g[j]] = j /\ r[g[k]] = k
      BY <1>9
    <2>3. <<g[j], g[k]>> \in R
      BY <1>5, <2>1, <2>2
    <2>4. r[g[j]] <= r[g[k]]
      BY <1>6, <2>2, <2>3
    <2>5. QED
      BY <2>2, <2>4
  <1>14. Kept(q, I) = [j \in 1 .. n |-> q[g[j]]]
    BY DEF Kept, g
  <1>15. /\ Kept(q, I) \in Seq(S)
         /\ Len(Kept(q, I)) = n
         /\ \A j \in 1 .. n : Kept(q, I)[j] = q[g[j]]
    <2>1. \A j \in 1 .. n : q[g[j]] \in S
      BY <1>1, <1>9
    <2>2. QED
      BY <1>3, <1>14, <2>1
  <1>16. Enumerates(g, q, I)
    BY <1>10, <1>12, <1>13, <1>15 DEF Enumerates
  <1>17. QED
    BY <1>2, <1>3, <1>15, <1>16

\* Of the indices I of q, those of the tasks in X.
Where(q, I, X) == {i \in I : q[i] \in X}

\* How many tasks of a kind Kept lists.
LEMMA KeptCount ==
  ASSUME NEW S, NEW q \in Seq(S), NEW I \in SUBSET DOMAIN q, NEW X
  PROVE  Cardinality(Where(Kept(q, I), DOMAIN Kept(q, I), X)) = Cardinality(Where(q, I, X))
  <1>1. /\ IsFiniteSet(I) /\ Cardinality(I) \in Nat
        /\ Kept(q, I) \in Seq(S)
        /\ Len(Kept(q, I)) = Cardinality(I)
    BY KeptFacts
  <1>2. PICK g : Enumerates(g, q, I)
    BY KeptFacts
  <1>4. DOMAIN Kept(q, I) = 1 .. Cardinality(I)
    BY <1>1
  <1> DEFINE A == {j \in DOMAIN Kept(q, I) : Kept(q, I)[j] \in X}
             B == {i \in I : q[i] \in X}
             f == [j \in A |-> g[j]]
  <1>5. f \in [A -> B]
    BY <1>2, <1>4 DEF Enumerates
  <1>6. \A j, k \in A : f[j] = f[k] => j = k
    BY <1>2, <1>4 DEF Enumerates
  <1>7. \A i \in B : \E j \in A : f[j] = i
    BY <1>2, <1>4 DEF Enumerates
  <1>8. f \in Bijection(A, B)
    BY <1>5, <1>6, <1>7, Fun_IsBij
  <1>9. IsFiniteSet(A)
    <2>1. IsFiniteSet(1 .. Cardinality(I))
      BY <1>1, UpTo
    <2>2. A \in SUBSET (1 .. Cardinality(I))
      BY <1>4
    <2>3. QED
      BY <2>1, <2>2, FS_Subset
  <1> HIDE DEF A, B, f
  <1>10. Cardinality(B) = Cardinality(A)
    BY <1>8, <1>9, SameSize
  <1>11. QED
    BY <1>10 DEF A, B, Where

-----------------------------------------------------------------------------
(* The invariant *)

TasksUpTo(n) == [callback : 1 .. n, due : BOOLEAN]

TasksIn(q, l) == {i \in DOMAIN q : q[i].callback = l}
Pending(q, l) == Cardinality(TasksIn(q, l))

\* The tasks of a drain's batch that are still to be looked at.
Rest(a) == IF a.phase = "next" THEN a.todo ELSE Tail(a.todo)

\* What ClaimsMatch and QueuedMayRun count of the one activity in s.
InBatch(s, l) ==
  IF s # <<>> /\ s[1].work = "drain" THEN Waiting(Rest(s[1]), l) ELSE 0
InProgress(s, l) ==
  IF s # <<>> /\ s[1].current = l /\ s[1].phase \in {"claimed", "running", "returned"}
    THEN 1 ELSE 0
InRun(s, l) ==
  IF s # <<>> /\ s[1].current = l /\ s[1].phase \in {"claimed", "running"}
    THEN 1 ELSE 0

\* The claims of a listener, and the runs it had, has and may still have.
Held(l) == Pending(queue, l) + InBatch(acts, l) + InProgress(acts, l) + abandoned[l]
Used(l) == dispatchCount[l] + InRun(acts, l) + Pending(queue, l) + InBatch(acts, l)

\* The types that neither EventsInv nor the parts below have.
Typed ==
  /\ muted \subseteq eventsByID
  /\ async \in [IDs -> BOOLEAN]
  /\ reservedCount \in [IDs -> Nat]
  /\ expiring \subseteq IDs
  /\ closed \in BOOLEAN
  /\ abandoned \in [IDs -> Nat]
  /\ acts # <<>> => acts[1] \in Acts

\* Whatever a task or an activity is for was registered: it may outlive its
\* listener, but it is not of a listener to come.
Known ==
  /\ queue \in Seq(TasksUpTo(nextID))
  /\ acts # <<>> => acts[1].todo \in Seq(1 .. nextID)
  /\ \A l \in IDs : l > nextID => reservedCount[l] = 0 /\ abandoned[l] = 0

\* The queue, and so a batch taken from it, keeps to the State's limit, and an
\* activity that has picked a listener has it in front of its list.
Limited ==
  /\ Len(queue) <= MaxQueuedTasks
  /\ acts # <<>> /\ acts[1].work = "drain" => Len(acts[1].todo) <= MaxQueuedTasks
  /\ acts # <<>> /\ acts[1].phase # "next" => acts[1].todo # <<>>

\* Close resets the depth, a callback that was running then takes one off.
DepthAfterClose ==
  closed => /\ dispatchDepth \in {-1, 0}
            /\ acts # <<>> /\ acts[1].phase = "running" => dispatchDepth = 0

Balanced == \A l \in eventsByID : reservedCount[l] = Held(l)

RunsLeft ==
  \A l \in eventsByID \ expiring :
    options[l].limit > 0 /\ Pending(queue, l) > 0 => Used(l) <= options[l].limit

\* A task whose debounce time runs is the oldest of its listener.
OldestFirst(q) ==
  \A i, k \in DOMAIN q : q[i].callback = q[k].callback /\ ~q[i].due => i <= k

QueueInv ==
  Typed /\ Known /\ Limited /\ DepthAfterClose /\ Balanced /\ RunsLeft /\ OldestFirst(queue)

-----------------------------------------------------------------------------
(* The tasks of a listener *)

LEMMA PendingFacts ==
  ASSUME NEW n \in Nat, NEW q \in Seq(TasksUpTo(n)), NEW l
  PROVE  /\ IsFiniteSet(TasksIn(q, l))
         /\ Pending(q, l) \in Nat
         /\ Pending(q, l) > 0 <=> TasksIn(q, l) # {}
         /\ Pending(q, l) > 0 => l \in 1 .. n
  <1>1. /\ DOMAIN q = 1 .. Len(q) /\ Len(q) \in Nat
        /\ \A i \in DOMAIN q : q[i] \in TasksUpTo(n)
    OBVIOUS
  <1>2. IsFiniteSet(1 .. Len(q))
    BY <1>1, UpTo
  <1>3. TasksIn(q, l) \in SUBSET (1 .. Len(q))
    BY <1>1 DEF TasksIn
  <1>4. IsFiniteSet(TasksIn(q, l))
    BY <1>2, <1>3, FS_Subset
  <1>5. /\ Pending(q, l) \in Nat
        /\ Pending(q, l) = 0 <=> TasksIn(q, l) = {}
    BY <1>4, FS_CardinalityType, FS_EmptySet DEF Pending
  <1>6. TasksIn(q, l) # {} => l \in 1 .. n
    BY <1>1 DEF TasksIn, TasksUpTo
  <1>7. QED
    BY <1>4, <1>5, <1>6

LEMMA NonePending == \A l : Pending(<<>>, l) = 0
  <1>1. \A l : TasksIn(<<>>, l) = {}
    BY DEF TasksIn
  <1>2. QED
    BY <1>1, FS_EmptySet DEF Pending

\* A new task counts for its own listener.
LEMMA AppendFacts ==
  ASSUME NEW n \in Nat, NEW q \in Seq(TasksUpTo(n)), NEW t \in TasksUpTo(n)
  PROVE  /\ Append(q, t) \in Seq(TasksUpTo(n))
         /\ Len(Append(q, t)) = Len(q) + 1
         /\ \A l : Pending(Append(q, t), l)
                     = IF t.callback = l THEN Pending(q, l) + 1 ELSE Pending(q, l)
         /\ OldestFirst(q) /\ (t.due \/ Pending(q, t.callback) = 0)
              => OldestFirst(Append(q, t))
  <1>1. /\ DOMAIN q = 1 .. Len(q) /\ Len(q) \in Nat
        /\ DOMAIN Append(q, t) = 1 .. Len(q) + 1
        /\ \A i \in 1 .. Len(q) : Append(q, t)[i] = q[i]
        /\ Append(q, t)[Len(q) + 1] = t
    OBVIOUS
  <1>2. ASSUME NEW l
        PROVE  Pending(Append(q, t), l)
                 = IF t.callback = l THEN Pending(q, l) + 1 ELSE Pending(q, l)
    <2>1. IsFiniteSet(TasksIn(q, l)) /\ Len(q) + 1 \notin TasksIn(q, l)
      <3>1. IsFiniteSet(TasksIn(q, l))
        BY PendingFacts
      <3>2. Len(q) + 1 \notin TasksIn(q, l)
        BY <1>1 DEF TasksIn
      <3>3. QED
        BY <3>1, <3>2
    <2>2. CASE t.callback = l
      <3>1. TasksIn(Append(q, t), l) = TasksIn(q, l) \cup {Len(q) + 1}
        BY <1>1, <2>2 DEF TasksIn
      <3>2. QED
        BY <2>1, <2>2, <3>1, FS_AddElement DEF Pending
    <2>3. CASE t.callback # l
      <3>1. TasksIn(Append(q, t), l) = TasksIn(q, l)
        BY <1>1, <2>3 DEF TasksIn
      <3>2. QED
        BY <2>3, <3>1 DEF Pending
    <2>4. QED
      BY <2>2, <2>3
  <1>3. ASSUME OldestFirst(q), t.due \/ Pending(q, t.callback) = 0
        PROVE  OldestFirst(Append(q, t))
    <2>1. t.due \/ TasksIn(q, t.callback) = {}
      <3>1. /\ Pending(q, t.callback) \in Nat
            /\ Pending(q, t.callback) > 0 <=> TasksIn(q, t.callback) # {}
        BY PendingFacts
      <3>2. QED
        BY <1>3, <3>1
    <2>2. \A i \in 1 .. Len(q) : t.due \/ q[i].callback # t.callback
      BY <1>1, <2>1 DEF TasksIn
    <2>3. QED
      BY <1>1, <1>3, <2>2 DEF OldestFirst
  <1>4. QED
    BY <1>1, <1>2, <1>3

\* What stays in the queue keeps its order, and counts as it did.
LEMMA KeptTasks ==
  ASSUME NEW n \in Nat, NEW q \in Seq(TasksUpTo(n)), NEW I \in SUBSET DOMAIN q
  PROVE  /\ Kept(q, I) \in Seq(TasksUpTo(n))
         /\ Len(Kept(q, I)) <= Len(q)
         /\ \A l : Pending(Kept(q, I), l) = Cardinality(TasksIn(q, l) \cap I)
         /\ OldestFirst(q) => OldestFirst(Kept(q, I))
  <1> DEFINE m == Cardinality(I)
  <1>1. /\ m \in Nat /\ m <= Len(q)
        /\ Kept(q, I) \in Seq(TasksUpTo(n))
        /\ Len(Kept(q, I)) = m
    BY KeptFacts
  <1>2. PICK g : Enumerates(g, q, I)
    BY KeptFacts
  <1>3. DOMAIN Kept(q, I) = 1 .. m
    BY <1>1
  <1>4. ASSUME NEW l
        PROVE  Pending(Kept(q, I), l) = Cardinality(TasksIn(q, l) \cap I)
    <2> DEFINE X == {t \in TasksUpTo(n) : t.callback = l}
    <2>1. TasksIn(Kept(q, I), l) = Where(Kept(q, I), DOMAIN Kept(q, I), X)
      <3>1. \A j \in DOMAIN Kept(q, I) : Kept(q, I)[j] \in TasksUpTo(n)
        BY <1>1
      <3>2. QED
        BY <3>1 DEF TasksIn, Where
    <2>2. TasksIn(q, l) \cap I = Where(q, I, X)
      <3>1. \A i \in DOMAIN q : q[i] \in TasksUpTo(n)
        OBVIOUS
      <3>2. QED
        BY <3>1 DEF TasksIn, Where
    <2> HIDE DEF X
    <2>3. Cardinality(Where(Kept(q, I), DOMAIN Kept(q, I), X)) = Cardinality(Where(q, I, X))
      BY KeptCount
    <2>4. QED
      BY <2>1, <2>2, <2>3 DEF Pending
  <1>5. ASSUME OldestFirst(q) PROVE OldestFirst(Kept(q, I))
    <2>1. SUFFICES ASSUME NEW j \in 1 .. m, NEW k \in 1 .. m,
                          Kept(q, I)[j].callback = Kept(q, I)[k].callback,
                          ~Kept(q, I)[j].due
                   PROVE  j <= k
      BY <1>3 DEF OldestFirst
    <2>2. /\ g[j] \in DOMAIN q /\ g[k] \in DOMAIN q
          /\ Kept(q, I)[j] = q[g[j]] /\ Kept(q, I)[k] = q[g[k]]
          /\ g[j] <= g[k] => j <= k
      BY <1>2 DEF Enumerates
    <2>3. QED
      BY <1>5, <2>1, <2>2 DEF OldestFirst
  <1>6. QED
    BY <1>1, <1>4, <1>5

\* A part of the queue and the rest of it have its tasks between them.
LEMMA PartTasks ==
  ASSUME NEW n \in Nat, NEW q \in Seq(TasksUpTo(n)), NEW I \in SUBSET DOMAIN q, NEW l
  PROVE  Pending(Kept(q, DOMAIN q \ I), l) = Pending(q, l) - Pending(Kept(q, I), l)
  <1> DEFINE T == TasksIn(q, l)
  <1>1. IsFiniteSet(T)
    BY PendingFacts
  <1>2. DOMAIN q \ I \in SUBSET DOMAIN q
    OBVIOUS
  <1>3. /\ Pending(Kept(q, I), l) = Cardinality(T \cap I)
        /\ Pending(Kept(q, DOMAIN q \ I), l) = Cardinality(T \cap (DOMAIN q \ I))
    BY <1>2, KeptTasks
  <1>4. T \cap (DOMAIN q \ I) = T \ I
    BY DEF TasksIn
  <1>5. Cardinality(T \ I) = Cardinality(T) - Cardinality(T \cap I)
    BY <1>1, FS_Difference
  <1>6. QED
    BY <1>3, <1>4, <1>5 DEF Pending

\* Without some of the tasks of l.
OfListener(gone, q, l) == gone \subseteq TasksIn(q, l)
OthersStay(q, r, l)    == \A k : k # l => Pending(r, k) = Pending(q, k)

LEMMA WithoutTasks ==
  ASSUME NEW n \in Nat, NEW q \in Seq(TasksUpTo(n)), NEW l,
         NEW gone, OfListener(gone, q, l)
  PROVE  /\ Kept(q, DOMAIN q \ gone) \in Seq(TasksUpTo(n))
         /\ Len(Kept(q, DOMAIN q \ gone)) <= Len(q)
         /\ IsFiniteSet(gone) /\ Cardinality(gone) \in Nat
         /\ Cardinality(gone) <= Pending(q, l)
         /\ Pending(Kept(q, DOMAIN q \ gone), l) = Pending(q, l) - Cardinality(gone)
         /\ OthersStay(q, Kept(q, DOMAIN q \ gone), l)
         /\ OldestFirst(q) => OldestFirst(Kept(q, DOMAIN q \ gone))
  <1>1. /\ gone \in SUBSET TasksIn(q, l) /\ gone \in SUBSET DOMAIN q
        /\ DOMAIN q \ gone \in SUBSET DOMAIN q
    BY DEF OfListener, TasksIn
  <1>2. /\ IsFiniteSet(gone)
        /\ Cardinality(gone) <= Cardinality(TasksIn(q, l))
    BY <1>1, PendingFacts, FS_Subset
  <1>3. Cardinality(gone) \in Nat
    BY <1>2, FS_CardinalityType
  <1>4. /\ TasksIn(q, l) \cap gone = gone
        /\ \A k : k # l => TasksIn(q, k) \cap gone = {}
    BY <1>1 DEF TasksIn
  <1>5. \A k : Pending(Kept(q, gone), k) = Cardinality(TasksIn(q, k) \cap gone)
    BY <1>1, KeptTasks
  <1>6. \A k : Pending(Kept(q, DOMAIN q \ gone), k) = Pending(q, k) - Pending(Kept(q, gone), k)
    BY <1>1, PartTasks
  <1>7. Pending(Kept(q, DOMAIN q \ gone), l) = Pending(q, l) - Cardinality(gone)
    BY <1>4, <1>5, <1>6
  <1>8. ASSUME NEW k, k # l
        PROVE  Pending(Kept(q, DOMAIN q \ gone), k) = Pending(q, k)
    <2>1. Pending(Kept(q, gone), k) = 0
      BY <1>4, <1>5, <1>8, FS_EmptySet
    <2>2. Pending(q, k) \in Nat
      BY PendingFacts
    <2>3. Pending(Kept(q, DOMAIN q \ gone), k) = Pending(q, k) - Pending(Kept(q, gone), k)
      BY <1>6
    <2>4. QED
      BY <2>1, <2>2, <2>3
  <1>9. /\ Kept(q, DOMAIN q \ gone) \in Seq(TasksUpTo(n))
        /\ Len(Kept(q, DOMAIN q \ gone)) <= Len(q)
        /\ OldestFirst(q) => OldestFirst(Kept(q, DOMAIN q \ gone))
    BY <1>1, KeptTasks
  <1>10. QED
    BY <1>2, <1>3, <1>7, <1>8, <1>9 DEF Pending, OthersStay

\* Without any of them.
LEMMA WithoutListener ==
  ASSUME NEW n \in Nat, NEW q \in Seq(TasksUpTo(n)), NEW l
  PROVE  Pending(Kept(q, DOMAIN q \ TasksIn(q, l)), l) = 0
  <1> DEFINE I == DOMAIN q \ TasksIn(q, l)
  <1>1. I \in SUBSET DOMAIN q /\ TasksIn(q, l) \cap I = {}
    OBVIOUS
  <1> HIDE DEF I
  <1>2. Pending(Kept(q, I), l) = Cardinality(TasksIn(q, l) \cap I)
    BY <1>1, KeptTasks
  <1>3. QED
    BY <1>1, <1>2, FS_EmptySet DEF I

\* The clock of one task.
LEMMA DueFacts ==
  ASSUME NEW n \in Nat, NEW q \in Seq(TasksUpTo(n)), NEW i \in DOMAIN q, NEW b \in BOOLEAN
  PROVE  /\ [q EXCEPT ![i].due = b] \in Seq(TasksUpTo(n))
         /\ Len([q EXCEPT ![i].due = b]) = Len(q)
         /\ \A l : Pending([q EXCEPT ![i].due = b], l) = Pending(q, l)
         /\ OldestFirst(q) /\ (b \/ \A k \in TasksIn(q, q[i].callback) : i <= k)
              => OldestFirst([q EXCEPT ![i].due = b])
  <1> DEFINE r == [q EXCEPT ![i].due = b]
  <1>1. /\ DOMAIN q = 1 .. Len(q) /\ Len(q) \in Nat
        /\ DOMAIN r = DOMAIN q
        /\ \A k \in DOMAIN q : q[k] \in TasksUpTo(n)
        /\ \A k \in DOMAIN q : r[k] = IF k = i THEN [q[i] EXCEPT !.due = b] ELSE q[k]
    OBVIOUS
  <1>2. /\ \A k \in DOMAIN q : r[k] \in TasksUpTo(n) /\ r[k].callback = q[k].callback
        /\ \A k \in DOMAIN q : k # i => r[k].due = q[k].due
        /\ r[i].due = b
    BY <1>1 DEF TasksUpTo
  <1>3. r \in Seq(TasksUpTo(n)) /\ Len(r) = Len(q)
    BY <1>1, <1>2
  <1> HIDE DEF r
  <1>4. \A l : TasksIn(r, l) = TasksIn(q, l)
    BY <1>1, <1>2 DEF TasksIn
  <1>5. ASSUME OldestFirst(q), b \/ \A k \in TasksIn(q, q[i].callback) : i <= k
        PROVE  OldestFirst(r)
    <2>1. SUFFICES ASSUME NEW j \in DOMAIN q, NEW k \in DOMAIN q,
                          q[j].callback = q[k].callback, ~r[j].due
                   PROVE  j <= k
      BY <1>1, <1>2 DEF OldestFirst
    <2>2. CASE j = i
      BY <1>2, <1>5, <2>1, <2>2 DEF TasksIn
    <2>3. CASE j # i
      BY <1>2, <1>5, <2>1, <2>3 DEF OldestFirst
    <2>4. QED
      BY <2>2, <2>3
  <1>6. QED
    BY <1>3, <1>4, <1>5 DEF r, Pending

\* The oldest task of a listener, that a new one joins or replaces.
LEMMA OldestFacts ==
  ASSUME NEW n \in Nat, queue \in Seq(TasksUpTo(n)), NEW l, TasksOf(l) # {}
  PROVE  Oldest(l) \in TasksOf(l) /\ \A k \in TasksOf(l) : Oldest(l) <= k
  <1> DEFINE R == {p \in Nat \X Nat : p[1] <= p[2]}
             T == TasksOf(l)
  <1>1. T = TasksIn(queue, l) /\ IsFiniteSet(T)
    BY PendingFacts DEF TasksOf, TasksIn
  <1>2. T \in SUBSET Nat
    BY DEF TasksOf
  <1>3. \A i, j \in T : <<i, j>> \in R <=> i <= j
    BY <1>2
  <1>4. /\ Rank(T, R) \in [T -> 1 .. Cardinality(T)]
        /\ \A m \in 1 .. Cardinality(T) : \E i \in T : Rank(T, R)[i] = m
        /\ \A i, j \in T : Rank(T, R)[i] <= Rank(T, R)[j] <=> <<i, j>> \in R
    <2>1. /\ \A i \in T : <<i, i>> \in R
          /\ \A i, j \in T : <<i, j>> \in R \/ <<j, i>> \in R
          /\ \A i, j \in T : <<i, j>> \in R /\ <<j, i>> \in R => i = j
          /\ \A i, j, k \in T : <<i, j>> \in R /\ <<j, k>> \in R => <<i, k>> \in R
      BY <1>2, <1>3
    <2> HIDE DEF R, T
    <2>2. QED
      BY <1>1, <2>1, Ranks
  <1> HIDE DEF R
  <1>5. Cardinality(T) \in Nat /\ Cardinality(T) # 0
    BY <1>1, FS_CardinalityType, FS_EmptySet
  <1>6. PICK i \in T : Rank(T, R)[i] = 1
    BY <1>4, <1>5
  <1>7. \A k \in T : i <= k
    <2>1. SUFFICES ASSUME NEW k \in T PROVE i <= k
      OBVIOUS
    <2>2. Rank(T, R)[k] \in 1 .. Cardinality(T)
      BY <1>4
    <2>3. <<i, k>> \in R
      BY <1>4, <1>6, <2>2
    <2>4. QED
      BY <1>3, <2>3
  <1>8. QED
    BY <1>7 DEF Oldest

\* A trim of n takes n tasks if there are so many.
LEMMA NewestFacts ==
  ASSUME NEW n \in Nat, queue \in Seq(TasksUpTo(n)), NEW l, NEW m \in Nat
  PROVE  /\ Newest(l, m) \in SUBSET TasksIn(queue, l)
         /\ Cardinality(Newest(l, m)) = IF Pending(queue, l) <= m THEN Pending(queue, l) ELSE m
  <1> DEFINE R == {p \in Nat \X Nat : p[1] >= p[2]}
             T == TasksIn(queue, l)
             c == Cardinality(T)
  <1>1. T = TasksOf(l) /\ IsFiniteSet(T)
    BY PendingFacts DEF TasksOf, TasksIn
  <1>2. T \in SUBSET Nat
    BY DEF TasksIn
  <1>3. /\ \A i, j \in T : <<i, j>> \in R <=> i >= j
        /\ \A i \in T : {k \in T : k >= i} = Below(T, R, i)
    BY <1>2 DEF Below
  <1>4. /\ Rank(T, R) \in [T -> 1 .. c]
        /\ \A k \in 1 .. c : \E i \in T : Rank(T, R)[i] = k
        /\ \A i, j \in T : Rank(T, R)[i] = Rank(T, R)[j] => i = j
    <2>1. /\ \A i \in T : <<i, i>> \in R
          /\ \A i, j \in T : <<i, j>> \in R \/ <<j, i>> \in R
          /\ \A i, j \in T : <<i, j>> \in R /\ <<j, i>> \in R => i = j
          /\ \A i, j, k \in T : <<i, j>> \in R /\ <<j, k>> \in R => <<i, k>> \in R
      BY <1>2, <1>3
    <2> HIDE DEF R, T
    <2>2. QED
      BY <1>1, <2>1, Ranks
  <1>5. \A i \in T : Rank(T, R)[i] = Cardinality({k \in T : k >= i})
    BY <1>3 DEF Rank
  <1> HIDE DEF R
  <1>6. Newest(l, m) = {i \in T : Rank(T, R)[i] <= m}
    BY <1>1, <1>5 DEF Newest
  <1>7. c \in Nat
    BY <1>1, FS_CardinalityType
  <1>8. CASE c <= m
    <2>1. Newest(l, m) = T
      <3>1. \A i \in T : Rank(T, R)[i] <= m
        BY <1>4, <1>7, <1>8
      <3>2. QED
        BY <1>6, <3>1
    <2>2. QED
      BY <1>8, <2>1 DEF Pending
  <1>9. CASE m < c
    <2> DEFINE f == [i \in Newest(l, m) |-> Rank(T, R)[i]]
    <2>1. /\ f \in [Newest(l, m) -> 1 .. m]
          /\ \A i, j \in Newest(l, m) : f[i] = f[j] => i = j
          /\ \A k \in 1 .. m : \E i \in Newest(l, m) : f[i] = k
      BY <1>4, <1>6, <1>7, <1>9
    <2>2. f \in Bijection(Newest(l, m), 1 .. m)
      BY <2>1, Fun_IsBij
    <2>3. IsFiniteSet(Newest(l, m))
      BY <1>1, <1>6, FS_Subset
    <2>4. Cardinality(1 .. m) = m
      BY UpTo
    <2> HIDE DEF f
    <2>5. Cardinality(1 .. m) = Cardinality(Newest(l, m))
      BY <2>2, <2>3, SameSize
    <2>6. Cardinality(Newest(l, m)) = m /\ Pending(queue, l) = c
      BY <2>4, <2>5 DEF Pending
    <2>7. QED
      BY <1>6, <1>7, <1>9, <2>6
  <1>10. QED
    BY <1>7, <1>8, <1>9

\* The tasks of l in a batch.
Places(todo, l) == {i \in DOMAIN todo : todo[i] = l}

LEMMA NoneWaiting == \A l : Waiting(<<>>, l) = 0
  <1>1. \A l : Places(<<>>, l) = {}
    BY DEF Places
  <1>2. QED
    BY <1>1, FS_EmptySet DEF Waiting, Places

LEMMA WaitingFacts ==
  ASSUME NEW n \in Nat, NEW todo \in Seq(1 .. n), NEW l
  PROVE  /\ Waiting(todo, l) \in Nat
         /\ Waiting(todo, l) > 0 => l \in 1 .. n
  <1>1. DOMAIN todo = 1 .. Len(todo) /\ Len(todo) \in Nat /\ \A i \in DOMAIN todo : todo[i] \in 1 .. n
    OBVIOUS
  <1>2. IsFiniteSet(1 .. Len(todo)) /\ Places(todo, l) \in SUBSET (1 .. Len(todo))
    BY <1>1, UpTo DEF Places
  <1>3. IsFiniteSet(Places(todo, l))
    BY <1>2, FS_Subset
  <1>4. /\ Cardinality(Places(todo, l)) \in Nat
        /\ Cardinality(Places(todo, l)) = 0 <=> Places(todo, l) = {}
    BY <1>3, FS_CardinalityType, FS_EmptySet
  <1>5. Places(todo, l) # {} => l \in 1 .. n
    BY <1>1 DEF Places
  <1>6. Waiting(todo, l) = Cardinality(Places(todo, l))
    BY DEF Waiting, Places
  <1>7. QED
    BY <1>4, <1>5, <1>6

LEMMA TailFacts ==
  ASSUME NEW n \in Nat, NEW todo \in Seq(1 .. n), todo # <<>>
  PROVE  /\ Head(todo) \in 1 .. n
         /\ Tail(todo) \in Seq(1 .. n)
         /\ Len(Tail(todo)) <= Len(todo)
         /\ \A l : Waiting(todo, l)
                     = IF Head(todo) = l THEN Waiting(Tail(todo), l) + 1
                                         ELSE Waiting(Tail(todo), l)
  <1> DEFINE t == Tail(todo)
  <1>1. /\ Head(todo) = todo[1] /\ Head(todo) \in 1 .. n
        /\ t \in Seq(1 .. n)
        /\ Len(todo) \in Nat /\ Len(t) = Len(todo) - 1 /\ Len(t) \in Nat
        /\ DOMAIN todo = 1 .. Len(todo) /\ DOMAIN t = 1 .. Len(t)
        /\ \A i \in 1 .. Len(t) : t[i] = todo[i + 1]
    OBVIOUS
  <1> HIDE DEF t
  <1>2. ASSUME NEW l
        PROVE  Waiting(todo, l) = IF Head(todo) = l THEN Waiting(t, l) + 1 ELSE Waiting(t, l)
    <2> DEFINE A == Places(t, l)
               B == Places(todo, l) \ {1}
               f == [i \in A |-> i + 1]
    <2>1. /\ f \in [A -> B]
          /\ \A i, j \in A : f[i] = f[j] => i = j
          /\ \A k \in B : \E i \in A : f[i] = k
      <3>1. A \in SUBSET Nat
        BY <1>1 DEF Places
      <3>2. \A i \in A : i + 1 \in B
        BY <1>1 DEF Places
      <3>3. ASSUME NEW k \in B PROVE k - 1 \in A /\ k = (k - 1) + 1
        <4>1. k \in 2 .. Len(todo) /\ todo[k] = l
          BY <1>1 DEF Places
        <4>2. k - 1 \in 1 .. Len(t) /\ t[k - 1] = todo[(k - 1) + 1] /\ (k - 1) + 1 = k
          BY <1>1, <4>1
        <4>3. QED
          BY <1>1, <4>1, <4>2 DEF Places
      <3> HIDE DEF A, B
      <3>4. \A i, j \in A : f[i] = f[j] => i = j
        BY <3>1
      <3>5. \A k \in B : \E i \in A : f[i] = k
        BY <3>3
      <3>6. QED
        BY <3>2, <3>4, <3>5
    <2>2. f \in Bijection(A, B)
      BY <2>1, Fun_IsBij
    <2>3. IsFiniteSet(A) /\ IsFiniteSet(Places(todo, l))
      <3>1. IsFiniteSet(1 .. Len(t)) /\ IsFiniteSet(1 .. Len(todo))
        BY <1>1, UpTo
      <3>2. A \in SUBSET (1 .. Len(t)) /\ Places(todo, l) \in SUBSET (1 .. Len(todo))
        BY <1>1 DEF Places
      <3>3. QED
        BY <3>1, <3>2, FS_Subset
    <2> HIDE DEF A, B, f
    <2>4. Cardinality(B) = Cardinality(A)
      BY <2>2, <2>3, SameSize
    <2>5. Cardinality(B) = IF 1 \in Places(todo, l) THEN Cardinality(Places(todo, l)) - 1
                                                    ELSE Cardinality(Places(todo, l))
      BY <2>3, FS_RemoveElement DEF B
    <2>6. 1 \in Places(todo, l) <=> Head(todo) = l
      BY <1>1 DEF Places
    <2>7. Waiting(todo, l) = Cardinality(Places(todo, l)) /\ Waiting(t, l) = Cardinality(A)
      BY DEF Waiting, Places, A
    <2>8. Cardinality(Places(todo, l)) \in Nat /\ Cardinality(A) \in Nat
      BY <2>3, FS_CardinalityType
    <2>9. CASE Head(todo) = l
      <3>1. Cardinality(B) = Cardinality(Places(todo, l)) - 1
        BY <2>5, <2>6, <2>9
      <3>2. QED
        BY <2>4, <2>7, <2>8, <2>9, <3>1
    <2>10. CASE Head(todo) # l
      BY <2>4, <2>5, <2>6, <2>7, <2>8, <2>10
    <2>11. QED
      BY <2>9, <2>10
  <1>3. QED
    BY <1>1, <1>2 DEF t

\* The listeners of the tasks a drain has taken.
LEMMA BatchFacts ==
  ASSUME NEW n \in Nat, NEW q \in Seq(TasksUpTo(n))
  PROVE  /\ [i \in DOMAIN q |-> q[i].callback] \in Seq(1 .. n)
         /\ Len([i \in DOMAIN q |-> q[i].callback]) = Len(q)
         /\ \A l : Waiting([i \in DOMAIN q |-> q[i].callback], l) = Pending(q, l)
  <1> DEFINE b == [i \in DOMAIN q |-> q[i].callback]
  <1>1. /\ DOMAIN q = 1 .. Len(q) /\ Len(q) \in Nat
        /\ \A i \in DOMAIN q : q[i].callback \in 1 .. n
    <2>1. \A i \in DOMAIN q : q[i] \in TasksUpTo(n)
      OBVIOUS
    <2>2. QED
      BY <2>1 DEF TasksUpTo
  <1>2. b \in Seq(1 .. n) /\ Len(b) = Len(q)
    BY <1>1
  <1>3. \A l : Places(b, l) = TasksIn(q, l)
    BY DEF Places, TasksIn
  <1>4. \A l : Waiting(b, l) = Cardinality(Places(b, l))
    BY DEF Waiting, Places
  <1>5. QED
    BY <1>2, <1>3, <1>4 DEF Pending

-----------------------------------------------------------------------------
(* The counts of a state *)

LEMMA Sizes ==
  ASSUME EventsInv, QueueInv
  PROVE  /\ nextID \in Nat /\ eventsByID \subseteq 1 .. nextID /\ 1 .. nextID \subseteq IDs
         /\ \A l \in IDs : /\ reservedCount[l] \in Nat /\ abandoned[l] \in Nat
                           /\ dispatchCount[l] \in Nat /\ options[l].limit \in Nat
         /\ \A l : Pending(queue, l) \in Nat
         /\ \A l : InBatch(acts, l) \in Nat
         /\ \A l : InProgress(acts, l) \in {0, 1} /\ InRun(acts, l) \in {0, 1}
                  /\ InRun(acts, l) <= InProgress(acts, l)
  <1>1. nextID \in Nat /\ eventsByID \subseteq 1 .. nextID /\ 1 .. nextID \subseteq IDs
    BY EventBoundAssumption DEF EventsInv, Counters, IDs
  <1>2. \A l \in IDs : /\ reservedCount[l] \in Nat /\ abandoned[l] \in Nat
                      /\ dispatchCount[l] \in Nat
    BY DEF EventsInv, Counters, QueueInv, Typed
  <1>3. \A l \in IDs : options[l].limit \in Nat
    BY ConfigAssumption DEF EventsInv, Counters
  <1>4. \A l : Pending(queue, l) \in Nat
    BY <1>1, PendingFacts DEF QueueInv, Known
  <1>5. ASSUME NEW l PROVE InBatch(acts, l) \in Nat
    <2>1. CASE acts # <<>> /\ acts[1].work = "drain"
      <3>1. acts[1].todo \in Seq(1 .. nextID)
        BY <2>1 DEF QueueInv, Known
      <3>2. acts[1].phase # "next" => acts[1].todo # <<>>
        BY <2>1 DEF QueueInv, Limited
      <3>3. Rest(acts[1]) \in Seq(1 .. nextID)
        BY <1>1, <3>1, <3>2, TailFacts DEF Rest
      <3>4. QED
        BY <1>1, <2>1, <3>3, WaitingFacts DEF InBatch
    <2>2. CASE ~(acts # <<>> /\ acts[1].work = "drain")
      BY <2>2 DEF InBatch
    <2>3. QED
      BY <2>1, <2>2
  <1>6. \A l : InProgress(acts, l) \in {0, 1} /\ InRun(acts, l) \in {0, 1}
             /\ InRun(acts, l) <= InProgress(acts, l)
    BY DEF InProgress, InRun
  <1>7. QED
    BY <1>1, <1>2, <1>3, <1>4, <1>5, <1>6

\* The activity, and what it counts for.
LEMMA TopFacts ==
  ASSUME EventsInv, QueueInv, acts # <<>>
  PROVE  /\ Top = acts[1] /\ acts = <<Top>> /\ Top \in Acts
         /\ Top.todo \in Seq(1 .. nextID)
         /\ Top.phase # "next" => Top.todo # <<>> /\ Top.current \in 1 .. nextID
         /\ Top.work = "drain" => Len(Top.todo) <= MaxQueuedTasks
  <1>1. Top = acts[1]
    BY OneActivity DEF EventsInv
  <1>2. QED
    BY <1>1 DEF EventsInv, Alone, Counters, QueueInv, Typed, Known, Limited

LEMMA NoneActive ==
  \A l : InBatch(<<>>, l) = 0 /\ InProgress(<<>>, l) = 0 /\ InRun(<<>>, l) = 0
  BY DEF InBatch, InProgress, InRun

\* Later listeners do not make what is known of a list false.
LEMMA Grows ==
  ASSUME NEW n \in Nat, NEW m \in Nat, n <= m
  PROVE  /\ \A q \in Seq(TasksUpTo(n)) : q \in Seq(TasksUpTo(m))
         /\ \A todo \in Seq(1 .. n) : todo \in Seq(1 .. m)
  <1>1. ASSUME NEW q \in Seq(TasksUpTo(n)) PROVE q \in Seq(TasksUpTo(m))
    <2>1. \A i \in 1 .. Len(q) : q[i] \in TasksUpTo(n)
      OBVIOUS
    <2>2. TasksUpTo(n) \subseteq TasksUpTo(m)
      BY DEF TasksUpTo
    <2>3. QED
      BY <2>1, <2>2
  <1>2. ASSUME NEW todo \in Seq(1 .. n) PROVE todo \in Seq(1 .. m)
    <2>1. \A i \in 1 .. Len(todo) : todo[i] \in 1 .. m
      OBVIOUS
    <2>2. QED
      BY <2>1
  <1>3. QED
    BY <1>1, <1>2

-----------------------------------------------------------------------------
(* Management *)

LEMMA RegisterQueue ==
  ASSUME EventsInv, QueueInv, NEW config \in Configs, NEW isAsync \in BOOLEAN,
         Register(config, isAsync)
  PROVE  QueueInv'
  <1>1. /\ nextID \in Nat /\ nextID' = nextID + 1 /\ nextID' \in IDs
        /\ eventsByID \subseteq 1 .. nextID /\ eventsByID' = eventsByID \cup {nextID'}
    BY Sizes, EventBoundAssumption DEF Register, IDs
  <1>2. UNCHANGED <<muted, countVars, queue, dispatchDepth, acts, expiring, closed>>
    BY DEF Register
  <1>3. Typed'
    BY <1>1, <1>2 DEF QueueInv, Typed, Register, countVars
  <1>4. Known'
    BY <1>1, <1>2, Grows DEF QueueInv, Known, countVars
  <1>5. Limited' /\ DepthAfterClose' /\ OldestFirst(queue)'
    BY <1>2 DEF QueueInv, Limited, DepthAfterClose, OldestFirst
  <1>6. /\ Pending(queue, nextID') = 0
        /\ InBatch(acts, nextID') = 0
        /\ InProgress(acts, nextID') = 0
    <2>1. Pending(queue, nextID') = 0
      <3>1. nextID' \notin 1 .. nextID
        BY <1>1
      <3>2. Pending(queue, nextID') \in Nat /\ ~(Pending(queue, nextID') > 0)
        BY <1>1, <3>1, PendingFacts DEF QueueInv, Known
      <3>3. QED
        BY <3>2
    <2>2. InBatch(acts, nextID') = 0
      <3>1. CASE acts # <<>> /\ acts[1].work = "drain"
        <4>1. acts[1].todo \in Seq(1 .. nextID)
          BY <3>1 DEF QueueInv, Known
        <4>2. acts[1].phase # "next" => acts[1].todo # <<>>
          BY <3>1 DEF QueueInv, Limited
        <4>3. Rest(acts[1]) \in Seq(1 .. nextID)
          BY <1>1, <4>1, <4>2, TailFacts DEF Rest
        <4>4. Waiting(Rest(acts[1]), nextID') \in Nat /\ ~(Waiting(Rest(acts[1]), nextID') > 0)
          BY <1>1, <4>3, WaitingFacts
        <4>5. QED
          BY <3>1, <4>4 DEF InBatch
      <3>2. CASE ~(acts # <<>> /\ acts[1].work = "drain")
        BY <3>2 DEF InBatch
      <3>3. QED
        BY <3>1, <3>2
    <2>3. InProgress(acts, nextID') = 0
      BY <1>1 DEF InProgress, EventsInv, Counters
    <2>4. QED
      BY <2>1, <2>2, <2>3
  <1>7. Balanced'
    <2>1. SUFFICES ASSUME NEW l \in eventsByID'
                   PROVE  reservedCount[l] = Held(l)
      BY <1>2 DEF Balanced, Held, countVars
    <2>2. CASE l \in eventsByID
      BY <2>2 DEF QueueInv, Balanced
    <2>3. CASE l = nextID'
      BY <1>1, <1>6, <2>3 DEF QueueInv, Known, Held
    <2>4. QED
      BY <1>1, <2>1, <2>2, <2>3
  <1>8. RunsLeft'
    <2>1. SUFFICES ASSUME NEW l \in eventsByID' \ expiring, options'[l].limit > 0,
                          Pending(queue, l) > 0
                   PROVE  Used(l) <= options'[l].limit
      BY <1>2 DEF RunsLeft, Used, countVars
    <2>2. l \in eventsByID /\ l # nextID'
      BY <1>1, <1>6, <2>1
    <2>3. options'[l] = options[l]
      BY <1>1, <2>2 DEF Register
    <2>4. QED
      BY <2>1, <2>2, <2>3 DEF QueueInv, RunsLeft
  <1>9. QED
    BY <1>3, <1>4, <1>5, <1>7, <1>8 DEF QueueInv

\* Removing a listener leaves the tasks of the others.
LEMMA RemovedQueue ==
  ASSUME EventsInv, QueueInv, NEW l, Removed(l)
  PROVE  /\ queue' \in Seq(TasksUpTo(nextID))
         /\ Len(queue') <= Len(queue)
         /\ eventsByID' = eventsByID \ {l} /\ muted' = muted \ {l}
         /\ \A k \in eventsByID' : Pending(queue', k) = Pending(queue, k)
         /\ OldestFirst(queue')
  <1>1. nextID \in Nat
    BY Sizes
  <1>2. CASE l \in eventsByID
    <2> DEFINE gone == TasksIn(queue, l)
    <2>1. queue' = Kept(queue, DOMAIN queue \ gone)
      BY <1>2 DEF Removed, TasksOf, TasksIn
    <2>2. queue \in Seq(TasksUpTo(nextID)) /\ OfListener(gone, queue, l)
      BY DEF QueueInv, Known, OfListener
    <2> HIDE DEF gone
    <2>3. /\ Kept(queue, DOMAIN queue \ gone) \in Seq(TasksUpTo(nextID))
          /\ Len(Kept(queue, DOMAIN queue \ gone)) <= Len(queue)
          /\ OthersStay(queue, Kept(queue, DOMAIN queue \ gone), l)
          /\ OldestFirst(queue) => OldestFirst(Kept(queue, DOMAIN queue \ gone))
      BY <1>1, <2>2, WithoutTasks
    <2>4. QED
      BY <2>1, <2>3 DEF Removed, QueueInv, OthersStay
  <1>3. CASE l \notin eventsByID
    BY <1>3 DEF Removed, QueueInv, Known
  <1>4. QED
    BY <1>2, <1>3

\* A removal outside of the activities.
LEMMA DismissQueue ==
  ASSUME EventsInv, QueueInv, NEW l \in IDs, Removed(l),
         UNCHANGED <<nextID, async, options, countVars, dispatchDepth, acts, closed>>,
         expiring' = expiring \/ expiring' = expiring \ {l}
  PROVE  QueueInv'
  <1>1. /\ queue' \in Seq(TasksUpTo(nextID))
        /\ Len(queue') <= Len(queue)
        /\ eventsByID' = eventsByID \ {l} /\ muted' = muted \ {l}
        /\ \A k \in eventsByID' : Pending(queue', k) = Pending(queue, k)
        /\ OldestFirst(queue')
    BY RemovedQueue
  <1>2. Typed'
    BY <1>1 DEF QueueInv, Typed, countVars
  <1>3. Known' /\ DepthAfterClose'
    BY <1>1 DEF QueueInv, Known, DepthAfterClose, countVars
  <1>4. Limited'
    <2>1. Len(queue) \in Nat /\ Len(queue') \in Nat
      BY <1>1 DEF QueueInv, Known
    <2>2. QED
      BY <1>1, <2>1, LimitAssumption DEF QueueInv, Limited
  <1>5. Balanced' /\ RunsLeft'
    BY <1>1 DEF QueueInv, Balanced, RunsLeft, Held, Used, countVars
  <1>6. QED
    BY <1>1, <1>2, <1>3, <1>4, <1>5 DEF QueueInv

LEMMA SetMutedQueue ==
  ASSUME EventsInv, QueueInv, NEW l \in IDs, NEW value \in BOOLEAN, SetMuted(l, value)
  PROVE  QueueInv'
  BY DEF QueueInv, Typed, Known, Limited, DepthAfterClose, Balanced, Held, RunsLeft, Used,
         OldestFirst, SetMuted, countVars

LEMMA DebounceElapsedQueue ==
  ASSUME EventsInv, QueueInv, NEW i \in DOMAIN queue, DebounceElapsed(i)
  PROVE  QueueInv'
  <1>1. /\ queue' \in Seq(TasksUpTo(nextID)) /\ Len(queue') = Len(queue)
        /\ \A l : Pending(queue', l) = Pending(queue, l)
        /\ OldestFirst(queue')
    <2>1. queue \in Seq(TasksUpTo(nextID)) /\ nextID \in Nat /\ OldestFirst(queue)
      BY Sizes DEF QueueInv, Known
    <2>2. queue' = [queue EXCEPT ![i].due = TRUE]
      BY DEF DebounceElapsed
    <2>3. QED
      BY <2>1, <2>2, DueFacts
  <1>2. QED
    BY <1>1
       DEF QueueInv, Typed, Known, Limited, DepthAfterClose, Balanced, Held, RunsLeft, Used,
           DebounceElapsed, listenerVars, countVars

LEMMA CloseQueue ==
  ASSUME EventsInv, QueueInv, Close
  PROVE  QueueInv'
  <1>1. queue' = <<>> /\ DOMAIN queue' = {} /\ Len(queue') = 0
        /\ queue' \in Seq(TasksUpTo(nextID))
    BY DEF Close
  <1>2. QED
    BY <1>1, LimitAssumption
       DEF QueueInv, Typed, Known, Limited, DepthAfterClose, Balanced, RunsLeft, OldestFirst,
           Close, countVars

\* What setConfig cancels, and what a limit then leaves.
LEMMA TrimmedFacts ==
  ASSUME EventsInv, QueueInv, NEW l \in eventsByID, NEW limit \in Nat
  PROVE  /\ OfListener(Trimmed(l, limit), queue, l)
         /\ limit > 0 /\ dispatchCount[l] < limit
              => \/ reservedCount[l] <= limit - dispatchCount[l] /\ Trimmed(l, limit) = {}
                 \/ Cardinality(Trimmed(l, limit)) = Pending(queue, l)
                 \/ Cardinality(Trimmed(l, limit)) = reservedCount[l] - (limit - dispatchCount[l])
  <1> DEFINE remaining == IF limit < dispatchCount[l] THEN 0 ELSE limit - dispatchCount[l]
             m == reservedCount[l] - remaining
  <1>1. l \in IDs /\ nextID \in Nat /\ dispatchCount[l] \in Nat /\ reservedCount[l] \in Nat
    BY Sizes
  <1>2. CASE limit = 0 \/ reservedCount[l] <= remaining
    <2>1. Trimmed(l, limit) = {}
      BY <1>2 DEF Trimmed
    <2>2. QED
      BY <1>1, <1>2, <2>1 DEF OfListener
  <1>3. CASE ~(limit = 0 \/ reservedCount[l] <= remaining)
    <2>1. Trimmed(l, limit) = Newest(l, m) /\ m \in Nat
      BY <1>1, <1>3 DEF Trimmed
    <2>2. queue \in Seq(TasksUpTo(nextID))
      BY DEF QueueInv, Known
    <2> HIDE DEF m
    <2>3. /\ Newest(l, m) \in SUBSET TasksIn(queue, l)
          /\ Cardinality(Newest(l, m)) = IF Pending(queue, l) <= m THEN Pending(queue, l) ELSE m
      BY <1>1, <2>1, <2>2, NewestFacts
    <2>4. QED
      BY <1>1, <1>3, <2>1, <2>3 DEF OfListener, m
  <1>4. QED
    BY <1>2, <1>3

\* Trimming releases a claim for each task, and leaves no more than the new
\* limit has runs for; a limit already used up is about to be enforced.
LEMMA SetConfigQueue ==
  ASSUME EventsInv, QueueInv, NEW l \in IDs, NEW config \in Configs, SetConfig(l, config)
  PROVE  QueueInv'
  <1> DEFINE gone == Trimmed(l, config.limit)
             left == Kept(queue, DOMAIN queue \ gone)
             c    == Cardinality(gone)
  <1>1. /\ l \in eventsByID
        /\ options' = [options EXCEPT ![l] = config]
        /\ queue' = left
        /\ reservedCount' = [reservedCount EXCEPT ![l] = @ - c]
        /\ expiring' = IF config.limit > 0 /\ dispatchCount[l] >= config.limit
                       THEN expiring \cup {l} ELSE expiring
        /\ UNCHANGED <<nextID, eventsByID, muted, async, dispatchCount, abandoned,
                       dispatchDepth, acts, closed>>
    BY DEF SetConfig
  <1>2. config.limit \in Nat
    BY ConfigAssumption
  <1>3. /\ nextID \in Nat /\ l \in 1 .. nextID /\ eventsByID \subseteq IDs
        /\ \A k \in IDs : /\ reservedCount[k] \in Nat /\ abandoned[k] \in Nat
                          /\ dispatchCount[k] \in Nat /\ options[k].limit \in Nat
        /\ \A k : Pending(queue, k) \in Nat /\ InBatch(acts, k) \in Nat
        /\ \A k : InProgress(acts, k) \in {0, 1} /\ InRun(acts, k) \in {0, 1}
                 /\ InRun(acts, k) <= InProgress(acts, k)
    BY <1>1, Sizes
  <1>4. /\ OfListener(gone, queue, l)
        /\ config.limit > 0 /\ dispatchCount[l] < config.limit
             => \/ reservedCount[l] <= config.limit - dispatchCount[l] /\ gone = {}
                \/ c = Pending(queue, l)
                \/ c = reservedCount[l] - (config.limit - dispatchCount[l])
    BY <1>1, <1>2, TrimmedFacts
  <1> HIDE DEF gone
  <1>5. /\ left \in Seq(TasksUpTo(nextID))
        /\ Len(left) <= Len(queue)
        /\ c \in Nat /\ c <= Pending(queue, l)
        /\ Pending(left, l) = Pending(queue, l) - c
        /\ OthersStay(queue, left, l)
        /\ OldestFirst(queue) => OldestFirst(left)
    <2>1. queue \in Seq(TasksUpTo(nextID)) /\ nextID \in Nat /\ OfListener(gone, queue, l)
      BY <1>3, <1>4 DEF QueueInv, Known
    <2>2. c \in Nat /\ c <= Pending(queue, l)
      BY <2>1, WithoutTasks
    <2>3. Pending(left, l) = Pending(queue, l) - c
      BY <2>1, WithoutTasks
    <2>4. /\ left \in Seq(TasksUpTo(nextID)) /\ Len(left) <= Len(queue)
          /\ OthersStay(queue, left, l)
          /\ OldestFirst(queue) => OldestFirst(left)
      BY <2>1, WithoutTasks
    <2>5. QED
      BY <2>2, <2>3, <2>4
  <1>6. reservedCount[l] = Held(l) /\ reservedCount[l] - c \in Nat
    <2>1. reservedCount[l] = Held(l)
      BY <1>1 DEF QueueInv, Balanced
    <2>2. QED
      BY <1>3, <1>5, <2>1 DEF Held
  <1> HIDE DEF left, c
  <1>7. Typed'
    BY <1>1, <1>6 DEF QueueInv, Typed
  <1>8. Known'
    BY <1>1, <1>3, <1>5 DEF QueueInv, Known
  <1>9. Limited'
    <2>1. Len(queue) \in Nat /\ Len(left) \in Nat
      BY <1>5 DEF QueueInv, Known
    <2>2. QED
      BY <1>1, <1>5, <2>1, LimitAssumption DEF QueueInv, Limited
  <1>10. DepthAfterClose'
    BY <1>1 DEF QueueInv, DepthAfterClose
  <1>11. Balanced'
    <2>1. SUFFICES ASSUME NEW k \in eventsByID
                   PROVE  reservedCount'[k]
                            = Pending(left, k) + InBatch(acts, k) + InProgress(acts, k)
                                + abandoned[k]
      BY <1>1 DEF Balanced, Held
    <2>2. CASE k = l
      <3>1. reservedCount'[l] = reservedCount[l] - c
        BY <1>1, <1>3 DEF QueueInv, Typed
      <3>2. /\ Pending(queue, l) \in Nat /\ InBatch(acts, l) \in Nat
            /\ InProgress(acts, l) \in {0, 1} /\ abandoned[l] \in Nat
        BY <1>3
      <3>3. QED
        BY <1>5, <1>6, <2>2, <3>1, <3>2 DEF Held
    <2>3. CASE k # l
      <3>1. reservedCount'[k] = reservedCount[k] /\ reservedCount[k] = Held(k)
        BY <1>1, <1>3, <2>3 DEF QueueInv, Typed, Balanced
      <3>2. Pending(left, k) = Pending(queue, k)
        BY <1>5, <2>3 DEF OthersStay
      <3>3. QED
        BY <3>1, <3>2 DEF Held
    <2>4. QED
      BY <2>2, <2>3
  <1>12. RunsLeft'
    <2>1. SUFFICES ASSUME NEW k \in eventsByID, k \notin expiring', options'[k].limit > 0,
                          Pending(left, k) > 0
                   PROVE  dispatchCount[k] + InRun(acts, k) + Pending(left, k) + InBatch(acts, k)
                            <= options'[k].limit
      BY <1>1 DEF RunsLeft, Used
    <2>2. CASE k = l
      <3>1. options'[l] = config /\ dispatchCount[l] < config.limit
        BY <1>1, <1>2, <1>3, <2>1, <2>2 DEF EventsInv, Counters
      <3>2. \/ reservedCount[l] <= config.limit - dispatchCount[l]
            \/ c = Pending(queue, l)
            \/ c = reservedCount[l] - (config.limit - dispatchCount[l])
        BY <1>2, <1>3, <1>4, <3>1
      <3>3. c # Pending(queue, l)
        BY <1>3, <1>5, <2>1, <2>2
      <3>4. /\ Pending(queue, l) \in Nat /\ InBatch(acts, l) \in Nat
            /\ InProgress(acts, l) \in {0, 1} /\ InRun(acts, l) \in {0, 1}
            /\ InRun(acts, l) <= InProgress(acts, l)
            /\ abandoned[l] \in Nat /\ dispatchCount[l] \in Nat
        BY <1>3
      <3>5. reservedCount[l] = Pending(queue, l) + InBatch(acts, l) + InProgress(acts, l)
                                 + abandoned[l]
        BY <1>6 DEF Held
      <3>6. Pending(left, l) = Pending(queue, l) - c /\ c \in Nat
        BY <1>5
      <3>7. dispatchCount[l] + InRun(acts, l) + Pending(left, l) + InBatch(acts, l) <= config.limit
        BY <1>2, <3>2, <3>3, <3>4, <3>5, <3>6
      <3>8. QED
        BY <2>2, <3>1, <3>7
    <2>3. CASE k # l
      <3>1. Pending(left, k) = Pending(queue, k) /\ options'[k] = options[k] /\ k \notin expiring
        BY <1>1, <1>5, <2>1, <2>3 DEF OthersStay
      <3>2. QED
        BY <2>1, <3>1 DEF QueueInv, RunsLeft, Used
    <2>4. QED
      BY <2>2, <2>3
  <1>13. OldestFirst(queue)'
    BY <1>1, <1>5 DEF QueueInv
  <1>14. QED
    BY <1>7, <1>8, <1>9, <1>10, <1>11, <1>12, <1>13 DEF QueueInv

-----------------------------------------------------------------------------
(* The steps of an activity *)

\* What the invariant asks of the activity itself.
Shape(s) ==
  s # <<>> => /\ s[1] \in Acts
              /\ s[1].todo \in Seq(1 .. nextID)
              /\ s[1].work = "drain" => Len(s[1].todo) <= MaxQueuedTasks
              /\ s[1].phase # "next" => s[1].todo # <<>>

\* What it asks of the counts of one listener.
CountsAt(l) ==
  /\ reservedCount[l] = Held(l)
  /\ l \notin expiring /\ options[l].limit > 0 /\ Pending(queue, l) > 0
       => Used(l) <= options[l].limit

\* The parts of a step that manages no listener but may remove or mute one.
LEMMA Assembled ==
  ASSUME QueueInv,
         UNCHANGED <<nextID, async, options, expiring, closed>>,
         eventsByID' \subseteq eventsByID, muted' \subseteq eventsByID',
         queue' \in Seq(TasksUpTo(nextID)), Len(queue') <= MaxQueuedTasks, OldestFirst(queue'),
         Shape(acts'), DepthAfterClose',
         reservedCount' \in [IDs -> Nat], abandoned' \in [IDs -> Nat],
         \A l \in IDs : l > nextID => reservedCount'[l] = 0 /\ abandoned'[l] = 0,
         \A l \in eventsByID' : CountsAt(l)'
  PROVE  QueueInv'
  <1>1. Typed' /\ Known' /\ Limited'
    BY DEF QueueInv, Typed, Known, Limited, Shape
  <1>2. Balanced' /\ RunsLeft'
    BY DEF Balanced, RunsLeft, CountsAt
  <1>3. QED
    BY <1>1, <1>2 DEF QueueInv

LEMMA Parts ==
  ASSUME QueueInv
  PROVE  /\ queue \in Seq(TasksUpTo(nextID)) /\ Len(queue) <= MaxQueuedTasks
         /\ OldestFirst(queue) /\ muted \subseteq eventsByID
         /\ reservedCount \in [IDs -> Nat] /\ abandoned \in [IDs -> Nat]
         /\ \A l \in IDs : l > nextID => reservedCount[l] = 0 /\ abandoned[l] = 0
  BY DEF QueueInv, Typed, Known, Limited

LEMMA ShapeFacts ==
  ASSUME NEW b \in Acts, b.todo \in Seq(1 .. nextID),
         b.work = "drain" => Len(b.todo) <= MaxQueuedTasks,
         b.phase # "next" => b.todo # <<>>
  PROVE  Shape(<<b>>)
  <1>1. <<b>> # <<>> /\ <<b>>[1] = b
    OBVIOUS
  <1>2. QED
    BY <1>1 DEF Shape

LEMMA OneCounts ==
  ASSUME NEW b, NEW l
  PROVE  /\ InBatch(<<b>>, l) = IF b.work = "drain" THEN Waiting(Rest(b), l) ELSE 0
         /\ InProgress(<<b>>, l)
              = IF b.current = l /\ b.phase \in {"claimed", "running", "returned"} THEN 1 ELSE 0
         /\ InRun(<<b>>, l)
              = IF b.current = l /\ b.phase \in {"claimed", "running"} THEN 1 ELSE 0
  <1>1. <<b>> # <<>> /\ <<b>>[1] = b
    OBVIOUS
  <1>2. QED
    BY <1>1 DEF InBatch, InProgress, InRun

\* All that the invariant says of the counts of one listener.
LEMMA At ==
  ASSUME EventsInv, QueueInv, NEW l \in eventsByID
  PROVE  /\ l \in IDs /\ l \in 1 .. nextID
         /\ reservedCount[l] \in Nat /\ abandoned[l] \in Nat
         /\ dispatchCount[l] \in Nat /\ options[l].limit \in Nat
         /\ Pending(queue, l) \in Nat /\ InBatch(acts, l) \in Nat
         /\ InProgress(acts, l) \in {0, 1} /\ InRun(acts, l) \in {0, 1}
         /\ reservedCount[l]
              = Pending(queue, l) + InBatch(acts, l) + InProgress(acts, l) + abandoned[l]
         /\ l \notin expiring /\ options[l].limit > 0 /\ Pending(queue, l) > 0
              => dispatchCount[l] + InRun(acts, l) + Pending(queue, l) + InBatch(acts, l)
                   <= options[l].limit
  <1>1. l \in IDs /\ l \in 1 .. nextID
    BY Sizes
  <1>2. QED
    BY <1>1, Sizes DEF QueueInv, Balanced, RunsLeft, Held, Used

\* The depth, if the step is not a callback's beginning or end.
LEMMA DepthStays ==
  ASSUME QueueInv, UNCHANGED <<dispatchDepth, closed>>,
         acts' # <<>> => acts'[1].phase # "running"
  PROVE  DepthAfterClose'
  BY DEF QueueInv, DepthAfterClose

\* The claims, when those of one listener may have changed.
LEMMA ClaimsFacts ==
  ASSUME EventsInv, QueueInv, NEW l \in 1 .. nextID, NEW n \in Nat,
         reservedCount' = [reservedCount EXCEPT ![l] = n], UNCHANGED abandoned
  PROVE  /\ reservedCount' \in [IDs -> Nat] /\ abandoned' \in [IDs -> Nat]
         /\ \A k \in IDs : k > nextID => reservedCount'[k] = 0 /\ abandoned'[k] = 0
         /\ \A k \in IDs : reservedCount'[k] = IF k = l THEN n ELSE reservedCount[k]
  <1>1. l \in IDs /\ l <= nextID /\ nextID \in Nat /\ \A k \in IDs : k \in Nat
    BY Sizes DEF IDs
  <1>2. /\ reservedCount \in [IDs -> Nat] /\ abandoned \in [IDs -> Nat]
        /\ \A k \in IDs : k > nextID => reservedCount[k] = 0 /\ abandoned[k] = 0
    BY Parts
  <1>3. \A k \in IDs : reservedCount'[k] = IF k = l THEN n ELSE reservedCount[k]
    BY <1>2
  <1>4. reservedCount' \in [IDs -> Nat]
    BY <1>2
  <1>5. \A k \in IDs : k > nextID => reservedCount'[k] = 0
    BY <1>1, <1>2, <1>3
  <1>6. QED
    BY <1>2, <1>3, <1>4, <1>5

\* A release takes a claim from a registered listener that has one.
LEMMA ReleaseFacts ==
  ASSUME EventsInv, QueueInv, NEW l \in 1 .. nextID, Release(l), UNCHANGED abandoned
  PROVE  /\ reservedCount' \in [IDs -> Nat] /\ abandoned' \in [IDs -> Nat]
         /\ \A k \in IDs : k > nextID => reservedCount'[k] = 0 /\ abandoned'[k] = 0
         /\ \A k \in eventsByID :
              reservedCount'[k] = IF k = l /\ reservedCount[k] > 0 THEN reservedCount[k] - 1
                                                                    ELSE reservedCount[k]
  <1>1. eventsByID \subseteq IDs /\ l \in IDs /\ reservedCount[l] \in Nat
    BY Sizes
  <1>2. CASE l \in eventsByID /\ reservedCount[l] > 0
    <2>1. reservedCount' = [reservedCount EXCEPT ![l] = reservedCount[l] - 1]
      BY <1>2 DEF Release
    <2>2. reservedCount[l] - 1 \in Nat
      BY <1>1, <1>2
    <2>3. QED
      BY <1>1, <1>2, <2>1, <2>2, ClaimsFacts
  <1>3. CASE ~(l \in eventsByID /\ reservedCount[l] > 0)
    <2>1. reservedCount' = reservedCount
      BY <1>3 DEF Release
    <2>2. QED
      BY <1>3, <2>1, Parts
  <1>4. QED
    BY <1>2, <1>3

\* The activity goes on to its next listener.
LEMMA NextListener ==
  ASSUME EventsInv, QueueInv, acts # <<>>, Top.todo # <<>>, Set(Skipped(Top)),
         UNCHANGED nextID
  PROVE  /\ Shape(acts') /\ acts' # <<>> /\ acts'[1].phase = "next"
         /\ \A k : /\ InBatch(acts', k) = IF Top.work = "drain" THEN Waiting(Tail(Top.todo), k)
                                                              ELSE 0
                   /\ InProgress(acts', k) = 0 /\ InRun(acts', k) = 0
  <1> DEFINE b == Skipped(Top)
  <1>1. /\ Top \in Acts /\ Top.todo \in Seq(1 .. nextID)
        /\ Top.work = "drain" => Len(Top.todo) <= MaxQueuedTasks
    BY TopFacts
  <1>2. nextID \in Nat /\ 1 .. nextID \subseteq IDs
    BY Sizes
  <1>3. /\ Tail(Top.todo) \in Seq(1 .. nextID) /\ Len(Tail(Top.todo)) <= Len(Top.todo)
        /\ Len(Tail(Top.todo)) \in Nat /\ Len(Top.todo) \in Nat
        /\ Tail(Top.todo) \in Seq(IDs)
    <2>1. /\ Tail(Top.todo) \in Seq(1 .. nextID) /\ Len(Tail(Top.todo)) <= Len(Top.todo)
      BY <1>1, <1>2, TailFacts
    <2>2. Len(Tail(Top.todo)) \in Nat /\ Len(Top.todo) \in Nat
      BY <1>1, <2>1
    <2>3. \A todo \in Seq(1 .. nextID) : todo \in Seq(IDs)
      BY <1>2
    <2>4. QED
      BY <2>1, <2>2, <2>3
  <1>4. /\ b \in Acts /\ b.todo = Tail(Top.todo) /\ b.work = Top.work
        /\ b.phase = "next" /\ b.current = 0
    BY <1>1, <1>3 DEF Skipped, Acts, Phases
  <1>5. acts' = <<b>> /\ acts' # <<>> /\ acts'[1] = b
    BY OneActivity DEF EventsInv
  <1> HIDE DEF b
  <1>6. Shape(acts')
    <2>1. b.work = "drain" => Len(b.todo) <= MaxQueuedTasks
      BY <1>1, <1>3, <1>4, LimitAssumption
    <2>2. Shape(<<b>>)
      BY <1>3, <1>4, <2>1, ShapeFacts
    <2>3. QED
      BY <1>5, <2>2 DEF Shape
  <1>7. ASSUME NEW k
        PROVE  /\ InBatch(acts', k) = IF Top.work = "drain" THEN Waiting(Tail(Top.todo), k) ELSE 0
               /\ InProgress(acts', k) = 0 /\ InRun(acts', k) = 0
    <2>1. Rest(b) = Tail(Top.todo)
      BY <1>4 DEF Rest
    <2>2. QED
      BY <1>4, <1>5, <2>1, OneCounts
  <1>8. QED
    BY <1>4, <1>5, <1>6, <1>7

\* Or it ends.
LEMMA EndFacts ==
  ASSUME EventsInv, acts # <<>>, Leave
  PROVE  /\ Shape(acts') /\ acts' = <<>>
         /\ \A k : InBatch(acts', k) = 0 /\ InProgress(acts', k) = 0 /\ InRun(acts', k) = 0
  <1>1. acts' = <<>>
    BY OneActivity DEF EventsInv
  <1>2. QED
    BY <1>1, NoneActive DEF Shape

LEMMA ClaimQueue ==
  ASSUME EventsInv, QueueInv, Claim
  PROVE  QueueInv'
  <1> DEFINE l == Head(Top.todo)
             b == [Top EXCEPT !.phase = "claimed", !.current = l]
  <1>1. /\ acts # <<>> /\ Top.work = "dispatch" /\ Top.phase = "next" /\ Top.todo # <<>>
        /\ CanDispatch(l)
        /\ reservedCount' = [reservedCount EXCEPT ![l] = @ + 1]
        /\ Set(b)
        /\ UNCHANGED <<listenerVars, dispatchCount, abandoned, queue, dispatchDepth,
                       expiring, closed>>
    BY DEF Claim, InPhase
  <1>2. acts = <<Top>> /\ Top \in Acts /\ Top.todo \in Seq(1 .. nextID)
    BY <1>1, TopFacts
  <1>3. /\ l \in eventsByID /\ l \in 1 .. nextID /\ l \in IDs
        /\ options[l].limit > 0 => dispatchCount[l] + reservedCount[l] < options[l].limit
    BY <1>1, Sizes DEF CanDispatch, Active
  <1>4. /\ b \in Acts /\ b.todo = Top.todo /\ b.work = "dispatch"
        /\ b.phase = "claimed" /\ b.current = l
    BY <1>1, <1>2, <1>3 DEF Acts, Phases
  <1>5. acts' = <<b>> /\ acts' # <<>> /\ acts'[1] = b
    BY <1>1, OneActivity DEF EventsInv
  <1> HIDE DEF b, l
  <1>6. Shape(acts')
    <2>1. Shape(<<b>>)
      BY <1>1, <1>2, <1>4, ShapeFacts
    <2>2. QED
      BY <1>1, <1>5, <2>1 DEF Shape, listenerVars
  <1>7. /\ reservedCount' \in [IDs -> Nat]
        /\ \A k \in IDs : k > nextID => reservedCount'[k] = 0 /\ abandoned'[k] = 0
        /\ \A k \in IDs : reservedCount'[k] = IF k = l THEN reservedCount[k] + 1
                                                      ELSE reservedCount[k]
    <2>1. reservedCount[l] + 1 \in Nat
      BY <1>3, Parts
    <2>2. QED
      BY <1>1, <1>3, <2>1, ClaimsFacts
  <1>8. ASSUME NEW k \in eventsByID
        PROVE  CountsAt(k)'
    <2>1. InBatch(acts, k) = 0 /\ InProgress(acts, k) = 0 /\ InRun(acts, k) = 0
      BY <1>1, <1>2, OneCounts
    <2>2. /\ InBatch(acts', k) = 0
          /\ InProgress(acts', k) = IF k = l THEN 1 ELSE 0
          /\ InRun(acts', k) = IF k = l THEN 1 ELSE 0
      BY <1>4, <1>5, OneCounts
    <2>3. /\ k \in IDs /\ reservedCount[k] \in Nat /\ abandoned[k] \in Nat
          /\ dispatchCount[k] \in Nat /\ options[k].limit \in Nat /\ Pending(queue, k) \in Nat
          /\ reservedCount[k]
              = Pending(queue, k) + InBatch(acts, k) + InProgress(acts, k) + abandoned[k]
          /\ k \notin expiring /\ options[k].limit > 0 /\ Pending(queue, k) > 0
              => dispatchCount[k] + InRun(acts, k) + Pending(queue, k) + InBatch(acts, k)
                   <= options[k].limit
      BY At
    <2>4. reservedCount'[k] = IF k = l THEN reservedCount[k] + 1 ELSE reservedCount[k]
      BY <1>7, <2>3
    <2>5. UNCHANGED <<options, queue, dispatchCount, abandoned, expiring>>
      BY <1>1 DEF listenerVars
    <2>6. QED
      BY <1>3, <2>1, <2>2, <2>3, <2>4, <2>5 DEF CountsAt, Held, Used
  <1>9. DepthAfterClose'
    BY <1>1, <1>4, <1>5, DepthStays
  <1>10. QED
    BY <1>1, <1>6, <1>7, <1>8, <1>9, Assembled, Parts DEF listenerVars

\* A step that gives the claim of the listener in front back, and leaves each
\* listener as many tasks as it had.
LEMMA GivesBack ==
  ASSUME EventsInv, QueueInv, acts # <<>>, Top.work = "dispatch", Top.phase = "claimed",
         Release(Top.current), Set(Skipped(Top)) \/ Leave,
         queue' \in Seq(TasksUpTo(nextID)), Len(queue') = Len(queue), OldestFirst(queue'),
         \A k : Pending(queue', k) = Pending(queue, k),
         UNCHANGED <<listenerVars, dispatchCount, abandoned, dispatchDepth, expiring, closed>>
  PROVE  QueueInv'
  <1> DEFINE l == Top.current
  <1>1. acts = <<Top>> /\ Top.todo # <<>> /\ l \in 1 .. nextID
    BY TopFacts
  <1>2. /\ Shape(acts') /\ (acts' # <<>> => acts'[1].phase = "next")
        /\ \A k : InBatch(acts', k) = 0 /\ InProgress(acts', k) = 0 /\ InRun(acts', k) = 0
    BY <1>1, NextListener, EndFacts DEF listenerVars
  <1>3. /\ reservedCount' \in [IDs -> Nat] /\ abandoned' \in [IDs -> Nat]
        /\ \A k \in IDs : k > nextID => reservedCount'[k] = 0 /\ abandoned'[k] = 0
        /\ \A k \in eventsByID :
             reservedCount'[k] = IF k = l /\ reservedCount[k] > 0 THEN reservedCount[k] - 1
                                                                   ELSE reservedCount[k]
    BY <1>1, ReleaseFacts
  <1>4. ASSUME NEW k \in eventsByID
        PROVE  CountsAt(k)'
    <2>1. /\ InBatch(acts, k) = 0
          /\ InProgress(acts, k) = IF k = l THEN 1 ELSE 0
          /\ InRun(acts, k) = IF k = l THEN 1 ELSE 0
      BY <1>1, OneCounts
    <2>2. InBatch(acts', k) = 0 /\ InProgress(acts', k) = 0 /\ InRun(acts', k) = 0
      BY <1>2
    <2>3. /\ reservedCount[k] \in Nat /\ abandoned[k] \in Nat
          /\ dispatchCount[k] \in Nat /\ options[k].limit \in Nat /\ Pending(queue, k) \in Nat
          /\ reservedCount[k]
               = Pending(queue, k) + InBatch(acts, k) + InProgress(acts, k) + abandoned[k]
          /\ k \notin expiring /\ options[k].limit > 0 /\ Pending(queue, k) > 0
               => dispatchCount[k] + InRun(acts, k) + Pending(queue, k) + InBatch(acts, k)
                    <= options[k].limit
      BY At
    <2>4. reservedCount'[k] = IF k = l /\ reservedCount[k] > 0 THEN reservedCount[k] - 1
                                                                ELSE reservedCount[k]
      BY <1>3
    <2>5. UNCHANGED <<options, dispatchCount, abandoned, expiring>>
      BY DEF listenerVars
    <2>6. Pending(queue', k) = Pending(queue, k)
      OBVIOUS
    <2> HIDE DEF l
    <2>7. reservedCount'[k] = Pending(queue, k) + abandoned[k]
      BY <2>1, <2>3, <2>4
    <2>8. k \notin expiring /\ options[k].limit > 0 /\ Pending(queue, k) > 0
            => dispatchCount[k] + Pending(queue, k) <= options[k].limit
      BY <2>1, <2>3
    <2>9. QED
      BY <2>2, <2>3, <2>5, <2>6, <2>7, <2>8 DEF CountsAt, Held, Used
  <1>5. DepthAfterClose'
    BY <1>2, DepthStays
  <1>6. QED
    BY <1>2, <1>3, <1>4, <1>5, Assembled, Parts DEF listenerVars

\* A step from one task to the next, or from the last one out, that may remove
\* or mute the listener.
LEMMA PassesOn ==
  ASSUME EventsInv, QueueInv, acts # <<>>, Top.phase \in {"next", "expire", "resolve"},
         Shape(acts'), acts' # <<>> => acts'[1].phase \in {"next", "resolve"},
         \A k : InBatch(acts', k) = InBatch(acts, k),
         eventsByID' \subseteq eventsByID, muted' \subseteq eventsByID',
         queue' \in Seq(TasksUpTo(nextID)), Len(queue') <= Len(queue), OldestFirst(queue'),
         \A k \in eventsByID' : Pending(queue', k) = Pending(queue, k),
         UNCHANGED <<nextID, async, options, countVars, dispatchDepth, expiring, closed>>
  PROVE  QueueInv'
  <1>1. acts = <<Top>>
    BY TopFacts
  <1>2. ASSUME NEW k \in eventsByID'
        PROVE  CountsAt(k)'
    <2>1. InProgress(acts, k) = 0 /\ InRun(acts, k) = 0
      BY <1>1, OneCounts
    <2>2. InProgress(acts', k) = 0 /\ InRun(acts', k) = 0
      BY DEF InProgress, InRun
    <2>3. InBatch(acts', k) = InBatch(acts, k) /\ Pending(queue', k) = Pending(queue, k)
      OBVIOUS
    <2>4. CountsAt(k)
      BY DEF QueueInv, Balanced, RunsLeft, CountsAt
    <2>5. QED
      BY <2>1, <2>2, <2>3, <2>4 DEF CountsAt, Held, Used, countVars
  <1>3. /\ reservedCount' \in [IDs -> Nat] /\ abandoned' \in [IDs -> Nat]
        /\ \A k \in IDs : k > nextID => reservedCount'[k] = 0 /\ abandoned'[k] = 0
    BY Parts DEF countVars
  <1>4. Len(queue') <= MaxQueuedTasks
    <2>1. queue \in Seq(TasksUpTo(nextID)) /\ Len(queue) <= MaxQueuedTasks
      BY Parts
    <2>2. Len(queue) \in Nat /\ Len(queue') \in Nat
      BY <2>1
    <2>3. QED
      BY <2>1, <2>2, LimitAssumption
  <1>5. DepthAfterClose'
    BY DepthStays
  <1>6. QED
    BY <1>2, <1>3, <1>4, <1>5, Assembled

LEMMA SkipQueue ==
  ASSUME EventsInv, QueueInv, Skip
  PROVE  QueueInv'
  <1>1. /\ acts # <<>> /\ Top.work = "dispatch" /\ Top.phase = "next" /\ Top.todo # <<>>
        /\ Set(Skipped(Top))
        /\ UNCHANGED <<listenerVars, countVars, queue, dispatchDepth, expiring, closed>>
    BY DEF Skip, InPhase
  <1>2. /\ Shape(acts') /\ acts'[1].phase = "next"
        /\ \A k : InBatch(acts', k) = 0
    BY <1>1, NextListener DEF listenerVars
  <1>3. ASSUME NEW k PROVE InBatch(acts, k) = 0
    BY <1>1, TopFacts, OneCounts
  <1>4. QED
    BY <1>1, <1>2, <1>3, PassesOn, Parts DEF listenerVars

LEMMA DropNewestQueue ==
  ASSUME EventsInv, QueueInv, NEW l \in IDs, DropNewest(l)
  PROVE  QueueInv'
  BY GivesBack, Parts DEF DropNewest, Enqueuing, InPhase

LEMMA RejectQueue ==
  ASSUME EventsInv, QueueInv, NEW l \in IDs, Reject(l)
  PROVE  QueueInv'
  BY GivesBack, Parts DEF Reject, Enqueuing, InPhase

\* A debounced trigger makes the oldest task wait anew.
LEMMA MergeQueue ==
  ASSUME EventsInv, QueueInv, NEW l \in IDs, Merge(l)
  PROVE  QueueInv'
  <1> DEFINE i == Oldest(l)
  <1>1. queue \in Seq(TasksUpTo(nextID)) /\ nextID \in Nat /\ OldestFirst(queue)
    BY Parts, Sizes
  <1>2. i \in TasksOf(l) /\ \A k \in TasksOf(l) : i <= k
    BY <1>1, OldestFacts DEF Merge, Merges
  <1>3. i \in DOMAIN queue /\ queue[i].callback = l /\ \A k \in TasksIn(queue, queue[i].callback) : i <= k
    BY <1>2 DEF TasksOf, TasksIn
  <1>4. queue' = [queue EXCEPT ![i].due = FALSE]
    BY DEF Merge
  <1> HIDE DEF i
  <1>5. /\ queue' \in Seq(TasksUpTo(nextID)) /\ Len(queue') = Len(queue)
        /\ \A k : Pending(queue', k) = Pending(queue, k)
        /\ OldestFirst(queue')
    BY <1>1, <1>3, <1>4, DueFacts
  <1>6. QED
    BY <1>5, GivesBack DEF Merge, Enqueuing, InPhase

\* Where a new task goes: the queue, or the queue without the task it replaces.
LEMMA RoomFacts ==
  ASSUME EventsInv, QueueInv, NEW l \in IDs
  PROVE  /\ Room(l) \in Seq(TasksUpTo(nextID)) /\ OldestFirst(Room(l))
         /\ OthersStay(queue, Room(l), l)
         /\ Pending(Room(l), l) = IF Replaces(l) THEN Pending(queue, l) - 1 ELSE Pending(queue, l)
         /\ Replaces(l) => Pending(queue, l) > 0
  <1>1. queue \in Seq(TasksUpTo(nextID)) /\ nextID \in Nat /\ OldestFirst(queue)
    BY Parts, Sizes
  <1>2. TasksOf(l) = TasksIn(queue, l)
    BY DEF TasksOf, TasksIn
  <1>3. CASE Replaces(l)
    <2> DEFINE gone == {Oldest(l)}
    <2>1. Pending(queue, l) > 0
      <3>1. options[l].queueLimit \in Nat /\ options[l].queueLimit > 0
        BY <1>3, ConfigAssumption DEF Replaces, Full, EventsInv, Counters
      <3>2. Pending(queue, l) >= options[l].queueLimit
        BY <1>2, <1>3 DEF Replaces, Full, Pending
      <3>3. Pending(queue, l) \in Nat
        BY <1>1, PendingFacts
      <3>4. QED
        BY <3>1, <3>2, <3>3
    <2>2. TasksOf(l) # {}
      BY <1>1, <1>2, <2>1, PendingFacts
    <2>3. OfListener(gone, queue, l) /\ Cardinality(gone) = 1
      BY <1>1, <1>2, <2>2, OldestFacts, FS_Singleton DEF OfListener
    <2>4. Room(l) = Kept(queue, DOMAIN queue \ gone)
      BY <1>3 DEF Room
    <2> HIDE DEF gone
    <2>5. Pending(Room(l), l) = Pending(queue, l) - Cardinality(gone)
      BY <1>1, <2>3, <2>4, WithoutTasks
    <2>6. /\ Room(l) \in Seq(TasksUpTo(nextID)) /\ OldestFirst(Room(l))
          /\ OthersStay(queue, Room(l), l)
      BY <1>1, <2>3, <2>4, WithoutTasks
    <2>7. QED
      BY <1>3, <2>1, <2>3, <2>5, <2>6
  <1>4. CASE ~Replaces(l)
    BY <1>1, <1>4 DEF Room, OthersStay
  <1>5. QED
    BY <1>3, <1>4

\* The claim becomes the task's.
LEMMA EnqueueQueue ==
  ASSUME EventsInv, QueueInv, NEW l \in IDs, Enqueue(l)
  PROVE  QueueInv'
  <1> DEFINE t == [callback |-> l, due |-> ~options[l].debounce]
             q == Room(l)
  <1>1. /\ acts # <<>> /\ Top.work = "dispatch" /\ Top.phase = "claimed" /\ Top.current = l
        /\ options[l].debounce => TasksOf(l) = {}
        /\ Len(q) < MaxQueuedTasks
        /\ queue' = Append(q, t)
        /\ reservedCount' = IF Replaces(l) /\ reservedCount[l] > 0
                            THEN [reservedCount EXCEPT ![l] = @ - 1] ELSE reservedCount
        /\ Set(Skipped(Top))
        /\ UNCHANGED <<listenerVars, dispatchCount, abandoned, dispatchDepth, expiring, closed>>
    BY DEF Enqueue, Enqueuing, InPhase, Merges, Fits
  <1>2. acts = <<Top>> /\ Top.todo # <<>> /\ l \in 1 .. nextID /\ nextID \in Nat
    BY <1>1, TopFacts, Sizes
  <1>3. /\ Shape(acts') /\ acts'[1].phase = "next"
        /\ \A k : InBatch(acts', k) = 0 /\ InProgress(acts', k) = 0 /\ InRun(acts', k) = 0
    BY <1>1, <1>2, NextListener DEF listenerVars
  <1>4. /\ q \in Seq(TasksUpTo(nextID)) /\ OldestFirst(q) /\ OthersStay(queue, q, l)
        /\ Pending(q, l) = IF Replaces(l) THEN Pending(queue, l) - 1 ELSE Pending(queue, l)
        /\ Replaces(l) => Pending(queue, l) > 0
    BY RoomFacts
  <1>5. t \in TasksUpTo(nextID) /\ t.callback = l /\ (t.due \/ Pending(q, l) = 0)
    <2>1. options[l].debounce \in BOOLEAN
      BY ConfigAssumption DEF EventsInv, Counters
    <2>2. t \in TasksUpTo(nextID) /\ t.callback = l /\ (options[l].debounce \/ t.due)
      BY <1>2, <2>1 DEF TasksUpTo
    <2>3. options[l].debounce => Pending(q, l) = 0
      <3>1. SUFFICES ASSUME options[l].debounce PROVE Pending(q, l) = 0
        OBVIOUS
      <3>2. TasksIn(queue, l) = {}
        BY <1>1, <3>1 DEF TasksOf, TasksIn
      <3>3. Pending(queue, l) = 0
        BY <3>2, FS_EmptySet DEF Pending
      <3>4. QED
        BY <1>4, <3>3
    <2>4. QED
      BY <2>2, <2>3
  <1> HIDE DEF t, q
  <1>6. /\ queue' \in Seq(TasksUpTo(nextID)) /\ Len(queue') = Len(q) + 1
        /\ OldestFirst(queue')
        /\ \A k : Pending(queue', k) = IF t.callback = k THEN Pending(q, k) + 1 ELSE Pending(q, k)
    BY <1>1, <1>2, <1>4, <1>5, AppendFacts
  <1>7. Len(queue') <= MaxQueuedTasks
    <2>1. Len(q) \in Nat
      BY <1>4
    <2>2. QED
      BY <1>1, <1>6, <2>1, LimitAssumption
  <1>8. /\ reservedCount' \in [IDs -> Nat] /\ abandoned' \in [IDs -> Nat]
        /\ \A k \in IDs : k > nextID => reservedCount'[k] = 0 /\ abandoned'[k] = 0
        /\ \A k \in IDs :
             reservedCount'[k] = IF k = l /\ Replaces(l) /\ reservedCount[k] > 0
                                   THEN reservedCount[k] - 1 ELSE reservedCount[k]
    <2>1. CASE Replaces(l) /\ reservedCount[l] > 0
      <3>1. /\ reservedCount' = [reservedCount EXCEPT ![l] = reservedCount[l] - 1]
            /\ UNCHANGED abandoned
        BY <1>1, <2>1
      <3>2. reservedCount[l] - 1 \in Nat
        BY <2>1, Sizes
      <3>3. QED
        BY <1>2, <2>1, <3>1, <3>2, ClaimsFacts
    <2>2. CASE ~(Replaces(l) /\ reservedCount[l] > 0)
      BY <1>1, <2>2, Parts
    <2>3. QED
      BY <2>1, <2>2
  <1>9. ASSUME NEW k \in eventsByID
        PROVE  CountsAt(k)'
    <2>1. /\ InBatch(acts, k) = 0
          /\ InProgress(acts, k) = IF k = l THEN 1 ELSE 0
          /\ InRun(acts, k) = IF k = l THEN 1 ELSE 0
      BY <1>1, <1>2, OneCounts
    <2>2. InBatch(acts', k) = 0 /\ InProgress(acts', k) = 0 /\ InRun(acts', k) = 0
      BY <1>3
    <2>3. /\ k \in IDs /\ reservedCount[k] \in Nat /\ abandoned[k] \in Nat
          /\ dispatchCount[k] \in Nat /\ options[k].limit \in Nat /\ Pending(queue, k) \in Nat
          /\ reservedCount[k]
               = Pending(queue, k) + InBatch(acts, k) + InProgress(acts, k) + abandoned[k]
          /\ k \notin expiring /\ options[k].limit > 0 /\ Pending(queue, k) > 0
               => dispatchCount[k] + InRun(acts, k) + Pending(queue, k) + InBatch(acts, k)
                    <= options[k].limit
      BY At
    <2>4. reservedCount'[k] = IF k = l /\ Replaces(l) /\ reservedCount[k] > 0
                                THEN reservedCount[k] - 1 ELSE reservedCount[k]
      BY <1>8, <2>3
    <2>5. UNCHANGED <<options, dispatchCount, abandoned, expiring>>
      BY <1>1 DEF listenerVars
    <2>6. CASE k = l
      <3>1. Pending(queue', k) = Pending(q, k) + 1
        BY <1>5, <1>6, <2>6
      <3>2. Pending(q, k) = IF Replaces(l) THEN Pending(queue, k) - 1 ELSE Pending(queue, k)
        BY <1>4, <2>6
      <3>3. Replaces(l) => Pending(queue, k) > 0
        BY <1>4, <2>6
      <3>4. reservedCount'[k] = Pending(queue', k) + abandoned[k]
        BY <2>1, <2>3, <2>4, <2>6, <3>1, <3>2, <3>3
      <3>5. k \notin expiring /\ options[k].limit > 0
              => dispatchCount[k] < options[k].limit
        BY <1>1, <2>3, TopFacts DEF EventsInv, Bounded, Settling
      <3>6. k \notin expiring /\ options[k].limit > 0
              => dispatchCount[k] + Pending(queue', k) <= options[k].limit
        <4>1. CASE Pending(queue, k) > 0
          BY <2>1, <2>3, <2>6, <3>1, <3>2, <4>1
        <4>2. CASE Pending(queue, k) = 0
          BY <2>3, <3>1, <3>2, <3>3, <3>5, <4>2
        <4>3. QED
          BY <2>3, <4>1, <4>2
      <3>7. Pending(queue', k) \in Nat
        BY <2>3, <3>1, <3>2, <3>3
      <3>8. QED
        BY <2>2, <2>3, <2>5, <3>4, <3>6, <3>7 DEF CountsAt, Held, Used
    <2>7. CASE k # l
      <3>1. Pending(queue', k) = Pending(queue, k)
        BY <1>4, <1>5, <1>6, <2>7 DEF OthersStay
      <3>2. reservedCount'[k] = reservedCount[k]
        BY <2>4, <2>7
      <3>3. QED
        BY <2>1, <2>2, <2>3, <2>5, <2>7, <3>1, <3>2 DEF CountsAt, Held, Used
    <2>8. QED
      BY <2>6, <2>7
  <1>10. DepthAfterClose'
    BY <1>1, <1>3, DepthStays
  <1>11. QED
    BY <1>1, <1>3, <1>6, <1>7, <1>8, <1>9, <1>10, Assembled, Parts DEF listenerVars

\* A batch takes its tasks, and their claims, out of the queue.
LEMMA TakeQueue ==
  ASSUME EventsInv, QueueInv, Take
  PROVE  QueueInv'
  <1> DEFINE taken == Drainable(Top.force, MaxTasksPerDrain - Top.processed)
             batch == Kept(queue, taken)
             rest  == Kept(queue, DOMAIN queue \ taken)
             todo  == [i \in DOMAIN batch |-> batch[i].callback]
             b     == [Top EXCEPT !.todo = todo]
  <1>1. /\ acts # <<>> /\ Top.work = "drain" /\ Top.phase = "next" /\ Top.todo = <<>>
        /\ queue' = rest
        /\ Set(b)
        /\ UNCHANGED <<listenerVars, countVars, dispatchDepth, expiring, closed>>
    BY DEF Take, InPhase
  <1>2. /\ queue \in Seq(TasksUpTo(nextID)) /\ nextID \in Nat /\ OldestFirst(queue)
        /\ Len(queue) <= MaxQueuedTasks /\ 1 .. nextID \subseteq IDs
    BY Parts, Sizes
  <1>3. taken \in SUBSET DOMAIN queue /\ DOMAIN queue \ taken \in SUBSET DOMAIN queue
    BY DEF Drainable, Due
  <1> HIDE DEF taken
  <1>4. /\ rest \in Seq(TasksUpTo(nextID)) /\ Len(rest) <= Len(queue) /\ OldestFirst(rest)
    BY <1>2, <1>3, KeptTasks
  <1>5. batch \in Seq(TasksUpTo(nextID)) /\ Len(batch) <= Len(queue)
    BY <1>2, <1>3, KeptTasks
  <1>6. \A k : Pending(rest, k) = Pending(queue, k) - Pending(batch, k)
    BY <1>2, <1>3, PartTasks
  <1> HIDE DEF batch, rest
  <1>7. /\ todo \in Seq(1 .. nextID) /\ Len(todo) = Len(batch)
        /\ \A k : Waiting(todo, k) = Pending(batch, k)
    BY <1>2, <1>5, BatchFacts
  <1>8. todo \in Seq(IDs)
    <2>1. \A s \in Seq(1 .. nextID) : s \in Seq(IDs)
      BY <1>2
    <2>2. QED
      BY <1>7, <2>1
  <1> HIDE DEF todo
  <1>9. /\ acts = <<Top>> /\ Top \in Acts
    BY <1>1, TopFacts
  <1>10. /\ b \in Acts /\ b.todo = todo /\ b.work = "drain" /\ b.phase = "next"
    BY <1>1, <1>8, <1>9 DEF Acts
  <1>11. acts' = <<b>> /\ acts' # <<>> /\ acts'[1] = b
    BY <1>1, OneActivity DEF EventsInv
  <1> HIDE DEF b
  <1>12. Len(rest) <= MaxQueuedTasks /\ Len(todo) <= MaxQueuedTasks
    <2>1. Len(rest) \in Nat /\ Len(batch) \in Nat /\ Len(queue) \in Nat
      BY <1>2, <1>4, <1>5
    <2>2. QED
      BY <1>2, <1>4, <1>5, <1>7, <2>1, LimitAssumption
  <1>13. Shape(acts')
    <2>1. Shape(<<b>>)
      BY <1>7, <1>10, <1>12, ShapeFacts
    <2>2. QED
      BY <1>11, <2>1
  <1>14. ASSUME NEW k \in eventsByID
         PROVE  CountsAt(k)'
    <2>1. InBatch(acts, k) = 0 /\ InProgress(acts, k) = 0 /\ InRun(acts, k) = 0
      <3>1. Rest(Top) = <<>>
        BY <1>1 DEF Rest
      <3>2. QED
        BY <1>1, <1>9, <3>1, OneCounts, NoneWaiting
    <2>2. InBatch(acts', k) = Pending(batch, k) /\ InProgress(acts', k) = 0 /\ InRun(acts', k) = 0
      <3>1. Rest(b) = todo
        BY <1>10 DEF Rest
      <3>2. Waiting(todo, k) = Pending(batch, k)
        BY <1>7
      <3>3. QED
        BY <1>10, <1>11, <3>1, <3>2, OneCounts
    <2>3. /\ reservedCount[k] \in Nat /\ abandoned[k] \in Nat
          /\ dispatchCount[k] \in Nat /\ options[k].limit \in Nat /\ Pending(queue, k) \in Nat
          /\ reservedCount[k]
               = Pending(queue, k) + InBatch(acts, k) + InProgress(acts, k) + abandoned[k]
          /\ k \notin expiring /\ options[k].limit > 0 /\ Pending(queue, k) > 0
               => dispatchCount[k] + InRun(acts, k) + Pending(queue, k) + InBatch(acts, k)
                    <= options[k].limit
      BY At
    <2>4. /\ Pending(queue', k) = Pending(queue, k) - Pending(batch, k)
          /\ Pending(queue', k) \in Nat /\ Pending(batch, k) \in Nat
      BY <1>1, <1>2, <1>4, <1>5, <1>6, PendingFacts
    <2>5. UNCHANGED <<options, reservedCount, dispatchCount, abandoned, expiring>>
      BY <1>1 DEF listenerVars, countVars
    <2>6. QED
      BY <2>1, <2>2, <2>3, <2>4, <2>5 DEF CountsAt, Held, Used
  <1>15. DepthAfterClose'
    BY <1>1, <1>10, <1>11, DepthStays
  <1>16. QED
    BY <1>1, <1>4, <1>12, <1>13, <1>14, <1>15, Assembled, Parts DEF listenerVars, countVars

\* The next task of a batch is the claim in progress.
LEMMA AcceptQueue ==
  ASSUME EventsInv, QueueInv, Accept
  PROVE  QueueInv'
  <1> DEFINE l == Head(Top.todo)
             b == [Top EXCEPT !.phase = "claimed", !.current = l, !.processed = @ + 1]
  <1>1. /\ acts # <<>> /\ Top.work = "drain" /\ Top.phase = "next" /\ Top.todo # <<>>
        /\ Active(l)
        /\ Set(b)
        /\ UNCHANGED <<listenerVars, countVars, queue, dispatchDepth, expiring, closed>>
    BY DEF Accept, InPhase
  <1>2. /\ acts = <<Top>> /\ Top \in Acts /\ Top.todo \in Seq(1 .. nextID)
        /\ Len(Top.todo) <= MaxQueuedTasks /\ nextID \in Nat
    BY <1>1, TopFacts, Sizes
  <1>3. l \in eventsByID /\ l \in IDs
    BY <1>1, Sizes DEF Active
  <1>4. /\ b \in Acts /\ b.todo = Top.todo /\ b.work = "drain"
        /\ b.phase = "claimed" /\ b.current = l
    <2>1. Top.processed + 1 \in Nat
      BY <1>2 DEF Acts
    <2> HIDE DEF l
    <2>2. QED
      BY <1>1, <1>2, <1>3, <2>1 DEF Acts, Phases
  <1>5. acts' = <<b>> /\ acts' # <<>> /\ acts'[1] = b
    BY <1>1, OneActivity DEF EventsInv
  <1>6. \A k : Waiting(Top.todo, k) = IF l = k THEN Waiting(Tail(Top.todo), k) + 1
                                              ELSE Waiting(Tail(Top.todo), k)
    BY <1>1, <1>2, TailFacts
  <1>7. Tail(Top.todo) \in Seq(1 .. nextID)
    BY <1>1, <1>2, TailFacts
  <1> HIDE DEF b, l
  <1>8. Shape(acts')
    <2>1. Shape(<<b>>)
      BY <1>1, <1>2, <1>4, ShapeFacts
    <2>2. QED
      BY <1>5, <2>1
  <1>9. ASSUME NEW k \in eventsByID
        PROVE  CountsAt(k)'
    <2>1. /\ InBatch(acts, k) = Waiting(Top.todo, k)
          /\ InProgress(acts, k) = 0 /\ InRun(acts, k) = 0
      <3>1. Rest(Top) = Top.todo
        BY <1>1 DEF Rest
      <3>2. QED
        BY <1>1, <1>2, <3>1, OneCounts
    <2>2. /\ InBatch(acts', k) = Waiting(Tail(Top.todo), k)
          /\ InProgress(acts', k) = IF k = l THEN 1 ELSE 0
          /\ InRun(acts', k) = IF k = l THEN 1 ELSE 0
      <3>1. Rest(b) = Tail(Top.todo)
        BY <1>4 DEF Rest
      <3>2. QED
        BY <1>4, <1>5, <3>1, OneCounts
    <2>3. /\ Waiting(Tail(Top.todo), k) \in Nat
          /\ Waiting(Top.todo, k) = IF l = k THEN Waiting(Tail(Top.todo), k) + 1
                                             ELSE Waiting(Tail(Top.todo), k)
      BY <1>2, <1>6, <1>7, WaitingFacts
    <2>4. /\ abandoned[k] \in Nat /\ dispatchCount[k] \in Nat /\ Pending(queue, k) \in Nat
          /\ reservedCount[k]
               = Pending(queue, k) + InBatch(acts, k) + InProgress(acts, k) + abandoned[k]
          /\ k \notin expiring /\ options[k].limit > 0 /\ Pending(queue, k) > 0
               => dispatchCount[k] + InRun(acts, k) + Pending(queue, k) + InBatch(acts, k)
                    <= options[k].limit
      BY At
    <2>5. UNCHANGED <<options, reservedCount, dispatchCount, abandoned, expiring, queue>>
      BY <1>1 DEF listenerVars, countVars
    <2>6. /\ InBatch(acts', k) + InProgress(acts', k) = InBatch(acts, k) + InProgress(acts, k)
          /\ InBatch(acts', k) + InRun(acts', k) = InBatch(acts, k) + InRun(acts, k)
          /\ InBatch(acts', k) \in Nat /\ InProgress(acts', k) \in Nat /\ InRun(acts', k) \in Nat
          /\ InBatch(acts, k) \in Nat /\ InProgress(acts, k) \in Nat /\ InRun(acts, k) \in Nat
      BY <2>1, <2>2, <2>3
    <2>7. /\ Pending(queue, k) + InBatch(acts', k) + InProgress(acts', k) + abandoned[k]
               = Pending(queue, k) + InBatch(acts, k) + InProgress(acts, k) + abandoned[k]
          /\ dispatchCount[k] + InRun(acts', k) + Pending(queue, k) + InBatch(acts', k)
               = dispatchCount[k] + InRun(acts, k) + Pending(queue, k) + InBatch(acts, k)
      <3>1. \A x, y, z, u, v, w \in Nat :
              x + y = z + u => v + x + y + w = v + z + u + w /\ w + y + v + x = w + u + v + z
        OBVIOUS
      <3>2. /\ abandoned[k] \in Nat /\ dispatchCount[k] \in Nat /\ Pending(queue, k) \in Nat
        BY <2>4
      <3>3. QED
        BY <2>6, <3>1, <3>2
    <2>8. QED
      BY <2>4, <2>5, <2>7 DEF CountsAt, Held, Used
  <1>10. DepthAfterClose'
    BY <1>1, <1>4, <1>5, DepthStays
  <1>11. QED
    BY <1>1, <1>8, <1>9, <1>10, Assembled, Parts DEF listenerVars, countVars

\* Or its claim is given back.
LEMMA DiscardQueue ==
  ASSUME EventsInv, QueueInv, Discard
  PROVE  QueueInv'
  <1> DEFINE l == Head(Top.todo)
             b == [Skipped(Top) EXCEPT !.processed = @ + 1]
  <1>1. /\ acts # <<>> /\ Top.work = "drain" /\ Top.phase = "next" /\ Top.todo # <<>>
        /\ Release(l)
        /\ Set(b)
        /\ UNCHANGED <<listenerVars, dispatchCount, abandoned, queue, dispatchDepth,
                       expiring, closed>>
    BY DEF Discard, InPhase
  <1>2. /\ acts = <<Top>> /\ Top \in Acts /\ Top.todo \in Seq(1 .. nextID)
        /\ Len(Top.todo) <= MaxQueuedTasks /\ nextID \in Nat /\ 1 .. nextID \subseteq IDs
    BY <1>1, TopFacts, Sizes
  <1>3. /\ l \in 1 .. nextID /\ Tail(Top.todo) \in Seq(1 .. nextID)
        /\ Len(Tail(Top.todo)) <= Len(Top.todo)
    BY <1>1, <1>2, TailFacts
  <1>4. \A k : Waiting(Top.todo, k) = IF l = k THEN Waiting(Tail(Top.todo), k) + 1
                                              ELSE Waiting(Tail(Top.todo), k)
    BY <1>1, <1>2, TailFacts
  <1>5. Tail(Top.todo) \in Seq(IDs) /\ Len(Tail(Top.todo)) <= MaxQueuedTasks
    <2>1. \A s \in Seq(1 .. nextID) : s \in Seq(IDs)
      BY <1>2
    <2>2. Len(Tail(Top.todo)) \in Nat /\ Len(Top.todo) \in Nat
      BY <1>2, <1>3
    <2>3. Len(Tail(Top.todo)) <= MaxQueuedTasks
      BY <1>2, <1>3, <2>2, LimitAssumption
    <2>4. Tail(Top.todo) \in Seq(IDs)
      BY <1>3, <2>1
    <2>5. QED
      BY <2>3, <2>4
  <1>6. /\ b \in Acts /\ b.todo = Tail(Top.todo) /\ b.work = "drain" /\ b.phase = "next"
    <2> DEFINE a == Skipped(Top)
    <2>1. /\ a \in Acts /\ a.todo = Tail(Top.todo) /\ a.work = "drain" /\ a.phase = "next"
      BY <1>1, <1>2, <1>5 DEF Skipped, Acts, Phases
    <2>2. a.processed + 1 \in Nat
      BY <2>1 DEF Acts
    <2> HIDE DEF a
    <2>3. /\ [a EXCEPT !.processed = @ + 1] \in Acts
          /\ [a EXCEPT !.processed = @ + 1].todo = a.todo
          /\ [a EXCEPT !.processed = @ + 1].work = a.work
          /\ [a EXCEPT !.processed = @ + 1].phase = a.phase
      BY <2>1, <2>2 DEF Acts
    <2>4. QED
      BY <2>1, <2>3 DEF a
  <1>7. acts' = <<b>> /\ acts' # <<>> /\ acts'[1] = b
    BY <1>1, OneActivity DEF EventsInv
  <1> HIDE DEF b, l
  <1>8. Shape(acts')
    <2>1. Shape(<<b>>)
      BY <1>3, <1>5, <1>6, ShapeFacts
    <2>2. QED
      BY <1>7, <2>1
  <1>9. /\ reservedCount' \in [IDs -> Nat] /\ abandoned' \in [IDs -> Nat]
        /\ \A k \in IDs : k > nextID => reservedCount'[k] = 0 /\ abandoned'[k] = 0
        /\ \A k \in eventsByID :
             reservedCount'[k] = IF k = l /\ reservedCount[k] > 0 THEN reservedCount[k] - 1
                                                                   ELSE reservedCount[k]
    BY <1>1, <1>3, ReleaseFacts
  <1>10. ASSUME NEW k \in eventsByID
         PROVE  CountsAt(k)'
    <2>1. /\ InBatch(acts, k) = Waiting(Top.todo, k)
          /\ InProgress(acts, k) = 0 /\ InRun(acts, k) = 0
      <3>1. Rest(Top) = Top.todo
        BY <1>1 DEF Rest
      <3>2. QED
        BY <1>1, <1>2, <3>1, OneCounts
    <2>2. /\ InBatch(acts', k) = Waiting(Tail(Top.todo), k)
          /\ InProgress(acts', k) = 0 /\ InRun(acts', k) = 0
      <3>1. Rest(b) = Tail(Top.todo)
        BY <1>6 DEF Rest
      <3>2. QED
        BY <1>6, <1>7, <3>1, OneCounts
    <2>3. /\ Waiting(Tail(Top.todo), k) \in Nat
          /\ Waiting(Top.todo, k) = IF l = k THEN Waiting(Tail(Top.todo), k) + 1
                                             ELSE Waiting(Tail(Top.todo), k)
      BY <1>2, <1>3, <1>4, WaitingFacts
    <2>4. /\ reservedCount[k] \in Nat /\ abandoned[k] \in Nat
          /\ dispatchCount[k] \in Nat /\ options[k].limit \in Nat /\ Pending(queue, k) \in Nat
          /\ reservedCount[k]
               = Pending(queue, k) + InBatch(acts, k) + InProgress(acts, k) + abandoned[k]
          /\ k \notin expiring /\ options[k].limit > 0 /\ Pending(queue, k) > 0
               => dispatchCount[k] + InRun(acts, k) + Pending(queue, k) + InBatch(acts, k)
                    <= options[k].limit
      BY At
    <2>5. reservedCount'[k] = IF k = l /\ reservedCount[k] > 0 THEN reservedCount[k] - 1
                                                                ELSE reservedCount[k]
      BY <1>9
    <2>6. UNCHANGED <<options, dispatchCount, abandoned, expiring, queue>>
      BY <1>1 DEF listenerVars
    <2>7. reservedCount'[k] = Pending(queue, k) + Waiting(Tail(Top.todo), k) + abandoned[k]
      BY <2>1, <2>3, <2>4, <2>5
    <2>8. k \notin expiring /\ options[k].limit > 0 /\ Pending(queue, k) > 0
            => dispatchCount[k] + Pending(queue, k) + Waiting(Tail(Top.todo), k)
                 <= options[k].limit
      BY <2>1, <2>3, <2>4
    <2>9. QED
      BY <2>2, <2>3, <2>4, <2>6, <2>7, <2>8 DEF CountsAt, Held, Used
  <1>11. DepthAfterClose'
    BY <1>1, <1>6, <1>7, DepthStays
  <1>12. QED
    BY <1>1, <1>8, <1>9, <1>10, <1>11, Assembled, Parts DEF listenerVars

LEMMA StartQueue ==
  ASSUME EventsInv, QueueInv, Start
  PROVE  QueueInv'
  <1> DEFINE b == [Top EXCEPT !.phase = "running"]
  <1>1. /\ acts # <<>> /\ Top.phase = "claimed"
        /\ Set(b)
        /\ UNCHANGED <<listenerVars, countVars, queue, expiring, closed>>
    BY DEF Start, InPhase
  <1>2. /\ Top = acts[1] /\ acts = <<Top>> /\ Top \in Acts /\ Top.todo \in Seq(1 .. nextID)
        /\ Top.todo # <<>> /\ (Top.work = "drain" => Len(Top.todo) <= MaxQueuedTasks)
    BY <1>1, TopFacts
  <1>3. /\ b \in Acts /\ b.todo = Top.todo /\ b.work = Top.work
        /\ b.phase = "running" /\ b.current = Top.current
    BY <1>1, <1>2 DEF Acts, Phases
  <1>4. acts' = <<b>>
    BY <1>1, OneActivity DEF EventsInv
  <1> HIDE DEF b
  <1>5. Shape(acts')
    <2>1. Shape(<<b>>)
      BY <1>2, <1>3, ShapeFacts
    <2>2. QED
      BY <1>4, <2>1
  <1>6. ASSUME NEW k \in eventsByID
        PROVE  CountsAt(k)'
    <2>1. Rest(b) = Rest(Top)
      BY <1>1, <1>3 DEF Rest
    <2>2. /\ InBatch(acts', k) = InBatch(acts, k)
          /\ InProgress(acts', k) = InProgress(acts, k)
          /\ InRun(acts', k) = InRun(acts, k)
      BY <1>1, <1>2, <1>3, <1>4, <2>1, OneCounts
    <2>3. CountsAt(k)
      BY DEF QueueInv, Balanced, RunsLeft, CountsAt
    <2>4. QED
      BY <1>1, <2>2, <2>3 DEF CountsAt, Held, Used, listenerVars, countVars
  <1>7. DepthAfterClose'
    BY <1>1, <1>2 DEF EventsInv, ClosedQuiet, DepthAfterClose
  <1>8. QED
    BY <1>1, <1>5, <1>6, <1>7, Assembled, Parts DEF listenerVars, countVars

\* The run in progress becomes a run, and its claim stays until finishDispatch.
LEMMA ReturnQueue ==
  ASSUME EventsInv, QueueInv, NEW failed \in BOOLEAN, Return(failed)
  PROVE  QueueInv'
  <1> DEFINE l == Top.current
             b == [Top EXCEPT !.phase = "returned", !.failed = failed]
  <1>1. /\ acts # <<>> /\ Top.phase = "running"
        /\ dispatchDepth' = dispatchDepth - 1
        /\ dispatchCount' = [dispatchCount EXCEPT ![l] = @ + 1]
        /\ Set(b)
        /\ UNCHANGED <<listenerVars, reservedCount, abandoned, queue, expiring, closed>>
    BY DEF Return, InPhase
  <1>2. /\ Top = acts[1] /\ acts = <<Top>> /\ Top \in Acts /\ Top.todo \in Seq(1 .. nextID)
        /\ Top.todo # <<>> /\ (Top.work = "drain" => Len(Top.todo) <= MaxQueuedTasks)
    BY <1>1, TopFacts
  <1>3. /\ b \in Acts /\ b.todo = Top.todo /\ b.work = Top.work
        /\ b.phase = "returned" /\ b.current = l
    BY <1>1, <1>2 DEF Acts, Phases
  <1>4. acts' = <<b>> /\ acts' # <<>> /\ acts'[1] = b
    BY <1>1, OneActivity DEF EventsInv
  <1> HIDE DEF b
  <1>5. Shape(acts')
    <2>1. Shape(<<b>>)
      BY <1>2, <1>3, ShapeFacts
    <2>2. QED
      BY <1>4, <2>1
  <1>6. ASSUME NEW k \in eventsByID
        PROVE  CountsAt(k)'
    <2>1. Rest(b) = Rest(Top)
      BY <1>1, <1>3 DEF Rest
    <2>2. /\ InBatch(acts', k) = InBatch(acts, k)
          /\ InProgress(acts', k) = InProgress(acts, k)
      BY <1>1, <1>2, <1>3, <1>4, <2>1, OneCounts
    <2>3. InRun(acts', k) = 0 /\ InRun(acts, k) = IF k = l THEN 1 ELSE 0
      BY <1>1, <1>2, <1>3, <1>4, OneCounts
    <2>4. /\ k \in IDs /\ dispatchCount[k] \in Nat /\ Pending(queue, k) \in Nat
          /\ InBatch(acts, k) \in Nat /\ options[k].limit \in Nat
          /\ reservedCount[k]
               = Pending(queue, k) + InBatch(acts, k) + InProgress(acts, k) + abandoned[k]
          /\ k \notin expiring /\ options[k].limit > 0 /\ Pending(queue, k) > 0
               => dispatchCount[k] + InRun(acts, k) + Pending(queue, k) + InBatch(acts, k)
                    <= options[k].limit
      BY At
    <2> HIDE DEF l
    <2>5. dispatchCount'[k] = IF k = l THEN dispatchCount[k] + 1 ELSE dispatchCount[k]
      BY <1>1, <2>4 DEF EventsInv, Counters
    <2>6. dispatchCount'[k] + InRun(acts', k) + Pending(queue, k) + InBatch(acts, k)
            = dispatchCount[k] + InRun(acts, k) + Pending(queue, k) + InBatch(acts, k)
      BY <2>3, <2>4, <2>5
    <2>7. UNCHANGED <<options, reservedCount, abandoned, expiring, queue>>
      BY <1>1 DEF listenerVars
    <2>8. QED
      BY <2>2, <2>4, <2>6, <2>7 DEF CountsAt, Held, Used
  <1>7. DepthAfterClose'
    BY <1>1, <1>2, <1>3, <1>4 DEF QueueInv, DepthAfterClose
  <1>8. QED
    BY <1>1, <1>5, <1>6, <1>7, Assembled, Parts DEF listenerVars

\* finishDispatch gives the claim of the run back.
LEMMA FinishQueue ==
  ASSUME EventsInv, QueueInv, Finish
  PROVE  QueueInv'
  <1> DEFINE l == Top.current
             phase == IF Exhausted(l) THEN "expire" ELSE "resolve"
             b == [Top EXCEPT !.phase = phase]
  <1>1. /\ acts # <<>> /\ Top.phase = "returned"
        /\ reservedCount' = IF reservedCount[l] > 0
                            THEN [reservedCount EXCEPT ![l] = @ - 1] ELSE reservedCount
        /\ Set(b)
        /\ UNCHANGED <<listenerVars, dispatchCount, abandoned, queue, dispatchDepth,
                       expiring, closed>>
    BY DEF Finish, InPhase
  <1>2. /\ acts = <<Top>> /\ Top \in Acts /\ Top.todo \in Seq(1 .. nextID)
        /\ Top.todo # <<>> /\ (Top.work = "drain" => Len(Top.todo) <= MaxQueuedTasks)
        /\ l \in 1 .. nextID
    BY <1>1, TopFacts
  <1>3. phase \in {"expire", "resolve"}
    OBVIOUS
  <1> HIDE DEF phase
  <1>4. /\ b \in Acts /\ b.todo = Top.todo /\ b.work = Top.work
        /\ b.phase = phase /\ b.current = l
    BY <1>1, <1>2, <1>3 DEF Acts, Phases
  <1>5. acts' = <<b>> /\ acts' # <<>> /\ acts'[1] = b
    BY <1>1, OneActivity DEF EventsInv
  <1> HIDE DEF b
  <1>6. Shape(acts')
    <2>1. Shape(<<b>>)
      BY <1>2, <1>4, ShapeFacts
    <2>2. QED
      BY <1>5, <2>1
  <1>7. /\ reservedCount' \in [IDs -> Nat] /\ abandoned' \in [IDs -> Nat]
        /\ \A k \in IDs : k > nextID => reservedCount'[k] = 0 /\ abandoned'[k] = 0
        /\ \A k \in IDs :
             reservedCount'[k] = IF k = l /\ reservedCount[k] > 0 THEN reservedCount[k] - 1
                                                                   ELSE reservedCount[k]
    <2>1. l \in IDs /\ reservedCount[l] \in Nat
      BY <1>2, Sizes
    <2>2. CASE reservedCount[l] > 0
      <3>1. reservedCount' = [reservedCount EXCEPT ![l] = reservedCount[l] - 1] /\ UNCHANGED abandoned
        BY <1>1, <2>2
      <3>2. reservedCount[l] - 1 \in Nat
        BY <2>1, <2>2
      <3>3. QED
        BY <1>2, <2>2, <3>1, <3>2, ClaimsFacts
    <2>3. CASE ~(reservedCount[l] > 0)
      BY <1>1, <2>3, Parts
    <2>4. QED
      BY <2>2, <2>3
  <1>8. ASSUME NEW k \in eventsByID
        PROVE  CountsAt(k)'
    <2>1. Rest(b) = Rest(Top)
      BY <1>1, <1>3, <1>4 DEF Rest
    <2>2. /\ InBatch(acts', k) = InBatch(acts, k)
          /\ InRun(acts, k) = 0 /\ InRun(acts', k) = 0
      BY <1>1, <1>2, <1>3, <1>4, <1>5, <2>1, OneCounts
    <2>3. InProgress(acts', k) = 0 /\ InProgress(acts, k) = IF k = l THEN 1 ELSE 0
      BY <1>1, <1>2, <1>3, <1>4, <1>5, OneCounts
    <2>4. /\ k \in IDs /\ reservedCount[k] \in Nat /\ abandoned[k] \in Nat
          /\ Pending(queue, k) \in Nat /\ InBatch(acts, k) \in Nat
          /\ reservedCount[k]
               = Pending(queue, k) + InBatch(acts, k) + InProgress(acts, k) + abandoned[k]
          /\ k \notin expiring /\ options[k].limit > 0 /\ Pending(queue, k) > 0
               => dispatchCount[k] + InRun(acts, k) + Pending(queue, k) + InBatch(acts, k)
                    <= options[k].limit
      BY At
    <2> HIDE DEF l
    <2>5. reservedCount'[k] = IF k = l /\ reservedCount[k] > 0 THEN reservedCount[k] - 1
                                                                ELSE reservedCount[k]
      BY <1>7, <2>4
    <2>6. reservedCount'[k] = Pending(queue, k) + InBatch(acts', k) + InProgress(acts', k)
                                + abandoned[k]
      BY <2>2, <2>3, <2>4, <2>5
    <2>7. UNCHANGED <<options, dispatchCount, abandoned, expiring, queue>>
      BY <1>1 DEF listenerVars
    <2>8. QED
      BY <2>2, <2>4, <2>6, <2>7 DEF CountsAt, Held, Used
  <1>9. DepthAfterClose'
    BY <1>1, <1>3, <1>4, <1>5, DepthStays
  <1>10. QED
    BY <1>1, <1>6, <1>7, <1>8, <1>9, Assembled, Parts DEF listenerVars

LEMMA ExpireQueue ==
  ASSUME EventsInv, QueueInv, Expire
  PROVE  QueueInv'
  <1> DEFINE b == [Top EXCEPT !.phase = "resolve"]
  <1>1. /\ acts # <<>> /\ Top.phase = "expire"
        /\ Removed(Top.current)
        /\ Set(b)
        /\ UNCHANGED <<nextID, async, options, countVars, dispatchDepth, expiring, closed>>
    BY DEF Expire, InPhase
  <1>2. /\ acts = <<Top>> /\ Top \in Acts /\ Top.todo \in Seq(1 .. nextID)
        /\ Top.todo # <<>> /\ (Top.work = "drain" => Len(Top.todo) <= MaxQueuedTasks)
    BY <1>1, TopFacts
  <1>3. /\ b \in Acts /\ b.todo = Top.todo /\ b.work = Top.work
        /\ b.phase = "resolve" /\ b.current = Top.current
    BY <1>1, <1>2 DEF Acts, Phases
  <1>4. acts' = <<b>> /\ acts' # <<>> /\ acts'[1] = b
    BY <1>1, OneActivity DEF EventsInv
  <1> HIDE DEF b
  <1>5. Shape(acts')
    <2>1. Shape(<<b>>)
      BY <1>2, <1>3, ShapeFacts
    <2>2. QED
      BY <1>4, <2>1
  <1>6. ASSUME NEW k PROVE InBatch(acts', k) = InBatch(acts, k)
    <2>1. Rest(b) = Rest(Top)
      BY <1>1, <1>3 DEF Rest
    <2>2. QED
      BY <1>2, <1>3, <1>4, <2>1, OneCounts
  <1>7. /\ queue' \in Seq(TasksUpTo(nextID)) /\ Len(queue') <= Len(queue)
        /\ eventsByID' = eventsByID \ {Top.current} /\ muted' = muted \ {Top.current}
        /\ \A k \in eventsByID' : Pending(queue', k) = Pending(queue, k)
        /\ OldestFirst(queue')
    BY <1>1, RemovedQueue
  <1>8. eventsByID' \subseteq eventsByID /\ muted' \subseteq eventsByID'
    BY <1>7, Parts
  <1>9. QED
    BY <1>1, <1>3, <1>4, <1>5, <1>6, <1>7, <1>8, PassesOn

\* The batch goes on behind the task that is settled.
LEMMA ResolvedBatch ==
  ASSUME EventsInv, QueueInv, acts # <<>>, Top.phase = "resolve", Set(Skipped(Top)),
         UNCHANGED nextID
  PROVE  /\ Shape(acts') /\ acts' # <<>> /\ acts'[1].phase = "next"
         /\ \A k : InBatch(acts', k) = InBatch(acts, k)
  <1>1. acts = <<Top>> /\ Top.todo # <<>>
    BY TopFacts
  <1>2. /\ Shape(acts') /\ acts' # <<>> /\ acts'[1].phase = "next"
        /\ \A k : InBatch(acts', k) = IF Top.work = "drain" THEN Waiting(Tail(Top.todo), k) ELSE 0
    BY <1>1, NextListener
  <1>3. ASSUME NEW k PROVE InBatch(acts', k) = InBatch(acts, k)
    <2>1. Rest(Top) = Tail(Top.todo)
      BY DEF Rest
    <2>2. InBatch(acts, k) = IF Top.work = "drain" THEN Waiting(Tail(Top.todo), k) ELSE 0
      BY <1>1, <2>1, OneCounts
    <2>3. QED
      BY <1>2, <2>2
  <1>4. QED
    BY <1>2, <1>3

LEMMA ResolveIgnoreQueue ==
  ASSUME EventsInv, QueueInv, ResolveIgnore
  PROVE  QueueInv'
  <1>1. /\ acts # <<>> /\ Top.phase = "resolve" /\ Set(Skipped(Top))
        /\ UNCHANGED <<listenerVars, countVars, queue, dispatchDepth, expiring, closed>>
    BY DEF ResolveIgnore, InPhase
  <1>2. QED
    BY <1>1, ResolvedBatch, PassesOn, Parts DEF listenerVars

LEMMA ResolveMuteQueue ==
  ASSUME EventsInv, QueueInv, ResolveMute
  PROVE  QueueInv'
  <1>1. /\ acts # <<>> /\ Top.phase = "resolve" /\ Set(Skipped(Top))
        /\ muted' = muted \cup ({Top.current} \cap eventsByID)
        /\ UNCHANGED <<nextID, eventsByID, async, options, countVars, queue,
                       dispatchDepth, expiring, closed>>
    BY DEF ResolveMute, Resolving, InPhase
  <1>2. muted' \subseteq eventsByID'
    BY <1>1, Parts
  <1>3. QED
    BY <1>1, <1>2, ResolvedBatch, PassesOn, Parts

LEMMA ResolveRemoveQueue ==
  ASSUME EventsInv, QueueInv, ResolveRemove
  PROVE  QueueInv'
  <1>1. /\ acts # <<>> /\ Top.phase = "resolve" /\ Set(Skipped(Top))
        /\ Removed(Top.current)
        /\ UNCHANGED <<nextID, async, options, countVars, dispatchDepth, expiring, closed>>
    BY DEF ResolveRemove, Resolving, InPhase
  <1>2. /\ queue' \in Seq(TasksUpTo(nextID)) /\ Len(queue') <= Len(queue)
        /\ eventsByID' = eventsByID \ {Top.current} /\ muted' = muted \ {Top.current}
        /\ \A k \in eventsByID' : Pending(queue', k) = Pending(queue, k)
        /\ OldestFirst(queue')
    BY <1>1, RemovedQueue
  <1>3. eventsByID' \subseteq eventsByID /\ muted' \subseteq eventsByID'
    BY <1>2, Parts
  <1>4. QED
    BY <1>1, <1>2, <1>3, ResolvedBatch, PassesOn

\* What an error leaves of a batch is abandoned, claim by claim.
LEMMA ResolvePropagateQueue ==
  ASSUME EventsInv, QueueInv, ResolvePropagate
  PROVE  QueueInv'
  <1> DEFINE rest == Tail(Top.todo)
  <1>1. /\ acts # <<>> /\ Top.phase = "resolve" /\ Leave
        /\ abandoned' = IF Top.work = "drain"
                        THEN [l \in IDs |-> abandoned[l] + Waiting(rest, l)] ELSE abandoned
        /\ UNCHANGED <<listenerVars, reservedCount, dispatchCount, queue,
                       dispatchDepth, expiring, closed>>
    BY DEF ResolvePropagate, Resolving, InPhase
  <1>2. /\ acts = <<Top>> /\ Top \in Acts /\ Top.todo \in Seq(1 .. nextID) /\ Top.todo # <<>>
        /\ nextID \in Nat
    BY <1>1, TopFacts, Sizes
  <1>3. rest \in Seq(1 .. nextID)
    BY <1>2, TailFacts
  <1> HIDE DEF rest
  <1>4. \A l : Waiting(rest, l) \in Nat /\ (Waiting(rest, l) > 0 => l \in 1 .. nextID)
    BY <1>2, <1>3, WaitingFacts
  <1>5. /\ Shape(acts') /\ acts' = <<>>
        /\ \A k : InBatch(acts', k) = 0 /\ InProgress(acts', k) = 0 /\ InRun(acts', k) = 0
    BY <1>1, EndFacts
  <1>6. /\ reservedCount' \in [IDs -> Nat] /\ abandoned' \in [IDs -> Nat]
        /\ \A k \in IDs : k > nextID => reservedCount'[k] = 0 /\ abandoned'[k] = 0
    <2>1. /\ reservedCount \in [IDs -> Nat] /\ abandoned \in [IDs -> Nat]
          /\ \A k \in IDs : k > nextID => reservedCount[k] = 0 /\ abandoned[k] = 0
      BY Parts
    <2>2. \A k \in IDs : k \in Nat
      BY DEF IDs
    <2>3. abandoned' \in [IDs -> Nat]
      BY <1>1, <1>4, <2>1
    <2>4. ASSUME NEW k \in IDs, k > nextID PROVE reservedCount'[k] = 0 /\ abandoned'[k] = 0
      <3>1. Waiting(rest, k) = 0
        BY <1>2, <1>4, <2>2, <2>4
      <3>2. QED
        BY <1>1, <2>1, <2>4, <3>1
    <2>5. QED
      BY <1>1, <2>1, <2>3, <2>4
  <1>7. ASSUME NEW k \in eventsByID
        PROVE  CountsAt(k)'
    <2>1. /\ InBatch(acts, k) = IF Top.work = "drain" THEN Waiting(rest, k) ELSE 0
          /\ InProgress(acts, k) = 0 /\ InRun(acts, k) = 0
      <3>1. Rest(Top) = rest
        BY <1>1 DEF Rest, rest
      <3>2. QED
        BY <1>1, <1>2, <3>1, OneCounts
    <2>2. InBatch(acts', k) = 0 /\ InProgress(acts', k) = 0 /\ InRun(acts', k) = 0
      BY <1>5
    <2>3. /\ k \in IDs /\ reservedCount[k] \in Nat /\ abandoned[k] \in Nat
          /\ dispatchCount[k] \in Nat /\ options[k].limit \in Nat /\ Pending(queue, k) \in Nat
          /\ reservedCount[k]
               = Pending(queue, k) + InBatch(acts, k) + InProgress(acts, k) + abandoned[k]
          /\ k \notin expiring /\ options[k].limit > 0 /\ Pending(queue, k) > 0
               => dispatchCount[k] + InRun(acts, k) + Pending(queue, k) + InBatch(acts, k)
                    <= options[k].limit
      BY At
    <2>4. Waiting(rest, k) \in Nat
      BY <1>4
    <2>5. abandoned'[k] = abandoned[k] + InBatch(acts, k)
      BY <1>1, <2>1, <2>3
    <2>6. UNCHANGED <<options, reservedCount, dispatchCount, expiring, queue>>
      BY <1>1 DEF listenerVars
    <2>7. QED
      BY <2>1, <2>2, <2>3, <2>4, <2>5, <2>6 DEF CountsAt, Held, Used
  <1>8. DepthAfterClose'
    BY <1>1, <1>5, DepthStays
  <1>9. QED
    BY <1>1, <1>5, <1>6, <1>7, <1>8, Assembled, Parts DEF listenerVars

LEMMA EndQueue ==
  ASSUME EventsInv, QueueInv, End
  PROVE  QueueInv'
  <1>1. /\ acts # <<>> /\ Top.phase = "next" /\ Top.todo = <<>> /\ Leave
        /\ UNCHANGED <<listenerVars, countVars, queue, dispatchDepth, expiring, closed>>
    BY DEF End, InPhase
  <1>2. /\ Shape(acts') /\ acts' = <<>>
        /\ \A k : InBatch(acts', k) = 0
    BY <1>1, EndFacts
  <1>3. ASSUME NEW k PROVE InBatch(acts, k) = 0
    <2>1. acts = <<Top>> /\ Rest(Top) = <<>>
      BY <1>1, TopFacts DEF Rest
    <2>2. QED
      BY <2>1, OneCounts, NoneWaiting
  <1>4. QED
    BY <1>1, <1>2, <1>3, PassesOn, Parts DEF listenerVars

\* A new activity holds nothing yet.
LEMMA PushQueue ==
  ASSUME EventsInv, QueueInv, InLua, Admitted, eventsByID # {} \/ queue # <<>>,
         NEW work, NEW force \in BOOLEAN, NEW todo \in Seq(1 .. nextID),
         \/ work = "dispatch"
         \/ work = "drain" /\ todo = <<>>,
         acts' = Append(acts, Activity(work, force, todo)),
         UNCHANGED <<listenerVars, countVars, queue, dispatchDepth, expiring, closed>>
  PROVE  QueueInv'
  <1> DEFINE b == Activity(work, force, todo)
  <1>1. acts = <<>>
    BY StartsAlone
  <1>2. acts' = <<b>> /\ acts' # <<>> /\ acts'[1] = b
    BY <1>1
  <1>3. todo \in Seq(IDs)
    <2>1. 1 .. nextID \subseteq IDs /\ nextID \in Nat
      BY Sizes
    <2>2. \A i \in 1 .. Len(todo) : todo[i] \in IDs
      BY <2>1
    <2>3. QED
      BY <2>2
  <1>4. /\ b \in Acts /\ b.work = work /\ b.todo = todo /\ b.phase = "next"
    BY <1>3 DEF Activity, Acts, Phases
  <1> HIDE DEF b
  <1>5. Shape(acts')
    <2>1. Len(<<>>) <= MaxQueuedTasks
      BY LimitAssumption
    <2>2. Shape(<<b>>)
      BY <1>4, <2>1, ShapeFacts
    <2>3. QED
      BY <1>2, <2>2
  <1>6. ASSUME NEW k \in eventsByID
        PROVE  CountsAt(k)'
    <2>1. InBatch(acts, k) = 0 /\ InProgress(acts, k) = 0 /\ InRun(acts, k) = 0
      BY <1>1, NoneActive
    <2>2. InBatch(acts', k) = 0 /\ InProgress(acts', k) = 0 /\ InRun(acts', k) = 0
      <3>1. Rest(b) = todo
        BY <1>4 DEF Rest
      <3>2. QED
        BY <1>2, <1>4, <3>1, OneCounts, NoneWaiting
    <2>3. CountsAt(k)
      BY DEF QueueInv, Balanced, RunsLeft, CountsAt
    <2>4. QED
      BY <2>1, <2>2, <2>3 DEF CountsAt, Held, Used, listenerVars, countVars
  <1>7. DepthAfterClose'
    BY <1>2, <1>4, DepthStays
  <1>8. QED
    BY <1>5, <1>6, <1>7, Assembled, Parts DEF listenerVars, countVars

LEMMA Listed ==
  ASSUME NEW S, NEW n \in Nat, NEW f \in [1 .. n -> S]
  PROVE  f \in Seq(S)
  OBVIOUS

LEMMA TriggerQueue ==
  ASSUME EventsInv, QueueInv, NEW matching \in SUBSET eventsByID, NEW force \in BOOLEAN,
         Trigger(matching, force)
  PROVE  QueueInv'
  <1>1. PICK s \in Orders(matching) : acts' = Append(acts, Activity("dispatch", force, s))
    BY DEF Trigger
  <1>2. s \in Seq(1 .. nextID)
    <2>1. nextID \in Nat /\ matching \in SUBSET (1 .. nextID)
      BY Sizes
    <2>2. IsFiniteSet(matching)
      BY <2>1, UpTo, FS_Subset
    <2>3. Cardinality(matching) \in Nat
      BY <2>2, FS_CardinalityType
    <2>4. s \in [1 .. Cardinality(matching) -> matching]
      BY <1>1 DEF Orders
    <2>5. s \in [1 .. Cardinality(matching) -> 1 .. nextID]
      BY <2>1, <2>4
    <2>6. QED
      BY <2>3, <2>5, Listed
  <1>3. eventsByID # {}
    BY DEF Trigger
  <1>4. QED
    BY <1>1, <1>2, <1>3, PushQueue DEF Trigger

LEMMA DrainQueue ==
  ASSUME EventsInv, QueueInv, NEW force \in BOOLEAN, Drain(force)
  PROVE  QueueInv'
  <1>1. queue # <<>>
    BY DEF Drain, Due
  <1>2. <<>> \in Seq(1 .. nextID)
    OBVIOUS
  <1>3. QED
    BY <1>1, <1>2, PushQueue DEF Drain

-----------------------------------------------------------------------------
(* The theorems *)

LEMMA InitQueue ==
  ASSUME Init
  PROVE  QueueInv
  <1>1. queue = <<>> /\ DOMAIN queue = {} /\ Len(queue) = 0 /\ queue \in Seq(TasksUpTo(nextID))
    BY DEF Init
  <1>2. Typed /\ DepthAfterClose /\ Balanced /\ RunsLeft
    BY DEF Init, Typed, DepthAfterClose, Balanced, RunsLeft
  <1>3. Known
    BY <1>1 DEF Init, Known
  <1>4. Limited /\ OldestFirst(queue)
    BY <1>1, LimitAssumption DEF Init, Limited, OldestFirst
  <1>5. QED
    BY <1>2, <1>3, <1>4 DEF QueueInv

LEMMA StepQueue ==
  ASSUME EventsInv, QueueInv, [Next]_vars
  PROVE  QueueInv'
  <1>1. CASE Manage
    BY <1>1, RegisterQueue, SetMutedQueue, SetConfigQueue, CloseQueue, DismissQueue
       DEF Manage, Remove
  <1>2. CASE \E l \in IDs : RemoveExpired(l)
    BY <1>2, DismissQueue DEF RemoveExpired
  <1>3. CASE \E i \in DOMAIN queue : DebounceElapsed(i)
    BY <1>3, DebounceElapsedQueue
  <1>4. CASE \E matching \in SUBSET eventsByID, force \in BOOLEAN : Trigger(matching, force)
    BY <1>4, TriggerQueue
  <1>5. CASE \E force \in BOOLEAN : Drain(force)
    BY <1>5, DrainQueue
  <1>6. CASE \E l \in IDs : Merge(l) \/ Enqueue(l) \/ DropNewest(l) \/ Reject(l)
    BY <1>6, MergeQueue, EnqueueQueue, DropNewestQueue, RejectQueue
  <1>7. CASE Claim \/ Skip \/ Take \/ Accept \/ Discard \/ End
    BY <1>7, ClaimQueue, SkipQueue, TakeQueue, AcceptQueue, DiscardQueue, EndQueue
  <1>8. CASE Start \/ (\E failed \in BOOLEAN : Return(failed)) \/ Finish \/ Expire
    BY <1>8, StartQueue, ReturnQueue, FinishQueue, ExpireQueue
  <1>9. CASE ResolveIgnore \/ ResolveMute \/ ResolveRemove \/ ResolvePropagate
    BY <1>9, ResolveIgnoreQueue, ResolveMuteQueue, ResolveRemoveQueue, ResolvePropagateQueue
  <1>10. CASE UNCHANGED vars
    BY <1>10
       DEF vars, QueueInv, Typed, Known, Limited, DepthAfterClose, Balanced, RunsLeft, Held, Used,
           OldestFirst
  <1>11. QED
    BY <1>1, <1>2, <1>3, <1>4, <1>5, <1>6, <1>7, <1>8, <1>9, <1>10 DEF Next, Loops

\* In every reachable state each registered listener's claims are counted, its
\* queued tasks have runs left, and its tasks wait in the order of their triggers.
THEOREM QueueInvariant == Spec => [](EventsInv /\ QueueInv)
  <1>1. Init => EventsInv /\ QueueInv
    BY InitInv, InitQueue
  <1>2. EventsInv /\ QueueInv /\ [Next]_vars => (EventsInv /\ QueueInv)'
    BY StepInv, StepQueue
  <1>3. QED
    BY <1>1, <1>2, PTL DEF Spec

\* Every variable has its type, whatever the limits and configurations are.
THEOREM EventsTypeCorrect == Spec => []TypeOK
  <1>1. EventsInv /\ QueueInv => TypeOK
    <2> SUFFICES ASSUME EventsInv, QueueInv PROVE TypeOK
      OBVIOUS
    <2>1. /\ nextID \in 0 .. MaxIDs /\ eventsByID \subseteq 1 .. nextID
          /\ options \in [IDs -> Configs] /\ dispatchCount \in [IDs -> Nat]
      BY DEF EventsInv, Counters
    <2>2. queue \in Seq(Tasks)
      <3>1. queue \in Seq(TasksUpTo(nextID))
        BY Parts
      <3>2. TasksUpTo(nextID) \subseteq Tasks
        BY Sizes DEF TasksUpTo, Tasks
      <3>3. \A i \in 1 .. Len(queue) : queue[i] \in Tasks
        BY <3>1, <3>2
      <3>4. QED
        BY <3>1, <3>3
    <2>3. dispatchDepth \in {-1, 0, 1}
      BY DEF EventsInv, DepthTracks, QueueInv, Typed, DepthAfterClose
    <2>4. acts \in Seq(Acts)
      <3>1. CASE acts = <<>>
        BY <3>1
      <3>2. ASSUME NEW a, acts = <<a>>, a \in Acts PROVE acts \in Seq(Acts)
        BY <3>2
      <3>3. QED
        BY <3>1, <3>2 DEF EventsInv, Alone, QueueInv, Typed
    <2>5. QED
      BY <2>1, <2>2, <2>3, <2>4 DEF TypeOK, QueueInv, Typed
  <1>2. QED
    BY <1>1, QueueInvariant, PTL

\* The properties count over all activities; there is only one.
LEMMA OneCount ==
  ASSUME EventsInv, QueueInv, NEW l
  PROVE  /\ Cardinality(TasksOf(l)) = Pending(queue, l)
         /\ Batched(l) = InBatch(acts, l)
         /\ Claimed(l) = InProgress(acts, l)
         /\ (IF InFlight(l) THEN 1 ELSE 0) = InRun(acts, l)
  <1>1. Cardinality(TasksOf(l)) = Pending(queue, l)
    BY DEF TasksOf, Pending, TasksIn
  <1>2. CASE acts = <<>>
    <2>1. DOMAIN acts = {}
      BY <1>2
    <2>2. Batched(l) = 0 /\ Claimed(l) = 0
      BY <2>1, FS_EmptySet DEF Batched, Claimed
    <2>3. ~InFlight(l)
      BY <2>1 DEF InFlight
    <2>4. QED
      BY <1>1, <1>2, <2>2, <2>3, NoneActive
  <1>3. ASSUME NEW a, acts = <<a>>
        PROVE  /\ Batched(l) = InBatch(acts, l)
               /\ Claimed(l) = InProgress(acts, l)
               /\ (IF InFlight(l) THEN 1 ELSE 0) = InRun(acts, l)
    <2>1. DOMAIN acts = {1} /\ acts[1] = a /\ acts # <<>>
      BY <1>3
    <2>2. Top = a
      BY <2>1, TopFacts
    <2>3. /\ a \in Acts /\ a.todo \in Seq(1 .. nextID) /\ nextID \in Nat
          /\ a.phase # "next" => a.todo # <<>>
          /\ a.work = "drain" => Len(a.todo) <= MaxQueuedTasks
      BY <2>1, <2>2, TopFacts, Sizes
    <2>4. Claimed(l) = InProgress(acts, l)
      <3> DEFINE C == {k \in DOMAIN acts : acts[k].current = l
                                 /\ acts[k].phase \in {"claimed", "running", "returned"}}
      <3>1. C = IF a.current = l /\ a.phase \in {"claimed", "running", "returned"}
                THEN {1} ELSE {}
        BY <2>1
      <3>2. Cardinality(C) = IF a.current = l /\ a.phase \in {"claimed", "running", "returned"}
                             THEN 1 ELSE 0
        BY <3>1, FS_EmptySet, FS_Singleton
      <3>3. QED
        BY <1>3, <3>2, OneCounts DEF Claimed
    <2>5. (IF InFlight(l) THEN 1 ELSE 0) = InRun(acts, l)
      BY <1>3, <2>1, OneCounts DEF InFlight
    <2>6. Batched(l) = InBatch(acts, l)
      <3> DEFINE B == {p \in (DOMAIN acts) \X (1 .. MaxQueuedTasks) :
                         /\ acts[p[1]].work = "drain"
                         /\ p[2] \in DOMAIN Rest(acts[p[1]])
                         /\ Rest(acts[p[1]])[p[2]] = l}
                 r == Rest(a)
      <3>1. Batched(l) = Cardinality(B)
        BY DEF Batched, Rest
      <3>2. CASE a.work = "drain"
        <4>1. r \in Seq(1 .. nextID) /\ Len(r) <= MaxQueuedTasks
          <5>1. r = a.todo \/ (r = Tail(a.todo) /\ a.todo # <<>>)
            <6>1. CASE a.phase = "next"
              BY <6>1 DEF Rest
            <6>2. CASE a.phase # "next"
              BY <2>3, <6>2 DEF Rest
            <6>3. QED
              BY <6>1, <6>2
          <5>2. CASE r = a.todo
            BY <2>3, <3>2, <5>2
          <5>3. CASE r = Tail(a.todo) /\ a.todo # <<>>
            <6> HIDE DEF r
            <6>1. /\ Tail(a.todo) \in Seq(1 .. nextID)
                  /\ Len(Tail(a.todo)) <= Len(a.todo)
              BY <2>3, <5>3, TailFacts
            <6>2. Len(a.todo) \in Nat /\ Len(r) \in Nat
              BY <2>3, <5>3, <6>1
            <6>3. QED
              BY <2>3, <3>2, <5>3, <6>1, <6>2, LimitAssumption
          <5>4. QED
            BY <5>1, <5>2, <5>3
        <4> HIDE DEF r
        <4>2. /\ DOMAIN r = 1 .. Len(r) /\ Len(r) \in Nat /\ MaxQueuedTasks \in Nat
              /\ DOMAIN r \subseteq 1 .. MaxQueuedTasks
          BY <4>1, LimitAssumption
        <4>3. B = {1} \X Places(r, l)
          BY <2>1, <3>2, <4>2 DEF Places, r
        <4>4. IsFiniteSet(Places(r, l))
          <5>1. IsFiniteSet(1 .. Len(r)) /\ Places(r, l) \in SUBSET (1 .. Len(r))
            BY <4>2, UpTo DEF Places
          <5>2. QED
            BY <5>1, FS_Subset
        <4> DEFINE f == [i \in Places(r, l) |-> <<1, i>>]
        <4>5. f \in Bijection(Places(r, l), {1} \X Places(r, l))
          <5> HIDE DEF B
          <5>1. /\ f \in [Places(r, l) -> {1} \X Places(r, l)]
                /\ \A i, j \in Places(r, l) : f[i] = f[j] => i = j
                /\ \A p \in {1} \X Places(r, l) : \E i \in Places(r, l) : f[i] = p
            OBVIOUS
          <5>2. QED
            BY <5>1, Fun_IsBij
        <4> HIDE DEF f, B
        <4>6. Cardinality(B) = Cardinality(Places(r, l))
          BY <4>3, <4>4, <4>5, SameSize
        <4>7. InBatch(acts, l) = Waiting(r, l)
          BY <1>3, <3>2, OneCounts DEF r
        <4>8. QED
          BY <3>1, <4>6, <4>7 DEF Waiting, Places
      <3>3. CASE a.work # "drain"
        <4>1. B = {}
          BY <2>1, <3>3
        <4>2. InBatch(acts, l) = 0
          BY <1>3, <3>3, OneCounts
        <4>3. QED
          BY <3>1, <4>1, <4>2, FS_EmptySet
      <3>4. QED
        BY <3>2, <3>3
    <2>7. QED
      BY <2>4, <2>5, <2>6
  <1>4. acts = <<>> \/ acts = <<acts[1]>>
    BY DEF EventsInv, Alone
  <1>5. QED
    BY <1>1, <1>2, <1>3, <1>4

\* No path of enqueue, drain, finishDispatch, discard or setConfig forgets or
\* repeats the release of a registered listener's claim.
THEOREM ClaimsMatchHolds == Spec => []ClaimsMatch
  <1>1. EventsInv /\ QueueInv => ClaimsMatch
    BY OneCount DEF ClaimsMatch, QueueInv, Balanced, Held
  <1>2. QED
    BY <1>1, QueueInvariant, PTL

\* No task of a limited listener waits for a run it cannot have, under any
\* configuration, trim, batch or removal.
THEOREM QueuedMayRunHolds == Spec => []QueuedMayRun
  <1>1. EventsInv /\ QueueInv => QueuedMayRun
    <2> SUFFICES ASSUME EventsInv, QueueInv, NEW l \in eventsByID \ expiring,
                        options[l].limit > 0, TasksOf(l) # {}
                 PROVE  dispatchCount[l] + (IF InFlight(l) THEN 1 ELSE 0)
                          + Cardinality(TasksOf(l)) + Batched(l) <= options[l].limit
      BY DEF QueuedMayRun
    <2>1. /\ queue \in Seq(TasksUpTo(nextID)) /\ nextID \in Nat
          /\ TasksIn(queue, l) # {}
      BY Parts, Sizes DEF TasksOf, TasksIn
    <2>2. Pending(queue, l) > 0
      BY <2>1, PendingFacts
    <2>3. QED
      BY <2>2, OneCount DEF QueueInv, RunsLeft, Used
  <1>2. QED
    BY <1>1, QueueInvariant, PTL

\* However often debouncing is switched on and off between the triggers, the
\* time of one task of a listener runs at most.
THEOREM OneDebouncedHolds == Spec => []OneDebounced
  <1>1. EventsInv /\ QueueInv => OneDebounced
    <2> SUFFICES ASSUME EventsInv, QueueInv, NEW l \in IDs
                 PROVE  Cardinality({i \in TasksOf(l) : ~queue[i].due}) <= 1
      BY DEF OneDebounced
    <2> DEFINE D == {i \in TasksOf(l) : ~queue[i].due}
    <2>1. D \in SUBSET Nat
      <3>1. queue \in Seq(TasksUpTo(nextID))
        BY Parts
      <3>2. DOMAIN queue = 1 .. Len(queue)
        BY <3>1
      <3>3. QED
        BY <3>2 DEF TasksOf
    <2>2. \A i, j \in D : i = j
      <3>1. \A i, j \in D : i <= j
        BY DEF QueueInv, OldestFirst, TasksOf
      <3>2. QED
        BY <2>1, <3>1
    <2>3. D = {} \/ \E i : D = {i}
      BY <2>2
    <2> HIDE DEF D
    <2>4. Cardinality(D) = 0 \/ Cardinality(D) = 1
      BY <2>3, FS_EmptySet, FS_Singleton
    <2>5. Cardinality(D) <= 1
      BY <2>4
    <2>6. QED
      BY <2>5 DEF D
  <1>2. QED
    BY <1>1, QueueInvariant, PTL
=============================================================================
