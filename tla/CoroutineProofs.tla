-------------------------- MODULE CoroutineProofs --------------------------
(***************************************************************************)
(* Theorems about Coroutine for any set of threads and any nesting depth.  *)
(***************************************************************************)
EXTENDS Coroutine, FiniteSetTheorems, SequenceTheorems, TLAPS

-----------------------------------------------------------------------------
(* The Go stack as a sequence *)

\* Leaving the top Go call keeps the calls below it.
LEMMA PopFacts ==
  ASSUME NEW S, NEW s \in Seq(S), Len(s) > 0
  PROVE  /\ SubSeq(s, 1, Len(s) - 1) \in Seq(S)
         /\ Len(SubSeq(s, 1, Len(s) - 1)) = Len(s) - 1
         /\ \A i \in 1..(Len(s) - 1) : SubSeq(s, 1, Len(s) - 1)[i] = s[i]
  <1>1. /\ 1 \in Int /\ Len(s) - 1 \in Int
        /\ \A i \in 1..(Len(s) - 1) : s[i] \in S
    OBVIOUS
  <1>2. ASSUME NEW n \in Int, n >= 0, \A i \in 1..n : s[i] \in S
        PROVE  /\ SubSeq(s, 1, n) \in Seq(S)
               /\ Len(SubSeq(s, 1, n)) = n
               /\ \A i \in 1..n : SubSeq(s, 1, n)[i] = s[i]
    <2>1. /\ SubSeq(s, 1, n) \in Seq(S)
          /\ Len(SubSeq(s, 1, n)) = IF 1 <= n THEN n - 1 + 1 ELSE 0
          /\ \A i \in 1..n - 1 + 1 : SubSeq(s, 1, n)[i] = s[1 + i - 1]
      BY <1>1, <1>2, SubSeqProperties, SMT
    <2>2. QED
      BY <1>2, <2>1
  <1>3. Len(s) - 1 >= 0
    OBVIOUS
  <1>4. QED
    BY <1>1, <1>2, <1>3

\* Entering a Go call puts it above the calls in progress.
LEMMA PushFacts ==
  ASSUME NEW S, NEW s \in Seq(S), NEW e \in S
  PROVE  /\ Append(s, e) \in Seq(S)
         /\ Len(Append(s, e)) = Len(s) + 1
         /\ Append(s, e)[Len(s) + 1] = e
         /\ \A i \in 1..Len(s) : Append(s, e)[i] = s[i]
  OBVIOUS

LEMMA ThreadAtType ==
  ASSUME TypeOK, NEW i \in 0..Len(calls)
  PROVE  ThreadAt(i) \in Threads \cup {Main}
  <1>1. CASE i = 0
    BY <1>1 DEF ThreadAt
  <1>2. CASE i # 0
    <2>1. i \in 1..Len(calls) /\ calls \in Seq(Calls)
      BY <1>2 DEF TypeOK
    <2>2. calls[i] \in Calls
      BY <2>1
    <2>3. QED
      BY <1>2, <2>2 DEF ThreadAt, Calls
  <1>3. QED
    BY <1>1, <1>2

-----------------------------------------------------------------------------
(* Type correctness *)

LEMMA TypeInit == Init => TypeOK
  <1> SUFFICES ASSUME Init PROVE TypeOK
    OBVIOUS
  <1>1. calls \in Seq(Calls) /\ goCallbackDepth \in Nat
    BY DEF Init
  <1>2. QED
    BY <1>1 DEF Init, TypeOK, Kinds, Statuses

LEMMA TypeStep ==
  ASSUME TypeOK, [Next]_vars
  PROVE  TypeOK'
  <1> USE ThreadAssumption DEF TypeOK, Kinds, Statuses, threadVars
  <1>1. ASSUME NEW t \in Threads, NEW k \in Kinds, NewThread(t, k) PROVE TypeOK'
    BY <1>1 DEF NewThread
  <1>2. ASSUME NEW t \in Threads, ResumePeek(t) PROVE TypeOK'
    BY <1>2 DEF ResumePeek, PreviousRunning
  <1>3. ASSUME NEW t \in Threads, ResumeUncallable(t) PROVE TypeOK'
    BY <1>3 DEF ResumeUncallable, PreviousRunning
  <1>4. ASSUME NEW t \in Threads, ResumeEnter(t) PROVE TypeOK'
    <2>1. Call(t, "resume") \in Calls
      BY DEF Call, Calls
    <2>2. calls' \in Seq(Calls)
      BY <1>4, <2>1 DEF ResumeEnter
    <2>3. /\ yielded' \in [Threads -> BOOLEAN]
          /\ continuationPending' \in [Threads -> BOOLEAN]
      BY <1>4 DEF ResumeEnter
    <2>4. goCallbackDepth' \in Nat
      BY <1>4 DEF ResumeEnter
    <2>5. /\ status' \in [Threads -> Statuses]
          /\ resumeParent' \in [Threads -> Threads \cup {Main, NoThread}]
          /\ runningThread' \in Threads \cup {Main, NoThread}
      BY <1>4 DEF ResumeEnter, PreviousRunning
    <2>6. QED
      BY <1>4, <2>2, <2>3, <2>4, <2>5 DEF ResumeEnter
  <1>5. ASSUME NEW t \in Threads, AtResume(t), ResumeFinish(t)
        PROVE  /\ status' \in [Threads -> Statuses]
               /\ runningThread' \in Threads \cup {Main, NoThread}
               /\ resumeParent' \in [Threads -> Threads \cup {Main, NoThread}]
               /\ goCallbackDepth' \in Nat
               /\ calls' \in Seq(Calls)
    <2>1. calls' \in Seq(Calls)
      BY <1>5, PopFacts DEF AtResume, ResumeFinish, Pop
    <2>2. goCallbackDepth' \in Nat
      BY <1>5 DEF ResumeFinish, ExitGoCallback
    <2>3. QED
      BY <1>5, <2>1, <2>2 DEF ResumeFinish, ResumeParentOrMain
  <1>6. ASSUME NEW t \in Threads, ResumeReturned(t) PROVE TypeOK'
    BY <1>5, <1>6 DEF ResumeReturned
  <1>7. ASSUME NEW t \in Threads, ResumeFailed(t) PROVE TypeOK'
    BY <1>5, <1>7 DEF ResumeFailed
  <1>8. ASSUME NEW t \in Threads, ResumeYielded(t) PROVE TypeOK'
    <2>1. calls' \in Seq(Calls)
      BY <1>8, PopFacts DEF AtResume, ResumeYielded, Pop
    <2>2. QED
      BY <1>8, <2>1 DEF ResumeYielded
  <1>9. ASSUME NEW t \in Threads, Yield(t) PROVE TypeOK'
    BY <1>9 DEF Yield, YieldAllowed, ResumeParentOrMain
  <1>10. ASSUME NEW t \in Threads, MarkContinuationPending(t) PROVE TypeOK'
    BY <1>10 DEF MarkContinuationPending
  <1>11. CASE EnterGoCallback
    <2>1. Current \in Threads \cup {Main}
      BY ThreadAtType DEF Current
    <2>2. Call(Current, "callback") \in Calls
      BY <2>1 DEF Call, Calls
    <2>3. calls' \in Seq(Calls)
      BY <1>11, <2>2 DEF EnterGoCallback
    <2>4. QED
      BY <1>11, <2>3 DEF EnterGoCallback
  <1>12. CASE LeaveGoCallback
    <2>1. calls' \in Seq(Calls)
      BY <1>12, PopFacts DEF LeaveGoCallback, Pop
    <2>2. goCallbackDepth' \in Nat
      BY <1>12 DEF LeaveGoCallback, ExitGoCallback
    <2>3. QED
      BY <1>12, <2>1, <2>2 DEF LeaveGoCallback
  <1>13. CASE Close
    BY <1>13 DEF Close
  <1>14. CASE UNCHANGED vars
    BY <1>14 DEF vars
  <1>15. QED
    BY <1>1, <1>2, <1>3, <1>4, <1>6, <1>7, <1>8, <1>9, <1>10, <1>11,
       <1>12, <1>13, <1>14 DEF Next

\* Every reachable state of the coroutine machine is well typed.
THEOREM TypeCorrect == Spec => []TypeOK
  BY TypeInit, TypeStep, PTL DEF Spec

-----------------------------------------------------------------------------
(* Counting the Go callbacks on the stack *)

BlockingAt(i) == calls[i].frame = "callback" \/ kind[calls[i].thread] = "go"

LEMMA BlockingFinite ==
  ASSUME TypeOK
  PROVE  /\ IsFiniteSet(Blocking)
         /\ Blocking \subseteq 1..Len(calls)
         /\ Cardinality(Blocking) \in Nat
         /\ Cardinality(Blocking) = 0 <=> Blocking = {}
  <1>1. Blocking \subseteq 1..Len(calls)
    BY DEF Blocking
  <1>2. IsFiniteSet(1..Len(calls))
    BY FS_Interval DEF TypeOK
  <1>3. IsFiniteSet(Blocking)
    BY <1>1, <1>2, FS_Subset
  <1>4. QED
    BY <1>1, <1>3, FS_EmptySet, FS_CardinalityType

\* A call pushed on the Go stack is counted exactly when it blocks yields.
LEMMA PushBlocking ==
  ASSUME TypeOK, BoundaryBalanced, NEW c \in Calls,
         calls' = Append(calls, c), kind' = kind,
         goCallbackDepth' = goCallbackDepth +
           (IF c.frame = "callback" \/ kind[c.thread] = "go" THEN 1 ELSE 0)
  PROVE  BoundaryBalanced'
  <1> DEFINE n == Len(calls) + 1
  <1>1. calls \in Seq(Calls)
    BY DEF TypeOK
  <1>2. /\ Len(calls') = n /\ calls'[n] = c
        /\ \A i \in 1..Len(calls) : calls'[i] = calls[i]
    BY <1>1, PushFacts
  <1>3. 1..Len(calls') = (1..Len(calls)) \cup {n} /\ n \notin 1..Len(calls)
    BY <1>1, <1>2
  <1>4. /\ Blocking' \ {n} = Blocking
        /\ n \in Blocking' <=> c.frame = "callback" \/ kind[c.thread] = "go"
    BY <1>2, <1>3 DEF Blocking
  <1>5. n \notin Blocking
    BY <1>3 DEF Blocking
  <1>6. CASE c.frame = "callback" \/ kind[c.thread] = "go"
    <2>1. Blocking' = Blocking \cup {n}
      BY <1>4, <1>6
    <2>2. Cardinality(Blocking \cup {n}) = Cardinality(Blocking) + 1
      BY <1>5, BlockingFinite, FS_AddElement
    <2>3. QED
      BY <1>6, <2>1, <2>2 DEF BoundaryBalanced
  <1>7. CASE ~(c.frame = "callback" \/ kind[c.thread] = "go")
    <2>1. Blocking' = Blocking
      BY <1>4, <1>7
    <2>2. goCallbackDepth' = goCallbackDepth
      BY <1>7 DEF TypeOK
    <2>3. QED
      BY <2>1, <2>2 DEF BoundaryBalanced
  <1>8. QED
    BY <1>6, <1>7

\* A call popped from the Go stack gives back what it took.
LEMMA PopBlocking ==
  ASSUME TypeOK, BoundaryBalanced, Len(calls) > 0,
         calls' = Pop, kind' = kind,
         IF BlockingAt(Len(calls)) THEN ExitGoCallback ELSE goCallbackDepth' = goCallbackDepth
  PROVE  BoundaryBalanced'
  <1> DEFINE n == Len(calls)
  <1>1. calls \in Seq(Calls)
    BY DEF TypeOK
  <1>2. /\ Len(calls') = n - 1
        /\ \A i \in 1..(n - 1) : calls'[i] = calls[i]
    BY <1>1, PopFacts DEF Pop
  <1>3. 1..n = (1..(n - 1)) \cup {n} /\ n \notin 1..(n - 1)
    BY <1>1
  <1>4. /\ Blocking' = Blocking \ {n}
        /\ n \in Blocking <=> BlockingAt(n)
    BY <1>2, <1>3 DEF Blocking, BlockingAt
  <1>5. Cardinality(Blocking \ {n}) =
          IF n \in Blocking THEN Cardinality(Blocking) - 1 ELSE Cardinality(Blocking)
    BY BlockingFinite, FS_RemoveElement
  <1>6. CASE BlockingAt(n)
    <2>1. goCallbackDepth > 0
      BY <1>4, <1>6, BlockingFinite DEF BoundaryBalanced, TypeOK
    <2>2. goCallbackDepth' = goCallbackDepth - 1
      BY <1>6, <2>1 DEF ExitGoCallback, TypeOK
    <2>3. QED
      BY <1>4, <1>5, <1>6, <2>2 DEF BoundaryBalanced
  <1>7. CASE ~BlockingAt(n)
    BY <1>4, <1>5, <1>7 DEF BoundaryBalanced
  <1>8. QED
    BY <1>6, <1>7

-----------------------------------------------------------------------------
(* The chain of resumed coroutines *)

IInv == TypeOK /\ ResumeChain /\ RunningIsCurrent /\ BoundaryBalanced

LEMMA IInvInit == Init => IInv
  <1> SUFFICES ASSUME Init PROVE IInv
    OBVIOUS
  <1>1. TypeOK
    BY TypeInit
  <1>2. calls = <<>> /\ Len(calls) = 0
    BY DEF Init
  <1>3. Blocking = {} /\ ResumeIndices = {}
    BY <1>2 DEF Blocking, ResumeIndices
  <1>4. BoundaryBalanced
    BY <1>3, FS_EmptySet DEF BoundaryBalanced, Init
  <1>5. ResumeChain
    BY <1>2, <1>3 DEF Init, ResumeChain, ChainLinked, ChainDistinct, ChainCovers, YieldArrives
  <1>6. RunningIsCurrent
    BY <1>2 DEF Init, RunningIsCurrent, Current, ThreadAt
  <1>7. QED
    BY <1>1, <1>4, <1>5, <1>6 DEF IInv

\* Outside unwinding every Resume call on the stack belongs to a running
\* thread, so a thread that can be resumed is not on the stack.
LEMMA ResumableOffStack ==
  ASSUME IInv, signal = "none", NEW t \in Threads, Resumable(t)
  PROVE  \A i \in ResumeIndices : calls[i].thread # t
  BY DEF IInv, ResumeChain, ChainLinked, Active, ResumeIndices, Resumable

\* The steps that touch neither the Go stack nor the running thread, and may
\* change a thread that is off the chain.
LEMMA QuietStep ==
  ASSUME IInv, TypeOK', UNCHANGED <<calls, signal, closed, runningThread, goCallbackDepth>>,
         \A i \in ResumeIndices :
           LET t == calls[i].thread
           IN  kind'[t] = kind[t] /\ status'[t] = status[t] /\ resumeParent'[t] = resumeParent[t],
         \A t \in Threads : status'[t] = "running" => status[t] = "running"
  PROVE  IInv'
  <1> USE DEF IInv, ResumeChain
  <1>1. /\ ResumeIndices' = ResumeIndices
        /\ \A i : ThreadAt(i)' = ThreadAt(i)
        /\ \A i : Active(i)' <=> Active(i)
        /\ Current' = Current
    BY DEF ResumeIndices, ThreadAt, Active, Current
  <1>2. ChainLinked'
    BY <1>1 DEF ChainLinked, ResumeIndices
  <1>3. ChainDistinct'
    BY <1>1 DEF ChainDistinct
  <1>4. ActiveThreads' = ActiveThreads
    BY <1>1 DEF ActiveThreads
  <1>5. ChainCovers'
    BY <1>4 DEF ChainCovers
  <1>6. YieldArrives'
    BY DEF YieldArrives
  <1>7. RunningIsCurrent'
    BY <1>1 DEF RunningIsCurrent
  <1>8. Blocking' = Blocking
    <2>1. \A i \in 1..Len(calls) : calls[i].frame \in {"resume", "callback"}
      <3>1. calls \in Seq(Calls)
        BY DEF TypeOK
      <3>2. \A i \in 1..Len(calls) : calls[i] \in Calls
        BY <3>1
      <3>3. QED
        BY <3>2 DEF Calls
    <2>2. calls' = calls
      OBVIOUS
    <2>3. \A i \in ResumeIndices : kind'[calls[i].thread] = kind[calls[i].thread]
      OBVIOUS
    <2>4. \A i \in 1..Len(calls) :
            calls[i].frame = "callback" \/ kind'[calls[i].thread] = kind[calls[i].thread]
      BY <2>1, <2>3 DEF ResumeIndices
    <2>5. QED
      BY <2>2, <2>4 DEF Blocking
  <1>9. BoundaryBalanced'
    BY <1>8 DEF BoundaryBalanced
  <1>10. QED
    BY <1>2, <1>3, <1>5, <1>6, <1>7, <1>9

\* Entering Resume: the new link points at the body that called it.
LEMMA EnterStep ==
  ASSUME IInv, TypeOK', NEW t \in Threads, ResumeEnter(t)
  PROVE  IInv'
  <1> USE ThreadAssumption DEF IInv, ResumeChain
  <1> DEFINE n == Len(calls) + 1
  <1>1. /\ calls \in Seq(Calls) /\ Call(t, "resume") \in Calls
        /\ signal = "none" /\ signal' = "none" /\ ~closed /\ ~closed'
        /\ calls' = Append(calls, Call(t, "resume"))
        /\ kind' = kind
    BY DEF TypeOK, ResumeEnter, Resumable, Call, Calls
  <1>2. /\ Len(calls') = n /\ calls'[n] = Call(t, "resume")
        /\ \A i \in 1..Len(calls) : calls'[i] = calls[i]
    BY <1>1, PushFacts
  <1>3. /\ Len(calls) \in Nat
        /\ 1..n = (1..Len(calls)) \cup {n} /\ n \notin 1..Len(calls)
    BY <1>1
  <1>4. \A i \in ResumeIndices : calls[i].thread # t
    BY <1>1, ResumableOffStack DEF ResumeEnter
  <1>5. ResumeIndices' = ResumeIndices \cup {n}
    BY <1>2, <1>3 DEF ResumeIndices, Call
  <1>6. \A i \in 0..Len(calls) : ThreadAt(i)' = ThreadAt(i)
    BY <1>2 DEF ThreadAt
  <1>7. runningThread = ThreadAt(Len(calls)) /\ runningThread \in Threads \cup {Main}
    BY <1>1, <1>3, ThreadAtType DEF RunningIsCurrent, Current
  <1>8. /\ status'[t] = "running" /\ resumeParent'[t] = ThreadAt(Len(calls))
        /\ \A u \in Threads \ {t} : status'[u] = status[u] /\ resumeParent'[u] = resumeParent[u]
    BY <1>7 DEF ResumeEnter, PreviousRunning, TypeOK
  <1>9. kind[t] \in {"lua", "go", "trampoline"}
    BY DEF ResumeEnter, Resumable, TypeOK, Kinds
  <1>10. ChainLinked'
    <2> SUFFICES ASSUME NEW i \in 1..n
                 PROVE  /\ calls'[i].frame = "callback" => calls'[i].thread = ThreadAt(i - 1)'
                        /\ calls'[i].frame = "resume" =>
                             /\ calls'[i].thread \in Threads
                             /\ kind[calls'[i].thread] \in {"lua", "go", "trampoline"}
                        /\ calls'[i].frame = "resume" =>
                             /\ status'[calls'[i].thread] = "running"
                             /\ resumeParent'[calls'[i].thread] = ThreadAt(i - 1)'
      BY <1>1, <1>2 DEF ChainLinked
    <2>1. CASE i = n
      <3>1. i - 1 = Len(calls) /\ ThreadAt(i - 1)' = ThreadAt(i - 1)
        BY <2>1, <1>3, <1>6
      <3>2. calls'[i] = Call(t, "resume")
        BY <2>1, <1>2
      <3>3. QED
        BY <3>1, <3>2, <1>8, <1>9 DEF Call
    <2>2. CASE i \in 1..Len(calls)
      <3>1. calls'[i] = calls[i] /\ ThreadAt(i - 1)' = ThreadAt(i - 1)
        BY <2>2, <1>2, <1>3, <1>6
      <3>2. calls[i].frame = "resume" => calls[i].thread \in Threads \ {t}
        BY <2>2, <1>4 DEF ChainLinked, ResumeIndices
      <3>3. QED
        BY <2>2, <3>1, <3>2, <1>1, <1>8 DEF ChainLinked, Active
    <2>3. QED
      BY <2>1, <2>2, <1>3
  <1>11. ChainDistinct'
    <2>1. \A i \in ResumeIndices : calls'[i] = calls[i]
      BY <1>2 DEF ResumeIndices
    <2>2. calls'[n].thread = t
      BY <1>2 DEF Call
    <2>3. QED
      BY <2>1, <2>2, <1>4, <1>5 DEF ChainDistinct
  <1>12. ChainCovers'
    <2>1. \A i \in ResumeIndices' : calls'[i].thread \in ActiveThreads'
      BY <1>1 DEF ActiveThreads, Active
    <2>2. t \in ActiveThreads'
      <3>1. n \in ResumeIndices' /\ calls'[n].thread = t
        BY <1>2, <1>5 DEF Call
      <3>2. QED
        BY <2>1, <3>1
    <2>3. ASSUME NEW u \in Threads \ {t}, status[u] = "running" PROVE u \in ActiveThreads'
      <3>1. PICK i \in ResumeIndices : calls[i].thread = u
        BY <2>3 DEF ChainCovers, ActiveThreads
      <3>2. i \in ResumeIndices' /\ calls'[i].thread = u
        BY <3>1, <1>2, <1>5 DEF ResumeIndices
      <3>3. QED
        BY <2>1, <3>2
    <2>4. QED
      BY <2>2, <2>3, <1>8 DEF ChainCovers
  <1>13. YieldArrives'
    BY <1>1 DEF YieldArrives
  <1>14. RunningIsCurrent'
    <2>1. Current' = t
      BY <1>2, <1>3 DEF Current, ThreadAt, Call
    <2>2. QED
      BY <2>1, <1>1 DEF RunningIsCurrent, ResumeEnter
  <1>15. BoundaryBalanced'
    <2>1. goCallbackDepth' = goCallbackDepth +
            (IF Call(t, "resume").frame = "callback" \/ kind[Call(t, "resume").thread] = "go"
             THEN 1 ELSE 0)
      BY DEF ResumeEnter, Call
    <2>2. QED
      BY <2>1, <1>1, PushBlocking
  <1>16. QED
    BY <1>10, <1>11, <1>12, <1>13, <1>14, <1>15

\* Leaving the top call: the facts the three ways to leave have in common.
LEMMA PopStack ==
  ASSUME TypeOK, Len(calls) > 0, calls' = Pop
  PROVE  /\ Len(calls) \in Nat /\ Len(calls') = Len(calls) - 1
         /\ \A i \in 1..(Len(calls) - 1) : calls'[i] = calls[i]
         /\ \A i \in 0..(Len(calls) - 1) : ThreadAt(i)' = ThreadAt(i)
         /\ ResumeIndices' = ResumeIndices \ {Len(calls)}
         /\ Current' = ThreadAt(Len(calls) - 1)
  <1>1. calls \in Seq(Calls) /\ Len(calls) \in Nat
    BY DEF TypeOK
  <1>2. /\ Len(calls') = Len(calls) - 1
        /\ \A i \in 1..(Len(calls) - 1) : calls'[i] = calls[i]
    BY <1>1, PopFacts DEF Pop
  <1>3. \A i \in 0..(Len(calls) - 1) : ThreadAt(i)' = ThreadAt(i)
    BY <1>2 DEF ThreadAt
  <1>4. ResumeIndices' = ResumeIndices \ {Len(calls)}
    BY <1>1, <1>2 DEF ResumeIndices
  <1>5. Current' = ThreadAt(Len(calls) - 1)
    BY <1>1, <1>2 DEF Current, ThreadAt
  <1>6. QED
    BY <1>1, <1>2, <1>3, <1>4, <1>5

\* A Resume whose body returned or failed hands control to its parent.
LEMMA FinishStep ==
  ASSUME IInv, TypeOK', NEW t \in Threads, AtResume(t), ResumeFinish(t),
         signal = "none", UNCHANGED <<kind, signal, closed>>
  PROVE  IInv'
  <1> USE ThreadAssumption DEF IInv, ResumeChain
  <1> DEFINE n == Len(calls)
  <1>1. n > 0 /\ calls[n] = Call(t, "resume") /\ calls' = Pop
    BY DEF AtResume, ResumeFinish
  <1>2. /\ n \in Nat /\ Len(calls') = n - 1
        /\ \A i \in 1..(n - 1) : calls'[i] = calls[i]
        /\ \A i \in 0..(n - 1) : ThreadAt(i)' = ThreadAt(i)
        /\ ResumeIndices' = ResumeIndices \ {n}
        /\ Current' = ThreadAt(n - 1)
    BY <1>1, PopStack
  <1>3. n \in ResumeIndices /\ calls[n].thread = t
    BY <1>1, <1>2 DEF ResumeIndices, Call
  <1>4. \A i \in ResumeIndices : i # n => calls[i].thread # t
    BY <1>3 DEF ChainDistinct
  <1>5. /\ status'[t] = "dead"
        /\ \A u \in Threads \ {t} : status'[u] = status[u] /\ resumeParent'[u] = resumeParent[u]
    BY DEF ResumeFinish, TypeOK
  <1>6. ChainLinked'
    <2> SUFFICES ASSUME NEW i \in 1..(n - 1)
                 PROVE  /\ calls'[i].frame = "callback" => calls'[i].thread = ThreadAt(i - 1)'
                        /\ calls'[i].frame = "resume" =>
                             /\ calls'[i].thread \in Threads
                             /\ kind[calls'[i].thread] \in {"lua", "go", "trampoline"}
                        /\ calls'[i].frame = "resume" =>
                             /\ status'[calls'[i].thread] = "running"
                             /\ resumeParent'[calls'[i].thread] = ThreadAt(i - 1)'
      BY <1>2 DEF ChainLinked
    <2>1. i \in 1..n /\ calls'[i] = calls[i] /\ ThreadAt(i - 1)' = ThreadAt(i - 1)
      BY <1>2
    <2>2. calls[i].frame = "resume" => calls[i].thread \in Threads \ {t}
      BY <2>1, <1>2, <1>4 DEF ChainLinked, ResumeIndices
    <2>3. QED
      BY <2>1, <2>2, <1>5 DEF ChainLinked, Active
  <1>7. ChainDistinct'
    <2>1. \A i \in ResumeIndices' : calls'[i] = calls[i] /\ i \in ResumeIndices
      BY <1>2 DEF ResumeIndices
    <2>2. QED
      BY <2>1 DEF ChainDistinct
  <1>8. ChainCovers'
    <2> SUFFICES ASSUME NEW u \in Threads, status'[u] = "running"
                 PROVE  u \in ActiveThreads'
      BY DEF ChainCovers
    <2>1. u # t /\ status[u] = "running"
      BY <1>5
    <2>2. PICK i \in ResumeIndices : calls[i].thread = u
      BY <2>1 DEF ChainCovers, ActiveThreads
    <2>3. i \in ResumeIndices' /\ calls'[i].thread = u
      BY <2>1, <2>2, <1>2, <1>3 DEF ResumeIndices
    <2>4. QED
      BY <2>3 DEF ActiveThreads, Active
  <1>9. YieldArrives'
    BY DEF YieldArrives
  <1>10. RunningIsCurrent'
    <2>1. CASE closed
      BY <2>1 DEF RunningIsCurrent, ResumeFinish, ResumeParentOrMain
    <2>2. CASE ~closed
      <3>1. resumeParent[t] = ThreadAt(n - 1)
        BY <1>3 DEF ChainLinked, Active, ResumeIndices, Call
      <3>2. ThreadAt(n - 1) \in Threads \cup {Main}
        BY <1>1, <1>2, ThreadAtType
      <3>3. runningThread' = ThreadAt(n - 1)
        BY <2>2, <3>1, <3>2 DEF ResumeFinish, ResumeParentOrMain
      <3>4. QED
        BY <2>2, <3>3, <1>2 DEF RunningIsCurrent
    <2>3. QED
      BY <2>1, <2>2
  <1>11. BoundaryBalanced'
    <2>1. BlockingAt(n) <=> kind[t] = "go"
      BY <1>1 DEF BlockingAt, Call
    <2>2. IF BlockingAt(n) THEN ExitGoCallback ELSE goCallbackDepth' = goCallbackDepth
      BY <2>1 DEF ResumeFinish
    <2>3. QED
      BY <2>2, <1>1, PopBlocking
  <1>12. QED
    BY <1>6, <1>7, <1>8, <1>9, <1>10, <1>11

\* A yield: the running body is the top Resume, with no Go callback open.
LEMMA YieldStep ==
  ASSUME IInv, TypeOK', NEW t \in Threads, Yield(t)
  PROVE  /\ IInv'
         /\ AtResume(t)
         /\ Blocking = {}
  <1> USE ThreadAssumption DEF IInv, ResumeChain
  <1> DEFINE n == Len(calls)
  <1>1. /\ signal = "none" /\ signal' = "yield" /\ ~closed /\ closed' = closed
        /\ calls' = calls /\ kind' = kind /\ goCallbackDepth = 0 /\ goCallbackDepth' = 0
        /\ runningThread = t /\ resumeParent' = resumeParent
    BY DEF Yield, YieldAllowed
  <1>2. Blocking = {}
    BY <1>1, BlockingFinite DEF BoundaryBalanced
  <1>3. Current = t
    BY <1>1 DEF RunningIsCurrent
  <1>4. calls \in Seq(Calls) /\ n \in Nat
    BY DEF TypeOK
  <1>5. n > 0
    BY <1>3, <1>4 DEF Current, ThreadAt
  <1>6. calls[n] = Call(t, "resume")
    <2>1. calls[n] \in Calls /\ calls[n].thread = t
      BY <1>3, <1>4, <1>5 DEF Current, ThreadAt
    <2>2. calls[n].frame # "callback"
      BY <1>2, <1>4, <1>5 DEF Blocking
    <2>3. QED
      BY <2>1, <2>2 DEF Calls, Call
  <1>7. AtResume(t)
    BY <1>5, <1>6 DEF AtResume
  <1>8. n \in ResumeIndices /\ calls[n].thread = t
    BY <1>4, <1>5, <1>6 DEF ResumeIndices, Call
  <1>9. /\ ResumeIndices' = ResumeIndices
        /\ \A i : ThreadAt(i)' = ThreadAt(i)
    BY <1>1 DEF ResumeIndices, ThreadAt
  <1>10. \A i \in ResumeIndices : i # n => calls[i].thread # t
    BY <1>8 DEF ChainDistinct
  <1>11. /\ status'[t] = "suspended"
         /\ \A u \in Threads \ {t} : status'[u] = status[u]
    BY DEF Yield, YieldAllowed, TypeOK
  <1>12. \A i \in ResumeIndices : i # n => calls[i].thread \in Threads \ {t}
    BY <1>10 DEF ChainLinked, ResumeIndices
  <1>13. ChainLinked'
    <2>1. \A i \in 1..n : Active(i)' <=> i < n
      BY <1>1 DEF Active
    <2>2. QED
      BY <2>1, <1>1, <1>9, <1>11, <1>12 DEF ChainLinked, Active, ResumeIndices
  <1>14. ChainDistinct'
    BY <1>1, <1>9 DEF ChainDistinct
  <1>15. ChainCovers'
    <2> SUFFICES ASSUME NEW u \in Threads, status'[u] = "running"
                 PROVE  u \in ActiveThreads'
      BY DEF ChainCovers
    <2>1. u # t /\ status[u] = "running"
      BY <1>11
    <2>2. PICK i \in ResumeIndices : calls[i].thread = u
      BY <2>1 DEF ChainCovers, ActiveThreads
    <2>3. i < n
      BY <2>1, <2>2, <1>4, <1>8 DEF ResumeIndices
    <2>4. i \in ResumeIndices' /\ Active(i)' /\ calls'[i].thread = u
      BY <2>2, <2>3, <1>1, <1>9 DEF Active
    <2>5. QED
      BY <2>4 DEF ActiveThreads
  <1>16. YieldArrives'
    BY <1>1, <1>5, <1>6 DEF YieldArrives, Call
  <1>17. RunningIsCurrent'
    <2>1. resumeParent[t] = ThreadAt(n - 1)
      BY <1>1, <1>8 DEF ChainLinked, Active, ResumeIndices
    <2>2. ThreadAt(n - 1) \in Threads \cup {Main}
      BY <1>4, <1>5, ThreadAtType
    <2>3. runningThread' = ThreadAt(n - 1)
      BY <2>1, <2>2, <1>1 DEF Yield, YieldAllowed, ResumeParentOrMain
    <2>4. ThreadAt(Len(calls) - 1)' = ThreadAt(n - 1)
      BY <1>1 DEF ThreadAt
    <2>5. QED
      BY <2>3, <2>4, <1>1 DEF RunningIsCurrent
  <1>18. BoundaryBalanced'
    <2>1. Blocking' = Blocking
      BY <1>1 DEF Blocking
    <2>2. QED
      BY <2>1, <1>1 DEF BoundaryBalanced
  <1>19. QED
    BY <1>2, <1>7, <1>13, <1>14, <1>15, <1>16, <1>17, <1>18

\* The error reached its Resume call: the body below continues.
LEMMA ArriveStep ==
  ASSUME IInv, TypeOK', NEW t \in Threads, ResumeYielded(t)
  PROVE  IInv'
  <1> USE DEF IInv, ResumeChain
  <1> DEFINE n == Len(calls)
  <1>1. /\ n > 0 /\ calls[n] = Call(t, "resume") /\ calls' = Pop
        /\ signal = "yield" /\ signal' = "none"
        /\ UNCHANGED <<kind, status, resumeParent, runningThread, goCallbackDepth, closed>>
    BY DEF ResumeYielded, AtResume, threadVars
  <1>2. /\ n \in Nat /\ Len(calls') = n - 1
        /\ \A i \in 1..(n - 1) : calls'[i] = calls[i]
        /\ \A i \in 0..(n - 1) : ThreadAt(i)' = ThreadAt(i)
        /\ ResumeIndices' = ResumeIndices \ {n}
        /\ Current' = ThreadAt(n - 1)
    BY <1>1, PopStack
  <1>3. goCallbackDepth = 0 /\ ~closed
    BY <1>1 DEF YieldArrives
  <1>4. ChainLinked'
    <2> SUFFICES ASSUME NEW i \in 1..(n - 1)
                 PROVE  /\ calls'[i].frame = "callback" => calls'[i].thread = ThreadAt(i - 1)'
                        /\ calls'[i].frame = "resume" =>
                             /\ calls'[i].thread \in Threads
                             /\ kind[calls'[i].thread] \in {"lua", "go", "trampoline"}
                        /\ calls'[i].frame = "resume" =>
                             /\ status[calls'[i].thread] = "running"
                             /\ resumeParent[calls'[i].thread] = ThreadAt(i - 1)'
      BY <1>1, <1>2 DEF ChainLinked
    <2>1. i \in 1..n /\ calls'[i] = calls[i] /\ ThreadAt(i - 1)' = ThreadAt(i - 1) /\ Active(i)
      BY <1>2 DEF Active
    <2>2. QED
      BY <2>1 DEF ChainLinked
  <1>5. ChainDistinct'
    <2>1. \A i \in ResumeIndices' : calls'[i] = calls[i] /\ i \in ResumeIndices
      BY <1>2 DEF ResumeIndices
    <2>2. QED
      BY <2>1 DEF ChainDistinct
  <1>6. ChainCovers'
    <2> SUFFICES ASSUME NEW u \in Threads, status[u] = "running"
                 PROVE  u \in ActiveThreads'
      BY <1>1 DEF ChainCovers
    <2>1. PICK i \in ResumeIndices : Active(i) /\ calls[i].thread = u
      BY DEF ChainCovers, ActiveThreads
    <2>2. i < n
      BY <2>1, <1>1 DEF Active
    <2>3. i \in ResumeIndices' /\ calls'[i].thread = u
      BY <2>1, <2>2, <1>2 DEF ResumeIndices
    <2>4. QED
      BY <2>3, <1>1 DEF ActiveThreads, Active
  <1>7. YieldArrives'
    BY <1>1 DEF YieldArrives
  <1>8. RunningIsCurrent'
    BY <1>1, <1>2, <1>3 DEF RunningIsCurrent
  <1>9. BoundaryBalanced'
    <2>1. Blocking = {}
      BY <1>3, BlockingFinite DEF BoundaryBalanced
    <2>2. ~BlockingAt(n)
      BY <2>1, <1>1, <1>2 DEF Blocking, BlockingAt
    <2>3. QED
      BY <2>2, <1>1, PopBlocking
  <1>10. QED
    BY <1>4, <1>5, <1>6, <1>7, <1>8, <1>9

\* A Go callback opens above the running body.
LEMMA EnterCallbackStep ==
  ASSUME IInv, TypeOK', EnterGoCallback
  PROVE  IInv'
  <1> USE ThreadAssumption DEF IInv, ResumeChain
  <1> DEFINE n == Len(calls) + 1
  <1>1. /\ signal = "none" /\ signal' = "none" /\ ~closed /\ ~closed'
        /\ calls \in Seq(Calls)
        /\ calls' = Append(calls, Call(Current, "callback"))
        /\ goCallbackDepth' = goCallbackDepth + 1
        /\ UNCHANGED <<kind, status, resumeParent, runningThread>>
    BY DEF EnterGoCallback, threadVars, TypeOK
  <1>2. Current \in Threads \cup {Main} /\ Call(Current, "callback") \in Calls
    BY ThreadAtType DEF Current, Call, Calls, TypeOK
  <1>3. /\ Len(calls') = n /\ calls'[n] = Call(Current, "callback")
        /\ \A i \in 1..Len(calls) : calls'[i] = calls[i]
    BY <1>1, <1>2, PushFacts
  <1>4. /\ Len(calls) \in Nat
        /\ 1..n = (1..Len(calls)) \cup {n} /\ n \notin 1..Len(calls)
    BY <1>1
  <1>5. ResumeIndices' = ResumeIndices
    BY <1>3, <1>4 DEF ResumeIndices, Call
  <1>6. \A i \in 0..Len(calls) : ThreadAt(i)' = ThreadAt(i)
    BY <1>3 DEF ThreadAt
  <1>7. Current' = Current
    BY <1>3, <1>4 DEF Current, ThreadAt, Call
  <1>8. ChainLinked'
    <2> SUFFICES ASSUME NEW i \in 1..n
                 PROVE  /\ calls'[i].frame = "callback" => calls'[i].thread = ThreadAt(i - 1)'
                        /\ calls'[i].frame = "resume" =>
                             /\ calls'[i].thread \in Threads
                             /\ kind[calls'[i].thread] \in {"lua", "go", "trampoline"}
                        /\ calls'[i].frame = "resume" =>
                             /\ status[calls'[i].thread] = "running"
                             /\ resumeParent[calls'[i].thread] = ThreadAt(i - 1)'
      BY <1>1, <1>3 DEF ChainLinked
    <2>1. CASE i = n
      <3>1. i - 1 = Len(calls) /\ ThreadAt(i - 1)' = ThreadAt(i - 1)
        BY <2>1, <1>4, <1>6
      <3>2. calls'[i].frame = "callback" /\ calls'[i].thread = Current
        BY <2>1, <1>3 DEF Call
      <3>3. QED
        BY <3>1, <3>2 DEF Current
    <2>2. CASE i \in 1..Len(calls)
      <3>1. calls'[i] = calls[i] /\ ThreadAt(i - 1)' = ThreadAt(i - 1)
        BY <2>2, <1>3, <1>4, <1>6
      <3>2. QED
        BY <2>2, <3>1, <1>1 DEF ChainLinked, Active
    <2>3. QED
      BY <2>1, <2>2, <1>4
  <1>9. \A i \in ResumeIndices : calls'[i] = calls[i]
    BY <1>3 DEF ResumeIndices
  <1>10. ChainDistinct'
    BY <1>5, <1>9 DEF ChainDistinct
  <1>11. ActiveThreads' = ActiveThreads
    BY <1>1, <1>5, <1>9 DEF ActiveThreads, Active
  <1>12. ChainCovers'
    BY <1>1, <1>11 DEF ChainCovers
  <1>13. YieldArrives'
    BY <1>1 DEF YieldArrives
  <1>14. RunningIsCurrent'
    BY <1>1, <1>7 DEF RunningIsCurrent
  <1>15. BoundaryBalanced'
    <2>1. Call(Current, "callback").frame = "callback"
      BY DEF Call
    <2>2. QED
      BY <2>1, <1>1, <1>2, PushBlocking
  <1>16. QED
    BY <1>8, <1>10, <1>12, <1>13, <1>14, <1>15

\* A Go callback ends, normally or by an error.
LEMMA LeaveCallbackStep ==
  ASSUME IInv, TypeOK', LeaveGoCallback
  PROVE  IInv'
  <1> USE DEF IInv, ResumeChain
  <1> DEFINE n == Len(calls)
  <1>1. /\ n > 0 /\ calls[n].frame = "callback" /\ calls' = Pop /\ ExitGoCallback
        /\ signal = "none" /\ signal' = "none"
        /\ UNCHANGED <<kind, status, resumeParent, runningThread, closed>>
    BY DEF LeaveGoCallback, threadVars
  <1>2. /\ n \in Nat /\ Len(calls') = n - 1
        /\ \A i \in 1..(n - 1) : calls'[i] = calls[i]
        /\ \A i \in 0..(n - 1) : ThreadAt(i)' = ThreadAt(i)
        /\ ResumeIndices' = ResumeIndices \ {n}
        /\ Current' = ThreadAt(n - 1)
    BY <1>1, PopStack
  <1>3. ResumeIndices' = ResumeIndices
    BY <1>1, <1>2 DEF ResumeIndices
  <1>4. calls[n].thread = ThreadAt(n - 1)
    BY <1>1, <1>2 DEF ChainLinked
  <1>5. Current' = Current
    BY <1>1, <1>2, <1>4 DEF Current, ThreadAt
  <1>6. ChainLinked'
    <2> SUFFICES ASSUME NEW i \in 1..(n - 1)
                 PROVE  /\ calls'[i].frame = "callback" => calls'[i].thread = ThreadAt(i - 1)'
                        /\ calls'[i].frame = "resume" =>
                             /\ calls'[i].thread \in Threads
                             /\ kind[calls'[i].thread] \in {"lua", "go", "trampoline"}
                        /\ calls'[i].frame = "resume" =>
                             /\ status[calls'[i].thread] = "running"
                             /\ resumeParent[calls'[i].thread] = ThreadAt(i - 1)'
      BY <1>1, <1>2 DEF ChainLinked
    <2>1. i \in 1..n /\ calls'[i] = calls[i] /\ ThreadAt(i - 1)' = ThreadAt(i - 1) /\ Active(i)
      BY <1>1, <1>2 DEF Active
    <2>2. QED
      BY <2>1 DEF ChainLinked
  <1>7. \A i \in ResumeIndices : calls'[i] = calls[i]
    BY <1>1, <1>2 DEF ResumeIndices
  <1>8. ChainDistinct'
    BY <1>3, <1>7 DEF ChainDistinct
  <1>9. ActiveThreads' = ActiveThreads
    BY <1>1, <1>3, <1>7 DEF ActiveThreads, Active
  <1>10. ChainCovers'
    BY <1>1, <1>9 DEF ChainCovers
  <1>11. YieldArrives'
    BY <1>1 DEF YieldArrives
  <1>12. RunningIsCurrent'
    BY <1>1, <1>5 DEF RunningIsCurrent
  <1>13. BoundaryBalanced'
    <2>1. BlockingAt(n)
      BY <1>1 DEF BlockingAt
    <2>2. QED
      BY <2>1, <1>1, PopBlocking
  <1>14. QED
    BY <1>6, <1>8, <1>10, <1>11, <1>12, <1>13

\* Close only takes the running thread away.
LEMMA CloseStep ==
  ASSUME IInv, TypeOK', Close
  PROVE  IInv'
  <1> USE DEF IInv, ResumeChain
  <1>1. /\ closed' /\ runningThread' = NoThread /\ signal = "none" /\ signal' = "none"
        /\ UNCHANGED <<kind, status, resumeParent, calls, goCallbackDepth>>
    BY DEF Close, threadVars
  <1>2. /\ ResumeIndices' = ResumeIndices
        /\ \A i : ThreadAt(i)' = ThreadAt(i)
        /\ \A i : Active(i)' <=> Active(i)
    BY <1>1 DEF ResumeIndices, ThreadAt, Active
  <1>3. ChainLinked'
    BY <1>1, <1>2 DEF ChainLinked
  <1>4. ChainDistinct'
    BY <1>1, <1>2 DEF ChainDistinct
  <1>5. ActiveThreads' = ActiveThreads
    BY <1>1, <1>2 DEF ActiveThreads
  <1>6. ChainCovers' /\ YieldArrives' /\ RunningIsCurrent'
    BY <1>1, <1>5 DEF ChainCovers, YieldArrives, RunningIsCurrent
  <1>7. Blocking' = Blocking
    BY <1>1 DEF Blocking
  <1>8. BoundaryBalanced'
    BY <1>1, <1>7 DEF BoundaryBalanced
  <1>9. QED
    BY <1>3, <1>4, <1>6, <1>8

LEMMA IInvStep ==
  ASSUME IInv, [Next]_vars
  PROVE  IInv'
  <1>1. TypeOK'
    BY TypeStep DEF IInv
  <1>2. ASSUME NEW t \in Threads, NEW k \in Kinds, NewThread(t, k) PROVE IInv'
    <2>1. \A i \in ResumeIndices : calls[i].thread \in Threads \ {t}
      BY <1>2 DEF IInv, ResumeChain, ChainLinked, ResumeIndices, NewThread
    <2>2. \A i \in ResumeIndices :
            LET u == calls[i].thread
            IN  kind'[u] = kind[u] /\ status'[u] = status[u] /\ resumeParent'[u] = resumeParent[u]
      BY <1>2, <2>1 DEF NewThread, IInv, TypeOK
    <2>3. \A u \in Threads : status'[u] = "running" => status[u] = "running"
      BY <1>2 DEF NewThread, IInv, TypeOK
    <2>4. QED
      BY <1>1, <1>2, <2>2, <2>3, QuietStep DEF NewThread
  <1>3. ASSUME NEW t \in Threads, ResumePeek(t) \/ ResumeUncallable(t) PROVE IInv'
    <2>1. signal = "none" /\ Resumable(t) /\ ~closed
      BY <1>3 DEF ResumePeek, ResumeUncallable, Resumable
    <2>2. \A i \in ResumeIndices : calls[i].thread \in Threads \ {t}
      BY <2>1, ResumableOffStack DEF IInv, ResumeChain, ChainLinked, ResumeIndices
    <2>3. runningThread' = runningThread
      <3>1. Len(calls) \in Nat /\ Current \in Threads \cup {Main}
        BY ThreadAtType DEF IInv, TypeOK, Current
      <3>2. runningThread # NoThread
        BY <2>1, <3>1, ThreadAssumption DEF IInv, RunningIsCurrent
      <3>3. QED
        BY <1>3, <3>2 DEF ResumePeek, ResumeUncallable, PreviousRunning
    <2>4. \A i \in ResumeIndices :
            LET u == calls[i].thread
            IN  kind'[u] = kind[u] /\ status'[u] = status[u] /\ resumeParent'[u] = resumeParent[u]
      BY <1>3, <2>2 DEF ResumePeek, ResumeUncallable, IInv, TypeOK
    <2>5. \A u \in Threads : status'[u] = "running" => status[u] = "running"
      BY <1>3 DEF ResumePeek, ResumeUncallable, IInv, TypeOK
    <2>6. UNCHANGED <<calls, signal, closed, goCallbackDepth>>
      BY <1>3 DEF ResumePeek, ResumeUncallable
    <2>7. QED
      BY <1>1, <2>3, <2>4, <2>5, <2>6, QuietStep
  <1>4. ASSUME NEW t \in Threads, ResumeEnter(t) PROVE IInv'
    BY <1>1, <1>4, EnterStep
  <1>5. ASSUME NEW t \in Threads, ResumeReturned(t) PROVE IInv'
    BY <1>1, <1>5, FinishStep DEF ResumeReturned
  <1>6. ASSUME NEW t \in Threads, ResumeFailed(t) PROVE IInv'
    BY <1>1, <1>6, FinishStep DEF ResumeFailed
  <1>7. ASSUME NEW t \in Threads, ResumeYielded(t) PROVE IInv'
    BY <1>1, <1>7, ArriveStep
  <1>8. ASSUME NEW t \in Threads, Yield(t) PROVE IInv'
    BY <1>1, <1>8, YieldStep
  <1>9. ASSUME NEW t \in Threads, MarkContinuationPending(t) PROVE IInv'
    BY <1>1, <1>9, QuietStep DEF MarkContinuationPending
  <1>10. CASE EnterGoCallback
    BY <1>1, <1>10, EnterCallbackStep
  <1>11. CASE LeaveGoCallback
    BY <1>1, <1>11, LeaveCallbackStep
  <1>12. CASE Close
    BY <1>1, <1>12, CloseStep
  <1>13. CASE UNCHANGED vars
    BY <1>1, <1>13, QuietStep DEF vars
  <1>14. QED
    BY <1>2, <1>3, <1>4, <1>5, <1>6, <1>7, <1>8, <1>9, <1>10, <1>11, <1>12, <1>13 DEF Next

\* The inductive invariant holds in every reachable state.
THEOREM Inductive == Spec => []IInv
  BY IInvInit, IInvStep, PTL DEF Spec

\* The calls in progress always form a chain of distinct running threads
\* from the host to the running body, whatever resumes, yields, fails or
\* closes (Resume and Yield of runtime/thread.go).
THEOREM ResumeChainHolds == Spec => []ResumeChain
  <1>1. IInv => ResumeChain
    BY DEF IInv
  <1>2. QED
    BY <1>1, Inductive, PTL

\* runningThread always names the body that executes.
THEOREM RunningIsCurrentHolds == Spec => []RunningIsCurrent
  <1>1. IInv => RunningIsCurrent
    BY DEF IInv
  <1>2. QED
    BY <1>1, Inductive, PTL

\* The Go callback depth always equals the callbacks open on the Go stack.
THEOREM BoundaryBalancedHolds == Spec => []BoundaryBalanced
  <1>1. IInv => BoundaryBalanced
    BY DEF IInv
  <1>2. QED
    BY <1>1, Inductive, PTL

\* coroutine.status reports "running" for the executing body only and
\* "normal" for every body that waits for a coroutine it resumed.
THEOREM StatusReportedHolds == Spec => []StatusReported
  <1>1. ASSUME IInv PROVE StatusReported
    <2> SUFFICES ASSUME signal = "none", ~closed, NEW t \in Threads
                 PROVE  /\ Status(t) = "running" <=> t = Current
                        /\ t \in ActiveThreads \ {Current} => Status(t) = "normal"
      BY DEF StatusReported
    <2>1. runningThread = Current
      BY <1>1 DEF IInv, RunningIsCurrent
    <2>2. Status(t) = "running" <=> t = Current
      BY <2>1 DEF Status
    <2>3. t \in ActiveThreads => status[t] = "running"
      BY <1>1 DEF ActiveThreads, IInv, ResumeChain, ChainLinked, ResumeIndices
    <2>4. t \in ActiveThreads \ {Current} => Status(t) = "normal"
      BY <2>1, <2>3 DEF Status
    <2>5. QED
      BY <2>2, <2>4
  <1>2. QED
    BY <1>1, Inductive, PTL

-----------------------------------------------------------------------------
(* What a step may never do *)

\* A coroutine starts to be suspended from running by Yield only.
LEMMA SuspendedByYield ==
  ASSUME IInv, [Next]_vars, NEW t \in Threads,
         status[t] = "running", status'[t] = "suspended"
  PROVE  Yield(t)
  <1> USE DEF IInv, TypeOK, threadVars
  <1>1. kind[t] # "none"
    BY DEF ResumeChain, ChainCovers, ActiveThreads, ResumeIndices, ChainLinked
  <1>2. ASSUME NEW u \in Threads, NEW k \in Kinds, NewThread(u, k) PROVE FALSE
    BY <1>1, <1>2 DEF NewThread
  <1>3. ASSUME NEW u \in Threads, ResumePeek(u) \/ ResumeUncallable(u) \/ ResumeEnter(u)
        PROVE FALSE
    BY <1>3 DEF ResumePeek, ResumeUncallable, ResumeEnter
  <1>4. ASSUME NEW u \in Threads, ResumeReturned(u) \/ ResumeFailed(u) PROVE FALSE
    BY <1>4 DEF ResumeReturned, ResumeFailed, ResumeFinish
  <1>5. ASSUME NEW u \in Threads, ResumeYielded(u) \/ MarkContinuationPending(u) PROVE FALSE
    BY <1>5 DEF ResumeYielded, MarkContinuationPending
  <1>6. ASSUME NEW u \in Threads, Yield(u) PROVE Yield(t)
    BY <1>6 DEF Yield, YieldAllowed
  <1>7. CASE EnterGoCallback \/ LeaveGoCallback \/ Close \/ UNCHANGED vars
    BY <1>7 DEF EnterGoCallback, LeaveGoCallback, Close, vars
  <1>8. QED
    BY <1>2, <1>3, <1>4, <1>5, <1>6, <1>7 DEF Next

\* A yield leaves its own Resume call and no Go callback.
THEOREM YieldStaysInsideHolds == Spec => YieldStaysInside
  <1> DEFINE Stays ==
        \A t \in Threads :
          status[t] = "running" /\ status'[t] = "suspended"
            => /\ calls # <<>> /\ calls[Len(calls)] = Call(t, "resume")
               /\ \A i \in 1..Len(calls) :
                    calls[i].frame = "resume" /\ kind[calls[i].thread] # "go"
  <1>1. ASSUME IInv, [Next]_vars PROVE Stays
    <2> SUFFICES ASSUME NEW t \in Threads, status[t] = "running", status'[t] = "suspended"
                 PROVE  /\ calls # <<>> /\ calls[Len(calls)] = Call(t, "resume")
                        /\ \A i \in 1..Len(calls) :
                             calls[i].frame = "resume" /\ kind[calls[i].thread] # "go"
      OBVIOUS
    <2>1. Yield(t)
      BY <1>1, SuspendedByYield
    <2>2. IInv'
      BY <1>1, IInvStep
    <2>3. AtResume(t) /\ Blocking = {}
      BY <1>1, <2>1, <2>2, YieldStep DEF IInv
    <2>4. \A i \in 1..Len(calls) : calls[i] \in Calls
      <3>1. calls \in Seq(Calls)
        BY <1>1 DEF IInv, TypeOK
      <3>2. QED
        BY <3>1
    <2>5. QED
      BY <2>3, <2>4 DEF AtResume, Blocking, Calls
  <1>2. ASSUME IInv, [Next]_vars PROVE [Stays]_vars
    BY <1>1, <1>2
  <1>3. QED
    BY <1>2, Inductive, PTL DEF Spec, YieldStaysInside

\* A coroutine that was not created has its initial status, and no thread is
\* resumed in a closed State; with IInv this is inductive.
Unborn == \A t \in Threads : kind[t] = "none" => status[t] = "suspended"

LEMMA UnbornStep ==
  ASSUME IInv, Unborn, [Next]_vars
  PROVE  /\ Unborn'
         /\ \A t \in Threads :
              /\ status[t] = "dead" => status'[t] = "dead"
              /\ closed /\ status'[t] = "running" => status[t] = "running"
  <1> USE DEF IInv, TypeOK, Unborn, threadVars
  <1> DEFINE Stays == \A t \in Threads :
               /\ status[t] = "dead" => status'[t] = "dead"
               /\ closed /\ status'[t] = "running" => status[t] = "running"
  <1>1. ASSUME NEW u \in Threads, NEW k \in Kinds, NewThread(u, k) PROVE Unborn' /\ Stays
    BY <1>1 DEF NewThread
  <1>2. ASSUME NEW u \in Threads, ResumePeek(u) \/ ResumeUncallable(u) \/ ResumeEnter(u)
        PROVE Unborn' /\ Stays
    <2>1. kind' = kind /\ kind[u] # "none" /\ status[u] # "dead" /\ ~closed
      BY <1>2 DEF ResumePeek, ResumeUncallable, ResumeEnter, Resumable
    <2>2. \A t \in Threads : t # u => status'[t] = status[t]
      BY <1>2 DEF ResumePeek, ResumeUncallable, ResumeEnter
    <2>3. QED
      BY <2>1, <2>2
  <1>3. ASSUME NEW u \in Threads, ResumeReturned(u) \/ ResumeFailed(u)
        PROVE Unborn' /\ Stays
    <2>1. AtResume(u) /\ kind' = kind /\ status' = [status EXCEPT ![u] = "dead"]
      BY <1>3 DEF ResumeReturned, ResumeFailed, ResumeFinish
    <2>2. kind[u] # "none"
      <3>1. calls[Len(calls)] = Call(u, "resume") /\ Len(calls) \in 1..Len(calls)
        BY <2>1 DEF AtResume
      <3>2. QED
        BY <3>1 DEF ResumeChain, ChainLinked, Call
    <2>3. QED
      BY <2>1, <2>2
  <1>4. ASSUME NEW u \in Threads, ResumeYielded(u) \/ MarkContinuationPending(u)
        PROVE Unborn' /\ Stays
    BY <1>4 DEF ResumeYielded, MarkContinuationPending
  <1>5. ASSUME NEW u \in Threads, Yield(u) PROVE Unborn' /\ Stays
    BY <1>5 DEF Yield, YieldAllowed
  <1>6. CASE EnterGoCallback \/ LeaveGoCallback \/ Close \/ UNCHANGED vars
    BY <1>6 DEF EnterGoCallback, LeaveGoCallback, Close, vars
  <1>7. QED
    BY <1>1, <1>2, <1>3, <1>4, <1>5, <1>6 DEF Next

\* A coroutine that returned or failed is never revived, and Close stops
\* every later resume (the status and closed checks of Resume).
THEOREM DeadForeverHolds == Spec => DeadForever
  <1> DEFINE Stays ==
        \A t \in Threads :
          /\ status[t] = "dead" => status'[t] = "dead"
          /\ closed /\ status'[t] = "running" => status[t] = "running"
  <1>1. Init => Unborn
    BY DEF Init, Unborn
  <1>2. ASSUME IInv, Unborn, [Next]_vars PROVE Unborn' /\ [Stays]_vars
    BY <1>2, UnbornStep
  <1>3. QED
    BY <1>1, <1>2, Inductive, PTL DEF Spec, DeadForever
============================================================================
