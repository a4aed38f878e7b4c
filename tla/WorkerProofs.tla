---------------------------- MODULE WorkerProofs ----------------------------
(***************************************************************************)
(* Proofs about Worker, for any number of threads, functors and channels.  *)
(***************************************************************************)
EXTENDS Worker, SequenceTheorems, TLAPS

-----------------------------------------------------------------------------
(* Queues of functors.                                                     *)

\* What a push_back does to the set of queued functors.
LEMMA QueuedAppend ==
  ASSUME NEW S, NEW q \in Seq(S), NEW f \in S
  PROVE  /\ Append(q, f) \in Seq(S)
         /\ Queued(Append(q, f)) = Queued(q) \cup {f}
<1>1. /\ Len(Append(q, f)) = Len(q) + 1
      /\ \A i \in 1..Len(q) : Append(q, f)[i] = q[i]
      /\ Append(q, f)[Len(q) + 1] = f
      /\ Len(q) \in Nat
  OBVIOUS
<1>2. Queued(Append(q, f)) \subseteq Queued(q) \cup {f}
  BY <1>1 DEF Queued
<1>3. Queued(q) \subseteq Queued(Append(q, f))
  BY <1>1 DEF Queued
<1>4. f \in Queued(Append(q, f))
  BY <1>1 DEF Queued
<1> QED
  BY <1>2, <1>3, <1>4

\* An empty queue holds nothing.
LEMMA QueuedEmpty == Queued(<<>>) = {}
  BY DEF Queued

-----------------------------------------------------------------------------
(* Type correctness.                                                       *)

\* Every step of the loop and of a call keeps the Worker's state in its type.
LEMMA TypeInductive == TypeOK /\ [Next]_workerVars => TypeOK'
<1> SUFFICES ASSUME TypeOK, [Next]_workerVars
             PROVE  TypeOK'
  OBVIOUS
<1> USE DEF TypeOK, LoopPcs, Threads, Channels
<1>1. CASE Loop
  BY <1>1 DEF Loop, pollVars, queueVars
<1>2. CASE CheckQuit
  BY <1>2 DEF CheckQuit, queueVars
<1>3. CASE PollReturn
  BY <1>3 DEF PollReturn, ReadyChannels, queueVars
<1>4. CASE HandleRead
  BY <1>4 DEF HandleRead, queueVars
<1>5. ASSUME NEW c \in UserChannels, BeginEvent(c) PROVE TypeOK'
  BY <1>5 DEF BeginEvent, queueVars
<1>6. CASE EndEvent
  BY <1>6 DEF EndEvent, queueVars
<1>7. CASE EventsDone
  BY <1>7 DEF EventsDone, pollVars, queueVars
<1>8. CASE SwapPending
  BY <1>8 DEF SwapPending, pollVars
<1>9. CASE BeginFunctor
  BY <1>9 DEF BeginFunctor, pollVars
<1>10. CASE EndFunctor
  BY <1>10 DEF EndFunctor, pollVars, queueVars
<1>11. CASE FunctorsDone
  BY <1>11 DEF FunctorsDone, pollVars, queueVars
<1>12. CASE PollTimeout
  BY <1>12 DEF PollTimeout, queueVars
<1>13. ASSUME NEW t \in Threads, NEW f \in Functors, QueueInLoop(t, f)
       PROVE TypeOK'
  BY <1>13 DEF QueueInLoop, pollVars
<1>14. ASSUME NEW t \in Threads, QueueWakeup(t) PROVE TypeOK'
  BY <1>14 DEF QueueWakeup, NeedsWakeup, pollVars, queueVars
<1>15. ASSUME NEW t \in Threads, Quit(t) PROVE TypeOK'
  BY <1>15 DEF Quit, pollVars, queueVars
<1>16. ASSUME NEW t \in Threads, QuitWakeup(t) PROVE TypeOK'
  BY <1>16 DEF QuitWakeup, pollVars, queueVars
<1>17. ASSUME NEW c \in UserChannels, BecomeReady(c) PROVE TypeOK'
  BY <1>17 DEF BecomeReady, queueVars
<1>18. CASE UNCHANGED workerVars
  BY <1>18 DEF workerVars, pollVars, queueVars
<1> QED
  BY <1>1, <1>2, <1>3, <1>4, <1>5, <1>6, <1>7, <1>8, <1>9, <1>10, <1>11,
     <1>12, <1>13, <1>14, <1>15, <1>16, <1>17, <1>18
  DEF Next, LoopStep, CallStep

\* The Worker's state always has its type.
THEOREM TypeCorrect == Spec => []TypeOK
<1>1. Init => TypeOK
  <2> SUFFICES ASSUME Init PROVE TypeOK
    OBVIOUS
  <2>1. /\ quit \in BOOLEAN
        /\ wakeupFd \in BOOLEAN
        /\ callingPendingFunctors \in BOOLEAN
    BY DEF Init
  <2>2. /\ pendingFunctors \in Seq(Functors)
        /\ functors \in Seq(Functors)
    BY DEF Init
  <2>3. call \in [Threads -> {"none", "queued", "quitting"}]
    BY DEF Init
  <2> QED
    BY <2>1, <2>2, <2>3 DEF Init, TypeOK, LoopPcs
<1> QED
  BY <1>1, TypeInductive, PTL DEF Spec

-----------------------------------------------------------------------------
(* No lost wakeup.                                                         *)

\* Every step of the loop keeps the wakeup protocol's invariant ...
LEMMA LoopStepWakeupInv ==
  ASSUME TypeOK, WakeupInv, Loop \/ LoopStep \/ PollTimeout
  PROVE  WakeupInv'
<1> USE DEF WakeupInv, PhaseInv, Announced, QuitRouses, Late, TypeOK, LoopPcs,
            Threads
<1>1. CASE Loop
  BY <1>1 DEF Loop, pollVars, queueVars
<1>2. CASE CheckQuit
  BY <1>2 DEF CheckQuit, queueVars
<1>3. CASE PollReturn
  BY <1>3 DEF PollReturn, queueVars
<1>4. CASE HandleRead
  BY <1>4 DEF HandleRead, queueVars
<1>5. ASSUME NEW c \in UserChannels, BeginEvent(c) PROVE WakeupInv'
  BY <1>5, WorkerAssumption DEF BeginEvent, queueVars
<1>6. CASE EndEvent
  BY <1>6 DEF EndEvent, queueVars
<1>7. CASE EventsDone
  BY <1>7 DEF EventsDone, pollVars, queueVars
<1>8. CASE SwapPending
  BY <1>8, QueuedEmpty DEF SwapPending, pollVars
<1>9. CASE BeginFunctor
  BY <1>9 DEF BeginFunctor, pollVars
<1>10. CASE EndFunctor
  BY <1>10 DEF EndFunctor, pollVars, queueVars
<1>11. CASE FunctorsDone
  BY <1>11 DEF FunctorsDone, pollVars, queueVars
<1>12. CASE PollTimeout
  BY <1>12 DEF PollTimeout, queueVars
<1> QED
  BY <1>1, <1>2, <1>3, <1>4, <1>5, <1>6, <1>7, <1>8, <1>9, <1>10, <1>11,
     <1>12 DEF LoopStep

\* ... and so does every step of a call.
LEMMA CallStepWakeupInv ==
  ASSUME TypeOK, WakeupInv, CallStep
  PROVE  WakeupInv'
<1> USE DEF PhaseInv, Announced, QuitRouses, TypeOK, LoopPcs, Threads
<1>1. ASSUME NEW t \in Threads, NEW f \in Functors, QueueInLoop(t, f)
      PROVE WakeupInv'
  <2>1. Queued(pendingFunctors') = Queued(pendingFunctors) \cup {f}
    BY <1>1, QueuedAppend DEF QueueInLoop
  <2>2. CASE t = LoopThread /\ loopPc = "created"
    <3>1. Late' \subseteq Late
      BY <1>1, <2>1, <2>2 DEF QueueInLoop, Late
    <3> QED
      BY <1>1, <2>2, <3>1, WorkerAssumption
      DEF QueueInLoop, MayCall, WakeupInv, pollVars
  <2>3. CASE t = LoopThread /\ loopPc # "created"
    BY <1>1, <2>3, WorkerAssumption DEF QueueInLoop, MayCall, WakeupInv, pollVars
  <2>4. CASE t \in Callers
    BY <1>1, <2>4, WorkerAssumption DEF QueueInLoop, MayCall, WakeupInv, pollVars
  <2> QED
    BY <2>2, <2>3, <2>4
<1>2. ASSUME NEW t \in Threads, QueueWakeup(t) PROVE WakeupInv'
  BY <1>2, WorkerAssumption
  DEF QueueWakeup, NeedsWakeup, WakeupInv, Late, pollVars, queueVars
<1>3. ASSUME NEW t \in Threads, Quit(t) PROVE WakeupInv'
  BY <1>3, WorkerAssumption
  DEF Quit, MayCall, WakeupInv, Late, pollVars, queueVars
<1>4. ASSUME NEW t \in Threads, QuitWakeup(t) PROVE WakeupInv'
  BY <1>4, WorkerAssumption DEF QuitWakeup, WakeupInv, Late, pollVars, queueVars
<1> QED
  BY <1>1, <1>2, <1>3, <1>4 DEF CallStep

\* Together: the invariant is inductive ...
LEMMA WakeupInductive == TypeOK /\ WakeupInv /\ [Next]_workerVars => WakeupInv'
<1> SUFFICES ASSUME TypeOK, WakeupInv, [Next]_workerVars
             PROVE  WakeupInv'
  OBVIOUS
<1>1. ASSUME NEW c \in UserChannels, BecomeReady(c) PROVE WakeupInv'
  BY <1>1 DEF BecomeReady, queueVars, WakeupInv, PhaseInv, Announced, QuitRouses,
              Late
<1>2. CASE UNCHANGED workerVars
  BY <1>2 DEF workerVars, pollVars, queueVars, WakeupInv, PhaseInv, Announced,
              QuitRouses, Late
<1> QED
  BY <1>1, <1>2, LoopStepWakeupInv, CallStepWakeupInv DEF Next

\* ... and so holds in every reachable state.
LEMMA WakeupInvariant == Spec => []WakeupInv
<1>1. Init => WakeupInv
  BY QueuedEmpty
  DEF Init, WakeupInv, PhaseInv, QuitRouses, Late, Threads
<1> QED
  BY <1>1, TypeCorrect, WakeupInductive, PTL DEF Spec

\* The loop never sleeps in poll() on a functor or a quit_ nobody is going to
\* announce, whatever the number of threads that call queueInLoop and Quit().
THEOREM WakeupSafety == Spec => []WakeupsKept
<1>1. WakeupInv => WakeupsKept
  BY DEF WakeupInv, Announced, NoLostWakeup, WakeupsKept
<1> QED
  BY <1>1, WakeupInvariant, PTL

-----------------------------------------------------------------------------
(* The Worker implements Executor.                                         *)

\* Facts on sequences the mapping functors \o pendingFunctors needs.
LEMMA ConcatFacts ==
  ASSUME NEW S, NEW a \in Seq(S), NEW b \in Seq(S), NEW f \in S
  PROVE  /\ a \o Append(b, f) = Append(a \o b, f)
         /\ a # <<>> => /\ a \o b # <<>>
                        /\ Head(a \o b) = Head(a)
                        /\ Tail(a \o b) = Tail(a) \o b
         /\ <<>> \o a = a
         /\ a \o <<>> = a
  OBVIOUS

\* The shape of the batch is kept by every step.
LEMMA BatchInductive ==
  TypeOK /\ PhaseInv /\ BatchInv /\ [Next]_workerVars => BatchInv'
<1> SUFFICES ASSUME TypeOK, PhaseInv, BatchInv, [Next]_workerVars
             PROVE  BatchInv'
  OBVIOUS
<1> USE DEF BatchInv
<1>1. CASE Loop \/ LoopStep \/ PollTimeout
  <2>1. CASE BeginFunctor
    BY <2>1, WorkerAssumption DEF BeginFunctor, TypeOK
  <2>2. CASE SwapPending
    BY <2>2, WorkerAssumption DEF SwapPending, PhaseInv
  <2>3. ASSUME NEW c \in UserChannels, BeginEvent(c) PROVE BatchInv'
    BY <2>3, WorkerAssumption DEF BeginEvent, queueVars
  <2> QED
    BY <1>1, <2>1, <2>2, <2>3, WorkerAssumption
    DEF LoopStep, Loop, CheckQuit, PollReturn, HandleRead, EndEvent, EventsDone,
        EndFunctor, FunctorsDone, PollTimeout, queueVars
<1>2. CASE CallStep
  BY <1>2 DEF CallStep, QueueInLoop, QueueWakeup, Quit, QuitWakeup, queueVars
<1>3. ASSUME NEW c \in UserChannels, BecomeReady(c) PROVE BatchInv'
  BY <1>3 DEF BecomeReady, queueVars
<1>4. CASE UNCHANGED workerVars
  BY <1>4 DEF workerVars, queueVars
<1> QED
  BY <1>1, <1>2, <1>3, <1>4 DEF Next

\* The batch has its shape in every reachable state.
LEMMA BatchInvariant == Spec => []BatchInv
<1>1. Init => BatchInv
  BY WorkerAssumption DEF Init, BatchInv
<1>2. WakeupInv => PhaseInv
  BY DEF WakeupInv
<1> QED
  BY <1>1, <1>2, TypeCorrect, WakeupInvariant, BatchInductive, PTL DEF Spec

\* Every step of the Worker is a step of Executor, or changes nothing there.
LEMMA StepImplements ==
  TypeOK /\ PhaseInv /\ BatchInv /\ [Next]_workerVars
    => [Exec!Next]_(Exec!execVars)
<1> SUFFICES ASSUME TypeOK, PhaseInv, BatchInv, [Next]_workerVars
             PROVE  Exec!Next \/ UNCHANGED Exec!execVars
  OBVIOUS
<1> USE WorkerAssumption DEF Exec!execVars, BatchInv
<1>1. CASE BeginFunctor
  <2>1. /\ current = None
        /\ functors # <<>>
        /\ current' = Head(functors)
        /\ functors' = Tail(functors)
        /\ pendingFunctors' = pendingFunctors
    BY <1>1 DEF BeginFunctor, pollVars
  <2>2. Head(functors) \in Functors
    BY <2>1 DEF TypeOK
  <2>3. /\ functors \o pendingFunctors # <<>>
        /\ Head(functors \o pendingFunctors) = Head(functors)
        /\ Tail(functors \o pendingFunctors) = Tail(functors) \o pendingFunctors
    BY <2>1, <2>2, ConcatFacts DEF TypeOK
  <2>4. Exec!Start
    BY <2>1, <2>2, <2>3 DEF Exec!Start
  <2> QED
    BY <2>4 DEF Exec!Next
<1>2. CASE EndFunctor
  <2>1. current \in Functors
    BY <1>2 DEF EndFunctor, TypeOK
  <2>2. Exec!Finish
    BY <1>2, <2>1 DEF EndFunctor, queueVars, Exec!Finish
  <2> QED
    BY <2>2 DEF Exec!Next
<1>3. CASE SwapPending
  <2>1. functors = <<>> /\ pendingFunctors' = <<>> /\ functors' = pendingFunctors
    BY <1>3 DEF SwapPending
  <2>2. current' = current
    BY <1>3 DEF SwapPending
  <2>3. functors' \o pendingFunctors' = functors \o pendingFunctors
    BY <2>1, ConcatFacts DEF TypeOK
  <2> QED
    BY <2>2, <2>3
<1>4. ASSUME NEW c \in UserChannels, BeginEvent(c)
      PROVE  UNCHANGED Exec!execVars
  BY <1>4 DEF BeginEvent, queueVars
<1>5. CASE EndEvent
  BY <1>5 DEF EndEvent, queueVars
<1>6. ASSUME NEW t \in Threads, NEW f \in Functors, QueueInLoop(t, f)
      PROVE  Exec!Next
  <2>1. functors \o Append(pendingFunctors, f)
          = Append(functors \o pendingFunctors, f)
    BY ConcatFacts DEF TypeOK
  <2>2. Exec!Submit(f)
    BY <1>6, <2>1 DEF QueueInLoop, Exec!Submit
  <2> QED
    BY <2>2 DEF Exec!Next
<1>7. CASE UNCHANGED <<functors, pendingFunctors, current>>
  BY <1>7
<1> QED
  <2>1. [Next]_workerVars =>
          \/ BeginFunctor \/ EndFunctor \/ SwapPending \/ EndEvent
          \/ \E c \in UserChannels : BeginEvent(c)
          \/ \E t \in Threads, f \in Functors : QueueInLoop(t, f)
          \/ UNCHANGED <<functors, pendingFunctors, current>>
    BY DEF Next, LoopStep, CallStep, Loop, CheckQuit, PollReturn, HandleRead,
           EventsDone, FunctorsDone, PollTimeout, QueueWakeup, Quit, QuitWakeup,
           BecomeReady, queueVars, workerVars
  <2> QED
    BY <2>1, <1>1, <1>2, <1>3, <1>4, <1>5, <1>6, <1>7

\* The functors handed to a Worker by any number of threads run one at a time,
\* in the order of the pushes, each once.
THEOREM ImplementsExecutor == Spec => ExecutorSpec
<1>1. Init => Exec!Init
  <2>1. <<>> \o <<>> = <<>>
    OBVIOUS
  <2> QED
    BY <2>1, WorkerAssumption DEF Init, Exec!Init
<1>2. WakeupInv => PhaseInv
  BY DEF WakeupInv
<1> QED
  BY <1>1, <1>2, StepImplements, TypeCorrect, WakeupInvariant, BatchInvariant, PTL
  DEF Spec, ExecutorSpec, Exec!Spec

=============================================================================
