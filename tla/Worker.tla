------------------------------- MODULE Worker -------------------------------
(***************************************************************************)
(* The reactor of cobra (src/cobra/worker.h, worker.cpp): one event loop,  *)
(* run by the thread that created it, and the calls other threads make on  *)
(* it.  Threads hand functors to the loop through pendingFunctors_, and    *)
(* rouse it out of poll() through an eventfd.                              *)
(*                                                                         *)
(* A functor is a token of Functors.  A token may be queued again once it  *)
(* has started to run, so behaviours are unbounded while the queue is not: *)
(* the number of tokens is the bound on the queue.                         *)
(***************************************************************************)
EXTENDS Naturals, Sequences, FiniteSets

CONSTANTS
  Callers,        \* the threads other than the loop's own
  LoopThread,     \* threadId_: the thread that created the Worker
  Functors,       \* the callbacks handed to queueInLoop / runInLoop
  UserChannels,   \* the registered channels besides wakeupChannel_
  WakeupChannel,  \* wakeupChannel_
  None            \* no callback is running

ASSUME WorkerAssumption ==
  /\ LoopThread \notin Callers
  /\ WakeupChannel \notin UserChannels
  /\ Functors \cap UserChannels = {}
  /\ None \notin Functors \cup UserChannels

Threads == Callers \cup {LoopThread}
Channels == UserChannels \cup {WakeupChannel}

VARIABLES
  loopPc,            \* where the loop thread is in Loop()
  quit,              \* quit_
  wakeupFd,          \* the eventfd counter is above zero (it is readable)
  ready,             \* the user channels whose descriptor has an event
  activeChannels,    \* the rest of activeChannels_ still to be handled
  current,           \* the user callback (of a channel, or functor) running
  pendingFunctors,   \* pendingFunctors_, guarded by mutex_
  functors,          \* the local batch of doPendingFunctors still to run
  callingPendingFunctors, \* callingPendingFunctors_
  call,              \* how far each thread is in queueInLoop or Quit
  early              \* history: queued by the loop's thread before Loop()

pollVars == <<ready, activeChannels>>
queueVars == <<pendingFunctors, functors, early>>
workerVars == <<loopPc, quit, wakeupFd, current, callingPendingFunctors, call,
                pollVars, queueVars>>

LoopPcs == {"created", "check", "poll", "events", "swap", "functors",
            "returned"}

Queued(q) == {q[i] : i \in 1..Len(q)}

\* The functors handed over and not yet started.
Outstanding == Queued(pendingFunctors) \cup Queued(functors)

TypeOK ==
  /\ loopPc \in LoopPcs
  /\ quit \in BOOLEAN
  /\ wakeupFd \in BOOLEAN
  /\ ready \in SUBSET UserChannels
  /\ activeChannels \in SUBSET Channels
  /\ current \in Functors \cup UserChannels \cup {None}
  /\ pendingFunctors \in Seq(Functors)
  /\ functors \in Seq(Functors)
  /\ callingPendingFunctors \in BOOLEAN
  /\ call \in [Threads -> {"none", "queued", "quitting"}]
  /\ early \in SUBSET Functors

(***************************************************************************)
(* The constructor, worker.cpp 49-73, and what the loop starts from.       *)
(***************************************************************************)
Init ==
  /\ loopPc = "created"
  /\ quit = FALSE
  /\ wakeupFd = FALSE
  /\ ready = {}
  /\ activeChannels = {}
  /\ current = None
  /\ pendingFunctors = <<>>
  /\ functors = <<>>
  /\ callingPendingFunctors = FALSE
  /\ call = [t \in Threads |-> "none"]
  /\ early = {}

-----------------------------------------------------------------------------
(* Loop(), worker.cpp 82-111.                                              *)

\* Entry: looping_ = true, quit_ = false.
Loop ==
  /\ loopPc = "created"
  /\ call[LoopThread] = "none"
  /\ loopPc' = "check"
  /\ quit' = FALSE
  /\ UNCHANGED <<wakeupFd, current, callingPendingFunctors, call, pollVars,
                 queueVars>>

\* while (!quit_), then poll() with an empty activeChannels_.
CheckQuit ==
  /\ loopPc = "check"
  /\ loopPc' = IF quit THEN "returned" ELSE "poll"
  /\ activeChannels' = {}
  /\ UNCHANGED <<quit, wakeupFd, current, callingPendingFunctors, call,
                 ready, queueVars>>

ReadyChannels == ready \cup (IF wakeupFd THEN {WakeupChannel} ELSE {})

\* poll() returns with some of the channels that have an event: the epoll
\* poller's event list may be shorter than the list of ready descriptors.
PollReturn ==
  /\ loopPc = "poll"
  /\ activeChannels' \in (SUBSET ReadyChannels) \ {{}}
  /\ loopPc' = "events"
  /\ UNCHANGED <<quit, wakeupFd, current, callingPendingFunctors, call,
                 ready, queueVars>>

\* Mutant of PollTimeout: the loop takes an empty poll() for its end.
PollTimeoutEndsLoop ==
  /\ loopPc = "poll"
  /\ activeChannels' = {}
  /\ loopPc' = "returned"
  /\ UNCHANGED <<quit, wakeupFd, current, callingPendingFunctors, call,
                 ready, queueVars>>

\* poll() returns without a channel: after kPollTimeMs, or on EINTR.
PollTimeout ==
  /\ loopPc = "poll"
  /\ activeChannels' = {}
  /\ loopPc' = "events"
  /\ UNCHANGED <<quit, wakeupFd, current, callingPendingFunctors, call,
                 ready, queueVars>>

\* handleEvent of wakeupChannel_: handleRead drains the eventfd.
HandleRead ==
  /\ loopPc = "events" /\ current = None
  /\ WakeupChannel \in activeChannels
  /\ activeChannels' = activeChannels \ {WakeupChannel}
  /\ wakeupFd' = FALSE
  /\ UNCHANGED <<loopPc, quit, current, callingPendingFunctors, call, ready,
                 queueVars>>

\* handleEvent of another active channel calls back into user code ...
BeginEvent(c) ==
  /\ loopPc = "events" /\ current = None
  /\ c \in activeChannels
  /\ activeChannels' = activeChannels \ {c}
  /\ current' = c
  /\ UNCHANGED <<loopPc, quit, wakeupFd, callingPendingFunctors, call, ready,
                 queueVars>>

\* ... which consumes the event, or leaves some of it for the next poll().
EndEvent ==
  /\ loopPc = "events" /\ current # None
  /\ call[LoopThread] = "none"
  /\ ready' \in {ready, ready \ {current}}
  /\ current' = None
  /\ UNCHANGED <<loopPc, quit, wakeupFd, callingPendingFunctors, call,
                 activeChannels, queueVars>>

\* The for loop ends; doPendingFunctors sets callingPendingFunctors_.
EventsDone ==
  /\ loopPc = "events" /\ current = None
  /\ activeChannels = {}
  /\ callingPendingFunctors' = TRUE
  /\ loopPc' = "swap"
  /\ UNCHANGED <<quit, wakeupFd, current, call, pollVars, queueVars>>

\* Mutant of SwapPending: pendingFunctors_ is copied and not emptied.
SwapPendingCopies ==
  /\ loopPc = "swap"
  /\ functors' = pendingFunctors
  /\ early' = {}
  /\ loopPc' = "functors"
  /\ UNCHANGED <<quit, wakeupFd, current, callingPendingFunctors, call,
                 pollVars, pendingFunctors>>

\* doPendingFunctors: the swap under mutex_.
SwapPending ==
  /\ loopPc = "swap"
  /\ functors' = pendingFunctors
  /\ pendingFunctors' = <<>>
  /\ early' = {}
  /\ loopPc' = "functors"
  /\ UNCHANGED <<quit, wakeupFd, current, callingPendingFunctors, call,
                 pollVars>>

BeginFunctor ==
  /\ loopPc = "functors" /\ current = None
  /\ functors # <<>>
  /\ current' = Head(functors)
  /\ functors' = Tail(functors)
  /\ UNCHANGED <<loopPc, quit, wakeupFd, callingPendingFunctors, call,
                 pollVars, pendingFunctors, early>>

EndFunctor ==
  /\ loopPc = "functors" /\ current # None
  /\ call[LoopThread] = "none"
  /\ current' = None
  /\ UNCHANGED <<loopPc, quit, wakeupFd, callingPendingFunctors, call,
                 pollVars, queueVars>>

FunctorsDone ==
  /\ loopPc = "functors" /\ current = None
  /\ functors = <<>>
  /\ callingPendingFunctors' = FALSE
  /\ loopPc' = "check"
  /\ UNCHANGED <<quit, wakeupFd, current, call, pollVars, queueVars>>

-----------------------------------------------------------------------------
(* The calls on the Worker.                                                *)

\* The loop's own thread calls from a callback, or before Loop().
MayCall(t) ==
  /\ call[t] = "none"
  /\ t = LoopThread => \/ loopPc = "created"
                       \/ current # None

\* queueInLoop, and runInLoop from another thread (worker.cpp 123-140): the
\* push under mutex_.  runInLoop from the loop's own thread runs the functor
\* within the callback that makes the call and touches nothing here.
QueueInLoop(t, f) ==
  /\ MayCall(t)
  /\ f \notin Outstanding
  /\ pendingFunctors' = Append(pendingFunctors, f)
  /\ call' = [call EXCEPT ![t] = "queued"]
  /\ early' = IF t = LoopThread /\ loopPc = "created" THEN early \cup {f}
                                                      ELSE early
  /\ UNCHANGED <<loopPc, quit, wakeupFd, current, callingPendingFunctors,
                 pollVars, functors>>

\* Mutant of NeedsWakeup: the loop's own thread never writes.
NeedsWakeupOthersOnly(t) == t # LoopThread

\* Who has to write to the eventfd after a push.
NeedsWakeup(t) == t # LoopThread \/ callingPendingFunctors

\* queueInLoop, after the unlock: wakeup() when it is needed.
QueueWakeup(t) ==
  /\ call[t] = "queued"
  /\ call' = [call EXCEPT ![t] = "none"]
  /\ wakeupFd' = (wakeupFd \/ NeedsWakeup(t))
  /\ UNCHANGED <<loopPc, quit, current, callingPendingFunctors, pollVars,
                 queueVars>>

\* Quit(), worker.cpp 113-121: quit_ = true ...
Quit(t) ==
  /\ MayCall(t)
  /\ quit' = TRUE
  /\ call' = [call EXCEPT ![t] = IF t = LoopThread THEN "none" ELSE "quitting"]
  /\ UNCHANGED <<loopPc, wakeupFd, current, callingPendingFunctors, pollVars,
                 queueVars>>

\* Mutant of QuitWakeup: Quit() leaves the loop asleep.
QuitWithoutWakeup(t) ==
  /\ call[t] = "quitting"
  /\ call' = [call EXCEPT ![t] = "none"]
  /\ UNCHANGED <<loopPc, quit, wakeupFd, current, callingPendingFunctors,
                 pollVars, queueVars>>

\* ... then wakeup() unless the caller is the loop's own thread.
QuitWakeup(t) ==
  /\ call[t] = "quitting"
  /\ call' = [call EXCEPT ![t] = "none"]
  /\ wakeupFd' = TRUE
  /\ UNCHANGED <<loopPc, quit, current, callingPendingFunctors, pollVars,
                 queueVars>>

\* A descriptor gets an event.
BecomeReady(c) ==
  /\ c \notin ready
  /\ ready' = ready \cup {c}
  /\ UNCHANGED <<loopPc, quit, wakeupFd, current, callingPendingFunctors,
                 call, activeChannels, queueVars>>

-----------------------------------------------------------------------------
LoopStep ==
  \/ CheckQuit
  \/ PollReturn
  \/ HandleRead
  \/ \E c \in UserChannels : BeginEvent(c)
  \/ EndEvent
  \/ EventsDone
  \/ SwapPending
  \/ BeginFunctor
  \/ EndFunctor
  \/ FunctorsDone

CallStep ==
  \E t \in Threads :
    \/ \E f \in Functors : QueueInLoop(t, f)
    \/ QueueWakeup(t)
    \/ Quit(t)
    \/ QuitWakeup(t)

Next ==
  \/ Loop
  \/ LoopStep
  \/ PollTimeout
  \/ CallStep
  \/ \E c \in UserChannels : BecomeReady(c)

(***************************************************************************)
(* The loop thread runs its code, and a thread that has pushed a functor   *)
(* or set quit_ gets to its wakeup().  Nothing makes a thread call the     *)
(* Worker or start the loop, no event has to arrive, and poll() is not     *)
(* assumed to time out: what is promised below must not wait ten seconds.  *)
(***************************************************************************)
Fairness ==
  /\ WF_workerVars(LoopStep)
  /\ \A t \in Threads : WF_workerVars(QueueWakeup(t) \/ QuitWakeup(t))

Spec == Init /\ [][Next]_workerVars /\ Fairness

-----------------------------------------------------------------------------
(* Properties.                                                             *)

Late == Queued(pendingFunctors) \ early

\* No wakeup is lost: while the loop sleeps in poll() with a functor in
\* pendingFunctors_, the eventfd is readable or a thread is between its push
\* and its wakeup().  The functors the loop's own thread queues before Loop()
\* are the exception: queueInLoop writes no wakeup for them.
NoLostWakeup ==
  loopPc = "poll" /\ Late # {} =>
    wakeupFd \/ \E t \in Callers : call[t] = "queued"

\* A Quit() that arrives while the loop sleeps in poll() rouses it: quit_ is
\* set only with the eventfd readable or the wakeup() still to come.
QuitRouses ==
  loopPc = "poll" /\ quit =>
    wakeupFd \/ \E t \in Callers : call[t] = "quitting"

\* The loop never sleeps through a call of queueInLoop or Quit(), wherever in its
\* iteration the call meets it.
WakeupsKept == NoLostWakeup /\ QuitRouses

\* The inductive invariant behind the two.  Where the flags stand in each phase
\* of the loop:
PhaseInv ==
  /\ callingPendingFunctors <=> loopPc \in {"swap", "functors"}
  /\ current # None => loopPc \in {"events", "functors"}
  /\ call[LoopThread] # "none" =>
       /\ call[LoopThread] = "queued"
       /\ loopPc = "created" \/ current # None

\* a functor in pendingFunctors_ is announced by the eventfd, or about to be,
\* or ahead of the swap of the current iteration;
Announced ==
  \/ wakeupFd
  \/ \E t \in Callers : call[t] = "queued"
  \/ loopPc \in {"events", "swap"}
  \/ loopPc = "functors" /\ call[LoopThread] = "queued"

WakeupInv == PhaseInv /\ (Late # {} => Announced) /\ QuitRouses

\* Loop() hands pendingFunctors_ over batch by batch and yet runs the functors
\* one at a time, each once, in the order of the pushes of all threads.
Exec == INSTANCE Executor WITH
  queue <- functors \o pendingFunctors,
  running <- IF current \in Functors THEN current ELSE None

ExecutorSpec == Exec!Spec

\* What the implementation of Executor rests on: the local batch is empty
\* outside doPendingFunctors, and functors run nowhere else.
BatchInv ==
  /\ loopPc # "functors" => functors = <<>>
  /\ loopPc = "functors" => current \notin UserChannels
  /\ loopPc # "functors" => current \notin Functors

\* Every functor handed to a running loop gets its turn, or the loop is quit:
\* doPendingFunctors reaches it without waiting for poll() to time out.
FunctorsRun ==
  \A f \in Functors :
    (f \in Outstanding \ early /\ loopPc # "created")
      ~> (f \notin Outstanding \/ loopPc = "returned")

\* Once Loop() has been entered, Quit() ends it, from any thread.
QuitEndsLoop == (quit /\ loopPc # "created") ~> (loopPc = "returned")

=============================================================================
