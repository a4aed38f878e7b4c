---------------------------- MODULE ThreadPool ----------------------------
(***************************************************************************)
(* A ThreadPool (src/base/ThreadPool.cc) with its Threads                  *)
(* (src/base/Thread.cc): callers hand tasks to a queue that may be         *)
(* bounded, the pool's threads take and run them, and the owner starts the *)
(* pool and stops it, at any moment of the callers' and threads' work.     *)
(*                                                                         *)
(* A step is a critical section of mutex_, or a read of running_ outside   *)
(* it.  A task is <<caller, number>>; tasks end.                           *)
(***************************************************************************)
EXTENDS Naturals, Sequences, FiniteSets, Condition, Thread

CONSTANTS
  MaxThreads, \* bound: start()'s argument
  Callers,    \* the threads that call run()
  MaxTasks,   \* bound: the tasks of a caller
  MaxSize     \* bound: of maxQueueSize_

ASSUME ThreadPoolAssumption ==
  /\ MaxThreads \in Nat /\ MaxTasks \in Nat /\ MaxSize \in Nat
  /\ (1..MaxThreads) \cap Callers = {}

VARIABLES
  maxQueueSize,  \* maxQueueSize_
  numThreads,    \* start's argument
  thread,        \* the threads of threads_ and those still to be made
  running,       \* running_
  queue,         \* queue_
  notEmpty,      \* the threads that wait for notEmpty_
  notFull,       \* the callers that wait for notFull_
  pc,            \* of runInThread: "loop", "take" or "task"
  task,          \* the task it has taken
  owner,         \* "new", "start", "up", "stop" or "gone"
  calls,         \* how often each caller has called run()
  calling,       \* the callers that are inside run()
  \* history
  accepted,      \* the tasks pushed, in order
  taken,         \* the tasks taken, in order
  ran            \* how often each task has been run

poolVars == <<maxQueueSize, numThreads, thread, running, owner>>
queueVars == <<queue, notEmpty, notFull>>
threadVars == <<pc, task>>
callVars == <<calls, calling>>
history == <<accepted, taken, ran>>
vars == <<poolVars, queueVars, threadVars, callVars, history>>

Threads == 1..MaxThreads
threads == {t \in Threads : thread[t].started}
joined == {t \in Threads : thread[t].joined}
Tasks == Callers \X (1..MaxTasks)
None == <<>>

Init ==
  /\ maxQueueSize \in 0..MaxSize
  /\ numThreads \in 0..MaxThreads
  /\ thread = [t \in Threads |-> NewThread] /\ running = FALSE /\ owner = "new"
  /\ queue = <<>> /\ notEmpty = {} /\ notFull = {}
  /\ pc = [t \in Threads |-> "loop"] /\ task = [t \in Threads |-> None]
  /\ calls = [c \in Callers |-> 0] /\ calling = {}
  /\ accepted = <<>> /\ taken = <<>> /\ ran = [k \in Tasks |-> 0]

-----------------------------------------------------------------------------
(* The owner.                                                              *)

\* start, 31-33.
Start ==
  /\ owner = "new"
  /\ running' = TRUE /\ owner' = "start"
  /\ UNCHANGED <<maxQueueSize, numThreads, thread, queueVars, threadVars, callVars,
                 history>>

\* start, 34-41: each thread runs from the moment it is created.
StartThread(t) ==
  /\ owner = "start" /\ t <= numThreads /\ threads = 1..(t - 1)
  /\ thread' = [thread EXCEPT ![t] = start(@)]
  /\ UNCHANGED <<maxQueueSize, numThreads, running, owner, queueVars, threadVars,
                 callVars, history>>

Started ==
  /\ owner = "start" /\ threads = 1..numThreads
  /\ owner' = "up"
  /\ UNCHANGED <<maxQueueSize, numThreads, thread, running, queueVars, threadVars,
                 callVars, history>>

\* Mutant of Stop: one thread is woken.
StopNotifiesOne ==
  /\ owner = "up"
  /\ running' = FALSE /\ owner' = "stop"
  /\ notEmpty' \in notify(notEmpty)
  /\ UNCHANGED <<maxQueueSize, numThreads, thread, queue, notFull, threadVars,
                 callVars, history>>

\* stop, 46-50, also from ~ThreadPool.
Stop ==
  /\ owner = "up"
  /\ running' = FALSE /\ owner' = "stop"
  /\ notEmpty' = notifyAll(notEmpty)
  /\ UNCHANGED <<maxQueueSize, numThreads, thread, queue, notFull, threadVars,
                 callVars, history>>

\* stop, 51-53: the threads are joined in their order.
Join(t) ==
  /\ owner = "stop" /\ t \in threads /\ joined = 1..(t - 1)
  /\ Joinable(thread[t])
  /\ thread' = [thread EXCEPT ![t] = join(@)]
  /\ UNCHANGED <<maxQueueSize, numThreads, running, owner, queueVars, threadVars,
                 callVars, history>>

Stopped ==
  /\ owner = "stop" /\ joined = threads
  /\ owner' = "gone"
  /\ UNCHANGED <<maxQueueSize, numThreads, thread, running, queueVars, threadVars,
                 callVars, history>>

-----------------------------------------------------------------------------
(* The callers, once start() has returned and while the pool is there.     *)

isFull == maxQueueSize > 0 /\ Len(queue) >= maxQueueSize

Call(c) ==
  /\ owner = "up" /\ c \notin calling /\ calls[c] < MaxTasks
  /\ calls' = [calls EXCEPT ![c] = @ + 1]
  /\ calling' = calling \cup {c}
  /\ UNCHANGED <<poolVars, queueVars, threadVars, history>>

\* Mutant of Push: nobody is told.
PushSilently(k) ==
  /\ queue' = Append(queue, k)
  /\ accepted' = Append(accepted, k)
  /\ UNCHANGED notEmpty

\* run, 71-72.
Push(k) ==
  /\ queue' = Append(queue, k)
  /\ accepted' = Append(accepted, k)
  /\ notEmpty' \in notify(notEmpty)

\* run, 56-74; a caller that is woken tests isFull() again.
Run(c) ==
  /\ c \in calling /\ c \notin notFull
  /\ LET k == <<c, calls[c]>> IN
     \/ /\ threads = {}
        /\ ran' = [ran EXCEPT ![k] = @ + 1]
        /\ calling' = calling \ {c}
        /\ UNCHANGED <<queueVars, accepted>>
     \/ /\ threads # {} /\ isFull
        /\ notFull' = wait(notFull, c)
        /\ UNCHANGED <<queue, notEmpty, calling, accepted, ran>>
     \/ /\ threads # {} /\ ~isFull
        /\ Push(k)
        /\ calling' = calling \ {c}
        /\ UNCHANGED <<notFull, ran>>
  /\ UNCHANGED <<poolVars, threadVars, calls, taken>>

-----------------------------------------------------------------------------
(* A pool thread.                                                          *)

\* runInThread, 129: running_ is read outside the mutex.
Loop(t) ==
  /\ thread[t].pthread = "running" /\ pc[t] = "loop"
  /\ IF running
     THEN pc' = [pc EXCEPT ![t] = "take"] /\ UNCHANGED thread
     ELSE thread' = [thread EXCEPT ![t] = finish(@)] /\ UNCHANGED pc
  /\ UNCHANGED <<maxQueueSize, numThreads, running, owner, queueVars, task, callVars,
                 history>>

\* Mutant of Pop: the newest task is taken.
PopNewest(t) ==
  /\ task' = [task EXCEPT ![t] = queue[Len(queue)]]
  /\ taken' = Append(taken, queue[Len(queue)])
  /\ queue' = SubSeq(queue, 1, Len(queue) - 1)
  /\ IF maxQueueSize > 0 THEN notFull' \in notify(notFull) ELSE UNCHANGED notFull

\* take, 107-115.
Pop(t) ==
  /\ task' = [task EXCEPT ![t] = Head(queue)]
  /\ taken' = Append(taken, Head(queue))
  /\ queue' = Tail(queue)
  /\ IF maxQueueSize > 0 THEN notFull' \in notify(notFull) ELSE UNCHANGED notFull

\* Mutant of Take: the thread does not test running_.
TakeWaits(t) ==
  /\ pc[t] = "take" /\ t \notin notEmpty
  /\ \/ /\ queue = <<>>
        /\ notEmpty' = wait(notEmpty, t)
        /\ UNCHANGED <<queue, notFull, threadVars, taken>>
     \/ /\ queue # <<>>
        /\ Pop(t)
        /\ pc' = [pc EXCEPT ![t] = "task"]
        /\ UNCHANGED notEmpty
  /\ UNCHANGED <<poolVars, callVars, accepted, ran>>

\* take, 98-117.
Take(t) ==
  /\ pc[t] = "take" /\ t \notin notEmpty
  /\ \/ /\ queue = <<>> /\ running
        /\ notEmpty' = wait(notEmpty, t)
        /\ UNCHANGED <<queue, notFull, threadVars, taken>>
     \/ /\ queue = <<>> /\ ~running
        /\ pc' = [pc EXCEPT ![t] = "loop"]
        /\ UNCHANGED <<queueVars, task, taken>>
     \/ /\ queue # <<>>
        /\ Pop(t)
        /\ pc' = [pc EXCEPT ![t] = "task"]
        /\ UNCHANGED notEmpty
  /\ UNCHANGED <<poolVars, callVars, accepted, ran>>

\* runInThread, 132-135.
RunTask(t) ==
  /\ pc[t] = "task"
  /\ ran' = [ran EXCEPT ![task[t]] = @ + 1]
  /\ task' = [task EXCEPT ![t] = None]
  /\ pc' = [pc EXCEPT ![t] = "loop"]
  /\ UNCHANGED <<poolVars, queueVars, callVars, accepted, taken>>

SpuriousWakeup(w) ==
  /\ w \in notEmpty \cup notFull
  /\ notEmpty' = notEmpty \ {w} /\ notFull' = notFull \ {w}
  /\ UNCHANGED <<poolVars, queue, threadVars, callVars, history>>

Owner ==
  \/ Started \/ Stopped
  \/ \E t \in Threads : StartThread(t) \/ Join(t)

PoolThread(t) == Loop(t) \/ Take(t) \/ RunTask(t)

Next ==
  \/ Start \/ Stop \/ Owner
  \/ \E t \in Threads : PoolThread(t)
  \/ \E c \in Callers : Call(c) \/ Run(c)
  \/ \E w \in Threads \cup Callers : SpuriousWakeup(w)

(***************************************************************************)
(* The threads that can run do; the mutex is fair enough that a caller who *)
(* is woken again and again finds room in the end.                         *)
(***************************************************************************)
Fairness ==
  /\ WF_vars(Owner)
  /\ \A t \in Threads : WF_vars(PoolThread(t))
  /\ \A c \in Callers : SF_vars(Run(c))

Spec == Init /\ [][Next]_vars /\ Fairness

-----------------------------------------------------------------------------
(* Properties.                                                             *)

\* Every task that run() accepted is taken once and in the order of acceptance,
\* is run by the thread that took it and by no other, and the queue keeps to
\* maxQueueSize_.
TasksInOrder ==
  /\ taken \o queue = accepted
  /\ maxQueueSize > 0 => Len(queue) <= maxQueueSize
  /\ \A k \in Tasks :
       Cardinality({i \in 1..Len(taken) : taken[i] = k})
         = Cardinality({t \in Threads : task[t] = k})
             + (IF threads = {} THEN 0 ELSE ran[k])

\* No wakeup is lost: while a thread waits for a task and one is queued, another
\* thread is on its way to take(); while a caller waits for room and there is
\* some, another caller, or a thread that will notify, is.
NoLostNotify ==
  /\ queue # <<>> /\ running => \E t \in threads : t \notin notEmpty
  /\ notFull # {} /\ running => queue # <<>> \/ \E c \in calling : c \notin notFull

\* Tasks go through the queue in order and nobody sleeps beside work or room.
QueueKept == TasksInOrder /\ NoLostNotify

\* A task given to run() is run, unless stop() comes first: run() does not block
\* for ever on a full queue, and no task is forgotten in it.
TasksRun ==
  \A k \in Tasks :
    k[1] \in calling /\ calls[k[1]] = k[2] ~> ran[k] = 1 \/ ~running

\* stop() returns, whatever the threads and the callers were doing, and leaves no
\* thread to ~Thread to detach.
StopReturns ==
  owner = "stop" ~>
    owner = "gone" /\ \A t \in Threads : ~Detaches(thread[t]) /\ thread[t].pthread # "running"

\* Neither a task nor stop() waits for ever.
WorkEnds == TasksRun /\ StopReturns

===========================================================================
