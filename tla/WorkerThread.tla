---------------------------- MODULE WorkerThread ----------------------------
(***************************************************************************)
(* A thread that owns one Worker on its stack (src/cobra/worker_thread.h,  *)
(* worker_thread.cpp), composed with the Worker it runs: StartLoop and the *)
(* destructor in the owner's thread, ThreadFunc in the new one, and the    *)
(* other threads that got the Worker* and call it.  A Worker that has no   *)
(* WorkerThread, such as a server's base loop, is run by the thread that   *)
(* created it: threadPc is then "main", and stays so.                      *)
(***************************************************************************)
EXTENDS Worker

CONSTANT Owner  \* the thread that creates and destroys the WorkerThread

ASSUME OwnerAssumption == Owner \in Callers

VARIABLES
  threadPc,   \* where the new thread is in ThreadFunc
  workerPtr,  \* worker_ is not NULL
  ownerPc,    \* where the owner is in StartLoop or in the destructor
  returned,   \* StartLoop returned a Worker* that is not NULL
  quitByUser  \* history: somebody other than the destructor called Quit()

threadVars == <<threadPc, workerPtr, ownerPc, returned, quitByUser>>
allVars == <<workerVars, threadVars>>

ThreadTypeOK ==
  /\ TypeOK
  /\ threadPc \in {"main", "none", "init", "enter", "loop", "leave", "exited"}
  /\ workerPtr \in BOOLEAN
  /\ ownerPc \in {"idle", "wait", "return", "started", "quit", "call", "join",
                 "done", "crashed"}
  /\ returned \in BOOLEAN
  /\ quitByUser \in BOOLEAN

ThreadInit ==
  /\ Init
  /\ threadPc \in {"none", "main"}
  /\ workerPtr = FALSE
  /\ ownerPc = "idle"
  /\ returned = FALSE
  /\ quitByUser = FALSE

-----------------------------------------------------------------------------
(* ThreadFunc, worker_thread.cpp 44-60, in the new thread.                 *)

\* After the Worker's constructor and init_cb_: publish worker_ under mutex_
\* and notify.
Publish ==
  /\ threadPc = "init"
  /\ call[LoopThread] = "none"
  /\ workerPtr' = TRUE
  /\ threadPc' = "enter"
  /\ UNCHANGED <<workerVars, ownerPc, returned, quitByUser>>

EnterLoop ==
  /\ threadPc = "enter"
  /\ Loop
  /\ threadPc' = "loop"
  /\ UNCHANGED <<workerPtr, ownerPc, returned, quitByUser>>

\* Loop() has returned: worker_ = NULL, without the lock.
Unpublish ==
  /\ threadPc = "loop"
  /\ loopPc = "returned"
  /\ workerPtr' = FALSE
  /\ threadPc' = "leave"
  /\ UNCHANGED <<workerVars, ownerPc, returned, quitByUser>>

\* The Worker on the stack is destroyed and the thread ends.
DestroyWorker ==
  /\ threadPc = "leave"
  /\ threadPc' = "exited"
  /\ UNCHANGED <<workerVars, workerPtr, ownerPc, returned, quitByUser>>

-----------------------------------------------------------------------------
(* The owner: StartLoop, 29-41, and the destructor, 18-27.                 *)

StartLoop ==
  /\ ownerPc = "idle" /\ threadPc = "none"
  /\ ownerPc' = "wait"
  /\ threadPc' = "init"
  /\ UNCHANGED <<workerVars, workerPtr, returned, quitByUser>>

\* Mutants of WaitWorker: the wait is not repeated after a spurious wakeup;
WaitOnce ==
  /\ ownerPc = "wait"
  /\ ownerPc' = "return"
  /\ UNCHANGED <<workerVars, threadPc, workerPtr, returned, quitByUser>>

\* the wait ends with the notification only, without a look at worker_ first.
WaitNotified ==
  /\ ownerPc = "wait"
  /\ threadPc = "enter"
  /\ ownerPc' = "return"
  /\ UNCHANGED <<workerVars, threadPc, workerPtr, returned, quitByUser>>

\* while (!worker_) cond_.wait(lock) lets the owner through ...
WaitWorker ==
  /\ ownerPc = "wait"
  /\ workerPtr
  /\ ownerPc' = "return"
  /\ UNCHANGED <<workerVars, threadPc, workerPtr, returned, quitByUser>>

\* ... and worker_ is read again after the unlock.
ReturnWorker ==
  /\ ownerPc = "return"
  /\ ownerPc' = "started"
  /\ returned' = workerPtr
  /\ UNCHANGED <<workerVars, threadPc, workerPtr, quitByUser>>

\* The destructor: if (worker_), read without the lock.
Destruct ==
  /\ ownerPc = "started"
  /\ call[Owner] = "none"
  /\ ownerPc' = IF workerPtr THEN "quit" ELSE "done"
  /\ UNCHANGED <<workerVars, threadPc, workerPtr, returned, quitByUser>>

\* worker_ is read again, and may be NULL by now.
DestructRead ==
  /\ ownerPc = "quit"
  /\ ownerPc' = IF workerPtr THEN "call" ELSE "crashed"
  /\ UNCHANGED <<workerVars, threadPc, workerPtr, returned, quitByUser>>

\* worker_->Quit(), if the Worker still exists; its wakeup() is QuitWakeup(Owner).
DestructQuit ==
  /\ ownerPc = "call"
  /\ IF threadPc = "exited"
     THEN ownerPc' = "crashed" /\ UNCHANGED workerVars
     ELSE ownerPc' = "join" /\ Quit(Owner)
  /\ UNCHANGED <<threadPc, workerPtr, returned, quitByUser>>

\* Mutant of Join: the destructor does not wait for the thread.
JoinNothing ==
  /\ ownerPc = "join"
  /\ call[Owner] = "none"
  /\ ownerPc' = "done"
  /\ UNCHANGED <<workerVars, threadPc, workerPtr, returned, quitByUser>>

\* thread_.join()
Join ==
  /\ ownerPc = "join"
  /\ call[Owner] = "none"
  /\ threadPc = "exited"
  /\ ownerPc' = "done"
  /\ UNCHANGED <<workerVars, threadPc, workerPtr, returned, quitByUser>>

-----------------------------------------------------------------------------
\* Who holds a pointer to a live Worker and may call it: init_cb_ and the
\* callbacks in the new thread; any thread from StartLoop's return to the
\* start of the destructor.
MayUse(t) ==
  /\ threadPc # "exited"
  /\ IF t = LoopThread THEN threadPc \in {"init", "loop"}
                       ELSE ownerPc = "started" /\ returned

WorkerCall ==
  \E t \in Threads :
    \/ \E f \in Functors : /\ MayUse(t) /\ QueueInLoop(t, f)
                           /\ UNCHANGED threadVars
    \/ /\ MayUse(t) /\ Quit(t)
       /\ quitByUser' = TRUE
       /\ UNCHANGED <<threadPc, workerPtr, ownerPc, returned>>

FinishCall(t) ==
  /\ QueueWakeup(t) \/ QuitWakeup(t)
  /\ UNCHANGED threadVars

RunLoop ==
  /\ threadPc \in {"loop", "main"}
  /\ LoopStep
  /\ UNCHANGED threadVars

Environment ==
  /\ threadPc \in {"loop", "main"}
  /\ PollTimeout \/ \E c \in UserChannels : BecomeReady(c)
  /\ UNCHANGED threadVars

\* The program enters the loop in its own thread, and calls it from any.
Main ==
  /\ threadPc = "main"
  /\ Loop \/ \E t \in Threads : Quit(t) \/ \E f \in Functors : QueueInLoop(t, f)
  /\ UNCHANGED threadVars

ThreadFunc == Publish \/ EnterLoop \/ RunLoop \/ Unpublish \/ DestroyWorker
OwnerStep == WaitWorker \/ ReturnWorker \/ DestructRead \/ DestructQuit \/ Join

ThreadNext ==
  \/ ThreadFunc
  \/ OwnerStep
  \/ StartLoop
  \/ Destruct
  \/ WorkerCall
  \/ \E t \in Threads : FinishCall(t)
  \/ Environment
  \/ Main

(***************************************************************************)
(* Threads run: the new one through ThreadFunc, the owner through a        *)
(* StartLoop or a destructor it has entered, a caller up to its wakeup().  *)
(* Entering them is the program's choice.                                  *)
(***************************************************************************)
ThreadFairness ==
  /\ WF_allVars(ThreadFunc)
  /\ WF_allVars(OwnerStep)
  /\ \A t \in Threads : WF_allVars(FinishCall(t))

ThreadSpec == ThreadInit /\ [][ThreadNext]_allVars /\ ThreadFairness

-----------------------------------------------------------------------------
(* Properties.                                                             *)

\* StartLoop hands out a Worker, not NULL, although it reads worker_ outside
\* the lock, unless the loop was quit before StartLoop returned.
StartLoopReturnsWorker ==
  ownerPc \notin {"idle", "wait", "return"} /\ ~quitByUser => returned

\* When only the destructor quits the loop, worker_ is not NULL when it is read
\* again, and quit_ = true is written into a Worker that exists (the wakeup() that
\* follows may come too late).  When somebody else has quit it, the thread may leave
\* between the test and the call, as the comment of the destructor says.
DestructorQuitsLiveWorker ==
  ~quitByUser =>
    /\ ownerPc \in {"quit", "call"} => threadPc \notin {"leave", "exited"}
    /\ ownerPc # "crashed"

\* When the destructor skips the join because worker_ is NULL, the loop has
\* really returned: no thread is left running it.
NoLoopLeftBehind ==
  ownerPc = "done" => loopPc = "returned"

\* What the owner may count on, although worker_ is read and tested outside the
\* lock on both sides.
OwnerSafe ==
  StartLoopReturnsWorker /\ DestructorQuitsLiveWorker /\ NoLoopLeftBehind

\* StartLoop comes back, unless the loop was quit while it waited.
StartLoopReturns == (ownerPc = "wait") ~> (ownerPc # "wait" \/ quitByUser)

\* The destructor comes back from join() when its Quit() falls in Loop().
JoinReturns ==
  (ownerPc = "join" /\ quit /\ loopPc # "created") ~> (ownerPc = "done")

\* The owner is never left waiting on the condition variable or in join().
OwnerReturns == StartLoopReturns /\ JoinReturns

=============================================================================
