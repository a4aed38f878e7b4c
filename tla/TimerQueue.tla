----------------------------- MODULE TimerQueue -----------------------------
(***************************************************************************)
(* The timers of a Worker (src/cobra/timer_queue.cpp, timer.h, timer.cpp,  *)
(* timer_id.h): addTimer and cancel from any thread, timerfd, and the      *)
(* callbacks, which add and cancel timers themselves.                      *)
(*                                                                         *)
(* A Timer lives at an address that the allocator may hand out again.      *)
(* runInLoop is a FIFO queue for the other threads (see Executor) and a    *)
(* plain call for the loop's own.  Time is counted in units of 100 us, the *)
(* shortest alarm; the last instant stands for all the time after it.      *)
(***************************************************************************)
EXTENDS Naturals, Sequences

CONSTANTS
  Callers,      \* the threads other than the loop's own
  Addrs,        \* the addresses of Timers
  Free,         \* what the heap holds at an address without a Timer
  Once,         \* the interval of a timer that does not repeat
  Times,        \* the times at which timers are set to go off
  Intervals,    \* their intervals; 0 is one below the clock's resolution
  MaxTimers,    \* bound: how many timers are created
  MaxTime       \* bound: the last instant

ASSUME TimerAssumption ==
  /\ Once \notin Nat
  /\ Times \subseteq Nat
  /\ Intervals \subseteq Nat \cup {Once}
  /\ MaxTimers \in Nat
  /\ MaxTime \in Nat \ {0}

Timer == [sequence : Nat, expiration : Nat, interval : Nat \cup {Once}]
TimerId == Addrs \X Nat
Functor == [op : {"add"}, timer : Addrs] \cup [op : {"cancel"}, id : TimerId]

ASSUME FreeAssumption == Free \notin Timer

VARIABLES
  now,          \* Timestamp::now()
  heap,         \* the Timer at each address
  created,      \* Timer::s_numCreated_
  timers,       \* timers_: pairs of expiration and address
  activeTimers, \* activeTimers_: pairs of address and sequence
  canceling,    \* cancelingTimers_
  phase,        \* "calling" while callingExpiredTimers_
  expired,      \* handleRead's expired: the addresses it took from timers_
  toRun,        \* those of them whose callback is still to run
  readTime,     \* handleRead's now
  deadline,     \* when timerfd goes off, or 0 when it is disarmed
  queue,        \* the functors queued in the loop by other threads
  adding,       \* the timer each thread has queued and not read yet
  ids,          \* the TimerIds handed out
  cancelled,    \* history: the ids for which cancelInLoop has run
  overtook      \* history: those whose addTimerInLoop was still queued then

listVars == <<timers, activeTimers>>
batchVars == <<phase, expired, toRun, readTime>>
callVars == <<queue, adding, ids>>
historyVars == <<cancelled, overtook>>
timerVars == <<now, heap, created, canceling, deadline, listVars, batchVars,
               callVars, historyVars>>

TypeOK ==
  /\ now \in Nat
  /\ heap \in [Addrs -> Timer \cup {Free}]
  /\ created \in Nat
  /\ timers \in SUBSET (Nat \X Addrs)
  /\ activeTimers \in SUBSET TimerId
  /\ canceling \in SUBSET TimerId
  /\ phase \in {"idle", "polled", "calling"}
  /\ expired \in SUBSET Addrs
  /\ toRun \in SUBSET expired
  /\ readTime \in Nat
  /\ deadline \in Nat
  /\ queue \in Seq(Functor)
  /\ adding \in [Callers -> SUBSET TimerId]
  /\ ids \in SUBSET TimerId
  /\ cancelled \in SUBSET TimerId
  /\ overtook \in SUBSET TimerId

Init ==
  /\ now = 1
  /\ heap = [a \in Addrs |-> Free]
  /\ created = 0
  /\ timers = {} /\ activeTimers = {} /\ canceling = {}
  /\ phase = "idle" /\ expired = {} /\ toRun = {} /\ readTime = 0
  /\ deadline = 0
  /\ queue = <<>>
  /\ adding = [t \in Callers |-> {}]
  /\ ids = {} /\ cancelled = {} /\ overtook = {}

IdAt(a) == <<a, heap[a].sequence>>

-----------------------------------------------------------------------------
(* The parts of the calls that run in the loop.                            *)

\* resetTimerfd and howMuchTimeFromNow, 26-62: at the earliest in 100 us.
Alarm(expiration) == IF expiration < now + 1 THEN now + 1 ELSE expiration

\* Mutant of AddTimerInLoop: timerfd is not set for the new timer.
AddTimerInLoopUnarmed(a, t) ==
  /\ timers' = timers \cup {<<t.expiration, a>>}
  /\ activeTimers' = activeTimers \cup {<<a, t.sequence>>}
  /\ UNCHANGED deadline

\* addTimerInLoop and insert, 101-108 and 190-212, for Timer t at address a.
AddTimerInLoop(a, t) ==
  LET earliestChanged == \A e \in timers : t.expiration < e[1] IN
  /\ timers' = timers \cup {<<t.expiration, a>>}
  /\ activeTimers' = activeTimers \cup {<<a, t.sequence>>}
  /\ deadline' = IF earliestChanged THEN Alarm(t.expiration) ELSE deadline

\* The timers created and not yet in the loop.
QueuedAdds == {queue[i].timer : i \in {j \in 1..Len(queue) : queue[j].op = "add"}}

Alive(id) == heap[id[1]] # Free /\ heap[id[1]].sequence = id[2]

IsQueued(id) == id[1] \in QueuedAdds /\ Alive(id)

\* The history kept of a cancelInLoop.
RecordCancel(id) ==
  /\ cancelled' = cancelled \cup {id}
  /\ overtook' = IF IsQueued(id) THEN overtook \cup {id} ELSE overtook

\* Mutant of CancelInLoop: the entry of timers_ stays.
CancelInLoopKeepsEntry(id) ==
  /\ id \in activeTimers
  /\ activeTimers' = activeTimers \ {id}
  /\ heap' = [heap EXCEPT ![id[1]] = Free]
  /\ UNCHANGED <<timers, canceling>>
  /\ RecordCancel(id)

\* Mutant of CancelInLoop: the Timer is not deleted.
CancelInLoopLeaks(id) ==
  /\ id \in activeTimers
  /\ timers' = timers \ {<<heap[id[1]].expiration, id[1]>>}
  /\ activeTimers' = activeTimers \ {id}
  /\ UNCHANGED <<heap, canceling>>
  /\ RecordCancel(id)

\* cancelInLoop, 110-124.
CancelInLoop(id) ==
  /\ IF id \in activeTimers
     THEN /\ timers' = timers \ {<<heap[id[1]].expiration, id[1]>>}
          /\ activeTimers' = activeTimers \ {id}
          /\ heap' = [heap EXCEPT ![id[1]] = Free]
          /\ UNCHANGED canceling
     ELSE /\ canceling' = IF phase = "calling" THEN canceling \cup {id}
                                               ELSE canceling
          /\ UNCHANGED <<heap, listVars>>
  /\ RecordCancel(id)

-----------------------------------------------------------------------------
(* The calls.                                                              *)

\* new Timer(cb, when, interval).
NewTimer(when, interval) ==
  [sequence |-> created + 1, expiration |-> when, interval |-> interval]

Create(a, t) ==
  /\ created < MaxTimers
  /\ heap[a] = Free
  /\ created' = created + 1
  /\ heap' = [heap EXCEPT ![a] = t]

\* addTimer, 87-94, from another thread: the Timer is queued ...
AddTimer(c, a, when, interval) ==
  LET t == NewTimer(when, interval) IN
  /\ adding[c] = {}
  /\ Create(a, t)
  /\ queue' = Append(queue, [op |-> "add", timer |-> a])
  /\ adding' = [adding EXCEPT ![c] = {<<a, t.sequence>>}]
  /\ UNCHANGED <<now, canceling, deadline, listVars, batchVars, ids,
                 historyVars>>

\* ... and its sequence read afterwards for the TimerId.  By then the Timer may
\* be gone: the read finds another Timer at the address, or what is left there.
ReturnId(c) ==
  \E id \in adding[c] :
    LET a == id[1]
        sequences == IF heap[a] # Free THEN {heap[a].sequence} ELSE 0..created
    IN
    /\ \E s \in sequences : ids' = ids \cup {<<a, s>>}
    /\ adding' = [adding EXCEPT ![c] = {}]
    /\ UNCHANGED <<now, heap, created, canceling, deadline, listVars,
                   batchVars, queue, historyVars>>

\* cancel, 96-99, from another thread (bound: once for each id).
Cancel(c, id) ==
  /\ adding[c] = {}
  /\ id \notin cancelled
  /\ \A i \in 1..Len(queue) : queue[i] # [op |-> "cancel", id |-> id]
  /\ queue' = Append(queue, [op |-> "cancel", id |-> id])
  /\ UNCHANGED <<now, heap, created, canceling, deadline, listVars, batchVars,
                 adding, ids, historyVars>>

\* User code runs in the loop's thread: a functor, the callback of a channel
\* or, in a batch, of the last timer run.
InCallback == phase = "calling" => toRun # expired

\* addTimer and cancel from the loop's own thread.
AddTimerHere(a, when, interval) ==
  LET t == NewTimer(when, interval) IN
  /\ InCallback
  /\ Create(a, t)
  /\ AddTimerInLoop(a, t)
  /\ ids' = ids \cup {<<a, t.sequence>>}
  /\ UNCHANGED <<now, canceling, batchVars, queue, adding, historyVars>>

CancelHere(id) ==
  /\ InCallback
  /\ CancelInLoop(id)
  /\ UNCHANGED <<now, created, deadline, batchVars, callVars>>

-----------------------------------------------------------------------------
(* The loop.                                                               *)

\* doPendingFunctors.
RunFunctor ==
  /\ phase = "idle"
  /\ queue # <<>>
  /\ queue' = Tail(queue)
  /\ LET f == Head(queue) IN
       \/ /\ f.op = "add"
          /\ AddTimerInLoop(f.timer, heap[f.timer])
          /\ UNCHANGED <<heap, canceling, historyVars>>
       \/ /\ f.op = "cancel"
          /\ CancelInLoop(f.id)
          /\ UNCHANGED deadline
  /\ UNCHANGED <<now, created, batchVars, adding, ids>>

Fired == deadline # 0 /\ (deadline <= now \/ now = MaxTime)

\* poll() reports timerfd; the callbacks of other channels may come first.
PollTimer ==
  /\ phase = "idle"
  /\ Fired
  /\ phase' = "polled"
  /\ UNCHANGED <<now, heap, created, canceling, deadline, listVars, expired,
                 toRun, readTime, callVars, historyVars>>

\* handleRead up to the callbacks, 126-135, with readTimerfd and getExpired,
\* 42-49 and 145-163.  When timerfd was set again since poll(), the read fails
\* and leaves the alarm standing.
HandleRead ==
  LET batch == {e \in timers : e[1] <= now} IN
  /\ phase = "polled"
  /\ phase' = "calling"
  /\ deadline' = IF Fired THEN 0 ELSE deadline
  /\ readTime' = now
  /\ expired' = {e[2] : e \in batch}
  /\ toRun' = expired'
  /\ timers' = timers \ batch
  /\ activeTimers' = activeTimers \ {IdAt(a) : a \in expired'}
  /\ canceling' = {}
  /\ UNCHANGED <<now, heap, created, callVars, historyVars>>

\* The next callback, 136-139, in the order of expiration.
RunTimer(a) ==
  /\ phase = "calling"
  /\ a \in toRun
  /\ \A b \in toRun : heap[a].expiration <= heap[b].expiration
  /\ toRun' = toRun \ {a}
  /\ UNCHANGED <<now, heap, created, canceling, deadline, listVars, phase,
                 expired, readTime, callVars, historyVars>>

\* Mutant of Repeats: cancelingTimers_ is not looked up.
RepeatsCancelled(a) == heap[a].interval # Once

\* The timers of the batch that go on, and restart (timer.cpp 7-13) of them.
Repeats(a) == heap[a].interval # Once /\ IdAt(a) \notin canceling
Restarted(a) == [heap[a] EXCEPT !.expiration = readTime + heap[a].interval]

\* reset, 165-188, and insert: the others are deleted, and timerfd is set for
\* the first timer, if there is one and its time is valid().
Reset ==
  LET again == {a \in expired : Repeats(a)}
      entries == timers \cup {<<Restarted(a).expiration, a>> : a \in again}
  IN
  /\ phase = "calling"
  /\ toRun = {}
  /\ heap' = [a \in Addrs |-> IF a \in again THEN Restarted(a)
                              ELSE IF a \in expired THEN Free ELSE heap[a]]
  /\ timers' = entries
  /\ activeTimers' = activeTimers \cup {IdAt(a) : a \in again}
  /\ \/ entries = {} /\ UNCHANGED deadline
     \/ \E e \in entries :
          /\ \A f \in entries : e[1] <= f[1]
          /\ deadline' = IF e[1] = 0 THEN deadline ELSE Alarm(e[1])
  /\ phase' = "idle"
  /\ expired' = {}
  /\ UNCHANGED <<now, created, canceling, toRun, readTime, callVars,
                 historyVars>>

Tick ==
  /\ now < MaxTime
  /\ now' = now + 1
  /\ UNCHANGED <<heap, created, canceling, deadline, listVars, batchVars,
                 callVars, historyVars>>

-----------------------------------------------------------------------------
TimerStep == PollTimer \/ HandleRead \/ (\E a \in Addrs : RunTimer(a)) \/ Reset

CallerStep ==
  \E c \in Callers :
    \/ \E a \in Addrs, w \in Times, i \in Intervals : AddTimer(c, a, w, i)
    \/ ReturnId(c)
    \/ \E id \in ids : Cancel(c, id)

CallbackStep ==
  \/ \E a \in Addrs, w \in Times, i \in Intervals : AddTimerHere(a, w, i)
  \/ \E id \in ids : CancelHere(id)

Next == TimerStep \/ RunFunctor \/ CallerStep \/ CallbackStep \/ Tick

\* Time passes, and the loop handles timerfd when it goes off.
Fairness == WF_timerVars(TimerStep) /\ WF_timerVars(Tick)

Spec == Init /\ [][Next]_timerVars /\ Fairness

-----------------------------------------------------------------------------
(* Properties.                                                             *)

\* The assertions on timers_ and activeTimers_, in full: the two hold the same
\* timers, each under the expiration and the sequence of the Timer at its
\* address, through every add, cancel, expiry and restart.
ListsAgree ==
  /\ \A e \in timers : heap[e[2]] # Free /\ e[1] = heap[e[2]].expiration
  /\ activeTimers = {IdAt(e[2]) : e \in timers}

Listed == {e[2] : e \in timers}

\* Each Timer has one owner, the lists, the batch being run or a functor on its
\* way, until the owner deletes it: no callback, restart or comparison uses a
\* deleted Timer, none is deleted twice, and none is leaked.
OneOwner ==
  /\ expired \cap Listed = {}
  /\ QueuedAdds \cap (Listed \cup expired) = {}
  /\ {a \in Addrs : heap[a] # Free} = Listed \cup expired \cup QueuedAdds

\* timers_ and activeTimers_ never point to a Timer that is gone or is another's.
TimersOwned == ListsAgree /\ OneOwner

\* While timers are waiting, timerfd is armed, for no later than the earliest
\* of them or the shortest alarm, whatever was cancelled, added or restarted.
TimerfdArmed ==
  phase # "calling" /\ timers # {} =>
    /\ deadline # 0
    /\ deadline <= now + 1 \/ \A e \in timers : deadline <= e[1]

\* A timer once cancelled in the loop never goes off again, even if it repeats
\* and is cancelled in its own callback, or another Timer gets its address.  It
\* may still be in the batch being run.
CancelStops ==
  \A id \in cancelled \ overtook : id \notin activeTimers

\* The inductive invariant behind these.  A cancelled Timer that still exists is
\* in the batch, where reset will find it in cancelingTimers_;
CancelInv ==
  \A id \in cancelled \ overtook :
    id[2] <= created /\ (Alive(id) => id[1] \in expired /\ id \in canceling)

\* no sequence is handed out twice, and no Timer queued twice;
SequenceInv ==
  /\ \A a \in Addrs : heap[a] # Free => heap[a].sequence <= created
  /\ \A id \in ids : id[2] <= created
  /\ \A i \in 1..Len(queue) :
       queue[i].op = "cancel" => queue[i].id[2] <= created
  /\ \A i, j \in 1..Len(queue) :
       queue[i].op = "add" /\ queue[j].op = "add" /\ i # j =>
         queue[i].timer # queue[j].timer

\* and a timer set for an invalid() time, which reset would not arm timerfd for,
\* was added by a callback, and addTimerInLoop has armed it.
AlarmInv ==
  /\ TimerfdArmed
  /\ phase # "calling" => expired = {}
  /\ phase = "calling" => readTime # 0
  /\ now # 0
  /\ phase = "calling" /\ (\E e \in timers : e[1] = 0) =>
       deadline # 0 /\ deadline <= now + 1

TimerInv == ListsAgree /\ OneOwner /\ CancelInv /\ SequenceInv /\ AlarmInv

\* A timer whose time has come is taken out to be run (or is cancelled).
TimerFires ==
  \A a \in Addrs, s \in 1..MaxTimers :
    (<<a, s>> \in activeTimers /\ heap[a].expiration <= MaxTime)
      ~> (<<a, s>> \notin activeTimers)

=============================================================================
