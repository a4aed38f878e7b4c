-------------------------- MODULE TimerQueueProofs --------------------------
(***************************************************************************)
(* Proofs about TimerQueue: TimerInv is inductive, so for any number of    *)
(* threads, timers and addresses the lists agree with the heap, each Timer *)
(* has one owner, timerfd is armed for the earliest timer, and a cancelled *)
(* timer does not come back.                                               *)
(***************************************************************************)
EXTENDS TimerQueueCalls

LEMMA HandleReadKeepsInv ==
  ASSUME IInv, HandleRead
  PROVE  IInv'
<1> DEFINE batch == {e \in timers : e[1] <= now}
<1>1. TypeOK /\ TimerInv
  BY DEF IInv
<1>2. /\ phase = "polled" /\ phase' = "calling"
      /\ deadline' = IF Fired THEN 0 ELSE deadline
      /\ readTime' = now
      /\ expired' = {e[2] : e \in batch}
      /\ toRun' = expired'
      /\ timers' = timers \ batch
      /\ activeTimers' = activeTimers \ {IdAt(a) : a \in expired'}
      /\ canceling' = {}
      /\ UNCHANGED <<now, heap, created, queue, adding, ids, cancelled, overtook>>
  BY DEF HandleRead, callVars, historyVars
<1>3. expired = {}
  BY <1>1, <1>2 DEF TimerInv, AlarmInv
<1>4. \A e \in timers : e \in timers' <=> e[2] \notin expired'
  <2>1. ASSUME NEW e \in timers, e[2] \in expired' PROVE e \in batch
    <3>1. PICK f \in batch : f[2] = e[2]
      BY <1>2, <2>1
    <3>2. f = <<f[1], f[2]>> /\ e = <<e[1], e[2]>> /\ f[1] = e[1]
      BY <1>1, <3>1, EntryFacts DEF TimerInv
    <3> QED
      BY <3>1, <3>2
  <2> QED
    BY <1>2, <2>1
<1>5. expired' \subseteq Listed
  BY <1>2 DEF Listed
<1>6. timers' \subseteq timers /\ (\A e \in timers' : ~(e[1] <= now))
  BY <1>2
<1> HIDE DEF batch
<1>7. TypeOK'
  <2>1. expired' \in SUBSET Addrs
    BY <1>1, <1>5, EntryFacts DEF TimerInv
  <2>2. activeTimers' \in SUBSET TimerId
    BY <1>1, <1>2 DEF TypeOK
  <2>3. timers' \in SUBSET (Nat \X Addrs)
    BY <1>1, <1>6 DEF TypeOK
  <2> QED
    BY <1>1, <1>2, <2>1, <2>2, <2>3 DEF TypeOK
<1>8. Listed' = Listed \ expired'
  <2>1. \A b : b \in Listed' <=> \E e \in timers' : e[2] = b
    BY DEF Listed
  <2>2. \A b : b \in Listed <=> \E e \in timers : e[2] = b
    BY DEF Listed
  <2>3. \A b \in Listed' : b \in Listed /\ b \notin expired'
    BY <1>4, <1>6, <2>1, <2>2
  <2>4. \A b \in Listed : b \notin expired' => b \in Listed'
    BY <1>4, <1>6, <2>1, <2>2
  <2> QED
    BY <2>3, <2>4
<1>9. ListsAgree'
  <2>1. \A a : IdAt(a)' = IdAt(a)
    BY <1>2 DEF IdAt
  <2>2. \A e \in timers' :
          heap'[e[2]] # Free /\ e[1] = heap'[e[2]].expiration
    BY <1>1, <1>2, <1>6, EntryFacts DEF TimerInv
  <2>3. ASSUME NEW i \in activeTimers' PROVE \E e \in timers' : i = IdAt(e[2])'
    <3>1. i \in activeTimers /\ \A a \in expired' : i # IdAt(a)
      BY <1>2
    <3>2. PICK e \in timers : i = IdAt(e[2])
      BY <1>1, <3>1 DEF TimerInv, ListsAgree
    <3> QED
      BY <1>4, <2>1, <3>1, <3>2
  <2>4. ASSUME NEW e \in timers' PROVE IdAt(e[2])' \in activeTimers'
    <3>1. IdAt(e[2]) \in activeTimers /\ e[2] \notin expired'
      BY <1>1, <1>4, <1>6 DEF TimerInv, ListsAgree
    <3>2. \A a \in expired' : IdAt(e[2]) # IdAt(a)
      BY <3>1 DEF IdAt
    <3> QED
      BY <1>2, <2>1, <3>1, <3>2
  <2>5. ASSUME NEW i \in {IdAt(e[2])' : e \in timers'} PROVE i \in activeTimers'
    BY <2>4
  <2>6. activeTimers' = {IdAt(e[2])' : e \in timers'}
    BY <2>3, <2>5, Zenon
  <2> QED
    BY <2>2, <2>6 DEF ListsAgree
<1>10. OneOwner'
  <2>1. QueuedAdds' = QueuedAdds
    BY <1>2 DEF QueuedAdds
  <2> QED
    BY Zenon, <1>1, <1>2, <1>3, <1>5, <1>8, <2>1 DEF TimerInv, OneOwner
<1>11. CancelInv'
  BY <1>1, <1>2, <1>3 DEF TimerInv, CancelInv, Alive
<1>12. SequenceInv'
  BY <1>1, <1>2 DEF TimerInv, SequenceInv
<1>13. AlarmInv'
  <2>1. ~ \E e \in timers' : e[1] = 0
    BY <1>1, <1>6 DEF TypeOK
  <2> QED
    BY <1>1, <1>2, <2>1 DEF TimerInv, AlarmInv, TimerfdArmed
<1> QED
  BY <1>7, <1>9, <1>10, <1>11, <1>12, <1>13 DEF IInv, TimerInv

LEMMA ResetKeepsInv ==
  ASSUME IInv, Reset
  PROVE  IInv'
<1> DEFINE again == {a \in expired : Repeats(a)}
           restarted == {<<Restarted(a).expiration, a>> : a \in again}
           entries == timers \cup restarted
<1>1. TypeOK /\ TimerInv
  BY DEF IInv
<1>2. /\ phase = "calling" /\ phase' = "idle"
      /\ toRun = {}
      /\ heap' = [a \in Addrs |-> IF a \in again THEN Restarted(a)
                                  ELSE IF a \in expired THEN Free ELSE heap[a]]
      /\ timers' = entries
      /\ activeTimers' = activeTimers \cup {IdAt(a) : a \in again}
      /\ \/ entries = {} /\ deadline' = deadline
         \/ \E e \in entries :
              /\ \A f \in entries : e[1] <= f[1]
              /\ deadline' = IF e[1] = 0 THEN deadline ELSE Alarm(e[1])
      /\ expired' = {}
      /\ UNCHANGED <<now, created, canceling, toRun, readTime, queue, adding, ids,
                     cancelled, overtook>>
  BY DEF Reset, callVars, historyVars
<1>3. \A a \in expired : a \in Addrs /\ heap[a] # Free /\ heap[a] \in Timer
  BY <1>1, EntryFacts DEF TimerInv, OneOwner, TypeOK
<1>4. \A a \in again : /\ a \in expired /\ a \in Addrs
                        /\ heap[a].interval # Once /\ IdAt(a) \notin canceling
  BY <1>3 DEF Repeats
<1>5. \A a \in again : /\ Restarted(a) \in Timer
                        /\ Restarted(a).sequence = heap[a].sequence
                        /\ Restarted(a).expiration \in Nat \ {0}
  <2> SUFFICES ASSUME NEW a \in again
               PROVE  /\ Restarted(a) \in Timer
                      /\ Restarted(a).sequence = heap[a].sequence
                      /\ Restarted(a).expiration \in Nat \ {0}
    OBVIOUS
  <2>1. heap[a] \in Timer /\ heap[a].interval \in Nat
    BY <1>3, <1>4 DEF Timer
  <2>2. readTime \in Nat /\ readTime # 0
    BY <1>1, <1>2 DEF TypeOK, TimerInv, AlarmInv
  <2>3. readTime + heap[a].interval \in Nat \ {0}
    BY <2>1, <2>2
  <2> QED
    BY <2>1, <2>3 DEF Restarted, Timer
<1>6. \A a \in Addrs :
        /\ a \in again => heap'[a] = Restarted(a)
        /\ a \in expired /\ a \notin again => heap'[a] = Free
        /\ a \notin expired => heap'[a] = heap[a]
  BY Zenon, <1>2, <1>4
<1>7. \A a \in again : heap'[a] # Free /\ IdAt(a)' = IdAt(a)
  BY Zenon, <1>4, <1>5, <1>6, FreeAssumption DEF IdAt
<1>8. \A b : b \in restarted <=> \E a \in again : b = <<Restarted(a).expiration, a>>
  OBVIOUS
<1>9. \A e \in restarted : /\ e[2] \in again
                           /\ e[1] = Restarted(e[2]).expiration
                           /\ e \in Nat \X Addrs
  BY <1>4, <1>5, <1>8
<1> HIDE DEF again, restarted
<1>10. \A e \in timers : /\ e[2] \in Addrs /\ e[1] \in Nat
                         /\ e[2] \in Listed /\ e[2] \notin expired
                         /\ heap'[e[2]] = heap[e[2]]
                         /\ IdAt(e[2])' = IdAt(e[2])
  <2>1. \A e \in timers : e[2] \in Addrs /\ e[1] \in Nat /\ e[2] \in Listed
    BY <1>1, EntryFacts DEF TimerInv, Listed
  <2>2. \A e \in timers : e[2] \notin expired
    BY <1>1, <2>1 DEF TimerInv, OneOwner
  <2> QED
    BY <1>6, <2>1, <2>2 DEF IdAt
<1>11. TypeOK'
  <2>1. heap' \in [Addrs -> Timer \cup {Free}]
    <3>1. \A a \in Addrs : heap'[a] \in Timer \cup {Free}
      BY <1>1, <1>5, <1>6 DEF TypeOK
    <3> QED
      BY <1>2, <3>1
  <2>2. timers' \in SUBSET (Nat \X Addrs)
    BY <1>1, <1>2, <1>9 DEF TypeOK
  <2>3. \A a \in again : IdAt(a) \in TimerId
    BY <1>3, <1>4 DEF IdAt, TimerId, Timer
  <2>4. activeTimers' \in SUBSET TimerId
    BY <1>1, <1>2, <2>3 DEF TypeOK
  <2>5. \A e \in entries : e[1] \in Nat
    BY <1>9, <1>10
  <2>6. deadline' \in Nat
    <3>1. \A w \in Nat : Alarm(w) \in Nat
      BY <1>1 DEF TypeOK, Alarm
    <3> HIDE DEF entries
    <3> QED
      BY <1>1, <1>2, <2>5, <3>1 DEF TypeOK
  <2>7. /\ now' \in Nat /\ created' \in Nat /\ canceling' \in SUBSET TimerId
        /\ phase' \in {"idle", "polled", "calling"}
        /\ expired' \in SUBSET Addrs /\ toRun' \in SUBSET expired'
        /\ readTime' \in Nat /\ queue' \in Seq(Functor)
        /\ adding' \in [Callers -> SUBSET TimerId] /\ ids' \in SUBSET TimerId
        /\ cancelled' \in SUBSET TimerId /\ overtook' \in SUBSET TimerId
    BY <1>1, <1>2 DEF TypeOK
  <2> QED
    BY <2>1, <2>2, <2>4, <2>6, <2>7 DEF TypeOK
<1>12. ListsAgree'
  <2>1. \A e \in timers' : heap'[e[2]] # Free /\ e[1] = heap'[e[2]].expiration
    <3>1. \A e \in timers : heap'[e[2]] # Free /\ e[1] = heap'[e[2]].expiration
      BY <1>1, <1>10 DEF TimerInv, ListsAgree
    <3>2. \A e \in restarted : heap'[e[2]] # Free /\ e[1] = heap'[e[2]].expiration
      BY <1>4, <1>6, <1>7, <1>9
    <3> QED
      BY Zenon, <1>2, <3>1, <3>2
  <2>2. ASSUME NEW i \in activeTimers' PROVE \E e \in timers' : i = IdAt(e[2])'
    <3>1. CASE i \in activeTimers
      <4>1. PICK e \in timers : i = IdAt(e[2])
        BY <1>1, <3>1 DEF TimerInv, ListsAgree
      <4> QED
        BY <1>2, <1>10, <4>1
    <3>2. CASE \E a \in again : i = IdAt(a)
      <4>1. PICK a \in again : i = IdAt(a)
        BY <3>2
      <4>2. PICK e \in restarted : e = <<Restarted(a).expiration, a>>
        BY Zenon, <1>8
      <4>3. e[2] = a /\ e \in timers'
        BY <1>2, <4>2
      <4> QED
        BY <1>7, <4>1, <4>3
    <3> QED
      BY <1>2, <3>1, <3>2
  <2>3. ASSUME NEW e \in timers' PROVE IdAt(e[2])' \in activeTimers'
    <3>1. CASE e \in timers
      BY <1>1, <1>2, <1>10, <3>1 DEF TimerInv, ListsAgree
    <3>2. CASE e \in restarted
      BY <1>2, <1>7, <1>9, <3>2
    <3> QED
      BY <1>2, <3>1, <3>2
  <2>4. ASSUME NEW i \in {IdAt(e[2])' : e \in timers'} PROVE i \in activeTimers'
    BY <2>3
  <2>5. activeTimers' = {IdAt(e[2])' : e \in timers'}
    BY <2>2, <2>4, Zenon
  <2> QED
    BY <2>1, <2>5 DEF ListsAgree
<1>13. OneOwner'
  <2>1. QueuedAdds' = QueuedAdds
    BY <1>2 DEF QueuedAdds
  <2>2. \A b : b \in Listed' <=> \E e \in timers' : e[2] = b
    BY DEF Listed
  <2>3. \A b : b \in Listed <=> \E e \in timers : e[2] = b
    BY DEF Listed
  <2>4. \A b \in Listed' : b \in Listed \/ b \in again
    BY <1>2, <1>9, <2>2, <2>3
  <2>5. \A b \in Listed : b \in Listed'
    BY <1>2, <2>2, <2>3
  <2>6. ASSUME NEW b \in again PROVE b \in Listed'
    <3>1. PICK e \in restarted : e = <<Restarted(b).expiration, b>>
      BY Zenon, <1>8
    <3> QED
      BY <1>2, <2>2, <3>1
  <2>7. QueuedAdds' \cap Listed' = {}
    BY <1>1, <1>4, <2>1, <2>4 DEF TimerInv, OneOwner
  <2>8. ASSUME NEW a \in Addrs
        PROVE  heap'[a] # Free <=> a \in Listed' \/ a \in QueuedAdds'
    <3>1. heap[a] # Free <=> a \in Listed \/ a \in expired \/ a \in QueuedAdds
      BY <1>1 DEF TimerInv, OneOwner
    <3>2. a \in expired => a \notin Listed /\ a \notin QueuedAdds
      BY <1>1 DEF TimerInv, OneOwner
    <3> QED
      BY <1>4, <1>6, <1>7, <2>1, <2>4, <2>5, <2>6, <3>1, <3>2
  <2>9. Listed' \cup QueuedAdds' \subseteq Addrs
    BY <1>1, <1>4, <2>1, <2>4 DEF TimerInv, OneOwner
  <2>10. {a \in Addrs : heap'[a] # Free} = Listed' \cup expired' \cup QueuedAdds'
    BY <1>2, <2>8, <2>9
  <2> QED
    BY <1>2, <2>7, <2>10 DEF OneOwner
<1>14. CancelInv'
  <2> SUFFICES ASSUME NEW id \in cancelled \ overtook
               PROVE  id[2] <= created /\ ~ Alive(id)'
    BY <1>2 DEF CancelInv
  <2>1. id[2] <= created /\ (Alive(id) => id[1] \in expired /\ id \in canceling)
    BY <1>1 DEF TimerInv, CancelInv
  <2>2. id \in TimerId
    BY <1>1 DEF TypeOK
  <2>3. id[1] \in Addrs /\ id = <<id[1], id[2]>>
    BY <2>2 DEF TimerId
  <2>4. ASSUME Alive(id)' PROVE FALSE
    <3>1. heap'[id[1]] # Free /\ heap'[id[1]].sequence = id[2]
      BY <2>4 DEF Alive
    <3>2. CASE id[1] \in again
      <4>1. IdAt(id[1]) = id
        BY <1>5, <1>6, <2>3, <3>1, <3>2 DEF IdAt
      <4>2. Alive(id)
        BY <1>3, <1>4, <1>5, <1>6, <2>3, <3>1, <3>2 DEF Alive
      <4> QED
        BY <1>4, <2>1, <3>2, <4>1, <4>2
    <3>3. CASE id[1] \notin expired
      BY <1>6, <2>1, <2>3, <3>1, <3>3 DEF Alive
    <3> QED
      BY <1>6, <2>3, <3>1, <3>2, <3>3
  <2> QED
    BY <2>1, <2>4
<1>15. SequenceInv'
  <2>1. ASSUME NEW a \in Addrs, heap'[a] # Free PROVE heap'[a].sequence <= created
    BY <1>1, <1>3, <1>4, <1>5, <1>6, <2>1 DEF TimerInv, SequenceInv
  <2> QED
    BY Zenon, <1>1, <1>2, <2>1 DEF TimerInv, SequenceInv
<1>16. AlarmInv'
  <2>1. now \in Nat /\ now # 0 /\ deadline \in Nat
    BY <1>1 DEF TypeOK, TimerInv, AlarmInv
  <2>2. \A e \in entries : e[1] \in Nat
    BY <1>9, <1>10
  <2>3. ASSUME entries # {}
        PROVE  /\ deadline' # 0
               /\ deadline' <= now + 1 \/ \A e \in entries : deadline' <= e[1]
    <3>1. PICK f \in entries :
            /\ \A g \in entries : f[1] <= g[1]
            /\ deadline' = IF f[1] = 0 THEN deadline ELSE Alarm(f[1])
      BY <1>2, <2>3
    <3>2. CASE f[1] = 0
      <4>1. f \in timers
        BY <1>5, <1>9, <3>2
      <4> QED
        BY <1>1, <1>2, <3>1, <3>2, <4>1 DEF TimerInv, AlarmInv
    <3>3. CASE f[1] # 0
      <4> HIDE DEF entries
      <4> QED
        BY <2>1, <2>2, <3>1, <3>3 DEF Alarm
    <3> QED
      BY <3>2, <3>3
  <2>4. TimerfdArmed'
    BY <1>2, <2>3 DEF TimerfdArmed
  <2> QED
    BY <1>2, <2>1, <2>4 DEF AlarmInv
<1> QED
  BY <1>11, <1>12, <1>13, <1>14, <1>15, <1>16 DEF IInv, TimerInv

\* Steps that leave the Timers and the lists as they are.
LEMMA QuietStepKeepsInv ==
  ASSUME IInv,
         UNCHANGED <<heap, created, timers, activeTimers, canceling, expired,
                     readTime, deadline, queue, adding, ids, cancelled, overtook>>,
         toRun' \in SUBSET expired, now' \in Nat, now' >= now,
         phase' \in {"idle", "polled", "calling"},
         phase' = "calling" <=> phase = "calling"
  PROVE  IInv'
<1>1. TypeOK /\ TimerInv
  BY DEF IInv
<1>2. TypeOK'
  BY <1>1 DEF TypeOK
<1>3. Listed' = Listed /\ QueuedAdds' = QueuedAdds
  BY DEF Listed, QueuedAdds
<1>4. ListsAgree'
  BY <1>1 DEF TimerInv, ListsAgree, IdAt
<1>5. OneOwner'
  BY <1>1, <1>3 DEF TimerInv, OneOwner
<1>6. CancelInv'
  BY <1>1 DEF TimerInv, CancelInv, Alive
<1>7. SequenceInv'
  BY <1>1 DEF TimerInv, SequenceInv
<1>8. AlarmInv'
  <2>1. now \in Nat /\ deadline \in Nat /\ now' \in Nat /\ now' >= now
    BY <1>1 DEF TypeOK
  <2>2. AlarmInv
    BY <1>1 DEF TimerInv
  <2>3. /\ deadline <= now + 1 => deadline' <= now' + 1
        /\ now # 0 => now' # 0
    <3>1. \A d, n, m \in Nat : m >= n => (d <= n + 1 => d <= m + 1) /\ (n # 0 => m # 0)
      OBVIOUS
    <3>2. PICK d \in Nat : d = deadline /\ d = deadline'
      BY <2>1
    <3>3. PICK n \in Nat : n = now
      BY <2>1
    <3>4. PICK m \in Nat : m = now'
      BY <2>1
    <3>5. m >= n
      BY <2>1, <3>3, <3>4
    <3>6. (d <= n + 1 => d <= m + 1) /\ (n # 0 => m # 0)
      BY <3>1, <3>5
    <3> QED
      BY Zenon, <3>2, <3>3, <3>4, <3>6
  <2>4. /\ timers' = timers /\ deadline' = deadline
        /\ expired' = expired /\ readTime' = readTime
    OBVIOUS
  <2>5. TimerfdArmed'
    BY <2>2, <2>3, <2>4 DEF AlarmInv, TimerfdArmed
  <2> QED
    BY <2>2, <2>3, <2>4, <2>5 DEF AlarmInv
<1> QED
  BY <1>2, <1>4, <1>5, <1>6, <1>7, <1>8 DEF IInv, TimerInv

LEMMA InitHasInv == Init => IInv
<1> SUFFICES ASSUME Init PROVE IInv
  OBVIOUS
<1>1. Len(queue) = 0 /\ 1..Len(queue) = {}
  BY DEF Init
<1>2. QueuedAdds = {} /\ Listed = {}
  BY <1>1 DEF QueuedAdds, Listed, Init
<1>3. queue \in Seq(Functor)
  BY DEF Init
<1>4. heap \in [Addrs -> Timer \cup {Free}] /\ adding \in [Callers -> SUBSET TimerId]
  BY DEF Init
<1>5. TypeOK
  BY <1>3, <1>4 DEF Init, TypeOK
<1>6. ListsAgree
  BY DEF Init, ListsAgree
<1>7. OneOwner
  BY <1>2 DEF Init, OneOwner
<1>8. CancelInv /\ AlarmInv
  BY DEF Init, CancelInv, AlarmInv, TimerfdArmed
<1>9. SequenceInv
  BY <1>1 DEF Init, SequenceInv
<1> QED
  BY <1>5, <1>6, <1>7, <1>8, <1>9 DEF IInv, TimerInv

\* Every step of the queue, of its callers and of the clock keeps the invariant.
LEMMA StepKeepsInv == IInv /\ [Next]_timerVars => IInv'
<1> SUFFICES ASSUME IInv, [Next]_timerVars PROVE IInv'
  OBVIOUS
<1>1. ASSUME NEW c \in Callers, NEW a \in Addrs, NEW w \in Times,
             NEW i \in Intervals, AddTimer(c, a, w, i)
      PROVE  IInv'
  BY <1>1, AddTimerKeepsInv
<1>2. ASSUME NEW c \in Callers, ReturnId(c) PROVE IInv'
  BY <1>2, ReturnIdKeepsInv
<1>3. ASSUME NEW c \in Callers, NEW id \in ids, Cancel(c, id) PROVE IInv'
  BY <1>3, CancelKeepsInv
<1>4. ASSUME NEW a \in Addrs, NEW w \in Times, NEW i \in Intervals,
             AddTimerHere(a, w, i)
      PROVE  IInv'
  BY <1>4, AddTimerHereKeepsInv
<1>5. ASSUME NEW id \in ids, CancelHere(id) PROVE IInv'
  BY <1>5, CancelHereKeepsInv
<1>6. CASE RunFunctor
  BY <1>6, RunFunctorKeepsInv
<1>7. CASE HandleRead
  BY <1>7, HandleReadKeepsInv
<1>8. CASE Reset
  BY <1>8, ResetKeepsInv
<1>9. now \in Nat /\ now >= now /\ toRun \in SUBSET expired
      /\ phase \in {"idle", "polled", "calling"}
  BY DEF IInv, TypeOK
<1>10. CASE PollTimer
  BY <1>9, <1>10, QuietStepKeepsInv
     DEF PollTimer, listVars, callVars, historyVars
<1>11. ASSUME NEW a \in Addrs, RunTimer(a) PROVE IInv'
  BY <1>9, <1>11, QuietStepKeepsInv
     DEF RunTimer, listVars, callVars, historyVars
<1>12. CASE Tick
  <2>1. now' \in Nat /\ now' >= now
    BY <1>9, <1>12 DEF Tick
  <2> QED
    BY <1>9, <1>12, <2>1, QuietStepKeepsInv
       DEF Tick, listVars, batchVars, callVars, historyVars
<1>13. CASE UNCHANGED timerVars
  BY <1>9, <1>13, QuietStepKeepsInv
     DEF timerVars, listVars, batchVars, callVars, historyVars
<1> QED
  BY <1>1, <1>2, <1>3, <1>4, <1>5, <1>6, <1>7, <1>8, <1>10, <1>11, <1>12, <1>13
     DEF Next, TimerStep, CallerStep, CallbackStep

LEMMA InvHolds == Spec => []IInv
  BY InitHasInv, StepKeepsInv, PTL DEF Spec

\* The two lists of TimerQueue hold the same timers, and each entry matches the
\* Timer at its address: the assertions of insert, cancelInLoop and getExpired.
\* Timers are used and deleted by their one owner only, and none is leaked.
THEOREM TimersAlwaysOwned == Spec => [](TypeOK /\ TimersOwned)
<1>1. IInv => TypeOK /\ TimersOwned
  BY DEF IInv, TimerInv, TimersOwned
<1> QED
  BY <1>1, InvHolds, PTL

\* timerfd is armed for the earliest timer, or sooner, whenever one is waiting.
THEOREM TimerfdAlwaysArmed == Spec => []TimerfdArmed
<1>1. IInv => TimerfdArmed
  BY DEF IInv, TimerInv, AlarmInv
<1> QED
  BY <1>1, InvHolds, PTL

\* What cancelInLoop was told to cancel is never put back by reset.
THEOREM CancelledTimersStop == Spec => []CancelStops
<1>1. IInv => CancelStops
  <2> SUFFICES ASSUME IInv, NEW id \in cancelled \ overtook, id \in activeTimers
               PROVE  FALSE
    BY DEF CancelStops
  <2>1. TypeOK /\ ListsAgree /\ OneOwner /\ CancelInv
    BY DEF IInv, TimerInv
  <2>2. PICK e \in timers : id = IdAt(e[2])
    BY <2>1 DEF ListsAgree
  <2>3. id[1] = e[2] /\ Alive(id) /\ e[2] \in Listed
    BY <2>1, <2>2 DEF Alive, IdAt, ListsAgree, Listed
  <2> QED
    BY <2>1, <2>3 DEF CancelInv, OneOwner
<1> QED
  BY <1>1, InvHolds, PTL

=============================================================================
