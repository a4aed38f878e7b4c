--------------------------- MODULE TimerQueueCalls ---------------------------
(***************************************************************************)
(* The calls of TimerQueue, from other threads and from callbacks, keep    *)
(* its invariant: the first half of the proof in TimerQueueProofs.         *)
(***************************************************************************)
EXTENDS TimerQueueLemmas

IInv == TypeOK /\ TimerInv

LEMMA AddTimerKeepsInv ==
  ASSUME IInv, NEW c \in Callers, NEW a \in Addrs, NEW w \in Times,
         NEW i \in Intervals, AddTimer(c, a, w, i)
  PROVE  IInv'
<1> DEFINE t == NewTimer(w, i)
           f == [op |-> "add", timer |-> a]
<1>1. TypeOK /\ TimerInv
  BY DEF IInv
<1>2. /\ Create(a, t)
      /\ queue' = Append(queue, f)
      /\ adding' = [adding EXCEPT ![c] = {<<a, t.sequence>>}]
      /\ UNCHANGED <<now, canceling, deadline, timers, activeTimers, phase,
                     expired, toRun, readTime, ids, cancelled, overtook>>
  BY DEF AddTimer, listVars, batchVars, historyVars
<1>3. f \in Functor /\ f.op = "add" /\ f.timer = a
  BY DEF Functor
<1>4. QueuedAdds' = QueuedAdds \cup {a}
  BY <1>1, <1>2, <1>3, QueueAppend DEF TypeOK
<1>5. /\ heap' = [heap EXCEPT ![a] = t]
      /\ heap' \in [Addrs -> Timer \cup {Free}]
      /\ created' \in Nat /\ created < created'
      /\ t.sequence = created'
      /\ a \notin Listed \cup expired \cup QueuedAdds
      /\ {b \in Addrs : heap'[b] # Free} = {b \in Addrs : heap[b] # Free} \cup {a}
      /\ \A b \in Addrs : heap'[b] # Free => heap'[b].sequence <= created'
      /\ \A id \in cancelled \ overtook :
           id[2] <= created' /\ (Alive(id)' => Alive(id))
  BY <1>1, <1>2, CreateFacts
<1> HIDE DEF t, f
<1>6. TypeOK'
  <2>1. queue' \in Seq(Functor)
    BY <1>1, <1>2, <1>3 DEF TypeOK
  <2>2. adding' \in [Callers -> SUBSET TimerId]
    BY <1>1, <1>2, <1>5 DEF TypeOK, TimerId
  <2> QED
    BY <1>1, <1>2, <1>5, <2>1, <2>2 DEF TypeOK
<1>7. Listed' = Listed
  BY Zenon, <1>2 DEF Listed
<1>8. ListsAgree'
  <2>1. \A b \in Listed : b \in Addrs /\ heap'[b] = heap[b]
    BY <1>1, <1>5, EntryFacts DEF TypeOK, TimerInv
  <2>2. \A e \in timers : e[2] \in Listed
    BY DEF Listed
  <2> QED
    BY <1>1, <1>2, <2>1, <2>2 DEF TimerInv, ListsAgree, IdAt
<1>9. OneOwner'
  BY <1>1, <1>2, <1>4, <1>5, <1>7 DEF TimerInv, OneOwner
<1>10. CancelInv'
  BY <1>1, <1>2, <1>5 DEF TimerInv, CancelInv
<1>11. SequenceInv'
  <2>1. /\ Len(queue') = Len(queue) + 1 /\ Len(queue) \in Nat
        /\ \A k \in 1..Len(queue) : queue'[k] = queue[k]
        /\ queue'[Len(queue) + 1] = f
    BY <1>1, <1>2, <1>3 DEF TypeOK
  <2>2. \A id \in ids' : id[2] <= created'
    BY <1>1, <1>2, <1>5 DEF TimerInv, SequenceInv, TypeOK, TimerId
  <2>3. \A k \in 1..Len(queue') :
          queue'[k].op = "cancel" => queue'[k].id[2] <= created'
    <3>1. ASSUME NEW k \in 1..Len(queue), queue[k].op = "cancel"
          PROVE  queue[k].id[2] <= created'
      <4>1. queue[k] \in Functor
        BY <1>1 DEF TypeOK
      <4>2. queue[k].id \in TimerId
        BY <3>1, <4>1 DEF Functor
      <4>3. queue[k].id[2] \in Nat
        BY <4>2 DEF TimerId
      <4>4. queue[k].id[2] <= created
        BY <1>1, <3>1 DEF TimerInv, SequenceInv
      <4>5. PICK m \in Nat : m = queue[k].id[2]
        BY <4>3
      <4>6. PICK n \in Nat : n = created
        BY <1>1 DEF TypeOK
      <4>7. PICK p \in Nat : p = created' /\ n < p
        BY <1>5, <4>6
      <4>8. m <= n
        BY <4>4, <4>5, <4>6
      <4>9. m <= p
        BY <4>7, <4>8
      <4> QED
        BY <4>5, <4>7, <4>9
    <3> QED
      BY <1>3, <2>1, <3>1
  <2>4. \A k \in 1..Len(queue) : queue[k].op = "add" => queue[k].timer # a
    BY <1>5 DEF QueuedAdds
  <2>5. \A k, l \in 1..Len(queue') :
          queue'[k].op = "add" /\ queue'[l].op = "add" /\ k # l =>
            queue'[k].timer # queue'[l].timer
    BY <1>1, <1>3, <2>1, <2>4 DEF TimerInv, SequenceInv
  <2> QED
    BY <1>5, <2>2, <2>3, <2>5 DEF SequenceInv
<1>12. AlarmInv'
  BY <1>1, <1>2 DEF TimerInv, AlarmInv, TimerfdArmed
<1> QED
  BY <1>6, <1>8, <1>9, <1>10, <1>11, <1>12 DEF IInv, TimerInv

\* Reading a sequence, the right one or not, gives an id of the past.
LEMMA ReturnIdKeepsInv ==
  ASSUME IInv, NEW c \in Callers, ReturnId(c)
  PROVE  IInv'
<1>1. TypeOK /\ TimerInv
  BY DEF IInv
<1>2. PICK id \in adding[c] :
        /\ \E s \in (IF heap[id[1]] # Free THEN {heap[id[1]].sequence}
                                         ELSE 0..created) :
             ids' = ids \cup {<<id[1], s>>}
        /\ adding' = [adding EXCEPT ![c] = {}]
        /\ UNCHANGED <<now, heap, created, canceling, deadline, timers,
                       activeTimers, phase, expired, toRun, readTime, queue,
                       cancelled, overtook>>
  BY DEF ReturnId, listVars, batchVars, historyVars
<1>3. id[1] \in Addrs
  BY <1>1 DEF TypeOK, TimerId
<1>4. PICK s \in Nat : s <= created /\ ids' = ids \cup {<<id[1], s>>}
  <2>1. PICK s \in (IF heap[id[1]] # Free THEN {heap[id[1]].sequence}
                                         ELSE 0..created) :
          ids' = ids \cup {<<id[1], s>>}
    BY <1>2
  <2>2. heap[id[1]] # Free =>
          heap[id[1]].sequence \in Nat /\ heap[id[1]].sequence <= created
    BY <1>1, <1>3 DEF TimerInv, SequenceInv, TypeOK, Timer
  <2>3. s \in Nat /\ s <= created
    BY <1>1, <2>2 DEF TypeOK
  <2> QED
    BY <2>1, <2>3
<1>5. TypeOK'
  <2>1. ids' \in SUBSET TimerId
    BY <1>1, <1>3, <1>4 DEF TypeOK, TimerId
  <2>2. adding' \in [Callers -> SUBSET TimerId]
    BY <1>1, <1>2 DEF TypeOK
  <2> QED
    BY <1>1, <1>2, <2>1, <2>2 DEF TypeOK
<1>6. ListsAgree' /\ OneOwner' /\ AlarmInv'
  <2>1. ListsAgree'
    BY <1>1, <1>2 DEF TimerInv, ListsAgree, IdAt
  <2>2. OneOwner'
    <3>1. Listed' = Listed /\ QueuedAdds' = QueuedAdds
      BY <1>2 DEF Listed, QueuedAdds
    <3> QED
      BY <1>1, <1>2, <3>1 DEF TimerInv, OneOwner
  <2>3. AlarmInv'
    BY <1>1, <1>2 DEF TimerInv, AlarmInv, TimerfdArmed
  <2> QED
    BY <2>1, <2>2, <2>3
<1>7. CancelInv'
  BY <1>1, <1>2 DEF TimerInv, CancelInv, Alive
<1>8. SequenceInv'
  <2>1. \A i \in ids' : i[2] <= created
    BY <1>1, <1>4 DEF TimerInv, SequenceInv
  <2> QED
    BY <1>1, <1>2, <2>1 DEF TimerInv, SequenceInv
<1> QED
  BY <1>5, <1>6, <1>7, <1>8 DEF IInv, TimerInv

LEMMA CancelKeepsInv ==
  ASSUME IInv, NEW c \in Callers, NEW id \in ids, Cancel(c, id)
  PROVE  IInv'
<1> DEFINE f == [op |-> "cancel", id |-> id]
<1>1. TypeOK /\ TimerInv
  BY DEF IInv
<1>2. /\ queue' = Append(queue, f)
      /\ UNCHANGED <<now, heap, created, canceling, deadline, timers,
                     activeTimers, phase, expired, toRun, readTime, adding, ids,
                     cancelled, overtook>>
  BY DEF Cancel, listVars, batchVars, historyVars
<1>3. f \in Functor /\ f.op = "cancel" /\ f.id = id
  <2>1. id \in TimerId
    BY <1>1 DEF TypeOK
  <2>2. f \in [op : {"cancel"}, id : TimerId]
    BY <2>1
  <2> QED
    BY <2>2 DEF Functor
<1> HIDE DEF f
<1>4. QueuedAdds' = QueuedAdds
  BY <1>1, <1>2, <1>3, QueueAppend DEF TypeOK
<1>5. TypeOK'
  <2>1. queue' \in Seq(Functor)
    BY <1>1, <1>2, <1>3 DEF TypeOK
  <2> QED
    BY <1>1, <1>2, <2>1 DEF TypeOK
<1>6. ListsAgree' /\ OneOwner' /\ AlarmInv'
  BY <1>1, <1>2, <1>4 DEF TimerInv, ListsAgree, IdAt, OneOwner, Listed,
                          AlarmInv, TimerfdArmed
<1>7. CancelInv'
  BY <1>1, <1>2 DEF TimerInv, CancelInv, Alive
<1>8. SequenceInv'
  <2>1. /\ Len(queue') = Len(queue) + 1 /\ Len(queue) \in Nat
        /\ \A k \in 1..Len(queue) : queue'[k] = queue[k]
        /\ queue'[Len(queue) + 1] = f
    BY <1>1, <1>2, <1>3 DEF TypeOK
  <2>2. id[2] <= created
    BY <1>1 DEF TimerInv, SequenceInv
  <2> QED
    BY <1>1, <1>2, <1>3, <2>1, <2>2 DEF TimerInv, SequenceInv
<1> QED
  BY <1>5, <1>6, <1>7, <1>8 DEF IInv, TimerInv

LEMMA AddTimerHereKeepsInv ==
  ASSUME IInv, NEW a \in Addrs, NEW w \in Times, NEW i \in Intervals,
         AddTimerHere(a, w, i)
  PROVE  IInv'
<1> DEFINE t == NewTimer(w, i)
<1>1. TypeOK /\ TimerInv
  BY DEF IInv
<1>2. /\ Create(a, t)
      /\ AddTimerInLoop(a, t)
      /\ ids' = ids \cup {<<a, t.sequence>>}
      /\ UNCHANGED <<now, canceling, phase, expired, toRun, readTime, queue,
                     adding, cancelled, overtook>>
  BY DEF AddTimerHere, batchVars, historyVars
<1>3. /\ t \in Timer
      /\ heap' = [heap EXCEPT ![a] = t]
      /\ heap' \in [Addrs -> Timer \cup {Free}]
      /\ created' \in Nat /\ created < created'
      /\ t.sequence = created'
      /\ a \notin Listed \cup expired \cup QueuedAdds
      /\ {b \in Addrs : heap'[b] # Free} = {b \in Addrs : heap[b] # Free} \cup {a}
      /\ \A b \in Addrs : heap'[b] # Free => heap'[b].sequence <= created'
      /\ \A id \in cancelled \ overtook :
           id[2] <= created' /\ (Alive(id)' => Alive(id))
  BY <1>1, <1>2, CreateFacts
<1> HIDE DEF t
<1>4. /\ timers' \in SUBSET (Nat \X Addrs)
      /\ activeTimers' \in SUBSET TimerId
      /\ deadline' \in Nat
      /\ Listed' = Listed \cup {a}
      /\ ListsAgree'
      /\ AlarmInv'
  BY Zenon, <1>1, <1>2, <1>3, InsertLists DEF TimerInv
<1>5. TypeOK'
  <2>1. ids' \in SUBSET TimerId
    BY <1>1, <1>2, <1>3 DEF TypeOK, TimerId
  <2> QED
    BY <1>1, <1>2, <1>3, <1>4, <2>1 DEF TypeOK
<1>6. OneOwner'
  <2>1. QueuedAdds' = QueuedAdds
    BY Zenon, <1>2 DEF QueuedAdds
  <2> QED
    BY Zenon, <1>1, <1>2, <1>3, <1>4, <2>1 DEF TimerInv, OneOwner
<1>7. CancelInv'
  BY <1>1, <1>2, <1>3 DEF TimerInv, CancelInv
<1>8. SequenceInv'
  <2>1. \A id \in ids : id[2] \in Nat /\ id[2] <= created
    BY <1>1 DEF TimerInv, SequenceInv, TypeOK, TimerId
  <2>2. \A id \in ids' : id[2] <= created'
    BY <1>1, <1>2, <1>3, <2>1 DEF TypeOK
  <2>3. ASSUME NEW k \in 1..Len(queue), queue[k].op = "cancel"
        PROVE  queue[k].id[2] <= created'
    <3>1. queue[k] \in Functor
      BY <1>1 DEF TypeOK
    <3>2. queue[k].id \in TimerId
      BY <2>3, <3>1 DEF Functor
    <3>3. queue[k].id[2] \in Nat
      BY <3>2 DEF TimerId
    <3>4. queue[k].id[2] <= created
      BY <1>1, <2>3 DEF TimerInv, SequenceInv
    <3>5. PICK m \in Nat : m = queue[k].id[2]
      BY <3>3
    <3>6. PICK n \in Nat : n = created
      BY <1>1 DEF TypeOK
    <3>7. PICK p \in Nat : p = created' /\ n < p
      BY <1>3, <3>6
    <3>8. m <= n
      BY <3>4, <3>5, <3>6
    <3>9. m <= p
      BY <3>7, <3>8
    <3> QED
      BY <3>5, <3>7, <3>9
  <2> QED
    BY <1>1, <1>2, <1>3, <2>2, <2>3 DEF TimerInv, SequenceInv
<1> QED
  BY <1>4, <1>5, <1>6, <1>7, <1>8 DEF IInv, TimerInv

LEMMA CancelHereKeepsInv ==
  ASSUME IInv, NEW id \in ids, CancelHere(id)
  PROVE  IInv'
<1>1. TypeOK /\ TimerInv
  BY DEF IInv
<1>2. /\ CancelInLoop(id)
      /\ UNCHANGED <<now, created, deadline, phase, expired, toRun, readTime,
                     queue, adding, ids>>
  BY DEF CancelHere, batchVars, callVars
<1>3. id \in TimerId /\ id[2] <= created
  BY <1>1 DEF TypeOK, TimerInv, SequenceInv
<1>4. QueuedAdds' = QueuedAdds
  BY <1>2 DEF QueuedAdds
<1>5. /\ heap' \in [Addrs -> Timer \cup {Free}]
      /\ timers' \in SUBSET (Nat \X Addrs)
      /\ activeTimers' \in SUBSET TimerId
      /\ canceling' \in SUBSET TimerId
      /\ cancelled' \in SUBSET TimerId
      /\ overtook' \in SUBSET TimerId
      /\ ListsAgree' /\ OneOwner' /\ CancelInv' /\ AlarmInv'
      /\ \A a \in Addrs : heap'[a] # Free => heap'[a] = heap[a]
  BY <1>1, <1>2, <1>3, <1>4, CancelKeeps
<1>6. TypeOK'
  BY <1>1, <1>2, <1>5 DEF TypeOK
<1>7. SequenceInv'
  BY <1>1, <1>2, <1>5 DEF TimerInv, SequenceInv
<1> QED
  BY <1>5, <1>6, <1>7 DEF IInv, TimerInv

LEMMA RunFunctorKeepsInv ==
  ASSUME IInv, RunFunctor
  PROVE  IInv'
<1> DEFINE f == Head(queue)
<1>1. TypeOK /\ TimerInv
  BY DEF IInv
<1>2. /\ queue # <<>> /\ queue' = Tail(queue)
      /\ UNCHANGED <<now, created, phase, expired, toRun, readTime, adding, ids>>
  BY DEF RunFunctor, batchVars
<1>3. /\ f \in Functor
      /\ f.op = "add" => /\ f.timer \in QueuedAdds
                         /\ QueuedAdds' = QueuedAdds \ {f.timer}
      /\ f.op = "cancel" => QueuedAdds' = QueuedAdds
  BY <1>1, <1>2, QueueTail DEF TypeOK, TimerInv
<1>4. queue' \in Seq(Functor)
  BY <1>1, <1>2 DEF TypeOK
<1>5. /\ Len(queue') = Len(queue) - 1 /\ Len(queue) \in Nat \ {0}
      /\ \A k \in 1..Len(queue') : k + 1 \in 1..Len(queue) /\ queue'[k] = queue[k + 1]
      /\ f = queue[1]
  BY <1>1, <1>2 DEF TypeOK
<1> HIDE DEF f
<1>6. /\ \A k \in 1..Len(queue') :
           queue'[k].op = "cancel" => queue'[k].id[2] <= created
      /\ \A k, l \in 1..Len(queue') :
           queue'[k].op = "add" /\ queue'[l].op = "add" /\ k # l =>
             queue'[k].timer # queue'[l].timer
  <2>1. \A k \in 1..Len(queue') :
          queue'[k].op = "cancel" => queue'[k].id[2] <= created
    BY <1>1, <1>5 DEF TimerInv, SequenceInv
  <2>2. ASSUME NEW k \in 1..Len(queue'), NEW l \in 1..Len(queue'), k # l,
               queue'[k].op = "add", queue'[l].op = "add"
        PROVE  queue'[k].timer # queue'[l].timer
    <3>1. /\ k + 1 \in 1..Len(queue) /\ queue'[k] = queue[k + 1]
          /\ l + 1 \in 1..Len(queue) /\ queue'[l] = queue[l + 1]
          /\ k + 1 # l + 1
      BY <1>5, <2>2
    <3> QED
      BY <1>1, <2>2, <3>1 DEF TimerInv, SequenceInv
  <2> QED
    BY <2>1, <2>2
<1>7. CASE f.op = "add"
  <2> DEFINE a == f.timer
             t == heap[f.timer]
  <2>1. /\ AddTimerInLoop(a, t)
        /\ UNCHANGED <<heap, canceling, cancelled, overtook>>
    BY <1>7 DEF RunFunctor, historyVars, f
  <2>2. a \in Addrs /\ t # Free /\ a \notin Listed \cup expired
    BY <1>1, <1>3, <1>7 DEF TimerInv, OneOwner
  <2>3. t \in Timer
    BY <1>1, <2>2 DEF TypeOK
  <2>4. heap' = [heap EXCEPT ![a] = t]
    BY <1>1, <2>1 DEF TypeOK
  <2> HIDE DEF a, t
  <2>5. /\ timers' \in SUBSET (Nat \X Addrs)
        /\ activeTimers' \in SUBSET TimerId
        /\ deadline' \in Nat
        /\ Listed' = Listed \cup {a}
        /\ ListsAgree'
        /\ AlarmInv'
    BY Zenon, <1>1, <1>2, <2>1, <2>2, <2>3, <2>4, InsertLists DEF TimerInv
  <2>6. TypeOK'
    BY <1>1, <1>2, <1>4, <2>1, <2>5 DEF TypeOK
  <2>7. OneOwner'
    BY <1>1, <1>2, <1>3, <1>7, <2>1, <2>2, <2>5 DEF TimerInv, OneOwner, a
  <2>8. CancelInv'
    BY <1>1, <1>2, <2>1 DEF TimerInv, CancelInv, Alive
  <2>9. SequenceInv'
    BY <1>1, <1>2, <1>6, <2>1 DEF TimerInv, SequenceInv
  <2> QED
    BY <2>5, <2>6, <2>7, <2>8, <2>9 DEF IInv, TimerInv
<1>8. CASE f.op = "cancel"
  <2>1. CancelInLoop(f.id) /\ UNCHANGED deadline
    BY <1>8 DEF RunFunctor, f
  <2>2. f.id \in TimerId /\ f.id[2] <= created
    BY <1>1, <1>3, <1>5, <1>8 DEF Functor, TimerInv, SequenceInv
  <2>3. /\ heap' \in [Addrs -> Timer \cup {Free}]
        /\ timers' \in SUBSET (Nat \X Addrs)
        /\ activeTimers' \in SUBSET TimerId
        /\ canceling' \in SUBSET TimerId
        /\ cancelled' \in SUBSET TimerId
        /\ overtook' \in SUBSET TimerId
        /\ ListsAgree' /\ OneOwner' /\ CancelInv' /\ AlarmInv'
        /\ \A a \in Addrs : heap'[a] # Free => heap'[a] = heap[a]
    BY <1>1, <1>2, <1>3, <1>8, <2>1, <2>2, CancelKeeps
  <2>4. TypeOK'
    BY <1>1, <1>2, <1>4, <2>1, <2>3 DEF TypeOK
  <2>5. SequenceInv'
    BY <1>1, <1>2, <1>6, <2>3 DEF TimerInv, SequenceInv
  <2> QED
    BY <2>3, <2>4, <2>5 DEF IInv, TimerInv
<1> QED
  BY <1>3, <1>7, <1>8 DEF Functor

=============================================================================
