--------------------------- MODULE TimerQueueLemmas ---------------------------
(***************************************************************************)
(* What the parts of TimerQueue's calls do to the queue of functors and to *)
(* the two lists: the lemmas of TimerQueueCalls and TimerQueueProofs.      *)
(***************************************************************************)
EXTENDS TimerQueue, TLAPS

\* ------------------------------------------------------------ the queue --

\* A functor at the end of the queue adds its timer, if it has one.
LEMMA QueueAppend ==
  ASSUME queue \in Seq(Functor), NEW f \in Functor, queue' = Append(queue, f)
  PROVE  /\ f.op = "add" => QueuedAdds' = QueuedAdds \cup {f.timer}
         /\ f.op = "cancel" => QueuedAdds' = QueuedAdds
<1>1. /\ Len(queue') = Len(queue) + 1
      /\ Len(queue) \in Nat
      /\ \A i \in 1..Len(queue) : queue'[i] = queue[i]
      /\ queue'[Len(queue) + 1] = f
  OBVIOUS
<1>2. \A x : x \in QueuedAdds <=>
        \E i \in 1..Len(queue) : queue[i].op = "add" /\ x = queue[i].timer
  BY DEF QueuedAdds
<1>3. \A x : x \in QueuedAdds' <=>
        \E i \in 1..Len(queue') : queue'[i].op = "add" /\ x = queue'[i].timer
  BY DEF QueuedAdds
<1>4. ASSUME f.op = "add" PROVE QueuedAdds' = QueuedAdds \cup {f.timer}
  <2>1. \A x : x \in QueuedAdds' <=> x \in QueuedAdds \/ x = f.timer
    BY <1>1, <1>2, <1>3, <1>4
  <2> QED
    BY <2>1
<1>5. ASSUME f.op = "cancel" PROVE QueuedAdds' = QueuedAdds
  <2>1. \A x : x \in QueuedAdds' <=> x \in QueuedAdds
    BY <1>1, <1>2, <1>3, <1>5
  <2> QED
    BY Zenon, <2>1
<1> QED
  BY <1>4, <1>5

\* The functor at the head takes its timer with it, since none is queued twice.
LEMMA QueueTail ==
  ASSUME queue \in Seq(Functor), queue # <<>>, queue' = Tail(queue),
         SequenceInv
  PROVE  /\ Head(queue) \in Functor
         /\ Head(queue).op = "add" =>
              /\ Head(queue).timer \in QueuedAdds
              /\ QueuedAdds' = QueuedAdds \ {Head(queue).timer}
         /\ Head(queue).op = "cancel" => QueuedAdds' = QueuedAdds
<1>1. /\ Len(queue') = Len(queue) - 1
      /\ Len(queue) \in Nat \ {0}
      /\ \A i \in 1..Len(queue') : queue'[i] = queue[i + 1]
      /\ Head(queue) = queue[1]
      /\ Head(queue) \in Functor
  OBVIOUS
<1>2. \A x : x \in QueuedAdds <=>
        \E i \in 1..Len(queue) : queue[i].op = "add" /\ x = queue[i].timer
  BY DEF QueuedAdds
<1>3. \A x : x \in QueuedAdds' <=>
        \E i \in 1..Len(queue') : queue'[i].op = "add" /\ x = queue'[i].timer
  BY DEF QueuedAdds
<1>4. \A x : x \in QueuedAdds' <=>
        \E i \in 2..Len(queue) : queue[i].op = "add" /\ x = queue[i].timer
  <2>1. ASSUME NEW x, x \in QueuedAdds'
        PROVE  \E i \in 2..Len(queue) : queue[i].op = "add" /\ x = queue[i].timer
    <3>1. PICK i \in 1..Len(queue') : queue'[i].op = "add" /\ x = queue'[i].timer
      BY <1>3, <2>1
    <3>2. i + 1 \in 2..Len(queue) /\ queue'[i] = queue[i + 1]
      BY <1>1
    <3> QED
      BY <3>1, <3>2
  <2>2. ASSUME NEW i \in 2..Len(queue), queue[i].op = "add"
        PROVE  queue[i].timer \in QueuedAdds'
    <3>1. PICK j \in 1..Len(queue') : i = j + 1
      BY <1>1
    <3>2. queue'[j] = queue[i]
      BY <1>1, <3>1
    <3>3. queue'[j].op = "add" /\ queue[i].timer = queue'[j].timer
      BY <2>2, <3>2
    <3> QED
      BY <1>3, <3>3
  <2> QED
    BY <2>1, <2>2
<1>5. ASSUME Head(queue).op = "add"
      PROVE  /\ Head(queue).timer \in QueuedAdds
             /\ QueuedAdds' = QueuedAdds \ {Head(queue).timer}
  <2>1. Head(queue).timer \in QueuedAdds
    BY <1>1, <1>2, <1>5
  <2>2. \A i \in 2..Len(queue) :
          queue[i].op = "add" => queue[i].timer # queue[1].timer
    BY <1>1, <1>5 DEF SequenceInv
  <2>3. \A x : x \in QueuedAdds' <=> x \in QueuedAdds /\ x # queue[1].timer
    BY <1>1, <1>2, <1>4, <2>2
  <2> QED
    BY <1>1, <2>1, <2>3
<1>6. ASSUME Head(queue).op = "cancel" PROVE QueuedAdds' = QueuedAdds
  <2>1. \A x : x \in QueuedAdds' <=> x \in QueuedAdds
    BY <1>1, <1>2, <1>4, <1>6
  <2> QED
    BY Zenon, <2>1
<1> QED
  BY <1>1, <1>5, <1>6

\* ------------------------------------------------------------ the lists --

\* What ListsAgree and the types say of entries and ids, element by element.
LEMMA EntryFacts ==
  ASSUME TypeOK, ListsAgree
  PROVE  /\ \A a \in Addrs : heap[a] # Free => heap[a] \in Timer
         /\ \A e \in timers : /\ e[1] \in Nat /\ e[2] \in Addrs
                              /\ e = <<e[1], e[2]>>
                              /\ heap[e[2]] # Free
                              /\ e[1] = heap[e[2]].expiration
         /\ \A a : a \in Listed <=> \E e \in timers : e[2] = a
         /\ \A a \in Listed : /\ a \in Addrs /\ heap[a] # Free
                              /\ <<heap[a].expiration, a>> \in timers
         /\ \A id \in activeTimers : /\ id[1] \in Listed
                                     /\ id = IdAt(id[1])
         /\ \A a \in Listed : IdAt(a) \in activeTimers
<1>1. \A a \in Addrs : heap[a] # Free => heap[a] \in Timer
  BY DEF TypeOK
<1>2. \A e \in timers : /\ e[1] \in Nat /\ e[2] \in Addrs
                        /\ e = <<e[1], e[2]>>
                        /\ heap[e[2]] # Free
                        /\ e[1] = heap[e[2]].expiration
  BY DEF TypeOK, ListsAgree
<1>3. \A a : a \in Listed <=> \E e \in timers : e[2] = a
  BY DEF Listed
<1>4. ASSUME NEW a \in Listed
      PROVE  /\ a \in Addrs /\ heap[a] # Free
             /\ <<heap[a].expiration, a>> \in timers
             /\ IdAt(a) \in activeTimers
  <2>1. PICK e \in timers : e[2] = a
    BY <1>3
  <2> QED
    BY <1>2, <2>1 DEF ListsAgree
<1>5. ASSUME NEW id \in activeTimers
      PROVE  id[1] \in Listed /\ id = IdAt(id[1])
  <2>1. PICK e \in timers : id = IdAt(e[2])
    BY DEF ListsAgree
  <2>2. id[1] = e[2]
    BY <2>1 DEF IdAt
  <2> QED
    BY <1>3, <2>1, <2>2
<1> QED
  BY <1>1, <1>2, <1>3, <1>4, <1>5

\* addTimerInLoop keeps the lists in agreement and timerfd armed.
LEMMA InsertLists ==
  ASSUME TypeOK, ListsAgree, AlarmInv, NEW a \in Addrs, NEW t \in Timer,
         a \notin Listed, AddTimerInLoop(a, t),
         heap' = [heap EXCEPT ![a] = t],
         UNCHANGED <<now, phase, expired, readTime>>
  PROVE  /\ timers' \in SUBSET (Nat \X Addrs)
         /\ activeTimers' \in SUBSET TimerId
         /\ deadline' \in Nat
         /\ Listed' = Listed \cup {a}
         /\ ListsAgree'
         /\ AlarmInv'
<1> DEFINE w == t.expiration
<1>1. w \in Nat /\ t.sequence \in Nat /\ t # Free
  BY FreeAssumption DEF Timer
<1>2. /\ timers' = timers \cup {<<w, a>>}
      /\ activeTimers' = activeTimers \cup {<<a, t.sequence>>}
  BY DEF AddTimerInLoop
<1>3. /\ timers' \in SUBSET (Nat \X Addrs)
      /\ activeTimers' \in SUBSET TimerId
  BY <1>1, <1>2 DEF TypeOK, TimerId
<1>4. Listed' = Listed \cup {a}
  <2>1. \A b : b \in Listed' <=> \E e \in timers' : e[2] = b
    BY DEF Listed
  <2>2. \A b : b \in Listed <=> \E e \in timers : e[2] = b
    BY DEF Listed
  <2>3. <<w, a>> \in timers' /\ <<w, a>>[2] = a
    BY <1>2
  <2>4. \A b \in Listed' : b \in Listed \/ b = a
    BY <1>2, <2>1, <2>2
  <2>5. \A b \in Listed : b \in Listed'
    BY <1>2, <2>1, <2>2
  <2>6. a \in Listed'
    BY <2>1, <2>3
  <2> QED
    BY <2>4, <2>5, <2>6
<1>5. ListsAgree'
  <2>1. \A b \in Addrs : b # a => heap'[b] = heap[b]
    BY DEF TypeOK
  <2>2. heap'[a] = t
    BY DEF TypeOK
  <2>3. \A e \in timers : e[2] # a
    BY DEF Listed
  <2>4. \A e \in timers : IdAt(e[2])' = IdAt(e[2])
    BY <2>1, <2>3, EntryFacts DEF IdAt
  <2>5. IdAt(a)' = <<a, t.sequence>>
    BY <2>2 DEF IdAt
  <2>6. \A e \in timers' :
          heap'[e[2]] # Free /\ e[1] = heap'[e[2]].expiration
    <3>1. ASSUME NEW e \in timers
          PROVE  heap'[e[2]] # Free /\ e[1] = heap'[e[2]].expiration
      BY <2>1, <2>3, EntryFacts
    <3>2. heap'[a] # Free /\ w = heap'[a].expiration
      BY <1>1, <2>2
    <3> QED
      BY <1>2, <3>1, <3>2
  <2>7. \A id \in activeTimers' : \E e \in timers' : id = IdAt(e[2])'
    <3>1. ASSUME NEW id \in activeTimers
          PROVE  \E e \in timers' : id = IdAt(e[2])'
      <4>1. PICK e \in timers : id = IdAt(e[2])
        BY DEF ListsAgree
      <4> QED
        BY <1>2, <2>4, <4>1
    <3>2. <<w, a>> \in timers' /\ <<a, t.sequence>> = IdAt(<<w, a>>[2])'
      BY <1>2, <2>2 DEF IdAt
    <3> QED
      BY Zenon, <1>2, <3>1, <3>2
  <2>8. \A e \in timers' : IdAt(e[2])' \in activeTimers'
    BY <1>2, <2>4, <2>5 DEF ListsAgree
  <2> QED
    BY <2>6, <2>7, <2>8 DEF ListsAgree
<1>6. /\ Alarm(w) \in Nat \ {0}
      /\ Alarm(w) <= now + 1 \/ Alarm(w) = w
      /\ w = 0 => Alarm(w) <= now + 1
  BY <1>1 DEF Alarm, TypeOK
<1> HIDE DEF w
<1>7. CASE \A e \in timers : w < e[1]
  <2>1. deadline' = Alarm(w)
    BY <1>7 DEF AddTimerInLoop, w
  <2>2. \A e \in timers' : e[1] \in Nat /\ w <= e[1]
    BY <1>1, <1>2, <1>3, <1>7 DEF TypeOK, w
  <2>3. AlarmInv'
    BY <1>6, <1>1, <2>1, <2>2 DEF AlarmInv, TimerfdArmed, TypeOK, w
  <2> QED
    BY <1>3, <1>4, <1>5, <1>6, <2>1, <2>3
<1>8. CASE ~ \A e \in timers : w < e[1]
  <2>1. deadline' = deadline
    BY <1>8 DEF AddTimerInLoop, w
  <2>2. PICK f \in timers : f[1] \in Nat /\ f[1] <= w
    BY <1>1, <1>8 DEF TypeOK, w
  <2>3. TimerfdArmed'
    <3>1. SUFFICES ASSUME phase # "calling"
                   PROVE  /\ deadline # 0
                          /\ deadline <= now + 1 \/ \A e \in timers' : deadline <= e[1]
      BY <2>1 DEF TimerfdArmed
    <3>2. deadline # 0 /\ (deadline <= now + 1 \/ \A e \in timers : deadline <= e[1])
      BY <2>2, <3>1 DEF AlarmInv, TimerfdArmed
    <3> QED
      BY <1>1, <1>2, <2>2, <3>2 DEF TypeOK, w
  <2>4. ASSUME phase = "calling", \E e \in timers' : e[1] = 0
        PROVE  deadline # 0 /\ deadline <= now + 1
    <3>1. \E e \in timers : e[1] = 0
      BY <1>1, <1>2, <2>2, <2>4 DEF w
    <3> QED
      BY <2>4, <3>1 DEF AlarmInv
  <2>5. AlarmInv'
    BY <2>1, <2>3, <2>4 DEF AlarmInv
  <2> QED
    BY <1>3, <1>4, <1>5, <2>1, <2>5 DEF TypeOK
<1> QED
  BY <1>7, <1>8

\* cancelInLoop takes a waiting timer out of both lists and deletes it ...
LEMMA EraseLists ==
  ASSUME TypeOK, ListsAgree, AlarmInv, NEW id \in activeTimers,
         timers' = timers \ {<<heap[id[1]].expiration, id[1]>>},
         activeTimers' = activeTimers \ {id},
         heap' = [heap EXCEPT ![id[1]] = Free],
         UNCHANGED <<now, deadline, phase, expired, readTime>>
  PROVE  /\ Listed' = Listed \ {id[1]}
         /\ ListsAgree'
         /\ AlarmInv'
<1> DEFINE a == id[1]
<1>1. a \in Listed /\ a \in Addrs /\ id = IdAt(a)
  BY EntryFacts
<1>2. \A e \in timers : e \in timers' <=> e[2] # a
  BY <1>1, EntryFacts
<1>3. timers' \subseteq timers
  OBVIOUS
<1>4. \A b \in Addrs : b # a => heap'[b] = heap[b]
  BY DEF TypeOK
<1> HIDE DEF a
<1>5. Listed' = Listed \ {a}
  <2>1. \A b : b \in Listed' <=> \E e \in timers' : e[2] = b
    BY DEF Listed
  <2>2. \A b : b \in Listed <=> \E e \in timers : e[2] = b
    BY DEF Listed
  <2>3. \A b \in Listed' : b \in Listed /\ b # a
    BY <1>2, <1>3, <2>1, <2>2
  <2>4. \A b \in Listed : b # a => b \in Listed'
    BY <1>2, <1>3, <2>1, <2>2
  <2> QED
    BY <2>3, <2>4
<1>6. ListsAgree'
  <2>1. \A e \in timers' : IdAt(e[2])' = IdAt(e[2])
    BY <1>2, <1>3, <1>4, EntryFacts DEF IdAt
  <2>2. \A e \in timers' :
          heap'[e[2]] # Free /\ e[1] = heap'[e[2]].expiration
    BY <1>2, <1>3, <1>4, EntryFacts
  <2>3. ASSUME NEW i \in activeTimers' PROVE \E e \in timers' : i = IdAt(e[2])'
    <3>1. PICK e \in timers : i = IdAt(e[2])
      BY DEF ListsAgree
    <3>2. e[2] # a
      BY <1>1, <3>1
    <3> QED
      BY <1>2, <2>1, <3>1, <3>2
  <2>4. ASSUME NEW e \in timers' PROVE IdAt(e[2])' \in activeTimers'
    <3>1. IdAt(e[2]) \in activeTimers /\ e[2] # a
      BY <1>2, <1>3 DEF ListsAgree
    <3>2. IdAt(e[2]) # id
      BY <1>1, <3>1 DEF IdAt
    <3> QED
      BY <2>1, <3>1, <3>2
  <2>5. ASSUME NEW i \in {IdAt(e[2])' : e \in timers'} PROVE i \in activeTimers'
    BY <2>4
  <2>6. activeTimers' = {IdAt(e[2])' : e \in timers'}
    BY <2>3, <2>5, Zenon
  <2> QED
    BY <2>2, <2>6 DEF ListsAgree
<1>7. AlarmInv'
  BY <1>3 DEF AlarmInv, TimerfdArmed
<1> QED
  BY <1>5, <1>6, <1>7 DEF a

\* ... and notes the id of one that is not waiting.
LEMMA CancelKeeps ==
  ASSUME TypeOK, TimerInv, NEW id \in TimerId, id[2] <= created,
         CancelInLoop(id), QueuedAdds' = QueuedAdds,
         UNCHANGED <<now, created, deadline, phase, expired, readTime>>
  PROVE  /\ heap' \in [Addrs -> Timer \cup {Free}]
         /\ timers' \in SUBSET (Nat \X Addrs)
         /\ activeTimers' \in SUBSET TimerId
         /\ canceling' \in SUBSET TimerId
         /\ cancelled' \in SUBSET TimerId
         /\ overtook' \in SUBSET TimerId
         /\ ListsAgree' /\ OneOwner' /\ CancelInv' /\ AlarmInv'
         /\ \A a \in Addrs : heap'[a] # Free => heap'[a] = heap[a]
<1>1. cancelled' = cancelled \cup {id} /\ overtook \subseteq overtook'
      /\ (IsQueued(id) => id \in overtook') /\ overtook' \subseteq overtook \cup {id}
  BY DEF CancelInLoop, RecordCancel
<1>2. cancelled' \in SUBSET TimerId /\ overtook' \in SUBSET TimerId
  BY <1>1 DEF TypeOK
<1>3. CASE id \in activeTimers
  <2> DEFINE a == id[1]
  <2>1. /\ timers' = timers \ {<<heap[a].expiration, a>>}
        /\ activeTimers' = activeTimers \ {id}
        /\ heap' = [heap EXCEPT ![a] = Free]
        /\ canceling' = canceling
    BY <1>3 DEF CancelInLoop, RecordCancel
  <2>2. Listed' = Listed \ {a} /\ ListsAgree' /\ AlarmInv'
    BY Zenon, <1>3, <2>1, EraseLists DEF TimerInv
  <2>3. a \in Listed /\ a \in Addrs
    BY <1>3, EntryFacts DEF TimerInv
  <2>4. /\ heap' \in [Addrs -> Timer \cup {Free}]
        /\ timers' \in SUBSET (Nat \X Addrs)
        /\ activeTimers' \in SUBSET TimerId
        /\ canceling' \in SUBSET TimerId
    BY <2>1, <2>3 DEF TypeOK
  <2>5. \A b \in Addrs : heap'[b] = IF b = a THEN Free ELSE heap[b]
    BY <2>1 DEF TypeOK
  <2>6. OneOwner'
    <3>1. {b \in Addrs : heap'[b] # Free} = {b \in Addrs : heap[b] # Free} \ {a}
      BY <2>5
    <3> QED
      BY <2>2, <2>3, <3>1 DEF OneOwner, TimerInv
  <2>7. ASSUME NEW i \in cancelled' \ overtook'
        PROVE  i[2] <= created /\ (Alive(i)' => i[1] \in expired /\ i \in canceling)
    <3>1. i \in TimerId /\ i[1] \in Addrs
      BY <1>2 DEF TimerId
    <3>2. CASE i = id
      <4>1. ~ Alive(i)'
        BY <2>3, <2>5, <3>2 DEF Alive
      <4> QED
        BY <3>2, <4>1
    <3>3. CASE i # id
      <4>1. i \in cancelled \ overtook
        BY <1>1, <2>7, <3>3
      <4>2. Alive(i)' => Alive(i)
        BY <2>5, <3>1 DEF Alive
      <4> QED
        BY <4>1, <4>2 DEF TimerInv, CancelInv
    <3> QED
      BY <3>2, <3>3
  <2>8. CancelInv'
    BY <2>1, <2>7 DEF CancelInv
  <2>9. \A b \in Addrs : heap'[b] # Free => heap'[b] = heap[b]
    BY <2>5
  <2> QED
    BY <1>2, <2>2, <2>4, <2>6, <2>8, <2>9
<1>4. CASE id \notin activeTimers
  <2>1. /\ UNCHANGED <<heap, timers, activeTimers>>
        /\ canceling' = IF phase = "calling" THEN canceling \cup {id} ELSE canceling
    BY <1>4 DEF CancelInLoop, RecordCancel, listVars
  <2>2. Listed' = Listed /\ ListsAgree' /\ AlarmInv' /\ OneOwner'
    BY <2>1 DEF TimerInv, ListsAgree, AlarmInv, TimerfdArmed, OneOwner, Listed,
                IdAt
  <2>3. ASSUME NEW i \in cancelled' \ overtook'
        PROVE  i[2] <= created /\ (Alive(i)' => i[1] \in expired /\ i \in canceling')
    <3>1. i[1] \in Addrs /\ i = <<i[1], i[2]>>
      BY <1>2 DEF TimerId
    <3>2. CASE i = id
      <4>1. ASSUME Alive(i) PROVE i[1] \in expired /\ i \in canceling'
        <5>1. i = IdAt(i[1])
          BY <3>1, <4>1 DEF Alive, IdAt
        <5>2. i[1] \notin Listed
          BY <1>4, <3>2, <5>1, EntryFacts DEF TimerInv
        <5>3. i[1] \notin QueuedAdds
          BY <1>1, <2>3, <3>2, <4>1 DEF IsQueued
        <5>4. i[1] \in expired
          BY <3>1, <4>1, <5>2, <5>3 DEF TimerInv, OneOwner, Alive
        <5>5. phase = "calling"
          BY <5>4 DEF TimerInv, AlarmInv
        <5> QED
          BY <2>1, <3>2, <5>4, <5>5
      <4> QED
        BY <2>1, <3>2, <4>1 DEF Alive
    <3>3. CASE i # id
      <4>1. i \in cancelled \ overtook
        BY <1>1, <2>3, <3>3
      <4> QED
        BY <2>1, <4>1 DEF TimerInv, CancelInv, Alive
    <3> QED
      BY <3>2, <3>3
  <2>4. CancelInv'
    BY <2>3 DEF CancelInv
  <2>5. canceling' \in SUBSET TimerId
    BY <2>1 DEF TypeOK
  <2> QED
    BY <1>2, <2>1, <2>2, <2>4, <2>5 DEF TypeOK
<1> QED
  BY <1>3, <1>4

\* ---------------------------------------------------------- the actions --

\* A new Timer goes to an address without an owner, with a sequence that no id
\* and no other Timer has.
LEMMA CreateFacts ==
  ASSUME TypeOK, TimerInv, NEW a \in Addrs, NEW w \in Times, NEW i \in Intervals,
         Create(a, NewTimer(w, i))
  PROVE  /\ NewTimer(w, i) \in Timer
         /\ heap' = [heap EXCEPT ![a] = NewTimer(w, i)]
         /\ heap' \in [Addrs -> Timer \cup {Free}]
         /\ created' \in Nat /\ created < created'
         /\ NewTimer(w, i).sequence = created'
         /\ a \notin Listed \cup expired \cup QueuedAdds
         /\ {b \in Addrs : heap'[b] # Free} = {b \in Addrs : heap[b] # Free} \cup {a}
         /\ \A b \in Addrs : heap'[b] # Free => heap'[b].sequence <= created'
         /\ \A id \in cancelled \ overtook : id[2] <= created' /\ (Alive(id)' => Alive(id))
<1> DEFINE t == NewTimer(w, i)
<1>1. created' = created + 1 /\ heap' = [heap EXCEPT ![a] = t] /\ heap[a] = Free
  BY DEF Create
<1>2. t \in Timer /\ t.sequence = created + 1
  BY TimerAssumption DEF NewTimer, Timer, TypeOK
<1>3. t # Free
  BY <1>2, FreeAssumption
<1> HIDE DEF t
<1>4. heap' \in [Addrs -> Timer \cup {Free}]
  BY <1>1, <1>2 DEF TypeOK
<1>5. \A b \in Addrs : heap'[b] = IF b = a THEN t ELSE heap[b]
  BY <1>1 DEF TypeOK
<1>6. a \notin Listed \cup expired \cup QueuedAdds
  BY <1>1 DEF TimerInv, OneOwner
<1>7. {b \in Addrs : heap'[b] # Free} = {b \in Addrs : heap[b] # Free} \cup {a}
  BY <1>3, <1>5
<1>8. created \in Nat /\ created' \in Nat /\ created < created'
  BY <1>1 DEF TypeOK
<1>9. ASSUME NEW b \in Addrs, heap'[b] # Free PROVE heap'[b].sequence <= created'
  <2>1. CASE b = a
    BY <1>1, <1>2, <1>5, <1>8, <2>1
  <2>2. CASE b # a
    <3>1. heap[b] \in Timer /\ heap[b].sequence <= created
      BY <1>5, <1>9, <2>2 DEF TypeOK, TimerInv, SequenceInv
    <3> QED
      BY <1>5, <1>8, <2>2, <3>1 DEF Timer
  <2> QED
    BY <2>1, <2>2
<1>10. ASSUME NEW id \in cancelled \ overtook
       PROVE  id[2] <= created' /\ (Alive(id)' => Alive(id))
  <2>1. id[1] \in Addrs /\ id[2] \in Nat /\ id[2] <= created
    BY DEF TypeOK, TimerId, TimerInv, CancelInv
  <2>2. id[2] # created + 1
    BY <1>8, <2>1
  <2> QED
    BY <1>1, <1>2, <1>5, <1>8, <2>1, <2>2 DEF Alive
<1> QED
  BY <1>1, <1>2, <1>4, <1>6, <1>7, <1>8, <1>9, <1>10 DEF t

=============================================================================
