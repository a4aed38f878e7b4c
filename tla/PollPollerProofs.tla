-------------------------- MODULE PollPollerProofs --------------------------
(***************************************************************************)
(* Proofs about PollPoller, for any set of channels whose owners do not    *)
(* enable a channel again after disableAll().                              *)
(***************************************************************************)
EXTENDS PollPoller, TLAPS

\* The channel calls change the events of one channel, to a set of events.
LEMMA ChangeEventsType ==
  ASSUME events \in [Channels -> SUBSET Events], NEW c \in Channels, NEW b,
         ChangeEvents(c, b) \/ DisableAll(c)
  PROVE  /\ events' \in [Channels -> SUBSET Events]
         /\ \A d \in Channels \ {c} : events'[d] = events[d]
  BY DEF ChangeEvents, EnableReading, EnableWriting, DisableWriting, DisableAll,
         Events, IsNoneEvent

\* Without Reenable, a channel that is known and changed had events.
LEMMA ChangedHadEvents ==
  ASSUME ~Reenable, events \in [Channels -> SUBSET Events], NEW c \in Channels,
         NEW b, ~b, ChangeEvents(c, b)
  PROVE  events[c] # {}
  BY DEF ChangeEvents, IsNoneEvent

\* A new channel that is changed is enabled.
LEMMA ChangedNewHasEvents ==
  ASSUME events \in [Channels -> SUBSET Events], NEW c \in Channels, NEW b,
         events[c] = {}, ChangeEvents(c, b)
  PROVE  events'[c] # {}
  BY DEF ChangeEvents, EnableReading, EnableWriting, DisableWriting, DisableAll,
         IsNoneEvent

\* push_back of the entry of a new channel keeps PollInv.
LEMMA AddKeepsInv ==
  ASSUME TypeOK, PollInv, NEW c \in Channels, AddPollFd(c), IsNew(c),
         events' \in [Channels -> SUBSET Events], removing = {},
         \A d \in Channels \ {c} : events'[d] = events[d],
         \/ events'[c] # {} /\ enabled' = enabled \cup {c}
         \/ events'[c] = {} /\ enabled' = enabled /\ removing' = {c}
  PROVE  PollInv' /\ index' \in [Channels -> Nat] /\ pollfds' \in Seq(PollFd)
<1> DEFINE e == [fd |-> c, off |-> FALSE, events |-> events'[c]]
<1>1. e \in PollFd
  BY DEF PollFd
<1>2. /\ pollfds' = Append(pollfds, e)
      /\ Len(pollfds) \in Nat
      /\ Len(pollfds') = Len(pollfds) + 1
      /\ \A i \in 1..Len(pollfds) : pollfds'[i] = pollfds[i]
      /\ pollfds'[Len(pollfds) + 1] = e
      /\ pollfds' \in Seq(PollFd)
  BY <1>1 DEF AddPollFd, TypeOK
<1>3. /\ index'[c] = Len(pollfds) + 1
      /\ \A d \in Channels \ {c} : index'[d] = index[d]
      /\ index' \in [Channels -> Nat]
      /\ channels' = channels \cup {c}
      /\ c \notin channels
  BY <1>2 DEF AddPollFd, TypeOK, PollInv
<1> HIDE DEF e
<1>4. e.fd = c /\ ~e.off /\ e.events = events'[c]
  BY DEF e
<1>5. IndexAgrees'
  BY <1>2, <1>3, <1>4 DEF PollInv, IndexAgrees, TypeOK
<1>6. \A d \in channels' :
        /\ pollfds'[index'[d]].events = events'[d]
        /\ pollfds'[index'[d]].off <=> events'[d] = {} /\ d \in enabled'
        /\ d \in enabled' \/ (events'[d] = {} /\ removing' = {d})
  <2>1. c \notin enabled /\ \A d \in channels : d \in enabled /\ d # c /\ d \in Channels
    BY <1>3 DEF PollInv, IsNew, TypeOK
  <2>2. pollfds'[index'[c]] = e
    BY <1>2, <1>3
  <2>3. \A d \in channels : pollfds'[index'[d]] = pollfds[index[d]]
    BY <1>2, <1>3, <2>1 DEF PollInv, IndexAgrees
  <2>4. \A d \in channels : /\ d \in enabled' /\ events'[d] = events[d]
                            /\ pollfds[index[d]].events = events[d]
                            /\ pollfds[index[d]].off <=> events[d] = {}
    BY <2>1 DEF PollInv, IsNoneEvent
  <2>5. /\ pollfds'[index'[c]].events = events'[c]
        /\ pollfds'[index'[c]].off <=> events'[c] = {} /\ c \in enabled'
        /\ c \in enabled' \/ (events'[c] = {} /\ removing' = {c})
    <3>1. CASE events'[c] # {} /\ enabled' = enabled \cup {c}
      <4>1. c \in enabled'
        BY <3>1
      <4> QED
        BY <1>4, <2>2, <3>1, <4>1, Zenon
    <3>2. CASE events'[c] = {} /\ enabled' = enabled /\ removing' = {c}
      BY <1>4, <2>1, <2>2, <3>2, Zenon
    <3> QED
      BY <3>1, <3>2, Zenon
  <2>6. ASSUME NEW d \in channels
        PROVE  /\ pollfds'[index'[d]].events = events'[d]
               /\ pollfds'[index'[d]].off <=> events'[d] = {} /\ d \in enabled'
               /\ d \in enabled' \/ (events'[d] = {} /\ removing' = {d})
    <3> DEFINE f == pollfds[index[d]]
    <3>1. pollfds'[index'[d]] = f
      BY <2>3
    <3>2. d \in enabled' /\ f.events = events'[d] /\ (f.off <=> events'[d] = {})
      BY <2>4, Zenon
    <3> HIDE DEF f
    <3> QED
      BY <3>1, <3>2, Zenon
  <2> QED
    BY <1>3, <2>5, <2>6, Zenon
<1>7. \A d \in Channels : index'[d] = 0 => d \notin channels' \cup enabled'
  BY <1>2, <1>3 DEF PollInv, IsNew
<1> QED
  BY <1>2, <1>3, <1>5, <1>6, <1>7 DEF PollInv, IsNew, IsNoneEvent

\* So does rewriting the entry of a known channel that had events.
LEMMA SetKeepsInv ==
  ASSUME TypeOK, PollInv, NEW c \in Channels, SetPollFd(c), c \in channels,
         events' \in [Channels -> SUBSET Events], events[c] # {}, removing = {},
         \A d \in Channels \ {c} : events'[d] = events[d], enabled' = enabled
  PROVE  PollInv' /\ pollfds' \in Seq(PollFd)
<1> DEFINE k == index[c]
           e == [fd |-> pollfds[k].fd,
                 off |-> (pollfds[k].off \/ events'[c] = {}),
                 events |-> events'[c]]
<1>1. k \in 1..Len(pollfds) /\ pollfds[k] \in PollFd /\ pollfds[k].fd = c
  BY DEF PollInv, IndexAgrees, TypeOK
<1>2. e \in PollFd /\ e.fd = c /\ e.events = events'[c]
      /\ (e.off <=> events'[c] = {})
  BY <1>1 DEF PollFd, PollInv, IsNoneEvent
<1>3. pollfds' = [pollfds EXCEPT ![k] = e]
  BY DEF SetPollFd
<1> HIDE DEF k, e
<1>4. /\ Len(pollfds) \in Nat
      /\ Len(pollfds') = Len(pollfds)
      /\ \A i \in 1..Len(pollfds) : pollfds'[i] = IF i = k THEN e ELSE pollfds[i]
      /\ pollfds' \in Seq(PollFd)
  BY <1>1, <1>2, <1>3 DEF TypeOK
<1>5. index' = index /\ channels' = channels /\ k = index[c]
  BY DEF SetPollFd, k
<1>6. IndexAgrees'
  <2>1. \A i \in 1..Len(pollfds) : pollfds'[i].fd = pollfds[i].fd
    BY <1>1, <1>2, <1>4
  <2> QED
    BY <1>4, <1>5, <2>1 DEF PollInv, IndexAgrees
<1>7. \A d \in channels : d \in enabled
  BY DEF PollInv
<1>8. \A d \in channels' : /\ pollfds'[index'[d]].events = events'[d]
                           /\ pollfds'[index'[d]].off <=> events'[d] = {}
  <2> SUFFICES ASSUME NEW d \in channels
               PROVE  /\ pollfds'[index[d]].events = events'[d]
                      /\ pollfds'[index[d]].off <=> events'[d] = {}
    BY <1>5
  <2>1. index[d] \in 1..Len(pollfds) /\ pollfds[index[d]].fd = d /\ d \in Channels
    BY DEF PollInv, IndexAgrees, TypeOK
  <2>2. CASE d = c
    BY <1>1, <1>2, <1>4, <1>5, <2>2
  <2>3. CASE d # c
    <3>1. index[d] # k
      BY <1>1, <2>1, <2>3
    <3>2. pollfds'[index[d]] = pollfds[index[d]] /\ events'[d] = events[d]
      BY <1>4, <2>1, <2>3, <3>1
    <3> QED
      BY <1>7, <3>2 DEF PollInv, IsNoneEvent
  <2> QED
    BY <2>2, <2>3
<1> QED
  BY <1>7, <1>4, <1>5, <1>6, <1>8 DEF PollInv, IsNew, IsNoneEvent, TypeOK

\* And so does the swap with the last entry in removeChannel.
LEMMA RemoveKeepsInv ==
  ASSUME TypeOK, PollInv, NEW c \in Channels, RemoveChannel(c)
  PROVE  PollInv' /\ index' \in [Channels -> Nat] /\ pollfds' \in Seq(PollFd)
<1> DEFINE k == index[c]
           n == Len(pollfds)
           d == pollfds[n].fd
<1>1. /\ n \in Nat /\ k \in 1..n
      /\ pollfds[k].fd = c
      /\ d \in channels /\ index[d] = n
      /\ \A i \in 1..n : pollfds[i] \in PollFd
  BY DEF RemoveChannel, PollInv, IndexAgrees, TypeOK
<1>2. /\ pollfds' = [i \in 1..(n - 1) |-> IF i = k THEN pollfds[n] ELSE pollfds[i]]
      /\ index' = IF k = n THEN index ELSE [index EXCEPT ![d] = k]
      /\ channels' = channels \ {c}
      /\ events' = events
      /\ events[c] = {}
      /\ enabled' = enabled
  BY DEF RemoveChannel, IsNoneEvent
<1> HIDE DEF k, n, d
<1>3. /\ n - 1 \in Nat
      /\ pollfds' \in Seq(PollFd)
      /\ Len(pollfds') = n - 1
      /\ \A i \in 1..(n - 1) :
           pollfds'[i] = IF i = k THEN pollfds[n] ELSE pollfds[i]
  BY <1>1, <1>2
<1>4. k = index[c] /\ n = Len(pollfds) /\ d = pollfds[n].fd
  BY DEF k, n, d
<1>5. index' \in [Channels -> Nat]
  BY <1>1, <1>2 DEF TypeOK
<1>6. IndexAgrees'
  BY <1>1, <1>2, <1>3, <1>4 DEF PollInv, IndexAgrees, TypeOK
<1>7. \A x \in channels' : /\ pollfds'[index'[x]].events = events'[x]
                           /\ pollfds'[index'[x]].off <=> events'[x] = {}
                           /\ x \in enabled'
  <2>1. \A x \in channels' : x \in channels /\ x # c /\ x \in enabled
    BY <1>2 DEF PollInv, RemoveChannel
  <2>2. \A x \in channels' : pollfds'[index'[x]] = pollfds[index[x]]
    BY <1>1, <1>2, <1>3, <1>4, <2>1 DEF PollInv, IndexAgrees, TypeOK
  <2> QED
    BY <1>2, <2>1, <2>2 DEF PollInv, IsNoneEvent
<1>8. \A x \in Channels : index'[x] = 0 => x \notin channels' \cup enabled'
  BY <1>1, <1>2, <1>4 DEF PollInv, IsNew, TypeOK
<1> QED
  BY <1>2, <1>3, <1>5, <1>6, <1>7, <1>8 DEF PollInv, IsNew, IsNoneEvent

-----------------------------------------------------------------------------
\* Every step keeps the entries and the indexes in agreement.
LEMMA InvInductive ==
  ASSUME ~Reenable
  PROVE  TypeOK /\ PollInv /\ [Next]_pollVars => TypeOK' /\ PollInv'
<1> SUFFICES ASSUME TypeOK, PollInv, [Next]_pollVars PROVE TypeOK' /\ PollInv'
  OBVIOUS
<1>1. ASSUME NEW c \in Channels, Change(c) PROVE TypeOK' /\ PollInv'
  <2>1. /\ events' \in [Channels -> SUBSET Events]
        /\ \A d \in Channels \ {c} : events'[d] = events[d]
    BY <1>1, ChangeEventsType DEF Change, TypeOK
  <2>2. CASE IsNew(c)
    <3>1. AddPollFd(c)
      BY <1>1, <2>2 DEF Change, UpdateChannel
    <3>2. events[c] = {}
      BY <2>2 DEF PollInv, IsNoneEvent
    <3>3. PICK b : ChangeEvents(c, b)
      BY <1>1 DEF Change
    <3>4. events'[c] # {}
      BY <3>2, <3>3, ChangedNewHasEvents, Zenon DEF TypeOK
    <3> QED
      BY <1>1, <2>1, <2>2, <3>1, <3>4, AddKeepsInv DEF Change, AddPollFd, TypeOK
  <2>3. CASE ~IsNew(c)
    <3>1. SetPollFd(c) /\ c \in channels
      BY <1>1, <2>3 DEF Change, UpdateChannel, InUse
    <3>2. PICK b : ~b /\ ChangeEvents(c, b)
      BY <1>1, <2>3 DEF Change
    <3>3. events[c] # {}
      BY <3>2, ChangedHadEvents DEF TypeOK
    <3>4. enabled' = enabled
      BY <1>1, <3>1 DEF Change, PollInv
    <3> QED
      BY <1>1, <2>1, <3>1, <3>3, <3>4, SetKeepsInv DEF Change, SetPollFd, TypeOK
  <2> QED
    BY <2>2, <2>3
<1>2. ASSUME NEW c \in Channels, BeginRemove(c) PROVE TypeOK' /\ PollInv'
  <2>1. /\ events' \in [Channels -> SUBSET Events]
        /\ \A d \in Channels \ {c} : events'[d] = events[d]
    BY <1>2, ChangeEventsType DEF BeginRemove, TypeOK
  <2>2. CASE IsNew(c)
    <3>1. AddPollFd(c) /\ events'[c] = {}
      BY <1>2, <2>2 DEF BeginRemove, UpdateChannel, DisableAll, TypeOK
    <3> QED
      BY <1>2, <2>1, <2>2, <3>1, AddKeepsInv DEF BeginRemove, AddPollFd, TypeOK
  <2>3. CASE ~IsNew(c)
    <3>1. SetPollFd(c) /\ c \in channels /\ events[c] # {}
      BY <1>2, <2>3 DEF BeginRemove, UpdateChannel, InUse, IsNoneEvent
    <3> QED
      BY <1>2, <2>1, <3>1, SetKeepsInv DEF BeginRemove, SetPollFd, TypeOK
  <2> QED
    BY <2>2, <2>3
<1>3. ASSUME NEW c \in Channels, RemoveChannel(c) PROVE TypeOK' /\ PollInv'
  BY <1>3, RemoveKeepsInv DEF RemoveChannel, TypeOK
<1>4. ASSUME NEW c \in Channels, NewChannel(c) PROVE TypeOK' /\ PollInv'
  <2>1. /\ c \notin channels
        /\ index' = [index EXCEPT ![c] = 0]
        /\ enabled' = enabled \ {c}
        /\ UNCHANGED <<events, channels, pollfds, ready, active, removing>>
    BY <1>4 DEF NewChannel, InUse
  <2>2. TypeOK'
    BY <2>1 DEF TypeOK
  <2>3. IndexAgrees'
    BY <2>1 DEF TypeOK, PollInv, IndexAgrees
  <2>4. \A d \in channels : index'[d] = index[d]
    BY <2>1 DEF TypeOK
  <2>5. \A d \in Channels : index'[d] = 0 => d \notin channels \cup enabled'
    BY <2>1, <2>4 DEF TypeOK, PollInv, IsNew
  <2>6. \A d \in channels : d \in enabled <=> d \in enabled'
    BY <2>1
  <2> QED
    BY <2>1, <2>2, <2>3, <2>4, <2>5, <2>6 DEF PollInv, IsNew, IsNoneEvent
<1>5. ASSUME NEW c \in Channels, Kernel(c) PROVE TypeOK' /\ PollInv'
  <2>1. PICK r \in Ready : ready' = [ready EXCEPT ![c] = r]
    BY <1>5 DEF Kernel
  <2>2. UNCHANGED <<events, index, channels, pollfds, active, removing, enabled>>
    BY <1>5 DEF Kernel
  <2>3. TypeOK'
    BY <2>1, <2>2 DEF TypeOK
  <2>4. PollInv'
    BY <2>2 DEF PollInv, IndexAgrees, IsNew, IsNoneEvent
  <2> QED
    BY <2>3, <2>4
<1>6. CASE Poll
  <2>1. \A i \in Pending : pollfds[i].fd \in Channels
    <3>1. \A i \in 1..Len(pollfds) : pollfds[i] \in PollFd
      BY DEF TypeOK
    <3> QED
      BY <3>1 DEF Pending, PollFd
  <2>2. active' \in SUBSET Channels
    BY <1>6, <2>1 DEF Poll
  <2> QED
    BY <1>6, <2>2 DEF Poll, TypeOK, PollInv, IndexAgrees, IsNew, IsNoneEvent
<1>7. CASE UNCHANGED pollVars
  BY <1>7 DEF pollVars, TypeOK, PollInv, IndexAgrees, IsNew, IsNoneEvent
<1> QED
  BY <1>1, <1>2, <1>3, <1>4, <1>5, <1>6, <1>7 DEF Next

\* When owners do not enable a channel again after disableAll(), index_ leads to the
\* right entry of pollfds_ after any additions and swap-with-last removals, poll(2)
\* ignores a channel without events, and the assertion of removeChannel holds for
\* every channel but one that ~Acceptor removes without having enabled it.
THEOREM EntriesAgree ==
  ASSUME ~Reenable
  PROVE  Spec => [](TypeOK /\ PollInv)
<1>1. Init => TypeOK /\ PollInv
  BY DEF Init, TypeOK, PollInv, IndexAgrees, IsNew, IsNoneEvent
<1> QED
  BY <1>1, InvInductive, PTL DEF Spec

=============================================================================
