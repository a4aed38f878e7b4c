-------------------------- MODULE EPollPollerProofs -------------------------
(***************************************************************************)
(* Proofs about EPollPoller, for any set of channels and any length of the *)
(* event list: its bookkeeping agrees with the kernel's, and it keeps the  *)
(* promise of Poller.                                                      *)
(***************************************************************************)
EXTENDS EPollPoller, TLAPS

\* The channel calls only make sets of events.
LEMMA ChangeEventsType ==
  ASSUME events \in [Channels -> SUBSET Events], NEW c \in Channels, NEW b,
         ChangeEvents(c, b) \/ DisableAll(c)
  PROVE  /\ events' \in [Channels -> SUBSET Events]
         /\ \A d \in Channels \ {c} : events'[d] = events[d]
  BY DEF ChangeEvents, EnableReading, EnableWriting, DisableWriting, DisableAll,
         Events, IsNoneEvent

\* disableAll() leaves no event, and no other call an owner makes on a channel
\* in kDeleted or kNew does.
LEMMA DisableAllEvents ==
  ASSUME events \in [Channels -> SUBSET Events], NEW c \in Channels, DisableAll(c)
  PROVE  events'[c] = {}
  BY DEF DisableAll

\* What an owner's call on a channel without events does: it enables it.
LEMMA EnableFromNone ==
  ASSUME events \in [Channels -> SUBSET Events], NEW c \in Channels, NEW b,
         events[c] = {}, ChangeEvents(c, b)
  PROVE  events'[c] # {}
  BY DEF ChangeEvents, EnableReading, EnableWriting, DisableWriting, DisableAll,
         IsNoneEvent

\* What epoll_ctl does to the epoll instance when it succeeds.
LEMMA UpdateEffect ==
  ASSUME NEW c
  PROVE  /\ update("ADD", c) /\ c \notin epollSet =>
              /\ epollSet' = epollSet \cup {c}
              /\ epollMask' = [epollMask EXCEPT ![c] = events'[c]]
         /\ update("MOD", c) /\ c \in epollSet =>
              /\ epollSet' = epollSet
              /\ epollMask' = [epollMask EXCEPT ![c] = events'[c]]
         /\ update("DEL", c) /\ c \in epollSet =>
              /\ epollSet' = epollSet \ {c}
              /\ epollMask' = epollMask
  BY DEF update

\* UpdateChannel in the three states of index_, given that it agrees with the
\* epoll instance: the three transitions of 102-135.
LEMMA UpdateChannelEffect ==
  ASSUME TypeOK, EPollInv, NEW c \in Channels, UpdateChannel(c)
  PROVE  \/ /\ c \notin epollSet
            /\ channels' = channels \cup {c}
            /\ index' = [index EXCEPT ![c] = kAdded]
            /\ epollSet' = epollSet \cup {c}
            /\ epollMask' = [epollMask EXCEPT ![c] = events'[c]]
         \/ /\ c \in epollSet /\ c \in channels
            /\ channels' = channels
            /\ events'[c] = {}
            /\ index' = [index EXCEPT ![c] = kDeleted]
            /\ epollSet' = epollSet \ {c}
            /\ epollMask' = epollMask
         \/ /\ c \in epollSet /\ c \in channels
            /\ channels' = channels
            /\ events'[c] # {}
            /\ index' = index
            /\ epollSet' = epollSet
            /\ epollMask' = [epollMask EXCEPT ![c] = events'[c]]
<1>0. /\ index[c] \in {kNew, kAdded, kDeleted}
      /\ kNew # kAdded /\ kNew # kDeleted /\ kAdded # kDeleted
      /\ index[c] = kNew <=> c \notin channels
      /\ index[c] = kAdded <=> c \in epollSet
  BY DEF TypeOK, EPollInv, IndexAgrees, kNew, kAdded, kDeleted
<1>1. CASE index[c] \in {kNew, kDeleted}
  <2>1. update("ADD", c) /\ c \notin epollSet
    BY <1>0, <1>1 DEF UpdateChannel
  <2> QED
    BY <1>0, <1>1, <2>1, UpdateEffect DEF UpdateChannel
<1>2. CASE index[c] = kAdded /\ events'[c] = {}
  <2>1. update("DEL", c) /\ c \in epollSet
    BY <1>0, <1>2 DEF UpdateChannel
  <2> QED
    BY <1>0, <1>2, <2>1, UpdateEffect DEF UpdateChannel
<1>3. CASE index[c] = kAdded /\ events'[c] # {}
  <2>1. update("MOD", c) /\ c \in epollSet
    BY <1>0, <1>3 DEF UpdateChannel
  <2> QED
    BY <1>0, <1>3, <2>1, UpdateEffect DEF UpdateChannel
<1> QED
  BY <1>0, <1>1, <1>2, <1>3

\* RemoveChannel: the channel leaves the map, and the epoll instance too.
LEMMA RemoveChannelEffect ==
  ASSUME TypeOK, EPollInv, NEW c \in Channels, RemoveChannel(c)
  PROVE  /\ channels' = channels \ {c}
         /\ index' = [index EXCEPT ![c] = kNew]
         /\ epollSet' = epollSet \ {c}
         /\ epollMask' = epollMask
         /\ events' = events
         /\ events[c] = {}
<1>1. CASE index[c] = kAdded
  <2>1. update("DEL", c) /\ c \in epollSet
    BY <1>1 DEF RemoveChannel, EPollInv, IndexAgrees
  <2> QED
    BY <2>1, UpdateEffect DEF RemoveChannel, IsNoneEvent
<1>2. CASE index[c] # kAdded
  BY <1>2 DEF RemoveChannel, EPollInv, IndexAgrees, kernelVars, IsNoneEvent
<1> QED
  BY <1>1, <1>2

-----------------------------------------------------------------------------
\* Every step keeps the state in its type.
LEMMA TypeInductive == TypeOK /\ EPollInv /\ [Next]_epollVars => TypeOK'
<1> SUFFICES ASSUME TypeOK, EPollInv, [Next]_epollVars PROVE TypeOK'
  OBVIOUS
<1> USE DEF TypeOK
<1>1. ASSUME NEW c \in Channels, Change(c) \/ BeginRemove(c) PROVE TypeOK'
  <2>1. events' \in [Channels -> SUBSET Events]
    BY <1>1, ChangeEventsType DEF Change, BeginRemove
  <2>2. UpdateChannel(c)
    BY <1>1 DEF Change, BeginRemove
  <2>3. /\ index' \in [Channels -> {kNew, kAdded, kDeleted}]
        /\ channels' \in SUBSET Channels
        /\ epollSet' \in SUBSET Channels
        /\ epollMask' \in [Channels -> SUBSET Events]
    BY <2>1, <2>2, UpdateChannelEffect
  <2> QED
    BY <1>1, <2>1, <2>3 DEF Change, BeginRemove
<1>2. ASSUME NEW c \in Channels, RemoveChannel(c) PROVE TypeOK'
  BY <1>2, RemoveChannelEffect DEF RemoveChannel
<1>3. CASE Poll
  <2>1. active' \in SUBSET Channels
    BY <1>3 DEF Poll, Pending
  <2>2. listSize' \in Nat \ {0}
    BY <1>3 DEF Poll, Grow
  <2> QED
    BY <1>3, <2>1, <2>2 DEF Poll, kernelVars
<1>4. CASE PollNothing
  BY <1>4 DEF PollNothing, kernelVars
<1>5. ASSUME NEW c \in Channels, Kernel(c) PROVE TypeOK'
  BY <1>5 DEF Kernel, kernelVars
<1>6. CASE UNCHANGED epollVars
  BY <1>6 DEF epollVars, kernelVars
<1> QED
  BY <1>1, <1>2, <1>3, <1>4, <1>5, <1>6 DEF Next

\* Every step keeps index_, channels_ and the epoll instance in agreement.
LEMMA InvInductive == TypeOK /\ EPollInv /\ [Next]_epollVars => EPollInv'
<1> SUFFICES ASSUME TypeOK, EPollInv, [Next]_epollVars PROVE EPollInv'
  OBVIOUS
<1> USE DEF EPollInv, IndexAgrees, NoneEventIsSilent, MaskAgrees, IsNoneEvent
<1>0. kNew # kAdded /\ kNew # kDeleted /\ kAdded # kDeleted
  BY DEF kNew, kAdded, kDeleted
<1>1. ASSUME NEW c \in Channels, Change(c) PROVE EPollInv'
  <2>1. /\ events' \in [Channels -> SUBSET Events]
        /\ \A d \in Channels \ {c} : events'[d] = events[d]
    BY <1>1, ChangeEventsType DEF Change, TypeOK
  <2>2. c \notin epollSet => events'[c] # {}
    BY <1>1, EnableFromNone DEF Change, TypeOK
  <2>3. UpdateChannel(c) /\ removing' = removing
    BY <1>1 DEF Change
  <2> QED
    BY <1>0, <2>1, <2>2, <2>3, UpdateChannelEffect DEF TypeOK
<1>2. ASSUME NEW c \in Channels, BeginRemove(c) PROVE EPollInv'
  <2>1. /\ events' \in [Channels -> SUBSET Events]
        /\ \A d \in Channels \ {c} : events'[d] = events[d]
        /\ events'[c] = {}
    BY <1>2, ChangeEventsType, DisableAllEvents DEF BeginRemove, TypeOK
  <2>2. UpdateChannel(c) /\ removing' = {c} /\ removing = {}
    BY <1>2 DEF BeginRemove
  <2> QED
    BY <1>0, <2>1, <2>2, UpdateChannelEffect DEF TypeOK
<1>3. ASSUME NEW c \in Channels, RemoveChannel(c) PROVE EPollInv'
  <2>1. removing \subseteq {c} /\ removing' = {}
    BY <1>3 DEF RemoveChannel
  <2>2. /\ channels' = channels \ {c}
        /\ index' = [index EXCEPT ![c] = kNew]
        /\ epollSet' = epollSet \ {c}
        /\ epollMask' = epollMask /\ events' = events /\ events[c] = {}
    BY <1>3, RemoveChannelEffect
  <2>3. index'[c] = kNew /\ \A d \in Channels \ {c} : index'[d] = index[d]
    BY <2>2 DEF TypeOK
  <2>4. IndexAgrees'
    BY <1>0, <2>2, <2>3
  <2>5. NoneEventIsSilent' /\ MaskAgrees'
    BY <2>1, <2>2
  <2>6. (\A d \in Channels : ~IsNoneEvent(d) => d \in epollSet)'
    BY <2>2
  <2> QED
    BY <2>4, <2>5, <2>6
<1>4. CASE Poll \/ PollNothing \/ \E c \in Channels : Kernel(c)
  BY <1>4 DEF Poll, PollNothing, Kernel, kernelVars
<1>5. CASE UNCHANGED epollVars
  BY <1>5 DEF epollVars, kernelVars
<1> QED
  BY <1>1, <1>2, <1>3, <1>4, <1>5 DEF Next

\* The bookkeeping of EPollPoller agrees with the epoll instance, in every
\* reachable state: no assertion of epoll_poller.cpp fails, no epoll_ctl does.
THEOREM BookkeepingAgrees == Spec => [](TypeOK /\ EPollInv)
<1>1. Init => TypeOK /\ EPollInv
  BY EPollAssumption
  DEF Init, TypeOK, EPollInv, IndexAgrees, NoneEventIsSilent, MaskAgrees,
      IsNoneEvent, kNew, kAdded, kDeleted
<1> QED
  BY <1>1, TypeInductive, InvInductive, PTL DEF Spec

-----------------------------------------------------------------------------
(* EPollPoller implements Poller.                                          *)

Interest == [c \in Channels |-> IF c \in epollSet THEN epollMask[c] ELSE {}]

\* The kernel watches exactly what the channels asked for.
LEMMA InterestIsEvents == TypeOK /\ EPollInv => Interest = events
  BY DEF TypeOK, EPollInv, MaskAgrees, IsNoneEvent, Interest

\* Every step of EPollPoller is a step of Poller, or changes nothing there.
LEMMA StepImplements ==
  TypeOK /\ EPollInv /\ TypeOK' /\ EPollInv' /\ [Next]_epollVars
    => [Abstract!Next]_(Abstract!pollerVars)
<1> SUFFICES ASSUME TypeOK, EPollInv, TypeOK', EPollInv', [Next]_epollVars
             PROVE  Abstract!Next \/ UNCHANGED Abstract!pollerVars
  OBVIOUS
<1>0. Interest = events /\ Interest' = events'
  <2>1. (TypeOK /\ EPollInv => Interest = events)'
    BY InterestIsEvents, PTL
  <2> QED
    BY <2>1, InterestIsEvents
<1> USE DEF Abstract!pollerVars
<1>1. ASSUME NEW c \in Channels, Change(c) \/ BeginRemove(c)
      PROVE  Abstract!Next
  <2>1. /\ events' = [events EXCEPT ![c] = events'[c]]
        /\ events'[c] \in SUBSET Events
        /\ UNCHANGED <<ready, active>>
    BY <1>1, ChangeEventsType DEF Change, BeginRemove, TypeOK
  <2>2. PICK ev \in SUBSET Events : ev = events'[c]
    BY <2>1
  <2>3. Abstract!UpdateChannel(c, ev)
    BY <1>0, <2>1, <2>2 DEF Abstract!UpdateChannel, Interest
  <2> QED
    BY <2>3 DEF Abstract!Next
<1>2. ASSUME NEW c \in Channels, RemoveChannel(c)
      PROVE  UNCHANGED Abstract!pollerVars
  BY <1>0, <1>2 DEF RemoveChannel, Interest
<1>3. CASE Poll
  <2>1. removing = {} /\ active' \in SUBSET Pending
    BY <1>3 DEF Poll
  <2>2. Pending \subseteq {c \in Channels : Abstract!Reportable(c)}
    BY <1>0, <2>1
    DEF Pending, Abstract!Reportable, Interest, EPollInv, NoneEventIsSilent,
        MaskAgrees, IsNoneEvent, TypeOK
  <2>3. Abstract!Poll
    BY <1>3, <2>1, <2>2 DEF Poll, Abstract!Poll, kernelVars
  <2>4. CASE Channels = {}
    BY <1>3, <2>1, <2>4 DEF Poll, kernelVars, TypeOK, Pending
  <2> QED
    BY <2>3, <2>4 DEF Abstract!Next
<1>4. CASE PollNothing
  <2>1. Abstract!Poll
    BY <1>4 DEF PollNothing, Abstract!Poll, kernelVars
  <2>2. CASE Channels = {}
    BY <1>4, <2>2 DEF PollNothing, kernelVars, TypeOK
  <2> QED
    BY <2>1, <2>2 DEF Abstract!Next
<1>5. ASSUME NEW c \in Channels, Kernel(c) PROVE Abstract!Next
  <2>1. PICK r \in Ready : ready' = [ready EXCEPT ![c] = r]
    BY <1>5 DEF Kernel
  <2>2. r \in SUBSET (Events \cup {"hangup"})
    BY EPollAssumption
  <2>3. Abstract!Kernel(c, r)
    BY <1>5, <2>1 DEF Kernel, Abstract!Kernel, kernelVars
  <2> QED
    BY <2>2, <2>3 DEF Abstract!Next
<1>6. CASE UNCHANGED epollVars
  BY <1>6 DEF epollVars, kernelVars
<1> QED
  BY <1>1, <1>2, <1>3, <1>4, <1>5, <1>6 DEF Next

\* The default poller watches for every channel exactly the events it asked for
\* last, and reports no channel that asked for nothing.
THEOREM ImplementsPoller == Spec => PollerSpec
<1>1. Init => Abstract!Init
  BY DEF Init, Abstract!Init
<1> QED
  BY <1>1, StepImplements, BookkeepingAgrees, PTL DEF Spec, PollerSpec, Abstract!Spec

=============================================================================
