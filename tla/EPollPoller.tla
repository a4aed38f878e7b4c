----------------------------- MODULE EPollPoller ----------------------------
(***************************************************************************)
(* The default poller (src/cobra/poller/epoll_poller.cpp) under the calls  *)
(* of its channels, with the part of epoll(7) it uses.                     *)
(***************************************************************************)
EXTENDS Channel, Integers, FiniteSets

CONSTANTS
  InitEventListSize,  \* kInitEventListSize
  Ready               \* the states of a descriptor the kernel may report

kNew == -1
kAdded == 1
kDeleted == 2

VARIABLES
  index,       \* index_ of each channel: kNew, kAdded or kDeleted
  channels,    \* the keys of channels_
  epollSet,    \* kernel: the descriptors in the epoll instance ...
  epollMask,   \* kernel: ... and the events it watches for each
  ready,       \* kernel: the state of each descriptor
  listSize,    \* events_.size()
  active,      \* what the last poll() put into activeChannels
  removing     \* the channel an owner has disabled and is about to remove

kernelVars == <<epollSet, epollMask>>
epollVars == <<events, index, channels, kernelVars, ready, listSize, active,
               removing>>

ASSUME EPollAssumption ==
  /\ InitEventListSize \in Nat \ {0}
  /\ Ready \subseteq SUBSET (Events \cup {"hangup"})

TypeOK ==
  /\ events \in [Channels -> SUBSET Events]
  /\ index \in [Channels -> {kNew, kAdded, kDeleted}]
  /\ channels \in SUBSET Channels
  /\ epollSet \in SUBSET Channels
  /\ epollMask \in [Channels -> SUBSET Events]
  /\ ready \in [Channels -> Ready \cup {{}}]
  /\ listSize \in Nat \ {0}
  /\ active \in SUBSET Channels
  /\ removing \in SUBSET Channels

Init ==
  /\ events = [c \in Channels |-> {}]
  /\ index = [c \in Channels |-> kNew]
  /\ channels = {}
  /\ epollSet = {}
  /\ epollMask = [c \in Channels |-> {}]
  /\ ready = [c \in Channels |-> {}]
  /\ listSize = InitEventListSize
  /\ active = {}
  /\ removing = {}

-----------------------------------------------------------------------------
(* update(operation, channel), epoll_poller.cpp 160-178: epoll_ctl.  An ADD  *)
(* of a descriptor that is there, or a MOD or DEL of one that is not, fails *)
(* and changes nothing; IndexAgrees implies that it never happens.          *)
update(operation, c) ==
  CASE operation = "ADD" /\ c \notin epollSet ->
         /\ epollSet' = epollSet \cup {c}
         /\ epollMask' = [epollMask EXCEPT ![c] = events'[c]]
    [] operation = "MOD" /\ c \in epollSet ->
         /\ epollMask' = [epollMask EXCEPT ![c] = events'[c]]
         /\ UNCHANGED epollSet
    [] operation = "DEL" /\ c \in epollSet ->
         /\ epollSet' = epollSet \ {c}
         /\ UNCHANGED epollMask
    [] OTHER -> UNCHANGED kernelVars

\* Mutant of UpdateChannel: a known channel is added once more.
UpdateChannelAdds(c) ==
  /\ channels' = channels \cup {c}
  /\ index' = [index EXCEPT ![c] = IF events'[c] = {} THEN kDeleted ELSE kAdded]
  /\ update(IF events'[c] = {} THEN "DEL" ELSE "ADD", c)

\* UpdateChannel, 98-137, with events_ already changed.
UpdateChannel(c) ==
  \/ /\ index[c] \in {kNew, kDeleted}
     /\ channels' = channels \cup {c}
     /\ index' = [index EXCEPT ![c] = kAdded]
     /\ update("ADD", c)
  \/ /\ index[c] = kAdded
     /\ UNCHANGED channels
     /\ IF events'[c] = {}
        THEN update("DEL", c) /\ index' = [index EXCEPT ![c] = kDeleted]
        ELSE update("MOD", c) /\ UNCHANGED index

\* An owner enables or disables the channel.
Change(c) ==
  /\ removing = {}
  /\ ChangeEvents(c, index[c] = kNew)
  /\ UpdateChannel(c)
  /\ UNCHANGED <<ready, listSize, active, removing>>

\* An owner disables and removes a channel in one go, as ~Acceptor does even
\* when Listen() was never called: first disableAll() ...
BeginRemove(c) ==
  /\ removing = {}
  /\ index[c] = kNew \/ ~IsNoneEvent(c)
  /\ DisableAll(c)
  /\ UpdateChannel(c)
  /\ removing' = {c}
  /\ UNCHANGED <<ready, listSize, active>>

\* Mutant of RemoveChannel: index_ keeps its value.
RemoveChannelKeepsIndex(c) ==
  /\ removing \subseteq {c}
  /\ c \in channels /\ IsNoneEvent(c)
  /\ channels' = channels \ {c}
  /\ UNCHANGED events
  /\ IF index[c] = kAdded THEN update("DEL", c) ELSE UNCHANGED kernelVars
  /\ removing' = {}
  /\ UNCHANGED <<index, ready, listSize, active>>

\* ... then remove().  removeChannel, 139-158.
RemoveChannel(c) ==
  /\ removing \subseteq {c}
  /\ c \in channels /\ IsNoneEvent(c)
  /\ channels' = channels \ {c}
  /\ UNCHANGED events
  /\ IF index[c] = kAdded THEN update("DEL", c) ELSE UNCHANGED kernelVars
  /\ index' = [index EXCEPT ![c] = kNew]
  /\ removing' = {}
  /\ UNCHANGED <<ready, listSize, active>>

\* What epoll_wait has to report.
Pending == {c \in epollSet : ready[c] \cap (epollMask[c] \cup {"hangup"}) # {}}

\* Mutant of Grow: events_ keeps its size.
GrowNever(numEvents) == listSize

\* events_ is doubled when a wait has filled it.
Grow(numEvents) == IF numEvents = listSize THEN 2 * listSize ELSE listSize

\* poll, 47-78, and fillActiveChannels, 80-96: as many as events_ has room for.
Poll ==
  /\ removing = {}
  /\ Pending # {}
  /\ \E A \in SUBSET Pending :
       /\ Cardinality(A) =
            IF Cardinality(Pending) < listSize THEN Cardinality(Pending)
                                               ELSE listSize
       /\ active' = A
       /\ listSize' = Grow(Cardinality(A))
  /\ UNCHANGED <<events, index, channels, kernelVars, ready, removing>>

\* poll with no event: the time is up, or EINTR.
PollNothing ==
  /\ removing = {}
  /\ active' = {}
  /\ UNCHANGED <<events, index, channels, kernelVars, ready, listSize, removing>>

\* The kernel: a descriptor's state changes.
Kernel(c) ==
  /\ ready' \in {[ready EXCEPT ![c] = r] : r \in Ready}
  /\ UNCHANGED <<events, index, channels, kernelVars, listSize, active, removing>>

Next ==
  \/ \E c \in Channels : Change(c) \/ BeginRemove(c) \/ RemoveChannel(c)
  \/ Poll
  \/ PollNothing
  \/ \E c \in Channels : Kernel(c)

\* One thread runs the loop and the owners' calls: between two polls it makes
\* finitely many calls, and finishes the removals it begins, so a poll() that
\* has something to report comes up again and again and is taken.
Fairness ==
  /\ SF_epollVars(Poll)
  /\ \A c \in Channels : WF_epollVars(removing = {c} /\ RemoveChannel(c))

Spec == Init /\ [][Next]_epollVars /\ Fairness

-----------------------------------------------------------------------------
(* Properties.                                                             *)

\* What the assertions of UpdateChannel, removeChannel and fillActiveChannels
\* say, and no epoll_ctl fails: index_ tells whether the channel is in
\* channels_ and its descriptor in the epoll instance, on every path.
IndexAgrees ==
  \A c \in Channels :
    /\ index[c] = kNew <=> c \notin channels
    /\ index[c] = kAdded <=> c \in epollSet

\* A channel without events is in the epoll instance only while it is being
\* removed: the kernel cannot report a hangup for it in between.
NoneEventIsSilent ==
  \A c \in Channels : c \in epollSet /\ IsNoneEvent(c) => removing = {c}

\* The events watched are the events asked for, after every call.
MaskAgrees ==
  \A c \in epollSet : epollMask[c] = events[c]

EPollInv == IndexAgrees /\ NoneEventIsSilent /\ MaskAgrees
  /\ \A c \in Channels : ~IsNoneEvent(c) => c \in epollSet

\* EPollPoller keeps the promise of Poller.
Abstract == INSTANCE Poller WITH
  interest <- [c \in Channels |-> IF c \in epollSet THEN epollMask[c] ELSE {}]

PollerSpec == Abstract!Spec

\* No descriptor starves behind others when more are ready than events_ has
\* room for: the list grows until poll() reports them all.
NoStarvation ==
  \A c \in Channels : (c \in Pending) ~> (c \in active \/ c \notin Pending)

=============================================================================
