----------------------------- MODULE PollPoller -----------------------------
(***************************************************************************)
(* The poller chosen by COBRA_USE_POLL (src/cobra/poller/poll_poller.cpp)  *)
(* under the calls of its channels, with the part of poll(2) it uses.      *)
(*                                                                         *)
(* pollfds_ is a sequence counted from 1 here, and index_ follows it: a    *)
(* new channel has index 0 where the code has -1.  A negated descriptor    *)
(* -fd - 1, which poll(2) ignores, is the flag "off" of its entry.         *)
(***************************************************************************)
EXTENDS Channel, Naturals, Sequences

CONSTANT Ready   \* the states of a descriptor the kernel may report

ASSUME PollAssumption == Ready \subseteq SUBSET (Events \cup {"hangup"})

VARIABLES
  index,      \* index_ of each channel
  channels,   \* the keys of channels_
  pollfds,    \* pollfds_: the entries handed to poll(2)
  ready,      \* kernel: the state of each descriptor
  active,     \* what the last poll() put into activeChannels
  removing,   \* the channel an owner has disabled and is about to remove
  enabled     \* history: the channels that have been enabled since they are new

pollVars == <<events, index, channels, pollfds, ready, active, removing, enabled>>

PollFd == [fd : Channels, off : BOOLEAN, events : SUBSET Events]

TypeOK ==
  /\ events \in [Channels -> SUBSET Events]
  /\ index \in [Channels -> Nat]
  /\ channels \in SUBSET Channels
  /\ pollfds \in Seq(PollFd)
  /\ ready \in [Channels -> Ready \cup {{}}]
  /\ active \in SUBSET Channels
  /\ removing \in SUBSET Channels
  /\ enabled \in SUBSET Channels

Init ==
  /\ events = [c \in Channels |-> {}]
  /\ index = [c \in Channels |-> 0]
  /\ channels = {}
  /\ pollfds = <<>>
  /\ ready = [c \in Channels |-> {}]
  /\ active = {}
  /\ removing = {}
  /\ enabled = {}

-----------------------------------------------------------------------------
IsNew(c) == index[c] = 0

\* UpdateChannel, poll_poller.cpp 53-83: a new channel is appended ...
AddPollFd(c) ==
  /\ pollfds' = Append(pollfds, [fd |-> c, off |-> FALSE, events |-> events'[c]])
  /\ index' = [index EXCEPT ![c] = Len(pollfds) + 1]
  /\ channels' = channels \cup {c}

\* Mutant of SetPollFd: the events are not handed on.
SetPollFdKeepsEvents(c) ==
  /\ pollfds' = [pollfds EXCEPT ![index[c]].off = @ \/ events'[c] = {}]
  /\ UNCHANGED <<index, channels>>

\* ... and the entry of a known one rewritten: without events its descriptor
\* is negated, and nothing turns it back.
SetPollFd(c) ==
  LET pfd == pollfds[index[c]] IN
  /\ pollfds' = [pollfds EXCEPT
       ![index[c]] = [fd |-> pfd.fd,
                      off |-> (pfd.off \/ events'[c] = {}),
                      events |-> events'[c]]]
  /\ UNCHANGED <<index, channels>>

UpdateChannel(c) == IF IsNew(c) THEN AddPollFd(c) ELSE SetPollFd(c)

\* A channel that was removed is not used again (a later descriptor of the
\* same number gets a new Channel).
InUse(c) == IsNew(c) \/ c \in channels

Change(c) ==
  /\ removing = {} /\ InUse(c)
  /\ ChangeEvents(c, IsNew(c))
  /\ UpdateChannel(c)
  /\ enabled' = IF events'[c] = {} THEN enabled ELSE enabled \cup {c}
  /\ UNCHANGED <<ready, active, removing>>

\* An owner disables and removes a channel in one go, as ~Acceptor does even
\* when Listen() was never called: first disableAll() ...
BeginRemove(c) ==
  /\ removing = {} /\ InUse(c)
  /\ IsNew(c) \/ ~IsNoneEvent(c)
  /\ DisableAll(c)
  /\ UpdateChannel(c)
  /\ removing' = {c}
  /\ UNCHANGED <<ready, active, enabled>>

\* Mutant of RemoveChannel: index_ of the channel that moves is not updated.
RemoveChannelKeepsIndex(c) ==
  LET n == Len(pollfds) - 1 IN
  /\ removing \subseteq {c}
  /\ c \in channels /\ IsNoneEvent(c)
  /\ channels' = channels \ {c}
  /\ pollfds' = [i \in 1..n |-> IF i = index[c] THEN pollfds[n + 1]
                                               ELSE pollfds[i]]
  /\ removing' = {}
  /\ UNCHANGED <<events, index, ready, active, enabled>>

\* ... then remove().  removeChannel, 85-112: the last entry takes the place of
\* the one removed, and index_ of its channel follows.  Where the assertion of line
\* 94 fails (see PollInv) this is what a build without assertions does.
RemoveChannel(c) ==
  LET idx == index[c]
      last == pollfds[Len(pollfds)]
      n == Len(pollfds) - 1
  IN
  /\ removing \subseteq {c}
  /\ c \in channels /\ IsNoneEvent(c)
  /\ channels' = channels \ {c}
  /\ pollfds' = [i \in 1..n |-> IF i = idx THEN last ELSE pollfds[i]]
  /\ index' = IF idx = Len(pollfds) THEN index
                                    ELSE [index EXCEPT ![last.fd] = idx]
  /\ removing' = {}
  /\ UNCHANGED <<events, ready, active, enabled>>

\* The removed Channel is destroyed; the next one for this descriptor is new.
NewChannel(c) ==
  /\ removing = {} /\ ~InUse(c)
  /\ index' = [index EXCEPT ![c] = 0]
  /\ enabled' = enabled \ {c}
  /\ UNCHANGED <<events, channels, pollfds, ready, active, removing>>

\* The entries in which poll(2) sets revents.
Pending ==
  {i \in 1..Len(pollfds) :
     /\ ~pollfds[i].off
     /\ ready[pollfds[i].fd] \cap (pollfds[i].events \cup {"hangup"}) # {}}

\* poll, 19-37, and fillActiveChannels, 39-51: the channels of all the pending
\* entries, or none on EINTR; none is pending on a timeout.
Poll ==
  /\ removing = {}
  /\ active' \in {{pollfds[i].fd : i \in Pending}, {}}
  /\ UNCHANGED <<events, index, channels, pollfds, ready, removing, enabled>>

\* The kernel: a descriptor's state changes.
Kernel(c) ==
  /\ ready' \in {[ready EXCEPT ![c] = r] : r \in Ready}
  /\ UNCHANGED <<events, index, channels, pollfds, active, removing, enabled>>

Next ==
  \/ \E c \in Channels :
       \/ Change(c)
       \/ BeginRemove(c)
       \/ RemoveChannel(c)
       \/ NewChannel(c)
       \/ Kernel(c)
  \/ Poll

Spec == Init /\ [][Next]_pollVars

-----------------------------------------------------------------------------
(* Properties.                                                             *)

\* The assertions of UpdateChannel, and what fillActiveChannels relies on: the
\* index_ of every known channel points to its own entry, and each entry is
\* one of theirs, after any sequence of additions and swap-with-last removals.
IndexAgrees ==
  /\ \A c \in channels :
       index[c] \in 1..Len(pollfds) /\ pollfds[index[c]].fd = c
  /\ \A i \in 1..Len(pollfds) :
       pollfds[i].fd \in channels /\ index[pollfds[i].fd] = i

\* The inductive form, with the assertion of removeChannel (line 94): the entry of
\* each known channel holds its events, and the descriptor of one that was ever
\* enabled is negated exactly when it is disabled, so that the assertion holds.  A
\* channel that was never enabled is there only while ~Acceptor removes it; its
\* descriptor is not negated, for UpdateChannel only appends it, and so the
\* assertion fails in that one case.
PollInv ==
  /\ IndexAgrees
  /\ \A c \in Channels : c \notin channels => IsNoneEvent(c)
  /\ \A c \in channels : pollfds[index[c]].events = events[c]
  /\ \A c \in channels :
       pollfds[index[c]].off <=> IsNoneEvent(c) /\ c \in enabled
  /\ \A c \in channels \ enabled : IsNoneEvent(c) /\ removing = {c}
  /\ \A c \in Channels : IsNew(c) => c \notin channels \cup enabled

\* PollPoller keeps the promise of Poller (UpdateChannel "Changes the interested
\* I/O events", poller.h 34).
Watched(c) ==
  IF c \in channels /\ ~pollfds[index[c]].off THEN pollfds[index[c]].events
                                              ELSE {}

Abstract == INSTANCE Poller WITH interest <- [c \in Channels |-> Watched(c)]

PollerSpec == Abstract!Spec

=============================================================================
