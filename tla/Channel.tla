------------------------------ MODULE Channel -------------------------------
(***************************************************************************)
(* The interest a Channel keeps for its descriptor (src/cobra/channel.h,   *)
(* channel.cpp): events_, and the calls that change it before they pass    *)
(* the channel on to the poller.  A channel stands for its descriptor too: *)
(* each descriptor has one channel at a time.                              *)
(***************************************************************************)
CONSTANTS
  Channels,
  Reenable    \* do owners enable a channel again after disableAll()?

ASSUME ReenableAssumption == Reenable \in BOOLEAN

Events == {"read", "write"}

VARIABLE events   \* events_ of each channel

\* enableReading, enableWriting, disableWriting, disableAll: channel.h 64-86.
EnableReading(c) == events' = [events EXCEPT ![c] = @ \cup {"read"}]
EnableWriting(c) == events' = [events EXCEPT ![c] = @ \cup {"write"}]
DisableWriting(c) == events' = [events EXCEPT ![c] = @ \ {"write"}]
DisableAll(c) == events' = [events EXCEPT ![c] = {}]

IsNoneEvent(c) == events[c] = {}

\* The changes the owners of channels make.  The Connector and TcpConnection disable
\* writing only when isWriting() and disableAll() only a channel that is enabled;
\* unless Reenable, none of them enables it once more.  ~Acceptor, which does
\* disableAll() and remove() on any channel, is BeginRemove of the pollers.
ChangeEvents(c, isNew) ==
  \/ /\ isNew \/ ~IsNoneEvent(c) \/ Reenable
     /\ EnableReading(c) \/ EnableWriting(c)
  \/ "write" \in events[c] /\ DisableWriting(c)
  \/ ~IsNoneEvent(c) /\ DisableAll(c)

=============================================================================
