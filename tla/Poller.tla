------------------------------- MODULE Poller -------------------------------
(***************************************************************************)
(* What a Poller promises (src/cobra/poller.h): it watches, for every      *)
(* channel, exactly the events the channel asked for last, and poll()      *)
(* reports channels that have one of them, or a hangup or an error, and    *)
(* never a channel that asked for nothing.                                 *)
(***************************************************************************)
CONSTANTS Channels, Events

VARIABLES
  events,     \* the events each channel asked for last (its events_)
  interest,   \* the events the kernel is told to watch for it
  ready,      \* the state of the descriptors: events, or "hangup"
  active      \* the channels the last poll() reported

pollerVars == <<events, interest, ready, active>>

Reportable(c) ==
  /\ interest[c] # {}
  /\ ready[c] \cap (interest[c] \cup {"hangup"}) # {}

Init ==
  /\ events = [c \in Channels |-> {}]
  /\ interest = [c \in Channels |-> {}]
  /\ ready = [c \in Channels |-> {}]
  /\ active = {}

UpdateChannel(c, ev) ==
  /\ events' = [events EXCEPT ![c] = ev]
  /\ interest' = [interest EXCEPT ![c] = ev]
  /\ UNCHANGED <<ready, active>>

RemoveChannel(c) ==
  /\ interest' = [interest EXCEPT ![c] = {}]
  /\ UNCHANGED <<events, ready, active>>

Poll ==
  /\ active' \in SUBSET {c \in Channels : Reportable(c)}
  /\ UNCHANGED <<events, interest, ready>>

Kernel(c, r) ==
  /\ ready' = [ready EXCEPT ![c] = r]
  /\ UNCHANGED <<events, interest, active>>

Next ==
  \E c \in Channels :
    \/ \E ev \in SUBSET Events : UpdateChannel(c, ev)
    \/ RemoveChannel(c)
    \/ Poll
    \/ \E r \in SUBSET (Events \cup {"hangup"}) : Kernel(c, r)

Spec == Init /\ [][Next]_pollerVars

=============================================================================
