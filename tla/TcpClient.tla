----------------------------- MODULE TcpClient -----------------------------
(***************************************************************************)
(* A TcpClient (src/cobra/tcp_client.cpp) with its Connector, its loop and *)
(* a user who calls connect(), disconnect() and stop() from another        *)
(* thread, in any order and again and again.  Every store of the user's    *)
(* calls is a step of its own: connect_ of the client, connect_ of the     *)
(* Connector and the functor that is queued.                               *)
(*                                                                         *)
(* An iteration of the loop is Worker's: what poll() reports, then the     *)
(* functors that were queued before they began.  A handler of the loop is  *)
(* split where it has tested a connect_ and then does what the user's      *)
(* thread can see: new_conn_cb_ of handleWrite, and restart().  What the   *)
(* other handlers do after the test is the loop's own.  Of a TcpConnection *)
(* there is what TcpClient depends on; the client outlives its loop.       *)
(***************************************************************************)
EXTENDS Connector, FiniteSets

CONSTANTS
  MaxConnections,   \* bound: of nextConnId_
  MaxCalls          \* bound: of the calls of the user

VARIABLES
  connector,    \* connector_, with its loop's pendingFunctors_
  connect_,     \* connect_ of the client
  retry_,       \* retry_: whether enableRetry() was called
  connection,   \* connection_: the number of the TcpConnection, 0 is null
  nextConnId,   \* nextConnId_
  up,           \* the connections that are established and not closed
  shut,         \* those of them that shutdown() was called on
  phase,        \* "poll", "events", "functors"; "deliver" in handleWrite before
                \* new_conn_cb_, "restart" in removeConnection before restart()
  active,       \* what poll() reported: "handshake", "timer" or a connection
  batch,        \* functors of doPendingFunctors
  user,         \* where the user's thread is
  calls,        \* how many calls it has made
  \* history
  stopped,      \* stop() has cleared connect_ of the Connector
  lost,         \* what the loop does in spite of it, past its test: "deliver", "restart"
  hasty         \* connect() was called while the Connector was not at rest

loopVars == <<phase, active, batch>>
userVars == <<user, calls>>
history == <<stopped, lost, hasty>>
vars == <<connector, connect_, retry_, connection, nextConnId, up, shut,
          loopVars, userVars, history>>

Conns == 1..MaxConnections

Init ==
  /\ connector = NewConnector
  /\ connect_ = TRUE /\ retry_ \in BOOLEAN
  /\ connection = 0 /\ nextConnId = 1 /\ up = {} /\ shut = {}
  /\ phase = "poll" /\ active = {} /\ batch = <<>>
  /\ user = "idle" /\ calls = 0
  /\ stopped = FALSE /\ lost = {} /\ hasty = FALSE

-----------------------------------------------------------------------------
(* The user's thread.                                                      *)

HasFunctor(functor) ==
  \/ \E i \in 1..Len(batch) : batch[i] = functor
  \/ \E i \in 1..Len(connector.pending) : connector.pending[i] = functor

\* No attempt is under way, none is due, and what the last one used is gone.
AtRest ==
  /\ connector.state = "kDisconnected" /\ connector.channel = "null"
  /\ connector.timers = 0 /\ ~HasFunctor("startInLoop") /\ phase # "restart"

\* connect, disconnect and stop, 66-88: each sets connect_ first.  None of them
\* looks at the state the Connector is in.
Call(op) ==
  /\ connector.ok /\ user = "idle" /\ calls < MaxCalls
  /\ calls' = calls + 1
  /\ user' = op
  /\ connect_' = (op = "connect")
  /\ hasty' = IF op = "connect" THEN ~AtRest ELSE hasty
  /\ stopped' = (stopped /\ op # "connect")
  /\ UNCHANGED <<connector, retry_, connection, nextConnId, up, shut, loopVars, lost>>

\* Connector::start and Connector::stop: connect_, then the functor.
Flag(op, value) ==
  /\ user = op
  /\ connector' = [connector EXCEPT !.connect = value]
  /\ user' = op \o "InLoop"
  /\ stopped' = (op = "stop")
  /\ lost' = IF op = "stop" THEN {"deliver", "restart"} \cap {phase} ELSE {}
  /\ UNCHANGED <<connect_, retry_, connection, nextConnId, up, shut, loopVars,
                 calls, hasty>>

Enqueue(op, functor) ==
  /\ user = op \o "InLoop"
  /\ connector' = queueInLoop(connector, functor)
  /\ user' = "idle"
  /\ UNCHANGED <<connect_, retry_, connection, nextConnId, up, shut, loopVars,
                 calls, history>>

\* disconnect, 77-82.
Shutdown ==
  /\ user = "disconnect"
  /\ shut' = IF connection = 0 THEN shut ELSE shut \cup {connection}
  /\ user' = "idle"
  /\ UNCHANGED <<connector, connect_, retry_, connection, nextConnId, up,
                 loopVars, calls, history>>

\* A failed assertion, ~connector.ok, aborts the process.
UserStep ==
  /\ connector.ok
  /\ \/ Flag("connect", TRUE) \/ Enqueue("connect", "startInLoop")
     \/ Flag("stop", FALSE) \/ Enqueue("stop", "stopInLoop")
     \/ Shutdown

-----------------------------------------------------------------------------
(* The loop.                                                               *)

Ready == (IF connector.channel = "on" THEN {"handshake"} ELSE {})
           \cup (IF connector.timers > 0 THEN {"timer"} ELSE {})

\* poll() reports some of what may have happened, or wakes for a functor.
Poll(events, closed) ==
  /\ phase = "poll" /\ connector.ok
  /\ events # {} \/ closed # {} \/ connector.pending # <<>>
  /\ active' = (events \X {0}) \cup ({"close"} \X closed)
  /\ phase' = "events"
  /\ UNCHANGED <<connector, connect_, retry_, connection, nextConnId, up, shut,
                 batch, userVars, history>>

Dispatched(event) == phase = "events" /\ event \in active /\ active' = active \ {event}

HandleEvent(outcome) ==
  /\ Dispatched(<<"handshake", 0>>)
  /\ connector' = handleEvent(connector, outcome)
  /\ IF Delivers(connector, outcome)
     THEN nextConnId \in Conns /\ phase' = "deliver"
     ELSE UNCHANGED phase
  /\ UNCHANGED <<connect_, retry_, connection, nextConnId, up, shut, batch, userVars,
                 history>>

\* new_conn_cb_, connector.cpp 152: newConnection, 91-118, and connectEstablished.
\* The user's thread may have come in since connect_ was tested.
newConnection ==
  /\ phase = "deliver"
  /\ connector' = close(connector)
  /\ connection' = nextConnId
  /\ nextConnId' = nextConnId + 1
  /\ up' = up \cup {nextConnId}
  /\ lost' = lost \ {"deliver"}
  /\ phase' = "events"
  /\ UNCHANGED <<connect_, retry_, shut, active, batch, userVars, stopped, hasty>>

\* TimerQueue::handleRead: the timer of retry() fires.
Timeout(errno) ==
  /\ Dispatched(<<"timer", 0>>)
  /\ connector' = startInLoop([connector EXCEPT !.timers = @ - 1], errno)
  /\ UNCHANGED <<connect_, retry_, connection, nextConnId, up, shut, phase, batch,
                 userVars, history>>

\* TcpConnection::handleClose and removeConnection, 121-132.
removeConnection(c) ==
  /\ Dispatched(<<"close", c>>)
  /\ up' = up \ {c}
  /\ connector' = queueInLoop(Assert(connector, connection = c), "connectDestroyed")
  /\ connection' = 0
  /\ phase' = IF retry_ /\ connect_ THEN "restart" ELSE phase
  /\ UNCHANGED <<connect_, retry_, nextConnId, shut, batch, userVars, history>>

\* removeConnection, 133-137: the user's thread may have come in between.
Restart(errno) ==
  /\ phase = "restart"
  /\ connector' = restart(connector, errno)
  /\ phase' = "events"
  /\ UNCHANGED <<connect_, retry_, connection, nextConnId, up, shut, active, batch,
                 userVars, history>>

\* doPendingFunctors takes what has been queued.
TakeFunctors ==
  /\ phase = "events" /\ active = {}
  /\ batch' = connector.pending
  /\ connector' = [connector EXCEPT !.pending = <<>>]
  /\ phase' = "functors"
  /\ UNCHANGED <<connect_, retry_, connection, nextConnId, up, shut, active,
                 userVars, history>>

RunFunctor(errno) ==
  /\ phase = "functors"
  /\ IF batch = <<>>
     THEN phase' = "poll" /\ UNCHANGED <<connector, batch>>
     ELSE /\ connector' =
               CASE Head(batch) = "startInLoop" -> startInLoop(connector, errno)
                 [] Head(batch) = "stopInLoop" -> stopInLoop(connector)
                 [] Head(batch) = "resetChannel" -> resetChannel(connector)
                 [] Head(batch) = "connectDestroyed" -> connector
          /\ batch' = Tail(batch)
          /\ UNCHANGED phase
  /\ UNCHANGED <<connect_, retry_, connection, nextConnId, up, shut, active,
                 userVars, history>>

LoopStep ==
  /\ connector.ok
  /\ \/ \E outcome \in Outcomes : HandleEvent(outcome)
     \/ \E errno \in Errnos : Timeout(errno) \/ Restart(errno) \/ RunFunctor(errno)
     \/ \E c \in Conns : removeConnection(c)
     \/ newConnection
     \/ TakeFunctors

Next ==
  \/ \E op \in {"connect", "disconnect", "stop"} : Call(op)
  \/ UserStep
  \/ \E events \in SUBSET Ready, closed \in SUBSET up : Poll(events, closed)
  \/ LoopStep

(***************************************************************************)
(* The loop goes round and the user's calls return.  A timer that has been *)
(* set fires; the network decides every handshake, and one that is tried   *)
(* again and again succeeds in the end.                                    *)
(***************************************************************************)
Fairness ==
  /\ WF_vars(UserStep)
  /\ WF_vars(LoopStep)
  /\ WF_vars(Poll({}, {}))
  /\ SF_vars(\E closed \in SUBSET up : Ready # {} /\ Poll(Ready, closed))
  /\ SF_vars(Timeout("inprogress"))
  /\ SF_vars(HandleEvent("connected"))

Spec == Init /\ [][Next]_vars /\ Fairness

-----------------------------------------------------------------------------
(* Properties.                                                             *)

Trying ==
  \/ connector.state = "kConnecting"
  \/ connector.timers > 0
  \/ HasFunctor("startInLoop")
  \/ phase = "restart"

Quiet == ~Trying /\ connector.channel = "null" /\ connector.fds = 0

\* Unless connect() is called on a Connector that is not at rest, or stop() is lost
\* to restart(): there is one attempt or one connection at a time, through any
\* sequence of connect(), stop() and disconnect(); the Connector holds a socket
\* exactly while it is connecting or delivering, and has a channel in the poller
\* exactly while it is connecting; the delay of a retry keeps to its bounds; and the
\* assertions of startInLoop, connecting, handleWrite and removeConnection hold.
\* TcpClient::connect does not check the state (its FIXME, line 67).  So the assertion
\* of startInLoop fails after a second connect(), also when the connection was lost
\* without a retry and the Connector is still kConnected, and the one of connecting
\* after stop() and connect() in one batch of functors.
ConnectorInv ==
  LET One(holds) == IF holds THEN 1 ELSE 0
  IN  hasty \/ "restart" \in lost \/
      /\ One(connector.state = "kConnecting") + connector.timers
           + One(HasFunctor("startInLoop")) + One(phase \in {"deliver", "restart"})
           + Cardinality(up) <= 1
      /\ connector.fds = One(connector.state = "kConnecting") + One(phase = "deliver")
      /\ (connector.channel = "on") = (connector.state = "kConnecting")
      /\ connector.channel = "removed" => HasFunctor("resetChannel")
      /\ connector.retryDelayMs \in kInitRetryDelayMs..kMaxRetryDelayMs
      /\ connector.ok

\* Once stop() has cleared connect_ no connection is announced, whatever the
\* handshake, the timer and the functors do.  It is lost when it comes where the loop
\* has tested connect_ already: before new_conn_cb_ in handleWrite, or, the client's
\* own connect_, before restart() in removeConnection sets the Connector's again.
StopIsFinal == [][stopped /\ lost = {} => up' \subseteq up]_vars

\* After stop() the Connector gives up its socket, its channel and its timer; an
\* attempt that is under way ends with the functor of stop(), whether or not the
\* handshake ever does.  Only the next connect() and restart() undo it.
StopSettles ==
  /\ stopped ~> Quiet \/ ~stopped \/ "restart" \in lost \/ ~connector.ok
  /\ [](stopped /\ user # "stopInLoop" /\ ~HasFunctor("stopInLoop")
          /\ "restart" \notin lost /\ connector.ok
          => connector.state # "kConnecting")

\* A Connector that is trying goes on, through any number of failures, until it
\* has a connection, stop() is called, connect() fails for good, or the process
\* ends at an assertion.
Reconnects ==
  Trying /\ nextConnId \in Conns
    ~> up # {} \/ stopped \/ connector.gaveUp \/ ~connector.ok

===========================================================================
