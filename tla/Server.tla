------------------------------ MODULE Server ------------------------------
(***************************************************************************)
(* A Server (src/cobra/server.cpp) with its Acceptor, its WorkerThreadPool *)
(* and its connections: requests are accepted in the base loop, each       *)
(* connection is given to a loop in turn, and a close travels from the     *)
(* connection's loop to the base loop and back.                            *)
(*                                                                         *)
(* Loop 0 is the base loop, loops_[i] is loop i + 1.  A loop is a FIFO     *)
(* queue of functors (see Executor) and the channels poll() has reported   *)
(* and the loop has yet to dispatch.  Of a connection there is what Server *)
(* depends on; TcpConnection has the rest.  The Server outlives its loops. *)
(***************************************************************************)
EXTENDS Naturals, Sequences, FiniteSets

CONSTANTS
  MaxThreads,   \* bound: SetThreadNum's argument
  MaxRequests,  \* bound: how many peers ask for a connection
  MaxFds        \* the connections the process has descriptors for, at most

ASSUME ServerAssumption ==
  MaxThreads \in Nat /\ MaxRequests \in Nat /\ MaxFds \in Nat

VARIABLES
  numThreads,   \* numThreads_ of the pool
  started,      \* started_ of the Server and of the pool
  loops,        \* the length of loops_
  listening,    \* listenning_, and the listening channel enabled
  idle,         \* idle_fd_ is a descriptor
  next,         \* next_ of the pool
  connections,  \* connections_
  created,      \* next_conn_id
  fds,          \* the connections whose descriptor is open
  loop,         \* loop_ of each connection
  state,        \* its state_
  channel,      \* its channel_: unknown to the poller, on, off or removed
  active,       \* activeChannels_ of each loop
  queue,        \* pendingFunctors_ of each loop
  \* the peers
  requests,     \* how many have asked for a connection
  backlog,      \* the requests listen_fd_ holds
  peer,         \* "idle", "sent" or "closed"
  \* history
  told          \* the calls of connectionCb_

poolVars == <<numThreads, started, loops, listening, next>>
serverVars == <<connections, created, fds, loop, idle>>
connVars == <<state, channel, told>>
peerVars == <<requests, backlog, peer>>
vars == <<poolVars, serverVars, connVars, active, queue, peerVars>>

Loops == 0..MaxThreads
Conns == 1..MaxRequests
Listener == 0  \* accept_channel_, among the channels
Functors == {"established", "remove", "destroyed"} \X Conns

\* The types of the members; next_ is an index of loops_.
TypeOK ==
  /\ numThreads \in Loops
  /\ started \in BOOLEAN /\ listening \in BOOLEAN /\ idle \in BOOLEAN
  /\ loops \in Loops
  /\ next \in Nat /\ (next = 0 \/ next < loops)
  /\ connections \in SUBSET Conns
  /\ created \in 0..MaxRequests
  /\ fds \in SUBSET Conns
  /\ loop \in [Conns -> Loops]
  /\ state \in [Conns -> {"none", "connecting", "connected", "disconnecting",
                          "disconnected"}]
  /\ channel \in [Conns -> {"unknown", "on", "off", "removed"}]
  /\ active \in [Loops -> SUBSET (Conns \cup {Listener})]
  /\ queue \in [Loops -> Seq(Functors)]
  /\ requests \in 0..MaxRequests
  /\ backlog \in 0..MaxRequests
  /\ peer \in [Conns -> {"idle", "sent", "closed"}]
  /\ told \in [Conns -> Seq({"up", "down"})]

\* WorkerThreadPool's constructor, 10-15, and the Acceptor's, 15-30.
NewPool == numThreads = 0 /\ loops = 0 /\ next = 0
NewAcceptor == listening = FALSE /\ backlog = 0 /\ idle = TRUE

Init ==
  /\ NewPool /\ NewAcceptor /\ started = FALSE
  /\ connections = {} /\ created = 0 /\ fds = {}
  /\ loop = [c \in Conns |-> 0]
  /\ state = [c \in Conns |-> "none"]
  /\ channel = [c \in Conns |-> "unknown"]
  /\ active = [l \in Loops |-> {}]
  /\ queue = [l \in Loops |-> <<>>]
  /\ requests = 0
  /\ peer = [c \in Conns |-> "idle"]
  /\ told = [c \in Conns |-> <<>>]

-----------------------------------------------------------------------------
(* Starting, in the base loop's thread.                                    *)

\* "Must be called before @c start", server.h 40; later it has no effect.
SetThreadNum(n) ==
  /\ ~started
  /\ numThreads' = n
  /\ UNCHANGED <<started, loops, listening, next, serverVars, connVars, active,
                 queue, peerVars>>

\* WorkerThreadPool::start, 20-36: one loop for each thread.
StartPool == loops' = numThreads

\* Acceptor::Listen, 38-47.
Listen == listening' = TRUE

\* start, 51-66, whose second call returns at once.
Start ==
  /\ ~started
  /\ StartPool /\ Listen /\ started' = TRUE
  /\ UNCHANGED <<numThreads, next, serverVars, connVars, active, queue, peerVars>>

-----------------------------------------------------------------------------
(* The steps of a connection.                                              *)

ConnectionEstablished(c) ==
  /\ state' = [state EXCEPT ![c] = "connected"]
  /\ channel' = [channel EXCEPT ![c] = "on"]
  /\ told' = [told EXCEPT ![c] = Append(@, "up")]

\* ~TcpConnection, 60-63, when the last TcpConnectionPtr goes.
Destructor(c) == UNCHANGED fds

ConnectionDestroyed(c) ==
  /\ IF state[c] = "connected"
     THEN /\ state' = [state EXCEPT ![c] = "disconnected"]
          /\ told' = [told EXCEPT ![c] = Append(@, "down")]
     ELSE UNCHANGED <<state, told>>
  /\ channel' = [channel EXCEPT ![c] = "removed"]
  /\ Destructor(c)

Push(q, l, functor) == [q EXCEPT ![l] = Append(@, functor)]

\* Mutant of RemoveConnectionInLoop: the map keeps the connection.
RemoveConnectionInLoopKeeps(c, q) ==
  /\ queue' = Push(q, loop[c], <<"destroyed", c>>)
  /\ UNCHANGED connections

\* RemoveConnectionInLoop, 110-120, when the queues are q.
RemoveConnectionInLoop(c, q) ==
  /\ connections' = connections \ {c}
  /\ queue' = Push(q, loop[c], <<"destroyed", c>>)

\* RemoveConnection, 105-108: runInLoop of the base loop.
RemoveConnection(c) ==
  IF loop[c] = 0
  THEN RemoveConnectionInLoop(c, queue)
  ELSE queue' = Push(queue, 0, <<"remove", c>>) /\ UNCHANGED connections

\* Mutant of HandleClose: the channel stays enabled.
HandleCloseKeepsChannel(c) ==
  /\ state' = [state EXCEPT ![c] = "disconnected"]
  /\ told' = [told EXCEPT ![c] = Append(@, "down")]
  /\ RemoveConnection(c)
  /\ UNCHANGED channel

\* TcpConnection::handleClose, 259-271.
HandleClose(c) ==
  /\ state' = [state EXCEPT ![c] = "disconnected"]
  /\ channel' = [channel EXCEPT ![c] = "off"]
  /\ told' = [told EXCEPT ![c] = Append(@, "down")]
  /\ RemoveConnection(c)

-----------------------------------------------------------------------------
(* Accepting.                                                              *)

\* getNextLoop, 38-52: the loop is chosen and the index moves on.
NextLoop == IF loops = 0 THEN 0 ELSE next + 1

\* Mutant of NextIndex: the first loop gets them all.
NextIndexStays == next

NextIndex == IF next + 1 >= loops THEN 0 ELSE next + 1

\* Mutant of EstablishConnection: the connection is not recorded.
EstablishConnectionUnrecorded(c) ==
  /\ created' = c
  /\ loop' = [loop EXCEPT ![c] = NextLoop]
  /\ next' = NextIndex
  /\ IF NextLoop = 0
     THEN ConnectionEstablished(c) /\ UNCHANGED queue
     ELSE /\ state' = [state EXCEPT ![c] = "connecting"]
          /\ queue' = Push(queue, NextLoop, <<"established", c>>)
          /\ UNCHANGED <<channel, told>>
  /\ UNCHANGED connections

\* EstablishConnection, 68-103, with runInLoop of the connection's loop.
EstablishConnection(c) ==
  /\ created' = c
  /\ loop' = [loop EXCEPT ![c] = NextLoop]
  /\ next' = NextIndex
  /\ connections' = connections \cup {c}
  /\ IF NextLoop = 0
     THEN ConnectionEstablished(c) /\ UNCHANGED queue
     ELSE /\ state' = [state EXCEPT ![c] = "connecting"]
          /\ queue' = Push(queue, NextLoop, <<"established", c>>)
          /\ UNCHANGED <<channel, told>>

\* Mutant of Refuse: without the idle descriptor the request stays.
RefuseNothing(taken) == UNCHANGED <<backlog, idle>>

\* Acceptor::HandleRead, 66-71: the idle descriptor makes way for the request, if
\* there still is one, which is closed at once, and is opened again.  Another thread
\* may take the descriptor in between, "before" accept() or "after" it, and then there
\* is none to open; later calls have no idle one to give up, and need one that
\* another thread has freed.  (That one is freed between accept() and open() is left
\* out.)
Refuse(taken) ==
  /\ backlog' = IF taken # "before" /\ backlog > 0 THEN backlog - 1 ELSE backlog
  /\ idle' = (taken = "never")

\* Accept, socket_wrapper.cpp 69-117: what accept() returns.  It may be EMFILE at any
\* time, as the rest of the process has descriptors too.  Of the other expected
\* errors EAGAIN finds no request, and ECONNABORTED, EPROTO and EPERM take one
\* with them; what is not expected ends the process.
Accept(result) ==
  \/ result = "EMFILE" /\ UNCHANGED <<fds, created>>
  \/ /\ Cardinality(fds) < MaxFds
     /\ \/ /\ result = "connection" /\ backlog > 0
           /\ fds' = fds \cup {created + 1} /\ backlog' = backlog - 1
        \/ /\ result = "error" /\ UNCHANGED <<fds, created>>
           /\ IF backlog = 0 THEN UNCHANGED backlog ELSE backlog' = backlog - 1

\* Acceptor::HandleRead, 49-73.
HandleAccept ==
  /\ Listener \in active[0]
  /\ active' = [active EXCEPT ![0] = @ \ {Listener}]
  /\ \/ Accept("connection") /\ EstablishConnection(created + 1)
        /\ UNCHANGED idle
     \/ /\ Accept("EMFILE") /\ \E taken \in {"never", "before", "after"} : Refuse(taken)
        /\ UNCHANGED <<next, connections, loop, connVars, queue>>
     \/ /\ Accept("error")
        /\ UNCHANGED <<next, connections, loop, idle, connVars, queue>>
  /\ UNCHANGED <<numThreads, started, loops, listening, requests, peer>>

-----------------------------------------------------------------------------
(* The loops.                                                              *)

Readable(l) ==
  {c \in Conns : loop[c] = l /\ channel[c] = "on" /\ peer[c] # "idle"}
    \cup (IF l = 0 /\ listening /\ backlog > 0 THEN {Listener} ELSE {})

\* poll() reports what is readable; the event list has room for it (EPollPoller
\* has the case where it has not).
Poll(l) ==
  /\ active[l] = {}
  /\ Readable(l) # {}
  /\ active' = [active EXCEPT ![l] = Readable(l)]
  /\ UNCHANGED <<poolVars, serverVars, connVars, queue, peerVars>>

\* TcpConnection::handleRead, 209-227: a message or the end of the stream.
HandleRead(l, c) ==
  /\ c \in active[l]
  /\ active' = [active EXCEPT ![l] = @ \ {c}]
  /\ IF peer[c] = "closed"
     THEN HandleClose(c) /\ UNCHANGED peer
     ELSE /\ peer' = [peer EXCEPT ![c] = "idle"]
          /\ UNCHANGED <<connVars, queue, connections>>
  /\ UNCHANGED <<poolVars, created, fds, loop, idle, requests, backlog>>

Dispatch(l) ==
  \/ l = 0 /\ HandleAccept
  \/ \E c \in Conns : HandleRead(l, c)

\* shutdown() in the connection's loop.
Shutdown(c) ==
  /\ state[c] = "connected"
  /\ state' = [state EXCEPT ![c] = "disconnecting"]
  /\ UNCHANGED <<poolVars, serverVars, channel, told, active, queue, peerVars>>

RunFunctor(l) ==
  /\ active[l] = {} /\ queue[l] # <<>>
  /\ LET c == Head(queue[l])[2]
         rest == [queue EXCEPT ![l] = Tail(@)]
         Is(name) == Head(queue[l])[1] = name
     IN
     \/ /\ Is("established") /\ ConnectionEstablished(c)
        /\ queue' = rest /\ UNCHANGED <<connections, fds>>
     \/ /\ Is("remove") /\ RemoveConnectionInLoop(c, rest)
        /\ UNCHANGED <<connVars, fds>>
     \/ /\ Is("destroyed") /\ ConnectionDestroyed(c)
        /\ queue' = rest /\ UNCHANGED connections
  /\ UNCHANGED <<poolVars, created, loop, idle, active, peerVars>>

-----------------------------------------------------------------------------
(* The peers.                                                              *)

Request ==
  /\ requests < MaxRequests
  /\ listening
  /\ requests' = requests + 1 /\ backlog' = backlog + 1
  /\ UNCHANGED <<poolVars, serverVars, connVars, active, queue, peer>>

\* A peer gives up before it is accepted.
Withdraw ==
  /\ backlog > 0 /\ backlog' = backlog - 1
  /\ UNCHANGED <<poolVars, serverVars, connVars, active, queue, requests, peer>>

PeerActs(c) ==
  /\ c <= created
  /\ \/ peer[c] = "idle" /\ peer' = [peer EXCEPT ![c] = "sent"]
     \/ peer[c] # "closed" /\ peer' = [peer EXCEPT ![c] = "closed"]
  /\ UNCHANGED <<poolVars, serverVars, connVars, active, queue, requests, backlog>>

Next ==
  \/ \E n \in Loops : SetThreadNum(n)
  \/ Start
  \/ \E l \in Loops : Poll(l) \/ Dispatch(l) \/ RunFunctor(l)
  \/ \E c \in Conns : Shutdown(c) \/ PeerActs(c)
  \/ Request \/ Withdraw

(***************************************************************************)
(* Each iteration of a loop polls, dispatches and runs the functors, so    *)
(* every channel and every functor gets its turn.                          *)
(***************************************************************************)
Fairness ==
  \A l \in Loops :
    SF_vars(RunFunctor(l)) /\ SF_vars(Poll(l)) /\ WF_vars(Dispatch(l))

Spec == Init /\ [][Next]_vars /\ Fairness

-----------------------------------------------------------------------------
(* Properties.                                                             *)

\* A TcpConnectionPtr is in the map or bound in a functor.
Referenced(c) ==
  \/ c \in connections
  \/ \E l \in Loops : \E i \in 1..Len(queue[l]) : queue[l][i][2] = c

\* The poller's and the loop's raw Channel pointers belong to connections that
\* are alive: while the close is on its way from loop to loop someone always
\* holds the connection.
ChannelOwned ==
  \A c \in Conns :
    channel[c] \in {"on", "off"} \/ (\E l \in Loops : c \in active[l])
      => Referenced(c)

\* assert(n == 1) in RemoveConnectionInLoop: what is to be removed is in the map,
\* and is removed once.
EraseFindsOne ==
  \A i \in 1..Len(queue[0]) : queue[0][i][1] = "remove" =>
    /\ queue[0][i][2] \in connections
    /\ \A j \in 1..Len(queue[0]) : queue[0][j] = queue[0][i] => j = i

\* Round robin: two loops of the pool differ by at most one in the connections
\* they have been given.
LoopsBalanced ==
  LET Given(l) == Cardinality({c \in 1..created : loop[c] = l})
  IN  \A l, k \in 1..loops : Given(l) <= Given(k) + 1

\* A connection is given to a loop in turn, and every pointer to it that the loops
\* hold or hand over is good until its one removal.
ConnectionsOwned == ChannelOwned /\ EraseFindsOne /\ LoopsBalanced

Life(c) == INSTANCE Lifecycle WITH told <- told[c], gone <- channel[c] = "removed"

\* Each connection is reported up once and down once, and its channel goes last,
\* though two loops have a part in it.
LifecycleSpec ==
  /\ \A c \in Conns : Life(c)!Init
  /\ [][\A c \in Conns : [Life(c)!Next]_<<told[c], channel[c] = "removed">>]_vars

\* A connection that its peer has closed is forgotten by both loops.
ClosedAreForgotten ==
  \A c \in Conns : peer[c] = "closed" ~> channel[c] = "removed" /\ ~Referenced(c)

\* Every request is accepted or refused, also when no descriptor is left, as long as
\* the Acceptor has its idle descriptor to give up.
RequestsAnswered == backlog > 0 ~> backlog = 0 \/ ~idle

\* The comment of handleClose (tcp_connection.cpp 263): the descriptor is left to
\* the destructor.
FreedIsClosed ==
  \A c \in Conns : channel[c] = "removed" /\ ~Referenced(c) => c \notin fds

===========================================================================
