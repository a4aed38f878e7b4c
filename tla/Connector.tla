----------------------------- MODULE Connector -----------------------------
(***************************************************************************)
(* A Connector (src/cobra/connector.cpp): it opens a socket, waits for the *)
(* handshake through a Channel of its own and hands the socket to its      *)
(* owner; when an attempt fails it tries again after a delay that doubles. *)
(*                                                                         *)
(* The operators give the Connector after a call; a Connector is a record  *)
(*   state, connect, channel, retryDelayMs   its members;                  *)
(*   fds      how many of the sockets it has opened it holds;              *)
(*   timers   the startInLoop timers it has set with runAfter;             *)
(*   pending  the functors it has queued in its loop;                      *)
(*   gaveUp   the last connect() failed in a way that is not tried again;  *)
(*   ok       no assert() of the code has failed.                          *)
(* channel_ is "null", "on" (in the poller) or "removed" (from the poller, *)
(* and still to be reset).                                                 *)
(***************************************************************************)
EXTENDS Naturals, Sequences, FiniteSetsExt

CONSTANTS kInitRetryDelayMs, kMaxRetryDelayMs

ASSUME ConnectorAssumption ==
  /\ kInitRetryDelayMs \in Nat \ {0}
  /\ kMaxRetryDelayMs \in Nat /\ kInitRetryDelayMs <= kMaxRetryDelayMs

\* The groups of errno that connect() tells apart.
Errnos == {"inprogress", "again", "fatal"}

\* The ways a handshake ends: SO_ERROR, a socket connected to itself, success.
Outcomes == {"error", "self", "connected"}

NewConnector ==
  [state |-> "kDisconnected", connect |-> FALSE, channel |-> "null",
   retryDelayMs |-> kInitRetryDelayMs, fds |-> 0, timers |-> 0,
   pending |-> <<>>, gaveUp |-> FALSE, ok |-> TRUE]

Assert(c, holds) == [c EXCEPT !.ok = @ /\ holds]

queueInLoop(c, functor) == [c EXCEPT !.pending = Append(@, functor)]

setState(c, s) == [c EXCEPT !.state = s]

close(c) == [c EXCEPT !.fds = @ - 1]

\* Mutant of retry: the attempt is given up.
retryNever(c) == setState(close(c), "kDisconnected")

retry(c) ==
  LET d == setState(close(c), "kDisconnected")
  IN  IF d.connect
      THEN [d EXCEPT !.timers = @ + 1,
                     !.retryDelayMs = Min({2 * @, kMaxRetryDelayMs})]
      ELSE d

connecting(c) ==
  [Assert(setState(c, "kConnecting"), c.channel = "null") EXCEPT !.channel = "on"]

\* connect, 61-99, and the socket of createNonblockingOrDie.
connect(c, errno) ==
  LET d == [c EXCEPT !.fds = @ + 1, !.gaveUp = (errno = "fatal")]
  IN  CASE errno = "inprogress" -> connecting(d)
        [] errno = "again" -> retry(d)
        [] errno = "fatal" -> close(d)

startInLoop(c, errno) ==
  LET d == Assert(c, c.state = "kDisconnected")
  IN  IF d.connect THEN connect(d, errno) ELSE d

restart(c, errno) ==
  startInLoop([setState(c, "kDisconnected") EXCEPT
                 !.retryDelayMs = kInitRetryDelayMs, !.connect = TRUE], errno)

\* Mutant of removeAndResetChannel: the Channel object is kept for ever.
removeAndKeepChannel(c) == [c EXCEPT !.channel = "removed"]

removeAndResetChannel(c) ==
  queueInLoop([c EXCEPT !.channel = "removed"], "resetChannel")

resetChannel(c) == [c EXCEPT !.channel = "null"]

\* Mutant of stopInLoop: the attempt goes on.
stopInLoopLate(c) == c

stopInLoop(c) ==
  IF c.state = "kConnecting"
  THEN retry(removeAndResetChannel(setState(c, "kDisconnected")))
  ELSE c

\* Mutant of Delivers: a socket is delivered after stop().
DeliversAlways(c, outcome) == c.state = "kConnecting" /\ outcome = "connected"

\* Whether handleWrite goes on to new_conn_cb_: the test of line 151 among others.
Delivers(c, outcome) ==
  c.state = "kConnecting" /\ outcome = "connected" /\ c.connect

\* handleWrite up to the call of new_conn_cb_, which is a step of TcpClient: the
\* socket that is delivered stays with the Connector until then.
handleWrite(c, outcome) ==
  IF c.state = "kConnecting"
  THEN LET d == removeAndResetChannel(c)
       IN  CASE Delivers(c, outcome) -> setState(d, "kConnected")
             [] outcome = "connected" /\ ~Delivers(c, outcome) ->
                  close(setState(d, "kConnected"))
             [] outcome # "connected" -> retry(d)
  ELSE Assert(c, c.state = "kDisconnected")

handleError(c) ==
  IF c.state = "kConnecting" THEN retry(removeAndResetChannel(c)) ELSE c

\* Channel::handleEvent: the error callback comes before the write callback, and
\* the poller reports both of them of a handshake that failed.
handleEvent(c, outcome) ==
  handleWrite(IF outcome = "error" THEN handleError(c) ELSE c, outcome)

===========================================================================
