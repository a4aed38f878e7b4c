--------------------------- MODULE TcpConnection ---------------------------
(***************************************************************************)
(* One TcpConnection in its loop (src/cobra/tcp_connection.cpp), with the  *)
(* dispatch of its Channel (src/cobra/channel.cpp): messages sent from the *)
(* loop's thread and from others, partial writes, the output buffer,       *)
(* shutdown, and the ways in which the connection ends.                    *)
(*                                                                         *)
(* Each handler runs in the loop's thread and is one action.  What poll()  *)
(* reported is dispatched later, callback by callback; in between the      *)
(* loop's thread runs the user's code, and other threads run at any time.  *)
(* The loop is a FIFO queue of functors (see Executor).  Whoever sends     *)
(* holds a TcpConnectionPtr until the functor, which has a raw `this`, is  *)
(* done; shutdown() is called in the loop's thread.                        *)
(***************************************************************************)
EXTENDS Naturals, Sequences

CONSTANTS
  Threads,        \* the threads other than the loop's
  Messages,       \* what is sent, each message once
  MessageSize,    \* the bytes of a message
  SocketRoom,     \* the size of the socket's send buffer
  HighWaterMark   \* highWaterMark_

ASSUME ConnectionAssumption ==
  /\ MessageSize \in Nat \ {0} /\ SocketRoom \in Nat \ {0}
  /\ HighWaterMark \in Nat \ {0}
  /\ {"established", "destroyed"} \cap Messages = {}

VARIABLES
  state,      \* state_
  events,     \* channel_'s events_
  added,      \* channel_ is known to the poller
  output,     \* outputBuffer_
  queue,      \* the functors queued in the loop, sendInLoop as its message
  checked,    \* the message with which a thread is past the test of state_
  todo,       \* the callbacks of the event being dispatched
  removal,    \* how far Server is in removing the connection
  \* the socket and the peer
  room,       \* free bytes of the send buffer
  wire,       \* the bytes the socket has taken
  finSent,    \* ShutdownWrite was called
  peer,       \* "open", "closed" for sending, or "reset"
  inbound,    \* there are bytes to be read
  soError,    \* an error is pending on the socket
  \* history
  unsent,     \* the messages no one has sent yet
  accepted,   \* the bytes sendInLoop has taken on
  told,       \* the calls of connectionCb_
  reported,   \* how much was on the wire when writeCompleteCb_ was queued
  warned      \* highWaterMarkCb_ was queued since output was below the mark

socketVars == <<room, wire, finSent>>
peerVars == <<peer, inbound, soError>>
outputVars == <<output, accepted, reported, warned>>
callVars == <<queue, checked, unsent>>
connectionVars == <<state, events, added, todo, removal, told, socketVars,
                    peerVars, outputVars, callVars>>

Byte == Messages \X (1..MessageSize)
Bytes(m) == [i \in 1..MessageSize |-> <<m, i>>]

\* The types of state_, events_, the buffers, the functors and the socket.
TypeOK ==
  /\ state \in {"connecting", "connected", "disconnecting", "disconnected"}
  /\ events \in SUBSET {"read", "write"}
  /\ added \in BOOLEAN
  /\ output \in Seq(Byte) /\ wire \in Seq(Byte) /\ accepted \in Seq(Byte)
  /\ queue \in Seq(Messages \cup {"established", "destroyed"})
  /\ checked \in [Threads -> SUBSET Messages]
  /\ todo \in SUBSET {"close", "error", "read", "write"}
  /\ removal \in {"none", "requested", "queued", "done"}
  /\ room \in 0..SocketRoom
  /\ finSent \in BOOLEAN
  /\ peer \in {"open", "closed", "reset"}
  /\ inbound \in BOOLEAN
  /\ soError \in BOOLEAN
  /\ unsent \in SUBSET Messages
  /\ told \in Seq({"up", "down"})
  /\ reported \in Nat
  /\ warned \in BOOLEAN

\* EstablishConnection has made the connection and queued its first functor.
Init ==
  /\ state = "connecting"
  /\ events = {} /\ added = FALSE
  /\ output = <<>> /\ accepted = <<>> /\ reported = 0 /\ warned = FALSE
  /\ queue = <<"established">>
  /\ checked = [t \in Threads |-> {}]
  /\ todo = {}
  /\ removal = "none"
  /\ room = SocketRoom /\ wire = <<>> /\ finSent = FALSE
  /\ peer = "open" /\ inbound = FALSE /\ soError = FALSE
  /\ unsent = Messages
  /\ told = <<>>

-----------------------------------------------------------------------------
(* Output.                                                                 *)

\* write(2) fails with EPIPE or ECONNRESET ...
Broken == finSent \/ peer = "reset"

\* ... or takes this many of len bytes, none with EWOULDBLOCK.
Taken(len) == IF Broken THEN 0 ELSE IF len <= room THEN len ELSE room

\* Mutant of ShutdownInLoop: without the test for pending output.
ShutdownInLoopAtOnce(ev) == finSent' = TRUE

\* shutdownInLoop, 166-174, when the channel's events are ev.
ShutdownInLoop(ev) == finSent' = (finSent \/ "write" \notin ev)

\* writeCompleteCb_ is queued when nothing is left to write, 125-127, 239-241.
WriteComplete(rest) == reported' = IF rest = <<>> THEN Len(wire') ELSE reported

\* Mutant of Crossed: reaching the mark is not enough.
CrossedAbove(oldLen, remaining) ==
  oldLen + remaining > HighWaterMark /\ oldLen < HighWaterMark

\* highWaterMarkCb_ is queued, 144-148.
Crossed(oldLen, remaining) ==
  oldLen + remaining >= HighWaterMark /\ oldLen < HighWaterMark

\* Mutant of WriteDirectly: what is waiting in the buffer is overtaken.
WriteDirectlyAlways == TRUE

\* With nothing in the buffer sendInLoop tries the socket first, 121.
WriteDirectly == "write" \notin events /\ output = <<>>

\* Mutant of EnableWriting: POLLOUT is not asked for.
EnableWritingNever(remaining) == UNCHANGED <<events, added>>

\* The channel watches for POLLOUT when something remains, 150-152.
EnableWriting(remaining) ==
  /\ events' = IF remaining = <<>> THEN events ELSE events \cup {"write"}
  /\ added' = (added \/ remaining # <<>>)

\* sendInLoop, 107-154.
SendInLoop(m) ==
  LET nwrote == IF WriteDirectly THEN Taken(MessageSize) ELSE 0
      remaining == SubSeq(Bytes(m), nwrote + 1, MessageSize)
      faultError == WriteDirectly /\ Broken
  IN
  IF state = "disconnected" \/ faultError
  THEN UNCHANGED <<outputVars, events, added, socketVars>>
  ELSE /\ wire' = wire \o SubSeq(Bytes(m), 1, nwrote)
       /\ room' = room - nwrote
       /\ WriteComplete(remaining)
       /\ accepted' = accepted \o Bytes(m)
       /\ output' = output \o remaining
       /\ warned' = (warned \/ Crossed(Len(output), MessageSize - nwrote))
       /\ EnableWriting(remaining)
       /\ UNCHANGED finSent

\* Mutant of ShutdownWhenWritten: the shutdown that waited is forgotten.
ShutdownWhenWrittenNever(rest) == UNCHANGED finSent

\* handleWrite carries out a shutdown() that found output waiting, 242-244.
ShutdownWhenWritten(rest) ==
  IF rest = <<>> /\ state = "disconnecting" THEN ShutdownInLoop(events')
                                            ELSE UNCHANGED finSent

\* Mutant of DisableWriting: the channel goes on watching for POLLOUT.
DisableWritingNever(rest) == UNCHANGED events

DisableWriting(rest) == events' = IF rest = <<>> THEN events \ {"write"} ELSE events

\* The callbacks of an event in their order, see Callbacks below.
Order == [close |-> 1, error |-> 2, read |-> 3, write |-> 4]
Due(callback) ==
  callback \in todo /\ \A other \in todo : Order[callback] <= Order[other]

\* handleWrite, 229-257.
HandleWrite ==
  LET n == Taken(Len(output))
      rest == SubSeq(output, n + 1, Len(output))
  IN
  /\ Due("write")
  /\ todo' = todo \ {"write"}
  /\ IF "write" \in events /\ n > 0
     THEN /\ wire' = wire \o SubSeq(output, 1, n)
          /\ room' = room - n
          /\ output' = rest
          /\ DisableWriting(rest)
          /\ WriteComplete(rest)
          /\ warned' = (warned /\ Len(rest) >= HighWaterMark)
          /\ ShutdownWhenWritten(rest)
     ELSE UNCHANGED <<output, reported, warned, events, socketVars>>
  /\ UNCHANGED <<state, added, accepted, removal, told, peerVars, callVars>>

-----------------------------------------------------------------------------
(* The calls.                                                              *)

\* send, 65-105, from the loop's thread.
Send(m) ==
  /\ m \in unsent
  /\ unsent' = unsent \ {m}
  /\ state = "connected"
  /\ SendInLoop(m)
  /\ UNCHANGED <<state, todo, removal, told, peerVars, queue, checked>>

\* send from another thread: state_ is read first, the functor queued after.
SendCheck(t, m) ==
  /\ m \in unsent
  /\ checked[t] = {}
  /\ state = "connected"
  /\ unsent' = unsent \ {m}
  /\ checked' = [checked EXCEPT ![t] = {m}]
  /\ UNCHANGED <<state, events, added, todo, removal, told, socketVars,
                 peerVars, outputVars, queue>>

SendQueue(t) ==
  /\ \E m \in checked[t] : queue' = Append(queue, m)
  /\ checked' = [checked EXCEPT ![t] = {}]
  /\ UNCHANGED <<state, events, added, todo, removal, told, socketVars,
                 peerVars, outputVars, unsent>>

\* shutdown, 156-164, which is not thread safe: in the loop's thread.
Shutdown ==
  /\ state = "connected"
  /\ state' = "disconnecting"
  /\ ShutdownInLoop(events)
  /\ UNCHANGED <<events, added, todo, removal, told, room, wire, peerVars,
                 outputVars, callVars>>

-----------------------------------------------------------------------------
(* The functors.                                                           *)

\* ConnectionEstablished, 181-194.
ConnectionEstablished ==
  /\ queue # <<>> /\ Head(queue) = "established"
  /\ queue' = Tail(queue)
  /\ state' = "connected"
  /\ events' = events \cup {"read"}
  /\ added' = TRUE
  /\ told' = Append(told, "up")
  /\ UNCHANGED <<todo, removal, socketVars, peerVars, outputVars, checked,
                 unsent>>

\* ConnectionDestroyed, 196-205, and Channel::remove.
ConnectionDestroyed ==
  /\ queue # <<>> /\ Head(queue) = "destroyed"
  /\ queue' = Tail(queue)
  /\ IF state = "connected"
     THEN state' = "disconnected" /\ events' = {} /\ told' = Append(told, "down")
     ELSE UNCHANGED <<state, events, told>>
  /\ added' = FALSE
  /\ removal' = "done"
  /\ UNCHANGED <<todo, socketVars, peerVars, outputVars, checked, unsent>>

RunSend ==
  /\ queue # <<>> /\ Head(queue) \in Messages
  /\ queue' = Tail(queue)
  /\ SendInLoop(Head(queue))
  /\ UNCHANGED <<state, todo, removal, told, peerVars, checked, unsent>>

RunFunctor ==
  /\ todo = {}
  /\ ConnectionEstablished \/ ConnectionDestroyed \/ RunSend

-----------------------------------------------------------------------------
(* Events.                                                                 *)

Readable == inbound \/ peer # "open"
Writable == room > 0 \/ Broken
HungUp == peer = "reset" \/ (peer = "closed" /\ finSent)

\* handleEventWithGuard, 56-87: the callbacks for what poll() reports.
Callbacks(hup, err, in, out) ==
  {c \in DOMAIN Order :
     CASE c = "close" -> hup /\ ~in
       [] c = "error" -> err
       [] c = "read"  -> in
       [] c = "write" -> out}

\* poll() finds the channel; a hangup may come with or without POLLIN.
Poll ==
  /\ todo = {}
  /\ added /\ events # {}
  /\ \E in \in {Readable, Readable /\ ~HungUp} :
       todo' = Callbacks(HungUp, soError, in /\ "read" \in events,
                         Writable /\ "write" \in events)
  /\ todo' # {}
  /\ UNCHANGED <<state, events, added, removal, told, socketVars, peerVars,
                 outputVars, callVars>>

\* Mutant of Close: the channel stays enabled.
CloseKeepsEvents ==
  /\ state' = "disconnected"
  /\ told' = Append(told, "down")
  /\ removal' = IF removal = "none" THEN "requested" ELSE removal
  /\ UNCHANGED events

\* Mutant of Close: closeCb_ is not called.
CloseSilently ==
  /\ state' = "disconnected"
  /\ events' = {}
  /\ told' = Append(told, "down")
  /\ UNCHANGED removal

\* handleClose, 259-271, with closeCb_, which asks Server to remove the
\* connection.
Close ==
  /\ state' = "disconnected"
  /\ events' = {}
  /\ told' = Append(told, "down")
  /\ removal' = IF removal = "none" THEN "requested" ELSE removal

HandleClose ==
  /\ Due("close")
  /\ todo' = todo \ {"close"}
  /\ Close
  /\ UNCHANGED <<added, socketVars, peerVars, outputVars, callVars>>

\* handleRead, 209-227: a message, the end of the stream or an error.
HandleRead ==
  /\ Due("read")
  /\ todo' = todo \ {"read"}
  /\ inbound' = FALSE
  /\ soError' = (soError /\ inbound)
  /\ IF ~inbound /\ ~soError /\ peer # "open"
     THEN Close
     ELSE UNCHANGED <<state, events, told, removal>>
  /\ UNCHANGED <<added, peer, socketVars, outputVars, callVars>>

\* handleError, 273-277: SO_ERROR is read and thereby cleared.
HandleError ==
  /\ Due("error")
  /\ todo' = todo \ {"error"}
  /\ soError' = FALSE
  /\ UNCHANGED <<state, events, added, removal, told, socketVars, peer, inbound,
                 outputVars, callVars>>

-----------------------------------------------------------------------------
(* The environment.                                                        *)

\* Server::RemoveConnectionInLoop, 110-120, in the base loop.
RemoveConnection ==
  /\ removal = "requested"
  /\ removal' = "queued"
  /\ queue' = Append(queue, "destroyed")
  /\ UNCHANGED <<state, events, added, todo, told, socketVars, peerVars,
                 outputVars, checked, unsent>>

PeerSends ==
  /\ peer = "open" /\ ~inbound
  /\ inbound' = TRUE
  /\ UNCHANGED <<peer, soError, room>>

PeerReads ==
  /\ room < SocketRoom /\ peer # "reset"
  /\ room' = SocketRoom
  /\ UNCHANGED peerVars

PeerCloses ==
  /\ peer = "open"
  /\ peer' = "closed"
  /\ UNCHANGED <<inbound, soError, room>>

PeerResets ==
  /\ peer # "reset"
  /\ peer' = "reset" /\ inbound' = FALSE /\ soError' = TRUE
  /\ UNCHANGED room

PeerStep ==
  /\ PeerSends \/ PeerReads \/ PeerCloses \/ PeerResets
  /\ UNCHANGED <<state, events, added, todo, removal, told, wire, finSent,
                 outputVars, callVars>>

-----------------------------------------------------------------------------
Handler == HandleClose \/ HandleError \/ HandleRead \/ HandleWrite

Next ==
  \/ \E m \in Messages : Send(m) \/ \E t \in Threads : SendCheck(t, m)
  \/ \E t \in Threads : SendQueue(t)
  \/ Shutdown
  \/ RunFunctor
  \/ Poll
  \/ Handler
  \/ RemoveConnection
  \/ PeerStep

(***************************************************************************)
(* Each iteration of Loop() polls, dispatches what poll() has reported and *)
(* runs the functors, so neither can keep the other from its turn.  The    *)
(* base loop runs too, a thread gets on with its call, and a peer that     *)
(* does not close or reset the connection reads what it is sent.           *)
(***************************************************************************)
Fairness ==
  /\ SF_connectionVars(RunFunctor)
  /\ SF_connectionVars(Poll)
  /\ WF_connectionVars(Handler)
  /\ WF_connectionVars(RemoveConnection)
  /\ \A t \in Threads : WF_connectionVars(SendQueue(t))
  /\ WF_connectionVars(PeerStep /\ room' # room)

Spec == Init /\ [][Next]_connectionVars /\ Fairness

-----------------------------------------------------------------------------
(* Properties.                                                             *)

\* Bytes leave in the order in which sendInLoop took them on, none lost, doubled
\* or overtaken, however the direct write and the output buffer share a message.
OutputInOrder == wire \o output = accepted

\* The loop watches for POLLOUT exactly while there is output: it neither spins
\* on a writable socket nor forgets what is left.
WritingWhileOutput ==
  state # "disconnected" => (("write" \in events) <=> (output # <<>>))

\* shutdown() ends the stream only behind the last byte of the output.
FinAfterOutput == finSent => output = <<>>

\* What the peer gets is what was sent, in order and to the last byte.
StreamIntact == OutputInOrder /\ FinAfterOutput

\* When the output buffer has run empty, writeCompleteCb_ has been queued for
\* the last byte, by sendInLoop or by handleWrite.
CompletionReported == output = <<>> => reported = Len(wire)

\* Whenever the output is at the mark or above, highWaterMarkCb_ has been queued
\* since it was last below.
HighWaterReported == Len(output) >= HighWaterMark => warned

\* Neither callback of the output is forgotten, however sendInLoop and handleWrite
\* share the work and wherever the output stands to the mark.
CallbacksQueued == CompletionReported /\ HighWaterReported

\* Whoever waits for the output, the loop or a callback's owner, hears of it.
OutputNoticed == WritingWhileOutput /\ CallbacksQueued

\* Channel::remove asserts isNoneEvent() (channel.cpp 40).
RemovedChannelIsDisabled == removal = "done" => events = {}

\* The assertions of ConnectionEstablished (183), handleClose (262) and
\* Channel::remove: no event or functor comes too late or twice.
StateAsserts ==
  /\ queue # <<>> /\ Head(queue) = "established" => state = "connecting"
  /\ todo \cap {"close", "read"} # {} => state \in {"connected", "disconnecting"}
  /\ RemovedChannelIsDisabled

\* What each state_ says of the channel, the functors, the callbacks on their way
\* and the removal; the inductive invariant behind the assertions and LifecycleSpec.
ConnectionInv ==
  /\ state = "connecting" =>
       /\ queue = <<"established">> /\ \A t \in Threads : checked[t] = {}
       /\ events = {} /\ ~added /\ todo = {} /\ removal = "none" /\ told = <<>>
  /\ state \in {"connected", "disconnecting"} =>
       "read" \in events /\ added /\ removal = "none" /\ told = <<"up">>
  /\ state = "disconnected" =>
       /\ events = {} /\ todo \cap {"close", "read"} = {}
       /\ removal # "none" /\ told = <<"up", "down">>
  /\ ~({"close", "read"} \subseteq todo)
  /\ \A i \in 1..Len(queue) :
       /\ queue[i] = "established" => state = "connecting"
       /\ queue[i] = "destroyed" => state = "disconnected"

Life == INSTANCE Lifecycle WITH gone <- removal = "done"

\* connectionCb_ reports one up and one down, and the channel goes last.
LifecycleSpec == Life!Spec

\* Output gets to the socket unless the connection ends.
OutputIsWritten == (output # <<>>) ~> (output = <<>> \/ state = "disconnected")

\* shutdown() ends the stream, at once or when the output has been written.
ShutdownEnds == (state = "disconnecting") ~> (finSent \/ state = "disconnected")

\* No output and no shutdown() is left undone by a peer that reads.
OutputDrains == OutputIsWritten /\ ShutdownEnds

\* A connection that the peer closes or resets is removed from its loop.
ClosedIsRemoved == (peer # "open") ~> (removal = "done")

=============================================================================
