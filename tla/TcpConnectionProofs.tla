------------------------ MODULE TcpConnectionProofs ------------------------
(***************************************************************************)
(* Proofs about TcpConnection, for any threads, messages, message size,    *)
(* send buffer and high-water mark.                                        *)
(***************************************************************************)
EXTENDS TcpConnection, SequenceTheorems, TLAPS

OutputInv ==
  /\ OutputInOrder
  /\ WritingWhileOutput
  /\ FinAfterOutput
  /\ CompletionReported
  /\ HighWaterReported

OutputType ==
  /\ events \in SUBSET {"read", "write"} /\ added \in BOOLEAN
  /\ output \in Seq(Byte) /\ wire \in Seq(Byte) /\ accepted \in Seq(Byte)
  /\ room \in 0..SocketRoom /\ finSent \in BOOLEAN
  /\ reported \in Nat /\ warned \in BOOLEAN

-----------------------------------------------------------------------------
(* Sequences of bytes.                                                     *)

\* A buffer cut in two: SubSeq, as write(2) and retrieve() cut it.
LEMMA Cut ==
  ASSUME NEW S, NEW s \in Seq(S), NEW n \in 0..Len(s)
  PROVE  /\ SubSeq(s, 1, n) \in Seq(S) /\ SubSeq(s, n + 1, Len(s)) \in Seq(S)
         /\ Len(SubSeq(s, 1, n)) = n
         /\ Len(SubSeq(s, n + 1, Len(s))) = Len(s) - n
         /\ SubSeq(s, 1, n) \o SubSeq(s, n + 1, Len(s)) = s
<1>1. Len(s) \in Nat /\ \A i \in 1..Len(s) : s[i] \in S
  BY LenProperties, ElementOfSeq
<1>2. SubSeq(s, 1, n) \in Seq(S) /\ Len(SubSeq(s, 1, n)) = n
  BY <1>1, SubSeqProperties
<1>3. /\ SubSeq(s, n + 1, Len(s)) \in Seq(S)
      /\ Len(SubSeq(s, n + 1, Len(s))) = Len(s) - n
  BY <1>1, SubSeqProperties
<1>4. SubSeq(s, 1, n) \o SubSeq(s, n + 1, Len(s)) = SubSeq(s, 1, Len(s))
  <2>1. 1 \in 1..Len(s) + 1 /\ n \in (1 - 1)..Len(s) /\ Len(s) \in n..Len(s)
    BY <1>1
  <2> QED
    BY <2>1, ConcatAdjacentSubSeq, Zenon
<1> QED
  BY <1>2, <1>3, <1>4, SubSeqFull, Zenon

\* Concatenation of buffers is associative.
LEMMA BytesAssociate ==
  \A s, t, u \in Seq(Byte) : (s \o t) \o u = s \o (t \o u)
  BY ConcatAssociative

\* The two calls of connectionCb_.
LEMMA UpThenDown == Append(<<"up">>, "down") = <<"up", "down">>
<1> DEFINE s == Append(<<"up">>, "down")
           t == <<"up", "down">>
<1>1. <<"up">> \in Seq({"up", "down"})
  OBVIOUS
<1>0. t \in Seq({"up", "down"})
  OBVIOUS
<1>2. s \in Seq({"up", "down"}) /\ Len(s) = 2 /\ s[1] = "up" /\ s[2] = "down"
  BY <1>1
<1>3. Len(t) = 2 /\ t[1] = "up" /\ t[2] = "down"
  OBVIOUS
<1> HIDE DEF s, t
<1>4. \A i \in 1..Len(s) : s[i] = t[i]
  BY <1>2, <1>3
<1>5. s = t
  BY <1>0, <1>2, <1>3, <1>4, SeqEqual
<1> QED
  BY <1>5 DEF s, t

\* A sequence is empty exactly when its length is zero.
LEMMA EmptyIsZero ==
  ASSUME NEW S, NEW s \in Seq(S)
  PROVE  Len(s) \in Nat /\ (s = <<>> <=> Len(s) = 0)
  BY LenProperties, EmptySeq

\* The bytes of a message.
LEMMA BytesType ==
  ASSUME NEW m \in Messages
  PROVE  Bytes(m) \in Seq(Byte) /\ Len(Bytes(m)) = MessageSize
<1>1. MessageSize \in Nat
  BY ConnectionAssumption
<1>2. Bytes(m) \in [1..MessageSize -> Byte]
  BY DEF Bytes, Byte
<1> QED
  BY <1>1, <1>2

\* What write(2) takes is there, and there is room for it.
LEMMA TakenBounds ==
  ASSUME room \in 0..SocketRoom, NEW len \in Nat
  PROVE  /\ Taken(len) \in 0..len
         /\ room - Taken(len) \in 0..SocketRoom
         /\ Broken => Taken(len) = 0
  BY ConnectionAssumption DEF Taken

-----------------------------------------------------------------------------
(* Output.                                                                 *)

\* sendInLoop appends a message to what was accepted and keeps OutputInv.
LEMMA SendKeepsOutput ==
  ASSUME OutputType, OutputInv, NEW m \in Messages, SendInLoop(m), state' = state
  PROVE  OutputInv' /\ OutputType'
<1> DEFINE nwrote == IF WriteDirectly THEN Taken(MessageSize) ELSE 0
           remaining == SubSeq(Bytes(m), nwrote + 1, MessageSize)
           written == SubSeq(Bytes(m), 1, nwrote)
<1>1. CASE state = "disconnected" \/ (WriteDirectly /\ Broken)
  <2>1. UNCHANGED <<outputVars, events, added, socketVars>>
    BY <1>1 DEF SendInLoop
  <2> QED
    BY <2>1 DEF OutputInv, OutputType, outputVars, socketVars, OutputInOrder,
        WritingWhileOutput, FinAfterOutput, CompletionReported, HighWaterReported
<1>2. CASE ~(state = "disconnected" \/ (WriteDirectly /\ Broken))
  <2>0. /\ output \in Seq(Byte) /\ wire \in Seq(Byte) /\ accepted \in Seq(Byte)
        /\ room \in 0..SocketRoom
    BY DEF OutputType
  <2>1. /\ wire' = wire \o written
        /\ room' = room - nwrote
        /\ WriteComplete(remaining)
        /\ accepted' = accepted \o Bytes(m)
        /\ output' = output \o remaining
        /\ warned' = (warned \/ Crossed(Len(output), MessageSize - nwrote))
        /\ EnableWriting(remaining)
        /\ finSent' = finSent
    BY <1>2, Zenon DEF SendInLoop
  <2>2. MessageSize \in Nat \ {0} /\ HighWaterMark \in Nat \ {0} /\ SocketRoom \in Nat
    BY ConnectionAssumption
  <2>3. Bytes(m) \in Seq(Byte) /\ Len(Bytes(m)) = MessageSize
    BY BytesType
  <2>4. nwrote \in 0..MessageSize /\ room - nwrote \in 0..SocketRoom
    <3>1. /\ Taken(MessageSize) \in 0..MessageSize
          /\ room - Taken(MessageSize) \in 0..SocketRoom
      BY <2>2, <2>0, TakenBounds, Zenon
    <3>2. 0 \in 0..MessageSize /\ room - 0 \in 0..SocketRoom
      BY <2>2, <2>0
    <3> QED
      BY <3>1, <3>2
  <2>5. /\ written \in Seq(Byte) /\ remaining \in Seq(Byte)
        /\ Len(written) = nwrote
        /\ Len(remaining) = MessageSize - nwrote
        /\ written \o remaining = Bytes(m)
    BY <2>3, <2>4, Cut, Zenon
  <2>6. WriteDirectly <=> output = <<>>
    BY <1>2 DEF OutputInv, WritingWhileOutput, WriteDirectly
  <2>7. output # <<>> => nwrote = 0
    BY <2>6
  <2>8. ~finSent
    BY <1>2, <2>6 DEF OutputInv, FinAfterOutput, Broken
  <2> HIDE DEF nwrote, remaining, written
  <2>9. /\ Len(output) \in Nat /\ (output = <<>> <=> Len(output) = 0)
        /\ (remaining = <<>> <=> Len(remaining) = 0)
    BY <2>5, EmptyIsZero DEF OutputType
  <2>10. /\ output' \in Seq(Byte) /\ wire' \in Seq(Byte) /\ accepted' \in Seq(Byte)
         /\ Len(output') = Len(output) + (MessageSize - nwrote)
    <3>1. /\ output \o remaining \in Seq(Byte) /\ wire \o written \in Seq(Byte)
          /\ accepted \o Bytes(m) \in Seq(Byte)
          /\ Len(output \o remaining) = Len(output) + Len(remaining)
      BY <2>0, <2>3, <2>5, ConcatProperties, Zenon
    <3> QED
      BY <3>1, <2>1, <2>5
  <2>11. output' = <<>> <=> (output = <<>> /\ remaining = <<>>)
    <3>1. output' = <<>> <=> Len(output') = 0
      BY <2>10, EmptyIsZero
    <3>2. Len(output) \in Nat /\ MessageSize - nwrote \in Nat
      BY <2>2, <2>4, <2>9
    <3> QED
      BY <3>1, <3>2, <2>5, <2>9, <2>10
  <2>12. OutputInOrder'
    <3>1. CASE output = <<>>
      <4>1. output' = remaining /\ wire = accepted
        BY <3>1, <2>1, <2>5, ConcatEmptySeq DEF OutputInv, OutputInOrder, OutputType
      <4>2. (wire \o written) \o remaining = wire \o (written \o remaining)
        BY <2>0, <2>5, BytesAssociate, Zenon
      <4> QED
        BY <4>1, <4>2, <2>1, <2>5, Zenon DEF OutputInOrder
    <3>2. CASE output # <<>>
      <4>1. nwrote = 0
        BY <3>2, <2>7
      <4>2. written = <<>>
        BY <4>1, <2>5, EmptyIsZero
      <4>3. remaining = Bytes(m) /\ wire' = wire
        BY <4>2, <2>1, <2>5, ConcatEmptySeq DEF OutputType
      <4>4. (wire \o output) \o remaining = wire \o (output \o remaining)
        BY <2>0, <2>5, BytesAssociate, Zenon
      <4> QED
        BY <4>3, <4>4, <2>1, Zenon DEF OutputInOrder, OutputInv
    <3> QED
      BY <3>1, <3>2
  <2>13. WritingWhileOutput'
    BY <2>1, <2>11, <1>2 DEF OutputInv, WritingWhileOutput, EnableWriting
  <2>14. FinAfterOutput'
    BY <2>8, <2>1 DEF FinAfterOutput
  <2>15. CompletionReported'
    BY <2>1, <2>11 DEF CompletionReported, WriteComplete
  <2>16. HighWaterReported'
    <3>1. CASE Len(output) >= HighWaterMark
      BY <3>1, <2>1, Zenon DEF HighWaterReported, OutputInv
    <3>2. CASE ~(Len(output) >= HighWaterMark)
      <4> DEFINE l == Len(output)  r == MessageSize - nwrote
      <4>1. l \in Nat /\ r \in Nat /\ Len(output') = l + r
        BY <2>2, <2>4, <2>9, <2>10
      <4>2. l < HighWaterMark
        BY <3>2, <2>2, <2>9
      <4>3. warned' <=> warned \/ (l + r >= HighWaterMark /\ l < HighWaterMark)
        BY <2>1, Zenon DEF Crossed, OutputType
      <4> QED
        BY <4>1, <4>2, <4>3 DEF HighWaterReported
    <3> QED
      BY <3>1, <3>2
  <2>17. OutputType'
    <3>1. reported' \in Nat
      BY <2>1, <2>10, LenProperties DEF WriteComplete, OutputType
    <3>2. warned' \in BOOLEAN
      BY <2>1 DEF OutputType
    <3>3. events' \in SUBSET {"read", "write"} /\ added' \in BOOLEAN
      BY <2>1 DEF EnableWriting, OutputType
    <3> QED
      BY <3>1, <3>2, <3>3, <2>1, <2>4, <2>10 DEF OutputType
  <2> QED
    BY <2>12, <2>13, <2>14, <2>15, <2>16, <2>17 DEF OutputInv
<1> QED
  BY <1>1, <1>2

\* handleWrite moves a prefix of the output to the wire and keeps OutputInv.
LEMMA WriteKeepsOutput ==
  ASSUME OutputType, OutputInv, HandleWrite
  PROVE  OutputInv' /\ OutputType'
<1> DEFINE n == Taken(Len(output))
           rest == SubSeq(output, n + 1, Len(output))
           written == SubSeq(output, 1, n)
<1>1. accepted' = accepted /\ added' = added /\ state' = state
  BY DEF HandleWrite
<1>2. CASE ~("write" \in events /\ n > 0)
  <2>1. UNCHANGED <<output, reported, warned, events, socketVars>>
    BY <1>2 DEF HandleWrite
  <2> QED
    BY <1>1, <2>1 DEF OutputInv, OutputType, socketVars, OutputInOrder,
        WritingWhileOutput, FinAfterOutput, CompletionReported, HighWaterReported
<1>3. CASE "write" \in events /\ n > 0
  <2>1. /\ wire' = wire \o written
        /\ room' = room - n
        /\ output' = rest
        /\ DisableWriting(rest)
        /\ WriteComplete(rest)
        /\ warned' = (warned /\ Len(rest) >= HighWaterMark)
        /\ ShutdownWhenWritten(rest)
    BY <1>3, Zenon DEF HandleWrite
  <2>2. /\ output \in Seq(Byte) /\ wire \in Seq(Byte) /\ accepted \in Seq(Byte)
        /\ room \in 0..SocketRoom /\ Len(output) \in Nat /\ HighWaterMark \in Nat
    BY LenProperties, ConnectionAssumption DEF OutputType
  <2>3. n \in 0..Len(output) /\ room - n \in 0..SocketRoom /\ (Broken => n = 0)
    BY <2>2, TakenBounds
  <2>4. /\ written \in Seq(Byte) /\ rest \in Seq(Byte)
        /\ Len(rest) = Len(output) - n
        /\ written \o rest = output
    BY <2>2, <2>3, Cut, Zenon
  <2>5. ~finSent /\ output # <<>>
    BY <1>3, <2>3, <2>2, EmptyIsZero DEF Broken
  <2> HIDE DEF n, rest, written
  <2>6. OutputInOrder'
    <3>0. wire \in Seq(Byte) /\ written \in Seq(Byte) /\ rest \in Seq(Byte)
      BY <2>2, <2>4
    <3>1. (wire \o written) \o rest = wire \o (written \o rest)
      BY <3>0, BytesAssociate, Zenon
    <3> QED
      BY <3>1, <1>1, <2>1, <2>4, Zenon DEF OutputInv, OutputInOrder
  <2>7. WritingWhileOutput'
    BY <1>1, <1>3, <2>1 DEF WritingWhileOutput, DisableWriting
  <2>8. finSent' => rest = <<>>
    BY <2>1, <2>5, Zenon DEF ShutdownWhenWritten
  <2>9. CompletionReported'
    BY <2>1 DEF CompletionReported, WriteComplete
  <2>10. Len(rest) >= HighWaterMark => warned'
    <3>1. SUFFICES ASSUME Len(rest) >= HighWaterMark PROVE warned
      BY <2>1, Zenon
    <3>2. Len(output) >= HighWaterMark
      BY <3>1, <2>2, <2>3, <2>4
    <3> QED
      BY <3>2 DEF OutputInv, HighWaterReported
  <2>11. OutputType'
    <3>1. wire' \in Seq(Byte)
      BY <2>1, <2>2, <2>4, ConcatProperties, Zenon
    <3>2. reported' \in Nat
      BY <2>1, <3>1, LenProperties DEF WriteComplete, OutputType
    <3>3. finSent' \in BOOLEAN
      BY <2>1, Zenon DEF ShutdownWhenWritten, ShutdownInLoop, OutputType
    <3>4. events' \in SUBSET {"read", "write"}
      BY <2>1 DEF DisableWriting, OutputType
    <3>5. warned' \in BOOLEAN
      BY <2>1 DEF OutputType
    <3> QED
      BY <1>1, <2>1, <2>3, <2>4, <3>1, <3>2, <3>3, <3>4, <3>5 DEF OutputType
  <2> QED
    BY <2>1, <2>6, <2>7, <2>8, <2>9, <2>10, <2>11
    DEF OutputInv, FinAfterOutput, HighWaterReported
<1> QED
  BY <1>2, <1>3

-----------------------------------------------------------------------------
(* Types.                                                                  *)

RestType ==
  /\ state \in {"connecting", "connected", "disconnecting", "disconnected"}
  /\ queue \in Seq(Messages \cup {"established", "destroyed"})
  /\ checked \in [Threads -> SUBSET Messages]
  /\ todo \in SUBSET {"close", "error", "read", "write"}
  /\ removal \in {"none", "requested", "queued", "done"}
  /\ peer \in {"open", "closed", "reset"}
  /\ inbound \in BOOLEAN
  /\ soError \in BOOLEAN
  /\ unsent \in SUBSET Messages
  /\ told \in Seq({"up", "down"})

IInv == OutputType /\ RestType /\ OutputInv /\ ConnectionInv

\* TypeOK in the two parts in which it is proved.
LEMMA TypeParts == TypeOK <=> OutputType /\ RestType
  BY DEF TypeOK, OutputType, RestType

\* A handler runs when its callback is due: the connection is up, and neither
\* close nor read follows.
LEMMA DueFacts ==
  ASSUME RestType, ConnectionInv, NEW c \in {"close", "read"}, Due(c)
  PROVE  /\ state \in {"connected", "disconnecting"}
         /\ (todo \ {c}) \cap {"close", "read"} = {}
  BY DEF Due, RestType, ConnectionInv

\* The first functor leaves the queue.
LEMMA Dequeue ==
  ASSUME RestType, queue # <<>>, queue' = Tail(queue)
  PROVE  /\ queue' \in Seq(Messages \cup {"established", "destroyed"})
         /\ Head(queue) = queue[1] /\ 1 \in 1..Len(queue)
         /\ \A i \in 1..Len(queue') : \E j \in 1..Len(queue) : queue'[i] = queue[j]
<1> DEFINE F == Messages \cup {"established", "destroyed"}
<1>1. queue \in Seq(F)
  BY DEF RestType
<1> HIDE DEF F
<1>2. /\ Tail(queue) \in Seq(F) /\ Len(queue) \in Nat \ {0}
      /\ Len(Tail(queue)) = Len(queue) - 1
      /\ \A i \in 1..Len(Tail(queue)) : Tail(queue)[i] = queue[i + 1]
  BY <1>1, HeadTailProperties, EmptySeq
<1>3. \A i \in 1..Len(Tail(queue)) : i + 1 \in 1..Len(queue)
  BY <1>2
<1>4. Head(queue) = queue[1]
  BY <1>1
<1> QED
  BY <1>2, <1>3, <1>4 DEF F

\* A functor is added to the queue.
LEMMA Enqueue ==
  ASSUME RestType, NEW f \in Messages \cup {"established", "destroyed"},
         queue' = Append(queue, f)
  PROVE  /\ queue' \in Seq(Messages \cup {"established", "destroyed"})
         /\ \A i \in 1..Len(queue') :
              queue'[i] = f \/ \E j \in 1..Len(queue) : queue'[i] = queue[j]
<1> DEFINE F == Messages \cup {"established", "destroyed"}
<1>1. queue \in Seq(F) /\ f \in F
  BY DEF RestType
<1> HIDE DEF F
<1>2. /\ Append(queue, f) \in Seq(F) /\ Len(queue) \in Nat
      /\ Len(Append(queue, f)) = Len(queue) + 1
      /\ \A i \in 1..Len(queue) : Append(queue, f)[i] = queue[i]
      /\ Append(queue, f)[Len(queue) + 1] = f
  BY <1>1
<1> QED
  BY <1>2 DEF F

-----------------------------------------------------------------------------
(* The steps.                                                              *)

\* What a step that leaves the output alone does to OutputInv.
LEMMA OutputUnchanged ==
  ASSUME OutputType, OutputInv,
         UNCHANGED <<outputVars, wire, finSent>>,
         room' \in 0..SocketRoom, added' \in BOOLEAN,
         events' \in SUBSET {"read", "write"},
         \/ state' = "disconnected"
         \/ state # "disconnected" /\ ("write" \in events' <=> "write" \in events)
  PROVE  OutputInv' /\ OutputType'
  BY DEF OutputInv, OutputType, outputVars, OutputInOrder, WritingWhileOutput,
         FinAfterOutput, CompletionReported, HighWaterReported

\* The steps of the loop's queue and of the peer that change neither state_ nor
\* the channel.
LEMMA QuietSteps ==
  ASSUME IInv, UNCHANGED <<state, events, added, outputVars, wire, finSent, told>>
  PROVE  /\ (\E t \in Threads, m \in Messages : SendCheck(t, m)) => IInv'
         /\ (\E t \in Threads : SendQueue(t)) => IInv'
         /\ PeerStep => IInv'
<1>1. room' \in 0..SocketRoom => OutputInv' /\ OutputType'
  BY DEF IInv, OutputInv, OutputType, outputVars, OutputInOrder,
         WritingWhileOutput, FinAfterOutput, CompletionReported, HighWaterReported
<1>2. ASSUME NEW t \in Threads, NEW m \in Messages, SendCheck(t, m) PROVE IInv'
  <2>1. room' = room /\ UNCHANGED <<todo, removal, peer, inbound, soError, queue>>
    BY <1>2 DEF SendCheck, socketVars, peerVars
  <2>2. OutputInv' /\ OutputType'
    BY <1>1, <2>1 DEF IInv, OutputType
  <2>3. RestType'
    BY <1>2, <2>1 DEF SendCheck, IInv, RestType
  <2>4. ConnectionInv'
    BY <1>2, <2>1 DEF SendCheck, IInv, ConnectionInv
  <2> QED
    BY <2>2, <2>3, <2>4 DEF IInv
<1>3. ASSUME NEW t \in Threads, SendQueue(t) PROVE IInv'
  <2>1. room' = room /\ UNCHANGED <<todo, removal, peer, inbound, soError, unsent>>
    BY <1>3 DEF SendQueue, socketVars, peerVars
  <2>2. PICK m \in checked[t] : queue' = Append(queue, m)
    BY <1>3 DEF SendQueue
  <2>3. m \in Messages /\ m # "established" /\ m # "destroyed"
    BY <2>2, ConnectionAssumption DEF IInv, RestType
  <2>4. OutputInv' /\ OutputType'
    BY <1>1, <2>1 DEF IInv, OutputType
  <2>5. /\ queue' \in Seq(Messages \cup {"established", "destroyed"})
        /\ \A i \in 1..Len(queue') :
             queue'[i] = m \/ \E j \in 1..Len(queue) : queue'[i] = queue[j]
    BY <2>2, <2>3, Enqueue DEF IInv
  <2>6. RestType'
    BY <1>3, <2>1, <2>5 DEF SendQueue, IInv, RestType
  <2>7. state # "connecting"
    BY <2>2 DEF IInv, ConnectionInv
  <2>8. ConnectionInv'
    BY <2>1, <2>3, <2>5, <2>7 DEF IInv, ConnectionInv
  <2> QED
    BY <2>4, <2>6, <2>8 DEF IInv
<1>4. ASSUME PeerStep PROVE IInv'
  <2>1. UNCHANGED <<todo, removal, queue, checked, unsent>>
    BY <1>4 DEF PeerStep, callVars
  <2>2. room' = room \/ room' = SocketRoom
    BY <1>4 DEF PeerStep, PeerSends, PeerReads, PeerCloses, PeerResets
  <2>3. room' \in 0..SocketRoom
    BY <2>2, ConnectionAssumption DEF IInv, OutputType
  <2>4. /\ peer' \in {"open", "closed", "reset"}
        /\ inbound' \in BOOLEAN /\ soError' \in BOOLEAN
    BY <1>4, Zenon DEF PeerStep, PeerSends, PeerReads, PeerCloses, PeerResets, IInv,
                RestType, peerVars
  <2>5. RestType' /\ ConnectionInv'
    BY <2>1, <2>4 DEF IInv, RestType, ConnectionInv
  <2> QED
    BY <1>1, <2>3, <2>5 DEF IInv
<1> QED
  BY <1>2, <1>3, <1>4

\* The calls of the loop's thread.
LEMMA CallSteps ==
  ASSUME IInv
  PROVE  /\ (\E m \in Messages : Send(m)) => IInv'
         /\ Shutdown => IInv'
<1>1. ASSUME NEW m \in Messages, Send(m) PROVE IInv'
  <2>1. /\ SendInLoop(m) /\ state = "connected"
        /\ UNCHANGED <<state, todo, removal, told, peer, inbound, soError, queue,
                       checked>>
        /\ unsent' = unsent \ {m}
    BY <1>1 DEF Send, peerVars
  <2>2. OutputInv' /\ OutputType'
    BY <2>1, SendKeepsOutput DEF IInv
  <2>3. "read" \in events' /\ added'
    BY <2>1, Zenon DEF SendInLoop, EnableWriting, IInv, ConnectionInv
  <2>4. RestType' /\ ConnectionInv'
    BY <2>1, <2>3 DEF IInv, RestType, ConnectionInv
  <2> QED
    BY <2>2, <2>4 DEF IInv
<1>2. ASSUME Shutdown PROVE IInv'
  <2>1. /\ state = "connected" /\ state' = "disconnecting"
        /\ finSent' = (finSent \/ "write" \notin events)
        /\ UNCHANGED <<events, added, todo, removal, told, room, wire, peer,
                       inbound, soError, output, accepted, reported, warned,
                       queue, checked, unsent>>
    BY <1>2 DEF Shutdown, ShutdownInLoop, peerVars, outputVars, callVars
  <2>2. OutputInv' /\ OutputType'
    BY <2>1 DEF IInv, OutputInv, OutputType, OutputInOrder, WritingWhileOutput,
                FinAfterOutput, CompletionReported, HighWaterReported
  <2>3. RestType' /\ ConnectionInv'
    BY <2>1 DEF IInv, RestType, ConnectionInv
  <2> QED
    BY <2>2, <2>3 DEF IInv
<1> QED
  BY <1>1, <1>2

\* The functors.  Only the first is "established", and "destroyed" finds a
\* connection that is down.
LEMMA FunctorSteps ==
  ASSUME IInv, RunFunctor
  PROVE  IInv' /\ [Life!Next]_<<told, removal = "done">>
<1>0. todo = {} /\ queue # <<>> /\ queue' = Tail(queue)
  BY DEF RunFunctor, ConnectionEstablished, ConnectionDestroyed, RunSend
<1>1. /\ queue' \in Seq(Messages \cup {"established", "destroyed"})
      /\ Head(queue) = queue[1] /\ 1 \in 1..Len(queue)
      /\ \A i \in 1..Len(queue') : \E j \in 1..Len(queue) : queue'[i] = queue[j]
  BY <1>0, Dequeue DEF IInv
<1>2. CASE ConnectionEstablished
  <2>1. /\ state = "connecting" /\ queue = <<"established">>
        /\ events = {} /\ told = <<>> /\ removal = "none"
    BY <1>1, <1>2 DEF ConnectionEstablished, IInv, ConnectionInv
  <2>2. /\ state' = "connected" /\ events' = {"read"} /\ added' = TRUE
        /\ told' = <<"up">>
        /\ UNCHANGED <<todo, removal, peer, inbound, soError, checked, unsent>>
        /\ UNCHANGED <<outputVars, room, wire, finSent>>
    BY <1>2, <2>1 DEF ConnectionEstablished, socketVars, peerVars
  <2>3. OutputInv' /\ OutputType'
    <3>1. room' \in 0..SocketRoom /\ added' \in BOOLEAN
      BY <2>2 DEF IInv, OutputType
    <3> QED
      BY <2>1, <2>2, <3>1, OutputUnchanged DEF IInv
  <2>4. queue' = <<>>
    BY <1>0, <2>1
  <2>5. RestType'
    BY <1>1, <2>2 DEF IInv, RestType
  <2>6. ConnectionInv'
    <3>1. \A i \in 1..Len(queue') : FALSE
      BY <2>4
    <3>2. todo' = {} /\ removal' = "none"
      BY <1>0, <2>1, <2>2
    <3> QED
      BY <2>2, <3>1, <3>2 DEF ConnectionInv
  <2>7. Life!Up
    BY <2>1, <2>2 DEF Life!Up
  <2> QED
    BY <2>3, <2>5, <2>6, <2>7 DEF IInv, Life!Next
<1>3. CASE ConnectionDestroyed
  <2>1. state = "disconnected" /\ events = {} /\ told = <<"up", "down">>
    BY <1>1, <1>3 DEF ConnectionDestroyed, IInv, ConnectionInv
  <2>2. /\ UNCHANGED <<state, events, told>> /\ added' = FALSE /\ removal' = "done"
        /\ UNCHANGED <<todo, peer, inbound, soError, checked, unsent>>
        /\ UNCHANGED <<outputVars, room, wire, finSent>>
    BY <1>3, <2>1 DEF ConnectionDestroyed, socketVars, peerVars
  <2>3. OutputInv' /\ OutputType'
    <3>1. room' \in 0..SocketRoom /\ added' \in BOOLEAN
      BY <2>2, Zenon DEF IInv, OutputType
    <3> QED
      BY <2>1, <2>2, <3>1, OutputUnchanged DEF IInv
  <2>4. RestType'
    BY <1>1, <2>2 DEF IInv, RestType
  <2>5. ConnectionInv'
    BY <1>0, <1>1, <2>1, <2>2 DEF IInv, ConnectionInv
  <2>6. [Life!Remove]_<<told, removal = "done">>
    BY <2>1, <2>2 DEF Life!Remove
  <2> QED
    BY <2>3, <2>4, <2>5, <2>6 DEF IInv, Life!Next
<1>4. CASE RunSend
  <2>1. /\ Head(queue) \in Messages /\ SendInLoop(Head(queue))
        /\ UNCHANGED <<state, todo, removal, told, peer, inbound, soError, checked,
                       unsent>>
    BY <1>4 DEF RunSend, peerVars
  <2>2. OutputInv' /\ OutputType'
    BY <2>1, SendKeepsOutput DEF IInv
  <2>3. state # "connecting"
    <3>1. SUFFICES ASSUME queue = <<"established">> PROVE FALSE
      BY DEF IInv, ConnectionInv
    <3> QED
      BY <3>1, <2>1, ConnectionAssumption
  <2>4. /\ state = "disconnected" => events' = events
        /\ "read" \in events => "read" \in events'
        /\ added => added'
    BY <2>1, Zenon DEF SendInLoop, EnableWriting
  <2>5. RestType'
    BY <1>1, <2>1 DEF IInv, RestType
  <2>6. ConnectionInv'
    BY <1>1, <2>1, <2>3, <2>4, Zenon DEF IInv, ConnectionInv, RestType
  <2> QED
    BY <2>1, <2>2, <2>5, <2>6 DEF IInv
<1> QED
  BY <1>2, <1>3, <1>4 DEF RunFunctor

\* handleClose, from its own callback or from handleRead.
LEMMA CloseStep ==
  ASSUME IInv, NEW c \in {"close", "read"}, Due(c), todo' = todo \ {c}, Close,
         UNCHANGED <<added, room, wire, finSent, outputVars, callVars>>,
         peer' = peer, inbound' \in BOOLEAN, soError' \in BOOLEAN
  PROVE  IInv' /\ [Life!Next]_<<told, removal = "done">>
<1>1. /\ state \in {"connected", "disconnecting"}
      /\ todo' \cap {"close", "read"} = {}
  BY DueFacts DEF IInv
<1>2. told = <<"up">> /\ removal = "none"
  BY <1>1 DEF IInv, ConnectionInv
<1>3. /\ state' = "disconnected" /\ events' = {} /\ told' = <<"up", "down">>
      /\ removal' = "requested"
  <2>1. Append(<<"up">>, "down") = <<"up", "down">>
    BY UpThenDown
  <2> QED
    BY <1>2, <2>1 DEF Close
<1>4. OutputInv' /\ OutputType'
  <2>1. room' \in 0..SocketRoom /\ added' \in BOOLEAN
    BY DEF IInv, OutputType
  <2> QED
    BY <1>3, <2>1, OutputUnchanged DEF IInv
<1>5. UNCHANGED <<queue, checked, unsent>>
  BY DEF callVars
<1>6. RestType'
  BY <1>3, <1>5 DEF IInv, RestType
<1>7. ConnectionInv'
  BY <1>1, <1>3, <1>5 DEF IInv, ConnectionInv
<1>8. Life!Down
  BY <1>2, <1>3 DEF Life!Down
<1> QED
  BY <1>4, <1>6, <1>7, <1>8 DEF IInv, Life!Next

\* poll() and the callbacks.
LEMMA EventSteps ==
  ASSUME IInv, Poll \/ Handler
  PROVE  IInv' /\ [Life!Next]_<<told, removal = "done">>
<1>1. CASE Poll
  <2>1. /\ UNCHANGED <<state, events, added, removal, told, room, wire, finSent,
                       peer, inbound, soError, outputVars, queue, checked, unsent>>
        /\ events # {} /\ state # "disconnected" /\ state # "connecting"
    BY <1>1 DEF Poll, socketVars, peerVars, callVars, IInv, ConnectionInv
  <2>2. /\ todo' \in SUBSET {"close", "error", "read", "write"}
        /\ ~({"close", "read"} \subseteq todo')
    <3>1. PICK hup, err, in, out : todo' = Callbacks(hup, err, in, out)
      BY <1>1 DEF Poll
    <3>2. todo' \subseteq DOMAIN Order
      BY <3>1, Zenon DEF Callbacks
    <3>3. DOMAIN Order = {"close", "error", "read", "write"}
      BY DEF Order
    <3>4. ~("close" \in todo' /\ "read" \in todo')
      BY <3>1 DEF Callbacks
    <3> QED
      BY <3>2, <3>3, <3>4
  <2>3. OutputInv' /\ OutputType'
    <3>1. room' \in 0..SocketRoom /\ added' \in BOOLEAN
          /\ events' \in SUBSET {"read", "write"}
      BY <2>1 DEF IInv, OutputType
    <3> QED
      BY <2>1, <3>1, OutputUnchanged DEF IInv
  <2>4. RestType' /\ ConnectionInv'
    BY <2>1, <2>2 DEF IInv, RestType, ConnectionInv
  <2> QED
    BY <2>1, <2>3, <2>4 DEF IInv
<1>2. CASE HandleClose
  <2>1. soError' \in BOOLEAN /\ inbound' \in BOOLEAN /\ peer' = peer
    BY <1>2 DEF HandleClose, peerVars, IInv, RestType
  <2> QED
    BY <1>2, <2>1, CloseStep DEF HandleClose, socketVars
<1>3. CASE HandleRead
  <2>1. /\ soError' \in BOOLEAN /\ inbound' \in BOOLEAN /\ peer' = peer
        /\ Due("read") /\ todo' = todo \ {"read"}
        /\ UNCHANGED <<added, room, wire, finSent, outputVars, callVars>>
    BY <1>3, Zenon DEF HandleRead, socketVars, IInv, RestType
  <2>2. CASE Close
    BY <2>1, <2>2, CloseStep
  <2>3. CASE UNCHANGED <<state, events, told, removal>>
    <3>1. state \in {"connected", "disconnecting"}
      BY <2>1, DueFacts DEF IInv
    <3>2. OutputInv' /\ OutputType'
      <4>1. room' \in 0..SocketRoom /\ added' \in BOOLEAN
            /\ events' \in SUBSET {"read", "write"}
        BY <2>1, <2>3 DEF IInv, OutputType
      <4> QED
        BY <2>1, <2>3, <3>1, <4>1, OutputUnchanged DEF IInv
    <3>3. RestType' /\ ConnectionInv'
      BY <2>1, <2>3, <3>1 DEF IInv, RestType, ConnectionInv, callVars
    <3> QED
      BY <2>3, <3>2, <3>3 DEF IInv
  <2> QED
    BY <1>3, <2>2, <2>3 DEF HandleRead
<1>4. CASE HandleError
  <2>1. /\ UNCHANGED <<state, events, added, removal, told, room, wire, finSent,
                       peer, inbound, outputVars, queue, checked, unsent>>
        /\ soError' = FALSE /\ todo' = todo \ {"error"} /\ "error" \in todo
    BY <1>4 DEF HandleError, socketVars, callVars, Due
  <2>2. OutputInv' /\ OutputType'
    BY <2>1 DEF IInv, OutputInv, OutputType, outputVars, OutputInOrder,
        WritingWhileOutput, FinAfterOutput, CompletionReported, HighWaterReported
  <2>3. RestType' /\ ConnectionInv'
    BY <2>1, Zenon DEF IInv, RestType, ConnectionInv
  <2> QED
    BY <2>1, <2>2, <2>3 DEF IInv
<1>5. CASE HandleWrite
  <2>1. /\ UNCHANGED <<state, added, removal, told, peer, inbound, soError, queue,
                       checked, unsent>>
        /\ todo' = todo \ {"write"} /\ "write" \in todo
    BY <1>5 DEF HandleWrite, peerVars, callVars, Due
  <2>2. events' \subseteq events /\ ("read" \in events => "read" \in events')
    BY <1>5 DEF HandleWrite, DisableWriting
  <2>3. RestType' /\ ConnectionInv'
    BY <2>1, <2>2 DEF IInv, RestType, ConnectionInv
  <2> QED
    BY <1>5, <2>1, <2>3, WriteKeepsOutput DEF IInv
<1> QED
  BY <1>1, <1>2, <1>3, <1>4, <1>5 DEF Handler

-----------------------------------------------------------------------------
(* The theorems.                                                           *)

\* Each step keeps the invariant and is a step of Lifecycle or changes nothing
\* that Lifecycle sees.
LEMMA NextKeepsInv ==
  ASSUME IInv, [Next]_connectionVars
  PROVE  IInv' /\ [Life!Next]_<<told, removal = "done">>
<1>1. CASE \E m \in Messages : Send(m)
  BY <1>1, CallSteps DEF Send
<1>2. CASE Shutdown
  BY <1>2, CallSteps DEF Shutdown
<1>3. CASE RunFunctor
  BY <1>3, FunctorSteps
<1>4. CASE Poll \/ Handler
  BY <1>4, EventSteps
<1>5. CASE \E t \in Threads, m \in Messages : SendCheck(t, m)
  <2>1. UNCHANGED <<state, events, added, outputVars, wire, finSent, told, removal>>
    BY <1>5 DEF SendCheck, socketVars
  <2> QED
    BY <1>5, <2>1, QuietSteps
<1>6. CASE \E t \in Threads : SendQueue(t)
  <2>1. UNCHANGED <<state, events, added, outputVars, wire, finSent, told, removal>>
    BY <1>6 DEF SendQueue, socketVars
  <2> QED
    BY <1>6, <2>1, QuietSteps
<1>7. CASE PeerStep
  <2>1. UNCHANGED <<state, events, added, outputVars, wire, finSent, told, removal>>
    BY <1>7 DEF PeerStep
  <2> QED
    BY <1>7, <2>1, QuietSteps
<1>8. CASE RemoveConnection
  <2>1. /\ UNCHANGED <<state, events, added, todo, told, room, wire, finSent, peer,
                       inbound, soError, outputVars, checked, unsent>>
        /\ removal = "requested" /\ removal' = "queued"
        /\ queue' = Append(queue, "destroyed")
    BY <1>8 DEF RemoveConnection, socketVars, peerVars
  <2>2. state = "disconnected"
    BY <2>1 DEF IInv, ConnectionInv, RestType
  <2>3. /\ queue' \in Seq(Messages \cup {"established", "destroyed"})
        /\ \A i \in 1..Len(queue') :
             queue'[i] = "destroyed" \/ \E j \in 1..Len(queue) : queue'[i] = queue[j]
    BY <2>1, Enqueue DEF IInv
  <2>4. OutputInv' /\ OutputType'
    BY <2>1 DEF IInv, OutputInv, OutputType, outputVars, OutputInOrder,
        WritingWhileOutput, FinAfterOutput, CompletionReported, HighWaterReported
  <2>5. RestType' /\ ConnectionInv'
    BY <2>1, <2>2, <2>3 DEF IInv, RestType, ConnectionInv
  <2> QED
    BY <2>1, <2>4, <2>5 DEF IInv
<1>9. CASE UNCHANGED connectionVars
  <2>1. UNCHANGED <<state, events, added, outputVars, room, wire, finSent>>
    BY <1>9 DEF connectionVars, socketVars
  <2>2. UNCHANGED <<todo, removal, told, peer, inbound, soError, queue, checked,
                    unsent>>
    BY <1>9 DEF connectionVars, peerVars, callVars
  <2>3. OutputInv' /\ OutputType'
    BY <2>1 DEF IInv, OutputInv, OutputType, outputVars, OutputInOrder,
        WritingWhileOutput, FinAfterOutput, CompletionReported, HighWaterReported
  <2>4. RestType' /\ ConnectionInv'
    BY <2>1, <2>2 DEF IInv, RestType, ConnectionInv
  <2> QED
    BY <2>2, <2>3, <2>4 DEF IInv
<1> QED
  BY <1>1, <1>2, <1>3, <1>4, <1>5, <1>6, <1>7, <1>8, <1>9 DEF Next

\* The constructor establishes the invariant.
LEMMA InitInv == Init => IInv
<1> SUFFICES ASSUME Init PROVE IInv
  OBVIOUS
<1>0. <<>> \in Seq(Byte) /\ <<>> \in Seq({"up", "down"})
  BY EmptySeq, Zenon
<1>1. OutputType
  <2>1. SocketRoom \in 0..SocketRoom /\ 0 \in Nat
    BY ConnectionAssumption
  <2> QED
    BY <1>0, <2>1, Zenon DEF Init, OutputType
<1>2. RestType
  <2>1. <<"established">> \in Seq(Messages \cup {"established", "destroyed"})
    OBVIOUS
  <2> QED
    BY <1>0, <2>1, Zenon DEF Init, RestType
<1>3. OutputInv
  BY ConnectionAssumption DEF Init, OutputInv, OutputInOrder, WritingWhileOutput,
     FinAfterOutput, CompletionReported, HighWaterReported
<1>4. ConnectionInv
  BY DEF Init, ConnectionInv
<1> QED
  BY <1>1, <1>2, <1>3, <1>4 DEF IInv

\* The invariant holds throughout.
LEMMA Invariance == Spec => []IInv
<1>1. IInv /\ [Next]_connectionVars => IInv'
  BY NextKeepsInv
<1> QED
  BY <1>1, InitInv, PTL DEF Spec

\* The members of TcpConnection, its functors and its socket keep their types.
THEOREM TypeCorrect == Spec => []TypeOK
<1>1. IInv => TypeOK
  BY TypeParts DEF IInv
<1> QED
  BY <1>1, Invariance, PTL

\* The bytes that sendInLoop took on are on the wire or in outputBuffer_, in the
\* order of the calls, and shutdownInLoop lets none of them be cut off.
THEOREM OutputSafe == Spec => []StreamIntact
<1>1. IInv => StreamIntact
  BY DEF IInv, OutputInv, StreamIntact
<1> QED
  BY <1>1, Invariance, PTL

\* The channel watches for POLLOUT exactly while outputBuffer_ has bytes, and
\* writeCompleteCb_ and highWaterMarkCb_ have been queued when they are due.
THEOREM OutputNotified == Spec => []OutputNoticed
<1>1. IInv => OutputNoticed
  BY DEF IInv, OutputInv, CallbacksQueued, OutputNoticed
<1> QED
  BY <1>1, Invariance, PTL

\* The assertions of ConnectionEstablished, handleClose and Channel::remove hold.
THEOREM AssertionsHold == Spec => []StateAsserts
<1>1. IInv => StateAsserts
  <2> SUFFICES ASSUME IInv PROVE StateAsserts
    OBVIOUS
  <2>1. queue # <<>> => Head(queue) = queue[1] /\ 1 \in 1..Len(queue)
    BY DEF IInv, RestType
  <2> QED
    BY <2>1 DEF IInv, RestType, ConnectionInv, StateAsserts, RemovedChannelIsDisabled
<1> QED
  BY <1>1, Invariance, PTL

\* A connection lives the life of Lifecycle: one call of connectionCb_ when it is
\* up, one when it is down, then its channel is removed.
THEOREM ImplementsLifecycle == Spec => LifecycleSpec
<1>1. Init => Life!Init
  BY DEF Init, Life!Init
<1>2. IInv /\ [Next]_connectionVars => [Life!Next]_<<told, removal = "done">>
  BY NextKeepsInv
<1> QED
  BY <1>1, <1>2, Invariance, PTL DEF Spec, LifecycleSpec, Life!Spec

=============================================================================
