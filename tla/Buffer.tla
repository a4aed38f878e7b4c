------------------------------- MODULE Buffer -------------------------------
(***************************************************************************)
(* The byte buffer of a connection (src/cobra/buffer.h, buffer.cpp): a     *)
(* vector of bytes with a read and a write index.  An object is a record;  *)
(* its methods are operators from a buffer to the buffer they leave.  Each *)
(* call is one step: a Buffer belongs to one thread.                       *)
(***************************************************************************)
EXTENDS Integers, Sequences, FiniteSets

CONSTANTS
  kCheapPrepend, kInitialSize,  \* the constants of the class
  ExtraBuf,   \* sizeof extrabuf in readFd
  ByteBase,   \* the number of values of a byte: 256
  CR, LF,     \* '\r' and '\n'
  MaxContent, \* bounds of the model: the readable bytes a caller lets gather,
  MaxCall     \* the bytes it hands over, or the room it reserves, at a time

ASSUME BufferAssumption ==
  /\ kCheapPrepend \in Nat /\ kInitialSize \in Nat
  /\ ExtraBuf \in Nat /\ MaxContent \in Nat /\ MaxCall \in 0..MaxContent
  /\ ByteBase \in Nat \ {0, 1}
  /\ CR \in 0..(ByteBase - 1) /\ LF \in 0..(ByteBase - 1)

Byte == 0..(ByteBase - 1)
StringsOf(n) == [1..n -> Byte]
Strings == UNION {StringsOf(n) : n \in 0..MaxContent}
Zeros(n) == [i \in 1..n |-> 0]

VARIABLES
  buf,    \* the object: buffer_, readerIndex_, writerIndex_
  result  \* what the last call returned

vars == <<buf, result>>

Nothing == <<"nothing">>
Bytes(s) == <<"bytes", s>>
Integer(x) == <<"integer", x>>
Offset(k) == <<"offset", k>>

NewBuffer ==
  [bytes |-> Zeros(kCheapPrepend + kInitialSize),
   reader |-> kCheapPrepend, writer |-> kCheapPrepend]

readableBytes(b) == b.writer - b.reader
writableBytes(b) == Len(b.bytes) - b.writer
prependableBytes(b) == b.reader

\* toStringPiece(): the bytes from BeginRead() to BeginWrite().
Content(b) == [i \in 1..readableBytes(b) |-> b.bytes[b.reader + i]]

\* std::copy of s to begin() + at.
Copy(bytes, at, s) ==
  [i \in 1..Len(bytes) |->
     IF i \in (at + 1)..(at + Len(s)) THEN s[i - at] ELSE bytes[i]]

\* buffer_.resize(n), which adds zeros.
Resize(bytes, n) ==
  [i \in 1..n |-> IF i <= Len(bytes) THEN bytes[i] ELSE 0]

-----------------------------------------------------------------------------
(* Writing.                                                                *)

\* Mutant of makeSpace: the data is moved although it does not leave room.
makeSpaceTight(b, len) ==
  IF writableBytes(b) + prependableBytes(b) < len
  THEN [b EXCEPT !.bytes = Resize(@, b.writer + len)]
  ELSE [bytes |-> Copy(b.bytes, kCheapPrepend, Content(b)),
        reader |-> kCheapPrepend, writer |-> kCheapPrepend + readableBytes(b)]

\* Mutant of makeSpace: the indices move and the data does not.
makeSpaceUncopied(b, len) ==
  IF writableBytes(b) + prependableBytes(b) < len + kCheapPrepend
  THEN [b EXCEPT !.bytes = Resize(@, b.writer + len)]
  ELSE [b EXCEPT !.reader = kCheapPrepend,
                 !.writer = kCheapPrepend + readableBytes(b)]

makeSpace(b, len) ==
  IF writableBytes(b) + prependableBytes(b) < len + kCheapPrepend
  THEN [b EXCEPT !.bytes = Resize(@, b.writer + len)]
  ELSE [bytes |-> Copy(b.bytes, kCheapPrepend, Content(b)),
        reader |-> kCheapPrepend, writer |-> kCheapPrepend + readableBytes(b)]

ensureWritableBytes(b, len) ==
  IF writableBytes(b) < len THEN makeSpace(b, len) ELSE b

hasWritten(b, len) == [b EXCEPT !.writer = @ + len]

append(b, s) ==
  LET e == ensureWritableBytes(b, Len(s))
  IN  hasWritten([e EXCEPT !.bytes = Copy(@, e.writer, s)], Len(s))

prepend(b, s) ==
  [b EXCEPT !.reader = @ - Len(s),
            !.bytes = Copy(@, b.reader - Len(s), s)]

\* shrink(): a second buffer takes the content, and the two are swapped.
shrink(b, reserve) ==
  append(ensureWritableBytes(NewBuffer, readableBytes(b) + reserve),
         Content(b))

\* readFd(): readv() has filled the writable bytes with the front of data and
\* extrabuf with the rest.  Past extrabuf (readv does not go there) the code
\* does nothing.
readFd(b, data) ==
  LET writable == writableBytes(b)
      front == SubSeq(data, 1, writable)
      filled == [b EXCEPT !.bytes = Copy(@, b.writer, front)]
  IN  IF Len(data) <= writable
      THEN hasWritten([b EXCEPT !.bytes = Copy(@, b.writer, data)], Len(data))
      ELSE append([filled EXCEPT !.writer = Len(b.bytes)],
                  SubSeq(data, writable + 1, Len(data)))

\* How much readv() may return: two vectors only when the first is short.
ReadRoom(b) ==
  writableBytes(b) + (IF writableBytes(b) < ExtraBuf THEN ExtraBuf ELSE 0)

-----------------------------------------------------------------------------
(* Reading.                                                                *)

retrieveAll(b) ==
  [b EXCEPT !.reader = kCheapPrepend, !.writer = kCheapPrepend]

retrieve(b, len) ==
  IF len < readableBytes(b) THEN [b EXCEPT !.reader = @ + len]
  ELSE retrieveAll(b)

\* The smallest of a set of offsets, or NULL.
Least(S) ==
  IF S = {} THEN Nothing ELSE Offset(CHOOSE i \in S : \A j \in S : i <= j)

\* findCRLF(start): the offsets from BeginRead() where "\r\n" is found between
\* start and BeginWrite().
findCRLF(b, start) ==
  Least({i \in start..(readableBytes(b) - 2) :
           Content(b)[i + 1] = CR /\ Content(b)[i + 2] = LF})

\* findEOL(start): memchr over readableBytes() bytes from start, whatever the
\* distance of start from BeginRead().  Past the end of the vector the answer
\* may be anything.
findEOL(b, start) ==
  LET searched == b.reader + start + 1 .. b.reader + start + readableBytes(b)
      found == {i \in searched \cap (1..Len(b.bytes)) : b.bytes[i] = LF}
      offset == Least({i - b.reader - 1 : i \in found})
  IN  IF found = {} /\ ~(searched \subseteq 1..Len(b.bytes))
      THEN {Nothing} \cup
             {Offset(i - b.reader - 1) : i \in searched \ (1..Len(b.bytes))}
      ELSE {offset}

-----------------------------------------------------------------------------
(* Integers, in network order (src/cobra/endian.h).                        *)

IntSizes == {1, 2, 4}

\* ByteBase to the power n, for the sizes above.
Values(n) ==
  CASE n = 1 -> ByteBase
    [] n = 2 -> ByteBase * ByteBase
    [] OTHER -> ByteBase * ByteBase * ByteBase * ByteBase

\* int8_t, int16_t and int32_t
Ints(n) == -(Values(n) \div 2) .. (Values(n) - Values(n) \div 2 - 1)

\* What the memory of hostToNetwork16/32(x) holds: the most significant byte
\* first, of the two's complement of x.
hostToNetwork(x, n) ==
  CASE n = 1 -> <<x % ByteBase>>
    [] n = 2 -> <<(x \div ByteBase) % ByteBase, x % ByteBase>>
    [] OTHER -> <<(((x \div ByteBase) \div ByteBase) \div ByteBase) % ByteBase,
                  ((x \div ByteBase) \div ByteBase) % ByteBase,
                  (x \div ByteBase) % ByteBase, x % ByteBase>>

\* networkToHost16/32 of the bytes s, and the conversion to a signed integer.
Signed(u, n) == IF u \in Ints(n) THEN u ELSE u - Values(n)
networkToHost(s) ==
  LET n == Len(s)
      u == CASE n = 1 -> s[1]
             [] n = 2 -> s[1] * ByteBase + s[2]
             [] OTHER -> ((s[1] * ByteBase + s[2]) * ByteBase + s[3])
                           * ByteBase + s[4]
  IN  Signed(u, n)

peekInt(b, n) == networkToHost(SubSeq(Content(b), 1, n))

-----------------------------------------------------------------------------
(* The calls, within their assertions: a reader asks for no more than      *)
(* readableBytes(), prepend() for no more than prependableBytes().         *)

Init ==
  /\ buf = NewBuffer
  /\ result = Nothing

Room(s) == readableBytes(buf) + Len(s) <= MaxContent

AppendString(s) ==
  /\ Room(s)
  /\ buf' = append(buf, s)
  /\ result' = Nothing

AppendInt(x, n) == AppendString(hostToNetwork(x, n))

PrependString(s) ==
  /\ Room(s)
  /\ Len(s) <= prependableBytes(buf)
  /\ buf' = prepend(buf, s)
  /\ result' = Nothing

PrependInt(x, n) == PrependString(hostToNetwork(x, n))

ReadFd(s) ==
  /\ Room(s)
  /\ Len(s) <= ReadRoom(buf)
  /\ buf' = readFd(buf, s)
  /\ result' = Nothing

Shrink(reserve) ==
  /\ buf' = shrink(buf, reserve)
  /\ result' = Nothing

Retrieve(n) ==
  /\ n <= readableBytes(buf)
  /\ buf' = retrieve(buf, n)
  /\ result' = Nothing

RetrieveAll ==
  /\ buf' = retrieveAll(buf)
  /\ result' = Nothing

RetrieveAsString(n) ==
  /\ n <= readableBytes(buf)
  /\ result' = Bytes(SubSeq(Content(buf), 1, n))
  /\ buf' = retrieve(buf, n)

PeekInt(n) ==
  /\ n <= readableBytes(buf)
  /\ result' = Integer(peekInt(buf, n))
  /\ UNCHANGED buf

ReadInt(n) ==
  /\ n <= readableBytes(buf)
  /\ result' = Integer(peekInt(buf, n))
  /\ buf' = retrieve(buf, n)

FindCRLF(start) ==
  /\ start <= readableBytes(buf)
  /\ result' = findCRLF(buf, start)
  /\ UNCHANGED buf

FindEOL(start) ==
  /\ start <= readableBytes(buf)
  /\ result' \in findEOL(buf, start)
  /\ UNCHANGED buf

Next ==
  \/ \E s \in UNION {StringsOf(n) : n \in 0..MaxCall} :
       AppendString(s) \/ PrependString(s) \/ ReadFd(s)
  \/ \E n \in IntSizes : \E x \in Ints(n) : AppendInt(x, n) \/ PrependInt(x, n)
  \/ \E n \in 0..MaxContent :
       \/ n <= MaxCall /\ Shrink(n)
       \/ Retrieve(n) \/ RetrieveAsString(n)
       \/ FindCRLF(n) \/ FindEOL(n)
  \/ RetrieveAll
  \/ \E n \in IntSizes : PeekInt(n) \/ ReadInt(n)

Spec == Init /\ [][Next]_vars

-----------------------------------------------------------------------------
(* Properties.                                                             *)

\* The picture of buffer.h 20-27, the bound it leaves on the vector, and the
\* assertion of makeSpace (297): data is moved only towards the front, and only
\* to leave kCheapPrepend bytes in front of it.  Without prepend() the reserve
\* of kCheapPrepend bytes is always there.
BufferInv ==
  /\ buf.bytes \in Seq(Byte)
  /\ buf.reader \in Nat /\ buf.writer \in Nat
  /\ buf.reader <= buf.writer
  /\ buf.writer <= Len(buf.bytes)
  /\ kCheapPrepend <= Len(buf.bytes)
  /\ readableBytes(buf) <= MaxContent
  /\ Len(buf.bytes) <= kCheapPrepend + kInitialSize + 2 * MaxContent
  /\ \A len \in 0..MaxContent :
       /\ writableBytes(buf) < len
       /\ writableBytes(buf) + prependableBytes(buf) >= len + kCheapPrepend
       => kCheapPrepend < buf.reader

\* Through every mix of growth, moves, prepends, shrinks and reads that end in
\* extrabuf, the Buffer is the byte sequence of ByteQueue: readers get the bytes
\* in the order of the writes, and integers as they were written.
Queue == INSTANCE ByteQueue WITH
  content <- Content(buf),
  Encode <- hostToNetwork,
  EOL <- <<LF>>, CRLF <- <<CR, LF>>

QueueSpec == Queue!Spec

=============================================================================
