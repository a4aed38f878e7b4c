---------------------------- MODULE BufferProofs ----------------------------
(***************************************************************************)
(* The indices of a Buffer keep to its vector, the vector keeps to its     *)
(* bound, and what the readers see changes only at its two ends, for every *)
(* size of the vector, of extrabuf and of what callers hand over.          *)
(***************************************************************************)
EXTENDS Buffer, TLAPS, WellFoundedInduction

\* The picture of buffer.h, of any buffer.
Fits(b) ==
  /\ b.bytes \in Seq(Byte)
  /\ b.reader \in Nat /\ b.writer \in Nat
  /\ b.reader <= b.writer /\ b.writer <= Len(b.bytes)
  /\ kCheapPrepend <= Len(b.bytes)

\* A buffer is a record of three fields.
IsBuffer(b) == b = [bytes |-> b.bytes, reader |-> b.reader, writer |-> b.writer]

-----------------------------------------------------------------------------
(* The vector.                                                             *)

\* A sequence is the function of its elements.
LEMMA SeqIsFunction ==
  ASSUME NEW S, NEW q \in Seq(S), NEW n, n = Len(q)
  PROVE  q = [i \in 1..n |-> q[i]]
  OBVIOUS

\* std::copy leaves the length and writes bytes.
LEMMA CopyType ==
  ASSUME NEW bytes \in Seq(Byte), NEW s \in Seq(Byte), NEW at \in Nat
  PROVE  Copy(bytes, at, s) \in Seq(Byte) /\ Len(Copy(bytes, at, s)) = Len(bytes)
  <1> DEFINE c == Copy(bytes, at, s)
  <1>1. ASSUME NEW i \in 1..Len(bytes) PROVE
          (IF i \in (at + 1)..(at + Len(s)) THEN s[i - at] ELSE bytes[i]) \in Byte
    OBVIOUS
  <1>2. c \in [1..Len(bytes) -> Byte]
    BY <1>1 DEF Copy
  <1>3. QED
    BY <1>2

\* resize() leaves the length that was asked for.
LEMMA ResizeType ==
  ASSUME NEW bytes \in Seq(Byte), NEW n \in Nat
  PROVE  Resize(bytes, n) \in Seq(Byte) /\ Len(Resize(bytes, n)) = n
  <1>1. 0 \in Byte
    BY BufferAssumption DEF Byte
  <1>2. Resize(bytes, n) \in [1..n -> Byte]
    BY <1>1 DEF Resize
  <1>3. QED
    BY <1>2

\* The readable bytes are bytes.
LEMMA ContentType ==
  ASSUME NEW b, Fits(b)
  PROVE  /\ readableBytes(b) \in Nat
         /\ Content(b) \in Seq(Byte) /\ Len(Content(b)) = readableBytes(b)
  <1>1. readableBytes(b) \in Nat
    BY DEF Fits, readableBytes
  <1>2. ASSUME NEW i \in 1..readableBytes(b) PROVE b.bytes[b.reader + i] \in Byte
    BY <1>1 DEF Fits, readableBytes
  <1>3. Content(b) \in [1..readableBytes(b) -> Byte]
    BY <1>2 DEF Content
  <1>4. QED
    BY <1>1, <1>3

-----------------------------------------------------------------------------
(* Making room.                                                            *)

\* The vector only grows when it has no room even after a move.
LEMMA GrowthBound ==
  ASSUME NEW length \in Nat, NEW w \in Nat, NEW r \in Nat, NEW len \in Nat,
         NEW k \in Nat, w <= length, length - w + r < len + k
  PROVE  w + len < k + (w - r) + 2 * len
  OBVIOUS

\* makeSpace makes the room that is asked for, by a move or by growing to less
\* than the content and twice the request; the content stays.
LEMMA MakeSpace ==
  ASSUME NEW b, IsBuffer(b), Fits(b), NEW len \in Nat, writableBytes(b) < len
  PROVE  LET e == makeSpace(b, len)
         IN  /\ IsBuffer(e) /\ Fits(e)
             /\ writableBytes(e) >= len
             /\ readableBytes(e) = readableBytes(b)
             /\ Content(e) = Content(b)
             /\ \/ Len(e.bytes) = Len(b.bytes)
                \/ /\ Len(e.bytes) = b.writer + len
                   /\ Len(e.bytes) < kCheapPrepend + readableBytes(b) + 2 * len
  <1> DEFINE e == makeSpace(b, len)
             r == readableBytes(b)
  <1>1. r \in Nat /\ Content(b) \in Seq(Byte) /\ Len(Content(b)) = r
    BY ContentType
  <1>2. kCheapPrepend \in Nat
    BY BufferAssumption
  <1>3. CASE writableBytes(b) + prependableBytes(b) < len + kCheapPrepend
    <2>1. e = [b EXCEPT !.bytes = Resize(b.bytes, b.writer + len)]
      BY <1>3 DEF makeSpace
    <2>2. /\ e.bytes = Resize(b.bytes, b.writer + len)
          /\ e.reader = b.reader /\ e.writer = b.writer /\ IsBuffer(e)
      BY <2>1 DEF IsBuffer
    <2>3. b.writer + len \in Nat
      BY DEF Fits
    <2>4. e.bytes \in Seq(Byte) /\ Len(e.bytes) = b.writer + len
      BY <2>2, <2>3, ResizeType DEF Fits
    <2>5. Len(b.bytes) \in Nat
      BY DEF Fits
    <2>6. Fits(e)
      BY <1>2, <1>3, <2>2, <2>4, <2>5
      DEF Fits, writableBytes, prependableBytes
    <2>7. writableBytes(e) >= len /\ readableBytes(e) = r
      BY <2>2, <2>4 DEF writableBytes, readableBytes, Fits
    <2>8. Len(e.bytes) < kCheapPrepend + r + 2 * len
      <3>1. b.reader \in Nat /\ b.writer \in Nat /\ b.writer <= Len(b.bytes)
        BY DEF Fits
      <3>2. Len(b.bytes) - b.writer + b.reader < len + kCheapPrepend
        BY <1>3 DEF writableBytes, prependableBytes
      <3>3. b.writer + len < kCheapPrepend + (b.writer - b.reader) + 2 * len
        BY <1>2, <2>5, <3>1, <3>2, GrowthBound, Zenon
      <3>4. QED
        BY <2>4, <3>3 DEF readableBytes
    <2>9. ASSUME NEW i \in 1..r PROVE e.bytes[e.reader + i] = b.bytes[b.reader + i]
      <3>1. b.reader + i \in 1..(b.writer + len) /\ b.reader + i <= Len(b.bytes)
        BY DEF Fits, readableBytes
      <3>2. Resize(b.bytes, b.writer + len)[b.reader + i] = b.bytes[b.reader + i]
        BY <3>1 DEF Resize
      <3>3. QED
        BY <2>2, <3>2
    <2>10. Content(e) = Content(b)
      BY <2>7, <2>9 DEF Content
    <2>11. QED
      BY <2>2, <2>4, <2>6, <2>7, <2>8, <2>10
  <1>4. CASE ~(writableBytes(b) + prependableBytes(b) < len + kCheapPrepend)
    <2>1. e = [bytes |-> Copy(b.bytes, kCheapPrepend, Content(b)),
               reader |-> kCheapPrepend, writer |-> kCheapPrepend + r]
      BY <1>4 DEF makeSpace
    <2>2. IsBuffer(e)
      BY <2>1 DEF IsBuffer
    <2>3. e.bytes \in Seq(Byte) /\ Len(e.bytes) = Len(b.bytes)
      BY <1>1, <1>2, <2>1, CopyType DEF Fits
    <2>4. kCheapPrepend + r + len <= Len(b.bytes)
      BY <1>2, <1>4 DEF Fits, writableBytes, prependableBytes, readableBytes
    <2>5. Fits(e)
      BY <1>1, <1>2, <2>1, <2>3, <2>4 DEF Fits
    <2>6. writableBytes(e) >= len /\ readableBytes(e) = r
      <3>1. e.reader = kCheapPrepend /\ e.writer = kCheapPrepend + r
        BY <2>1
      <3>2. Len(b.bytes) \in Nat
        BY DEF Fits
      <3>3. /\ Len(b.bytes) - (kCheapPrepend + r) >= len
            /\ (kCheapPrepend + r) - kCheapPrepend = r
        <4> HIDE DEF e, r
        <4>1. QED
          BY <1>1, <1>2, <2>4, <3>2
      <3>4. QED
        BY <2>3, <3>1, <3>3, Zenon DEF writableBytes, readableBytes
    <2>7. ASSUME NEW i \in 1..r PROVE e.bytes[e.reader + i] = Content(b)[i]
      BY <1>1, <1>2, <2>1, <2>4 DEF Copy, Fits
    <2>8. Content(e) = Content(b)
      BY <2>6, <2>7, <1>1 DEF Content
    <2>9. QED
      BY <2>2, <2>3, <2>5, <2>6, <2>8
  <1>5. QED
    BY <1>3, <1>4

\* ensureWritableBytes, of a buffer that has the room or has not.
LEMMA EnsureWritable ==
  ASSUME NEW b, IsBuffer(b), Fits(b), NEW len \in Nat
  PROVE  LET e == ensureWritableBytes(b, len)
         IN  /\ IsBuffer(e) /\ Fits(e)
             /\ writableBytes(e) >= len
             /\ readableBytes(e) = readableBytes(b)
             /\ Content(e) = Content(b)
             /\ \/ Len(e.bytes) = Len(b.bytes)
                \/ /\ Len(e.bytes) = b.writer + len
                   /\ Len(e.bytes) < kCheapPrepend + readableBytes(b) + 2 * len
  <1>1. CASE writableBytes(b) < len
    BY <1>1, MakeSpace DEF ensureWritableBytes
  <1>2. CASE ~(writableBytes(b) < len)
    <2>1. ensureWritableBytes(b, len) = b
      BY <1>2 DEF ensureWritableBytes
    <2>2. writableBytes(b) >= len
      BY <1>2 DEF writableBytes, Fits
    <2>3. QED
      BY <2>1, <2>2
  <1>3. QED
    BY <1>1, <1>2

-----------------------------------------------------------------------------
(* Writing.                                                                *)

\* Where the i-th of r readable bytes and n new ones is.
LEMMA InsideVector ==
  ASSUME NEW reader \in Nat, NEW writer \in Nat, NEW r \in Nat, NEW n \in Nat,
         NEW size \in Nat, reader + r = writer, writer + n <= size,
         NEW i \in 1..(r + n)
  PROVE  reader + i \in 1..size
  OBVIOUS

\* What was readable is not written over,
LEMMA NotWritten ==
  ASSUME NEW reader \in Nat, NEW writer \in Nat, NEW r \in Nat, NEW n \in Nat,
         reader + r = writer, NEW i \in 1..(r + n), i <= r
  PROVE  ~(reader + i \in (writer + 1)..(writer + n))
  OBVIOUS

\* and what is new is written.
LEMMA IsWritten ==
  ASSUME NEW reader \in Nat, NEW writer \in Nat, NEW r \in Nat, NEW n \in Nat,
         reader + r = writer, NEW i \in 1..(r + n), ~(i <= r)
  PROVE  reader + i \in (writer + 1)..(writer + n)
  OBVIOUS

\* What is copied to BeginWrite() and counted is at the end of the content.
LEMMA WriteAtEnd ==
  ASSUME NEW b, IsBuffer(b), Fits(b), NEW s \in Seq(Byte),
         Len(s) <= writableBytes(b)
  PROVE  LET w == hasWritten([b EXCEPT !.bytes = Copy(b.bytes, b.writer, s)], Len(s))
         IN  /\ IsBuffer(w) /\ Fits(w)
             /\ w.reader = b.reader /\ w.writer = b.writer + Len(s)
             /\ readableBytes(w) = readableBytes(b) + Len(s)
             /\ Content(w) = Content(b) \o s
             /\ Len(w.bytes) = Len(b.bytes)
  <1> DEFINE w == hasWritten([b EXCEPT !.bytes = Copy(b.bytes, b.writer, s)], Len(s))
             r == readableBytes(b)
  <1>1. /\ w.bytes = Copy(b.bytes, b.writer, s)
        /\ w.reader = b.reader /\ w.writer = b.writer + Len(s) /\ IsBuffer(w)
    <2> DEFINE d == [b EXCEPT !.bytes = Copy(b.bytes, b.writer, s)]
    <2>1. d = [bytes |-> Copy(b.bytes, b.writer, s), reader |-> b.reader,
               writer |-> b.writer]
      BY DEF IsBuffer
    <2>2. w = [d EXCEPT !.writer = d.writer + Len(s)]
      BY DEF hasWritten
    <2> HIDE DEF d
    <2>3. w = [bytes |-> Copy(b.bytes, b.writer, s), reader |-> b.reader,
               writer |-> b.writer + Len(s)]
      BY <2>1, <2>2
    <2>4. QED
      BY <2>3 DEF IsBuffer
  <1>2. w.bytes \in Seq(Byte) /\ Len(w.bytes) = Len(b.bytes)
    <2>1. b.bytes \in Seq(Byte) /\ b.writer \in Nat
      BY DEF Fits
    <2>2. /\ Copy(b.bytes, b.writer, s) \in Seq(Byte)
          /\ Len(Copy(b.bytes, b.writer, s)) = Len(b.bytes)
      BY <2>1, CopyType
    <2>3. QED
      BY <1>1, <2>2
  <1>3. Len(s) \in Nat
    OBVIOUS
  <1>4. Fits(w)
    <2>1. /\ b.reader \in Nat /\ b.writer \in Nat /\ Len(b.bytes) \in Nat
          /\ b.reader <= b.writer /\ kCheapPrepend <= Len(b.bytes)
      BY DEF Fits
    <2>2. b.writer + Len(s) <= Len(b.bytes)
      BY <1>3, <2>1 DEF writableBytes
    <2>3. b.reader <= b.writer + Len(s) /\ b.writer + Len(s) \in Nat
      BY <1>3, <2>1
    <2>4. QED
      BY <1>1, <1>2, <2>1, <2>2, <2>3, Zenon DEF Fits
  <1>5. readableBytes(w) = r + Len(s)
    BY <1>1, <1>3 DEF readableBytes, Fits
  <1>6. r \in Nat /\ Content(b) \in Seq(Byte) /\ Len(Content(b)) = r
    BY ContentType
  <1>7. ASSUME NEW i \in 1..(r + Len(s)) PROVE w.bytes[w.reader + i] = (Content(b) \o s)[i]
    <2>1. b.reader + r = b.writer /\ b.reader \in Nat /\ b.writer \in Nat
      BY DEF readableBytes, Fits
    <2>2. b.reader + i \in 1..Len(b.bytes)
      <3>1. b.writer + Len(s) <= Len(b.bytes) /\ Len(b.bytes) \in Nat
        BY <1>3, <2>1 DEF writableBytes, Fits
      <3>2. QED
        BY <1>3, <1>6, <2>1, <3>1, InsideVector, Zenon
    <2>3. CASE i <= r
      <3>1. ~(b.reader + i \in (b.writer + 1)..(b.writer + Len(s)))
        BY <1>3, <1>6, <2>1, <2>3, NotWritten, Zenon
      <3>2. w.bytes[w.reader + i] = b.bytes[b.reader + i]
        BY <1>1, <2>2, <3>1 DEF Copy
      <3>3. Content(b)[i] = b.bytes[b.reader + i]
        BY <1>6, <2>3 DEF Content
      <3>4. (Content(b) \o s)[i] = Content(b)[i]
        BY <1>6, <2>3
      <3>5. QED
        BY <3>2, <3>3, <3>4
    <2>4. CASE ~(i <= r)
      <3>1. b.reader + i \in (b.writer + 1)..(b.writer + Len(s))
        BY <1>3, <1>6, <2>1, <2>4, IsWritten, Zenon
      <3>2. Copy(b.bytes, b.writer, s)[b.reader + i] = s[(b.reader + i) - b.writer]
        BY <2>2, <3>1, Zenon DEF Copy
      <3>3. (b.reader + i) - b.writer = i - r
        BY <1>6, <2>1
      <3>4. (Content(b) \o s)[i] = s[i - r]
        BY <1>3, <1>6, <2>4
      <3>5. QED
        BY <1>1, <3>2, <3>3, <3>4
    <2>5. QED
      BY <2>3, <2>4, Zenon
  <1>8. Content(w) = Content(b) \o s
    <2>1. Content(w) = [i \in 1..(r + Len(s)) |-> (Content(b) \o s)[i]]
      BY <1>5, <1>7, Zenon DEF Content
    <2>2. Content(b) \o s \in Seq(Byte) /\ Len(Content(b) \o s) = r + Len(s)
      BY <1>6
    <2>3. QED
      BY <2>1, <2>2, SeqIsFunction, Zenon
  <1>9. QED
    BY <1>1, <1>2, <1>4, <1>5, <1>8, Zenon

\* append() adds to the end of the content, wherever that comes to lie.
LEMMA AppendKeeps ==
  ASSUME NEW b, IsBuffer(b), Fits(b), NEW s \in Seq(Byte)
  PROVE  LET a == append(b, s)
         IN  /\ IsBuffer(a) /\ Fits(a)
             /\ readableBytes(a) = readableBytes(b) + Len(s)
             /\ Content(a) = Content(b) \o s
             /\ \/ Len(a.bytes) = Len(b.bytes)
                \/ Len(a.bytes) < kCheapPrepend + readableBytes(b) + 2 * Len(s)
  <1> DEFINE e == ensureWritableBytes(b, Len(s))
  <1>1. Len(s) \in Nat
    OBVIOUS
  <1>2. /\ IsBuffer(e) /\ Fits(e)
        /\ writableBytes(e) >= Len(s)
        /\ readableBytes(e) = readableBytes(b)
        /\ Content(e) = Content(b)
        /\ \/ Len(e.bytes) = Len(b.bytes)
           \/ Len(e.bytes) < kCheapPrepend + readableBytes(b) + 2 * Len(s)
    BY <1>1, EnsureWritable
  <1>3. append(b, s) = hasWritten([e EXCEPT !.bytes = Copy(e.bytes, e.writer, s)], Len(s))
    BY DEF append
  <1> HIDE DEF e
  <1>4. Len(s) <= writableBytes(e)
    BY <1>1, <1>2 DEF writableBytes, Fits
  <1> DEFINE w == hasWritten([e EXCEPT !.bytes = Copy(e.bytes, e.writer, s)], Len(s))
  <1>5. /\ IsBuffer(w) /\ Fits(w)
        /\ readableBytes(w) = readableBytes(e) + Len(s)
        /\ Content(w) = Content(e) \o s
        /\ Len(w.bytes) = Len(e.bytes)
    BY <1>2, <1>4, WriteAtEnd, Zenon
  <1> HIDE DEF w
  <1>6. append(b, s) = w
    BY <1>3 DEF w
  <1>7. QED
    BY <1>2, <1>5, <1>6

\* prepend() adds to the front, within the prependable bytes.
LEMMA PrependKeeps ==
  ASSUME NEW b, IsBuffer(b), Fits(b), NEW s \in Seq(Byte),
         Len(s) <= prependableBytes(b)
  PROVE  LET p == prepend(b, s)
         IN  /\ IsBuffer(p) /\ Fits(p)
             /\ readableBytes(p) = readableBytes(b) + Len(s)
             /\ Content(p) = s \o Content(b)
             /\ Len(p.bytes) = Len(b.bytes)
  <1> DEFINE p == prepend(b, s)
             n == Len(s)
             at == b.reader - n
             r == readableBytes(b)
  <1>1. /\ p.bytes = Copy(b.bytes, at, s)
        /\ p.reader = at /\ p.writer = b.writer /\ IsBuffer(p)
    <2>1. p = [b EXCEPT !.reader = at, !.bytes = Copy(b.bytes, at, s)]
      BY DEF prepend
    <2> HIDE DEF p, at
    <2>2. p = [bytes |-> Copy(b.bytes, at, s), reader |-> at, writer |-> b.writer]
      BY <2>1, Zenon DEF IsBuffer
    <2>3. QED
      BY <2>2 DEF IsBuffer
  <1>2. /\ b.bytes \in Seq(Byte) /\ b.reader \in Nat /\ b.writer \in Nat
        /\ n \in Nat /\ n <= b.reader /\ at \in Nat
        /\ b.reader <= b.writer /\ b.writer <= Len(b.bytes) /\ Len(b.bytes) \in Nat
    BY DEF Fits, prependableBytes
  <1>3. p.bytes \in Seq(Byte) /\ Len(p.bytes) = Len(b.bytes)
    <2>1. /\ Copy(b.bytes, at, s) \in Seq(Byte)
          /\ Len(Copy(b.bytes, at, s)) = Len(b.bytes)
      BY <1>2, CopyType
    <2>2. QED
      BY <1>1, <2>1
  <1>4. at + n = b.reader /\ b.reader + r = b.writer /\ r \in Nat
    BY <1>2 DEF readableBytes
  <1>5. Content(b) \in Seq(Byte) /\ Len(Content(b)) = r
    BY ContentType
  <1> HIDE DEF p, n, at, r
  <1>6. Fits(p)
    BY <1>1, <1>2, <1>3, <1>4 DEF Fits
  <1>7. readableBytes(p) = n + r
    BY <1>1, <1>2, <1>4 DEF readableBytes
  <1>8. ASSUME NEW i \in 1..(n + r) PROVE p.bytes[p.reader + i] = (s \o Content(b))[i]
    <2>1. at + i \in 1..Len(b.bytes)
      BY <1>2, <1>4
    <2>2. CASE i <= n
      <3>1. at + i \in (at + 1)..(at + Len(s)) /\ (at + i) - at = i
        BY <1>2, <2>2 DEF n
      <3>2. Copy(b.bytes, at, s)[at + i] = s[(at + i) - at]
        BY <2>1, <3>1, Zenon DEF Copy
      <3>3. (s \o Content(b))[i] = s[i]
        BY <1>2, <1>5, <2>2 DEF n
      <3>4. QED
        BY <1>1, <3>1, <3>2, <3>3
    <2>3. CASE ~(i <= n)
      <3>1. ~(at + i \in (at + 1)..(at + Len(s)))
        BY <1>2, <2>3 DEF n
      <3>2. Copy(b.bytes, at, s)[at + i] = b.bytes[at + i]
        BY <2>1, <3>1, Zenon DEF Copy
      <3>3. (s \o Content(b))[i] = Content(b)[i - n]
        BY <1>2, <1>4, <1>5, <2>3 DEF n
      <3>4. i - n \in 1..r /\ b.reader + (i - n) = at + i
        BY <1>2, <1>4, <2>3
      <3>5. Content(b)[i - n] = b.bytes[at + i]
        BY <3>4 DEF Content, r
      <3>6. QED
        BY <1>1, <3>2, <3>3, <3>5
    <2>4. QED
      BY <2>2, <2>3, Zenon
  <1>9. Content(p) = s \o Content(b)
    <2>1. Content(p) = [i \in 1..(n + r) |-> (s \o Content(b))[i]]
      BY <1>7, <1>8, Zenon DEF Content
    <2>2. s \o Content(b) \in Seq(Byte)
      BY <1>5
    <2>3. Len(s \o Content(b)) = Len(s) + Len(Content(b))
      BY <1>5
    <2>4. n + r = Len(s \o Content(b))
      BY <1>5, <2>3 DEF n
    <2>5. QED
      BY <2>1, <2>2, <2>4, SeqIsFunction, Zenon
  <1>10. readableBytes(p) = r + Len(s)
    BY <1>2, <1>4, <1>7 DEF n
  <1>11. QED
    BY <1>1, <1>3, <1>6, <1>9, <1>10 DEF p, r

\* retrieve() takes from the front.
LEMMA RetrieveKeeps ==
  ASSUME NEW b, IsBuffer(b), Fits(b), NEW n \in Nat, n <= readableBytes(b)
  PROVE  LET e == retrieve(b, n)
         IN  /\ IsBuffer(e) /\ Fits(e)
             /\ readableBytes(e) = readableBytes(b) - n
             /\ Content(e) = SubSeq(Content(b), n + 1, Len(Content(b)))
             /\ e.bytes = b.bytes
  <1> DEFINE e == retrieve(b, n)
             r == readableBytes(b)
  <1>1. r \in Nat /\ Content(b) \in Seq(Byte) /\ Len(Content(b)) = r
    BY ContentType
  <1>2. kCheapPrepend \in Nat
    BY BufferAssumption
  <1>3. CASE n < r
    <2>1. e = [b EXCEPT !.reader = b.reader + n]
      BY <1>3 DEF retrieve
    <2>2. /\ e.bytes = b.bytes /\ e.reader = b.reader + n /\ e.writer = b.writer
          /\ IsBuffer(e)
      BY <2>1 DEF IsBuffer
    <2> HIDE DEF e
    <2>3. Fits(e)
      BY <1>3, <2>2 DEF Fits, readableBytes
    <2>4. readableBytes(e) = r - n
      BY <2>2 DEF Fits, readableBytes
    <2>5. ASSUME NEW i \in 1..(r - n) PROVE e.bytes[e.reader + i] = Content(b)[n + i]
      <3>1. n + i \in 1..r /\ (b.reader + n) + i = b.reader + (n + i)
        BY <1>1, <1>3 DEF Fits
      <3>2. QED
        BY <2>2, <3>1 DEF Content
    <2>6. Content(e) = [i \in 1..(r - n) |-> Content(b)[n + i]]
      BY <2>4, <2>5 DEF Content
    <2>7. SubSeq(Content(b), n + 1, Len(Content(b))) = [i \in 1..(r - n) |-> Content(b)[n + i]]
      BY <1>1, <1>3
    <2>8. QED
      BY <2>2, <2>3, <2>4, <2>6, <2>7 DEF e
  <1>4. CASE ~(n < r)
    <2>1. e = [b EXCEPT !.reader = kCheapPrepend, !.writer = kCheapPrepend]
      BY <1>4 DEF retrieve, retrieveAll
    <2>2. /\ e.bytes = b.bytes /\ e.reader = kCheapPrepend /\ e.writer = kCheapPrepend
          /\ IsBuffer(e)
      BY <2>1, Zenon DEF IsBuffer
    <2> HIDE DEF e
    <2>3. n = r
      BY <1>1, <1>4
    <2>4. Fits(e)
      BY <1>2, <2>2 DEF Fits
    <2>5. readableBytes(e) = 0 /\ r - n = 0
      BY <1>1, <1>2, <2>2, <2>3 DEF readableBytes
    <2>6. Content(e) = << >>
      BY <2>5 DEF Content
    <2>7. SubSeq(Content(b), n + 1, Len(Content(b))) = << >>
      BY <1>1, <2>3
    <2>8. QED
      BY <2>2, <2>4, <2>5, <2>6, <2>7, Zenon DEF e
  <1>5. QED
    BY <1>3, <1>4

\* The length of a concatenation.
LEMMA ConcatLen ==
  ASSUME NEW S, NEW p \in Seq(S), NEW q \in Seq(S)
  PROVE  Len(p \o q) = Len(p) + Len(q)
  OBVIOUS

\* Concatenation is associative.
LEMMA ConcatAssociative ==
  ASSUME NEW p \in Seq(Byte), NEW q \in Seq(Byte), NEW s \in Seq(Byte)
  PROVE  (p \o q) \o s = p \o (q \o s)
  OBVIOUS

\* A sequence is its front and its rest.
LEMMA SplitJoin ==
  ASSUME NEW S, NEW q \in Seq(S), NEW n \in 0..Len(q)
  PROVE  SubSeq(q, 1, n) \o SubSeq(q, n + 1, Len(q)) = q
  <1> DEFINE front == SubSeq(q, 1, n)
             rest == SubSeq(q, n + 1, Len(q))
  <1>1. front \in Seq(S) /\ Len(front) = n
    OBVIOUS
  <1>2. rest \in Seq(S) /\ Len(rest) = Len(q) - n
    OBVIOUS
  <1>3. ASSUME NEW i \in 1..n PROVE front[i] = q[i]
    OBVIOUS
  <1>4. ASSUME NEW i \in 1..(Len(q) - n) PROVE rest[i] = q[n + i]
    OBVIOUS
  <1> HIDE DEF front, rest
  <1>5. front \o rest \in Seq(S) /\ Len(front \o rest) = Len(q)
    <2>1. front \o rest \in Seq(S)
      BY <1>1, <1>2
    <2>2. Len(front \o rest) = Len(front) + Len(rest)
      BY <1>1, <1>2, ConcatLen, Zenon
    <2>3. n + (Len(q) - n) = Len(q)
      OBVIOUS
    <2>4. QED
      BY <1>1, <1>2, <2>1, <2>2, <2>3, Zenon
  <1>6. ASSUME NEW i \in 1..Len(q) PROVE (front \o rest)[i] = q[i]
    <2>1. CASE i <= n
      <3>1. i \in 1..n
        BY <2>1
      <3>2. (front \o rest)[i] = front[i]
        BY <1>1, <1>2, <3>1
      <3>3. QED
        BY <1>3, <3>1, <3>2, Zenon
    <2>2. CASE ~(i <= n)
      <3>1. i - n \in 1..(Len(q) - n) /\ n + (i - n) = i
        BY <2>2
      <3>2. (front \o rest)[i] = rest[i - n]
        BY <1>1, <1>2, <2>2
      <3>3. QED
        BY <1>4, <3>1, <3>2, Zenon
    <2>3. QED
      BY <2>1, <2>2, Zenon
  <1>7. front \o rest = [i \in 1..Len(q) |-> (front \o rest)[i]]
    BY <1>5, SeqIsFunction, Zenon
  <1>8. q = [i \in 1..Len(q) |-> q[i]]
    BY SeqIsFunction
  <1>9. QED
    BY <1>6, <1>7, <1>8, Zenon DEF front, rest

\* readFd() adds what was read, though a part of it came by way of extrabuf.
LEMMA ReadFdKeeps ==
  ASSUME NEW b, IsBuffer(b), Fits(b), NEW data \in Seq(Byte)
  PROVE  LET a == readFd(b, data)
         IN  /\ IsBuffer(a) /\ Fits(a)
             /\ readableBytes(a) = readableBytes(b) + Len(data)
             /\ Content(a) = Content(b) \o data
             /\ \/ Len(a.bytes) = Len(b.bytes)
                \/ Len(a.bytes) < kCheapPrepend + readableBytes(b) + 2 * Len(data)
  <1> DEFINE a == readFd(b, data)
             w == writableBytes(b)
             r == readableBytes(b)
  <1>1. /\ w \in Nat /\ Len(data) \in Nat /\ r \in Nat
        /\ b.writer \in Nat /\ b.writer + w = Len(b.bytes)
    BY DEF writableBytes, readableBytes, Fits
  <1>2. CASE Len(data) <= w
    <2>1. a = hasWritten([b EXCEPT !.bytes = Copy(b.bytes, b.writer, data)], Len(data))
      BY <1>2 DEF readFd
    <2> DEFINE f == hasWritten([b EXCEPT !.bytes = Copy(b.bytes, b.writer, data)], Len(data))
    <2>2. /\ IsBuffer(f) /\ Fits(f)
          /\ readableBytes(f) = readableBytes(b) + Len(data)
          /\ Content(f) = Content(b) \o data
          /\ Len(f.bytes) = Len(b.bytes)
      BY <1>2, WriteAtEnd, Zenon
    <2> HIDE DEF f, a
    <2>3. a = f
      BY <2>1 DEF f
    <2>4. QED
      BY <2>2, <2>3 DEF a
  <1>3. CASE ~(Len(data) <= w)
    <2> DEFINE front == SubSeq(data, 1, w)
               rest == SubSeq(data, w + 1, Len(data))
               d == [b EXCEPT !.bytes = Copy(b.bytes, b.writer, front)]
               f == hasWritten(d, Len(front))
    <2>1. front \in Seq(Byte) /\ Len(front) = w
      BY <1>1, <1>3
    <2>2. rest \in Seq(Byte) /\ Len(rest) = Len(data) - w
      BY <1>1, <1>3
    <2>3. front \o rest = data
      <3>1. w \in 0..Len(data)
        BY <1>1, <1>3
      <3> HIDE DEF w
      <3>2. QED
        BY <3>1, SplitJoin, Zenon
    <2>4. a = append([d EXCEPT !.writer = Len(b.bytes)], rest)
      BY <1>3 DEF readFd
    <2>5. f = [d EXCEPT !.writer = Len(b.bytes)]
      <3> HIDE DEF front, d
      <3>1. d.writer = b.writer
        BY DEF d, IsBuffer
      <3>2. f = [d EXCEPT !.writer = d.writer + Len(front)]
        BY DEF hasWritten
      <3>3. d.writer + Len(front) = Len(b.bytes)
        BY <1>1, <2>1, <3>1
      <3>4. QED
        BY <3>2, <3>3
    <2> HIDE DEF a, front, rest
    <2>6. /\ IsBuffer(f) /\ Fits(f)
          /\ readableBytes(f) = r + w
          /\ Content(f) = Content(b) \o front
          /\ Len(f.bytes) = Len(b.bytes)
      <3>1. Len(front) <= writableBytes(b)
        BY <1>1, <2>1
      <3>2. /\ IsBuffer(f) /\ Fits(f)
            /\ readableBytes(f) = readableBytes(b) + Len(front)
            /\ Content(f) = Content(b) \o front
            /\ Len(f.bytes) = Len(b.bytes)
        BY <2>1, <3>1, WriteAtEnd, Zenon
      <3>3. QED
        BY <2>1, <3>2, Zenon
    <2> HIDE DEF d, f
    <2>7. /\ IsBuffer(append(f, rest)) /\ Fits(append(f, rest))
          /\ readableBytes(append(f, rest)) = readableBytes(f) + Len(rest)
          /\ Content(append(f, rest)) = Content(f) \o rest
          /\ \/ Len(append(f, rest).bytes) = Len(f.bytes)
             \/ Len(append(f, rest).bytes) < kCheapPrepend + readableBytes(f) + 2 * Len(rest)
      BY <2>2, <2>6, AppendKeeps, Zenon
    <2>8. a = append(f, rest)
      BY <2>4, <2>5
    <2>9. Content(a) = Content(b) \o data
      <3>1. Content(b) \in Seq(Byte)
        BY ContentType
      <3>2. (Content(b) \o front) \o rest = Content(b) \o (front \o rest)
        BY <2>1, <2>2, <3>1, ConcatAssociative, Zenon
      <3>3. QED
        BY <2>3, <2>6, <2>7, <2>8, <3>2
    <2>10. readableBytes(a) = r + Len(data)
      BY <1>1, <2>2, <2>6, <2>7, <2>8
    <2>11. ASSUME NEW size \in Nat, size < kCheapPrepend + readableBytes(f) + 2 * Len(rest)
           PROVE  size < kCheapPrepend + r + 2 * Len(data)
      <3> HIDE DEF r, w
      <3>1. size < kCheapPrepend + (r + w) + 2 * (Len(data) - w)
        BY <2>2, <2>6, <2>11
      <3>2. QED
        BY <1>1, <3>1, BufferAssumption
    <2>12. Len(a.bytes) \in Nat
      BY <2>7, <2>8 DEF Fits
    <2>13. QED
      BY <2>6, <2>7, <2>8, <2>9, <2>10, <2>11, <2>12 DEF a
  <1>4. QED
    BY <1>2, <1>3

\* The constructor leaves an empty buffer with its room to write.
LEMMA NewBufferFits ==
  /\ IsBuffer(NewBuffer) /\ Fits(NewBuffer)
  /\ readableBytes(NewBuffer) = 0
  /\ Content(NewBuffer) = << >>
  /\ NewBuffer.writer = kCheapPrepend
  /\ Len(NewBuffer.bytes) = kCheapPrepend + kInitialSize
  <1>1. kCheapPrepend \in Nat /\ kInitialSize \in Nat
    BY BufferAssumption
  <1>2. 0 \in Byte
    BY BufferAssumption DEF Byte
  <1>3. /\ Zeros(kCheapPrepend + kInitialSize) \in Seq(Byte)
        /\ Len(Zeros(kCheapPrepend + kInitialSize)) = kCheapPrepend + kInitialSize
    BY <1>1, <1>2 DEF Zeros
  <1>4. /\ NewBuffer.bytes = Zeros(kCheapPrepend + kInitialSize)
        /\ NewBuffer.reader = kCheapPrepend /\ NewBuffer.writer = kCheapPrepend
        /\ IsBuffer(NewBuffer)
    BY DEF NewBuffer, IsBuffer
  <1>5. Fits(NewBuffer)
    BY <1>1, <1>3, <1>4 DEF Fits
  <1>6. readableBytes(NewBuffer) = 0
    BY <1>1, <1>4 DEF readableBytes
  <1>7. Content(NewBuffer) = << >>
    BY <1>6 DEF Content
  <1>8. QED
    BY <1>3, <1>4, <1>5, <1>6, <1>7

\* shrink() leaves the content, in a vector of its size and the reserve or of the
\* initial size.
LEMMA ShrinkKeeps ==
  ASSUME NEW b, IsBuffer(b), Fits(b), NEW reserve \in Nat
  PROVE  LET a == shrink(b, reserve)
         IN  /\ IsBuffer(a) /\ Fits(a)
             /\ readableBytes(a) = readableBytes(b)
             /\ Content(a) = Content(b)
             /\ \/ Len(a.bytes) = kCheapPrepend + kInitialSize
                \/ Len(a.bytes) = kCheapPrepend + (readableBytes(b) + reserve)
                \/ Len(a.bytes) < kCheapPrepend + 2 * readableBytes(b)
  <1> DEFINE r == readableBytes(b)
             e == ensureWritableBytes(NewBuffer, r + reserve)
             a == append(e, Content(b))
  <1>1. r \in Nat /\ Content(b) \in Seq(Byte) /\ Len(Content(b)) = r
    BY ContentType
  <1>2. r + reserve \in Nat
    BY <1>1
  <1>3. /\ IsBuffer(e) /\ Fits(e)
        /\ readableBytes(e) = 0 /\ Content(e) = << >>
        /\ \/ Len(e.bytes) = kCheapPrepend + kInitialSize
           \/ Len(e.bytes) = kCheapPrepend + (r + reserve)
    BY <1>2, NewBufferFits, EnsureWritable
  <1> HIDE DEF e
  <1>4. /\ IsBuffer(a) /\ Fits(a)
        /\ readableBytes(a) = 0 + r
        /\ Content(a) = << >> \o Content(b)
        /\ \/ Len(a.bytes) = Len(e.bytes)
           \/ Len(a.bytes) < kCheapPrepend + 0 + 2 * r
    BY <1>1, <1>3, AppendKeeps, Zenon
  <1>5. shrink(b, reserve) = a
    BY DEF shrink, e
  <1> HIDE DEF a
  <1>6. << >> \o Content(b) = Content(b)
    BY <1>1
  <1>7. 0 + r = r /\ kCheapPrepend + 0 + 2 * r = kCheapPrepend + 2 * r
    BY <1>1, BufferAssumption
  <1>8. QED
    BY <1>3, <1>4, <1>5, <1>6, <1>7

-----------------------------------------------------------------------------
(* Integers.                                                               *)

\* Division by the number of values of a byte leaves a byte.
LEMMA DivMod ==
  ASSUME NEW x \in Int
  PROVE  x % ByteBase \in Byte /\ x \div ByteBase \in Int
  <1>1. ByteBase \in Nat /\ ByteBase > 1
    BY BufferAssumption
  <1>2. x % ByteBase \in 0..(ByteBase - 1)
    BY <1>1
  <1>3. x \div ByteBase \in Int
    BY <1>1
  <1>4. QED
    BY <1>2, <1>3 DEF Byte

\* A multiple of the base and a byte are told apart by division.
LEMMA DivModUnique ==
  ASSUME NEW t \in Int, NEW c \in Byte
  PROVE  /\ (t * ByteBase + c) % ByteBase = c
         /\ (t * ByteBase + c) \div ByteBase = t
  <1>1. ByteBase \in Nat /\ ByteBase > 1
    BY BufferAssumption
  <1>2. c \in Int /\ 0 <= c /\ c < ByteBase
    BY <1>1 DEF Byte
  <1>3. (t * ByteBase + c) \div ByteBase = t
    BY <1>1, <1>2
  <1>4. (t * ByteBase + c) % ByteBase = c
    BY <1>1, <1>2
  <1>5. QED
    BY <1>3, <1>4

\* The integers of a size are integers.
LEMMA IntIsInt ==
  ASSUME NEW n \in IntSizes
  PROVE  Ints(n) \subseteq Int /\ Values(n) \in Nat /\ Values(n) > 1
  <1>1. ByteBase \in Nat /\ ByteBase > 1
    BY BufferAssumption
  <1>2. ASSUME NEW p \in Nat, p > 1 PROVE p * ByteBase \in Nat /\ p * ByteBase > 1
    BY <1>1, <1>2
  <1>3. ByteBase * ByteBase \in Nat /\ ByteBase * ByteBase > 1
    BY <1>1, <1>2
  <1>4. ByteBase * ByteBase * ByteBase \in Nat /\ ByteBase * ByteBase * ByteBase > 1
    BY <1>2, <1>3
  <1>5. /\ ByteBase * ByteBase * ByteBase * ByteBase \in Nat
        /\ ByteBase * ByteBase * ByteBase * ByteBase > 1
    BY <1>2, <1>4
  <1>6. Values(n) \in Nat /\ Values(n) > 1
    BY <1>1, <1>3, <1>5, Zenon DEF Values, IntSizes
  <1>7. Values(n) \div 2 \in Int
    BY <1>6
  <1>8. QED
    BY <1>6, <1>7 DEF Ints

\* Bytes that are written out are a sequence of bytes.
LEMMA TwoBytes ==
  ASSUME NEW c1 \in Byte, NEW c2 \in Byte
  PROVE  <<c1, c2>> \in Seq(Byte) /\ Len(<<c1, c2>>) = 2
  OBVIOUS

\* Four bytes, as well.
LEMMA FourBytes ==
  ASSUME NEW c1 \in Byte, NEW c2 \in Byte, NEW c3 \in Byte, NEW c4 \in Byte
  PROVE  <<c1, c2, c3, c4>> \in Seq(Byte) /\ Len(<<c1, c2, c3, c4>>) = 4
  OBVIOUS

\* The elements of a sequence of bytes are bytes.
LEMMA ElementOf ==
  ASSUME NEW q \in Seq(Byte), NEW i \in 1..Len(q)
  PROVE  q[i] \in Byte
  OBVIOUS

\* A sequence of four bytes is the tuple of them.
LEMMA FourIsTuple ==
  ASSUME NEW s \in Seq(Byte), Len(s) = 4
  PROVE  /\ s[1] \in Byte /\ s[2] \in Byte /\ s[3] \in Byte /\ s[4] \in Byte
         /\ s = <<s[1], s[2], s[3], s[4]>>
  <1>1. ASSUME NEW i \in 1..4 PROVE s[i] \in Byte
    <2>1. i \in 1..Len(s)
      OBVIOUS
    <2>2. QED
      BY <2>1, ElementOf, Zenon
  <1>2. s[1] \in Byte /\ s[2] \in Byte /\ s[3] \in Byte /\ s[4] \in Byte
    BY <1>1
  <1> DEFINE q == <<s[1], s[2], s[3], s[4]>>
  <1>3. q \in Seq(Byte) /\ Len(q) = 4
    BY <1>2, FourBytes
  <1>4. ASSUME NEW i \in 1..4 PROVE q[i] = s[i]
    <2>1. i = 1 \/ i = 2 \/ i = 3 \/ i = 4
      OBVIOUS
    <2>2. QED
      BY <2>1
  <1> HIDE DEF q
  <1>5. q = [i \in 1..4 |-> q[i]] /\ s = [i \in 1..4 |-> s[i]]
    BY <1>3, SeqIsFunction
  <1>6. q = s
    BY <1>4, <1>5
  <1>7. QED
    BY <1>2, <1>6 DEF q

\* hostToNetwork writes as many bytes as the integer has.
LEMMA EncodeType ==
  ASSUME NEW n \in IntSizes, NEW x \in Int
  PROVE  hostToNetwork(x, n) \in Seq(Byte) /\ Len(hostToNetwork(x, n)) = n
  <1>1. CASE n = 1
    BY <1>1, DivMod DEF hostToNetwork
  <1>2. CASE n = 2
    <2>1. x \div ByteBase \in Int /\ x % ByteBase \in Byte
      BY DivMod
    <2>2. (x \div ByteBase) % ByteBase \in Byte
      BY <2>1, DivMod
    <2>3. hostToNetwork(x, n) = <<(x \div ByteBase) % ByteBase, x % ByteBase>>
      BY <1>2 DEF hostToNetwork
    <2>4. QED
      BY <1>2, <2>1, <2>2, <2>3, TwoBytes, Zenon
  <1>3. CASE n = 4
    <2> DEFINE x1 == x \div ByteBase
               x2 == x1 \div ByteBase
               x3 == x2 \div ByteBase
    <2>1. x1 \in Int /\ x % ByteBase \in Byte
      BY DivMod
    <2>2. x2 \in Int /\ x1 % ByteBase \in Byte
      BY <2>1, DivMod
    <2>3. x3 \in Int /\ x2 % ByteBase \in Byte
      BY <2>2, DivMod
    <2>4. x3 % ByteBase \in Byte
      BY <2>3, DivMod
    <2>5. hostToNetwork(x, n) =
            <<x3 % ByteBase, x2 % ByteBase, x1 % ByteBase, x % ByteBase>>
      BY <1>3 DEF hostToNetwork
    <2> HIDE DEF x1, x2, x3
    <2>6. QED
      BY <1>3, <2>1, <2>2, <2>3, <2>4, <2>5, FourBytes, Zenon
  <1>4. QED
    BY <1>1, <1>2, <1>3 DEF IntSizes

-----------------------------------------------------------------------------
(* The calls.                                                              *)

\* The inductive invariant: a buffer that fits, within the bounds of what its
\* callers let gather.
Bounded(b) ==
  /\ IsBuffer(b) /\ Fits(b)
  /\ readableBytes(b) <= MaxContent
  /\ Len(b.bytes) <= kCheapPrepend + kInitialSize + 2 * MaxContent

\* What makeSpace() may allocate stays within the bound.
LEMMA SizeBound ==
  ASSUME NEW size \in Nat, NEW r \in Nat, NEW n \in Nat, r + n <= MaxContent,
         size < kCheapPrepend + r + 2 * n
  PROVE  size <= kCheapPrepend + kInitialSize + 2 * MaxContent
  BY BufferAssumption

\* A call that adds n bytes, in place or after makeSpace(), keeps the bounds.
LEMMA GrownBounded ==
  ASSUME NEW b, Bounded(b), NEW a, IsBuffer(a), Fits(a), NEW n \in Nat,
         readableBytes(b) + n <= MaxContent,
         readableBytes(a) = readableBytes(b) + n,
         \/ Len(a.bytes) = Len(b.bytes)
         \/ Len(a.bytes) < kCheapPrepend + readableBytes(b) + 2 * n
  PROVE  Bounded(a)
  <1>1. readableBytes(b) \in Nat
    BY ContentType DEF Bounded
  <1>2. Len(a.bytes) \in Nat
    BY DEF Fits
  <1>3. Len(a.bytes) <= kCheapPrepend + kInitialSize + 2 * MaxContent
    BY <1>1, <1>2, SizeBound DEF Bounded
  <1>4. QED
    BY <1>3 DEF Bounded

\* The strings that callers hand over are sequences of bytes.
LEMMA StringIsSeq ==
  ASSUME NEW m \in Nat, NEW s \in UNION {StringsOf(n) : n \in 0..m}
  PROVE  s \in Seq(Byte) /\ Len(s) \in 0..m
  <1>1. PICK n \in 0..m : s \in [1..n -> Byte]
    BY DEF StringsOf
  <1>2. QED
    BY <1>1

\* And a sequence of bytes of that length is one of them.
LEMMA SeqIsString ==
  ASSUME NEW s \in Seq(Byte), Len(s) <= MaxContent
  PROVE  s \in Strings
  <1>1. Len(s) \in 0..MaxContent
    BY BufferAssumption
  <1>2. s \in [1..Len(s) -> Byte]
    BY SeqIsFunction
  <1>3. QED
    BY <1>1, <1>2 DEF Strings, StringsOf

\* append() and readFd() add s at the end.
LEMMA AddStep ==
  ASSUME Bounded(buf), NEW s \in Seq(Byte), AppendString(s) \/ ReadFd(s)
  PROVE  /\ Bounded(buf') /\ result' = Nothing /\ s \in Strings
         /\ Content(buf') = Content(buf) \o s
  <1>1. IsBuffer(buf) /\ Fits(buf)
    BY DEF Bounded
  <1>2. Len(s) \in Nat /\ readableBytes(buf) \in Nat
    BY <1>1, ContentType
  <1>3. readableBytes(buf) + Len(s) <= MaxContent /\ result' = Nothing
    BY DEF AppendString, ReadFd, Room
  <1>4. /\ IsBuffer(buf') /\ Fits(buf')
        /\ readableBytes(buf') = readableBytes(buf) + Len(s)
        /\ Content(buf') = Content(buf) \o s
        /\ \/ Len(buf'.bytes) = Len(buf.bytes)
           \/ Len(buf'.bytes) < kCheapPrepend + readableBytes(buf) + 2 * Len(s)
    <2>1. CASE buf' = append(buf, s)
      BY <1>1, <2>1, AppendKeeps, Zenon
    <2>2. CASE buf' = readFd(buf, s)
      BY <1>1, <2>2, ReadFdKeeps, Zenon
    <2>3. QED
      BY <2>1, <2>2 DEF AppendString, ReadFd
  <1>5. Bounded(buf')
    BY <1>2, <1>3, <1>4, GrownBounded
  <1>6. Len(s) <= MaxContent
    BY <1>2, <1>3, BufferAssumption
  <1>7. QED
    BY <1>3, <1>4, <1>5, <1>6, SeqIsString

\* prepend() adds s in front.
LEMMA PrependStep ==
  ASSUME Bounded(buf), NEW s \in Seq(Byte), PrependString(s)
  PROVE  /\ Bounded(buf') /\ result' = Nothing /\ s \in Strings
         /\ Content(buf') = s \o Content(buf)
  <1>1. IsBuffer(buf) /\ Fits(buf)
    BY DEF Bounded
  <1>2. Len(s) \in Nat /\ readableBytes(buf) \in Nat
    BY <1>1, ContentType
  <1>3. readableBytes(buf) + Len(s) <= MaxContent /\ result' = Nothing
    BY DEF PrependString, Room
  <1>4. /\ IsBuffer(buf') /\ Fits(buf')
        /\ readableBytes(buf') = readableBytes(buf) + Len(s)
        /\ Content(buf') = s \o Content(buf)
        /\ Len(buf'.bytes) = Len(buf.bytes)
    BY <1>1, PrependKeeps DEF PrependString
  <1>5. Bounded(buf')
    BY <1>2, <1>3, <1>4, GrownBounded
  <1>6. Len(s) <= MaxContent
    BY <1>2, <1>3, BufferAssumption
  <1>7. QED
    BY <1>3, <1>4, <1>5, <1>6, SeqIsString

\* What shrink() allocates stays within it, too.
LEMMA ShrunkBound ==
  ASSUME NEW size \in Nat, NEW r \in Nat, r <= MaxContent, NEW n \in Nat, n <= MaxCall,
         \/ size = kCheapPrepend + kInitialSize
         \/ size = kCheapPrepend + (r + n)
         \/ size < kCheapPrepend + 2 * r
  PROVE  size <= kCheapPrepend + kInitialSize + 2 * MaxContent
  BY BufferAssumption

\* shrink() leaves the content.
LEMMA ShrinkStep ==
  ASSUME Bounded(buf), NEW n \in Nat, n <= MaxCall, Shrink(n)
  PROVE  Bounded(buf') /\ result' = Nothing /\ Content(buf') = Content(buf)
  <1>1. IsBuffer(buf) /\ Fits(buf)
    BY DEF Bounded
  <1>2. /\ IsBuffer(buf') /\ Fits(buf')
        /\ readableBytes(buf') = readableBytes(buf)
        /\ Content(buf') = Content(buf)
        /\ \/ Len(buf'.bytes) = kCheapPrepend + kInitialSize
           \/ Len(buf'.bytes) = kCheapPrepend + (readableBytes(buf) + n)
           \/ Len(buf'.bytes) < kCheapPrepend + 2 * readableBytes(buf)
    BY <1>1, ShrinkKeeps DEF Shrink
  <1>3. readableBytes(buf) \in Nat /\ readableBytes(buf) <= MaxContent
    BY <1>1, ContentType DEF Bounded
  <1>4. Len(buf'.bytes) \in Nat
    BY <1>2 DEF Fits
  <1>5. Len(buf'.bytes) <= kCheapPrepend + kInitialSize + 2 * MaxContent
    BY <1>2, <1>3, <1>4, ShrunkBound, Zenon
  <1>6. QED
    BY <1>2, <1>3, <1>5 DEF Bounded, Shrink

\* A call that takes n bytes from the front leaves the others.
LEMMA TakeStep ==
  ASSUME Bounded(buf), NEW n \in Nat, n <= readableBytes(buf),
         buf' = retrieve(buf, n)
  PROVE  /\ Bounded(buf')
         /\ Content(buf') = SubSeq(Content(buf), n + 1, Len(Content(buf)))
  <1>1. IsBuffer(buf) /\ Fits(buf)
    BY DEF Bounded
  <1>2. /\ IsBuffer(buf') /\ Fits(buf')
        /\ readableBytes(buf') = readableBytes(buf) - n
        /\ Content(buf') = SubSeq(Content(buf), n + 1, Len(Content(buf)))
        /\ buf'.bytes = buf.bytes
    BY <1>1, RetrieveKeeps
  <1>3. readableBytes(buf) \in Nat
    BY <1>1, ContentType
  <1>4. readableBytes(buf) - n <= MaxContent
    BY <1>3, BufferAssumption DEF Bounded
  <1>5. QED
    BY <1>2, <1>4 DEF Bounded

\* retrieveAll() takes all of them.
LEMMA TakeAll ==
  ASSUME NEW b, Fits(b)
  PROVE  retrieveAll(b) = retrieve(b, readableBytes(b))
  <1>1. readableBytes(b) \in Nat
    BY ContentType
  <1>2. ~(readableBytes(b) < readableBytes(b))
    BY <1>1
  <1>3. QED
    BY <1>2 DEF retrieve

\* Every call keeps the inductive invariant.
LEMMA BoundedStep ==
  ASSUME Bounded(buf), [Next]_vars
  PROVE  Bounded(buf)'
  <1>1. SUFFICES Bounded(buf')
    BY DEF Bounded, IsBuffer, Fits, readableBytes
  <1>2. MaxCall \in Nat /\ MaxContent \in Nat
    BY BufferAssumption
  <1>3. Fits(buf) /\ readableBytes(buf) \in Nat
    BY ContentType DEF Bounded
  <1>4. ASSUME NEW s \in UNION {StringsOf(n) : n \in 0..MaxCall},
               AppendString(s) \/ PrependString(s) \/ ReadFd(s)
        PROVE  Bounded(buf')
    <2>1. s \in Seq(Byte)
      BY <1>2, StringIsSeq
    <2>2. QED
      BY <1>4, <2>1, AddStep, PrependStep
  <1>5. ASSUME NEW n \in IntSizes, NEW x \in Ints(n), AppendInt(x, n) \/ PrependInt(x, n)
        PROVE  Bounded(buf')
    <2>1. hostToNetwork(x, n) \in Seq(Byte)
      BY IntIsInt, EncodeType
    <2>2. QED
      BY <1>5, <2>1, AddStep, PrependStep DEF AppendInt, PrependInt
  <1>6. ASSUME NEW n \in Nat, n <= MaxCall, Shrink(n) PROVE Bounded(buf')
    BY <1>6, ShrinkStep
  <1>7. ASSUME NEW n \in Nat, Retrieve(n) \/ RetrieveAsString(n) PROVE Bounded(buf')
    BY <1>7, TakeStep DEF Retrieve, RetrieveAsString
  <1>8. ASSUME NEW n \in IntSizes, ReadInt(n) PROVE Bounded(buf')
    <2>1. n \in Nat
      BY DEF IntSizes
    <2>2. QED
      BY <1>8, <2>1, TakeStep DEF ReadInt
  <1>9. ASSUME RetrieveAll PROVE Bounded(buf')
    BY <1>3, <1>9, TakeAll, TakeStep DEF RetrieveAll
  <1>10. ASSUME NEW n, FindCRLF(n) \/ FindEOL(n) \/ PeekInt(n) PROVE Bounded(buf')
    BY <1>10 DEF FindCRLF, FindEOL, PeekInt
  <1>11. CASE UNCHANGED vars
    BY <1>11 DEF vars
  <1>12. ASSUME NEW n \in 0..MaxContent PROVE n \in Nat
    BY <1>2
  <1>13. QED
    BY <1>4, <1>5, <1>6, <1>7, <1>8, <1>9, <1>10, <1>11, <1>12, Zenon DEF Next

\* Every state of a Buffer is bounded.
LEMMA AlwaysBounded == Spec => []Bounded(buf)
  <1>1. Init => Bounded(buf)
    BY NewBufferFits, BufferAssumption DEF Init, Bounded
  <1>2. Bounded(buf) /\ [Next]_vars => Bounded(buf)'
    BY BoundedStep
  <1>3. QED
    BY <1>1, <1>2, PTL DEF Spec

\* Whatever a connection appends, prepends, reads and shrinks, and whatever the
\* sizes of the vector and of extrabuf, the indices of buffer.h keep to the
\* picture, the vector keeps to twice what callers let gather, and makeSpace()
\* (buffer.h 297) moves data only towards the front.
THEOREM BufferSafe == Spec => []BufferInv
  <1>1. ASSUME Bounded(buf) PROVE BufferInv
    <2>1. /\ buf.bytes \in Seq(Byte)
          /\ buf.reader \in Nat /\ buf.writer \in Nat
          /\ buf.reader <= buf.writer /\ buf.writer <= Len(buf.bytes)
          /\ kCheapPrepend <= Len(buf.bytes)
      BY <1>1 DEF Bounded, Fits
    <2>2. /\ readableBytes(buf) <= MaxContent
          /\ Len(buf.bytes) <= kCheapPrepend + kInitialSize + 2 * MaxContent
      BY <1>1 DEF Bounded
    <2>3. ASSUME NEW len \in 0..MaxContent,
                 writableBytes(buf) < len,
                 writableBytes(buf) + prependableBytes(buf) >= len + kCheapPrepend
          PROVE  kCheapPrepend < buf.reader
      <3>1. writableBytes(buf) \in Nat /\ prependableBytes(buf) = buf.reader
        BY <2>1 DEF writableBytes, prependableBytes
      <3>2. QED
        BY <2>1, <2>3, <3>1, BufferAssumption
    <2>4. QED
      BY <2>1, <2>2, <2>3 DEF BufferInv
  <1>2. QED
    BY <1>1, AlwaysBounded, PTL

-----------------------------------------------------------------------------
(* What the calls return.                                                  *)

\* A set of offsets that is not empty has a smallest one.
LEMMA HasLeast ==
  ASSUME NEW S, S \subseteq Nat, S # {}
  PROVE  \E m \in S : (\A i \in S : m <= i) /\ Least(S) = Offset(m)
  <1>1. \E x \in S : \A y \in S : ~(<<y, x>> \in OpToRel(<, Nat))
    BY NatLessThanWellFounded, WFMin, Zenon
  <1>2. PICK x \in S : \A y \in S : ~(<<y, x>> \in OpToRel(<, Nat))
    BY <1>1, Zenon
  <1>3. ASSUME NEW y \in S PROVE x <= y
    <2>1. x \in Nat /\ y \in Nat
      OBVIOUS
    <2>2. ASSUME y < x PROVE FALSE
      <3>1. <<y, x>> \in Nat \X Nat /\ <<y, x>>[1] < <<y, x>>[2]
        BY <2>1, <2>2
      <3>2. <<y, x>> \in OpToRel(<, Nat)
        BY <3>1, Zenon DEF OpToRel
      <3>3. QED
        BY <1>2, <3>2, Zenon
    <2>3. QED
      BY <2>1, <2>2
  <1> DEFINE m == CHOOSE i \in S : \A j \in S : i <= j
  <1>4. m \in S /\ \A i \in S : m <= i
    BY <1>3, Zenon
  <1>5. Least(S) = Offset(m)
    BY DEF Least
  <1>6. QED
    BY <1>4, <1>5, Zenon

\* One more byte behind a number of at most V - 1 gives one below V times as much.
LEMMA Horner ==
  ASSUME NEW V \in Nat, NEW p \in 0..(V - 1), NEW c \in Byte
  PROVE  /\ V * ByteBase \in Nat
         /\ p * ByteBase + c \in 0..(V * ByteBase - 1)
  <1>1. ByteBase \in Nat /\ ByteBase > 1 /\ c \in 0..(ByteBase - 1)
    BY BufferAssumption DEF Byte
  <1>2. p * ByteBase \in Nat /\ V * ByteBase \in Nat
    BY <1>1
  <1>3. p * ByteBase + ByteBase <= V * ByteBase
    <2>1. (p + 1) * ByteBase <= V * ByteBase
      BY <1>1
    <2>2. (p + 1) * ByteBase = p * ByteBase + ByteBase
      BY <1>1
    <2>3. QED
      BY <2>1, <2>2
  <1>4. QED
    BY <1>1, <1>2, <1>3

\* Taking V from the number takes V times the base from the longer one.
LEMMA HornerMinus ==
  ASSUME NEW V \in Nat, NEW p \in Nat, NEW c \in Byte
  PROVE  (p - V) * ByteBase + c = (p * ByteBase + c) - V * ByteBase
  <1>1. ByteBase \in Nat /\ c \in Nat
    BY BufferAssumption DEF Byte
  <1>2. (p - V) * ByteBase = p * ByteBase - V * ByteBase
    BY <1>1
  <1>3. p * ByteBase \in Int /\ V * ByteBase \in Int
    BY <1>1
  <1>4. QED
    BY <1>1, <1>2, <1>3

\* The number the bytes spell out, or its two's complement, is of their size.
LEMMA SignedInt ==
  ASSUME NEW n \in IntSizes, NEW u \in 0..(Values(n) - 1)
  PROVE  /\ Signed(u, n) \in Ints(n)
         /\ Signed(u, n) = u \/ Signed(u, n) = u - Values(n)
  <1>1. Values(n) \in Nat /\ Values(n) > 1
    BY IntIsInt
  <1> DEFINE V == Values(n)
             h == V \div 2
  <1>2. h \in Nat /\ 2 * h <= V /\ V <= 2 * h + 1
    BY <1>1
  <1>3. Ints(n) = (-h)..(V - h - 1)
    BY DEF Ints
  <1> HIDE DEF V, h
  <1>4. u \in Nat /\ u < V /\ V \in Nat
    BY <1>1 DEF V
  <1>5. CASE u \in Ints(n)
    BY <1>5 DEF Signed
  <1>6. CASE ~(u \in Ints(n))
    <2>1. Signed(u, n) = u - V
      BY <1>6 DEF Signed, V
    <2>2. u > V - h - 1
      BY <1>2, <1>3, <1>4, <1>6
    <2>3. u - V \in (-h)..(V - h - 1)
      BY <1>2, <1>4, <2>2
    <2>4. QED
      BY <1>3, <2>1, <2>3 DEF V
  <1>7. QED
    BY <1>5, <1>6

\* The first byte, with or without the sign, is the first byte.
LEMMA HighByte ==
  ASSUME NEW c \in Byte, NEW t, t = c \/ t = c - ByteBase
  PROVE  t \in Int /\ t % ByteBase = c
  <1>1. ByteBase \in Nat /\ c \in Nat
    BY BufferAssumption DEF Byte
  <1>2. (0 * ByteBase + c) % ByteBase = c /\ ((-1) * ByteBase + c) % ByteBase = c
    BY DivModUnique
  <1>3. t = 0 * ByteBase + c \/ t = (-1) * ByteBase + c
    BY <1>1
  <1>4. QED
    BY <1>1, <1>2, <1>3

\* networkToHost gives an integer of the size whose encoding the bytes are.
LEMMA DecodeEncodes ==
  ASSUME NEW n \in IntSizes, NEW s \in Seq(Byte), Len(s) = n
  PROVE  networkToHost(s) \in Ints(n) /\ hostToNetwork(networkToHost(s), n) = s
  <1>1. ByteBase \in Nat /\ ByteBase > 1
    BY BufferAssumption
  <1> DEFINE B == ByteBase
             x == networkToHost(s)
  <1>2. ASSUME NEW c \in Byte PROVE c \in 0..(B - 1) /\ c \in Nat
    BY <1>1 DEF Byte
  <1>3. CASE n = 1
    <2>1. s[1] \in Byte /\ s = <<s[1]>>
      BY <1>3
    <2>2. Values(n) = B
      BY <1>3 DEF Values
    <2>3. x = Signed(s[1], n)
      BY <1>3 DEF networkToHost
    <2>4. s[1] \in 0..(Values(n) - 1)
      BY <1>2, <2>1, <2>2
    <2>5. x \in Ints(n) /\ (x = s[1] \/ x = s[1] - B)
      BY <2>2, <2>3, <2>4, SignedInt
    <2>6. x % B = s[1]
      BY <2>1, <2>5, HighByte
    <2>7. hostToNetwork(x, n) = <<x % B>>
      BY <1>3 DEF hostToNetwork
    <2>8. QED
      BY <2>1, <2>5, <2>6, <2>7, Zenon
  <1>4. CASE n = 2
    <2> DEFINE c1 == s[1]
               c2 == s[2]
               u == c1 * B + c2
    <2>1. c1 \in Byte /\ c2 \in Byte /\ s = <<c1, c2>>
      BY <1>4
    <2>2. Values(n) = B * B
      BY <1>4 DEF Values
    <2>3. x = Signed(u, n)
      BY <1>4 DEF networkToHost
    <2> HIDE DEF x, c1, c2
    <2>4. c1 \in 0..(B - 1) /\ c1 \in Nat
      BY <1>2, <2>1
    <2>5. u \in 0..(Values(n) - 1)
      BY <1>1, <2>1, <2>2, <2>4, Horner, Zenon
    <2>6. x \in Ints(n) /\ (x = u \/ x = u - B * B)
      BY <2>2, <2>3, <2>5, SignedInt
    <2>7. (c1 - B) * B + c2 = u - B * B
      BY <1>1, <2>1, <2>4, HornerMinus
    <2>8. \E t \in {c1, c1 - B} : x = t * B + c2
      BY <2>6, <2>7
    <2>9. PICK t \in {c1, c1 - B} : x = t * B + c2
      BY <2>8
    <2>10. t \in Int /\ t % B = c1
      BY <2>1, HighByte
    <2>11. x % B = c2 /\ x \div B = t
      BY <2>1, <2>9, <2>10, DivModUnique
    <2>12. hostToNetwork(x, n) = <<(x \div B) % B, x % B>>
      BY <1>4 DEF hostToNetwork
    <2>13. QED
      BY <2>1, <2>6, <2>10, <2>11, <2>12 DEF x
  <1>5. CASE n = 4
    <2> DEFINE c1 == s[1]
               c2 == s[2]
               c3 == s[3]
               c4 == s[4]
               u2 == c1 * B + c2
               u3 == u2 * B + c3
               u4 == u3 * B + c4
               V2 == B * B
               V3 == V2 * B
               V4 == V3 * B
    <2>1. /\ c1 \in Byte /\ c2 \in Byte /\ c3 \in Byte /\ c4 \in Byte
          /\ s = <<c1, c2, c3, c4>>
      BY <1>5, FourIsTuple
    <2>2. Values(n) = V4
      BY <1>5 DEF Values
    <2>3. x = Signed(u4, n)
      BY <1>5 DEF networkToHost
    <2> HIDE DEF x, c1, c2, c3, c4
    <2>4. c1 \in 0..(B - 1) /\ c1 \in Nat
      BY <1>2, <2>1
    <2>5. V2 \in Nat /\ u2 \in 0..(V2 - 1)
      BY <1>1, <2>1, <2>4, Horner, Zenon
    <2>6. u2 - V2 = (c1 - B) * B + c2
      BY <1>1, <2>1, <2>4, HornerMinus
    <2> HIDE DEF V2, u2
    <2>7. V3 \in Nat /\ u3 \in 0..(V3 - 1)
      BY <2>1, <2>5, Horner
    <2>8. u3 - V3 = (u2 - V2) * B + c3
      BY <2>1, <2>5, HornerMinus
    <2> HIDE DEF V3, u3
    <2>9. V4 \in Nat /\ u4 \in 0..(V4 - 1)
      BY <2>1, <2>7, Horner
    <2>10. u4 - V4 = (u3 - V3) * B + c4
      BY <2>1, <2>7, HornerMinus
    <2> HIDE DEF V4, u4
    <2>11. x \in Ints(n) /\ (x = u4 \/ x = u4 - V4)
      BY <2>2, <2>3, <2>9, SignedInt
    <2>12. \E t \in {c1, c1 - B} : x = ((t * B + c2) * B + c3) * B + c4
      <3>1. u4 = ((c1 * B + c2) * B + c3) * B + c4
        BY DEF u4, u3, u2
      <3>2. u4 - V4 = (((c1 - B) * B + c2) * B + c3) * B + c4
        BY <2>6, <2>8, <2>10
      <3>3. QED
        BY <2>11, <3>1, <3>2, Zenon
    <2>13. PICK t \in {c1, c1 - B} : x = ((t * B + c2) * B + c3) * B + c4
      BY <2>12
    <2>14. t \in Int /\ t % B = c1
      BY <2>1, HighByte
    <2> DEFINE t2 == t * B + c2
               t3 == t2 * B + c3
    <2>15. t2 \in Int /\ t2 % B = c2 /\ t2 \div B = t
      <3>1. t2 % B = c2 /\ t2 \div B = t
        BY <2>1, <2>14, DivModUnique, Zenon
      <3>2. t * B \in Int /\ c2 \in Int
        BY <1>1, <1>2, <2>1, <2>14
      <3>3. t2 \in Int
        BY <3>2
      <3>4. QED
        BY <3>1, <3>3, Zenon
    <2>16. x = t3 * B + c4
      BY <2>13
    <2> HIDE DEF t2
    <2>17. t3 \in Int /\ t3 % B = c3 /\ t3 \div B = t2
      <3>1. t3 % B = c3 /\ t3 \div B = t2
        BY <2>1, <2>15, DivModUnique
      <3>2. t2 * B \in Int /\ c3 \in Int
        BY <1>1, <1>2, <2>1, <2>15
      <3>3. t3 \in Int
        BY <3>2
      <3>4. QED
        BY <3>1, <3>3
    <2> HIDE DEF t3
    <2>18. x % B = c4 /\ x \div B = t3
      BY <2>1, <2>16, <2>17, DivModUnique
    <2>19. hostToNetwork(x, n) =
             <<(((x \div B) \div B) \div B) % B, ((x \div B) \div B) % B,
               (x \div B) % B, x % B>>
      BY <1>5 DEF hostToNetwork
    <2>20. QED
      BY <2>1, <2>11, <2>14, <2>15, <2>17, <2>18, <2>19 DEF x
  <1>6. QED
    BY <1>3, <1>4, <1>5 DEF IntSizes

-----------------------------------------------------------------------------
(* The refinement.                                                         *)

\* The content after a step is the content of the buffer after it.
LEMMA ContentPrime == Content(buf)' = Content(buf')
  BY DEF Content, readableBytes

\* The bytes of a part of a sequence.
LEMMA PartOf ==
  ASSUME NEW q \in Seq(Byte), NEW a \in Nat, NEW m \in Nat, a + m <= Len(q)
  PROVE  /\ SubSeq(q, a + 1, a + m) \in Seq(Byte)
         /\ Len(SubSeq(q, a + 1, a + m)) = m
         /\ \A j \in 1..m : SubSeq(q, a + 1, a + m)[j] = q[a + j]
  <1>1. a + m \in Nat /\ (a + m) - (a + 1) + 1 = m
    OBVIOUS
  <1>2. Len(SubSeq(q, a + 1, a + m)) = m
    BY <1>1
  <1>3. ASSUME NEW j \in 1..m PROVE SubSeq(q, a + 1, a + m)[j] = q[a + j]
    <2>1. a + 1 + j - 1 = a + j
      OBVIOUS
    <2>2. QED
      BY <1>1, <2>1
  <1>4. SubSeq(q, a + 1, a + m) \in Seq(Byte)
    OBVIOUS
  <1>5. QED
    BY <1>2, <1>3, <1>4

\* Taking nothing from the front leaves everything.
LEMMA SubSeqAll ==
  ASSUME NEW q \in Seq(Byte)
  PROVE  q = SubSeq(q, 0 + 1, Len(q)) /\ 0 \in 0..Len(q)
  <1>1. Len(q) \in Nat /\ 0 \in 0..Len(q)
    OBVIOUS
  <1>2. SubSeq(q, 1, 0) \o SubSeq(q, 0 + 1, Len(q)) = q
    BY <1>1, SplitJoin
  <1>3. SubSeq(q, 1, 0) = << >>
    OBVIOUS
  <1>4. SubSeq(q, 0 + 1, Len(q)) \in Seq(Byte)
    OBVIOUS
  <1>5. << >> \o SubSeq(q, 0 + 1, Len(q)) = SubSeq(q, 0 + 1, Len(q))
    BY <1>4
  <1>6. QED
    BY <1>1, <1>2, <1>3, <1>5

\* What the search of findCRLF() accepts is where the pattern occurs.
LEMMA CRLFMatches ==
  ASSUME NEW c \in Seq(Byte), NEW k \in Nat
  PROVE  {i \in k..(Len(c) - 2) : c[i + 1] = CR /\ c[i + 2] = LF} =
         {i \in k..(Len(c) - Len(<<CR, LF>>)) :
            SubSeq(c, i + 1, i + Len(<<CR, LF>>)) = <<CR, LF>>}
  <1>1. Len(<<CR, LF>>) = 2
    OBVIOUS
  <1>2. ASSUME NEW i \in k..(Len(c) - 2)
        PROVE  (c[i + 1] = CR /\ c[i + 2] = LF) <=> SubSeq(c, i + 1, i + 2) = <<CR, LF>>
    <2> DEFINE q == SubSeq(c, i + 1, i + 2)
    <2>1. /\ q \in Seq(Byte) /\ Len(q) = 2
          /\ \A j \in 1..2 : q[j] = c[i + j]
      <3>1. i \in Nat /\ 2 \in Nat /\ i + 2 <= Len(c)
        OBVIOUS
      <3>2. QED
        BY <3>1, PartOf, Zenon
    <2> HIDE DEF q
    <2>2. q[1] = c[i + 1] /\ q[2] = c[i + 2]
      BY <2>1
    <2>3. q = <<q[1], q[2]>>
      BY <2>1
    <2>4. ASSUME c[i + 1] = CR, c[i + 2] = LF PROVE q = <<CR, LF>>
      BY <2>2, <2>3, <2>4
    <2>5. ASSUME q = <<CR, LF>> PROVE c[i + 1] = CR /\ c[i + 2] = LF
      BY <2>2, <2>5
    <2>6. QED
      BY <2>4, <2>5 DEF q
  <1>3. QED
    BY <1>1, <1>2

\* An end of line is found where the byte is '\n'.
LEMMA EOLMatches ==
  ASSUME NEW c \in Seq(Byte), NEW k \in Nat
  PROVE  {i \in k..(Len(c) - 1) : c[i + 1] = LF} =
         {i \in k..(Len(c) - Len(<<LF>>)) :
            SubSeq(c, i + 1, i + Len(<<LF>>)) = <<LF>>}
  <1>1. Len(<<LF>>) = 1
    OBVIOUS
  <1>2. ASSUME NEW i \in k..(Len(c) - 1)
        PROVE  c[i + 1] = LF <=> SubSeq(c, i + 1, i + 1) = <<LF>>
    <2> DEFINE q == SubSeq(c, i + 1, i + 1)
    <2>1. /\ q \in Seq(Byte) /\ Len(q) = 1
          /\ \A j \in 1..1 : q[j] = c[i + j]
      <3>1. i \in Nat /\ 1 \in Nat /\ i + 1 <= Len(c)
        OBVIOUS
      <3>2. QED
        BY <3>1, PartOf, Zenon
    <2> HIDE DEF q
    <2>2. q[1] = c[i + 1]
      BY <2>1
    <2>3. q = <<q[1]>>
      BY <2>1
    <2>4. ASSUME c[i + 1] = LF PROVE q = <<LF>>
      BY <2>2, <2>3, <2>4
    <2>5. ASSUME q = <<LF>> PROVE c[i + 1] = LF
      BY <2>2, <2>5
    <2>6. QED
      BY <2>4, <2>5 DEF q
  <1>3. QED
    BY <1>1, <1>2

\* Where a content has an end of line, at an offset of k or more.
LineEnds(c, k) == {i \in k..(Len(c) - 1) : c[i + 1] = LF}

\* findEOL() finds the first end of line; with none behind start, what it
\* answers is only certain when start is the beginning.
LEMMA FindEOLFinds ==
  ASSUME NEW b, Fits(b), NEW k \in Nat, NEW r \in findEOL(b, k)
  PROVE  LET M == LineEnds(Content(b), k)
         IN  /\ M # {} => \E m \in M : (\A i \in M : m <= i) /\ r = Offset(m)
             /\ M = {} /\ k = 0 => r = Nothing
  <1> DEFINE M == LineEnds(Content(b), k)
             R == b.reader
             n == readableBytes(b)
             L == Len(b.bytes)
             searched == R + k + 1 .. R + k + n
             found == {i \in searched \cap (1..L) : b.bytes[i] = LF}
             F == {i - R - 1 : i \in found}
  <1>1. R \in Nat /\ n \in Nat /\ L \in Nat /\ R + n <= L
    BY DEF Fits, readableBytes
  <1>2. Len(Content(b)) = n
    BY ContentType
  <1>3. ASSUME NEW i \in Nat, i < n PROVE Content(b)[i + 1] = b.bytes[R + i + 1]
    <2>1. i + 1 \in 1..n
      BY <1>1, <1>3
    <2>2. Content(b)[i + 1] = b.bytes[R + (i + 1)]
      BY <2>1 DEF Content
    <2>3. R + (i + 1) = R + i + 1
      BY <1>1
    <2>4. QED
      BY <2>2, <2>3
  <1>4. r \in (IF found = {} /\ ~(searched \subseteq 1..L)
               THEN {Nothing} \cup {Offset(i - R - 1) : i \in searched \ (1..L)}
               ELSE {Least(F)})
    BY DEF findEOL
  <1> HIDE DEF R, n, L
  <1>5. ASSUME NEW i \in M PROVE i \in F /\ i \in Nat /\ i < n
    <2>1. i \in Nat /\ k <= i /\ i < n /\ Content(b)[i + 1] = LF
      BY <1>1, <1>2 DEF LineEnds
    <2>2. R + i + 1 \in searched \cap (1..L)
      BY <1>1, <2>1
    <2>3. R + i + 1 \in found
      BY <1>3, <2>1, <2>2
    <2>4. i = (R + i + 1) - R - 1
      BY <1>1, <2>1
    <2> HIDE DEF found
    <2>5. QED
      BY <2>1, <2>3, <2>4
  <1>6. ASSUME NEW j \in F PROVE j \in Nat /\ (j < n => j \in M)
    <2>1. PICK i \in found : j = i - R - 1
      OBVIOUS
    <2>2. i \in Nat /\ R + k + 1 <= i /\ b.bytes[i] = LF
      BY <1>1
    <2>3. j \in Nat /\ k <= j /\ i = R + j + 1
      BY <1>1, <2>1, <2>2
    <2>4. ASSUME j < n PROVE j \in M
      <3>1. Content(b)[j + 1] = LF
        BY <1>3, <2>2, <2>3, <2>4
      <3>2. j \in k..(Len(Content(b)) - 1)
        BY <1>1, <1>2, <2>3, <2>4
      <3>3. QED
        BY <3>1, <3>2 DEF LineEnds
    <2>5. QED
      BY <2>3, <2>4
  <1>7. ASSUME F = {} PROVE found = {}
    BY <1>7
  <1>8. CASE M # {}
    <2>1. PICK i \in M : TRUE
      BY <1>8
    <2>2. i \in F /\ i \in Nat /\ i < n
      BY <1>5
    <2>3. r = Least(F)
      <3>1. found # {}
        BY <2>2
      <3> HIDE DEF found, F
      <3>2. QED
        BY <1>4, <3>1, Zenon
    <2> HIDE DEF F
    <2>4. F \subseteq Nat /\ F # {}
      BY <1>6, <2>2
    <2>5. PICK m \in F : (\A j \in F : m <= j) /\ Least(F) = Offset(m)
      BY <2>4, HasLeast, Zenon
    <2>6. m \in Nat /\ m < n
      BY <1>1, <1>6, <2>2, <2>5
    <2>7. m \in M
      BY <1>6, <2>6
    <2>8. \A j \in M : m <= j
      BY <1>5, <2>5
    <2>9. r = Offset(m)
      BY <2>3, <2>5
    <2> HIDE DEF Offset
    <2>10. QED
      BY <1>8, <2>7, <2>8, <2>9, Zenon
  <1>9. CASE M = {}
    <2>1. ASSUME k = 0 PROVE r = Nothing
      <3>1. searched \subseteq 1..L
        BY <1>1, <2>1
      <3>2. ASSUME NEW i \in found PROVE FALSE
        <4>1. i - R - 1 \in F
          OBVIOUS
        <4>2. i \in Int /\ i <= R + k + n
          BY <1>1
        <4>3. i - R - 1 < n
          BY <1>1, <2>1, <4>2
        <4>4. QED
          BY <1>6, <1>9, <4>1, <4>3
      <3>3. F = {}
        BY <3>2
      <3> HIDE DEF searched, found, F
      <3>4. r = Least(F)
        BY <1>4, <3>1, Zenon
      <3>5. QED
        BY <3>3, <3>4 DEF Least
    <2>2. QED
      BY <1>9, <2>1, Zenon
  <1>10. QED
    BY <1>8, <1>9

\* Every call of a Buffer is a step of the byte queue, or leaves it alone.
LEMMA QueueStep ==
  ASSUME Bounded(buf), [Next]_vars
  PROVE  [Queue!Next]_(Queue!queueVars)
  <1> DEFINE c == Content(buf)
  <1>1. /\ Fits(buf) /\ readableBytes(buf) \in Nat
        /\ c \in Seq(Byte) /\ Len(c) = readableBytes(buf)
    BY ContentType DEF Bounded
  <1>2. MaxCall \in Nat /\ MaxContent \in Nat
    BY BufferAssumption
  <1>3. ASSUME NEW s \in Seq(Byte), AppendString(s) \/ PrependString(s) \/ ReadFd(s)
        PROVE  Queue!Next
    <2>1. CASE AppendString(s) \/ ReadFd(s)
      <3>1. s \in Strings /\ c' = c \o s /\ result' = Nothing
        BY <2>1, AddStep, ContentPrime
      <3>2. QED
        BY <3>1, Zenon DEF Queue!Next, Queue!Add, Queue!Nothing, Nothing
    <2>2. CASE PrependString(s)
      <3>1. s \in Strings /\ c' = s \o c /\ result' = Nothing
        BY <2>2, PrependStep, ContentPrime
      <3>2. QED
        BY <3>1, Zenon DEF Queue!Next, Queue!Prepend, Queue!Nothing, Nothing
    <2>3. QED
      BY <1>3, <2>1, <2>2
  <1>4. ASSUME NEW n \in IntSizes, NEW x \in Ints(n), AppendInt(x, n) \/ PrependInt(x, n)
        PROVE  Queue!Next
    <2>1. hostToNetwork(x, n) \in Seq(Byte)
      BY IntIsInt, EncodeType
    <2>2. QED
      BY <1>3, <1>4, <2>1 DEF AppendInt, PrependInt
  <1>5. ASSUME NEW n \in Nat, n <= readableBytes(buf), buf' = retrieve(buf, n)
        PROVE  /\ c' = SubSeq(c, n + 1, Len(c)) /\ n \in 0..Len(c)
    BY <1>1, <1>5, TakeStep, ContentPrime
  <1>6. ASSUME NEW n \in Nat, n \in 0..Len(c),
               c' = SubSeq(c, n + 1, Len(c)), result' = Nothing
        PROVE  Queue!Next
    BY <1>6 DEF Queue!Next, Queue!Retrieve, Queue!Rest, Queue!Nothing, Nothing
  <1>7. ASSUME NEW n \in Nat, n <= MaxCall, Shrink(n) PROVE Queue!Next
    <2>1. c' = c /\ result' = Nothing
      BY <1>7, ShrinkStep, ContentPrime
    <2>2. c = SubSeq(c, 0 + 1, Len(c)) /\ 0 \in 0..Len(c)
      BY <1>1, SubSeqAll
    <2>3. QED
      BY <1>6, <2>1, <2>2
  <1>8. ASSUME NEW n \in Nat, Retrieve(n) PROVE Queue!Next
    BY <1>5, <1>6, <1>8 DEF Retrieve
  <1>9. ASSUME RetrieveAll PROVE Queue!Next
    BY <1>1, <1>5, <1>6, <1>9, TakeAll DEF RetrieveAll
  <1>10. ASSUME NEW n \in Nat, RetrieveAsString(n) PROVE Queue!Next
    <2>1. c' = SubSeq(c, n + 1, Len(c)) /\ n \in 0..Len(c)
      BY <1>5, <1>10 DEF RetrieveAsString
    <2>2. result' = Bytes(SubSeq(c, 1, n))
      BY <1>10 DEF RetrieveAsString
    <2>3. QED
      BY <2>1, <2>2 DEF Queue!Next, Queue!RetrieveAsString, Queue!Rest, Queue!First,
                        Queue!Bytes, Bytes
  <1>11. ASSUME NEW n \in IntSizes, ReadInt(n) \/ PeekInt(n) PROVE Queue!Next
    <2> DEFINE s == SubSeq(c, 1, n)
               x == networkToHost(s)
    <2>1. n \in Nat /\ n <= Len(c)
      BY <1>1, <1>11 DEF IntSizes, ReadInt, PeekInt
    <2>2. s \in Seq(Byte) /\ Len(s) = n
      BY <1>1, <2>1
    <2> HIDE DEF s, c
    <2>3. x \in Ints(n) /\ hostToNetwork(x, n) = s
      BY <2>2, DecodeEncodes
    <2>4. result' = Integer(x)
      BY <1>11 DEF ReadInt, PeekInt, peekInt, c, s
    <2> HIDE DEF x
    <2>5. CASE ReadInt(n)
      <3>1. c' = SubSeq(c, n + 1, Len(c))
        BY <1>5, <2>1, <2>5 DEF ReadInt
      <3>2. QED
        BY <2>1, <2>3, <2>4, <3>1
        DEF Queue!Next, Queue!ReadInt, Queue!Rest, Queue!First, Queue!Integer, Integer, c, s
    <2>6. CASE PeekInt(n)
      <3>1. c' = c
        BY <2>6, ContentPrime DEF PeekInt, c
      <3>2. QED
        BY <2>1, <2>3, <2>4, <3>1
        DEF Queue!Next, Queue!PeekInt, Queue!First, Queue!Integer, Integer, c, s
    <2>7. QED
      BY <1>11, <2>5, <2>6
  <1>12. ASSUME NEW n \in Nat, FindCRLF(n) PROVE Queue!Next
    <2> DEFINE S == {i \in n..(Len(c) - 2) : c[i + 1] = CR /\ c[i + 2] = LF}
    <2>1. n \in 0..Len(c) /\ c' = c
      BY <1>1, <1>12, ContentPrime DEF FindCRLF
    <2>2. result' = Least(S)
      BY <1>1, <1>12 DEF FindCRLF, findCRLF
    <2>3. S = Queue!Matches(<<CR, LF>>, n)
      BY <1>1, CRLFMatches, Zenon DEF Queue!Matches
    <2>4. S \subseteq Nat
      OBVIOUS
    <2> HIDE DEF S, c
    <2>5. IF S # {} THEN \E m \in S : (\A i \in S : m <= i) /\ result' = Offset(m)
          ELSE result' = Nothing
      BY <2>2, <2>4, HasLeast, Zenon DEF Least
    <2>6. Queue!Find(<<CR, LF>>, n)
      BY <2>1, <2>3, <2>5, Zenon
      DEF Queue!Find, Queue!Offset, Queue!Nothing, Offset, Nothing, c
    <2>7. QED
      BY <2>1, <2>6 DEF Queue!Next, c
  <1>13. ASSUME NEW n \in Nat, FindEOL(n) PROVE Queue!Next
    <2> DEFINE S == LineEnds(c, n)
    <2>1. n \in 0..Len(c) /\ c' = c
      BY <1>1, <1>13, ContentPrime DEF FindEOL
    <2>2. result' \in findEOL(buf, n)
      BY <1>13 DEF FindEOL
    <2>3. S = Queue!Matches(<<LF>>, n)
      BY <1>1, EOLMatches, Zenon DEF Queue!Matches, LineEnds
    <2>4. /\ S # {} => \E m \in S : (\A i \in S : m <= i) /\ result' = Offset(m)
          /\ S = {} /\ n = 0 => result' = Nothing
      BY <1>1, <2>2, FindEOLFinds, Zenon
    <2>5. <<LF>> # <<CR, LF>>
      OBVIOUS
    <2> HIDE DEF S, c
    <2>6. Queue!Find(<<LF>>, n)
      BY <2>1, <2>3, <2>4, <2>5, Zenon
      DEF Queue!Find, Queue!Offset, Queue!Nothing, Offset, Nothing, c
    <2>7. QED
      BY <2>1, <2>6 DEF Queue!Next, c
  <1>14. CASE UNCHANGED vars
    BY <1>14, ContentPrime DEF vars, Queue!queueVars
  <1>15. ASSUME NEW n \in 0..MaxContent PROVE n \in Nat
    BY <1>2
  <1>16. ASSUME NEW s \in UNION {StringsOf(n) : n \in 0..MaxCall} PROVE s \in Seq(Byte)
    BY <1>2, StringIsSeq
  <1>17. QED
    BY <1>3, <1>4, <1>7, <1>8, <1>9, <1>10, <1>11, <1>12, <1>13, <1>14, <1>15, <1>16, Zenon
    DEF Next

\* Through growth, moves, prepends, shrinks and reads that end in extrabuf, a
\* Buffer of any size is the byte sequence that its comments promise: readers
\* get the bytes in the order of the writes, the integers that the bytes encode
\* and the first line end behind start.
THEOREM BufferIsQueue == Spec => QueueSpec
  <1>1. Init => Queue!Init
    BY NewBufferFits DEF Init, Queue!Init, Nothing, Queue!Nothing
  <1>2. Bounded(buf) /\ [Next]_vars => [Queue!Next]_(Queue!queueVars)
    BY QueueStep
  <1>3. QED
    BY <1>1, <1>2, AlwaysBounded, PTL DEF Spec, QueueSpec, Queue!Spec

=============================================================================
