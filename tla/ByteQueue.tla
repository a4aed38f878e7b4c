----------------------------- MODULE ByteQueue -----------------------------
(***************************************************************************)
(* What a Buffer promises its owner (the picture and the comments of       *)
(* src/cobra/buffer.h, 18-27 and 177-260): a sequence of bytes that grows  *)
(* at its end and, within the prependable space, at its front, and shrinks *)
(* at its front; nothing of vectors, indices and moves is visible.         *)
(***************************************************************************)
EXTENDS Integers, Sequences

CONSTANTS
  Byte,       \* the values of a byte
  Strings,    \* the byte strings that callers hand over
  IntSizes,   \* the sizes of the integers that are read and written, in bytes
  Ints(_),    \* the integers of a size
  Encode(_, _),  \* the bytes of an integer of a size, in network order
  EOL, CRLF   \* the byte strings that end a line

VARIABLES
  content,  \* the readable bytes
  result    \* what the last call returned

Nothing == <<"nothing">>   \* nothing is found, or the call returns nothing
Bytes(s) == <<"bytes", s>>
Integer(x) == <<"integer", x>>
Offset(k) == <<"offset", k>>

queueVars == <<content, result>>

First(n) == SubSeq(content, 1, n)
Rest(n) == SubSeq(content, n + 1, Len(content))

Init ==
  /\ content = <<>>
  /\ result = Nothing

Add(s) ==
  /\ content' = content \o s
  /\ result' = Nothing

Prepend(s) ==
  /\ content' = s \o content
  /\ result' = Nothing

Retrieve(n) ==
  /\ content' = Rest(n)
  /\ result' = Nothing

RetrieveAsString(n) ==
  /\ result' = Bytes(First(n))
  /\ content' = Rest(n)

\* The result is the integer that the first n bytes encode.
ReadInt(n) ==
  /\ \E x \in Ints(n) : /\ Encode(x, n) = First(n)
                        /\ result' = Integer(x)
  /\ content' = Rest(n)

PeekInt(n) ==
  /\ \E x \in Ints(n) : /\ Encode(x, n) = First(n)
                        /\ result' = Integer(x)
  /\ UNCHANGED content

\* Where the pattern p occurs at an offset of k or more.
Matches(p, k) ==
  {i \in k..(Len(content) - Len(p)) : SubSeq(content, i + 1, i + Len(p)) = p}

\* The result is the first such offset.  Nothing is promised of a findEOL(start)
\* that has no end of line to find behind a start other than the beginning: it
\* searches past the readable bytes.
Find(p, k) ==
  /\ UNCHANGED content
  /\ IF Matches(p, k) # {}
     THEN \E m \in Matches(p, k) : /\ \A i \in Matches(p, k) : m <= i
                                   /\ result' = Offset(m)
     ELSE p = CRLF \/ k = 0 => result' = Nothing

Next ==
  \/ \E s \in Strings : Add(s) \/ Prepend(s)
  \/ \E n \in 0..Len(content) : Retrieve(n) \/ RetrieveAsString(n)
  \/ \E n \in IntSizes : /\ n <= Len(content)
                         /\ ReadInt(n) \/ PeekInt(n)
  \/ \E p \in {EOL, CRLF}, k \in 0..Len(content) : Find(p, k)

Spec == Init /\ [][Next]_queueVars

=============================================================================
