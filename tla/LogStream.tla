----------------------------- MODULE LogStream -----------------------------
(***************************************************************************)
(* The LogStream of a log line (src/base/LogStream.cc) and the time stamp  *)
(* that a Logger begins it with (src/base/Logging.cc).                     *)
(*                                                                         *)
(* The FixedBuffer of a stream is a record: text has the characters before *)
(* cur_, and top is one past the last byte that has ever been written, the *)
(* terminating NUL of a number included.  A character is a number, below   *)
(* 16 that of a digit.                                                     *)
(***************************************************************************)
EXTENDS CIntegers, Sequences, SequencesExt, TimeZone

CONSTANTS
  kSmallBuffer,     \* the size of a stream's buffer
  kMaxNumericSize   \* the room a number is given

ASSUME LogStreamAssumption ==
  kSmallBuffer \in Nat /\ kMaxNumericSize \in Nat

Minus == 16
X == 17
Letter == 18

avail(buffer) == kSmallBuffer - Len(buffer.text)

\* A NUL follows the characters that convert and convertHex write.
add(buffer, chars) ==
  [text |-> buffer.text \o chars,
   top  |-> Max({buffer.top, Len(buffer.text \o chars) + 1})]

\* digits and zero, 26-27: the remainder of a negative number is not positive.
digits == <<9, 8, 7, 6, 5, 4, 3, 2, 1, 0, 1, 2, 3, 4, 5, 6, 7, 8, 9>>
zero(lsd) == digits[10 + lsd]

\* The loop of convert, 40-45.
RECURSIVE LeastFirst(_)
LeastFirst(i) ==
  <<zero(CMod(i, 10))>> \o (IF CDiv(i, 10) = 0 THEN <<>> ELSE LeastFirst(CDiv(i, 10)))

\* Mutant of convert: no digit for zero.
convertNonzero(value) ==
  IF value = 0 THEN <<>>
  ELSE Reverse(LeastFirst(value) \o (IF value < 0 THEN <<Minus>> ELSE <<>>))

convert(value) ==
  Reverse(LeastFirst(value) \o (IF value < 0 THEN <<Minus>> ELSE <<>>))

\* The loop of convertHex, 62-67.
RECURSIVE LeastHexFirst(_)
LeastHexFirst(i) ==
  <<i % 16>> \o (IF i \div 16 = 0 THEN <<>> ELSE LeastHexFirst(i \div 16))

convertHex(value) == Reverse(LeastHexFirst(value))

\* Mutant of formatInteger: the room is not looked at.
formatIntegerAnyway(buffer, v) == add(buffer, convert(v))

\* formatInteger, 106-114, and the operators << of the integral types.
formatInteger(buffer, v) ==
  IF avail(buffer) >= kMaxNumericSize THEN add(buffer, convert(v)) ELSE buffer

\* operator<<(const void*), 164-176.
formatPointer(buffer, v) ==
  IF avail(buffer) >= kMaxNumericSize
  THEN add(buffer, <<0, X>> \o convertHex(v))
  ELSE buffer

-----------------------------------------------------------------------------
(* The time stamp, to the second.  Each thread keeps the last it has made: *)
(* cache is its t_lastSecond and t_time.                                   *)

NewCache == [t_lastSecond |-> 0, t_time |-> <<>>]

\* Mutant of formatTime: the stamp is renewed by the minute.
formatTimeByMinute(cache, seconds) ==
  IF seconds \div 60 # cache.t_lastSecond \div 60
  THEN [t_lastSecond |-> seconds, t_time |-> <<toUtcTime(seconds)>>]
  ELSE cache

\* formatTime, 127-146; gmtime_r is what toUtcTime is for.
formatTime(cache, seconds) ==
  IF seconds # cache.t_lastSecond
  THEN [t_lastSecond |-> seconds, t_time |-> <<toUtcTime(seconds)>>]
  ELSE cache

=============================================================================
