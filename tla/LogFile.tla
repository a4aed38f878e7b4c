------------------------------ MODULE LogFile ------------------------------
(***************************************************************************)
(* A LogFile (src/base/LogFile.cc): what it is given goes to the newest of *)
(* a sequence of files; a new one is opened when the last has grown past   *)
(* rollSize_ or a period has passed.  The operators give the LogFile after *)
(* a call that finds the clock at now; a LogFile is a record               *)
(*   files     the files in the order of their opening, each with its      *)
(*             lines and the second in its name;                           *)
(*   flushed   how many lines of all the files have left stdio's buffer;   *)
(*   writtenBytes  of the newest file;                                     *)
(*   count, startOfPeriod, lastRoll, lastFlush   its members.              *)
(* Every line has the length 1.  The clock never goes back.                *)
(***************************************************************************)
EXTENDS Naturals, Sequences, SequencesExt

CONSTANTS rollSize, flushInterval, kCheckTimeRoll, kRollPerSeconds

ASSUME LogFileAssumption ==
  /\ rollSize \in Nat /\ flushInterval \in Nat /\ kCheckTimeRoll \in Nat
  /\ kRollPerSeconds \in Nat \ {0}

\* The lines in all the files, in order.
Lines(f) == FlattenSeq([i \in 1..Len(f.files) |-> f.files[i].lines])

\* File::append, 29-50: fwrite takes the first n lines, and then all of them are
\* counted as written.
FileAppend(f, lines, n) ==
  [f EXCEPT !.files[Len(f.files)].lines = @ \o SubSeq(lines, 1, n),
            !.writtenBytes = @ + Len(lines)]

\* ~File and the constructor of the next, 15-27: fclose flushes.
NewFile(f, name) ==
  [f EXCEPT !.flushed = Len(Lines(f)), !.writtenBytes = 0,
            !.files = Append(@, [name |-> name, lines |-> <<>>])]

\* Mutant of flush: the lines stay in the buffer.
flushNothing(f) == f

\* flush, 106-117.
flush(f) == [f EXCEPT !.flushed = Len(Lines(f))]

\* getLogFileName, 166-185: all that changes in a name is the second in it.
getLogFileName(now) == now

Period(now) == (now \div kRollPerSeconds) * kRollPerSeconds

\* Mutant of rollFile: two files with the same name.
rollFileAlways(f, now) ==
  [NewFile(f, getLogFileName(now)) EXCEPT
     !.lastRoll = now, !.lastFlush = now, !.startOfPeriod = Period(now)]

rollFile(f, now) ==
  IF now > f.lastRoll
  THEN [NewFile(f, getLogFileName(now)) EXCEPT
          !.lastRoll = now, !.lastFlush = now, !.startOfPeriod = Period(now)]
  ELSE f

\* Mutant of append_unlocked: a full file is not closed.
append_unlockedUnbounded(f, lines, n, now) == FileAppend(f, lines, n)

\* append_unlocked, 119-149.
append_unlocked(f, lines, n, now) ==
  LET g == FileAppend(f, lines, n)
      h == [g EXCEPT !.count = 0]
  IN  CASE g.writtenBytes > rollSize -> rollFile(g, now)
        [] g.writtenBytes <= rollSize /\ g.count <= kCheckTimeRoll ->
             [g EXCEPT !.count = @ + 1]
        [] g.writtenBytes <= rollSize /\ g.count > kCheckTimeRoll ->
             IF Period(now) # h.startOfPeriod THEN rollFile(h, now)
             ELSE IF now - h.lastFlush > flushInterval
                  THEN flush([h EXCEPT !.lastFlush = now])
                  ELSE h

Unopened ==
  [files |-> <<>>, flushed |-> 0, writtenBytes |-> 0, count |-> 0, startOfPeriod |-> 0, lastRoll |-> 0,
   lastFlush |-> 0]

\* The constructor, 72-87.
NewLogFile(now) == rollFile(Unopened, now)

===========================================================================
