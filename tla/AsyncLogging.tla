--------------------------- MODULE AsyncLogging ---------------------------
(***************************************************************************)
(* An AsyncLogging (src/base/AsyncLogging.cc): any thread appends lines to *)
(* a buffer under the mutex, and a thread of its own swaps the full        *)
(* buffers for empty ones and writes them to a LogFile.                    *)
(*                                                                         *)
(* The lines are numbered in the order in which append() takes the mutex.  *)
(* A buffer is the sequence of its lines; a pointer to one is <<buffer>>,  *)
(* and NULL is <<>>.  Waiting for cond_ ends by a notification, by the     *)
(* timeout or spuriously, and what follows is the same: cond_ only decides *)
(* when.                                                                   *)
(***************************************************************************)
EXTENDS LogFile, Thread, FiniteSets

CONSTANTS
  SIZE,          \* the size of a buffer: kLargeBuffer
  MaxBuffers,    \* more than these are not written: 25 in the code
  MaxLines,      \* bound: the lines that are appended
  MaxLost,       \* bound: the lines that the disk does not take
  MaxTime        \* bound: of the clock

ASSUME AsyncAssumption ==
  /\ SIZE \in Nat /\ SIZE > 1
  /\ MaxBuffers \in Nat /\ MaxBuffers >= 2
  /\ MaxLines \in Nat /\ MaxLost \in Nat /\ MaxTime \in Nat \ {0}

VARIABLES
  running,         \* running_
  latch,           \* count_ of latch_
  thread,          \* thread_
  currentBuffer,   \* *currentBuffer_, which is never NULL outside the mutex
  nextBuffer,      \* nextBuffer_
  buffers,         \* buffers_
  pc,              \* of threadFunc: "begin", "loop", "lock", "waiting", "write",
                   \* "recycle" or "exit"
  newBuffer1, newBuffer2,  \* its buffers
  buffersToWrite,
  i,               \* the index of the for loop
  output,          \* its LogFile
  owner,           \* "new", "start", "up", "stop" or "gone"
  now,             \* the clock
  \* history
  appended,        \* how many lines have been appended
  dropped,         \* the lines that threadFunc has thrown away
  lost,            \* the lines that fwrite has not taken
  wroteAt          \* when output.append was last called

frontVars == <<currentBuffer, nextBuffer, buffers, appended>>
threadVars == <<pc, newBuffer1, newBuffer2, buffersToWrite, i>>
outVars == <<output, dropped, lost, wroteAt>>
ownerVars == <<running, latch, thread, owner>>
vars == <<frontVars, threadVars, outVars, ownerVars, now>>

NULL == <<>>
Notice == 0  \* the line "Dropped log messages"

Init ==
  /\ running = FALSE /\ latch = 1 /\ thread = NewThread /\ owner = "new" /\ now = 1
  /\ currentBuffer = <<>> /\ nextBuffer = << <<>> >> /\ buffers = <<>>
  /\ pc = "begin" /\ newBuffer1 = << <<>> >> /\ newBuffer2 = << <<>> >>
  /\ buffersToWrite = <<>> /\ i = 1
  /\ output = Unopened /\ appended = 0 /\ dropped = {} /\ lost = {}
  /\ wroteAt = 0

-----------------------------------------------------------------------------
(* The owner, and the threads that log.                                    *)

\* start, 38-43, with Thread::start and CountDownLatch::wait.
Start ==
  /\ owner = "new"
  /\ running' = TRUE /\ owner' = "start" /\ thread' = start(thread)
  /\ UNCHANGED <<frontVars, threadVars, outVars, latch, now>>

LatchWait ==
  /\ owner = "start" /\ latch = 0
  /\ owner' = "up"
  /\ UNCHANGED <<frontVars, threadVars, outVars, running, latch, thread, now>>

\* stop, 45-50, with Thread::join; also from the destructor.
Stop ==
  /\ owner = "up"
  /\ running' = FALSE /\ owner' = "stop"
  /\ UNCHANGED <<frontVars, threadVars, outVars, latch, thread, now>>

Join ==
  /\ owner = "stop" /\ Joinable(thread)
  /\ thread' = join(thread) /\ owner' = "gone"
  /\ UNCHANGED <<frontVars, threadVars, outVars, running, latch, now>>

avail(buffer) == SIZE - Len(buffer)

\* FixedBuffer::append, 37-45.
BufferAppend(buffer, line) ==
  IF avail(buffer) > 1 THEN Append(buffer, line) ELSE buffer

\* Mutant of append: the spare buffer stays where it is.
appendShares ==
  /\ owner # "gone" /\ appended < MaxLines
  /\ appended' = appended + 1
  /\ IF avail(currentBuffer) > 1
     THEN /\ currentBuffer' = BufferAppend(currentBuffer, appended')
          /\ UNCHANGED <<nextBuffer, buffers>>
     ELSE /\ buffers' = Append(buffers, currentBuffer)
          /\ nextBuffer' = NULL
          /\ currentBuffer' =
               BufferAppend(IF nextBuffer # NULL THEN nextBuffer[1] ELSE currentBuffer,
                            appended')
  /\ UNCHANGED <<threadVars, outVars, ownerVars, now>>

\* append, 29-51.
append ==
  /\ owner # "gone" /\ appended < MaxLines
  /\ appended' = appended + 1
  /\ IF avail(currentBuffer) > 1
     THEN /\ currentBuffer' = BufferAppend(currentBuffer, appended')
          /\ UNCHANGED <<nextBuffer, buffers>>
     ELSE /\ buffers' = Append(buffers, currentBuffer)
          /\ nextBuffer' = NULL
          /\ currentBuffer' =
               BufferAppend(IF nextBuffer # NULL THEN nextBuffer[1] ELSE <<>>, appended')
  /\ UNCHANGED <<threadVars, outVars, ownerVars, now>>

Tick ==
  /\ now < MaxTime
  /\ now' = now + 1
  /\ UNCHANGED <<frontVars, threadVars, outVars, ownerVars>>

-----------------------------------------------------------------------------
(* The logging thread.                                                     *)

\* CountDownLatch::countDown, 20-27; start() is the only one to wait.
CountDown == latch' = latch - 1

\* threadFunc, 55-63.
Begin ==
  /\ pc = "begin" /\ thread.pthread = "running"
  /\ CountDown
  /\ output' = NewLogFile(now)
  /\ pc' = "loop"
  /\ UNCHANGED <<frontVars, newBuffer1, newBuffer2, buffersToWrite, i, dropped, lost,
                 wroteAt, running, thread, owner, now>>

Loop ==
  /\ pc = "loop"
  /\ pc' = IF running THEN "lock" ELSE "exit"
  /\ UNCHANGED <<frontVars, newBuffer1, newBuffer2, buffersToWrite, i, outVars,
                 ownerVars, now>>

Wait ==
  /\ pc = "lock" /\ buffers = <<>>
  /\ pc' = "waiting"
  /\ UNCHANGED <<frontVars, newBuffer1, newBuffer2, buffersToWrite, i, outVars,
                 ownerVars, now>>

\* Mutant of Swap: the spare buffer is always given back.
SwapAlways ==
  /\ pc = "waiting" \/ (pc = "lock" /\ buffers # <<>>)
  /\ buffersToWrite' = Append(buffers, currentBuffer)
  /\ buffers' = <<>>
  /\ currentBuffer' = newBuffer1[1] /\ newBuffer1' = NULL
  /\ nextBuffer' = newBuffer2 /\ newBuffer2' = NULL
  /\ pc' = "write"
  /\ UNCHANGED <<appended, i, outVars, ownerVars, now>>

\* threadFunc, 76-82: with a full buffer at once, otherwise when the wait ends.
Swap ==
  /\ pc = "waiting" \/ (pc = "lock" /\ buffers # <<>>)
  /\ buffersToWrite' = Append(buffers, currentBuffer)
  /\ buffers' = <<>>
  /\ currentBuffer' = newBuffer1[1] /\ newBuffer1' = NULL
  /\ IF nextBuffer = NULL
     THEN nextBuffer' = newBuffer2 /\ newBuffer2' = NULL
     ELSE UNCHANGED <<nextBuffer, newBuffer2>>
  /\ pc' = "write"
  /\ UNCHANGED <<appended, i, outVars, ownerVars, now>>

\* LogFile::append; the disk takes the first n lines.
Output(lines, n) ==
  /\ output' = append_unlocked(output, lines, n, now)
  /\ lost' = lost \cup ToSet(SubSeq(lines, n + 1, Len(lines)))
  /\ Cardinality(lost') <= MaxLost
  /\ wroteAt' = now

\* threadFunc, 87-96: too many buffers, the first two are kept.
Drop ==
  /\ pc = "write" /\ i = 1 /\ Len(buffersToWrite) > MaxBuffers
  /\ \E n \in 0..1 : Output(<<Notice>>, n)
  /\ dropped' =
       dropped \cup ToSet(FlattenSeq(SubSeq(buffersToWrite, 3, Len(buffersToWrite))))
  /\ buffersToWrite' = SubSeq(buffersToWrite, 1, 2)
  /\ UNCHANGED <<frontVars, pc, newBuffer1, newBuffer2, i, ownerVars, now>>

\* threadFunc, 98-102.
Write ==
  /\ pc = "write" /\ ~(i = 1 /\ Len(buffersToWrite) > MaxBuffers)
  /\ IF i <= Len(buffersToWrite)
     THEN /\ \E n \in 0..Len(buffersToWrite[i]) : Output(buffersToWrite[i], n)
          /\ i' = i + 1
          /\ UNCHANGED pc
     ELSE pc' = "recycle" /\ i' = 1 /\ UNCHANGED <<output, lost, wroteAt>>
  /\ UNCHANGED <<frontVars, newBuffer1, newBuffer2, buffersToWrite, dropped,
                 ownerVars, now>>

reset(buffer) == <<>>

\* threadFunc, 104-125: the last two of the first two buffers are used again.
Recycle ==
  /\ pc = "recycle"
  /\ LET kept == SubSeq(buffersToWrite, 1, 2)
         rest == IF newBuffer1 = NULL THEN Front(kept) ELSE kept
     IN
     /\ newBuffer1' = IF newBuffer1 = NULL THEN <<reset(Last(kept))>> ELSE newBuffer1
     /\ newBuffer2' = IF newBuffer2 = NULL THEN <<reset(Last(rest))>> ELSE newBuffer2
  /\ buffersToWrite' = <<>>
  /\ output' = flush(output)
  /\ pc' = "loop"
  /\ UNCHANGED <<frontVars, i, dropped, lost, wroteAt, ownerVars, now>>

Exit ==
  /\ pc = "exit" /\ thread.pthread = "running"
  /\ output' = flush(output)
  /\ thread' = finish(thread)
  /\ UNCHANGED <<frontVars, threadVars, dropped, lost, wroteAt, running, latch, owner,
                 now>>

threadFunc == Begin \/ Loop \/ Wait \/ Swap \/ Drop \/ Write \/ Recycle \/ Exit

Next == Start \/ LatchWait \/ Stop \/ Join \/ append \/ Tick \/ threadFunc

\* The threads that can run do; Swap out of "waiting" is the timeout.
Fairness == WF_vars(threadFunc) /\ WF_vars(LatchWait) /\ WF_vars(Join)

Spec == Init /\ [][Next]_vars /\ Fairness

-----------------------------------------------------------------------------
(* Properties.                                                             *)

\* Every line is in one place, in the order of the calls: in the files, on its way
\* to them, or in the buffers of the front end; only the lines threadFunc has
\* dropped and the ones the disk has not taken are missing.
LinesKept ==
  SelectSeq(Lines(output), LAMBDA line : line # Notice)
    \o FlattenSeq(IF pc = "write" THEN SubSeq(buffersToWrite, i, Len(buffersToWrite))
                  ELSE <<>>)
    \o FlattenSeq(buffers) \o currentBuffer
      = SelectSeq([k \in 1..appended |-> k], LAMBDA line : line \notin dropped \cup lost)

\* The assertions of threadFunc: it has two empty buffers when it comes to the
\* mutex, and there are buffers to make them from when it has written.
BuffersRecycled ==
  /\ pc = "begin" /\ thread.started => running
  /\ pc \in {"lock", "waiting"} =>
       newBuffer1 = << <<>> >> /\ newBuffer2 = << <<>> >> /\ buffersToWrite = <<>>
  /\ pc \in {"write", "recycle"} =>
       /\ newBuffer1 = NULL
       /\ Len(buffersToWrite) >= (IF newBuffer2 = NULL THEN 2 ELSE 1)
  /\ nextBuffer \in {NULL, << <<>> >>}
  /\ nextBuffer = NULL => buffers # <<>>

\* No two files have the same name, and one that has grown past rollSize_ is left
\* unless it was opened in the very second of the append.
FilesRoll ==
  /\ \A j, k \in 1..Len(output.files) :
       j < k => output.files[j].name < output.files[k].name
  /\ output.files # <<>> /\ output.writtenBytes > rollSize =>
       output.lastRoll = wroteAt

\* A line that is appended while the thread runs is on the disk in the end, or
\* dropped with a notice, though no buffer ever fills; stop() gives up what is in
\* the front end at that moment.
LinesReachDisk ==
  \A k \in 1..MaxLines :
    appended >= k ~>
      \/ k \in dropped \cup lost
      \/ ~running
      \/ k \in ToSet(SubSeq(Lines(output), 1, output.flushed))

\* stop() returns, and what the thread had taken from the front end is flushed.
StopFlushes ==
  owner = "stop" ~> owner = "gone" /\ output.flushed = Len(Lines(output))

\* What the thread has taken on gets to the disk, while it runs and when it stops.
LinesFlushed == LinesReachDisk /\ StopFlushes

===========================================================================
