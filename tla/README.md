# cobra in TLA+

cobra is a TCP library in the reactor style: every thread that does I/O runs one
`Worker`, an event loop around `epoll` or `poll`, and everything that belongs to a
loop (channels, timers, connections) is touched only by the loop's thread.  Other
threads hand work over with `runInLoop` / `queueInLoop`.  This directory holds TLA+
models of the library, their TLC runs, and TLAPS proofs of the properties that
matter most.

## 1. The system

### Parts, state and operations

| Part (src/) | State | Operations | What is hard about it |
|---|---|---|---|
| `cobra/worker` | `quit_`, `pendingFunctors_` (mutex), `callingPendingFunctors_`, `activeChannels_`, `currentActiveChannel_`, eventfd | `Loop`, `Quit`, `runInLoop`, `queueInLoop`, `wakeup`, `handleRead`, `doPendingFunctors`, `UpdateChannel`, `removeChannel`, timer calls | a push or a `Quit()` racing the loop on its way into `poll()`; `Quit()` before `Loop()`; members built in the wrong order |
| `cobra/worker_thread` | `worker_` (partly under a mutex), `thread_`, `exiting_` | `StartLoop`, `ThreadFunc`, destructor | `worker_` read without the lock, the Worker dies while others call it, `Quit()` before `Loop()` |
| `cobra/worker_thread_pool` | `loops_`, `next_`, `started_` | `start`, `getNextLoop` | round robin index; a pool of no threads |
| `cobra/channel` | `events_`, `revents_`, `index_`, `tie_`, `eventHandling_` | `enable*`, `disable*`, `remove`, `handleEvent` | its owner may die between `poll()` and the dispatch |
| `cobra/poller`, `poller/epoll_poller`, `poller/poll_poller` | `channels_`, `index_` of each channel, the kernel's set or `pollfds_`, the event list | `poll`, `UpdateChannel`, `removeChannel` | three pieces of bookkeeping that must agree; swap-with-last removal; event list at its limit |
| `cobra/timer_queue`, `timer`, `timer_id` | `timers_`, `activeTimers_`, `cancelingTimers_`, `callingExpiredTimers_`, timerfd, the heap of Timers | `addTimer`, `cancel`, `handleRead`, `getExpired`, `reset`, `insert` | timers cancelled, added and deleted from callbacks and from other threads; addresses reused; timerfd armed for the earliest timer |
| `cobra/tcp_connection` | `state_`, channel, input and output buffer | `send`, `shutdown`, `ConnectionEstablished`, `ConnectionDestroyed`, `handle{Read,Write,Close,Error}` | state read in one thread and written in another; functors with a raw `this`; who closes the descriptor |
| `cobra/server`, `cobra/acceptor` | `connections_`, `started_`, listening and idle descriptors | `start`, `EstablishConnection`, `RemoveConnection(InLoop)`, destructor, `Listen`, `HandleRead` | connection objects shared by two loops; destruction while events are on their way; running out of descriptors |
| `cobra/connector`, `cobra/tcp_client` | `connect_`, `state_`, `retryDelayMs_`, channel; `connection_` | `start`, `stop`, `restart`, `connect`, `retry`, `handleWrite`, `handleError`; `connect`, `disconnect`, `stop` | timers and events racing `stop()`; retry back-off |
| `cobra/buffer` | `buffer_`, reader and writer index | `append`, `retrieve`, `prepend`, `makeSpace`, `readFd`, `findCRLF`, `findEOL` | index arithmetic when data is moved |
| `cobra/socket_wrapper`, `endpoint`, `endian` | none | wrappers of system calls, address conversion | none: thin layers over the operating system |
| `base/ThreadPool`, `BlockingQueue`, `BoundedBlockingQueue`, `CountDownLatch`, `Condition`, `Mutex`, `Thread` | queues and flags under mutexes and condition variables | `put`, `take`, `run`, `stop`, `wait`, `countDown` | stopping while threads wait |
| `base/AsyncLogging`, `LogFile`, `Logging`, `FileUtil` | front and back buffers, running flag; file, roll period | `append`, `threadFunc`, `start`, `stop`; `append`, `rollFile` | buffers handed between threads; lines dropped or left behind at `stop()` |
| `base/LogStream`, `Date`, `TimeZone`, `timestamp` | none | number formatting, calendar arithmetic, time zone search | edges of integer ranges and of tables |
| `base/Singleton`, `ThreadLocal`, `ThreadLocalSingleton`, `Atomic`, `ProcessInfo`, `Exception`, `string_piece`, `Types`, `macros` | little | language support | - |

### How they interact

`Server` accepts connections in the base loop and gives each to a loop of
`WorkerThreadPool`; from there `TcpConnection`'s handlers run in that loop, called by
its `Channel`, which the loop's `Poller` reported.  A close travels from the
connection's loop to the base loop (`RemoveConnection`) and back
(`ConnectionDestroyed`).  `TimerQueue` is a client of the loop too: its timerfd is a
channel, and calls from other threads arrive as functors.  On the other side
`TcpClient` has one `Connector`, which keeps trying, with a timer between two
attempts, until it can hand over a socket; from there the connection is a
`TcpConnection` again.  What a connection reads and cannot write at once is in a
`Buffer`.  Any thread logs through a `LogStream`; `AsyncLogging` carries the lines to
a `LogFile` in a thread of its own.

### What should hold, part by part

* **Worker**: no functor and no `Quit()` is left behind while the loop sleeps in
  `poll()`; functors of all threads run one at a time, in the order of the pushes,
  each once; every functor gets its turn and `Quit()` ends the loop.
* **WorkerThread**: `StartLoop` comes back with a live Worker, the destructor with no
  loop left running.
* **Pollers**: `index_`, `channels_` and what the kernel was told agree; a channel is
  watched for exactly what it asked for last; no ready descriptor is starved.
* **TimerQueue**: the two lists agree, each Timer is deleted once by its one owner,
  timerfd is armed for the earliest timer, what is cancelled stays cancelled, what is
  not goes off.
* **TcpConnection**: bytes leave in order and before the FIN; POLLOUT is watched
  exactly while needed; callbacks are queued when due; each connection comes up once,
  goes down once and is then removed.
* **Server, Acceptor, pool**: a connection lives as long as a raw pointer to its
  channel; each is removed once; loops are filled in turn; requests are answered also
  without descriptors; closed connections are forgotten.
* **Connector, TcpClient**: one attempt or one connection at a time, with one socket
  and one channel; after `stop()` nothing is announced and nothing is left; without it
  the client goes on trying.
* **Buffer**: the readable bytes are a queue of bytes, whatever the indices do, and
  integers come out as they went in.
* **ThreadPool**: tasks run once and in order, nobody sleeps beside work or room,
  `stop()` returns.
* **AsyncLogging, LogFile**: lines reach the file once, in order, and the disk in the
  end; file names differ.
* **Date, TimeZone, LogStream**: conversions agree with the calendar and can be undone;
  numbers are written whole or not at all.

## 2. Modules and code

A definition is named after the function it models and its comment gives the lines.
Definitions marked "Mutant of" are variants with a plausible bug; no specification
uses them.  Each is there to show that a property can fail.

**`Worker`** has one step per piece of `Loop()` that another thread can come between.
`loopPc` is where the loop is (`created`, `check`, `poll`, `events`, `swap`,
`functors`, `returned`), `functors` the local batch of `doPendingFunctors`, `call[t]`
a thread between its push and its `wakeup()`, or between `quit_ = true` and its
`wakeup()`.  The eventfd is a Boolean: readable or not.  `early` is a history
variable for functors the loop's own thread queues before `Loop()`, for which
`queueInLoop` writes no wakeup.  **`Executor`** is the promise: a FIFO queue and at
most one functor running.

**`WorkerThread`** extends `Worker`: `ownerPc` is the owner in `StartLoop` or the
destructor, `threadPc` the new thread in `ThreadFunc`, `workerPtr` is `worker_`.  The
destructor reads it twice, once to test it and once to call `Quit()`; `crashed` is a
call through NULL or into a Worker that is gone.  `quitByUser` is history.

**`Channel`** holds `events_` and its changes, **`Poller`** the promise of
`poller.h`.  **`EPollPoller`** has the epoll instance as `epollSet` and `epollMask`,
**`PollPoller`** `pollfds_` as a sequence with negated descriptors as a flag `off`.
`Reenable` says whether owners enable a channel again after `disableAll()`.  In
`PollPoller` a channel that was never enabled is removed too, as `~Acceptor` does;
`enabled` is history.

**`TimerQueue`** has a heap of addresses that are reused, `timers_`,
`activeTimers_`, `cancelingTimers_`, the batch `expired`, the timerfd's `deadline`, and
the loop's functor queue.  `cancelled` and `overtook` are history.  An instant is
100 microseconds, the shortest alarm `howMuchTimeFromNow` sets.

**`TcpConnection`** is one connection in one loop.  `todo` is what is left of
`Channel::handleEvent` for the event being dispatched, taken in the order of the code;
`checked` is a message with which a thread is past the test of `state_` in `send` and
before its push.  A message is `MessageSize` numbered bytes; the socket takes as many
as there is `room`.  `accepted`, `reported`, `warned`, `told` and `unsent` are history.
**`Lifecycle`** is the promise.

**`Server`** composes the acceptor, the pool and several connections over loops that
are FIFO queues, which is what `Executor` justifies.  A connection is reduced to
`state_`, its channel and its callbacks.  `Accept(result)` is `Acceptor::HandleRead`
with each way in which `accept()` ends: a descriptor, none left (the idle descriptor
is given up and taken back, unless another thread gets hold of it: `idle`), or a peer
that has withdrawn.

**`Connector`** has the class as operators on a record: its members, the sockets it
holds, the timers it has set, the functors it has queued, and `ok`, which falls when
an assertion of the code fails.  **`TcpClient`** runs it in a loop with `Worker`'s
iteration (events, then the functors queued so far) against a user whose calls are
split at every store.  `newConnection` is apart from `HandleEvent`, and `Restart` from
`removeConnection`, because the user's `stop()` can come between the test of `connect_`
and what follows it.  `stopped`, `lost` and `hasty` (a `connect()` while the Connector
is not at rest) are history.

**`Buffer`** is the vector and its two indices; the methods are operators from a
buffer to a buffer, a call is a step, and `result` is what it returned.  Bytes are
numbers below `ByteBase`; integers are encoded and decoded as in `endian.h`.
**`ByteQueue`** is the promise: a sequence of bytes.

**`Thread`** and **`Condition`** are the classes of `base/` as operators: the flags of
a Thread and where its pthread is, and the set of waiting threads of a condition
variable.  **`ThreadPool`** has one step per critical section or unlocked read.

**`LogFile`** has `append_unlocked`, `rollFile` and `flush` as operators on a record of
files; a write may take only the first lines.  **`AsyncLogging`** puts the front end
and `threadFunc` around it.  A buffer is the sequence of its lines, which are numbered;
`dropped` and `lost` remember the ones thrown away.

**`CIntegers`** has C's division and remainder, which round to zero.  **`TimeZone`** has
Date, UTC and local time, **`LogStream`** the digits of numbers, the room in a line and
the cached time stamp.  **`Calendar`** walks the days by the rules of the Gregorian
calendar, a clock through four zones, and a line through all degrees of fullness, and
states that the operators agree with them.

External code (epoll, poll, timerfd, sockets, the peers) is modelled from how the
code uses it and marked so in `PROJECT.json`.

## 3. Runs

| Run | Configuration | Bounds | States | Checks |
|---|---|---|---|---|
| `worker_thread` | `WorkerThread.cfg` | the owner and one more caller, two functors, one user channel | 29,624 | `WakeupsKept`, `OwnerSafe`, refinement of `Executor`, `FunctorsRun`, `QuitEndsLoop`, `OwnerReturns` |
| `epoll` | `EPollPoller.cfg` | two channels, an event list that starts with one entry | 23,040 | `EPollInv`, refinement of `Poller`, `NoStarvation` |
| `poll` | `MCPollPoller.cfg` | three channels, taken as symmetric | 108,924 | `PollInv`, refinement of `Poller` |
| `timer_queue` | `TimerQueue.cfg` | one caller, two addresses, two timers, times 0 and 2, once or every instant, up to instant 3 | 139,837 | `TimersOwned`, `TimerfdArmed`, `CancelStops`, `TimerFires` |
| `tcp_connection` | `TcpConnection.cfg` | one other thread, three messages of two bytes, room for three, high-water mark three | 17,582 | `StreamIntact`, `OutputNoticed`, `StateAsserts`, refinement of `Lifecycle`, `OutputDrains`, `ClosedIsRemoved` |
| `server` | `Server.cfg` | up to two I/O threads, three requests, three descriptors | 24,096 | `ConnectionsOwned`, refinement of `Lifecycle` for each connection, `ClosedAreForgotten`, `RequestsAnswered` |
| `client` | `TcpClient.cfg` | four calls of the user in any order, two connections, delays from 1 to 3 | 131,894 | `ConnectorInv`, `StopIsFinal`, `StopSettles`, `Reconnects` |
| `buffer` | `Buffer.cfg` | bytes of two values, two bytes and one to prepend at first, up to four readable bytes, an extra buffer of two | 41,186 | `BufferInv`, refinement of `ByteQueue` |
| `thread_pool` | `ThreadPool.cfg` | up to two threads, two callers with two tasks each, a queue of one, two or any number | 19,008 | `QueueKept`, `WorkEnds` |
| `async_logging` | `AsyncLogging.cfg` | five lines, buffers of two lines, two buffers before lines are dropped, one line lost by the disk, three seconds | 104,046 | `LinesKept`, `BuffersRecycled`, `FilesRoll`, `LinesFlushed` |
| `calendar` | `Calendar.cfg` | every day of 1900 to 2300, four zones, a clock in steps of a quarter of an hour from 1969 | 585,852 | `DatesAgree`, `TimesRoundTrip`, `LinesRendered` |

All of these hold.  One more run, `fd_leak` (`ServerFds.cfg`), shows a disagreement
between the code and a comment in it: `handleClose` leaves closing the descriptor to
the destructor "so we can find leaks easily", and the destructor does not close it.
TLC finds `FreedIsClosed` violated.

### Where the properties stop

The models have the following behaviour of the code, and the properties that hold are
stated so that it is visible what they leave out.

* `Loop()` starts with `quit_ = false`: a `Quit()` after `StartLoop` has returned and
  before `Loop()` is entered is lost, and `~WorkerThread` waits in `join()` for ever.
  The source asks the question in a FIXME.  `OwnerReturns` speaks of a `Quit()` that
  falls in `Loop()`.
* When a user's own `Quit()` ends the loop, `StartLoop` may return NULL, and the
  destructor may find `worker_` NULL at its second read or call a Worker that is gone
  (the comment of the destructor grants "a tiny chance").  `OwnerSafe` excludes them
  only when nobody else quits the loop (`quitByUser`).
* `PollPoller` negates the descriptor of a channel without events and never restores
  it: a channel enabled again is not watched, and with `Reenable = TRUE` its
  `PollerSpec` fails.  `EPollPoller` handles the same calls (run `epoll`).
* `~Acceptor` of a server that never listened disables and removes a channel that was
  never enabled.  `disableAll()` then appends an entry whose descriptor is not negated,
  and the assertion of `removeChannel` (poll_poller.cpp 94) fails.  `PollInv` says that
  it holds for every channel that was enabled, and that `index_` stays right in this
  case too, where assertions are compiled out.
* `addTimer` from another thread reads the sequence of a Timer that the loop may have
  run and deleted.  The TimerId may then hold any sequence; `TimersOwned` and
  `CancelStops` show that cancelling it harms no list.
* A `cancel` that overtakes the queued `addTimerInLoop` finds nothing to cancel
  (`overtook`), and `CancelStops` leaves it out.
* A `stop()` of TcpClient between the test of `connect_` in `removeConnection` and
  `restart()` is lost, and one between the test in `handleWrite` and `new_conn_cb_`
  (connector.cpp 151 and 152) comes too late: the connection is announced after it.
  `lost` holds which of the two is the case; `StopIsFinal` leaves out both,
  `StopSettles` and `ConnectorInv` only the first.
* `TcpClient::connect` does not look at the Connector's state (its FIXME, line 67).
  A second `connect()` fails the assertion of `startInLoop` (connector.cpp 38), also
  after a connection was lost without a retry, as the Connector is then still
  `kConnected`; `stop()` and `connect()` in one batch of functors fail the one of
  `connecting` (111).  `ConnectorInv` is stated for the calls that find the Connector
  at rest (`hasty`).
* The acceptor's idle descriptor can be taken by another thread while it is given up.
  There is then none to make way for the next request, and `RequestsAnswered` stops.
* `findEOL(start)` searches `readableBytes()` bytes from `start`, and so past the
  readable ones when `start` is not their beginning.  `ByteQueue` promises nothing of
  such a search that should find nothing.
* `ThreadPool::stop()` does not wake a caller that waits in `run()` for room.  Tasks
  are promised to run unless `stop()` comes first.
* What is in AsyncLogging's front end when `stop()` clears `running_` is not written.
* Before the first transition `findLocaltime` takes the first local time of the file,
  where its FIXME (TimeZone.cc 224) asks for the first that is not daylight saving.
  `TimesRoundTrip` compares with the latter, and of a zone that begins with daylight
  saving time says only that the conversion can be undone.
* Where *standard* time is put back no `struct tm` tells the two hours apart; the zones
  of `Calendar` put back daylight saving time only.

### Why the bounds are enough

* `worker_thread`: with two functors one can run or be in the batch while the other is
  pushed; the owner and another caller let a push and a `Quit()` race each other and
  the loop.  A functor may be queued again once it has started, so behaviours are
  unbounded.
* `epoll`: two ready descriptors and one entry is the smallest overflow of the list.
* `poll`: three entries make first, middle and last differ in a swap-with-last.
* `timer_queue`: two timers share a batch, cancel each other, or follow each other at
  one address; time 0 is the `invalid()` timestamp, 2 is ahead of the clock at the
  start, and the last instant stands for all the time after it.
* `tcp_connection`: a message fits the socket whole, in part (one byte of the second)
  or not at all, and the output stands below, at and above the mark.
* `server`: no pool (all in the base loop), one loop, and a choice of loops, where the
  third connection is given to the first loop again; a descriptor may be wanting at
  any request.
* `client`: four calls are a `connect()`, a `stop()`, and both again, with the second
  pair at any distance from the first; a connection comes, goes, and comes again.
  The delays 1, 2 and 3 double once and are cut at the largest once.  Failures are
  unbounded.
* `buffer`: the vector starts with room for two bytes and four may gather, so it is
  moved, grown by `append`, by `readFd` through the extra buffer, and shrunk; two byte
  values are enough to tell any two orders apart and to have CR and LF.
* `thread_pool`: two threads and two callers are the fewest that can take each other's
  notifications; sizes one and two make the queue full with one or both threads busy.
* `async_logging`: five lines fill two buffers and leave one, so the front end runs
  through its spare buffer and past it, and lines are dropped.  The lines and the
  limits are small together.
* `calendar`: 400 years are a whole cycle of the Gregorian calendar, with the
  exceptions of 1900, 2000, 2100, 2200 and 2300; the clock is at every quarter of an
  hour, and so at the second of each transition, for over four years, with the second
  before it and a second somewhere after it; the numbers go from -50,000 to 96,000 over
  lines with any number of free characters.

`CHECK_DEADLOCK FALSE` is set where the system may come to rest: a WorkerThread, a
pool or a logger that has been stopped, a timer queue, connection, client or server
with nothing left to do within the bounds, and the end of the calendar.

### Fairness

Fairness is assumed of threads that are inside a call and of the loop's own steps,
never of a user who may or may not call something.

* `Worker`, `WorkerThread`: weak fairness of the loop, of the thread's start, of the
  owner inside `StartLoop` or the destructor, and of a caller on its way to `wakeup()`.
  `poll()` is *not* assumed to time out, so liveness does not lean on the ten seconds.
* `EPollPoller`: strong fairness of `Poll`, because one thread makes finitely many
  calls between two polls; weak fairness of a removal that has begun.
* `TimerQueue`: time passes, and the loop handles timerfd when it goes off.
* `TcpConnection`, `Server`: strong fairness of polling and of running functors, as
  each iteration of `Loop()` does both; a peer that stays connected reads what it is
  sent (otherwise output may rightly wait for ever).
* `TcpClient`: the loop goes round, a call of the user's returns, a timer that is set
  fires.  `Reconnects` also needs the network: a `connect()` or a handshake that is
  tried again and again succeeds in the end (strong fairness of the two outcomes).
* `ThreadPool`: weak fairness of the owner inside `start()` or `stop()` and of each
  pool thread; strong fairness of a caller in `run()`, a mutex that does not starve a
  thread which is woken again and again.
* `AsyncLogging`: weak fairness of `threadFunc`, whose wait ends by its timeout, and of
  the owner inside `start()` or `stop()`.

## 4. Proofs

The theorems hold for every value of the constants that meets the named assumptions
in the modules (`WorkerAssumption`, `EPollAssumption`, ...): distinct tokens, positive
sizes, the ranges of inputs.

* **`WorkerProofs`**: `TypeCorrect`; `WakeupSafety` from `WakeupInv`;
  `ImplementsExecutor` from `BatchInv`.  `WakeupsKept` speaks only of a loop that
  sleeps.  It is not inductive: a functor pushed while a batch runs must already be
  known to be announced.  `WakeupInv` says so for every place of the loop: a late
  functor is announced by the eventfd, is about to be, or is ahead of this iteration's
  swap.  `BatchInv` says that the local batch is empty outside `doPendingFunctors`, so
  batch and queue together are the abstract queue.
* **`EPollPollerProofs`**: `BookkeepingAgrees` (`TypeOK` and `EPollInv`, which is
  inductive) and `ImplementsPoller`.
* **`PollPollerProofs`**: `EntriesAgree` (`TypeOK` and `PollInv`), on the assumption
  that no owner enables a disabled channel again.  The work is in the swap-with-last
  removal, and in telling the entries of channels that were enabled from the one that
  never was.
* **`TimerQueueLemmas`, `TimerQueueCalls`, `TimerQueueProofs`**: `TimersAlwaysOwned`,
  `TimerfdAlwaysArmed` and `CancelledTimersStop` from `TimerInv`.  It adds that a
  cancelled Timer that still exists is in the batch and in `cancelingTimers_`, that
  sequences are fresh, and what timerfd is armed for while callbacks run.  The calls
  (`AddTimer`, `Cancel`, ...) and the loop's steps are proved to keep it one by one.
* **`TcpConnectionProofs`**: `TypeCorrect`, `OutputSafe`, `OutputNotified`,
  `AssertionsHold`, `ImplementsLifecycle`.  The invariant has two halves:
  `OutputInv` relates wire, buffer, POLLOUT and callbacks; `ConnectionInv` says, for
  each `state_`, what the channel, the functors, the pending callbacks and the removal
  look like, which is what excludes a late or doubled event.
* **`BufferProofs`**: `BufferSafe` and `BufferIsQueue`, for every size of the vector, of
  the extra buffer, of a byte and of what callers hand over.  The inductive invariant
  `Bounded` is the picture of `buffer.h` (the indices in order within the vector) with
  the bounds on the content and the vector.  One lemma per method says what it does to
  `Content`: `makeSpace` and `shrink` nothing, `append` and `readFd` add at the end,
  `prepend` at the front.  `DecodeEncodes` shows that reading an integer undoes writing
  it, sign included, and `FindEOLFinds` and `CRLFMatches` that the searches find the
  first match; `QueueStep` puts them together as the step of `ByteQueue`.

### Model-checked only

* Liveness, which the prover does not handle under fairness: `FunctorsRun`,
  `QuitEndsLoop`, `OwnerReturns`, `NoStarvation`, `TimerFires`, `OutputDrains`,
  `ClosedIsRemoved`, `ClosedAreForgotten`, `RequestsAnswered`, `StopSettles`,
  `Reconnects`, `WorkEnds`, `LinesFlushed`.
* `PollPoller`'s refinement of `Poller`; the composed systems `WorkerThread`, `Server`,
  `TcpClient`, `ThreadPool` and `AsyncLogging`.
* `Calendar`: the arithmetic of dates is walked day by day, and the conversion of
  numbers is recursive, which the prover cannot reason about by induction.

## 5. Not modelled

* `~Server`, `~TcpClient` and `~Connector`: in the models the Server and the client
  outlive their loops.  The source leaves the raw pointers bound in callbacks to
  FIXMEs.  By reading: `~Server` destroys a connection in `kDisconnecting` without
  disabling its channel, against the assertion in `Channel::remove`.
* The order in which Worker's constructor builds its members (`timerQueue_` before the
  `poller_` it uses), an expired `tie_`, and `shutdown()` from another thread, which
  `tcp_connection.h` calls not thread safe.
* `sendInLoop` bound to a raw `this`: the model assumes that whoever sends keeps the
  connection alive until the functor has run.
* Races on plain flags (`quit_`, `state_`, `connect_`): a read gives the value before or
  after the write, as for an aligned word.  `Loop()` calls into other translation units
  between two reads of `quit_`, so it does read it anew.
* `BlockingQueue` and `BoundedBlockingQueue`, which nothing in the library uses and
  whose discipline is that of ThreadPool's queue.
* The text of log lines other than numbers and times, levels, floating point, the layout
  of zone files, `Timestamp`, system-call wrappers, address conversion, `/proc`, thread
  keys, atomics and language support: formatting and thin layers without a protocol.
