# A TLA+ verification of mymuduo

mymuduo is a C++ rewrite of the muduo network library: a reactor
(`src/src/net`), a thread pool (`src/src/base`), a logger (`src/src/logger`) and
example programs (`src/example`). This directory models the parts of it that keep state, checks
them with TLC on small instances, and proves some of their invariants with TLAPS
for every value of the constants. `PROJECT.json` is the index: components, runs,
mutants, the map from definitions to source lines, hazards, findings, theorems.

    tlasany M.tla                          parse
    tlc -workers 2 -config X.cfg MCM       model-check (X.cfg instantiates MCM.tla)
    tlapm MProofs.tla                      check the proofs

## The system

| Part | State | Operations | Talks to |
|---|---|---|---|
| EventLoop | `quit_`, `pendingFunctors_`, `callingPendingFunctors_`, the eventfd | `loop`, `quit`, `runInLoop`, `queueInLoop`, `wakeup`, `handleRead`, `doPendingFunctors` | every thread that queues functors; its poller |
| EventLoopThread, Thread | `loop_`, a semaphore, a condition variable | `startLoop`, `threadFunc`, `~EventLoopThread`, `Thread::start/join` | its owner, the loop in its thread |
| Channel, EPollPoller | event mask, `index_`, the epoll set | `enable*`, `disable*`, `remove`, `updateChannel`, `removeChannel`, `handleEventWithGuard` | the loop, its owner's callbacks |
| TcpConnection | `state_`, output buffer, channel, the socket's write end | `send`, `shutdown`, `sendInLoop`, `shutdownInLoop`, `handleRead/Write/Close/Error`, `connectionEstablished`, `connectionDestoryed` | its loop, users' threads, the server, the peer |
| Buffer | a vector and two indexes | `append`, `retrieve*`, `readFd`, `makeSpace` | TcpConnection |
| Acceptor | the listening socket, `idleFd_` | `handleRead` | TcpServer; every thread that opens descriptors |
| TcpServer, EventLoopThreadPool | `connections_`, `nextConnId_`, `loops_`, `next_` | `newConnection`, `removeConnection(InLoop)`, `~TcpServer`, `getNextLoop` | base loop, sub-loops, connections |
| TimerQueue | two sets of timers, the timerfd, the batch being called | `addTimer`, `cancel`, `handleRead`, `reset` | its loop, users' threads |
| ThreadPool | a bounded queue, two condition variables, `running_` | `start`, `stop`, `run`, `take` | callers, workers |
| AsyncLogging | two front and two spare back-end buffers, the full ones | `append`, `threadFunc`, `stop` | logging threads, LogFile |
| Logger, LogStream | a line in a fixed buffer, `g_logLevel`, `g_output` | `LOG_*`, `operator<<`, `~Logger`, `setLogLevel`, `setOutput` | stdout or AsyncLogging |
| LogFile, FileUtil | counters and times of the last roll and flush | `append`, `rollFile`, `flush` | AsyncLogging |
| testserver, stress_client | connections; a request counter and statistics | `onMessage`; `worker` | each other, over the Acceptor |

What is hard here: functors cross threads through a swap under a mutex and a
wakeup outside it; `send` and `shutdown` test a connection's state in one thread
and act on it in another; a connection's end passes through three queues in two
threads and its lifetime hangs on who holds a `shared_ptr`; timers are cancelled
while they are being called; condition variables are signalled once for several
waiters; buffers change hands between front end and back end; a loop is a local
variable of the thread that others stop; a descriptor number is anybody's as soon
as it is closed. The hazards, each at
its line, are in `PROJECT.json`.

## The modules

* **EventLoop** - one action per critical section or system call of `loop()` and
  of the calls other threads make. `pc` is where the loop thread is, `owesWakeup`
  the threads between the push and the `wakeup()` of `queueInLoop` or `quit`.
  The poll timeout is an action nothing relies on. **TaskQueue** is what users are promised, a FIFO
  queue of tasks; EventLoop and ThreadPool are shown to implement it.
* **EventLoopThread** - extends EventLoop: the owner's `startLoop` and
  `~EventLoopThread` (`at`) and `threadFunc` (`tpc`), a step per system call, per
  critical section and per unguarded read. While `tpc` is `"loop"` the steps are
  EventLoop's. Other threads use the loop only if they can have its address.
* **Channel** - the mask and `index_` as operators on a record.
  **Connection** - each member function of TcpConnection that runs in the loop
  thread, as an operator from the connection before to the connection after.
  **TcpConnection** - those operators under interleaving: one connection, its loop
  thread (events with any combination of flags, functors, callbacks that call
  `send` and `shutdown`), users' threads whose calls take two or three steps, and
  a peer that closes or resets.
* **TcpServer** - the same operators for several connections on several loops,
  with the lifetimes: a connection is destroyed by the thread whose step drops the
  last owner. Each loop is EventLoop's iteration without the wakeup (which
  EventLoop shows never to be lost). `setThreadNum` is the choice of `loops_` in Init.
* **Acceptor** - `handleRead`, one step per system call, over the table of
  descriptors that all threads share. **StressClient** - the workers of
  `stress_client.cc`, a step per call, every blocking call with its timeout.
  **EchoServer** composes the two with `testserver.cc`'s `onMessage`; the layers
  below that callback are in their own modules, and a socket takes at once what is sent.
* **TimerQueue** - timers live at addresses that are used again; time is relative
  (ticks until), so the state space is finite without a clock. The 100 us minimum
  of `resetTimerfd` is one tick.
* **Buffer** - the vector byte by byte with its indexes; **ByteQueue** is the
  abstraction it implements.
* **ThreadPool** - `at[t]` is where each thread is; a notify moves one waiter.
  Spurious wakeups may happen, and nothing relies on them.
* **AsyncLogging** - lines as numbers with lengths through the four buffers and
  the ones allocated on demand.
* **LogStream** - the characters each `operator<<` adds, integers and pointers digit
  by digit. **Logging** - extends LogStream and AsyncLogging: a log statement from
  the macro's test of the level to `g_output` and the abort of `LOG_FATAL`.
* **LogFile** - the counters and times that decide on rolling and flushing; a file
  name is the second it was opened in.

In TcpServer and Logging a *load*, chosen in Init from `Loads`, says how much of
what a behaviour may do (threads, connections, lines, items), so that one run
covers several small instances that would be too many states in one.

`MC*.tla` instantiate these for TLC, `*Proofs.tla` hold the theorems. An operator
`X_Hint` just before `X` is `X` with a plausible mistake; replacing `X` by it makes
a property fail, which shows that the property depends on that line of code.

## The runs

| Run | States | What it shows |
|---|---|---|
| event_loop | 60427 | A loop from `startLoop` to the end of `~EventLoopThread`. `NoLostWakeup`, `PromptExecution`: the loop never sleeps on work nobody will wake it for, without the poll timeout; `EarlyRunByTimeout`: what the init callback queues needs that timeout; `RunsInOrder` (refines TaskQueue); `LoopOutlivesUse`, `GoneAfterThread`; `StartLoopReturns`, `DestructorEnds` |
| event_loop_early_quit | - | violated: a `quit()` before `loop()` is overwritten |
| connection | 114763 | `StreamIntact`, `FinAfterAllBytes`: no byte lost, doubled, overtaken or cut off; `ChannelFollowsConnection`; `ShutdownCompletes` |
| connection_late_send | - | violated: `shutdown()` can overwrite `kDisconnected`, and then `sendInLoop` sends on a closed connection |
| server | 247583 | `ChannelLeftPoller`, `ServedUntilClosed`, `UpDownInTurn`; `ClosedIsReleased`, also with a thread that sends, shuts down and drops its reference; `TeardownEnds` |
| server_raw_this | - | violated: `send()` binds a raw `this`, and the functor can run after the destructor |
| timer_queue | 38124 | `OneOwner`, `ArmedForEarliest`, `CancelledStaysOut`; `EveryTimerFires` |
| buffer | 9675 | `ByteFifo` (refines ByteQueue) |
| thread_pool | 144416 | `TakenInOrder` (refines TaskQueue); `StopReturns`, `QueuedIsTaken`, `RunReturns` |
| logging | 139947 | `NumbersReadBack`, `EndsOrFull`: what a line holds; `FatalLineShown`; `LinesInOrder`, `EnoughToRecycle`: the way through AsyncLogging; `EveryLineFlushed`, `StopReturns` |
| log_file | 34500 | `NamesDiffer`, `NewDayNewFile` |
| echo | 127830 | `IdleFdOwned`: EMFILE is survived without closing a descriptor of somebody else; `EveryRequestCounted`; `ShortOnlyIfSplit`; `BacklogAnswered`, `DescriptorsReturn` |

Deadlock checking is off where the system may come to rest (a loop that has been
left, a server that is gone, a pool that has stopped, a bound that is reached).

### Bounds, and why they are enough

* EventLoop, EventLoopThread: two callers, one of them the owner, so that two wakeups race, two functors so that one is
  pushed while the other runs, an eventfd that saturates at 2 so that a failing
  `write` happens.
* TcpConnection: three messages of two bytes, so that writes are partial and a
  message is sent while another is buffered; a high-water mark that is crossed.
* TcpServer: two connections, because one may close while the other is accepted or
  handled in the same iteration; zero, one and two sub-loops, because with none
  every `runInLoop` is a direct call. Nobody sends in that load (a send only adds a
  functor that keeps a connection longer); a second load has one connection and a
  thread that sends, shuts down and lets go, before or during the destruction of the
  server.
* TimerQueue: two timers on two addresses (an address is used again by the second),
  delays of 0 to 2 ticks, so that timers fall due together or apart, and a late
  handler catches up.
* Buffer: vectors small enough that every case of moving, growing and spilling
  occurs within a few calls.
* ThreadPool: two workers, one caller and nested calls give three threads that
  push; a queue of one place makes them block, an unlimited one makes order visible.
* Logging: a LogStream of 20 bytes, filled by up to four items at any byte; all
  integers of 8 bits, signed and unsigned, so that the least one is among them;
  six lines in AsyncLogging buffers of two short lines or a long one, which use up
  both front buffers and allocate more while the back end writes; two threads of
  which one aborts.
* LogFile: days of three seconds, a check every three lines, a roll size that two
  lines exceed.
* EchoServer: two workers and two requests of two bytes, which may be cut in two;
  the spare descriptor and one more, which a file of another thread may take at any
  moment, so that `accept` fails with EMFILE and the spare one can be lost.
  `LogKeepsErrno = FALSE`: LOG_ERROR between the failing `accept` and the test of
  `errno` may change it.

### Fairness, and what justifies it

* A thread that is ready runs in the end: weak fairness of each loop's steps, each
  worker's, each user call that has begun. The kernel's scheduler gives that.
* EventLoop: `epoll_wait` returns if a descriptor is ready (`WakeupPoll`). The
  timeout of 10 s is not used, so the properties say more than that a functor is
  run in ten seconds.
* TcpConnection: the peer reads, so a writable socket is reported and takes bytes;
  a close of the peer is reported (level-triggered epoll).
* TcpServer: users let go of their connections; without it none would be released.
* TimerQueue: time passes; a queued functor is run although new events keep coming
  (strong fairness of `RunPending`: `doPendingFunctors` runs in every iteration).
* ThreadPool: tasks end. AsyncLogging: the timed wait times out, while the process lives.
* EventLoopThread: both threads are scheduled; spurious wakeups are possible and
  not relied on. `EarlyRunByTimeout` alone assumes that the poll timeout occurs.
* EchoServer: the client's blocking calls end, if only by the timeouts it sets.
* Nothing is assumed of the peer closing, of users' calls, of `quit()` and `stop()`,
  or of other threads opening or closing files.

## What is proved

For every value of the constants that satisfies the `ASSUME` of its module:

* **EventLoopProofs** - `TypeCorrect`, `NoWakeupIsLost`, `QuitIsSeen`,
  `FunctorsRunOnce`, `LoopIsTaskQueue`. `NoLostWakeup` is not inductive: it says
  nothing of the moments before the loop polls. `WakeupInv` adds that in every
  part of an iteration from which the loop may reach `epoll_wait` without passing
  `doPendingFunctors`, a queued functor has its wakeup, and that
  `callingPendingFunctors_` marks that part. For the queue, the invariant is that
  the functors in `executed`, the batch and `pendingFunctors_`, in that order, are
  one injective sequence of the posted ones; a step of the loop only moves the
  boundaries, which is the refinement. Of EventLoopThread: `LoopOutlives`,
  `ThreadGoesFirst` from `ThreadInv` (the address is published exactly while the
  thread is in `loop()`, which it leaves only when told to; the owner is past its
  wait only after it has seen the address), and `ThreadRunsEventLoop`: every
  behaviour of the composition is one of EventLoop, so `ThreadLosesNoWakeup`.
* **TcpConnectionProofs** - `StreamStaysIntact`, `HalfCloseAfterAllBytes`,
  `WatchedWhileBuffered`. The three need each other: `sendInLoop` may write directly
  because an idle EPOLLOUT means an empty buffer, `shutdownInLoop` may shut because
  of the same, and a shut write end means that nothing is added to the buffer. The
  invariant `Stream` says that the stream is whole, or broken by a write that the
  kernel refused (after a reset, or a late send), after which nothing is buffered
  again. Each member function has a lemma that it keeps `Stream`; the steps of the
  system cite them.
* **TimerQueueProofs** - `EveryTimerHasOneOwner`,
  `CancelledTimerStaysOut`, `TimerfdServesEarliest`. `OneOwner` is inductive only
  with the queue of the loop: no timer has two `addTimerInLoop` functors, and
  outside `handleRead` the batch is empty. For cancelling, sequence numbers are not
  used twice although addresses are, and a cancelled timer that still exists is in
  the batch and in `cancelingTimers_`, where `reset` will look. For the timerfd, it
  is armed no later than for every timer in the set; that the first of the set is
  the least expiration needs that the naturals are well-founded.
* **EchoServerProofs** - `IdleFdNeverAnothers`, `FiguresAddUp`,
  `AnswersCutOnlyIfSplit`. The first needs to
  know what `idleFd_` is at each system call of `handleRead`, that without a racing
  thread a free descriptor is left for the reopening, and that a connection in the
  kernel's queue was never served, which holds because a worker has fetched its
  number alone. The second is counting: the requests fetched are those counted and
  those in the hands of a worker. For the third, no two workers share a connection,
  what a worker has sent waits at the server until `onMessage` answers and shuts down,
  and from then on what is on its way back and what the client has add up to the
  message, unless `onMessage` read it in parts.
* **BufferProofs** - `IndexesInOrder`, `BufferIsByteQueue`, `GrowthIsNeeded`: the
  readable bytes after each of moving, growing and spilling are computed once per
  operator in lemmas; the steps cite them.
* **AsyncLoggingProofs** - `NeverOutOfBuffers`: counting. Whatever is missing of the
  two spare buffers has been given to the front end in the same round, and the
  number of buffers to write is at least the number to give back. `LinesStayInOrder`:
  the lines in the file, in the buffers being written, in `buffers_` and in
  `currentBuffer_`, in that order, are the lines appended, in order; a swap or a move
  only shifts the boundaries, and a spare buffer is empty because `reset` was called.
* **LoggingProofs** - `LinesEnd`, `NumbersSurvive`, `FatalLinesShown`, and
  `LoggingUsesAsyncLogging`: every behaviour of the loggers is one of AsyncLogging,
  so `LoggedInOrder` and `LoggedWithBuffers`. The digits of a number are recursive
  functions; what they compute for every integer is proved by a least counterexample,
  the naturals being well-founded (`InductionOnNat`, stated for sets; the library's
  induction rules, which take an operator, are not used). `LineInv` says that a line
  from which nothing was dropped is its header, its item and its ending, and that
  whatever was dropped a line is neither empty nor longer than the buffer. The
  assumptions are those the code makes of its constants: `NumericAssumption`
  (`kMaxNumericSize` holds the longest number) and `LineAssumption` (the lengths of
  AsyncLogging's lines are those of a LogStream).
* **LogFileProofs** - `LogTypes`, `FilesOpenedOnce`, `DayRolls`, `LongFilesRoll`.
  The invariant ties the last file name to `lastRoll_`, `startOfPeriod_` to its day,
  and the stale lines to `count_` (at most as many as have been counted since).

Some theorems state what no run lists (`QuitIsSeen`, `FunctorsRunOnce`,
`WatchedWhileBuffered`, `IndexesInOrder`, `GrowthIsNeeded`, `LongFilesRoll`).

Only model-checked: every liveness property (the prover does not treat fairness);
TcpServer and ThreadPool; `ChannelFollowsConnection`.

## Where code and documents disagree

Three runs are expected to fail; `PROJECT.json` quotes the sentences they refute.
Other differences met while modelling are built into the properties instead:

* A functor the loop thread queues before `loop()` gets no wakeup
  (`EventLoop.cc:140`); `NoLostWakeup` excepts it, and `EarlyRunByTimeout` says
  what is left.
* `~EventLoopThread` reads `loop_` without its mutex (`EventLoopThread.cc:17`): if
  somebody else made the loop quit, it may see the nullptr of `threadFunc`'s end and
  let the thread go while that still holds the mutex (`GoneAfterThread`). A
  `quit()` that comes between the publication of the loop and `loop()` is
  overwritten, and `join` waits for ever (`DestructorEnds`). The `wakeup()` of
  a `quit()` may come when the loop it is about has already been destroyed.
* `shutdown()` tests and stores `state_` in two steps (`TcpConnection.cc:119`), and
  can turn a closed connection back into kDisconnecting; `ChannelFollowsConnection`
  and `UpDownInTurn` except a connection this has happened to.
* `onMessage` of the echo server shuts down after the first read
  (`testserver.cc:51`): a message that arrives in two parts is echoed in part
  (`ShortOnlyIfSplit`).
* The newline of a line is dropped like anything else when its LogStream is full
  (`Logging.cc:152`, `EndsOrFull`), and `LOG_FATAL` flushes stdout, not the
  AsyncLogging its line went to (`FatalLineShown`).
* `sendInLoop` refuses only `kDisconnected`, although its comment speaks of
  `shutdown` (`TcpConnection.cc:257`): a late `send` writes to a shut socket, and
  gets EPIPE. `StreamIntact` and `FinAfterAllBytes` except it (`late`).
* The last reference to a connection may be dropped by the base loop's thread
  (`TcpServer.cc:129`), so destructors do not always run in the connection's loop;
  `ChannelLeftPoller` says that the channel is out of the poller by then.
* `~TcpServer` may reach `connectionDestoryed` while `state_` is `kDisconnecting`,
  which that function leaves as it is (`TcpConnection.cc:147`). A `send` that another
  thread had begun before then passes the test of `sendInLoop`, and its
  `enableWriting` puts the channel back into the poller although the connection is
  about to go; `ChannelLeftPoller` excepts a connection this has happened to
  (`rearmed`).
* A connection in `kDisconnecting` is destroyed by `~TcpServer` without its
  callback (`TcpConnection.cc:147`).
* A timer cancelled by an earlier callback of its batch is still called once
  (`TimerQueue.cc:142`), cancelling the earliest timer leaves the timerfd armed
  (`:138`), and cancelling one whose addition is still queued has no effect.
* A log file may exceed `rollSize_` within the second it was opened in
  (`LogFile.cc:69`), takes up to `checkEveryN_` lines of a new day (`:92`), and is
  flushed after `checkEveryN_` lines only if `flushInterval_` has passed (`:106`).

## What is not modelled

* Socket and InetAddress (wrappers; what the system calls may answer is in the
  callers' modules), CurrentThread, Timestamp; CircularBuffer, which does not compile
  and is not used.
* The characters of doubles and of the time in a log line, and the `struct tm` that
  `localtime` shares between threads (`Logging.cc:130`); `setFlush` and
  `getErrnoMsg`, which nothing calls.
* Arguments, the resolving of addresses and the printed percentiles of
  `stress_client.cc`.
* `EventLoop::runAt` and its kin: `timerQueue_` is never created (`EventLoop.h:73`),
  so they cannot be called. TimerQueue is checked as if its loop had one.
* The destructors `~Acceptor` and `~TimerQueue`, and a
  ThreadPool that is started again.
* Failing `epoll_ctl`, `eventfd`, `timerfd_create` (LOG_FATAL ends the program) and a
  failing `fwrite`.
* A local clock that is set back. Atomics (`state_`, `quit_`, AsyncLogging's
  `running_`) are sequentially consistent, as declared; each access is a step of its
  own. ThreadPool's `running_` is a plain `bool` that `runInThread` reads without the
  mutex: the model lets a worker see the old value until it has had the mutex.
