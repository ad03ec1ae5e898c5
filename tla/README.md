# TLA+ models of WebKit's concurrent core

WebKit (this repository is WebKitGTK) is a browser engine of some three
million lines. What of it runs on more than one thread rests on a small core
in `Source/WTF/wtf`: a word-sized lock, a global table of queues of sleeping
threads, a one-byte lock, a one-byte condition variable and what is built from
them. On that core stand three protocols of the engine itself: the garbage
collector's handshake between the mutator and the collector thread, the
concurrent compiler's worklist, and the messages between WebKit's processes.
All of these are short, and full of steps of several threads or processes
whose order no test can force. This project models them, checks the models
with TLC and proves the main results with TLAPS.

Contents: 1 the system, 2 the modules and how they correspond to the code,
3 the properties, 4 the runs, 5 fairness, 6 the proofs, 7 what is not modelled,
8 the plan.

## 1. The system

### The parts that matter here

| Part | State | Operations | Hard because |
|---|---|---|---|
| `WordLock` (`WordLock.h/.cpp`) | one word: lock bit, queue-lock bit, pointer to the first queued thread; per thread `shouldPark`, `nextInQueue`, `queueTail` | `lock`, `unlock` and slow paths | weak CAS, barging, a queue threaded through the waiters' own records, plain stores that release the queue, a wakeup outside the waiter's lock |
| `ParkingLot` (`ParkingLot.h/.cpp`) | a hashtable of buckets that is never freed, a queue and a `WordLock` per bucket; per thread `address`, `token` | `parkConditionally`, `unparkOne` (with and without callback), `unparkCount`, `unparkAll`, thread creation and exit | the table is replaced while threads look for their bucket in it; timeouts race unparks |
| `Lock` (`Lock.h/.cpp`, `LockAlgorithm*.h`) | one byte: held bit, parked bit | `lock`, `tryLock`, `unlock`, `unlockFairly`, `safepoint` | parked bit and queue change under different locks; direct handoff to a sleeping thread |
| `Condition` (`Condition.h`) | one byte `m_hasWaiters` | `waitUntil` and its forms, `notifyOne`, `notifyAll` | the byte is read, and cleared, without a lock |
| `ReadWriteLock` (`ReadWriteLock.h/.cpp`) | `m_isWriteLocked`, `m_numReaders`, `m_numWaitingWriters` under a `Lock`, one `Condition` | `readLock`, `readUnlock`, `writeLock`, `writeUnlock` | one condition for everybody, writers first |
| `AutomaticThread` | a condition's list of threads, `m_isRunning`, `m_isWaiting`, `m_hasUnderlyingThread` | `notifyOne`, `notifyAll`, `start`, `tryStop`, `join`, the thread's loop | a thread's idle timeout races its notification |
| `ParallelHelperPool` | per client `m_task`, `m_numActive`; `m_isDying`, the pool's threads | `setTask`, `doSomeHelping`, `finish`, `ensureThreads`, destruction | a task ends while others are about to join it; threads come and go |
| `JSC::Heap` world state | `m_worldState` bits, request queue and tickets, current and next phase | acquire and release access, stop and resume the mutator, request and wait for a collection, finalize | the mutator and the collector thread hand the "conn" to and fro with CASes and parking |
| `DFG::Worklist` | `m_queue`, `m_plans`, `m_readyPlans`, per thread `m_plan`, `m_rightToRun`, `m_safepoint` | enqueue, complete, wait for, cancel and forget plans; suspend and resume the compiler threads | collections cancel plans in every stage; VMs end while their plans are compiled |
| `IPC::Connection` | incoming queue, `m_waitingForMessage`, stack of pending sync replies, reply handlers, validity | send, send sync, wait for a message, dispatch, close, invalidate | three mutexes, two threads per process, handlers that send and wait themselves, close at any point |

`Lock` and `Condition` park on the address of their byte in the `ParkingLot`;
each bucket of the `ParkingLot` is guarded by a `WordLock` (which therefore
cannot use the `ParkingLot` itself, and has its own queue); `ReadWriteLock`,
`AutomaticThread`, `Heap` and `Connection` are clients of `Lock`, `Condition`
and, for `Heap`, of the `ParkingLot` directly; the heap's collector thread, the
helpers of its marking (`ParallelHelperPool`) and the compiler threads of the
`Worklist` are `AutomaticThread`s; a collection suspends the `Worklist`. The
layers interact through:

* the *validation* function of a park and the *callback* of an unpark, both
  run under the bucket lock: that is where the byte of a `Lock` or `Condition`
  and the queue of its address are brought into agreement;
* `mayHaveMoreThreads`, what an unpark tells its callback about the bucket;
* the *token* an unparker leaves for the thread it wakes (`DirectHandoff` or
  `BargingOpportunity`).

### The rest of the repository

WTF's containers, strings and platform wrappers; JavaScriptCore's parser,
interpreter, compilers and garbage collector; WebCore's DOM, styling, layout
and loading; WebKit's UI, web and network processes; the GTK API; bmalloc;
vendored code. Most of it is sequential code on one thread with a very large
state, specified by standards and tested by layout tests. `PROJECT.json`
lists these parts with the reason each is left out.

## 2. Modules

| Module | Models | Extends or instantiates |
|---|---|---|
| `Mutex` | abstract: what every mutex promises | |
| `WordLock` | `WordLock.h`, `WordLock.cpp` | implements `Mutex` |
| `ParkingQueues` | abstract: one FIFO queue of threads per address | |
| `ParkingLot` | `ParkingLot.h`, `ParkingLot.cpp` | implements `ParkingQueues` |
| `Lock` | `Lock.h`, `Lock.cpp`, `LockAlgorithm.h`, `LockAlgorithmInlines.h` | implements `Mutex` |
| `Condition` | `Condition.h`, with the clients of `TestWebKitAPI/Tests/WTF/Condition.cpp` | extends `Threads`, the threads and their assumptions |
| `ReadWriteLock` | `ReadWriteLock.h`, `ReadWriteLock.cpp` | extends `ReadWriteLockState`: the variables and what the lock promises; that extends `Threads` |
| `AutomaticThread` | `AutomaticThread.h`, `AutomaticThread.cpp`, as operators for its users | |
| `ParallelHelperPool` | `ParallelHelperPool.h`, `ParallelHelperPool.cpp` | extends `AutomaticThread` |
| `DFGWorklist` | `DFGWorklist.h`, `DFGWorklist.cpp`, `DFGSafepoint.cpp` | extends `AutomaticThread` |
| `HeapWorld` | the parts of `Heap.cpp`, `Heap.h`, `HeapInlines.h` about `m_worldState`, phases and tickets | |
| `IPCConnection` | `Connection.cpp`: messages, synchronous messages, dispatch, close | |
| `IPCWaitForMessage` | `Connection.cpp`: `waitForMessage` | extends `IPCMessageOrder`: the messages on their way to the client and the order promised for them |
| `IPCReplyHandlers` | `Connection.cpp`: `sendMessageWithReply` and the handlers | |
| `*Proofs` | theorems about the module of that name; `ConditionProofs` also about `ReadWriteLock`, `IPCConnectionProofs` also about `IPCWaitForMessage` and `IPCReplyHandlers` | extend it, `TLAPS` and the state modules of the others, and instantiate those |
| `MC*` | instances for TLC | extend the module of that name |

The layers are joined by abstraction: each module uses the layer below as the
abstract module that the layer below is shown to implement. `ParkingLot` uses
bucket locks as mutexes (`WordLock` implements `Mutex`); `Lock` and `Condition`
use the parking lot as one FIFO queue (`ParkingLot` implements
`ParkingQueues`); `Condition` and `ReadWriteLock` use their `Lock` as a mutex
(`Lock` implements `Mutex`); `ReadWriteLock` uses `wait()` as "release and wait
in one step" (`Condition`'s `LockHeldAroundWait`). The same holds further up: a
section under a `Lock` is one step of `AutomaticThread`, `DFGWorklist` and the
IPC modules, and `HeapWorld` uses `compareAndPark` and `unparkAll` as steps of
the abstract queue. The three IPC modules look at separate parts of a
connection's state (synchronous replies and queues; `m_waitingForMessage` with
the incoming queue; `m_replyHandlers`), which meet only in "the connection
closes" and "the connection is invalidated"; each has these as its own steps.

### WordLock

One action is one atomic access to `m_word`, or the plain accesses to queue
nodes between two of them by the thread that owns the queue, or one section
under a node's `parkingLock`. `m_word` is a record of the set of its low bits
and the pointer above them. `TryAcquire`, `LockQueue`, `ReleaseWord` and
`TakeQueue` are CASes on a value read one step earlier (`cur`), and fail when
the word has changed or, with `WeakCASMayFail`, at any time. `Publish` and
`StoreHead` are plain stores, as in the code. `Unpark` clears `shouldPark`
under the victim's `parkingLock`; `Notify` comes later, outside it.

### Lock

`m_byte` is the set of bits that are on. `LockSlow`, `TryAcquire`, `SetParked`,
`LockBucket`, `Validate`, `Enqueue`, `Park` are `lockSlow()` with the
`compareAndPark()` it calls; `UnlockSlow`, `ReleaseByte`, `UnparkOne`,
`Dequeue`, `Callback`, `ClearAddress`, `Signal` are `unlockSlow()` with the
`unparkOne()` it calls. Whether it is time to be fair (the bucket's random
`nextFairTime`) and whether a thread of another address shares the bucket
(`Collisions`) are nondeterministic.

### ParkingLot

`hashtables` is the list of all spines ever installed, the last one current;
none is freed (the code keeps them for ever, for this very reason). Buckets
are numbers, which stand for their addresses in memory, the order in which
`lockHashtable()` takes them. A section under one bucket's lock is one step;
`lockHashtable()` takes one lock per step. A thread locates its bucket in one
step and enters it in a later one, so that a rehash may come in between;
`Current` is the test that notices. What `new Bucket()` returns is up to
`Malloc`: from the buckets allocated so far to those that may come next, of
which the model only assumes that they are not in use. A park's `beforeSleep()`
runs between the bucket's unlock and the sleep; it is the caller's code and has
no step here (`Lock` passes an empty one; `Condition` has it as `BeforeSleep`).
`Filled` is the loop that
puts a bucket into every empty slot it needs, `NewSpines` what a rehash may
build out of the old buckets and new ones; `Rehash` deals the queues out to it
in their order. The constants `maxLoadFactor` and
`growthFactor` (3 and 2 in the code) are 1 in the runs, so that two rehashes
happen with three threads.

### Condition

The clients are those of the repository's own test: consumers that wait for
`items > 0` with the predicate forms of `wait` and `waitUntil`, and producers
that add an item and call `notifyOne` or `notifyAll` with or without the lock.
`NotifyAll` (the read of the byte), `ClearHasWaiters` (the store) and
`UnparkAll` are separate steps, because nothing makes them atomic. A timeout
leads through `TimedOut` (leave the queue, if still on it) and `AwaitUnparker`
(already dequeued: wait for the notifier and report success).

### ReadWriteLock

Taking `m_lock`, the body under it and waiting are separate steps; threads
that wait on `m_cond` are "readWait" or "writeWait", and "readWoken" or
"writeWoken" once notified and not yet back under `m_lock`. A woken writer is
still counted in `m_numWaitingWriters`, as in the code.

### AutomaticThread, ParallelHelperPool

Everything an `AutomaticThread` does happens under its user's lock, so the
module consists of operators that are parts of the users' steps: `PollWait`,
`PollWork`, `PollStop`, `WorkContinue`, `TimeOut`, `Relock`, `NotifyOne`,
`NotifyAll`. `where` says what the underlying thread is about to do. A thread
whose timed wait has ended ("timedOut") has left the condition variable, but
still has `m_isWaiting` until it gets the lock back: a `notify()` in between
only clears the flag, and the thread must notice. `ParallelHelperPool` adds the
clients: `claim` is the client whose task somebody runs, `owner` how far the
thread that set it has got.

### DFGWorklist

`step` is where a compiler thread is in `work()`: about to start, compiling, or
at a safepoint, where it has given up its `m_rightToRun`. `gc` is a collection of
a VM: it takes the suspension lock and then the rights to run one by one
(`TakeRight`), believes the world stopped, finds any of the VM's plans dead
(`RemoveDeadPlans`, for plans of `MayDie`), and resumes. A mutator enqueues,
completes ready plans, waits for all of its plans, and leaves with
`removeNonCompilingPlansForVM`. `Looking` are the compiler threads that are up and
not at work on a plan. The worklist's destructor queues a null plan per
thread and joins them.

### HeapWorld

There are two actors, the mutator and the collector thread. `todo` is what an
actor still has to execute, innermost call first, with labels named after the
functions: the conn changes hands in the middle of calls, and what a call does
next depends on who has it when it gets on. `world` is the set of bits of
`m_worldState`. A load and the weak CAS on the loaded value are one step,
because a failed CAS has no effect but another load. Phases are kept in their order; what
they do to objects is not. `CollectAsync` goes on with or without
`stopIfNecessary()`: `collectNow()` and `collectIfNecessaryOrDefer()` call it, the
GC timers and Wasm do not, and their mutator may release access, or go on, with
the conn it got from its request. `WindowRequests` says whether a request may come
while the collector thread is between the end of a collection and its next
`poll()`; see the finding in section 4.

### IPCConnection

An endpoint is one side of a connection; `ProcessOf` says whose it is, so that
one process can have two connections that share its main thread, its run loop
and its `SyncMessageState`. `stack` is the main thread's calls: handlers,
`dispatchMessages()` with its local vector and what is to be put back (one step
per turn of the code's loop, and one for its end), and waits for a synchronous
reply ("dispatch", "check", "semaphore"). `wire` is a socket, a FIFO. The
connection queue's `Receive`, `ConnectionDidClose` and `PlatformInvalidate` are
steps of their own. After a crash the peer may read some of what was sent; but it
looks at the hang-up before it reads (`ConnectionUnix.cpp:345`), so that its
`ConnectionDidClose` may come at any time and leave the rest unread.

Two steps are coarser than the code's locks. `ProcessIncomingMessage` appends the
message under `m_mutex` (line 147) and signals the semaphore, which the code does
after the unlock (line 150); `EnqueueIncomingMessage` of `IPCWaitForMessage`
appends under `m_incomingMessagesMutex` and posts the task behind it (line 894).
In both cases the second half only adds a signal or a task, which disables no
step of anybody else and changes the outcome of none but a wait that would sleep
on until it comes; what others do between the halves they can do before or after.

### IPCWaitForMessage, IPCReplyHandlers

`waitForMessage()` is `Scan`, `Register`, `Look`, `StopWaiting` with the locks
given up in between as in the code, and `TimeOut`; messages are numbers in the
order they came, of three kinds: the one waited for, a synchronous one, which
interrupts a wait when `InterruptWaiting`, and others. The client's `Invalidate`
comes between its other calls, the connection queue's `PlatformInvalidate` ends
the receiving later; `connectionDidClose()` is `InterruptWaiter`, `NotifyWaiter`,
`TellMainThread` and, in the run loop behind every `dispatchOneMessage()`,
`DidClose`. `DispatchOneMessage` drops the messages of an invalid connection, as
`dispatchMessage()` does (line 906); `waitForMessage()` has no such test. In
`discarded` the model keeps track of what is thrown away. In `IPCReplyHandlers`,
`connectionDidClose()` is three steps (`CloseSocket`, `ClearHandlers`,
`TellMainThread`), because the main thread may send, and the client invalidate,
between any two; `late` are the handlers installed after the map was cleared.
`CloseSocket` may come while replies are unread. Whoever clears the
map queues its handlers in the order of a `HashMap`, that is in any.

## 3. Properties

Those in the runs:

*WordLock.* `QueueSound`: while nobody owns the queue, head, links and tail
form one list of threads that want to sleep, a thread that must sleep is on it
or in the hands of an unlocker, and the code's own assertions hold.
`NoLostWakeup`: a thread asleep with nothing left to wait for is about to be
notified. `ImplementsMutex`, `Progress`.

*Lock.* `ParkedBitTruthful`: the parked bit is on while anybody is queued;
`AssertionsHold`; `NobodyForgotten`; `FairUnlockHandsOver`: nobody barges past
a fair unlock; `ImplementsMutex`; `SleeperIsWoken`.

*ParkingLot.* `NobodyForgotten`: a thread with an address is on the queue where
the current table looks for it, whatever was rehashed, or in the hands of one
unparker; `TokenTruthful`; `NoMoreThreadsIsTrue`: an unpark that empties the
bucket may say that nobody is left on its address; `AssertionsHold`;
`NobodyStuck`: no dequeued thread sleeps without an unparker about to signal
it, and no threads that lock whole tables wait for each other;
`ImplementsQueues`.

*Condition.* `HasWaitersTruthful`: `m_hasWaiters` is true while anybody is
queued, except for threads a `notifyAll()` under way is about to unpark;
`NoLostNotification`; `WaitersAccounted`: a thread with an address is queued once,
or in the hands of exactly one notifier that has still to wake it, and no two
notifiers hold the same thread; `ItemsReachWaiters`.

*ReadWriteLock.* `Exclusion`; `NobodyStranded`: nobody sleeps on the condition
while the lock is free, unless a writer is awake and about to take it;
`WriterPreference`; `WriterEnters`: while a writer waits and none writes, some
writer gets in.

*ParallelHelperPool.* `FinishMeansDone`: when `finish()` has returned nobody
runs the task, and nobody ever runs a task other than the installed one;
`EverybodyHelps`: while there is a task no thread of the pool is asleep or
gone; `FinishReturns`.

*DFGWorklist.* `NoPlanForgotten`: for each queued plan a thread is up and not at
work on another, unless all threads are up, so that no plan waits beside a
sleeping or absent compiler thread; `PlansAccounted`: every plan is in exactly one
place, the one its stage says, nothing cancelled is worked on, and a destructor
has a null plan for each thread it joins; `AssertionsHold`, in particular that
nothing is compiled for a VM whose collector believes the world stopped;
`WaitsEnd`: no step leaves a mutator asleep with nothing left to wait for, but
one: its own collector's `removeDeadPlans()`.

*HeapWorld.* `AssertionsHold`: the RELEASE_ASSERTs on the conn, the world
state, tickets and phases, each at the place where the code has it;
`WorldStopped`: when the collector believes the world stopped, it is;
`FinalizationInTurn`; `TicketsServed`: every requested collection is carried
out, every parked mutator unparked, and the VM can be destroyed.

*IPC.* `NoMissedWakeUp`: nobody sleeps on the semaphore, shared by all
connections and nested waits of a process, with something to do;
`NoMessageStranded`: every message queued or put back has a task that will
dispatch it; `RequestsTracked`: a request that is waited for is never lost,
whatever nests in the wait; `DeliveredInOrder`: no message reaches the client
twice, those `waitForMessage()` does not want reach it in order, none skipped, one
that the waiter missed is still queued with a task to dispatch it, and what is
lost is lost with an invalid connection or with a wait that gives up;
`HandlersCalledOnce`: a handler is called at most once, and called when the peer or
the connection is gone, but for the one way to miss it described in section 4.

## 4. Runs

| Run | Instance | States | Shows |
|---|---|---|---|
| `wordlock` | 3 threads, 1 spin, weak CAS | 70 thousand | WordLock is sound, implements Mutex, makes progress |
| `lock` | 3 threads, 1 spin, weak CAS, collisions | 269 thousand | Lock is sound, implements Mutex, wakes its sleepers |
| `parkinglot` | 3 threads that exit and come back, 2 addresses, all kinds of unpark, tables of 1 to 3 buckets | 1.6 million | no thread is lost in a rehash; FIFO queues are implemented |
| `condition` | 4 threads, 2 items, timeouts, collisions | 857 thousand | no notification is lost |
| `readwritelock` | 5 threads that read and write | 134 thousand | writers are alone and come first |
| `helperpool` | 3 threads, 2 clients, 2 tasks each | 98 thousand | tasks are over when `finish()` returns, and it returns |
| `worklist` | 2 threads, 2 VMs, 3 plans | 5.1 million | plans are neither lost nor worked on twice nor after their end |
| `heapworld` | 4 collections | 70 thousand | the conn is where the code asserts it is; collections happen |
| `heapworld_window` | 2 collections, requests in the window | violation | see the finding below |
| `ipc_connection` | 3 processes, 2 connections, 3 messages | 2.3 million | no lost wakeups, messages or requests |
| `ipc_wait` | 4 messages, a close, an invalidation | 506 thousand | no message is given twice, lost or out of order |
| `ipc_replies` | 3 requests | 7 thousand | each handler is called once |

*Bounds.* Three threads are the fewest with which the hard cases of a lock
happen: one holds or releases it, one is queued, one barges or appends. The
parking lot needs three for one that rehashes, one parked and one that unparks
or times out; its load and growth factors are 1 so that the table grows twice.
In its run `unparkOne` with and without callback is called on one address and
`unparkCount` on the other (`MCCalls`; `unparkAll` is `unparkCount` without a limit).
Its allocator takes the lowest free bucket (`MCMalloc`); the proofs are for every
allocator.
`Condition` has four: two waiters, so
that `mayHaveMoreThreads` matters, and two notifiers, so that a `notifyAll()`
and a `notifyOne()` meet. A spin limit of 1 exercises spinning and its end; the
proofs hold for every limit. Two items let a notification be pending while
another is added. Two tasks per client let a late helper of the first meet the
second. Of the three plans two are of one VM, so that one can be cancelled while
the other is compiled. Four tickets let a collection be requested while one
runs, one is being finalized and one is queued. With three messages in
`ipc_connection` a request, the request nested in its handler and a message of
the third process meet; which endpoints send what, time out (`Impatient`),
invalidate and crash (`MayCrash`) is in the cfg. Symmetry is used only in
`parkinglot`, which has no liveness property and whose threads all play every
part.

*Deadlock* is checked but where a system may have nothing left to do: in
`condition` all threads may wait for an item that nobody is obliged to produce;
in `worklist` and the IPC runs all plans may be done and all messages sent.

*Finding: a stolen conn.* `requestCollection()` gives the mutator the conn when
no ticket is open and `m_currentPhase` is NotRunning: "We may be able to steal
the conn. That only works if the collector is definitely not running right now."
(`Heap.cpp:2013`). The collector thread, at the end of a collection, stores
NotRunning (line 1520) and goes on inside `collectInCollectorThread()`.
`heapworld_window` shows a request in that window, after which the collector
thread's next check of the conn fails. `heapworld` excludes the window
(`WindowRequests` is FALSE) and shows that there is no other.

*Observations that no run asserts.* The models reach states in which the code
promises less than its callers or comments suggest; the properties say what
holds in spite of them.

* `notifyOne()` returns at once when `m_hasWaiters` is false, "At this exact
  instant, there is nobody waiting on this condition" (`Condition.h:142`).
  Between the store of false (line 171) and the `unparkAll()` (line 173) of a
  `notifyAll()` somebody is waiting. The comment is too strong; the code is
  right, because that `notifyAll()` wakes them all (`HasWaitersTruthful`).
* `removeDeadPlans()` (`DFGWorklist.cpp:404`) cancels plans and notifies nobody:
  a mutator in `waitUntilAllPlansForVMAreReady()`, which has given up heap access
  so that this collection could run (lines 249 to 254), sleeps on when its last
  plan was cancelled. `WaitsEnd` exempts this step, and no other.
* `dispatchMessages()` swaps the queue of marked messages into a local vector
  (`Connection.cpp:163`). A wait nested in the handler of its first message
  does not see those behind it, which may include the request whose sender it
  waits for. With three processes and four messages two waits can block each
  other; `RequestsTracked` counts such a request as not lost, and it is not.
* `waitForMessage()` scans the queue and registers itself under different locks:
  a message that comes in between is queued, and the waiter sleeps beside it
  (line 472). It looks at its interruption flag only after a wait: a close
  before it is noticed by the timeout only (line 493). And a message handed over
  just as the wait times out is dropped, because whoever stops waiting does not
  look at the decoder. `DeliveredInOrder` says what becomes of the messages: the
  missed one is dispatched like any other, the dropped one is the only loss of a
  valid connection.
* A reply handler installed after `connectionDidClose()` has cleared the map and
  before the main thread knows (line 412) is not called, unless the client
  invalidates the connection before the close does: it stays in the map of an
  invalid connection. `HandlersCalledOnce` exempts this and nothing else.

Every property has a mutant in `PROJECT.json`: a variant of one action with a
plausible bug (a plain store for a CAS, a dropped test, a missing
notification), which TLC shows to break the property.

## 5. Fairness

Safety needs none. For liveness:

* a thread inside a function of the library keeps being scheduled: weak
  fairness of its next step. Taking a mutex is one such step, only *weakly*
  fair: WTF's locks let others barge, so that a thread may be overtaken for
  ever, and no property assumes otherwise;
* critical sections end, and a thread that holds a lock unlocks it;
* nobody is obliged to call `lock()`, to park, to produce or to notify; a
  timeout need not happen; and a spurious wakeup never counts as progress.

* a weak CAS does not fail spuriously for ever (`CASFailsSpuriously` in
  `WordLock` and `Lock`): that is what the architectures promise of a loop
  around one;
* the collector thread and a mutator in the heap's functions are scheduled; the
  client takes and gives up heap access again and again, as `JSLock` does;
  marking converges (`MarkingTerminates`, strong fairness of the scheduler's
  choices to go on and to end); and the collector does not for ever hand the
  conn to a mutator that is just giving it back (`NoEndlessBounce`), of which the
  code says that it is "probably not the end of the world" (`Heap.cpp:1097`);
* the run loop and the connection queue run what is queued; nobody has to send,
  to answer or to close;
* tasks of the helper pool return, and an owner that set one calls `finish()`.

That is why the liveness properties are what they are: `Progress` (the lock
keeps being acquired) and not "every thread gets it", and `WriterEnters` for
some writer, not for each: another may barge for ever.

`ParkingLot`, `DFGWorklist` and `IPCConnection` have too many states for a
temporal check. What must eventually happen is stated there as safety:
whoever waits has somebody who owes it the step it waits for (`NobodyStuck`,
`WaitsEnd`, `RequestsTracked`). For IPC that is weaker than liveness: the one
who owes a reply may itself be waiting, as in the observation above.

## 6. Proofs

All theorems are for any set of threads (finite where a cardinality is used)
and every value of the other constants allowed by the ASSUMEs, which only say
that null is no thread and that limits and switches have their types; only those
of `HeapWorldProofs` have a hypothesis besides.

*WordLockProofs.* The inductive invariant is `TypeOK /\ MutualExclusion /\
LocalsFresh`. Mutual exclusion alone is not inductive, because a CAS compares
with a word read earlier: `LocalsFresh` records what that copy says (a thread
about to barge saw the lock bit off; one about to publish holds a copy with the
lock bit on; an unlocker at the queue saw a head). `WordLockExcludes`,
`WordLockTypes`, `WordLockWakes` (a second, smaller invariant about parking)
and `WordLockIsMutex` (refinement of `Mutex`, step by step) follow.
`WordLockQueueSound` is about the linked list. `QueueSound` says that it exists;
the inductive invariant of `WordLockQueue` names it instead: a length `n` and a
function `q` from positions to threads such that head, links and tail agree with
`q`, which nobody but the owner of the queue lock may change. That walking the
links meets exactly the threads of `q` is an induction over positions, done as
an argument about the least position where it would fail; the set of threads is
assumed finite for it.

*LockProofs.* The inductive invariant `IInv` of module `Lock` joins the four
invariants of the run with `BucketFacts` (who owns the bucket lock, and what it
may rely on meanwhile), `QueueFacts` (who is queued is queued once, sleeps, and
has no token yet) and `TargetFacts` (who was dequeued belongs to one unlocker
until its address is cleared). The last two are what makes a direct handoff
safe: the thread that receives the lock was on the queue once, so nobody else
can hand it anything. The proof first sorts the 20 actions into kinds by what
they do to the shared state, so that each part of the invariant is argued once
per kind. Theorems: `LockExcludes`, `LockKnowsParked`, `LockAsserts`,
`LockForgetsNobody`, `LockIsMutex`, and `LockHandsOver`, the action property
that nobody gets the lock by barging while a fair unlock hands it over.

*ParkingLotProofs.* The inductive invariant `IInv` of module `ParkingLot` has
four parts, because of what a thread may rely on while it has no lock. `TypeOK`
also says that `numThreads` counts the living threads. `TablesOK` is about the
spines: a slot that has a bucket keeps it, no bucket serves two slots, so the
bucket a thread found and the set of buckets it collected are still those of the
table it looked at, if not of the current one. `LocksOK` is about
`lockHashtable()`: locks are taken from the lowest bucket up, so that the highest
bucket held by threads that lock tables refutes a circle of them; from the check
of the table to the unlock all of its buckets are held, so that whoever
rehashes replaces the current table and nobody is in it. `PlacesOK` says where
a thread with an address is (`AddressOK`: on a queue, in the hands of one
unparker, or off by its own hand), what is on a queue (`QueueOK`: each thread
once, in the bucket where the current table looks for its address), what an
unparker holds (`TargetsOK`) and who has been woken (`WokenOK`).
Each action has two lemmas. `Tables...` keeps the first three parts. `Places...`
keeps the fourth, and says in the same breath which step of `ParkingQueues` the
action is: `Stays` (the queue of every address and the status of every thread are
as before; that is what rehashing, locating, sleeping and waking do), or a park,
a timeout, an unpark of a prefix, a return. The rehash is where this is hard:
the queues are emptied one after the other into one sequence and dealt out to the
new buckets. `Only(s, S)`, the subsequence of `s` of the members of `S`, carries
the argument: all threads of an address came out of one bucket (`QueueOK`), so
the subsequence for that address of the emptied queues is its old queue
(`Flattened`), and dealing out by hash does not reorder it. What `Only` and
`FlattenSeq` do to every sequence is shown by least counterexamples, as
elsewhere. Theorems: `ParkingLotInvariant`; the four invariants of the run,
`ParkingLotForgetsNobody`, `ParkingLotAssertionsHold`, `ParkingLotTokenTruthful`,
`ParkingLotStrandsNobody`; `ParkingLotNoMoreThreadsIsTrue`, the action property
that an unpark which empties its bucket leaves nobody parked on its address in
any other; and `ParkingLotImplementsQueues`, the refinement of `ParkingQueues`.
They hold for any threads and addresses, any hash function, any allocator that
returns nothing in use, any positive load and growth factor, and any unparks on
each address. The bucket numbers only have to be numbers.

*ConditionProofs.* `ConditionTruthful` from `HasWaitersTruthful` and
`BucketInv` (a waiter about to be appended has set the byte, or a `notifyAll()`
that cleared it since has still to empty the queue; a callback knows whether
anybody is left). `ConditionHoldsLock` needs only types. `ConditionLosesNothing`
(`NoLostNotification`) is a credit argument, `ItemsCovered`: while anybody is
queued, every item has a thread of its own that answers for it, which is one that
will look at the items or a notifier, who passes its credit on to the thread it
dequeues; or a `notifyAll()` is about to empty the queue. The invariant
`NotifyInv` adds `LockHeldAroundWait`, `EmptyHanded` (nobody queues up beside an
item) and `WaitersAccounted` (a thread with an address is queued once or in the
hands of one notifier), without which one thread could be credited twice. It
compares cardinalities, so the threads are assumed finite. `ConditionAccounts`
states `WaitersAccounted`.

*ReadWriteLock, in ConditionProofs.* The fields are the cardinalities of the sets of
readers, writers and waiting writers (`CountersTruthful`; in particular the
unsigned counters never go below zero), and each action adds or removes one
thread. `NobodyStranded` needs that a waiting writer always sees a holder
(`WriterInv`). Theorems: `ReadWriteLockExcludes`,
`ReadWriteLockStrandsNobody`, `ReadWriteLockPrefersWriters`.

*ParallelHelperPoolProofs.* The inductive invariant `PoolInv` of the module
joins types, `ThreadsInPlace` (a thread that is somewhere has an underlying
thread, and `m_isWaiting` is set only in the wait), `ClaimsCounted`
(`m_numActive` is the number of those who run the client's task), `TasksOwned`
(a client that is not busy has neither task nor helpers) and `EverybodyHelps`
itself. Whether a thread that timed out misses a task hangs on
`ThreadsInPlace`: its flag tells it. Theorems, for any number of threads,
clients and tasks: `PoolFinishes`, `PoolHelps`.

*DFGWorklistProofs.* The inductive invariant `IInv` of the module joins types
with where each thread is (`ThreadsInPlace`, `ActiveCounted`), where each plan
is (`PlansInPlace`), who holds which right to run while the threads are suspended
(`Suspension`), the null plans of the destructor (`Shutdown`) and
`NoPlanForgotten`. `WaitsEnd` is about a step: every action is shown to leave a
sleeping mutator a plan that is not ready, or to wake it. `removeDeadPlans`
rebuilds the queue: what its loop leaves is the recursive function `Moved`, and
that nothing but the dead plans is lost in it is again an argument about the
least counterexample. Theorems, for any number of threads, VMs and plans:
`WorklistForgetsNoPlan`,
`WorklistAccounts`, `WorklistAsserts`, `WorklistWaitsEnd`.

*IPCConnectionProofs.* The inductive invariant `IInv` joins types,
`CallsNested` (a wait under other calls has its checks to do next,
a nested `dispatchMessages()` keeps nothing for others, inner waits have later
requests), `PendingMatched` (the entries of `m_pendingSyncReplies` are the waits
on the stack, in order), `Signalled` (between a wait and its dispatching, a message
to dispatch has signalled the semaphore) and `NoMissedWakeUp`, which is not
inductive without the other three: the semaphore is one bit shared by all waits
of the process, and an inner wait may consume what was meant for an outer one.
`IPCInvariance` and `IPCMissesNoWakeUp` state this. `IPCTracksRequests` follows
each request from wire to queue to handler to reply, one lemma per action that
moves it. `IPCStrandsNoMessage` counts run-loop tasks against messages, with one
bijection per action that moves either. Any number of processes and connections,
and calls nested to any depth.

*HeapWorldProofs.* The two actors' stacks of calls are the hard part: a call
leaves behind what is still to be done, and the conn may have changed hands
before it is done. `On(x, S)` is the set of stacks that start with `x` and go on
with one of `S`; with it `CollectorOut`, `MutatorOut`, `CollectorIn` and
`MutatorIn` of the module describe every stack an actor can have outside and in a
collection, and `CollectorIn` and `MutatorIn` also say for each position which
change of phase is under way and which bits of `m_worldState` it relies on.
`OneDrives` says that at most one actor is in a collection; if it is the
collector thread, the mutator does not have the conn and is stopped while the
collector believes so, and if nobody is, a change of phase may be half done
(`stopTheMutator()` gave the conn away instead of stopping the mutator).
`PhaseFacts` ties the finalize bit, the scope and the queue of requests to the
phases, `WorldFacts` the bits to each other, `TicketFacts` the tickets to each
other and to the mutator's waits, `ClientFacts` access and shutdown to where the
mutator is. `WorldStopped` is not inductive without `OneDrives` and
`WorldFacts`, nor `FinalizationInTurn` without `PhaseFacts`. There is one lemma
per action, or two where it is taken in and outside collections.
`HeapInvariance` states the invariant; `HeapWorldAsserts`, `HeapStopsWorld` and
`HeapFinalizesInTurn` follow from it. `MaxTicket` is arbitrary. Their hypothesis
`~WindowRequests` leaves out the requests of the finding of section 4 and
nothing else; it is needed in one lemma, `RequestCollectionKeeps`. It cannot be
dropped: with those requests `ConnChecked`, a part of `AssertionsHold`, is
violated.

*IPCWaitForMessage, in IPCConnectionProofs.* `DeliveredInOrder` is not inductive:
that a message goes out of turn hurts nobody only if it was asked for, and the
next one dispatched comes next only if the queue is in order. `IInv` adds
`DecoderWanted` (what the connection queue hands over in `m_waitingForMessage` is
of the name waited for, and there only while somebody waits), `QueueAscends` (the
queue is in the order of arrival, and what is about to join it is younger) and
`ClientAhead` (an unwanted message the client has is older than every unwanted one
still queued, or dropped since the connection became invalid).
`WaitForMessageKeepsOrder`, for any number of messages, with or without
interruption, and with the close and the invalidation of the connection.

*IPCReplyHandlers, in IPCConnectionProofs.* `ReplyHandlersCalledAtMostOnce` is the
safety half of `HandlersCalledOnce`. By `OneCall`, a request has its handler in the
map or one task in the run loop or a call behind it, never two of these: each of
the three ways out of the map takes the handler with it.

*Only model-checked:* all liveness (fairness and ENABLED are out of the
prover's reach), among it the second half of `HandlersCalledOnce`; and
`AutomaticThread` on its own. Every invariant, every action property of a step,
and the three refinements of the runs are proved. The other way round,
`MutualExclusion` of WordLock and Lock and `LockHeldAroundWait` of Condition are
proved and in no run of their own: `ImplementsMutex` and the rest contain them.

## 7. What is not modelled

* Memory orderings. The models are sequentially consistent; the code uses
  sequentially consistent atomics, but for relaxed loads in fast paths and
  acquire and release in the fast-path CASes of `WordLock` and `LockAlgorithm`.
* The lifetime of per-thread records. `ParkingLot` keeps a reference to a
  `ThreadData` it wakes; `WordLock` does not, and calls `notify_one()` after
  giving up the only lock that pins it. This is listed as a hazard.
* The 6 bits of the byte that `LockAlgorithm` leaves to others (`JSCell`).
* `ParkingLot::forEach`, which only reads; and what a `beforeSleep()`
  (`ParkingLot.cpp:591`) does in the parking lot. A recursive park, which the
  assertion at line 576 forbids, is not tried, and the unpark that the client's
  lock may need when `Condition` releases it there is not a step of a thread that
  is queued itself.
* Recursive use: no thread locks what it holds.
* Heap: what a phase does to the objects, `collectContinuously`, and deferral.
  `collectAsync()`'s early return for a request already queued is no call, or
  `CallStopIfNecessary` alone.
* AutomaticThread: a `work()` that stops its thread, and a destructor that
  leaves the condition while others run; no user modelled here does either.
* Connection: receivers on work queues, callbacks on incoming synchronous
  messages, invalid messages, delayed replies to synchronous messages, the
  fully synchronous mode for testing, and messages that wait in
  `m_outgoingMessages` because the socket is full.
* The rest of the repository, part by part in `PROJECT.json`: sequential code on
  one thread with a very large state, thin wrappers of the platform, and
  vendored code. The models cover the concurrent protocols, a very small part
  of the lines; a line of the parser, the layout or an optimizing compiler pass
  is not better checked by a state machine than by its tests.

## 8. Plan

Done: the synchronization core of WTF with `AutomaticThread` and
`ParallelHelperPool`, the heap's world state, the compiler's worklist, the IPC
connection; proofs of all invariants of the runs, of their action properties and
of the refinements. Left:

1. A composition of `HeapWorld` and `DFGWorklist`, whose collections meet in
   `suspendCompilerThreads()`: `DFGWorklist` has a collection as its own steps,
   `HeapWorld` leaves the compiler threads out.
2. `IPC::Connection`'s delayed replies to synchronous messages and the messages
   that wait in `m_outgoingMessages`.
3. Liveness of `ParkingLot` on a smaller instance: a parked thread that is
   unparked returns.
