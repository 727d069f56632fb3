# A TLA+ development for SciDB 19.3

Specifications of the parts of SciDB where concurrency, failures and bounded
resources meet: how instances agree on an order for queries, how a query that
writes an array commits or aborts, how its chunks travel between instances, pass
through the buffer cache and get their place on disk, and the queues and locks all
of this rests on. TLC checks every specification on small instances. TLAPS proves
the lock, the work queues, the commit protocol and the data store for all of them.
`Query.cpp:1645` is line 1645 of the file of that name; `PROJECT.json` has the
paths, the lines each definition models and the hazards at their lines.

## 1. The system and its parts

A SciDB cluster is a fixed set of *instances* (processes) that hold the chunks of
arrays, and one PostgreSQL database, the *catalog*. The instance a client
connects to is the *coordinator* of its query, the others are its *workers*.

| Part | State | What makes it hard | Module |
|---|---|---|---|
| Reader-writer lock (`util/RWLock.h`, `util/Event.*`) | counters, writer, nesting, condition variables | spurious wakeups, timers that race signals, waits that give up | `RWLock` |
| Work queues (`util/WorkQueue.*`) | queue, overflow queue, outstanding and reserved counters | an item that moves to another queue keeps its place in the first; exceptions decide who releases | `WorkQueue` |
| Ordered broadcast (`network/OrderedBcast.*`) | livenesses, version vector (the view), clocks, active and deferred queue | broken connections lose messages; instances change views at different times | `OrderedBcast` |
| Query life cycle (`query/Query.cpp`, `SciDBExecutor.cpp`, `*MessageHandleJob.cpp`), array locks (`SystemCatalog.cpp`), recovery (`StorageMgr.cpp`) | Query objects, error handlers, finalizers, rows of the catalog | executing thread and error queue act on one Query; finalizers run outside the mutex; any instance may crash between any two | `QueryTxn` |
| Scatter/gather (`query/PullSGArray.cpp`, `PullSGContext.cpp`, `array/MultiStreamArray.cpp`) | send and receive caches, positions, requests | bounded queues on both sides; everybody may wait on somebody | `PullSG` |
| Buffer manager (`storage/BufferMgr.cpp`, with `IndexMgr.cpp`) | slots, LRU and free lists, counters, write jobs | the mutex is given up in the middle of pins, flushes and discards | `BufferMgr` |
| Data store (`util/DataStore.cpp`, with `IndexMgr.cpp`) | free lists, data file, free list file | crashes between any two writes | `DataStore` |
| Replication, remote arrays, MPI slaves, thread pool, sockets, failure detector | | | section 7 |
| Parser, planner, operators, array formats, clients | | sequential | section 7 |

How they interact: a client's query becomes a job on a work queue. The coordinator
has every worker install a Query object, takes the array locks in the catalog and
sends the physical plan by ordered broadcast, so that all instances start queries in
one order. The workers copy the lock, execute and report; while they execute they
redistribute chunks by scatter/gather and store them through the buffer manager,
which asks the data store for space and writes in the background. The client
completes the query: the coordinator records the new version, releases its lock and
tells the workers to commit. Errors, a cancel, a changed liveness and a broken
connection lead to an abort on each instance instead.

## 2. The modules

A module `X` has the state and the actions of a part, its properties, and, each
marked as faulty in a comment, the variants of single definitions that a plausible mistake
in the code would give: with such a variant TLC finds the property it is meant for
violated. `MCX` gives the constants their values. The names are those of the
source where TLA+ allows it.

Where a run covers several situations, the situation is part of the initial state
and constant from then on: `plan` in `OrderedBcast` and `QueryTxn` (instances,
queries, and how many crashes, losses and exceptions may happen), `layout` in
`PullSG` (the input, its distribution and the queue sizes), `orderly` in
`MCWorkQueue`. `Plans`, `Layouts` are the sets they are taken from.

### RWLock, SharedExclusive

The mutex of the lock is held from the entry of an operation to its return or to the
next condition wait, so what lies between is one action: `lockRead`, `lockWrite`,
`unLockRead`, `unLockWrite`, `unLock`. `EnterRead`, `EnterDrain` and `EnterQueue` are
the three waiting loops, used both on entry and after a wakeup; `WriteFails` is the
destructor of `PendingWriter` on the failing path. A sleeping thread is woken by a
signal, spuriously, or by its timer when it is in `Timed` (its caller has an
ErrorChecker, which may begin to fail at any moment). `signaled` is the flag of
`Event`, shared by all waiters. `SharedExclusive` is what callers rely on: readers or
one writer, which may nest. The model restricts the
callers: a thread unlocks what it locked, a reader neither locks again nor becomes a
writer. `RWLock.h:30` also allows "to lock in one thread and unlock in another"; there
the thread of the model is the holder, whichever thread makes its calls.

### WorkQueue

Each method takes the mutex of its queue once and is one action; the calls it makes
after unlocking (`spawn`, `release`) are pending calls (`spawns`, `releases`) that any
thread gets to later. `spawn` holds the mutex through two loops and is four actions.
A job is idle, queued, in an overflow queue, running or reserved; `ctx` is the set of
queues its SerializationCtx will release, and `origin` the queue that waits for its
transfer. What a running job may do is what the code in `src/` asks: return, go on to
another queue (`reEnqueue`, `reEnqueueSerialized`), come back to its own queue
(`MessageHandleJob::reschedule`) at once or after a delay. `Uses` names the
operations allowed. In an *orderly* behaviour of `MCWorkQueue` nobody calls `start`,
`stop` or `unreserve` and no job comes back to its own queue at once; the queues
promise progress only then. `Few` are the jobs of the orderly behaviours.

### OrderedBcast

The manager handles one work item at a time, so a handler is a function from the
state of an instance to its next state and the messages it sends. `checkInSync`,
`getMsgDeliveryAction`, `livenessChange` and `livenessAck` are the LivenessTracker;
`deliverLocalRequest`, `deliverRemote`, `release`, `broadcastReply` and
`processQueueOnLivenessChange` the manager. The debug assertions of the
manager and of its queues are kept: `Check` notes in `failed` an assertion that does
not hold and goes on, as a release build does. The two in `getMsgDeliveryAction` on
versions that are older for one instance and newer for another are left out: they do not hold in
general (section 4). The environment is external: channels are FIFO; `Disconnect` loses what
is under way and is reported to the receiver as a new liveness, the contract of
`OrderedBcast.h`; the failure detector reports any set of the plan's `liveSets`, and
if `accurate` only crashed instances as dead. `Formed`, in `MCOrderedBcast`, are the
plans whose behaviours begin with the first view already formed.

### QueryTxn

Every query stores a new version of an existing array. On each instance it has a
thread that executes (`exec`, its place in the code) and an error queue, which
handles one abort, commit, cancel or error at a time. `handleAbort` and
`handleCommit` move error handlers and finalizers onto the stack of their thread
under the mutex; every entry then runs as a step of its own, so that any crash or
message falls between any two. The catalog is two variables: `rows`, the version in
the lock row of a query and an instance, and `versions`. `stored` says whose chunks
are on the disk of an instance; a chunk is abstracted to its writer.

| Code | Actions |
|---|---|
| coordinator: SciDBExecutor, PhysicalUpdate, Query locks | `prepareQueryBeforeLocking` ... `postSingleExecute`, `done`, `completeQuery` |
| worker: MessageHandleJob, PhysicalStore | `handlePreparePhysicalPlan`, `install`, `lockArray`, `store`, `done`, `sendResult` |
| exceptions and posted errors | `operatorFails`, `raiseError`, `cancelPlanned`, `sendError`, `cancel` |
| error handlers and finalizers | `UpdateErrorHandler`, `BroadcastAbort`, `recordPersistent`, `releaseLocks`, `broadcastCommit`, `destroy` |
| messages, liveness and connection errors | `handleQueryResult`, `abortMessage`, `commitMessage`, `handleError`, `handleLivenessNotification`, `abortQueryOnConnError`, `dispatchMessage` |
| doTxnRecoveryOnStartup | `readArrayLocks`, `recoverCoordLock`, `deleteCoordArrayLocks`, `recoverWorkerLock`, `deleteWorkerArrayLocks` |
| environment | `Crash`, `ConnectionLost`, `handleCancel` |

Abstractions: the Query objects of all instances appear together, because the
coordinator waits for the workers to install theirs before it takes a lock (an abort
in that phase finds no rows and is left out). Barriers inside operators only delay a
thread and are left out. The plan reaches every instance that is up; its order is
OrderedBcast's matter. Messages between two instances may arrive in any order, which
is more than the code's queues allow. The instance at the other end of a broken
connection learns of it with the next message on the new one
(`NetworkManager::handleMessage`); here that may happen at any time. A crashed
instance loses its Query objects and any of the messages it sent, keeps its disk, and
recovers before it accepts messages.

### PullSG

`ctx` is the PullSGContext of each producer with its cache of chunks by destination,
`stream` the StreamState of each consumer's stream from each producer, `pull` the
thread inside `MultiStreamArray::nextChunk` and the final `sync`. `handleFetch` and
`produceChunksInBackground` run on the operator queue (`drainInputArray`,
`findCachedChunksToSend`, `getNextChunksInternal`), `handleChunkMsg` on the receive
queue, and the consumer's thread (`choose`, `request`, `getPosition`, `getChunk`)
interleaves with both at every acquisition of the stream's mutex. A chunk is its
position and its destination. Message identifiers are compared only to learn whether
the last position-only request was answered; at most one is outstanding per stream,
so they are kept as one bit. The barriers at the start are the initial state. A message
is stored under the mutex of its stream, and the callback it causes (`signal`) runs
later on the same queue, when the thread may have gone on. An input that is
not ready (the RetryException of a SinglePassArray) is one that stalls at the item
`layout.stall` for the first `layout.retries` attempts. `broken` collects the
assertions that failed.

### BufferMgr

Everything but the write itself and the condition waits runs under `_blockMutex`, so
a step is what a thread does between two of them. What the mutex protects is one
record, `cache`, and the private methods are operators from cache to cache (`ejectCache`,
`destageCache`, `reserveSpace`, `signalReserveWaiters`, `unpinBuffer`, ...). A call that
waits has a place to go on from (`call[t].pc`): `allocateBuffer`, `pinBuffer`,
`pinAfterWrite`, `loadBuffer`, `flushAllBuffers`, `discardBuffer`, `discardAfterWrite`,
`clearCache`. I/O threads take a job, write and account for it in three steps
(`copyHeader`, `writeData`, `finishAccounting`). The caller is the disk index:
`insertRecord`, `pinValue`, `unpin`, `deleteRecord`, `flushVersion`, `rollbackVersion`.
The bytes of a buffer are the number of times the buffer at that offset was filled,
which is what tells a lost update. A write, a read and an allocation of space on disk
may fail (`MaxFailures`). A read or an allocation that throws leaves its slot
behind, pinned and in the lists: `stranded` is the set of these slots (section 4), and
`SlotsAgree` and `CountersMatch` tell them from the slots a client can still reach.

### DataStore

The free lists are the set of the free blocks, a block is its offset and size in
units of `getMinAllocSize()`. `searchFreelist` and `addToFreelist` are the buddy
allocator, in closed form: which halves are split off on the way down, and up to which size the
buddies are free. `allocateSpace`, `freeChunk`, `writeData`, `readData`, `flush` and
the flusher's `persistFreelists` are the operations; `fl` is what reading the free
list file would yield, `torn` whether it is being written. The client is the index
of the array: `insertRecord`, `flushVersion`, `commitVersion`, `rollbackVersion`,
`discardBuffer`, `deleteRecord`. A stored chunk that outgrows its block is a new chunk
plus a `deleteRecord` of the old one, as in `insertRecord(update)`. `restart` is a
crash at any step followed by `initializeFreelist` and the rollback of the version
being written. The file is opened by the first read, write or punched
hole, and a growth of the store before that does not reach it; `makeMoreSpaceFails`
is an `ftruncate` that fails when it does, which leaves the file shorter than the store (`short`).
A crash is harmless but in three windows, and `caught` remembers that one came in
such a window: saved lists or chunks of the version lie beyond the end of the file
because the store grew before the file was open (`"grow"`) or because `ftruncate`
failed (`"short"`), or a chunk is being removed and its space is already saved as
free (`"remove"`). What was in use may be handed out again after that
(section 4); the properties speak of what happens before.

## 3. The runs

| Run | Instance | What it shows |
|---|---|---|
| `rwlock` | 3 threads, one of them with timers and a query that may fail, nesting to 2 | `CountersMatchHolders`, `NoReaderPastDrain`, `ImplementsSharedExclusive`; a writer that drains the readers gets through (`DrainEnds`); a lock that is given up is taken (`FreeLockIsTaken`) |
| `workqueue` | 2 queues (1 and 2 slots, size 2), 3 jobs, all operations; 2 jobs when orderly | the accounts balance (`OutstandingIsOwned`, `JobsInOnePlace`, `SizeBounded`, `SerializedUntilDone`); orderly queues do not stall (`OrderlyNeverStalls`, `OrderlyOverflowMoves`) and run their items (`OrderlyJobsRun`) |
| `workqueue_self_full` | 2 queues of size 1, 2 jobs | `StallsOnlyWhenBusy` fails (section 4) |
| `obcast` | 2 instances from startup, 3 liveness changes to any set, 2 requests, a loss, a crash; 3 instances in a view, one change, 2 requests, a loss, a crash | `ReleasedInOrder`, `SameOrderEverywhere`, `AssertionsHold`; instances come to rest in one view (`SettledWhenIdle`); in a stable view every request is released everywhere (`ReliableWhenStable`) |
| `obcast_stray` | 2 instances, accurate detector, a crash | `AlwaysSettledWhenIdle` fails (section 4) |
| `querytxn` | four plans: 2 queries with different coordinators on one array and a crash; the same with exceptions and a cancel; 1 query, 2 crashes, a broken connection, exceptions; 1 query with 2 workers and a crash | `WritersExclude`, `CommittedIsStored`, `UncommittedIsLocked`, `VersionsAreConsecutive`, `RowsAreOwned`, `AssertionsHold`, `EverythingEnds` |
| `pullsg` | 2 instances, 6 layouts: crossing chunks between queues of one, an input that stalls, replicated chunks that fill the send queue, streams with a limit of their own, empty chunks | `DeliveredComplete`, `CommonIsAccounted`, `SendCacheBounded`, `ContextOutlivesMessages`, `AssertionsHold`, `EveryoneFinishes` |
| `buffermgr` | 2 threads, 2 I/O threads, 3 buffers (one compressed, one temporary) in 3 bytes, a failing read, write or allocation on disk | `SlotsAgree`, `CountersMatch`, `WritesOwnTheirSlot`, `PinnedIsLatest`, `CommittedIsStable`, `EveryCallReturns` |
| `buffermgr_grow` | the same with a slot list that starts with one slot | `PinnedIsLatest` fails (section 4) |
| `datastore` | a file of up to 8 units, requests of 1 to 3, 2 versions, 6 calls, 2 crashes at any step, growth and invalidation that fail | up to a crash in a window of `caught`, chunks do not overlap (`ChunksDisjoint`) and every unit is accounted for (`SpaceConserved`); always, saved lists that a restart would use are current (`PersistedIsCurrent`) |
| `datastore_reopen`, `datastore_remove` | the same; 7 calls and one crash | `GrowthSurvives` and `RemovalSurvives`, that a crash in one of the windows is harmless too, fail (section 4) |

Types are part of `AssertionsHold`, `SlotsAgree` and `SpaceConserved`, and of the
proved invariants of RWLock and WorkQueue.

### Bounds, and why they are enough

* RWLock: three threads give a writer, a writer in line behind it and a reader
  behind both, every pair of roles that meet in the lock. `MaxNested` bounds nesting.
* WorkQueue: two queues are the chain in which an item stalls the queue it comes
  from; three jobs fill a queue, run and overflow at once. `Rank` keeps jobs from
  going round in circles, which no caller does. `MaxCalls` bounds the calls of
  `spawn` and `release` that are pending when another operation begins.
* OrderedBcast: `detections`, `requests`, `losses`, `crashes`. A view needs two
  instances, a third is needed to tell who has heard whom. Of the two instances that
  start up one may change twice, so that it can pass the other by a view.
* QueryTxn: `crashes`, `losses`. Two queries meet in the catalog only through one
  array. Two workers are needed to learn the outcome in different ways. Two crashes let
  an instance crash during its recovery, and both instances be down at once.
  `troubled` is the set of queries whose operators throw and whose clients cancel.
* PullSG: with queues of one chunk every limit is met at once; two instances give each
  consumer a local and a remote stream, and two or three positions give a stream
  that is ahead of the other.
* BufferMgr: three bytes do not hold all three buffers, so that an allocation may have to
  eject, destage or wait. `MaxFills`, `MaxCalls`, `MaxFailures` bound how often a buffer is
  filled, the calls of a thread and the reads, writes and allocations that fail.
* DataStore: eight units let blocks be split three times and merged back; two crashes
  let a recovery be interrupted.

Deadlock is checked in `rwlock` and `workqueue`. The others stop when the bounded
requests are through, and there the liveness or "when idle" properties say what must
hold then.

Two queries on two arrays with crossed coordinators and two crashes were explored
once (1.7 million states, no deadlock and no violation): the case in which two
recovering instances would wait for each other's coordinator lock, which the
order of `doTxnRecoveryOnStartup` (coordinator locks first) prevents.

### Fairness

* RWLock: a thread that has been woken gets the mutex and runs, timers expire, a
  holder gives the lock up. Nobody is obliged to lock.
* WorkQueue: a thread in the mutex or with a call to make goes on, reserved items
  are scheduled (the timer fires), and a job that keeps coming back finishes
  eventually (strong fairness of `finish`: a query does not reschedule for ever).
  Nobody is obliged to enqueue.
* OrderedBcast: as long as there are work items, one is run (the pool has a thread
  for the queue). Nothing obliges connections to break or instances to crash.
* QueryTxn: threads and queues are scheduled, a crashed instance is restarted, and
  the client of a finished query completes it; otherwise the coordinator rightly
  keeps its locks. A client that disconnects has its query cancelled
  (`handleClientDisconnect`). Exceptions, cancels, crashes and new queries are not
  fair.
* PullSG: the consumer's thread, the two queues of each instance and the
  rescheduled job run. BufferMgr: a thread inside a call and the I/O pool run. Both
  are weak fairness, with the enabling condition written out.
* DataStore has no liveness property.

## 4. Findings

Each has a run in which TLC finds what a comment of the code promises violated.

* `obcast_stray` (`OrderedBcast.cpp:379`): `newLiveness` stores the liveness of any
  sender, also of one that is not in the local live set, and `checkInSync` compares the
  number of entries with the number of live instances. A late liveness of a crashed
  instance keeps the survivor out of sync until the next local change.
  `OrderedBcast.h` promises delivery if "the liveness does not change".
  `SettledWhenIdle` of the run `obcast` shows it is the only obstacle.
* `workqueue_self_full` (`WorkQueue.cpp:226`): an item that reschedules itself onto its
  own full queue gives up its slot and throws before `spawn()`; with nothing else
  outstanding, the queue has items and free slots and nobody runs them. The queue of
  the one caller holds 1,000,000 items.
* `buffermgr_grow` (`BufferMgr.cpp:593`): `_pinBufferLocked` keeps a reference into
  `_blockList` over a condition wait in which another thread may resize the list; the
  pin is then taken on memory that is no longer the header. The list starts with 128
  slots.
* `datastore_reopen` (`DataStore.cpp:905`): after a restart the file is opened lazily,
  and a store that grows before that does not grow its file. If the flusher saves the lists and the
  process dies before a write has grown the file, its size and the saved free lists
  disagree, and space in use is handed out again.
* `datastore_remove` (`IndexMgr.cpp:369`): removing a chunk frees its space and erases
  its entry in two steps. If the flusher saves the lists in between and the process
  dies, the entry is left for space that is free; the next removal frees it again, by
  then under another chunk.

Observations on the same modules, and met while reading, without a run of their own:

* RWLock with two threads in `Timed` violates `FreeLockIsTaken`: a waiter that resets
  `_signaled` for its own wait (`Event.cpp:76`) takes the flag from a waiter whose timer
  has expired but which has not run yet, and that one sleeps again (107). `Event.h:64` says a
  signal makes "the wait()'s of *all* threads" return; the note below it asks the
  ErrorChecker to test the condition as well, and RWLock passes on the checker of its
  caller, which does not. The waiter goes on with the next signal or error.
* `unreserve()` makes room and does not call `spawn()` (`WorkQueue.h:246`), although
  line 297 says `fromQueue` is notified when space becomes available: with it,
  `OverflowMovesWhenRoom` fails, which is why orderly clients do not use it.
* BufferMgr claims the bytes of a compression buffer when a buffer is allocated
  (`BufferMgr.cpp:295-308`), and `_freeSlot` and `_unpinBuffer` give them back only if
  the compression buffer came to exist. What is lost is kept in `leaked`; `clearCache`
  asserts that no bytes are left.
* A pin that loads a buffer, and `allocateBuffer`, have taken a slot with its memory, pinned
  it and put it on the LRU list (the pin has claimed its bytes, too) when they call `readData`
  (`BufferMgr.cpp:696`, 746) or `allocateSpace` (289). If that throws nothing is taken
  back: nobody will unpin the slot, and `clearCache` cannot empty the cache any more.
  The model has these steps (`Strand`), and the properties of the run show that the
  other buffers are not disturbed.
* `makeMoreSpace` doubles the size and the lists of the store before `ftruncate`
  (`DataStore.cpp:907`). If that fails the file stays short of the store until the next
  growth succeeds: `getSizes` then throws "Inconsistent datastore size" (376), a hole may
  be punched beyond the end of the file (`FileIO.cpp:698`: "unsure if offset + len > st_size can
  occur"), and a crash falls into the same gap as in `datastore_reopen` (`"short"`).
* `getMsgDeliveryAction` asserts that a version vector is not older for one instance and
  newer for another (`OrderedBcast.cpp:336`, 339). With three instances, livenesses that
  change twice at two of them and once at the third let two instances form views
  of which neither is older throughout, and a request of the one reaches the other: in a
  debug build the assertion fails. A release build drops the message, as the model does;
  the contract of a broadcast allows that while the liveness changes.
* The manager of ordered broadcast ignores an overflow of its own queue of 1,000,000
  items (`OrderedBcast.cpp:763`), which loses the message.
* `readData` (`DataStore.cpp:268`) opens the file without the mutex that the comment at
  line 783 requires. The comment "TODO: incorrect" in `roundUpPowerOf2` (841) is out of date.
* `Query.h` documents `isForceCancelled` as "finished successfully AND the coordinator
  was notified", while the code tests the completion status alone, set before the
  result is sent. A worker aborted in between waits for the coordinator's lock without
  need; the properties of QueryTxn hold.
* The wait loop of the replication manager (`ReplicationMgr.cpp:129-181`) spins while its
  event stays signalled (`Event.cpp:72-74`).

## 5. The proofs

TLAPS checks every statement with no assumption but those named in the modules that
declare the constants (`RWLockAssumption`, `WorkQueueAssumption`,
`QueryTxnAssumption`, `DataStoreAssumption`). So the results hold for any number of threads,
queues, jobs, instances, queries, arrays, blocks, versions and crashes.

**RWLockProofs.** `NoReaderPastDrain` is not inductive: whether a reader may enter is
decided from the counters, so it needs `CountersMatchHolders` (a thread in the first or
second loop of `lockWrite` shows as a pending writer), and `unLock` needs
`NestedOnlyByWriter` to give up the right lock. `OnlyWaitersSleep` ties the state of the
condition wait to the loops. The conjunction with `TypeOK` is `IInv`. The lemmas
`AtEnter`, `AtLeave` and `AtStay` say what one thread's move does to the number of
threads at a place; each loop of the code has a lemma that it preserves `IInv`, used
both for the entry and for the wakeup.

* `LockInvariant`, `WriterFindsNoReader`, `CountersAreRight`: `IInv` and its parts.
* `LockImplementsSharedExclusive`: the readers are `At({"reading"})`, the writer
  `At({"writing"})`; waits, signals and failures are stutters, and each of the other
  actions is the step of the same name in SharedExclusive.

**WorkQueueProofs.** The assertion `_size() <= _maxSize + _outstanding` is not inductive,
because an item that returns to a full queue relies on the place it has kept:
`PlacesAreKept` says that waiting, reserved and running items together fit the queue.
`OutstandingIsOwned` and `ReservationsAreOwned` account for each unit of the counters,
`JobsHoldUpstream` makes a context and a running job distinct owners, and
`JobsInOnePlace` keeps the queues free of duplicates. The argument is one of accounts:
`OneChange` and `MoveCounts` say how the move of one job changes the sets that are
counted, `AccountsBalance` that the accounts stay balanced when the counters change by
the same amounts, and every action has a lemma that names its amounts.

That no wakeup is lost rests on `Awake`: a queue on which no `spawn()` runs or is due
has nothing to start and nothing to transfer, and one that has finished its transfers
has none left. A step that frees a slot or adds an item leaves a call behind
(`CallAwake`), one that only takes room cannot enable anything (`FillAwake`), and the
loops of `spawn` end only when their condition is false (`SpawnAwake`).

* `AccountsInvariant`: the inductive invariant. `SizeIsBounded`, `UnitsAreOwned`,
  `SerializationHolds`, `OnePlace`: the safety properties of the run.
* `OrderlyIsAwake`, and from it `NoItemIsForgotten` and `NoOverflowIsForgotten`:
  `OrderlyNeverStalls` and `OrderlyOverflowMoves`.

**QueryTxn.** Writers exclude each other by the rows alone: `LocksInv` is inductive, and
`WritersAlwaysExclude` (in `QueryTxnProofs`) follows. The rest needs to know how far
every thread is. `CommitInv` adds to it
`AssertionsHold`, with the types; `ThreadsOK`, what the thread of a query on an
instance may be doing in each state of its Query object, which entries its stacks
may hold and that exactly one of object and threads has the finalizers; `MessagesOK`,
what a message on the way implies; `DataOK`, what the catalog and the disk say about a
thread at that point (a `View` of them); and `VersionsOK`. None of the properties is
inductive without the others: that a recorded version is stored everywhere needs the
coordinator to have a report of every worker, which needs the messages, which need the
threads that sent them, which may have been aborted since.

The proof has a few forms of step rather than one argument per action. A step of one
thread, with at most one row or one disk (`ThreadMove`), keeps `CommitInv` if the
thread's own part holds after it and the others' views change only in ways that
are harmless to them (`ThreadMoveKeeps`). Most actions are brought into that form; a
step of a recovering instance is a `RecoveryMove`, and a crash and a lost connection
are `Faulty` steps, which only take things away. The actions that touch several
threads (preparing a query, broadcasting the plan, a report, recording the version)
have proofs of their own.

| Module | Contents |
|---|---|
| `QueryTxnProofs` | the invariant, the forms of step, `WritersAlwaysExclude` |
| `QueryTxnCoordinatorProofs` | the coordinator's session; crash, lost connection, new query, plan |
| `QueryTxnWorkerProofs` | the executing thread of a worker, storing, reporting, failing; recovery |
| `QueryTxnEndProofs` | abort and commit, their messages, handlers and finalizers; recording a version |
| `QueryTxnCommitProofs` | the invariant holds; the theorems |

* `CommitInvariant`, and from it `NoAssertionFails`, `CommittedStaysStored`,
  `UncommittedStaysLocked`, `VersionsStayConsecutive` and `RowsStayOwned`.

**DataStoreProofs.** `SavedListsAreCurrent` (`PersistedIsCurrent`) needs only that the
lists are invalidated before they change (`SavedInv`), and holds of every behaviour.
The others build up in layers: what powers of two divide and how they are rounded;
*dyadic* blocks (aligned, a power of two long), of which two are nested or
disjoint; the allocator on them (`Split` and `MoreSpace` tile what they come from,
`addToFreelist` adds exactly the units of its block, or of what the block was part of); the
*books*, by which free blocks, chunks and lost units tile the file and a chunk that
is being freed is either still outside the lists or wholly inside them; and the
actions. `StoreInv` is the conjunction of the books with what the client may be in the
middle of (`ClientInv`) and the sizes of the files (`FileInv`). What is inductive is
`SavedInv /\ (caught = {} => StoreInv)`: nothing is assumed of the callers or of the
flusher, the store may grow before its file is open or fail to, and the flusher may
run in the middle of a removal. The books hold in all these states; a crash keeps
them unless it comes in a window of `caught`. So `FileInv` says how far the file may be behind the
store, and `LongerFile`, `FileOpened` and `GrowFailsKeeps` are the steps
that change that; `CaughtStays` says that `caught` is never forgotten. That the
condition on `caught` cannot be dropped is what the runs `datastore_reopen` and
`datastore_remove` show.

* `StoreInvariant`, and from it `ChunksStayDisjoint` and `SpaceIsConserved`. Chunks are a
  set of blocks, so `ChunksDisjoint` alone would not see one block handed out twice;
  `SpaceConserved` counts each unit once among free, held and entered blocks and does.

The induction over numbers and finite sets that this takes is done with the
least-element form of well-foundedness (`LeastNumber`, `SetInduction`): the induction
theorems of the library take an operator as a parameter, which the installed provers
cannot instantiate.

## 6. What is model-checked only

* Liveness (`DrainEnds`, `FreeLockIsTaken`, `OrderlyJobsRun`, `ReliableWhenStable`,
  `EverythingEnds`, `EveryCallReturns`, `EveryoneFinishes`) and everything that needs
  ENABLED are outside what TLAPS handles.
* OrderedBcast (`ReleasedInOrder`, `SameOrderEverywhere`, `AssertionsHold`,
  `SettledWhenIdle`), PullSG (all) and BufferMgr (all): their handlers work on sequences
  with filters and folds that take an operator, and their counters are sums over
  sets of buffers, streams or messages. What such a fold computes is the inductive argument
  above once per fold, before the protocol's own invariant; this has not been done.
* `StallsOnlyWhenBusy` and `OverflowMovesWhenRoom` for clients that are not orderly are
  false (section 4).

## 7. What is not modelled

* Queries that create, remove or rename arrays, transient arrays, read locks, several
  arrays in one query; the notify phase before the workers have their Query object; the
  lock update that an operator with an autochunked result puts off until its schema is
  known (`_deferLockUpdate`, `PhysicalUpdate.cpp:256`). A cancel reaches a query that has
  neither committed nor aborted; on another it has no effect.
* Buffer manager: injected errors, a failing allocation of memory, writes of priority
  Immediate, reading stored chunks back compressed, the closing of a data store under
  the cache. Compressing a stored chunk again when it is written (`BufferMgr.cpp:1028-1057`)
  needs a chunk that was read back compressed and then dirtied, which no caller in `src/` does; the
  claims made there bypass the reservations, so `CountersMatch` says nothing of them.
* Data store: an `open`, `fstat` or `ftruncate` of `checkFileOpen` that fails
  (`DataStore.cpp:793-821`); after one of the last two `_file` is set, so that a store
  whose file is new never counts it as created and does not save its free lists until the
  next restart; several stores in one registry; statistics; a loss of power, which may
  undo what was not synced (`ftruncate` is not); removing a store while the flusher
  still holds a reference to it.
* Scatter/gather: several attributes pulled together, merging the cells of a chunk,
  SerializedArray, errors.
* The replication manager: its flow control is that of Connection; what is left is a
  list per destination that one queue works off in order. Remote arrays of a
  client: one request per stream over the same MultiStreamArray.
* Thread pool, sockets, flow control and reconnection beyond what the modules above
  need. The failure detector and the membership of the cluster are environment: the
  modelled code only consumes their notifications.
* MPI slaves: the life of operating system processes. Parser, planner, optimizer,
  operators, array formats, plugins, clients and scripts: sequential transformations,
  without a step of another actor for a model to interleave.
