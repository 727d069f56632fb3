------------------------------- MODULE WorkQueue -------------------------------
(***************************************************************************)
(* The bounded work queues of include/util/WorkQueue.h and                 *)
(* src/util/WorkQueue.cpp: reservations, the overflow queue that stalls    *)
(* the queue an item comes from, and the serialization contexts that keep  *)
(* an item outstanding on every queue it passed through.                   *)
(*                                                                         *)
(* A method locks the mutex of its queue once; what it does after the      *)
(* unlock, a call of spawn() or release(), is a pending call that any      *)
(* thread may get to later.  A job taken by spawn() runs on a pool thread; *)
(* what a running job may do is what the code in src/ asks of the queues:  *)
(* return, go to another queue, or come back to its own one, now           *)
(* (MessageHandleJob::reschedule) or after a delay.                        *)
(***************************************************************************)
EXTENDS Integers, Sequences, FiniteSets

CONSTANTS
    Queue, Job,
    NoQueue,            \* an empty weak_ptr<WorkQueue>
    maxOutstanding, maxSize,
    Rank,               \* jobs only go to a queue of a higher rank, or to their own
    Uses,               \* the operations the clients of the queues perform
    MaxCalls            \* bound on the pending calls of a queue when another begins

ASSUME WorkQueueAssumption ==
    /\ IsFiniteSet(Job) /\ IsFiniteSet(Queue)
    /\ NoQueue \notin Queue
    /\ maxOutstanding \in [Queue -> Nat \ {0}]
    /\ maxSize \in [Queue -> Nat]
    /\ Rank \in [Queue -> Nat]
    /\ MaxCalls \in Nat

VARIABLES
    workQueue,          \* _workQueue
    overflowQueue,      \* _overflowQueue; the second of each pair is origin
    outstanding,        \* _outstanding
    reserved,           \* _reserved
    isStarted,          \* _isStarted
    mutex,              \* "free", or the loop of spawn() that holds _mutex
    spawns, releases,   \* the pending calls of spawn() and release() of a queue
    phase,              \* of a job: idle, queued, overflow, running or reserved
    at,                 \* the queue it is with
    ctx,                \* the queues its SerializationCtx will release
    origin              \* the queue that a transfer from _overflowQueue releases

queues == <<workQueue, overflowQueue, outstanding, reserved, isStarted>>
jobs == <<phase, at, ctx, origin>>
vars == <<queues, mutex, spawns, releases, jobs>>

Phase == {"idle", "queued", "overflow", "running", "reserved"}

size(q) == outstanding[q] + reserved[q] + Len(workQueue[q])

At(q, p) == {j \in Job : phase[j] = p /\ at[j] = q}
Holding(q) == {j \in Job : q \in ctx[j]}
Stalling(q) == {j \in Job : origin[j] = q}

--------------------------------------------------------------------------------

Init ==
    /\ workQueue = [q \in Queue |-> << >>]
    /\ overflowQueue = [q \in Queue |-> << >>]
    /\ outstanding = [q \in Queue |-> 0]
    /\ reserved = [q \in Queue |-> 0]
    /\ isStarted = [q \in Queue |-> TRUE]
    /\ mutex = [q \in Queue |-> "free"]
    /\ spawns = [q \in Queue |-> 0]
    /\ releases = [q \in Queue |-> 0]
    /\ phase = [j \in Job |-> "idle"]
    /\ at = [j \in Job |-> NoQueue]
    /\ ctx = [j \in Job |-> {}]
    /\ origin = [j \in Job |-> NoQueue]

(* Pending calls *)

Inc(f, q) == [f EXCEPT ![q] = @ + 1]
Dec(f, q) == [f EXCEPT ![q] = @ - 1]
Push(f, q, j) == [f EXCEPT ![q] = Append(@, j)]

\* release() is called on each of the queues
ReleaseAll(rs) == releases' = [q \in Queue |-> IF q \in rs THEN releases[q] + 1 ELSE releases[q]]

Move(j, p, q, c, o) ==
    /\ phase' = [phase EXCEPT ![j] = p]
    /\ at' = [at EXCEPT ![j] = q]
    /\ ctx' = [ctx EXCEPT ![j] = c]
    /\ origin' = [origin EXCEPT ![j] = o]

CallsBounded == \A q \in Queue : spawns[q] + releases[q] < MaxCalls

\* a client calls a method of q, which gets the mutex
Called(use, q) == use \in Uses /\ mutex[q] = "free" /\ CallsBounded

\* faulty: off by one
HasRoomOverOne(q) == size(q) <= maxSize[q]

HasRoom(q) == size(q) + 1 <= maxSize[q]

--------------------------------------------------------------------------------
(* Methods that clients call *)

enqueue(q, j) ==
    /\ Called("enqueue", q)
    /\ phase[j] = "idle"
    /\ HasRoom(q)
    /\ workQueue' = Push(workQueue, q, j)
    /\ spawns' = Inc(spawns, q)
    /\ Move(j, "queued", q, {}, NoQueue)
    /\ UNCHANGED <<overflowQueue, outstanding, reserved, isStarted, mutex, releases>>

\* reserve(), for a job that is not running (ReplicationManager::Reservation)
reserve(q, j) ==
    /\ Called("reserve", q)
    /\ phase[j] = "idle"
    /\ HasRoom(q)
    /\ reserved' = Inc(reserved, q)
    /\ Move(j, "reserved", q, {}, NoQueue)
    /\ UNCHANGED <<workQueue, overflowQueue, outstanding, isStarted, mutex, spawns, releases>>

unreserve(q, j) ==
    /\ Called("unreserve", q)
    /\ j \in At(q, "reserved")
    /\ reserved[q] > 0
    /\ reserved' = Dec(reserved, q)
    /\ ReleaseAll(ctx[j])
    /\ Move(j, "idle", NoQueue, {}, NoQueue)
    /\ UNCHANGED <<workQueue, overflowQueue, outstanding, isStarted, mutex, spawns>>

enqueueReserved(q, j) ==
    /\ Called("reserve", q)
    /\ j \in At(q, "reserved")
    /\ reserved[q] > 0
    /\ workQueue' = Push(workQueue, q, j)
    /\ reserved' = Dec(reserved, q)
    /\ spawns' = Inc(spawns, q)
    /\ Move(j, "queued", q, ctx[j], NoQueue)
    /\ UNCHANGED <<overflowQueue, outstanding, isStarted, mutex, releases>>

start(q) ==
    /\ Called("stop", q)
    /\ isStarted' = [isStarted EXCEPT ![q] = TRUE]
    /\ spawns' = Inc(spawns, q)
    /\ UNCHANGED <<workQueue, overflowQueue, outstanding, reserved, mutex, releases, jobs>>

stop(q) ==
    /\ Called("stop", q)
    /\ isStarted[q]
    /\ isStarted' = [isStarted EXCEPT ![q] = FALSE]
    /\ UNCHANGED <<workQueue, overflowQueue, outstanding, reserved, mutex, spawns, releases, jobs>>

--------------------------------------------------------------------------------
(* What a running job does, up to the end of WorkQueueJob::run *)

\* The work item returns or throws an Exception: its context is destroyed and
\* the queue releases it.
finish(q, j) ==
    /\ CallsBounded
    /\ j \in At(q, "running")
    /\ ReleaseAll(ctx[j] \cup {q})
    /\ Move(j, "idle", NoQueue, {}, NoQueue)
    /\ UNCHANGED <<queues, mutex, spawns>>

\* reserve(fromQueue) with this queue as fromQueue, as in reschedule(delay): the
\* job waits for its timer with its context and the work item returns.
reserveOwn(q, j) ==
    /\ Called("delay", q)
    /\ j \in At(q, "running")
    /\ HasRoom(q) \/ outstanding[q] > 0
    /\ reserved' = Inc(reserved, q)
    /\ ReleaseAll({q})
    /\ Move(j, "reserved", q, ctx[j], NoQueue)
    /\ UNCHANGED <<workQueue, overflowQueue, outstanding, isStarted, mutex, spawns>>

\* reEnqueueSerialized with this queue as fromQueue: the job goes to the end of
\* its queue, and the work item returns ...
reEnqueueOwn(q, j) ==
    /\ Called("reschedule", q)
    /\ j \in At(q, "running")
    /\ HasRoom(q)
    /\ workQueue' = Push(workQueue, q, j)
    /\ spawns' = Inc(spawns, q)
    /\ ReleaseAll({q})
    /\ Move(j, "queued", q, ctx[j], NoQueue)
    /\ UNCHANGED <<overflowQueue, outstanding, reserved, isStarted, mutex>>

\* ... or, when the queue is full, takes the place of the work item, which
\* ends in a PushBackException.
reEnqueueOwnFull(q, j) ==
    /\ Called("reschedule", q)
    /\ j \in At(q, "running")
    /\ ~HasRoom(q)
    /\ workQueue' = Push(workQueue, q, j)
    /\ outstanding' = Dec(outstanding, q)
    /\ Move(j, "queued", q, ctx[j], NoQueue)
    /\ UNCHANGED <<overflowQueue, reserved, isStarted, mutex, spawns, releases>>

\* reEnqueue from q: on r the job has a context of its own.  When r is full q
\* does not release the job until r has room for it.
reEnqueue(q, r, j) ==
    /\ Called("reEnqueue", r)
    /\ j \in At(q, "running")
    /\ Rank[q] < Rank[r]
    /\ IF HasRoom(r)
       THEN /\ workQueue' = Push(workQueue, r, j)
            /\ spawns' = Inc(spawns, r)
            /\ ReleaseAll(ctx[j] \cup {q})
            /\ Move(j, "queued", r, {}, NoQueue)
            /\ UNCHANGED overflowQueue
       ELSE /\ overflowQueue' = Push(overflowQueue, r, j)
            /\ ReleaseAll(ctx[j])
            /\ Move(j, "overflow", r, {}, q)
            /\ UNCHANGED <<workQueue, spawns>>
    /\ UNCHANGED <<outstanding, reserved, isStarted, mutex>>

\* faulty: the context does not record the queue
reEnqueueUnrecorded(q, r, j) ==
    /\ Called("reEnqueueSerialized", r)
    /\ j \in At(q, "running")
    /\ Rank[q] < Rank[r]
    /\ HasRoom(r)
    /\ workQueue' = Push(workQueue, r, j)
    /\ spawns' = Inc(spawns, r)
    /\ Move(j, "queued", r, ctx[j], NoQueue)
    /\ UNCHANGED <<overflowQueue, outstanding, reserved, isStarted, mutex, releases>>

\* faulty: the queue is recorded but the item is released at once
reEnqueueReleased(q, r, j) ==
    /\ Called("reEnqueueSerialized", r)
    /\ j \in At(q, "running")
    /\ Rank[q] < Rank[r]
    /\ HasRoom(r)
    /\ workQueue' = Push(workQueue, r, j)
    /\ spawns' = Inc(spawns, r)
    /\ ReleaseAll({q})
    /\ Move(j, "queued", r, ctx[j] \cup {q}, NoQueue)
    /\ UNCHANGED <<overflowQueue, outstanding, reserved, isStarted, mutex>>

\* reEnqueueSerialized from q: the context of the job will release q.
reEnqueueSerialized(q, r, j) ==
    /\ Called("reEnqueueSerialized", r)
    /\ j \in At(q, "running")
    /\ Rank[q] < Rank[r]
    /\ IF HasRoom(r)
       THEN /\ workQueue' = Push(workQueue, r, j)
            /\ spawns' = Inc(spawns, r)
            /\ Move(j, "queued", r, ctx[j] \cup {q}, NoQueue)
            /\ UNCHANGED overflowQueue
       ELSE /\ overflowQueue' = Push(overflowQueue, r, j)
            /\ Move(j, "overflow", r, ctx[j] \cup {q}, NoQueue)
            /\ UNCHANGED <<workQueue, spawns>>
    /\ UNCHANGED <<outstanding, reserved, isStarted, mutex, releases>>

--------------------------------------------------------------------------------
(* Pending calls *)

\* faulty: no spawn() after the unlock
releaseSilently(q) ==
    /\ mutex[q] = "free"
    /\ releases[q] > 0
    /\ releases' = Dec(releases, q)
    /\ outstanding' = Dec(outstanding, q)
    /\ UNCHANGED <<workQueue, overflowQueue, reserved, isStarted, mutex, spawns, jobs>>

release(q) ==
    /\ mutex[q] = "free"
    /\ releases[q] > 0
    /\ releases' = Dec(releases, q)
    /\ outstanding' = Dec(outstanding, q)
    /\ spawns' = Inc(spawns, q)
    /\ UNCHANGED <<workQueue, overflowQueue, reserved, isStarted, mutex, jobs>>

spawn(q) ==
    /\ mutex[q] = "free"
    /\ spawns[q] > 0
    /\ spawns' = Dec(spawns, q)
    /\ mutex' = [mutex EXCEPT ![q] = IF isStarted[q] THEN "transfer" ELSE "free"]
    /\ UNCHANGED <<queues, releases, jobs>>

CanTransfer(q) == size(q) < maxSize[q] /\ overflowQueue[q] # << >>
CanStart(q) == outstanding[q] < maxOutstanding[q] /\ workQueue[q] # << >>

\* faulty: the entry stays in the overflow queue
transferOverflowCopy(q) ==
    /\ mutex[q] = "transfer"
    /\ CanTransfer(q)
    /\ LET j == Head(overflowQueue[q]) IN
       /\ workQueue' = Push(workQueue, q, j)
       /\ ReleaseAll({origin[j]})
       /\ Move(j, "queued", q, ctx[j], NoQueue)
    /\ UNCHANGED <<overflowQueue, outstanding, reserved, isStarted, mutex, spawns>>

\* An iteration of the first loop.  The origin is released after the unlock; as
\* that only locks the origin, the call may as well be pending from here on.
transferOverflow(q) ==
    /\ mutex[q] = "transfer"
    /\ CanTransfer(q)
    /\ LET j == Head(overflowQueue[q]) IN
       /\ workQueue' = Push(workQueue, q, j)
       /\ overflowQueue' = [overflowQueue EXCEPT ![q] = Tail(@)]
       /\ ReleaseAll({origin[j]})
       /\ Move(j, "queued", q, ctx[j], NoQueue)
    /\ UNCHANGED <<outstanding, reserved, isStarted, mutex, spawns>>

transferred(q) ==
    /\ mutex[q] = "transfer"
    /\ ~CanTransfer(q)
    /\ mutex' = [mutex EXCEPT ![q] = "start"]
    /\ UNCHANGED <<queues, spawns, releases, jobs>>

\* faulty: takes the newest item
startNewest(q) ==
    /\ mutex[q] = "start"
    /\ CanStart(q)
    /\ LET n == Len(workQueue[q])
           j == workQueue[q][n]
       IN  /\ workQueue' = [workQueue EXCEPT ![q] = SubSeq(@, 1, n - 1)]
           /\ outstanding' = Inc(outstanding, q)
           /\ Move(j, "running", q, ctx[j], NoQueue)
    /\ UNCHANGED <<overflowQueue, reserved, isStarted, mutex, spawns, releases>>

\* An iteration of the second loop; the job is pushed to the job queue.
startItem(q) ==
    /\ mutex[q] = "start"
    /\ CanStart(q)
    /\ LET j == Head(workQueue[q]) IN
       /\ workQueue' = [workQueue EXCEPT ![q] = Tail(@)]
       /\ outstanding' = Inc(outstanding, q)
       /\ Move(j, "running", q, ctx[j], NoQueue)
    /\ UNCHANGED <<overflowQueue, reserved, isStarted, mutex, spawns, releases>>

spawned(q) ==
    /\ mutex[q] = "start"
    /\ ~CanStart(q)
    /\ mutex' = [mutex EXCEPT ![q] = "free"]
    /\ UNCHANGED <<queues, spawns, releases, jobs>>

--------------------------------------------------------------------------------

Next ==
    \E q \in Queue :
        \/ start(q) \/ stop(q)
        \/ release(q) \/ spawn(q)
        \/ transferOverflow(q) \/ transferred(q)
        \/ startItem(q) \/ spawned(q)
        \/ \E j \in Job :
              \/ enqueue(q, j)
              \/ reserve(q, j) \/ unreserve(q, j) \/ enqueueReserved(q, j)
              \/ finish(q, j)
              \/ reserveOwn(q, j)
              \/ reEnqueueOwn(q, j) \/ reEnqueueOwnFull(q, j)
              \/ \E r \in Queue : reEnqueue(q, r, j) \/ reEnqueueSerialized(q, r, j)

Spec == Init /\ [][Next]_vars

\* A thread that has the mutex, or a call to make, goes on; a job does not run
\* or come back to the queues for ever; a reservation is used.
Fairness ==
    \A q \in Queue :
        /\ WF_vars(release(q)) /\ WF_vars(spawn(q))
        /\ WF_vars(transferOverflow(q) \/ transferred(q) \/ startItem(q) \/ spawned(q))
        /\ \A j \in Job : SF_vars(finish(q, j)) /\ WF_vars(enqueueReserved(q, j))

FairSpec == Spec /\ Fairness

--------------------------------------------------------------------------------
(* Properties *)

TypeOK ==
    /\ workQueue \in [Queue -> Seq(Job)]
    /\ overflowQueue \in [Queue -> Seq(Job)]
    /\ outstanding \in [Queue -> Nat]
    /\ reserved \in [Queue -> Nat]
    /\ isStarted \in [Queue -> BOOLEAN]
    /\ mutex \in [Queue -> {"free", "transfer", "start"}]
    /\ spawns \in [Queue -> Nat]
    /\ releases \in [Queue -> Nat]
    /\ phase \in [Job -> Phase]
    /\ at \in [Job -> Queue \cup {NoQueue}]
    /\ ctx \in [Job -> SUBSET Queue]
    /\ origin \in [Job -> Queue \cup {NoQueue}]

\* A job is in one place: the entries of _workQueue and of _overflowQueue are
\* different jobs, that wait there and nowhere else.
JobsInOnePlace ==
    \A q \in Queue :
        /\ \A k \in 1..Len(workQueue[q]) : workQueue[q][k] \in At(q, "queued")
        /\ \A k \in 1..Len(overflowQueue[q]) : overflowQueue[q][k] \in At(q, "overflow")
        /\ \A k, l \in 1..Len(workQueue[q]) : workQueue[q][k] = workQueue[q][l] => k = l
        /\ \A k, l \in 1..Len(overflowQueue[q]) :
                overflowQueue[q][k] = overflowQueue[q][l] => k = l

\* Every unit of _outstanding has one owner that will give it back: a job that
\* runs, a release() that is due, a SerializationCtx, or a job in the overflow
\* queue of another queue.  None is lost in a PushBackException and none is
\* released twice.
OutstandingIsOwned ==
    \A q \in Queue :
        outstanding[q] = Cardinality(At(q, "running")) + releases[q]
                         + Cardinality(Holding(q)) + Cardinality(Stalling(q))

\* _reserved counts the jobs that may still be scheduled or given up, so that
\* enqueueReserved and unreserve never throw InvalidStateException.
ReservationsAreOwned == \A q \in Queue : reserved[q] = Cardinality(At(q, "reserved"))

\* The assertions _size() <= _maxSize + _outstanding and
\* _outstanding <= _maxOutstanding, made all over WorkQueue.
SizeBounded ==
    \A q \in Queue :
        /\ size(q) <= maxSize[q] + outstanding[q]
        /\ outstanding[q] <= maxOutstanding[q]

\* reEnqueueSerialized: "the origin queue fromQueue does not release the item
\* before it actually runs to completion", so no more than _maxOutstanding items
\* taken from a queue are unfinished, wherever they are by now.
SerializedUntilDone ==
    \A q \in Queue :
        Cardinality(At(q, "running")) + Cardinality(Holding(q)) <= maxOutstanding[q]

\* No spawn() is running or due on q.
Quiet(q) == isStarted[q] /\ mutex[q] = "free" /\ spawns[q] = 0

\* WorkQueue.h: "If the number of unreleased items in fromQueue is too high
\* (>=maxOutstanding), fromQueue will stall until some are released" - and with
\* fewer it does not stall while it has items.
StallsOnlyWhenBusy == \A q \in Queue : Quiet(q) => ~CanStart(q)

\* WorkQueue.h: "When queue space becomes available, fromQueue will be notified
\* by this WorkQueue to complete transfer".
OverflowMovesWhenRoom == \A q \in Queue : Quiet(q) => ~CanTransfer(q)

\* A job in _workQueue is run.  (One in _overflowQueue need not be: enqueue()
\* may take the room each time before spawn() gets to the overflow.)
EnqueuedRuns == \A j \in Job : phase[j] = "queued" ~> phase[j] = "running"

--------------------------------------------------------------------------------
(* The inductive invariant behind the safety properties *)

\* Each job that runs on q keeps a place in which it can come back.
PlacesAreKept ==
    \A q \in Queue :
        reserved[q] + Len(workQueue[q]) + Cardinality(At(q, "running")) <= maxSize[q]

\* An idle job holds nothing; only a job in an overflow queue has an origin; and
\* the queues of a context are upstream of the job.
JobsHoldUpstream ==
    \A j \in Job :
        /\ IF phase[j] = "idle" THEN ctx[j] = {} ELSE at[j] \in Queue
        /\ phase[j] # "overflow" => origin[j] = NoQueue
        /\ \A q \in ctx[j] : Rank[q] < Rank[at[j]]

IInv ==
    /\ TypeOK
    /\ JobsInOnePlace
    /\ OutstandingIsOwned
    /\ ReservationsAreOwned
    /\ PlacesAreKept
    /\ JobsHoldUpstream
    /\ \A q \in Queue : outstanding[q] <= maxOutstanding[q]

================================================================================
