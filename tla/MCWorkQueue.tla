------------------------------ MODULE MCWorkQueue ------------------------------
(***************************************************************************)
(* Instances of WorkQueue for TLC: q1, whose jobs may go on to q2.  In an  *)
(* orderly behaviour the clients keep to the uses for which the queues     *)
(* promise progress: nobody calls start(), stop() or unreserve() and no    *)
(* job goes back to its own queue at once.  It has only a Few jobs, to     *)
(* keep the check of liveness small.                                       *)
(***************************************************************************)
EXTENDS WorkQueue, TLC

CONSTANTS q1, q2, Few

VARIABLE orderly

One == q1 :> 1 @@ q2 :> 1
OneTwo == q1 :> 1 @@ q2 :> 2
Two == q1 :> 2 @@ q2 :> 2

Disorderly ==
    \E q \in Queue :
        \/ start(q) \/ stop(q)
        \/ \E j \in Job : unreserve(q, j) \/ reEnqueueOwn(q, j) \/ reEnqueueOwnFull(q, j)
        \/ \E j \in Job \ Few : enqueue(q, j) \/ reserve(q, j)

mcInit == Init /\ orderly \in BOOLEAN
mcNext == Next /\ UNCHANGED orderly /\ (orderly => ~Disorderly)
mcSafe == mcInit /\ [][mcNext]_<<vars, orderly>>
mcSpec == mcSafe /\ Fairness

\* An orderly queue with items and free slots has a spawn() to come: every path
\* of WorkQueue that frees a slot or adds an item calls spawn() after the unlock.
OrderlyNeverStalls == orderly => StallsOnlyWhenBusy

\* In an orderly behaviour an item in the overflow queue moves as soon as there
\* is room, and with it the queue it came from ("fromQueue will be notified by
\* this WorkQueue to complete transfer", WorkQueue.h).
OrderlyOverflowMoves == orderly => OverflowMovesWhenRoom

\* In an orderly behaviour every item of _workQueue is run.
OrderlyJobsRun == orderly => EnqueuedRuns

================================================================================
