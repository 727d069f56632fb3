-------------------------- MODULE QueryTxnCommitProofs --------------------------
(***************************************************************************)
(* Atomic commitment, for any cluster, any set of queries and arrays and   *)
(* any number of faults: what is in the catalog is on every instance, what *)
(* is not in the catalog is under a lock, versions are consecutive, every  *)
(* lock has an owner, and no assertion of the code fails.                  *)
(***************************************************************************)
EXTENDS QueryTxnCoordinatorProofs, QueryTxnWorkerProofs, QueryTxnEndProofs

LEMMA InitialViews ==
    ASSUME Init, NEW q \in Queries, NEW i \in Instance, coordOf[q] \in Instance, arrayOf[q] \in Arrays
    PROVE  HoldsNow(q, i)
<1> DEFINE v == View(q, i)
<1>1. /\ query[q][i] = NoQuery /\ exec[q][i] = "none" /\ stack[q][i] = NoFrames /\ node[i] = "up"
      /\ query[q][coordOf[q]] = NoQuery
  BY Zenon DEF Init, NoFrames
<1>2. /\ rows[q][i] = NoRow /\ rows[q][coordOf[q]] = NoRow /\ stored[i] = {} /\ msgs = {}
      /\ versions[arrayOf[q]] = {}
  BY Zenon DEF Init
<1>3. Reporters(q) = {}
  BY <1>1, <1>2, NoReports, Zenon
<1>4. IsView(q, i, v)
  BY ViewFacts, Zenon
<1> HIDE DEF v
<1>5. v.row = NoRow /\ v.coordRow = NoRow /\ v.stored = {} /\ v.reporters = {} /\ v.node = "up"
  BY <1>1, <1>2, <1>3, <1>4, Zenon DEF IsView
<1>6. ~Wrote(q, v)
  BY <1>2, <1>4, Zenon DEF IsView, Committed
<1>7. /\ ~Armed(NoQuery) /\ "exec" \in Thread /\ "errq" \in Thread
      /\ ~HandlerPending(NoFrames) /\ ~Recording(NoQuery, NoFrames)
      /\ \A t \in Thread : Ks(NoFrames, t) = {} /\ Descending(NoFrames[t])
  BY NoFramesFacts, Zenon DEF Armed, Thread, HandlerPending, Recording
<1>8. Local(q, i, "none", NoQuery, NoFrames, "up")
  <2>1. Ordered(NoQuery, NoFrames) /\ SwappedOnce(NoQuery, NoFrames)
    BY <1>7, Zenon DEF Ordered, SwappedOnce
  <2>2. ObjectOK("none", NoQuery, NoFrames, "up")
    BY <1>7, Zenon DEF ObjectOK
  <2>3. CoordinatorOK("none", NoQuery)
    BY <1>7 DEF CoordinatorOK, Started
  <2>4. WorkerOK("none", NoQuery, NoFrames)
    BY <1>7 DEF WorkerOK
  <2> QED
    BY <2>1, <2>2, <2>3, <2>4, Zenon DEF Local
<1>9. Data(q, i, "none", NoQuery, NoFrames, v)
  <2>1. RowOK(q, i, NoQuery, NoFrames, v)
    BY <1>5, RankOrder DEF RowOK
  <2>2. ChunksOK(q, i, "none", NoQuery, NoFrames, v)
    BY <1>5, <1>7 DEF ChunksOK
  <2>3. RecoveryOK(q, i, v) /\ StoredOK(q, v)
    BY <1>5, <1>6 DEF RecoveryOK, StoredOK
  <2>4. CoordinatorRow(q, "none", NoQuery, NoFrames, v)
    BY <1>5, <1>6, <1>7 DEF CoordinatorRow
  <2>5. ReportsOK(q, i, "none", NoQuery, v)
    BY <1>5, <1>6 DEF ReportsOK, HasDone
  <2> QED
    BY <2>1, <2>2, <2>3, <2>4, <2>5, Zenon DEF Data
<1> QED
  BY <1>1, <1>8, <1>9, Zenon DEF HoldsNow, v

LEMMA CommitInit ==
    ASSUME Init
    PROVE  CommitInv
<1>1. LocksInv
  BY QueryTxnAssumption DEF Init, LocksInv, WritersExclude, Queries, Instance
<1>2. \A q \in Queries : coordOf[q] \in Instance /\ arrayOf[q] \in Arrays
  BY <1>1, QueryTxnAssumption DEF LocksInv, Plan, Queries
<1>3. AssertionsHold
  <2>1. plan \in Plan /\ msgs = {} /\ failed = {}
    BY <1>1, Zenon DEF Init, LocksInv
  <2>2. /\ query \in [Queries -> [Instance -> QueryObject \cup {NoQuery}]]
        /\ exec \in [Queries -> [Instance -> ExecState]]
        /\ rows \in [Queries -> [Instance -> Nat \cup {NoRow}]]
    BY Zenon DEF Init, ExecState
  <2>3. stack \in [Queries -> [Instance -> [Thread -> Seq(Handler \cup Finalizer)]]]
    BY NoFramesFacts, Zenon DEF Init, NoFrames, Entry
  <2>4. /\ versions \in [Arrays -> SUBSET [version : Nat, writer : Queries]]
        /\ stored \in [Instance -> SUBSET Queries]
        /\ node \in [Instance -> {"up", "down", "recoverCoord", "recoverWorker"}]
        /\ recovering \in [Instance -> SUBSET Queries]
    BY Zenon DEF Init
  <2> QED
    BY <2>1, <2>2, <2>3, <2>4, Zenon DEF AssertionsHold, TypeOK
<1>4. \A q \in Queries, i \in Instance : HoldsNow(q, i)
  BY <1>2, InitialViews, Zenon
<1>5. ThreadsOK /\ DataOK
  BY <1>4, Zenon DEF ThreadsOK, DataOK, HoldsNow
<1>6. MessagesOK
  <2>1. msgs = {} /\ \A q \in Queries, i \in Instance : exec[q][i] = "none"
    BY Zenon DEF Init
  <2> QED
    BY <2>1, Zenon DEF MessagesOK, PlanOnce, Unstarted, Workers
<1>7. VersionsOK
  <2>1. \A a \in Arrays : versions[a] = {}
    BY Zenon DEF Init
  <2>2. IsFiniteSet({}) /\ Cardinality({}) = 0
    BY FS_EmptySet
  <2>3. 1..0 = {} /\ {v.version : v \in {}} = {}
    OBVIOUS
  <2> QED
    BY <2>1, <2>2, <2>3 DEF VersionsOK, VersionsAreConsecutive
<1> QED
  BY <1>1, <1>3, <1>5, <1>6, <1>7, Zenon DEF CommitInv

LEMMA CommitCoordinatorSteps ==
    ASSUME CommitInv, LocksInv', NEW q \in Queries, CoordinatorSteps(q)
    PROVE  CommitInv'
<1>1. CASE broadcastPlan(q)
  BY <1>1, BroadcastPlanKeeps, Zenon
<1>2. CASE ~broadcastPlan(q)
  <2>1. ThreadMove
    BY <1>2, AcquireLocksKeeps, LockArraysCommit, ValidateLocksKeeps, StatusStepsKeep,
       StartExecuteQueryKeeps, PreSingleExecuteKeeps, UpdateArrayLockCommit, PostSingleExecuteKeeps,
       CancelPlannedKeeps, CompleteQueryKeeps, Zenon DEF CoordinatorSteps
  <2> QED
    BY <2>1, ThreadMoveKeeps, Zenon
<1> QED
  BY <1>1, <1>2, Zenon

LEMMA CommitSteps ==
    ASSUME CommitInv, LocksInv', NEW q \in Queries, NEW i \in Instance, Steps(q, i)
    PROVE  CommitInv'
<1>1. CASE sendResult(q, i)
  BY <1>1, SendResultKeeps, Zenon
<1>2. CASE ~sendResult(q, i)
  <2>1. ThreadMove
    BY <1>2, HandlePlanKeeps, InstallKeeps, LockArrayCommit, StoreKeeps, StatusStepsKeep,
       DoneWorkerKeeps, FailuresKeep, SendErrorKeeps, CancelKeeps, Zenon DEF Steps
  <2> QED
    BY <2>1, ThreadMoveKeeps, Zenon
<1> QED
  BY <1>1, <1>2, Zenon

LEMMA CommitStackSteps ==
    ASSUME CommitInv, LocksInv', NEW q \in Queries, NEW i \in Instance, StackSteps(q, i)
    PROVE  CommitInv'
<1>1. PICK t \in Thread :
        \/ UpdateErrorHandler(q, i, t) \/ BroadcastAbort(q, i, t)
        \/ recordPersistent(q, i, t) \/ releaseLocks(q, i, t)
        \/ broadcastCommit(q, i, t) \/ destroy(q, i, t)
  BY Zenon DEF StackSteps
<1>2. CASE recordPersistent(q, i, t) /\ query[q][i].commit = "COMMITTED"
  BY <1>2, RecordPersistentKeeps, Zenon
<1>3. CASE ~(recordPersistent(q, i, t) /\ query[q][i].commit = "COMMITTED")
  <2>1. ThreadMove
    BY <1>1, <1>3, UpdateErrorHandlerKeeps, BroadcastAbortKeeps, RecordNothingKeeps,
       ReleaseLocksKeeps, BroadcastCommitKeeps, DestroyKeeps, Zenon
  <2> QED
    BY <2>1, ThreadMoveKeeps, Zenon
<1> QED
  BY <1>2, <1>3, Zenon

LEMMA CommitReceives ==
    ASSUME CommitInv, LocksInv', NEW i \in Instance, Receives(i)
    PROVE  CommitInv'
<1>1. ThreadMove
  BY HandleQueryResultKeeps, AbortMessageKeeps, CommitMessageKeeps, NotificationsKeep,
     DispatchMessageKeeps, Zenon DEF Receives
<1> QED
  BY <1>1, ThreadMoveKeeps, Zenon

LEMMA CommitRecovers ==
    ASSUME CommitInv, LocksInv', NEW i \in Instance, Recovers(i)
    PROVE  CommitInv'
  BY ReadArrayLocksKeeps, RecoverCoordLockKeeps, DeleteCoordArrayLocksKeeps,
     RecoverWorkerLockKeeps, DeleteWorkerArrayLocksKeeps, Zenon DEF Recovers

LEMMA CommitStep ==
    ASSUME CommitInv, [Next]_vars
    PROVE  CommitInv'
<1>1. LocksInv'
  BY LocksStep, Zenon DEF CommitInv
<1>2. ASSUME NEW q \in Queries, handleCancel(q)
      PROVE  CommitInv'
  BY <1>1, <1>2, HandleCancelKeeps, ThreadMoveKeeps, Zenon
<1>3. ASSUME NEW q \in Queries, NEW i \in Instance, operatorFails(q, i)
      PROVE  CommitInv'
  BY <1>1, <1>3, FailuresKeep, ThreadMoveKeeps, Zenon
<1> QED
  BY <1>1, <1>2, <1>3, PrepareQueryBeforeLockingKeeps, CommitCoordinatorSteps, CommitSteps,
     CommitStackSteps, CommitReceives, CommitRecovers, CrashKeeps, ConnectionLostKeeps,
     StutterKeeps, Zenon DEF Next

(* The invariant of the whole protocol. *)
THEOREM CommitInvariant == Spec => []CommitInv
<1>1. Init => CommitInv
  BY CommitInit, Zenon
<1>2. CommitInv /\ [Next]_vars => CommitInv'
  BY CommitStep, Zenon
<1> QED
  BY <1>1, <1>2, PTL DEF Spec

(* No assertion of the code fails on any instance, in any order of messages,      *)
(* crashes, cancellations and recoveries: no query aborts after it has committed  *)
(* or commits after it has aborted (Query::handleAbort, handleCommit), a writer   *)
(* finds the lock it updates (PhysicalUpdate::preSingleExecute), and a rollback   *)
(* finds a version it may find (UpdateErrorHandler::handleErrorOnCoordinator and  *)
(* handleErrorOnWorker).                                                          *)
THEOREM NoAssertionFails == Spec => []AssertionsHold
<1>1. CommitInv => AssertionsHold
  BY Zenon DEF CommitInv
<1> QED
  BY <1>1, CommitInvariant, PTL

(* Once the coordinator has recorded a version, all instances have its chunks on  *)
(* disk for good: no abort, cancellation, crash or recovery of any of them takes  *)
(* them away (recordPersistent against UpdateErrorHandler and                     *)
(* doTxnRecoveryOnStartup).                                                       *)
THEOREM CommittedStaysStored == Spec => []CommittedIsStored
<1>1. CommitInv => CommittedIsStored
  <2> SUFFICES ASSUME CommitInv, NEW q \in Queries, Committed(q), NEW i \in Instance
               PROVE  q \in stored[i]
    BY Zenon DEF CommittedIsStored
  <2>1. StoredOK(q, View(q, i)) /\ IsView(q, i, View(q, i))
    BY Before, ViewFacts, Zenon DEF Data
  <2> QED
    BY <2>1, Zenon DEF StoredOK, IsView
<1> QED
  BY <1>1, CommitInvariant, PTL

(* The chunks of a query that has not committed are never left without a lock of  *)
(* the instance that has them, which is how its recovery finds them               *)
(* (Query::releaseLocks after the error handlers, readArrayLocks).                *)
THEOREM UncommittedStaysLocked == Spec => []UncommittedIsLocked
<1>1. CommitInv => UncommittedIsLocked
  <2> SUFFICES ASSUME CommitInv, NEW q \in Queries, NEW i \in Instance, q \in stored[i], ~Committed(q)
               PROVE  rows[q][i] # NoRow
    BY Zenon DEF UncommittedIsLocked
  <2>1. StoredOK(q, View(q, i)) /\ IsView(q, i, View(q, i))
    BY Before, ViewFacts, Zenon DEF Data
  <2> QED
    BY <2>1, Zenon DEF StoredOK, IsView
<1> QED
  BY <1>1, CommitInvariant, PTL

(* However queries fail and retry, the versions of an array in the catalog have   *)
(* no gap and no two writers of one (getLastVersion, recordPersistent).           *)
THEOREM VersionsStayConsecutive == Spec => []VersionsAreConsecutive
<1>1. CommitInv => VersionsAreConsecutive
  BY Zenon DEF CommitInv, VersionsOK
<1> QED
  BY <1>1, CommitInvariant, PTL

(* No row of array_version_lock is orphaned: whoever is to delete it is there     *)
(* (Query::pushFinalizer before lockArray, doTxnRecoveryOnStartup).               *)
THEOREM RowsStayOwned == Spec => []RowsAreOwned
<1>1. CommitInv => RowsAreOwned
  <2> SUFFICES ASSUME CommitInv, NEW q \in Queries, NEW i \in Instance, rows[q][i] # NoRow, node[i] = "up"
               PROVE  \/ IsObject(q, i) /\ "releaseLocks" \in Range(Obj(q, i).finalizers)
                      \/ \E t \in Thread : "releaseLocks" \in Range(stack[q][i][t])
    BY Zenon DEF RowsAreOwned
  <2>1. RowOK(q, i, query[q][i], stack[q][i], View(q, i)) /\ IsView(q, i, View(q, i))
    BY Before, ViewFacts, Zenon DEF Data
  <2> QED
    BY <2>1, Zenon DEF RowOK, IsView, Armed, Fs, Ks, IsObject, Obj
<1> QED
  BY <1>1, CommitInvariant, PTL
=================================================================================
