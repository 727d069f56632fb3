-------------------------------- MODULE QueryTxn --------------------------------
(***************************************************************************)
(* How a query that writes an array commits or aborts: the Query objects   *)
(* of the coordinator and the workers (src/query/Query.cpp), the thread    *)
(* that executes the query on each instance (SciDBExecutor.cpp,            *)
(* PhysicalUpdate.cpp, PhysicalStore.cpp, MessageHandleJob.cpp), the rows  *)
(* of array_version_lock and array_version in the catalog                  *)
(* (SystemCatalog.cpp) and the recovery of an instance that restarts       *)
(* (StorageMgr.cpp).                                                       *)
(*                                                                         *)
(* On every instance a query has two threads: "exec" runs the plan, "errq" *)
(* is the error queue, which handles one commit, abort, cancel or error at *)
(* a time.  handleAbort and handleCommit swap the error handlers and the   *)
(* finalizers onto the stack of their thread under errorMutex and run them *)
(* after unlocking it, so each of them is a step of its own.               *)
(*                                                                         *)
(* Every query stores a new version of one persistent array.  A chunk is   *)
(* abstracted to the query that wrote it.  The Query objects of all the    *)
(* instances appear together: the coordinator waits for the workers to     *)
(* install theirs before it takes any lock (syncUtils::wait).  The         *)
(* barriers inside the operators are left out; they only delay a thread.   *)
(***************************************************************************)
EXTENDS Integers, Sequences, Functions, FiniteSetsExt

CONSTANTS
    InstanceId, QueryId, Arrays,
    coordOf,            \* getPhysicalCoordinatorID() of a query
    arrayOf,            \* the array a query stores to
    Plans               \* the clusters, clients and faults to look at

(* A plan: the instances of the cluster, the queries that clients submit, those  *)
(* of them whose operators may throw or whose clients cancel, and bounds on the  *)
(* instances that crash and the connections that break.                          *)
Plan == [instances : SUBSET InstanceId, queries : SUBSET QueryId, troubled : SUBSET QueryId,
         crashes : Nat, losses : Nat]

ASSUME QueryTxnAssumption ==
    /\ coordOf \in [QueryId -> InstanceId]
    /\ arrayOf \in [QueryId -> Arrays]
    /\ Plans \subseteq Plan
    /\ \A p \in Plans : \A q \in p.queries : coordOf[q] \in p.instances

VARIABLES
    query,              \* _queries of each instance
    exec,               \* where the thread that executes the query is
    stack,              \* errorHandlersOnStack and finalizersOnStack of a thread
    rows,               \* array_version_lock: array_version of a row, or NoRow
    versions,           \* array_version: the versions of an array and their writers
    stored,             \* the queries whose chunks an instance has on disk
    msgs,               \* the messages and notifications on their way
    node,               \* down, recovering or up
    recovering,         \* the locks doTxnRecoveryOnStartup has yet to look at
    plan,               \* the plan of this behaviour, less the faults that have happened
    failed              \* the assertions that did not hold, by their line

catalog == <<rows, versions>>
machine == <<node, recovering, plan>>
vars == <<query, exec, stack, catalog, stored, msgs, machine, failed>>

Instance == plan.instances
Queries == plan.queries

NoQuery == [status |-> "none"]
NoRow == -1
Thread == {"exec", "errq"}
Coordinator(q, i) == coordOf[q] = i
Workers(q) == Instance \ {coordOf[q]}

MessageType == {"mtPreparePhysicalPlan", "mtQueryResult", "mtError", "mtAbort",
                "mtCommit", "QUERY_NOT_FOUND"}
NotificationType == {"liveness", "connection"}
Message == [type : MessageType \cup NotificationType, query : Queries,
            to : Instance, from : Instance,
            version : Nat]              \* in the schemas of a physical plan

(* The entries of _errorHandlers and _finalizers. *)
Handler == {"UpdateErrorHandler", "BroadcastAbort"}
Finalizer == {"recordPersistent", "releaseLocks", "broadcastCommit", "destroy"}

ExecState == {"none", "idle", "acquireLocks", "lockArrays", "locked", "prepared",
              "parsed", "preSingleExecute", "updateArrayLock", "broadcast",
              "stop", "planned", "install", "lockArray", "store", "semResults",
              "done", "finished", "sendResult", "cancel", "sendError", "ended"}

QueryObject ==
    [status : {"INIT", "START", "OK", "ERROR"},             \* _completionStatus
     commit : {"UNKNOWN", "COMMITTED", "ABORTED"},          \* _commitState
     error : BOOLEAN,                                       \* _error is set
     errorHandlers : Seq(Handler),
     finalizers : Seq(Finalizer),
     version : Nat,                                         \* of PhysicalUpdate::_lock
     hasId : BOOLEAN,                                       \* its getArrayVersionId() > 0
     results : SUBSET Instance]                             \* semResults

IsObject(q, i) == query[q][i] # NoQuery
Obj(q, i) == query[q][i]

(* What is sent to an instance that is not up is lost.                      *)
Send(q, i, type, to) ==
    {[type |-> type, query |-> q, to |-> j, from |-> i, version |-> 0] :
        j \in {k \in to : node[k] = "up"}}

Unless(assertion, line) == IF assertion THEN {} ELSE {line}

LastVersion(a) == Max({0} \cup {v.version : v \in versions[a]})
Committed(q) == \E v \in versions[arrayOf[q]] : v.writer = q

--------------------------------------------------------------------------------

Init ==
    /\ plan \in Plans
    /\ query = [q \in Queries |-> [i \in Instance |-> NoQuery]]
    /\ exec = [q \in Queries |-> [i \in Instance |-> "none"]]
    /\ stack = [q \in Queries |-> [i \in Instance |-> [t \in Thread |-> <<>>]]]
    /\ rows = [q \in Queries |-> [i \in Instance |-> NoRow]]
    /\ versions = [a \in Arrays |-> {}]
    /\ stored = [i \in Instance |-> {}]
    /\ msgs = {}
    /\ node = [i \in Instance |-> "up"]
    /\ recovering = [i \in Instance |-> {}]
    /\ failed = {}

--------------------------------------------------------------------------------
(* The thread that executes the query on its coordinator. *)

At(q, i, pc) == exec[q][i] = pc /\ stack[q][i]["exec"] = <<>>
Goto(q, i, pc) == exec' = [exec EXCEPT ![q][i] = pc]
NoError(q, i) == IsObject(q, i) /\ ~Obj(q, i).error

(* Query::create and Query::init on every instance, and start() on the      *)
(* coordinator.                                                             *)
NewQuery(q, i) ==
    [status |-> IF Coordinator(q, i) THEN "START" ELSE "INIT",
     commit |-> "UNKNOWN", error |-> FALSE,
     errorHandlers |-> IF Coordinator(q, i) THEN <<"BroadcastAbort">> ELSE <<>>,
     finalizers |-> IF Coordinator(q, i) THEN <<"destroy", "broadcastCommit">>
                                         ELSE <<"destroy">>,
     version |-> 0, hasId |-> FALSE, results |-> {}]

prepareQueryBeforeLocking(q) ==
    /\ exec[q][coordOf[q]] = "none"
    /\ \A i \in Instance : node[i] = "up"
    /\ query' = [query EXCEPT ![q] = [i \in Instance |-> NewQuery(q, i)]]
    /\ exec' = [exec EXCEPT ![q] = [i \in Instance |->
                    IF Coordinator(q, i) THEN "acquireLocks" ELSE "idle"]]
    /\ UNCHANGED <<stack, catalog, stored, msgs, machine, failed>>

acquireLocks(q) ==
    LET c == coordOf[q] IN
    /\ At(q, c, "acquireLocks") /\ NoError(q, c)
    /\ query' = [query EXCEPT ![q][c].finalizers = Append(@, "releaseLocks")]
    /\ Goto(q, c, "lockArrays")
    /\ UNCHANGED <<stack, catalog, stored, msgs, machine, failed>>

\* faulty: the locks of the workers do not count
CanLockWhenCoordinatorsFree(q) ==
    \A p \in Queries \ {q} : arrayOf[p] = arrayOf[q] => rows[p][coordOf[p]] = NoRow

(* COORD_WR of getLockInsertSql: no row of another query on the array.      *)
CanLock(q) ==
    \A p \in Queries \ {q} : arrayOf[p] = arrayOf[q] =>
        \A i \in Instance : rows[p][i] = NoRow

(* lockArrays, retried by retryAcquireLocks for as long as it is BUSY.      *)
lockArrays(q) ==
    LET c == coordOf[q] IN
    /\ At(q, c, "lockArrays")
    /\ CanLock(q)
    /\ rows' = [rows EXCEPT ![q][c] = 0]
    /\ Goto(q, c, "locked")
    /\ UNCHANGED <<query, stack, versions, stored, msgs, machine, failed>>

validateLocks(q) ==
    LET c == coordOf[q] IN
    /\ At(q, c, "locked") /\ NoError(q, c)
    /\ Goto(q, c, "parsed")
    /\ UNCHANGED <<query, stack, catalog, stored, msgs, machine, failed>>

prepareQueryAfterLocking(q) ==
    LET c == coordOf[q] IN
    /\ At(q, c, "parsed") /\ NoError(q, c)
    /\ query' = [query EXCEPT ![q][c].status = "INIT"]
    /\ Goto(q, c, "prepared")
    /\ UNCHANGED <<stack, catalog, stored, msgs, machine, failed>>

(* start(), then preSingleExecute as far as the error handler.              *)
startExecuteQuery(q) ==
    LET c == coordOf[q] IN
    /\ At(q, c, "prepared") /\ NoError(q, c)
    /\ query' = [query EXCEPT ![q][c].status = "START",
                    ![q][c].errorHandlers = Append(@, "UpdateErrorHandler")]
    /\ Goto(q, c, "preSingleExecute")
    /\ UNCHANGED <<stack, catalog, stored, msgs, machine, failed>>

\* faulty: the version that is there already
preSingleExecuteLast(q) ==
    LET c == coordOf[q] IN
    /\ At(q, c, "preSingleExecute")
    /\ query' = [query EXCEPT ![q][c].version = LastVersion(arrayOf[q]),
                    ![q][c].hasId = TRUE]
    /\ Goto(q, c, "updateArrayLock")
    /\ UNCHANGED <<stack, catalog, stored, msgs, machine, failed>>

(* The version it will store, from getLastVersion.                          *)
preSingleExecute(q) ==
    LET c == coordOf[q] IN
    /\ At(q, c, "preSingleExecute")
    /\ query' = [query EXCEPT ![q][c].version = LastVersion(arrayOf[q]) + 1,
                    ![q][c].hasId = TRUE]
    /\ Goto(q, c, "updateArrayLock")
    /\ UNCHANGED <<stack, catalog, stored, msgs, machine, failed>>

updateArrayLock(q) ==
    LET c == coordOf[q] IN
    /\ At(q, c, "updateArrayLock")
    /\ rows' = [rows EXCEPT ![q][c] = IF @ = NoRow THEN @ ELSE Obj(q, c).version]
    /\ failed' = failed \cup Unless(rows[q][c] # NoRow, "PhysicalUpdate.cpp:259")
    /\ Goto(q, c, "broadcast")
    /\ UNCHANGED <<query, stack, versions, stored, msgs, machine>>

(* OrderedBcastManager::broadcast, which also delivers to the sender.       *)
broadcastPlan(q) ==
    LET c == coordOf[q] IN
    /\ At(q, c, "broadcast")
    /\ msgs' = msgs \cup {[m EXCEPT !.version = Obj(q, c).version] :
                            m \in Send(q, c, "mtPreparePhysicalPlan", Instance)}
    /\ Goto(q, c, "stop")
    /\ UNCHANGED <<query, stack, catalog, stored, machine, failed>>

stop(q) ==
    LET c == coordOf[q] IN
    /\ At(q, c, "stop") /\ NoError(q, c)
    /\ query' = [query EXCEPT ![q][c].status = "INIT"]
    /\ Goto(q, c, "planned")
    /\ UNCHANGED <<stack, catalog, stored, msgs, machine, failed>>

(* The plan comes back: completeExecuteQuery starts again and executes.     *)
completeExecuteQuery(q) ==
    LET c == coordOf[q] IN
    /\ At(q, c, "planned") /\ NoError(q, c)
    /\ \E m \in msgs :
        /\ m.type = "mtPreparePhysicalPlan" /\ m.query = q /\ m.to = c
        /\ msgs' = msgs \ {m}
    /\ query' = [query EXCEPT ![q][c].status = "START"]
    /\ Goto(q, c, "store")
    /\ UNCHANGED <<stack, catalog, stored, machine, failed>>

(* semResults.enter and validate, then the finalizer of postSingleExecute.  *)
postSingleExecute(q) ==
    LET c == coordOf[q] IN
    /\ At(q, c, "semResults") /\ NoError(q, c)
    /\ Obj(q, c).results = Workers(q)
    /\ query' = [query EXCEPT ![q][c].finalizers = Append(@, "recordPersistent")]
    /\ Goto(q, c, "done")
    /\ UNCHANGED <<stack, catalog, stored, msgs, machine, failed>>

--------------------------------------------------------------------------------
(* The thread that executes the query on a worker. *)

handlePreparePhysicalPlan(q, i) ==
    \E m \in msgs :
        /\ m.type = "mtPreparePhysicalPlan" /\ m.query = q /\ m.to = i
        /\ node[i] = "up" /\ ~Coordinator(q, i) /\ IsObject(q, i)
        /\ msgs' = msgs \ {m}
        /\ query' = [query EXCEPT ![q][i].version = m.version,
                        ![q][i].status = IF Obj(q, i).error THEN @ ELSE "START"]
        /\ Goto(q, i, "install")
        /\ UNCHANGED <<stack, catalog, stored, machine, failed>>

\* faulty: no finalizer for the lock
installHandlerOnly(q, i) ==
    /\ At(q, i, "install") /\ NoError(q, i)
    /\ query' = [query EXCEPT ![q][i].errorHandlers = Append(@, "UpdateErrorHandler")]
    /\ Goto(q, i, "lockArray")
    /\ UNCHANGED <<stack, catalog, stored, msgs, machine, failed>>

(* PhysicalStore installs its error handler and its finalizer.              *)
install(q, i) ==
    /\ At(q, i, "install") /\ NoError(q, i)
    /\ query' = [query EXCEPT ![q][i].errorHandlers = Append(@, "UpdateErrorHandler"),
                    ![q][i].finalizers = Append(@, "releaseLocks")]
    /\ Goto(q, i, "lockArray")
    /\ UNCHANGED <<stack, catalog, stored, msgs, machine, failed>>

(* WORKER_WR of getLockInsertSql copies the row of the coordinator; when    *)
(* there is none the operator throws (operatorFails).                       *)
lockArray(q, i) ==
    LET row == rows[q][coordOf[q]] IN
    /\ At(q, i, "lockArray")
    /\ row # NoRow
    /\ rows' = [rows EXCEPT ![q][i] = row]
    /\ query' = [query EXCEPT ![q][i].version = row, ![q][i].hasId = row > 0]
    /\ Goto(q, i, "store")
    /\ UNCHANGED <<stack, versions, stored, msgs, machine, failed>>

(* The operator writes its chunks, here and on the coordinator.             *)
store(q, i) ==
    /\ At(q, i, "store")
    /\ stored' = [stored EXCEPT ![i] = @ \cup {q}]
    /\ Goto(q, i, IF Coordinator(q, i) THEN "semResults" ELSE "done")
    /\ UNCHANGED <<query, stack, catalog, msgs, machine, failed>>

\* faulty: an error that was posted meanwhile is not raised
doneRegardless(q, i) ==
    /\ At(q, i, "done") /\ IsObject(q, i)
    /\ query' = [query EXCEPT ![q][i].status = "OK"]
    /\ Goto(q, i, IF Coordinator(q, i) THEN "finished" ELSE "sendResult")
    /\ UNCHANGED <<stack, catalog, stored, msgs, machine, failed>>

done(q, i) ==
    /\ At(q, i, "done") /\ NoError(q, i)
    /\ query' = [query EXCEPT ![q][i].status = "OK"]
    /\ Goto(q, i, IF Coordinator(q, i) THEN "finished" ELSE "sendResult")
    /\ UNCHANGED <<stack, catalog, stored, msgs, machine, failed>>

sendResult(q, i) ==
    /\ At(q, i, "sendResult")
    /\ msgs' = msgs \cup Send(q, i, "mtQueryResult", {coordOf[q]})
    /\ Goto(q, i, "ended")
    /\ UNCHANGED <<query, stack, catalog, stored, machine, failed>>

--------------------------------------------------------------------------------
(* How the executing thread fails. *)

(* The calls that may throw, and those of them that check _error.           *)
MayThrow == {"acquireLocks", "lockArrays", "locked", "parsed", "prepared",
             "preSingleExecute", "updateArrayLock", "broadcast", "stop",
             "install", "lockArray", "store", "semResults", "done"}
Checks == {"acquireLocks", "lockArrays", "locked", "parsed", "prepared", "stop",
           "install", "semResults", "done"}

(* done(unwindException).  A worker then tells the coordinator; it aborts   *)
(* on its own only when an abort has come already.  The coordinator always  *)
(* cancels the query (handleExecuteOrPrepareError).  acquireLocksInternal   *)
(* releases the locks before it rethrows.                                   *)
unwind(q, i) ==
    /\ query' = IF IsObject(q, i)
                THEN [query EXCEPT ![q][i].error = TRUE, ![q][i].status = "ERROR"]
                ELSE query
    /\ rows' = IF exec[q][i] \in {"lockArrays", "locked"}
               THEN [rows EXCEPT ![q][i] = NoRow] ELSE rows
    /\ Goto(q, i, IF Coordinator(q, i) \/ ~IsObject(q, i) \/ Obj(q, i).commit # "UNKNOWN"
                  THEN "cancel" ELSE "sendError")
    /\ UNCHANGED <<stack, versions, stored, msgs, machine, failed>>

operatorFails(q, i) ==
    /\ q \in plan.troubled
    /\ exec[q][i] \in MayThrow /\ stack[q][i]["exec"] = <<>>
    /\ unwind(q, i)

(* checkNoError, validate and done() raise _error; lockArray throws.        *)
raiseError(q, i) ==
    /\ \/ exec[q][i] \in Checks /\ ~NoError(q, i)
       \/ exec[q][i] = "lockArray" /\ rows[q][coordOf[q]] = NoRow
    /\ stack[q][i]["exec"] = <<>>
    /\ unwind(q, i)

(* The coordinator is woken by the error while it waits for the plan, and   *)
(* validate fails before it starts again.                                   *)
cancelPlanned(q) ==
    LET c == coordOf[q] IN
    /\ At(q, c, "planned") /\ ~NoError(q, c)
    /\ Goto(q, c, "cancel")
    /\ UNCHANGED <<query, stack, catalog, stored, msgs, machine, failed>>

sendError(q, i) ==
    /\ At(q, i, "sendError")
    /\ msgs' = msgs \cup Send(q, i, "mtError", {coordOf[q]})
    /\ Goto(q, i, "ended")
    /\ UNCHANGED <<query, stack, catalog, stored, machine, failed>>

--------------------------------------------------------------------------------
(* Commit and abort. *)

(* What a thread will run, from the last to the first: the error handlers,  *)
(* then the finalizers, the last one pushed first.                          *)
Swapped(obj) == obj.finalizers \o obj.errorHandlers
Top(s) == s[Len(s)]
Pop(s) == SubSeq(s, 1, Len(s) - 1)

(* A query that is still executing is only marked; its thread finds _error. *)
handleAbort(q, i, t) ==
    LET obj == Obj(q, i) IN
    IF obj.commit = "COMMITTED"
    THEN /\ failed' = failed \cup {"Query.cpp:646"}
         /\ UNCHANGED <<query, stack>>
    ELSE /\ query' = [query EXCEPT ![q][i] =
                IF obj.status = "START"
                THEN [obj EXCEPT !.commit = "ABORTED", !.error = TRUE]
                ELSE [obj EXCEPT !.commit = "ABORTED", !.error = TRUE,
                                 !.errorHandlers = <<>>, !.finalizers = <<>>]]
         /\ stack' = [stack EXCEPT ![q][i][t] =
                IF obj.status = "START" THEN <<>> ELSE Swapped(obj)]
         /\ UNCHANGED failed

(* Whatever _error says by now: a query that is OK may still commit.        *)
handleCommit(q, i) ==
    LET obj == Obj(q, i) IN
    IF obj.status # "OK" \/ obj.commit = "ABORTED"
    THEN /\ failed' = failed \cup {"Query.cpp:711"}
         /\ UNCHANGED <<query, stack>>
    ELSE /\ query' = [query EXCEPT ![q][i] =
                [obj EXCEPT !.commit = "COMMITTED", !.error = TRUE,
                            !.errorHandlers = <<>>, !.finalizers = <<>>]]
         /\ stack' = [stack EXCEPT ![q][i]["errq"] = obj.finalizers]
         /\ UNCHANGED failed

(* handleAbort by the executing thread, from done() or cancelQuery; the     *)
(* query may be gone by now.                                                *)
cancel(q, i) ==
    /\ At(q, i, "cancel")
    /\ Goto(q, i, IF Coordinator(q, i) THEN "ended" ELSE "sendError")
    /\ IF IsObject(q, i) THEN handleAbort(q, i, "exec")
                         ELSE UNCHANGED <<query, stack, failed>>
    /\ UNCHANGED <<catalog, stored, msgs, machine>>

(* The client completes the query, cancels it or disconnects.               *)
ErrorQueueFree(q, i) == IsObject(q, i) /\ stack[q][i]["errq"] = <<>>

completeQuery(q) ==
    LET c == coordOf[q] IN
    /\ At(q, c, "finished") /\ ErrorQueueFree(q, c)
    /\ Goto(q, c, "ended")
    /\ handleCommit(q, c)
    /\ UNCHANGED <<catalog, stored, msgs, machine>>

handleCancel(q) ==
    LET c == coordOf[q] IN
    /\ q \in plan.troubled
    /\ ErrorQueueFree(q, c)
    /\ Obj(q, c).commit = "UNKNOWN"
    /\ Goto(q, c, IF exec[q][c] = "finished" THEN "ended" ELSE exec[q][c])
    /\ handleAbort(q, c, "errq")
    /\ UNCHANGED <<catalog, stored, msgs, machine>>

--------------------------------------------------------------------------------
(* The error handlers and the finalizers. *)

(* DiskIndex::rollbackVersion: the chunks of the new version, or all the    *)
(* chunks of an array that has no version.                                  *)
rollbackVersion(q, i, lastVersion) ==
    stored' = [stored EXCEPT ![i] =
        {p \in @ : IF lastVersion = 0 THEN arrayOf[p] # arrayOf[q] ELSE p # q}]

handleErrorOnCoordinator(q, i) ==
    LET newVersion == rows[q][i]
        lastVersion == LastVersion(arrayOf[q])
    IN  IF newVersion \in {NoRow, 0, lastVersion}
        THEN UNCHANGED <<stored, failed>>
        ELSE /\ failed' = failed \cup Unless(lastVersion = newVersion - 1, "Query.cpp:1610")
             /\ rollbackVersion(q, i, lastVersion)

\* faulty: does not wait for the coordinator to decide
handleErrorWithoutWait(q, i, newVersion, hasId, forceCoordLockCheck) ==
    LET lastVersion == IF hasId THEN LastVersion(arrayOf[q]) ELSE 0 IN
    IF newVersion = 0
    THEN UNCHANGED <<stored, failed>>
    ELSE /\ failed' = failed \cup Unless(lastVersion <= newVersion, "Query.cpp:1661")
                \cup Unless(forceCoordLockCheck \/ lastVersion < newVersion, "Query.cpp:1668")
         /\ IF lastVersion < newVersion /\ hasId
            THEN rollbackVersion(q, i, lastVersion)
            ELSE UNCHANGED stored

(* The loop that polls for the lock of the coordinator is the guard.        *)
handleErrorOnWorker(q, i, newVersion, hasId, forceCoordLockCheck) ==
    LET lastVersion == IF hasId THEN LastVersion(arrayOf[q]) ELSE 0 IN
    IF newVersion = 0
    THEN UNCHANGED <<stored, failed>>
    ELSE /\ forceCoordLockCheck => rows[q][coordOf[q]] = NoRow
         /\ failed' = failed \cup Unless(lastVersion <= newVersion, "Query.cpp:1661")
                \cup Unless(forceCoordLockCheck \/ lastVersion < newVersion, "Query.cpp:1668")
         /\ IF lastVersion < newVersion /\ hasId
            THEN rollbackVersion(q, i, lastVersion)
            ELSE UNCHANGED stored

Next1(q, i, t) == stack[q][i][t] # <<>> /\ stack' = [stack EXCEPT ![q][i][t] = Pop(@)]
Runs(q, i, t, step) == Next1(q, i, t) /\ Top(stack[q][i][t]) = step

(* isForceCancelled() is status = OK.                                       *)
UpdateErrorHandler(q, i, t) ==
    /\ Runs(q, i, t, "UpdateErrorHandler")
    /\ IF Coordinator(q, i)
       THEN handleErrorOnCoordinator(q, i)
       ELSE handleErrorOnWorker(q, i, Obj(q, i).version, Obj(q, i).hasId,
                                Obj(q, i).status = "OK")
    /\ UNCHANGED <<query, exec, catalog, msgs, machine>>

BroadcastAbort(q, i, t) ==
    /\ Runs(q, i, t, "BroadcastAbort")
    /\ msgs' = msgs \cup Send(q, i, "mtAbort", Instance \ {i})
    /\ UNCHANGED <<query, exec, catalog, stored, machine, failed>>

recordPersistent(q, i, t) ==
    /\ Runs(q, i, t, "recordPersistent")
    /\ versions' = IF Obj(q, i).commit = "COMMITTED"
                   THEN [versions EXCEPT ![arrayOf[q]] =
                            @ \cup {[version |-> Obj(q, i).version, writer |-> q]}]
                   ELSE versions
    /\ UNCHANGED <<query, exec, rows, stored, msgs, machine, failed>>

(* Query::releaseLocks of the coordinator, releaseLock of a worker.         *)
releaseLocks(q, i, t) ==
    /\ Runs(q, i, t, "releaseLocks")
    /\ rows' = [rows EXCEPT ![q][i] = NoRow]
    /\ UNCHANGED <<query, exec, versions, stored, msgs, machine, failed>>

broadcastCommit(q, i, t) ==
    /\ Runs(q, i, t, "broadcastCommit")
    /\ msgs' = IF Obj(q, i).commit = "COMMITTED"
               THEN msgs \cup Send(q, i, "mtCommit", Instance \ {i}) ELSE msgs
    /\ UNCHANGED <<query, exec, catalog, stored, machine, failed>>

destroy(q, i, t) ==
    /\ Runs(q, i, t, "destroy")
    /\ query' = [query EXCEPT ![q][i] = NoQuery]
    /\ UNCHANGED <<exec, catalog, stored, msgs, machine, failed>>

--------------------------------------------------------------------------------
(* The messages and the notifications of an instance. *)

Receive(m, i, type) == m.to = i /\ m.type = type /\ node[i] = "up" /\ IsObject(m.query, i)
SetError(q, i) == query' = [query EXCEPT ![q][i].error = TRUE]

handleQueryResult(i) ==
    \E m \in msgs :
        /\ Receive(m, i, "mtQueryResult")
        /\ query' = [query EXCEPT ![m.query][i].results = @ \cup {m.from}]
        /\ msgs' = msgs \ {m}
        /\ UNCHANGED <<exec, stack, catalog, stored, machine, failed>>

(* The handlers that run on the error queue of the query.                   *)
abortMessage(i) ==
    \E m \in msgs :
        /\ \/ Receive(m, i, "mtAbort")
           \/ Receive(m, i, "QUERY_NOT_FOUND") /\ m.from = coordOf[m.query]
        /\ ErrorQueueFree(m.query, i)
        /\ handleAbort(m.query, i, "errq")
        /\ msgs' = msgs \ {m}
        /\ UNCHANGED <<exec, catalog, stored, machine>>

commitMessage(i) ==
    \E m \in msgs :
        /\ Receive(m, i, "mtCommit")
        /\ ErrorQueueFree(m.query, i)
        /\ handleCommit(m.query, i)
        /\ msgs' = msgs \ {m}
        /\ UNCHANGED <<exec, catalog, stored, machine>>

handleError(i) ==
    \E m \in msgs :
        /\ \/ Receive(m, i, "mtError")
           \/ Receive(m, i, "QUERY_NOT_FOUND") /\ m.from # coordOf[m.query]
        /\ ErrorQueueFree(m.query, i)
        /\ SetError(m.query, i)
        /\ msgs' = msgs \ {m}
        /\ UNCHANGED <<exec, stack, catalog, stored, machine, failed>>

\* faulty: only posts the error
livenessPostsError(i) ==
    \E m \in msgs :
        /\ Receive(m, i, "liveness")
        /\ SetError(m.query, i)
        /\ msgs' = msgs \ {m}
        /\ UNCHANGED <<exec, stack, catalog, stored, machine, failed>>

(* A worker aborts the query of a coordinator that died: the notification   *)
(* posts an mtAbort in its name.                                            *)
handleLivenessNotification(i) ==
    \E m \in msgs :
        /\ Receive(m, i, "liveness")
        /\ SetError(m.query, i)
        /\ msgs' = (msgs \ {m}) \cup
                    IF m.from = coordOf[m.query] THEN {[m EXCEPT !.type = "mtAbort"]} ELSE {}
        /\ UNCHANGED <<exec, stack, catalog, stored, machine, failed>>

abortQueryOnConnError(i) ==
    \E m \in msgs :
        /\ Receive(m, i, "connection")
        /\ IF m.from = coordOf[m.query]
           THEN /\ msgs' = (msgs \ {m}) \cup {[m EXCEPT !.type = "mtAbort"]}
                /\ UNCHANGED query
           ELSE msgs' = msgs \ {m} /\ SetError(m.query, i)
        /\ UNCHANGED <<exec, stack, catalog, stored, machine, failed>>

(* getQueryByID throws for a query that is gone.                            *)
dispatchMessage(i) ==
    \E m \in msgs :
        /\ m.to = i /\ node[i] = "up" /\ ~IsObject(m.query, i)
        /\ msgs' = (msgs \ {m}) \cup
            IF m.type \in {"mtPreparePhysicalPlan", "mtQueryResult", "mtCommit"} /\ m.from # i
            THEN Send(m.query, i, "QUERY_NOT_FOUND", {m.from}) ELSE {}
        /\ UNCHANGED <<query, exec, stack, catalog, stored, machine, failed>>

--------------------------------------------------------------------------------
(* Crashes and recovery, and connections that break. *)

Notify(type, i, j) ==
    {[type |-> type, query |-> q, to |-> i, from |-> j, version |-> 0] :
        q \in {p \in Queries : IsObject(p, i)}}

Crash(i) ==
    /\ plan.crashes > 0 /\ node[i] # "down"
    /\ plan' = [plan EXCEPT !.crashes = @ - 1]
    /\ node' = [node EXCEPT ![i] = "down"]
    /\ recovering' = [recovering EXCEPT ![i] = {}]
    /\ query' = [q \in Queries |-> [query[q] EXCEPT ![i] = NoQuery]]
    /\ exec' = [q \in Queries |-> [exec[q] EXCEPT ![i] = IF @ = "none" THEN @ ELSE "ended"]]
    /\ stack' = [q \in Queries |-> [stack[q] EXCEPT ![i] = [t \in Thread |-> <<>>]]]
    /\ \E lost \in SUBSET {m \in msgs : m.from = i /\ m.type \in MessageType} :
        msgs' = {m \in msgs \ lost : m.to # i}
                    \cup UNION {Notify("liveness", j, i) : j \in Instance \ {i}}
    /\ UNCHANGED <<catalog, stored, failed>>

(* doTxnRecoveryOnStartup: readArrayLocks, then the locks it has as a       *)
(* coordinator, then the others; no message is received meanwhile.          *)
Locks(i, coord) == {q \in Queries : rows[q][i] # NoRow /\ Coordinator(q, i) = coord}

readArrayLocks(i) ==
    /\ node[i] = "down"
    /\ node' = [node EXCEPT ![i] = "recoverCoord"]
    /\ recovering' = [recovering EXCEPT ![i] = Locks(i, TRUE)]
    /\ UNCHANGED <<query, exec, stack, catalog, stored, msgs, plan, failed>>

recoverCoordLock(i) ==
    /\ node[i] = "recoverCoord"
    /\ \E q \in recovering[i] :
        /\ recovering' = [recovering EXCEPT ![i] = @ \ {q}]
        /\ handleErrorOnCoordinator(q, i)
    /\ UNCHANGED <<query, exec, stack, catalog, msgs, node, plan>>

\* faulty: deletes the locks of every role
deleteAllArrayLocks(i) ==
    /\ node[i] = "recoverCoord" /\ recovering[i] = {}
    /\ rows' = [q \in Queries |-> [rows[q] EXCEPT ![i] = NoRow]]
    /\ node' = [node EXCEPT ![i] = "recoverWorker"]
    /\ recovering' = [recovering EXCEPT ![i] = Locks(i, FALSE)]
    /\ UNCHANGED <<query, exec, stack, versions, stored, msgs, plan, failed>>

deleteCoordArrayLocks(i) ==
    /\ node[i] = "recoverCoord" /\ recovering[i] = {}
    /\ rows' = [q \in Queries |-> IF Coordinator(q, i) THEN [rows[q] EXCEPT ![i] = NoRow] ELSE rows[q]]
    /\ node' = [node EXCEPT ![i] = "recoverWorker"]
    /\ recovering' = [recovering EXCEPT ![i] = Locks(i, FALSE)]
    /\ UNCHANGED <<query, exec, stack, versions, stored, msgs, plan, failed>>

recoverWorkerLock(i) ==
    /\ node[i] = "recoverWorker"
    /\ \E q \in recovering[i] :
        /\ recovering' = [recovering EXCEPT ![i] = @ \ {q}]
        /\ handleErrorOnWorker(q, i, rows[q][i], rows[q][i] > 0, TRUE)
    /\ UNCHANGED <<query, exec, stack, catalog, msgs, node, plan>>

deleteWorkerArrayLocks(i) ==
    /\ node[i] = "recoverWorker" /\ recovering[i] = {}
    /\ rows' = [q \in Queries |-> IF Coordinator(q, i) THEN rows[q] ELSE [rows[q] EXCEPT ![i] = NoRow]]
    /\ node' = [node EXCEPT ![i] = "up"]
    /\ UNCHANGED <<query, exec, stack, versions, stored, msgs, recovering, plan, failed>>

(* Any of the messages on the connection may be lost.  The sender sees the  *)
(* error; the receiver sees it with the next message, on a new connection.  *)
ConnectionLost(i, j) ==
    /\ plan.losses > 0 /\ i # j /\ node[i] = "up" /\ node[j] = "up"
    /\ plan' = [plan EXCEPT !.losses = @ - 1]
    /\ \E lost \in SUBSET {m \in msgs : m.from = i /\ m.to = j /\ m.type \in MessageType} :
        msgs' = (msgs \ lost) \cup Notify("connection", i, j) \cup Notify("connection", j, i)
    /\ UNCHANGED <<query, exec, stack, catalog, stored, node, recovering, failed>>

--------------------------------------------------------------------------------
(* The system. *)

Steps(q, i) ==
    \/ handlePreparePhysicalPlan(q, i) \/ install(q, i) \/ lockArray(q, i)
    \/ store(q, i) \/ done(q, i) \/ sendResult(q, i)
    \/ raiseError(q, i) \/ sendError(q, i) \/ cancel(q, i)

CoordinatorSteps(q) ==
    \/ acquireLocks(q) \/ lockArrays(q) \/ validateLocks(q) \/ prepareQueryAfterLocking(q)
    \/ startExecuteQuery(q) \/ preSingleExecute(q) \/ updateArrayLock(q)
    \/ broadcastPlan(q) \/ stop(q) \/ completeExecuteQuery(q)
    \/ postSingleExecute(q) \/ cancelPlanned(q) \/ completeQuery(q)

StackSteps(q, i) ==
    \E t \in Thread :
        \/ UpdateErrorHandler(q, i, t) \/ BroadcastAbort(q, i, t)
        \/ recordPersistent(q, i, t) \/ releaseLocks(q, i, t)
        \/ broadcastCommit(q, i, t) \/ destroy(q, i, t)

Receives(i) ==
    \/ handleQueryResult(i) \/ abortMessage(i) \/ commitMessage(i) \/ handleError(i)
    \/ handleLivenessNotification(i) \/ abortQueryOnConnError(i) \/ dispatchMessage(i)

Recovers(i) ==
    \/ readArrayLocks(i) \/ recoverCoordLock(i) \/ deleteCoordArrayLocks(i)
    \/ recoverWorkerLock(i) \/ deleteWorkerArrayLocks(i)

Quiet ==
    /\ \A q \in Queries : exec[q][coordOf[q]] # "none"
    /\ \A q \in Queries, i \in Instance : exec[q][i] \in {"none", "idle", "ended"} /\ ~IsObject(q, i)
    /\ msgs = {} /\ \A i \in Instance : node[i] = "up"

Next ==
    \/ \E q \in Queries :
        \/ prepareQueryBeforeLocking(q) \/ handleCancel(q) \/ CoordinatorSteps(q)
        \/ \E i \in Instance : operatorFails(q, i) \/ Steps(q, i) \/ StackSteps(q, i)
    \/ \E i \in Instance : Receives(i) \/ Recovers(i) \/ Crash(i)
    \/ \E i, j \in Instance : ConnectionLost(i, j)
    \/ Quiet /\ UNCHANGED vars

Spec == Init /\ [][Next]_vars

(* Threads and queues are scheduled, an instance that crashed is restarted, *)
(* and the client of a query that is done completes it.  Nothing obliges an *)
(* operator to throw, a client to cancel or to start a query, or an         *)
(* instance or a connection to fail.                                        *)
Fairness ==
    /\ \A q \in QueryId : WF_vars(q \in Queries /\ CoordinatorSteps(q))
    /\ \A q \in QueryId, i \in InstanceId :
          /\ WF_vars(q \in Queries /\ i \in Instance /\ Steps(q, i))
          /\ WF_vars(q \in Queries /\ i \in Instance /\ StackSteps(q, i))
    /\ \A i \in InstanceId :
          /\ WF_vars(i \in Instance /\ Receives(i))
          /\ WF_vars(i \in Instance /\ Recovers(i))

FairSpec == Spec /\ Fairness

--------------------------------------------------------------------------------
(* Properties. *)

TypeOK ==
    /\ query \in [Queries -> [Instance -> QueryObject \cup {NoQuery}]]
    /\ exec \in [Queries -> [Instance -> ExecState]]
    /\ stack \in [Queries -> [Instance -> [Thread -> Seq(Handler \cup Finalizer)]]]
    /\ rows \in [Queries -> [Instance -> Nat \cup {NoRow}]]
    /\ versions \in [Arrays -> SUBSET [version : Nat, writer : Queries]]
    /\ stored \in [Instance -> SUBSET Queries]
    /\ msgs \subseteq Message
    /\ node \in [Instance -> {"up", "down", "recoverCoord", "recoverWorker"}]
    /\ recovering \in [Instance -> SUBSET Queries]
    /\ plan \in Plan

\* The state is well formed and the assertions of the code hold: a query is never
\* aborted after its commit nor committed after its abort (Query.cpp:646, 711), the
\* lock a writer updates is there (PhysicalUpdate.cpp:259), and the versions a
\* rollback finds in the catalog are the ones it may find (Query.cpp:1610, 1661,
\* 1668).
AssertionsHold == TypeOK /\ failed = {}

\* Two queries that write an array are never in the catalog together: the lock
\* of the coordinator excludes, and so do the locks of the workers, which last
\* until each of them has committed or rolled back.
WritersExclude ==
    \A p, q \in Queries : p # q /\ arrayOf[p] = arrayOf[q] =>
        \A i, j \in Instance : rows[p][i] = NoRow \/ rows[q][j] = NoRow

\* A version in the catalog has its chunks on every instance, whatever crashed,
\* timed out or was rolled back before or since.
CommittedIsStored ==
    \A q \in Queries : Committed(q) => \A i \in Instance : q \in stored[i]

\* The chunks of a query that has not committed are under a lock of the
\* instance that has them: an abort removes them before it unlocks, and after a
\* crash the lock tells the recovery of the instance to remove them.
UncommittedIsLocked ==
    \A q \in Queries, i \in Instance :
        q \in stored[i] /\ ~Committed(q) => rows[q][i] # NoRow

\* The versions of an array are 1, 2, 3, ... without a gap, one for each query
\* that committed.
VersionsAreConsecutive ==
    \A a \in Arrays :
        /\ {v.version : v \in versions[a]} = 1..Cardinality(versions[a])
        /\ \A v, w \in versions[a] : v.writer = w.writer => v = w

\* A lock in the catalog has somebody who will delete it: a finalizer of the
\* query on that instance, waiting or running, the thread that is taking the
\* locks, or the recovery of the instance.
RowsAreOwned ==
    \A q \in Queries, i \in Instance : rows[q][i] # NoRow =>
        \/ node[i] # "up"
        \/ IsObject(q, i) /\ "releaseLocks" \in Range(Obj(q, i).finalizers)
        \/ \E t \in Thread : "releaseLocks" \in Range(stack[q][i][t])
        \/ exec[q][i] = "locked"

\* Every query ends on every instance and leaves no lock behind, and every
\* instance that crashed comes back, although a worker that aborts and an
\* instance that recovers wait for the coordinator, which may be down or
\* recovering itself.
EverythingEnds ==
    <>[](/\ \A q \in Queries, i \in Instance : ~IsObject(q, i) /\ rows[q][i] = NoRow
         /\ \A i \in Instance : node[i] = "up")

================================================================================
