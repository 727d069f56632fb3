------------------------- MODULE QueryTxnWorkerProofs --------------------------
(***************************************************************************)
(* What an executing thread does on its own keeps the invariant of the     *)
(* commit protocol: the steps of a worker, storing chunks, reporting and   *)
(* failing.  So does the recovery of an instance that starts again.        *)
(***************************************************************************)
EXTENDS QueryTxnProofs

(* A worker goes on, here without its first and its last steps. *)
WorkerMoves == {<<"lockArray", "store", "START">>, <<"store", "done", "START">>,
    <<"done", "sendResult", "OK">>}

LEMMA WorkerMoveLocal ==
    ASSUME NEW q, NEW i, i # coordOf[q], NEW o, NEW n, NEW k, NEW nd, NEW pc, NEW pd,
           Local(q, i, pc, o, k, nd), SameEntries(o, n), pc = "done" => ~o.error,
           o.error => n.error, n.hasId, <<pc, pd, n.status>> \in WorkerMoves
    PROVE  Local(q, i, pd, n, k, nd)
<1>1. WorkerOK(pd, n, k)
  BY SameEntriesFacts, Zenon DEF Local, WorkerOK, WorkerMoves
<1>2. ObjectOK(pd, n, k, nd)
  BY SameEntriesFacts, Zenon DEF Local, ObjectOK, WorkerOK, SwappedOnce, WorkerMoves, SameEntries
<1> QED
  BY <1>1, <1>2, SameEntriesFacts, Zenon DEF Local

(* The plan comes to a worker. *)
LEMMA PlanLocal ==
    ASSUME NEW q, NEW i, i # coordOf[q], NEW o, NEW n, NEW k, NEW nd,
           Local(q, i, "idle", o, k, nd), SameEntries(o, n), n.error = o.error,
           n.hasId = o.hasId, n.status = IF o.error THEN o.status ELSE "START"
    PROVE  Local(q, i, "install", n, k, nd)
<1>1. ~o.error => Armed(o)
  BY SameEntriesFacts, Zenon DEF Local, ObjectOK, SwappedOnce, SameEntries
<1>2. WorkerOK("install", n, k)
  BY <1>1, SameEntriesFacts, Zenon DEF Local, WorkerOK, SameEntries
<1>3. ObjectOK("install", n, k, nd)
  BY <1>1, SameEntriesFacts, Zenon DEF Local, ObjectOK, WorkerOK, SwappedOnce, SameEntries
<1> QED
  BY <1>2, <1>3, SameEntriesFacts, Zenon DEF Local

(* A thread fails. *)
LEMMA UnwindLocal ==
    ASSUME NEW q, NEW i, NEW o \in QueryObject, NEW k, NEW nd, NEW pc, NEW pd,
           Local(q, i, pc, o, k, nd), k["exec"] = <<>>, pc \in MayThrow \cup Checks,
           pd \in {"cancel", "sendError"}, i = coordOf[q] => pd = "cancel"
    PROVE  Local(q, i, pd, [o EXCEPT !.error = TRUE, !.status = "ERROR"], k, nd)
<1> DEFINE n == [o EXCEPT !.error = TRUE, !.status = "ERROR"]
<1>1. /\ SameEntries(o, n) /\ n.error /\ n.status = "ERROR" /\ n.hasId = o.hasId
      /\ n.commit = o.commit
  BY Zenon DEF SameEntries, QueryObject
<1>2. pc \notin {"none", "idle", "finished", "sendResult", "ended"}
  BY Zenon DEF MayThrow, Checks
<1>3. o # NoQuery /\ o.status # "OK" /\ o.commit # "COMMITTED"
  BY <1>1, <1>2, SameEntriesFacts, Zenon DEF Local, ObjectOK
<1>4. Ks(k, "exec") = {}
  BY Stacks, Zenon DEF Ks
<1> HIDE DEF n
<1>5. i # coordOf[q] => WorkerOK(pd, n, k)
  BY <1>1, <1>3, SameEntriesFacts, Zenon DEF Local, WorkerOK
<1>6. i = coordOf[q] => CoordinatorOK(pd, n)
  BY <1>1, <1>3, SameEntriesFacts, Zenon DEF Local, CoordinatorOK, Started, BeforeHandler, AfterHandler
<1>7. ObjectOK(pd, n, k, nd)
  BY <1>1, <1>2, <1>3, <1>4, SameEntriesFacts, Zenon DEF Local, ObjectOK
<1> QED
  BY <1>1, <1>5, <1>6, <1>7, SameEntriesFacts, Zenon DEF Local, n

LEMMA UnwindGoneLocal ==
    ASSUME NEW q, NEW i, NEW k, NEW nd, NEW pc,
           Local(q, i, pc, NoQuery, k, nd), k["exec"] = <<>>, pc \in MayThrow \cup Checks
    PROVE  Local(q, i, "cancel", NoQuery, k, nd)
<1>1. pc \notin {"none", "idle", "finished", "sendResult", "ended"}
  BY Zenon DEF MayThrow, Checks
<1>2. WorkerOK(pc, NoQuery, k) => WorkerOK("cancel", NoQuery, k)
  BY Zenon DEF WorkerOK
<1>3. CoordinatorOK("cancel", NoQuery)
  BY Zenon DEF CoordinatorOK, Armed, Started
<1>4. ObjectOK("cancel", NoQuery, k, nd)
  BY <1>1, Stacks, Zenon DEF Local, ObjectOK, Ks
<1> QED
  BY <1>2, <1>3, <1>4, Zenon DEF Local

LEMMA HandlePlanKeeps ==
    ASSUME CommitInv, NEW q \in Queries, NEW i \in Instance, handlePreparePhysicalPlan(q, i)
    PROVE  ThreadMove
<1> DEFINE o == query[q][i]
           k == stack[q][i]
<1>1. PICK m \in msgs :
         /\ m.type = "mtPreparePhysicalPlan" /\ m.query = q /\ m.to = i
         /\ node[i] = "up" /\ ~Coordinator(q, i) /\ IsObject(q, i)
         /\ msgs' = msgs \ {m}
         /\ query' = [query EXCEPT ![q][i].version = m.version,
                         ![q][i].status = IF Obj(q, i).error THEN @ ELSE "START"]
         /\ Goto(q, i, "install")
         /\ UNCHANGED <<stack, catalog, stored, machine, failed>>
  BY Zenon DEF handlePreparePhysicalPlan
<1>2. i # coordOf[q] /\ IsPlan(m, q)
  BY <1>1, Zenon DEF Coordinator, IsPlan
<1>3. /\ o # NoQuery /\ o \in QueryObject /\ TypeOK /\ Obj(q, i) = o /\ StackOK(k)
      /\ Local(q, i, exec[q][i], o, k, node[i]) /\ Data(q, i, exec[q][i], o, k, View(q, i))
  BY <1>1, Before, Zenon
<1>4. exec[q][i] = "idle"
  BY <1>1, <1>2, <1>3, Zenon DEF CommitInv, MessagesOK, MessageOK
<1>5. m.version \in Nat
  BY <1>1, <1>3, Zenon DEF TypeOK, Message
<1> DEFINE n == [o EXCEPT !.version = m.version, !.status = IF o.error THEN @ ELSE "START"]
<1>6. Calm(q, i, "install", n, k)
  <2>1. query' = [query EXCEPT ![q][i] = n]
    BY <1>1, <1>3, Zenon DEF TypeOK
  <2>2. stack = [stack EXCEPT ![q][i] = k]
    BY <1>3, StaysFacts, Zenon
  <2> HIDE DEF n, k
  <2> QED
    BY <1>1, <2>1, <2>2, Zenon DEF Calm, Moves, Goto
<1>7. /\ n \in QueryObject /\ n.errorHandlers = o.errorHandlers /\ n.finalizers = o.finalizers
      /\ n.commit = o.commit /\ n.status = IF o.error THEN o.status ELSE "START"
  BY <1>3, <1>5, Zenon DEF QueryObject
<1>8. n.hasId = o.hasId /\ n.error = o.error
  BY <1>3, Zenon DEF QueryObject
<1> HIDE DEF n
<1>9. SameEntries(o, n)
  BY <1>3, <1>7, Zenon DEF SameEntries
<1>10. Local(q, i, "install", n, k, node[i])
  BY <1>2, <1>3, <1>4, <1>7, <1>8, <1>9, PlanLocal, Zenon
<1>11. ~o.hasId /\ o.status = "INIT" /\ n.status # "OK"
  BY <1>2, <1>3, <1>4, <1>7, Zenon DEF Local, WorkerOK
<1>12. /\ n # NoQuery /\ Hs(n) = Hs(o) /\ Fs(n) = Fs(o) /\ (Armed(n) <=> Armed(o))
       /\ (Recording(n, k) <=> Recording(o, k))
  BY <1>7, <1>9, SameEntriesFacts, Zenon DEF Recording
<1>13. RowOK(q, i, n, k, View(q, i))
  BY <1>3, <1>12, Zenon DEF Data, RowOK
<1>14. ChunksOK(q, i, "install", n, k, View(q, i))
  BY <1>3, <1>8, <1>11, <1>12, Zenon DEF Data, ChunksOK
<1>15. ReportsOK(q, i, "install", n, View(q, i))
  BY <1>2, <1>3, <1>4, <1>11, Zenon DEF Data, ReportsOK, HasDone
<1>16. Data(q, i, "install", n, k, View(q, i))
  BY <1>2, <1>3, <1>13, <1>14, <1>15, Zenon DEF Data
<1>17. \A x \in msgs' : ~(IsPlan(x, q) /\ x.to = i)
  BY <1>1, <1>2, Zenon DEF CommitInv, MessagesOK, PlanOnce
<1>18. MovesOn(q, i, "install") /\ "install" \in ExecState
  BY <1>2, <1>4, Zenon DEF MovesOn, ExecState
<1>19. Posts /\ \A x \in msgs' \ msgs : x.type # "mtQueryResult"
  BY <1>1, Zenon DEF Posts
<1> QED
  BY <1>2, <1>3, <1>6, <1>7, <1>10, <1>16, <1>17, <1>18, <1>19, CalmStep, Zenon DEF CalmMove

LEMMA InstallKeeps ==
    ASSUME CommitInv, NEW q \in Queries, NEW i \in Instance, install(q, i)
    PROVE  ThreadMove
<1> DEFINE o == query[q][i]
           k == stack[q][i]
           n == [o EXCEPT !.errorHandlers = Append(@, "UpdateErrorHandler"),
                          !.finalizers = Append(@, "releaseLocks")]
<1>1. /\ o # NoQuery /\ o \in QueryObject /\ ~o.error /\ exec[q][i] = "install" /\ TypeOK
      /\ Local(q, i, "install", o, k, node[i]) /\ Data(q, i, "install", o, k, View(q, i))
      /\ k["exec"] = <<>>
  BY Before, Zenon DEF install, At, NoError
<1>2. i # coordOf[q]
  BY <1>1, Zenon DEF Local, CoordinatorOK, Started
<1>3. Calm(q, i, "lockArray", n, k) /\ msgs' \subseteq msgs
  <2>1. query' = [query EXCEPT ![q][i] = n]
    BY <1>1, Zenon DEF install, TypeOK
  <2> HIDE DEF n
  <2> QED
    BY <1>1, <2>1, StaysFacts, Zenon DEF install, Calm, Moves, Goto
<1>4. "lockArray" \in ExecState
  BY Zenon DEF ExecState
<1>5. Armed(o) /\ o.commit = "UNKNOWN" /\ node[i] = "up"
  BY <1>1, NoErrorArmed, Zenon
<1>6. /\ Hs(o) = {} /\ Fs(o) = {"destroy"} /\ o.status = "START" /\ ~o.hasId
      /\ Descending(o.finalizers) /\ Descending(o.errorHandlers) /\ o.finalizers \in Seq(Finalizer)
      /\ o.errorHandlers \in Seq(Handler)
  BY <1>1, <1>2, <1>5, Zenon DEF Local, WorkerOK, Ordered, QueryObject
<1>7. /\ Append(o.errorHandlers, "UpdateErrorHandler") \in Seq(Handler)
      /\ Descending(Append(o.errorHandlers, "UpdateErrorHandler"))
      /\ Range(Append(o.errorHandlers, "UpdateErrorHandler")) = Hs(o) \cup {"UpdateErrorHandler"}
  <2>1. Handler \in SUBSET Entry /\ "UpdateErrorHandler" \in Handler
    BY Zenon DEF Entry, Handler
  <2>2. \A y \in Range(o.errorHandlers) : Rank["UpdateErrorHandler"] < Rank[y]
    BY <1>6, Zenon DEF Hs
  <2> QED
    BY <1>6, <2>1, <2>2, PushKeeps DEF Hs
<1>8. /\ Append(o.finalizers, "releaseLocks") \in Seq(Finalizer)
      /\ Descending(Append(o.finalizers, "releaseLocks"))
      /\ Range(Append(o.finalizers, "releaseLocks")) = Fs(o) \cup {"releaseLocks"}
  <2>1. Finalizer \in SUBSET Entry /\ "releaseLocks" \in Finalizer
    BY Zenon DEF Entry, Finalizer
  <2>2. \A y \in Range(o.finalizers) : Rank["releaseLocks"] < Rank[y]
    BY <1>6, Ranks DEF Fs, Rank
  <2> QED
    BY <1>6, <2>1, <2>2, PushKeeps DEF Fs
<1>9. /\ n \in QueryObject /\ n.errorHandlers = Append(o.errorHandlers, "UpdateErrorHandler")
      /\ n.finalizers = Append(o.finalizers, "releaseLocks") /\ n.commit = o.commit /\ n.status = o.status
      /\ n.version = o.version /\ n.hasId = o.hasId /\ n.results = o.results /\ n.error = o.error
  <2>1. n \in QueryObject
    BY <1>1, <1>7, <1>8, Zenon DEF QueryObject
  <2> QED
    BY <1>1, <2>1, Zenon DEF QueryObject
<1> HIDE DEF n
<1>10. /\ Hs(n) = {"UpdateErrorHandler"} /\ Fs(n) = {"destroy", "releaseLocks"}
       /\ n # NoQuery /\ Armed(n)
  BY <1>6, <1>7, <1>8, <1>9 DEF Hs, Fs, Armed, QueryObject, NoQuery
<1>11. Local(q, i, "lockArray", n, k, node[i])
  BY <1>1, <1>2, <1>5, <1>6, <1>7, <1>8, <1>9, <1>10, PushLocal, Zenon
<1>12. ReportsOK(q, i, "lockArray", n, View(q, i))
  BY <1>1, <1>2, <1>6, <1>9, Zenon DEF Data, ReportsOK, HasDone
<1>13. Data(q, i, "lockArray", n, k, View(q, i))
  BY <1>1, <1>2, <1>5, <1>6, <1>9, <1>10, <1>12, PushData, Zenon
<1> QED
  BY <1>1, <1>2, <1>3, <1>4, <1>9, <1>11, <1>13, WorkerStep, Zenon

LEMMA DoneWorkerKeeps ==
    ASSUME CommitInv, NEW q \in Queries, NEW i \in Instance, i # coordOf[q], done(q, i)
    PROVE  ThreadMove
<1> DEFINE o == query[q][i]
           k == stack[q][i]
           n == [o EXCEPT !.status = "OK"]
<1>1. /\ o # NoQuery /\ o \in QueryObject /\ ~o.error /\ exec[q][i] = "done" /\ TypeOK
      /\ Local(q, i, "done", o, k, node[i]) /\ Data(q, i, "done", o, k, View(q, i))
  BY Before, Zenon DEF done, At, NoError
<1>2. Calm(q, i, "sendResult", n, k) /\ msgs' \subseteq msgs
  BY <1>1, StaysFacts, Zenon DEF done, Calm, Moves, Goto, Coordinator
<1>3. "sendResult" \in ExecState
  BY Zenon DEF ExecState
<1>4. n \in QueryObject /\ SameButStatus(o, n) /\ SameEntries(o, n) /\ n.status = "OK"
  BY <1>1, Zenon DEF SameEntries, SameButStatus, QueryObject
<1>5. n.hasId = o.hasId /\ n.error = o.error
  BY <1>1, Zenon DEF QueryObject
<1> HIDE DEF n
<1>6. o.hasId
  BY <1>1, Zenon DEF Local, WorkerOK
<1>7. Local(q, i, "sendResult", n, k, node[i])
  BY <1>1, <1>4, <1>5, <1>6, WorkerMoveLocal, Zenon DEF WorkerMoves
<1>8. q \in View(q, i).stored
  BY <1>1, Zenon DEF Data, ChunksOK
<1>9. ReportsOK(q, i, "sendResult", n, View(q, i))
  BY <1>1, <1>8, Zenon DEF Data, ReportsOK
<1>10. Data(q, i, "sendResult", n, k, View(q, i))
  BY <1>1, <1>4, <1>9, StatusData, Zenon
<1> QED
  BY <1>1, <1>2, <1>3, <1>4, <1>7, <1>10, WorkerStep, Zenon

LEMMA LockArrayCommit ==
    ASSUME CommitInv, NEW q \in Queries, NEW i \in Instance, lockArray(q, i)
    PROVE  ThreadMove
<1> DEFINE o == query[q][i]
           k == stack[q][i]
           c == coordOf[q]
           row == rows[q][c]
           n == [o EXCEPT !.version = row, !.hasId = row > 0]
           w == RowView(q, i, row)
<1>1. /\ exec[q][i] = "lockArray" /\ TypeOK /\ StackOK(k) /\ c \in Instance
      /\ Local(q, i, "lockArray", o, k, node[i]) /\ Data(q, i, "lockArray", o, k, View(q, i))
  BY Before, Zenon DEF lockArray, At, CommitInv
<1>2. i # c
  BY <1>1, Zenon DEF Local, CoordinatorOK, Started
<1>3. /\ Armed(o) /\ o # NoQuery /\ o.status = "START" /\ Hs(o) = {"UpdateErrorHandler"}
      /\ Fs(o) = {"destroy", "releaseLocks"} /\ node[i] = "up"
  BY <1>1, <1>2, Zenon DEF Local, WorkerOK, Armed, ObjectOK
<1>4. o \in QueryObject
  BY <1>3, Before, Zenon
<1>5. row \in Nat /\ row > 0
  <2>1. row # NoRow /\ row \in Nat \cup {NoRow}
    BY <1>1, Zenon DEF lockArray, TypeOK
  <2>2. row # 0
    BY <1>1, <1>2, Zenon DEF CommitInv, MessagesOK, PlanOnce, Workers, Unstarted
  <2> QED
    BY <2>1, <2>2
<1>6. /\ rows' = [rows EXCEPT ![q][i] = row] /\ UNCHANGED <<versions, stored, msgs, machine, failed>>
      /\ stack' = stack
  BY Zenon DEF lockArray
<1>7. Moves(q, i, "store", n, k)
  <2>1. query' = [query EXCEPT ![q][i] = n]
    BY <1>1, <1>4, Zenon DEF lockArray, TypeOK
  <2> HIDE DEF n
  <2> QED
    BY <1>1, <1>6, <2>1, StaysFacts, Zenon DEF lockArray, Moves, Goto
<1>8. /\ n \in QueryObject /\ n.errorHandlers = o.errorHandlers /\ n.finalizers = o.finalizers
      /\ n.commit = o.commit /\ n.status = o.status /\ n.version = row
  <2> HIDE DEF row
  <2> QED
    BY <1>4, <1>5, Zenon DEF QueryObject
<1>9. n.hasId /\ n.error = o.error
  <2> HIDE DEF row
  <2> QED
    BY <1>4, <1>5, Zenon DEF QueryObject
<1> HIDE DEF n
<1>10. SameEntries(o, n)
  BY <1>4, <1>8, Zenon DEF SameEntries
<1>11. Local(q, i, "store", n, k, node[i])
  BY <1>1, <1>2, <1>3, <1>8, <1>9, <1>10, WorkerMoveLocal, Zenon DEF WorkerMoves
<1>12. /\ n # NoQuery /\ Hs(n) = Hs(o) /\ Fs(n) = Fs(o) /\ Armed(n)
       /\ (Recording(n, k) <=> Recording(o, k))
  BY <1>3, <1>8, <1>10, SameEntriesFacts, Zenon DEF Recording
<1>13. ~Committed(q) /\ i \notin Reporters(q) /\ row = LastVersion(arrayOf[q]) + 1
  <2>1. ~Committed(q) /\ i \notin Reporters(q)
    BY <1>1, <1>2, ViewFacts, Zenon DEF Data, ReportsOK, IsView
  <2>2. RowOK(q, c, query[q][c], stack[q][c], View(q, c))
    BY <1>1, Before, Zenon DEF Data
  <2> QED
    BY <1>5, <2>1, <2>2, ViewFacts, Zenon DEF RowOK, IsView
<1>14. RowOK(q, i, n, k, w)
  BY <1>2, <1>3, <1>5, <1>12, <1>13, RowViewFacts DEF RowOK, IsRowView
<1>15. ChunksOK(q, i, "store", n, k, w)
  BY <1>1, <1>2, <1>3, <1>5, <1>8, <1>9, <1>12, <1>13, RowViewFacts DEF ChunksOK, NoRow, IsRowView
<1>16. RecoveryOK(q, i, w) /\ StoredOK(q, w)
  BY <1>3, <1>5, <1>13, RowViewFacts DEF RecoveryOK, StoredOK, NoRow, IsRowView
<1>17. ReportsOK(q, i, "store", n, w)
  BY <1>3, <1>8, <1>13, RowViewFacts DEF ReportsOK, HasDone, IsRowView
<1>18. Data(q, i, "store", n, k, w)
  BY <1>2, <1>14, <1>15, <1>16, <1>17, Zenon DEF Data
<1>19. "store" \in ExecState /\ MovesOn(q, i, "store")
  BY <1>1, <1>2, Zenon DEF ExecState, MovesOn
<1> QED
  BY <1>1, <1>2, <1>3, <1>5, <1>6, <1>7, <1>8, <1>11, <1>18, <1>19, RowStep, Zenon DEF RowMove

LEMMA StoreKeeps ==
    ASSUME CommitInv, NEW q \in Queries, NEW i \in Instance, store(q, i)
    PROVE  ThreadMove
<1> DEFINE o == query[q][i]
           k == stack[q][i]
           S == stored[i] \cup {q}
           v == ChunkView(q, i, S, recovering[i])
           pd == IF i = coordOf[q] THEN "semResults" ELSE "done"
<1>1. /\ exec[q][i] = "store" /\ TypeOK /\ StackOK(k)
      /\ Local(q, i, "store", o, k, node[i]) /\ Data(q, i, "store", o, k, View(q, i))
  BY Before, Zenon DEF store, At
<1>2. Armed(o) /\ o # NoQuery /\ o.status = "START" /\ node[i] = "up" /\ "UpdateErrorHandler" \in Hs(o)
  BY <1>1, Zenon DEF Local, CoordinatorOK, WorkerOK, Started, AfterHandler, Handler, ObjectOK, Armed
<1>3. o \in QueryObject /\ SameEntries(o, o) /\ SameButStatus(o, o) /\ o.commit # "COMMITTED"
  BY <1>1, <1>2, Before, Zenon DEF SameEntries, SameButStatus, Local, ObjectOK
<1>4. /\ Moves(q, i, pd, o, k) /\ stored' = [stored EXCEPT ![i] = S]
      /\ UNCHANGED <<catalog, msgs, machine, failed>>
  BY <1>1, StaysFacts, Zenon DEF store, Moves, Goto, Coordinator, Obj
<1>5. ~Committed(q) /\ (i # coordOf[q] => i \notin Reporters(q))
  BY <1>1, ViewFacts DEF Data, CoordinatorRow, ReportsOK, IsView
<1>6. Local(q, i, pd, o, k, node[i])
  <2>1. CASE i = coordOf[q]
    BY <1>1, <1>3, <2>1, CoordinatorMoveLocal, Zenon DEF CoordinatorMoves
  <2>2. CASE i # coordOf[q]
    <3>1. o.hasId
      BY <1>1, <2>2, Zenon DEF Local, WorkerOK
    <3> QED
      BY <1>1, <1>2, <1>3, <2>2, <3>1, WorkerMoveLocal, Zenon DEF WorkerMoves
  <2> QED
    BY <2>1, <2>2, Zenon
<1>7. rows[q][i] # NoRow /\ rows[q][i] # 0
  <2>1. CASE i = coordOf[q]
    <3>1. View(q, i).row = o.version /\ o.version > 0 /\ View(q, i).row = rows[q][i]
      BY <1>1, <1>2, <2>1, ViewFacts, Zenon DEF Data, CoordinatorRow, IsView
    <3>2. o.version \in Nat
      BY <1>3, Zenon DEF QueryObject
    <3> QED
      BY <3>1, <3>2 DEF NoRow
  <2>2. CASE i # coordOf[q]
    BY <1>1, <1>2, <2>2, ViewFacts, Zenon DEF Local, WorkerOK, Data, ChunksOK, RowOK, IsView
  <2> QED
    BY <2>1, <2>2, Zenon
<1>8. /\ LastOf(v) = LastOf(View(q, i)) /\ ~Wrote(q, v) /\ ~Wrote(q, View(q, i))
      /\ v.row = View(q, i).row /\ v.row # NoRow /\ v.row # 0 /\ v.coordRow = View(q, i).coordRow
      /\ q \in v.stored /\ v.node = "up" /\ View(q, i).node = "up" /\ v.workers = View(q, i).workers
      /\ v.reporters = View(q, i).reporters /\ (i # coordOf[q] => i \notin v.reporters)
  BY <1>2, <1>5, <1>7, ViewFacts, ChunkViewFacts DEF IsView, IsChunkView
<1>9. S \in SUBSET Queries /\ \A p \in Queries \ {q} : p \in S <=> p \in stored[i]
  BY <1>1, Zenon DEF TypeOK
<1> HIDE DEF v, S
<1>10. Data(q, i, pd, o, k, v)
  <2>1. RowOK(q, i, o, k, v) /\ RecoveryOK(q, i, v) /\ StoredOK(q, v)
    BY <1>1, <1>8, Zenon DEF Data, RowOK, RecoveryOK, StoredOK
  <2>2. ChunksOK(q, i, pd, o, k, v)
    BY <1>1, <1>2, <1>8, Zenon DEF Data, ChunksOK, Local, WorkerOK
  <2>3. i = coordOf[q] => CoordinatorRow(q, pd, o, k, v)
    BY <1>1, <1>2, <1>3, <1>8, Zenon DEF Data, CoordinatorRow, Recording, BeforePlan
  <2>4. i # coordOf[q] => ReportsOK(q, i, pd, o, v)
    BY <1>1, <1>2, <1>8, Zenon DEF Data, ReportsOK, HasDone
  <2> QED
    BY <2>1, <2>2, <2>3, <2>4, Zenon DEF Data
<1>11. pd \in ExecState /\ MovesOn(q, i, pd) /\ exec[q][i] # "idle"
  BY <1>1, Zenon DEF ExecState, MovesOn, BeforePlan
<1>12. Data(q, i, pd, o, k, ChunkView(q, i, S, recovering[i]))
  BY <1>10, Zenon DEF v
<1> HIDE DEF pd
<1> QED
  BY <1>1, <1>4, <1>6, <1>9, <1>11, <1>12, ChunkStep, Zenon DEF ChunkMove

--------------------------------------------------------------------------------
(* A worker reports. *)

LEMMA SendErrorKeeps ==
    ASSUME CommitInv, NEW q \in Queries, NEW i \in Instance, sendError(q, i)
    PROVE  ThreadMove
<1> DEFINE o == query[q][i]
           k == stack[q][i]
<1>1. exec[q][i] = "sendError" /\ k["exec"] = <<>> /\ Goto(q, i, "ended") /\ coordOf[q] \in Instance
  BY Zenon DEF sendError, At, CommitInv, LocksInv
<1>2. /\ TypeOK /\ StackOK(k) /\ o \in QueryObject \cup {NoQuery}
      /\ Local(q, i, "sendError", o, k, node[i]) /\ Data(q, i, "sendError", o, k, View(q, i))
  BY <1>1, Before, Zenon
<1>3. i # coordOf[q]
  BY <1>2, Zenon DEF Local, CoordinatorOK, Started
<1>4. Calm(q, i, "ended", o, k)
  BY <1>1, <1>2, StaysFacts, Zenon DEF sendError, Calm, Moves, Goto, Obj
<1>5. Local(q, i, "ended", o, k, node[i])
  BY <1>1, <1>2, <1>3, EndLocal, Zenon DEF EndMoves
<1>6. Data(q, i, "ended", o, k, View(q, i))
  <2>1. o # NoQuery => o.status = "ERROR"
    BY <1>2, <1>3, Zenon DEF Local, WorkerOK
  <2>2. ReportsOK(q, i, "ended", o, View(q, i))
    BY <1>2, <1>3, <2>1, Zenon DEF Data, ReportsOK, HasDone
  <2> QED
    BY <1>2, <1>3, <2>2, Zenon DEF Data, ChunksOK
<1>7. "ended" \in ExecState /\ MovesOn(q, i, "ended") /\ exec[q][i] # "idle"
  BY <1>1, <1>3, Zenon DEF ExecState, MovesOn
<1>8. \A m \in msgs' \ msgs : m \in Message /\ m.type = "mtError"
  BY <1>1 DEF sendError, Send, Message, MessageType
<1>9. Posts /\ \A m \in msgs' \ msgs : m.type # "mtQueryResult"
  BY <1>8, Zenon DEF Posts, MessageOK, IsPlan, NotificationType
<1> QED
  BY <1>2, <1>3, <1>4, <1>5, <1>6, <1>7, <1>9, CalmStep, Zenon DEF CalmMove

--------------------------------------------------------------------------------
(* The executing thread fails. *)

LEMMA UnwindData ==
    ASSUME NEW q, NEW i, NEW pc, NEW pd, NEW o, NEW n, NEW k, NEW nd, NEW v,
           Local(q, i, pc, o, k, nd), Data(q, i, pc, o, k, v), pc \in MayThrow \cup Checks,
           pd \in {"cancel", "sendError"},
           \/ o = NoQuery /\ n = NoQuery
           \/ SameButStatus(o, n) /\ n.status = "ERROR"
    PROVE  /\ Data(q, i, pd, n, k, v) /\ ~Wrote(q, v)
           /\ i = coordOf[q] /\ v.row = 0 => pc \in BeforePlan
           /\ pc \in {"lockArrays", "locked"} => i = coordOf[q] /\ q \notin v.stored
<1>1. pc \notin {"ended", "finished", "sendResult", "cancel", "sendError", "none", "idle"}
  BY Zenon DEF MayThrow, Checks
<1>2. ~Wrote(q, v) /\ (i # coordOf[q] => i \notin v.reporters)
  BY <1>1, Zenon DEF Data, CoordinatorRow, ReportsOK
<1>3. o # NoQuery => o.commit # "COMMITTED"
  BY <1>1, Zenon DEF Local, ObjectOK
<1>4. i = coordOf[q] => CoordinatorRow(q, pd, n, k, v)
  <2>1. n # NoQuery => n.commit # "COMMITTED"
    BY <1>3, SameEntriesFacts, Zenon DEF SameButStatus, SameEntries
  <2> QED
    BY <1>2, <2>1, Zenon DEF CoordinatorRow, BeforePlan, Recording
<1>5. n # NoQuery => n.status # "OK"
  OBVIOUS
<1>6. i # coordOf[q] => ReportsOK(q, i, pd, n, v)
  BY <1>2, <1>5, Zenon DEF ReportsOK, HasDone
<1>7. Data(q, i, pd, n, k, v)
  <2>1. CASE o = NoQuery /\ n = NoQuery
    BY <1>4, <1>6, <2>1, Zenon DEF Data, ChunksOK
  <2>2. CASE SameButStatus(o, n)
    BY <1>4, <1>6, <2>2, StatusData, Zenon
  <2> QED
    BY <2>1, <2>2, Zenon
<1>8. i = coordOf[q] /\ v.row = 0 => pc \in BeforePlan
  <2>1. ASSUME i = coordOf[q], pc \notin BeforePlan
        PROVE  v.row # 0
    <3>1. pc \in {"stop", "store", "semResults", "done"}
      BY <2>1, Zenon DEF MayThrow, Checks, BeforePlan, Local, CoordinatorOK, Started
    <3>2. Armed(o)
      BY <2>1, <3>1, Zenon DEF Local, CoordinatorOK, Started
    <3> QED
      BY <2>1, <3>1, <3>2 DEF Data, CoordinatorRow
  <2> QED
    BY <2>1, Zenon
<1>9. pc \in {"lockArrays", "locked"} => i = coordOf[q] /\ q \notin v.stored
  <2>1. ASSUME pc \in {"lockArrays", "locked"}
        PROVE  i = coordOf[q] /\ q \notin v.stored
    <3>1. i = coordOf[q]
      BY <2>1, Zenon DEF Local, WorkerOK
    <3>2. Armed(o)
      BY <2>1, <3>1, Zenon DEF Local, CoordinatorOK, Started
    <3>3. v.row = NoRow \/ v.row = 0
      BY <2>1, <3>1, <3>2, Zenon DEF Data, CoordinatorRow
    <3> QED
      BY <1>2, <3>1, <3>3, Zenon DEF Data, RowOK, StoredOK
  <2> QED
    BY <2>1, Zenon
<1> QED
  BY <1>2, <1>7, <1>8, <1>9, Zenon

LEMMA UnwindCommit ==
    ASSUME CommitInv, NEW q \in Queries, NEW i \in Instance, unwind(q, i),
           exec[q][i] \in MayThrow \cup Checks, stack[q][i]["exec"] = <<>>
    PROVE  ThreadMove
<1> DEFINE o == query[q][i]
           k == stack[q][i]
           pc == exec[q][i]
           n == IF o = NoQuery THEN NoQuery ELSE [o EXCEPT !.error = TRUE, !.status = "ERROR"]
           pd == IF Coordinator(q, i) \/ ~IsObject(q, i) \/ Obj(q, i).commit # "UNKNOWN"
                 THEN "cancel" ELSE "sendError"
           r == IF pc \in {"lockArrays", "locked"} THEN NoRow ELSE rows[q][i]
           w == RowView(q, i, r)
<1>1. /\ TypeOK /\ StackOK(k) /\ coordOf[q] \in Instance
      /\ Local(q, i, pc, o, k, node[i]) /\ Data(q, i, pc, o, k, View(q, i))
      /\ o # NoQuery => o \in QueryObject
  BY Before, Zenon DEF CommitInv
<1>2. /\ rows' = [rows EXCEPT ![q][i] = r] /\ UNCHANGED <<versions, stored, msgs, machine, failed>>
      /\ stack' = stack /\ exec' = [exec EXCEPT ![q][i] = pd]
  <2>1. rows = [rows EXCEPT ![q][i] = rows[q][i]]
    BY <1>1, Zenon DEF TypeOK
  <2> QED
    BY <2>1, Zenon DEF unwind, Goto
<1>3. Moves(q, i, pd, n, k)
  <2>1. query' = [query EXCEPT ![q][i] = n]
    <3>1. CASE o = NoQuery
      BY <1>1, <3>1, Zenon DEF unwind, IsObject, TypeOK
    <3>2. CASE o # NoQuery
      BY <1>1, <3>2, Zenon DEF unwind, IsObject, TypeOK
    <3> QED
      BY <3>1, <3>2, Zenon
  <2> HIDE DEF n, pd
  <2> QED
    BY <1>1, <1>2, <2>1, StaysFacts, Zenon DEF Moves
<1>4. \/ o = NoQuery /\ n = NoQuery
      \/ o # NoQuery /\ n \in QueryObject /\ SameButStatus(o, n) /\ n.status = "ERROR"
  BY <1>1, Zenon DEF QueryObject, SameButStatus, SameEntries
<1>5. Local(q, i, pd, n, k, node[i])
  BY <1>1, UnwindLocal, UnwindGoneLocal, Zenon DEF Coordinator, IsObject
<1>6. pd \in {"cancel", "sendError"} /\ (i = coordOf[q] => pd = "cancel")
  BY Zenon DEF Coordinator
<1> HIDE DEF n, pd
<1>7. /\ Data(q, i, pd, n, k, View(q, i)) /\ ~Wrote(q, View(q, i))
      /\ i = coordOf[q] /\ View(q, i).row = 0 => pc \in BeforePlan
      /\ pc \in {"lockArrays", "locked"} => i = coordOf[q] /\ q \notin View(q, i).stored
  <2>1. \/ o = NoQuery /\ n = NoQuery
        \/ SameButStatus(o, n) /\ n.status = "ERROR"
    BY <1>4, Zenon
  <2>2. pc \in MayThrow \cup Checks
    OBVIOUS
  <2> HIDE DEF o, k, pc
  <2> QED
    BY <1>1, <1>6, <2>1, <2>2, UnwindData, Zenon
<1>8. node[i] = "up" /\ pc \notin {"none", "idle", "ended"}
  BY <1>1, Zenon DEF Local, ObjectOK, MayThrow, Checks
<1>9. Data(q, i, pd, n, k, w)
  <2>1. CASE pc \in {"lockArrays", "locked"}
    <3>1. r = NoRow /\ i = coordOf[q] /\ q \notin stored[i] /\ ~Committed(q)
      BY <1>7, <2>1, ViewFacts, Zenon DEF IsView
    <3> HIDE DEF r
    <3>2. RowOK(q, i, n, k, w) /\ RecoveryOK(q, i, w) /\ StoredOK(q, w) /\ ChunksOK(q, i, pd, n, k, w)
      BY <1>8, <3>1, RowViewFacts DEF RowOK, RecoveryOK, StoredOK, ChunksOK, NoRow, IsRowView
    <3>3. CoordinatorRow(q, pd, n, k, w)
      <4>1. CoordinatorRow(q, pd, n, k, View(q, i)) /\ pd = "cancel"
        BY <1>6, <1>7, <3>1, Zenon DEF Data
      <4>2. n # NoQuery => n.commit # "COMMITTED"
        BY <1>1, <1>4, <1>8, Zenon DEF Local, ObjectOK, SameButStatus, SameEntries, MayThrow, Checks
      <4> QED
        BY <3>1, <4>1, <4>2, RowViewFacts, Zenon DEF CoordinatorRow, Recording, BeforePlan, IsRowView
    <3> QED
      BY <3>1, <3>2, <3>3, Zenon DEF Data
  <2>2. CASE pc \notin {"lockArrays", "locked"}
    <3>1. FewerReporters(View(q, i), w)
      <4>1. r = rows[q][i]
        BY <2>2, Zenon
      <4> HIDE DEF r
      <4> QED
        BY <4>1, Zenon DEF RowView, View, FewerReporters
    <3> QED
      BY <1>7, <3>1, FewerReportersKeep, Zenon
  <2> QED
    BY <2>1, <2>2, Zenon
<1>10. pd \in ExecState /\ MovesOn(q, i, pd)
  BY <1>6, <1>8, Zenon DEF ExecState, MovesOn, BeforePlan
<1>11. i = coordOf[q] /\ n # NoQuery => n.results \subseteq Reporters(q)
  BY <1>4, ResultsAreReports, Zenon DEF SameButStatus
<1>12. /\ r \in Nat \cup {NoRow} /\ (r = NoRow \/ rows[q][i] # NoRow)
       /\ (i = coordOf[q] /\ r = 0 => pc \in BeforePlan)
  BY <1>1, <1>7, ViewFacts DEF TypeOK, NoRow, IsView
<1> HIDE DEF r
<1> QED
  BY <1>1, <1>2, <1>3, <1>4, <1>5, <1>8, <1>9, <1>10, <1>11, <1>12, RowStep, Zenon DEF RowMove

LEMMA FailuresKeep ==
    ASSUME CommitInv, NEW q \in Queries, NEW i \in Instance, operatorFails(q, i) \/ raiseError(q, i)
    PROVE  ThreadMove
  BY UnwindCommit, Zenon DEF operatorFails, raiseError, MayThrow, Checks

--------------------------------------------------------------------------------
(* Rolling back. *)

(* A rollback takes the chunks of its own query and no others: when it removes  *)
(* everything of an array that has no version, whoever else had stored chunks   *)
(* of it would have a lock on it.                                               *)
Rest(q, i, last) == {p \in stored[i] : IF last = 0 THEN arrayOf[p] # arrayOf[q] ELSE p # q}

LEMMA RollbackFacts ==
    ASSUME CommitInv, NEW q \in Queries, NEW i \in Instance, rows[q][i] # NoRow,
           NEW last, last = LastVersion(arrayOf[q])
    PROVE  /\ Rest(q, i, last) \subseteq Queries /\ q \notin Rest(q, i, last)
           /\ \A p \in Queries \ {q} : p \in Rest(q, i, last) <=> p \in stored[i]
<1>1. TypeOK /\ WritersExclude
  BY Zenon DEF CommitInv, AssertionsHold, LocksInv
<1>2. Rest(q, i, last) \subseteq Queries /\ q \notin Rest(q, i, last)
  BY <1>1, Zenon DEF Rest, TypeOK
<1>3. ASSUME NEW p \in Queries \ {q}, p \in stored[i], last = 0
      PROVE  arrayOf[p] # arrayOf[q]
  <2>1. SUFFICES ASSUME arrayOf[p] = arrayOf[q]
                 PROVE  FALSE
    OBVIOUS
  <2>2. arrayOf[q] \in Arrays
    BY <1>1, QueryTxnAssumption, Zenon DEF TypeOK, Plan, Queries
  <2>3. {v.version : v \in versions[arrayOf[q]]} = 1..0
    BY <1>3, <2>2, LastVersionFacts, Zenon
  <2>4. ~Committed(p)
    <3>1. \A v \in versions[arrayOf[q]] : v.version \in 1..0
      BY <2>3, Zenon
    <3>2. 1..0 = {}
      OBVIOUS
    <3> QED
      BY <2>1, <3>1, <3>2, Zenon DEF Committed
  <2>5. rows[p][i] # NoRow
    BY <1>3, <2>4, Before, ViewFacts DEF Data, StoredOK, IsView
  <2> QED
    BY <1>1, <2>1, <2>5, Zenon DEF WritersExclude
<1>4. \A p \in Queries \ {q} : p \in Rest(q, i, last) <=> p \in stored[i]
  BY <1>3, Zenon DEF Rest
<1> QED
  BY <1>2, <1>4, Zenon

(* What an error handler leaves of the chunks of q on i. *)
Outcome(q, i, S) ==
    /\ S \in SUBSET Queries /\ stored' = [stored EXCEPT ![i] = S] /\ failed' = failed
    /\ \A p \in Queries \ {q} : p \in S <=> p \in stored[i]
    /\ \/ S = stored[i] /\ (q \notin stored[i] \/ Committed(q))
       \/ q \notin S /\ ~Committed(q)

LEMMA KeepsChunks ==
    ASSUME CommitInv, NEW q \in Queries, NEW i \in Instance, UNCHANGED <<stored, failed>>,
           q \notin stored[i] \/ Committed(q)
    PROVE  Outcome(q, i, stored[i])
  BY Zenon DEF Outcome, CommitInv, AssertionsHold, TypeOK

LEMMA TakesChunks ==
    ASSUME CommitInv, NEW q \in Queries, NEW i \in Instance, rows[q][i] # NoRow, ~Committed(q),
           NEW last, last = LastVersion(arrayOf[q]), rollbackVersion(q, i, last), failed' = failed
    PROVE  Outcome(q, i, Rest(q, i, last))
<1>1. stored' = [stored EXCEPT ![i] = Rest(q, i, last)]
  BY Zenon DEF rollbackVersion, Rest, CommitInv, AssertionsHold, TypeOK
<1> QED
  BY <1>1, RollbackFacts, Zenon DEF Outcome

LEMMA RowVersion ==
    ASSUME CommitInv, NEW q \in Queries, NEW i \in Instance
    PROVE  /\ rows[q][i] \in Nat \cup {NoRow} /\ LastVersion(arrayOf[q]) \in Nat
           /\ rows[q][i] > 0 => rows[q][i] = LastVersion(arrayOf[q]) + (IF Committed(q) THEN 0 ELSE 1)
           /\ q \in stored[i] \/ i # coordOf[q] => rows[q][i] # 0
           /\ q \in stored[i] /\ ~Committed(q) => rows[q][i] # NoRow
<1>1. TypeOK /\ Data(q, i, exec[q][i], query[q][i], stack[q][i], View(q, i))
  BY Before, Zenon
<1>2. arrayOf[q] \in Arrays
  BY <1>1, QueryTxnAssumption, Zenon DEF TypeOK, Plan, Queries
<1>3. rows[q][i] \in Nat \cup {NoRow} /\ LastVersion(arrayOf[q]) \in Nat
  BY <1>1, <1>2, LastVersionFacts, Zenon DEF TypeOK
<1> QED
  BY <1>1, <1>3, ViewFacts DEF Data, RowOK, StoredOK, IsView

(* Query::handleErrorOnCoordinator, of a handler or of the recovery. *)
LEMMA CoordinatorHandler ==
    ASSUME CommitInv, NEW q \in Queries, NEW i \in Instance, handleErrorOnCoordinator(q, i)
    PROVE  \E S \in SUBSET Queries : Outcome(q, i, S)
<1> DEFINE last == LastVersion(arrayOf[q])
           row == rows[q][i]
<1>1. /\ row \in Nat \cup {NoRow} /\ last \in Nat
      /\ row > 0 => row = last + (IF Committed(q) THEN 0 ELSE 1)
      /\ q \in stored[i] => row # 0
      /\ q \in stored[i] /\ ~Committed(q) => row # NoRow
  BY RowVersion, Zenon
<1>2. CASE row \in {NoRow, 0, last}
  <2>1. UNCHANGED <<stored, failed>>
    BY <1>2, Zenon DEF handleErrorOnCoordinator
  <2>2. q \notin stored[i] \/ Committed(q)
    BY <1>1, <1>2 DEF NoRow
  <2> QED
    BY <2>1, <2>2, KeepsChunks, Zenon DEF Outcome
<1>3. CASE row \notin {NoRow, 0, last}
  <2>1. row = last + 1 /\ ~Committed(q) /\ row # NoRow
    BY <1>1, <1>3 DEF NoRow
  <2>2. rollbackVersion(q, i, last) /\ failed' = failed \cup Unless(last = row - 1, "Query.cpp:1610")
    BY <1>3, Zenon DEF handleErrorOnCoordinator
  <2>3. failed' = failed
    BY <1>1, <2>1, <2>2 DEF Unless
  <2> QED
    BY <2>1, <2>2, <2>3, TakesChunks DEF Outcome
<1> QED
  BY <1>2, <1>3, Zenon

(* Query::handleErrorOnWorker, of a handler or of the recovery. *)
LEMMA WorkerHandler ==
    ASSUME CommitInv, NEW q \in Queries, NEW i \in Instance, i # coordOf[q],
           NEW version \in Nat, NEW hasId \in BOOLEAN, NEW force \in BOOLEAN,
           handleErrorOnWorker(q, i, version, hasId, force),
           hasId => rows[q][i] = version, q \in stored[i] => hasId, Committed(q) => force
    PROVE  \E S \in SUBSET Queries :
               Outcome(q, i, S) /\ (S = stored[i] \/ (force => rows[q][coordOf[q]] = NoRow))
<1> DEFINE last == LastVersion(arrayOf[q])
           row == rows[q][i]
           lastVersion == IF hasId THEN last ELSE 0
<1>1. /\ row \in Nat \cup {NoRow} /\ last \in Nat
      /\ row > 0 => row = last + (IF Committed(q) THEN 0 ELSE 1)
      /\ row # 0
  BY RowVersion, Zenon
<1>2. CASE version = 0
  <2>1. UNCHANGED <<stored, failed>>
    BY <1>2, Zenon DEF handleErrorOnWorker
  <2>2. q \notin stored[i]
    BY <1>1, <1>2, Zenon
  <2> QED
    BY <2>1, <2>2, KeepsChunks, Zenon DEF Outcome
<1>3. CASE version # 0
  <2>1. /\ force => rows[q][coordOf[q]] = NoRow
        /\ failed' = failed \cup Unless(lastVersion <= version, "Query.cpp:1661")
                \cup Unless(force \/ lastVersion < version, "Query.cpp:1668")
        /\ IF lastVersion < version /\ hasId
           THEN rollbackVersion(q, i, lastVersion) ELSE UNCHANGED stored
    BY <1>3, Zenon DEF handleErrorOnWorker
  <2>2. /\ hasId => row = version /\ row > 0 /\ row = last + (IF Committed(q) THEN 0 ELSE 1)
        /\ lastVersion <= version /\ (force \/ lastVersion < version)
    BY <1>1, <1>3 DEF NoRow
  <2>3. failed' = failed
    BY <2>1, <2>2, Zenon DEF Unless
  <2>4. CASE lastVersion < version /\ hasId
    <3>1. ~Committed(q) /\ row # NoRow /\ rollbackVersion(q, i, last)
      BY <1>1, <2>1, <2>2, <2>4 DEF NoRow
    <3> QED
      BY <2>1, <2>3, <3>1, TakesChunks DEF Outcome
  <2>5. CASE ~(lastVersion < version /\ hasId)
    <3>1. q \notin stored[i] \/ Committed(q)
      BY <1>1, <2>2, <2>5
    <3> QED
      BY <2>1, <2>3, <2>5, <3>1, KeepsChunks, Zenon DEF Outcome
  <2> QED
    BY <2>4, <2>5, Zenon
<1> QED
  BY <1>2, <1>3, Zenon

(* The chunks that an error handler leaves are those of a query that committed. *)
SameButChunks(q, v, w) ==
    /\ w.node = v.node /\ w.row = v.row /\ w.coordRow = v.coordRow /\ w.workers = v.workers
    /\ w.reporters = v.reporters /\ LastOf(w) = LastOf(v) /\ (Wrote(q, w) <=> Wrote(q, v))

LEMMA OutcomeData ==
    ASSUME NEW q, NEW i, NEW pc, NEW o, NEW k, NEW k2, NEW v, NEW w, NEW t \in Thread,
           Local(q, i, pc, o, k, "up"), Data(q, i, pc, o, k, v), o # NoQuery, ~Armed(o),
           "UpdateErrorHandler" \in Ks(k, t), Ks(k2, t) = Ks(k, t) \ {"UpdateErrorHandler"},
           \A u \in Thread \ {t} : Ks(k, u) = {} /\ Ks(k2, u) = {},
           SameButChunks(q, v, w), v.node = "up",
           \/ w.stored = v.stored /\ (q \notin v.stored \/ Wrote(q, v))
           \/ q \notin w.stored /\ ~Wrote(q, v),
           i # coordOf[q] => w.stored = v.stored \/ (o.status = "OK" => v.coordRow = NoRow)
    PROVE  Data(q, i, pc, o, k2, w)
<1>1. o.commit # "COMMITTED"
  BY Zenon DEF Local, ObjectOK, Handler, Thread
<1>2. ~HandlerPending(k2) /\ ~Recording(o, k2)
  BY <1>1, Zenon DEF HandlerPending, Recording
<1>3. RowOK(q, i, o, k2, w)
  BY Zenon DEF Data, RowOK, SameButChunks
<1>4. i # coordOf[q] => pc # "done"
  BY Zenon DEF Local, WorkerOK
<1>5. ChunksOK(q, i, pc, o, k2, w)
  BY <1>2, <1>4, Zenon DEF ChunksOK, SameButChunks
<1>6. RecoveryOK(q, i, w) /\ StoredOK(q, w)
  BY Zenon DEF Data, RecoveryOK, StoredOK, SameButChunks
<1>7. i = coordOf[q] => CoordinatorRow(q, pc, o, k2, w)
  BY <1>1, <1>2, Zenon DEF Local, CoordinatorOK, Started, Data, CoordinatorRow, SameButChunks
<1>8. ASSUME i # coordOf[q]
      PROVE  ReportsOK(q, i, pc, o, w)
  <2>1. ReportsOK(q, i, pc, o, v) /\ (pc = "sendResult" => o.status = "OK")
    BY <1>8, Zenon DEF Local, WorkerOK, Data
  <2>2. HasDone(i, pc, o, w) => o.status = "OK" /\ HasDone(i, pc, o, v)
    BY <2>1, Zenon DEF ReportsOK, HasDone, SameButChunks
  <2> QED
    BY <1>8, <2>1, <2>2, Zenon DEF ReportsOK, SameButChunks
<1> QED
  BY <1>3, <1>5, <1>6, <1>7, <1>8, Zenon DEF Data

(* Query::UpdateErrorHandler::handleError. *)
LEMMA UpdateErrorHandlerKeeps ==
    ASSUME CommitInv, NEW q \in Queries, NEW i \in Instance, NEW t \in Thread, UpdateErrorHandler(q, i, t)
    PROVE  ThreadMove
<1> DEFINE o == query[q][i]
           k == stack[q][i]
           pc == exec[q][i]
           v == View(q, i)
           k2 == Popped(q, i, t)
<1>1. /\ TypeOK /\ Local(q, i, pc, o, k, node[i]) /\ Data(q, i, pc, o, k, v) /\ Obj(q, i) = o
      /\ pc \in ExecState
  BY Before, Zenon
<1>2. /\ stack' = [stack EXCEPT ![q][i] = k2] /\ StackOK(k2) /\ o # NoQuery /\ o \in QueryObject
      /\ ~Armed(o) /\ "UpdateErrorHandler" \in Ks(k, t)
      /\ Ks(k2, t) = Ks(k, t) \ {"UpdateErrorHandler"}
      /\ \A u \in Thread \ {t} : Ks(k, u) = {} /\ Ks(k2, u) = {}
      /\ Local(q, i, pc, o, k2, node[i]) /\ node[i] = "up"
  <2>1. Runs(q, i, t, "UpdateErrorHandler")
    BY Zenon DEF UpdateErrorHandler
  <2>2. "UpdateErrorHandler" # "destroy"
    OBVIOUS
  <2> HIDE DEF o, k, pc, k2
  <2> QED
    BY <2>1, <2>2, RunsFacts, Zenon DEF o, k, pc, k2
<1>3. IsView(q, i, v)
  BY ViewFacts, Zenon
<1>4. UNCHANGED <<query, exec, catalog, msgs, machine>>
  BY Zenon DEF UpdateErrorHandler
<1> HIDE DEF o, k, v, k2
<1>5. \E S \in SUBSET Queries :
         Outcome(q, i, S) /\ (i # coordOf[q] => S = stored[i] \/ (o.status = "OK" => rows[q][coordOf[q]] = NoRow))
  <2>1. CASE i = coordOf[q]
    <3>1. handleErrorOnCoordinator(q, i)
      BY <2>1, Zenon DEF UpdateErrorHandler, Coordinator
    <3> QED
      BY <2>1, <3>1, CoordinatorHandler, Zenon
  <2>2. CASE i # coordOf[q]
    <3> DEFINE force == o.status = "OK"
    <3>1. handleErrorOnWorker(q, i, o.version, o.hasId, force)
      BY <1>1, <2>2, Zenon DEF UpdateErrorHandler, Coordinator
    <3>2. HandlerPending(k)
      BY <1>2, Zenon DEF HandlerPending
    <3>3. (o.hasId => rows[q][i] = o.version) /\ (q \in stored[i] => o.hasId)
      BY <1>1, <1>3, <2>2, <3>2, Zenon DEF Data, ChunksOK, IsView
    <3>4. Committed(q) => force
      BY <1>1, <1>2, <1>3, <2>2, Zenon DEF Data, ReportsOK, IsView
    <3>5. o.version \in Nat /\ o.hasId \in BOOLEAN /\ force \in BOOLEAN
      BY <1>2, Zenon DEF QueryObject
    <3> HIDE DEF force
    <3>6. \E S \in SUBSET Queries : Outcome(q, i, S) /\ (S = stored[i] \/ (force => rows[q][coordOf[q]] = NoRow))
      BY <2>2, <3>1, <3>3, <3>4, <3>5, WorkerHandler, Zenon
    <3> QED
      BY <3>6, Zenon DEF force
  <2> QED
    BY <2>1, <2>2, Zenon
<1>6. PICK S \in SUBSET Queries :
         Outcome(q, i, S) /\ (i # coordOf[q] => S = stored[i] \/ (o.status = "OK" => rows[q][coordOf[q]] = NoRow))
  BY <1>5, Zenon
<1> DEFINE w == ChunkView(q, i, S, recovering[i])
<1>7. IsChunkView(q, i, S, recovering[i], w)
  BY ChunkViewFacts, Zenon
<1> HIDE DEF w
<1>8. SameButChunks(q, v, w) /\ v.node = "up"
  BY <1>2, <1>3, <1>7, Zenon DEF SameButChunks, IsView, IsChunkView
<1>9. /\ \/ w.stored = v.stored /\ (q \notin v.stored \/ Wrote(q, v))
         \/ q \notin w.stored /\ ~Wrote(q, v)
      /\ i # coordOf[q] => w.stored = v.stored \/ (o.status = "OK" => v.coordRow = NoRow)
  BY <1>3, <1>6, <1>7, Zenon DEF Outcome, IsView, IsChunkView
<1>10. Data(q, i, pc, o, k2, w)
  BY <1>1, <1>2, <1>8, <1>9, OutcomeData, Zenon
<1>11. Moves(q, i, pc, o, k2)
  BY <1>1, <1>2, <1>4, StaysFacts, Zenon DEF Moves
<1>12. MovesOn(q, i, pc)
  BY Zenon DEF MovesOn
<1>13. /\ stored' = [stored EXCEPT ![i] = S] /\ \A p \in Queries \ {q} : p \in S <=> p \in stored[i]
       /\ UNCHANGED <<catalog, msgs, machine, failed>>
  BY <1>4, <1>6, Zenon DEF Outcome
<1> QED
  BY <1>1, <1>2, <1>10, <1>11, <1>12, <1>13, ChunkStep, Zenon DEF ChunkMove, o, w

--------------------------------------------------------------------------------
(* Recovery. *)

(* An instance that is not up has no query; what its recovery does to a row and *)
(* to the chunks.                                                               *)
Recovered(q, i, v, w) ==
    /\ w.versions = v.versions /\ w.workers = v.workers /\ w.reporters \subseteq v.reporters
    /\ w.row = v.row \/ w.row = NoRow
    /\ w.coordRow = v.coordRow \/ w.coordRow = NoRow
    /\ q \in w.stored => q \in v.stored
    /\ i # coordOf[q] /\ q \in v.stored /\ q \notin w.stored => w.coordRow = NoRow
    /\ w.row # NoRow => w.node # "up"
    /\ w.node = "recoverWorker" /\ i = coordOf[q] => w.row = NoRow
    /\ RecoveryOK(q, i, w) /\ StoredOK(q, w)

LEMMA RecoveredData ==
    ASSUME NEW q, NEW i, NEW pc, NEW k, NEW nd, NEW v, NEW w, nd # "up",
           Local(q, i, pc, NoQuery, k, nd), Data(q, i, pc, NoQuery, k, v), Recovered(q, i, v, w)
    PROVE  Data(q, i, pc, NoQuery, k, w)
<1>1. (Wrote(q, w) <=> Wrote(q, v)) /\ LastOf(w) = LastOf(v)
  BY Zenon DEF Recovered, Wrote, LastOf
<1>2. pc \in {"none", "ended"} /\ ~Armed(NoQuery) /\ ~HandlerPending(k) /\ ~Recording(NoQuery, k)
  BY Zenon DEF Local, ObjectOK, SwappedOnce, Armed, HandlerPending, Recording, Thread
<1>3. RowOK(q, i, NoQuery, k, w)
  BY <1>1, NoRowFacts, Zenon DEF Recovered, Data, RowOK
<1>4. ChunksOK(q, i, pc, NoQuery, k, w)
  BY <1>2, Zenon DEF ChunksOK
<1>5. i = coordOf[q] => CoordinatorRow(q, pc, NoQuery, k, w)
  BY <1>1, <1>2, Zenon DEF Recovered, Data, CoordinatorRow, BeforePlan
<1>6. i # coordOf[q] => ReportsOK(q, i, pc, NoQuery, w)
  BY <1>1, <1>2, Zenon DEF Recovered, Data, ReportsOK, HasDone
<1> QED
  BY <1>3, <1>4, <1>5, <1>6, Zenon DEF Recovered, Data

(* A step of the recovery of i. *)
Resting == UNCHANGED <<query, exec, stack, versions, msgs, plan, failed>>

RecoveryMove(i, nd, R) ==
    /\ Resting
    /\ node' = [node EXCEPT ![i] = nd] /\ recovering' = [recovering EXCEPT ![i] = R]
    /\ rows' \in [Queries -> [Instance -> Nat \cup {NoRow}]] /\ stored' \in [Instance -> SUBSET Queries]
    /\ \A j \in Instance \ {i} : stored'[j] = stored[j] /\ \A q \in Queries : rows'[q][j] = rows[q][j]
    /\ \A q \in Queries : /\ rows'[q][i] = rows[q][i] \/ rows'[q][i] = NoRow
                          /\ Recovered(q, i, View(q, i), NextView(q, i))

LEMMA RecoveryMoveKeeps ==
    ASSUME CommitInv, LocksInv', NEW i \in Instance, node[i] # "up", NEW nd \in NodeState,
           NEW R \in SUBSET Queries, RecoveryMove(i, nd, R)
    PROVE  CommitInv'
<1>1. Shape /\ TypeOK /\ failed = {} /\ ThreadsOK /\ MessagesOK /\ DataOK /\ VersionsOK
  BY Zenon DEF CommitInv, AssertionsHold, LocksInv, Shape
<1>2. /\ query' = query /\ exec' = exec /\ stack' = stack /\ versions' = versions /\ msgs' = msgs
      /\ plan' = plan /\ failed' = failed /\ Queries' = Queries /\ Instance' = Instance
  BY Zenon DEF RecoveryMove, Resting, Queries, Instance
<1>3. node'[i] = nd /\ \A j \in Instance \ {i} : node'[j] = node[j] /\ recovering'[j] = recovering[j]
  BY <1>1, Zenon DEF RecoveryMove, TypeOK
<1>4. \A q \in Queries : query[q][i] = NoQuery
  <2>1. ASSUME NEW q \in Queries
        PROVE  query[q][i] = NoQuery
    BY <1>1, Zenon DEF ThreadsOK, Local, ObjectOK
  <2> QED
    BY <2>1, Zenon
<1>5. TypeOK'
  <2>1. Message' = Message /\ QueryObject' = QueryObject
    BY <1>2, Zenon DEF Message, QueryObject
  <2>2. /\ node' \in [Instance -> {"up", "down", "recoverCoord", "recoverWorker"}]
        /\ recovering' \in [Instance -> SUBSET Queries]
    BY <1>1, Zenon DEF RecoveryMove, TypeOK, NodeState
  <2> QED
    BY <1>1, <1>2, <2>1, <2>2, Zenon DEF TypeOK, RecoveryMove
<1>6. ThreadsOK'
  <2>1. ASSUME NEW q \in Queries, NEW j \in Instance
        PROVE  Local(q, j, exec[q][j], query[q][j], stack[q][j], node'[j])
    <3>1. Local(q, j, exec[q][j], query[q][j], stack[q][j], node[j])
      BY <1>1, Zenon DEF ThreadsOK
    <3>2. CASE j # i
      BY <1>3, <3>1, <3>2, Zenon
    <3>3. CASE j = i
      BY <3>1, <3>3, Zenon DEF Local, ObjectOK
    <3> QED
      BY <3>2, <3>3, Zenon
  <2> QED
    BY <1>2, <2>1, Zenon DEF ThreadsOK
<1>7. MessagesOK'
  <2>1. ASSUME NEW q \in Queries
        PROVE  PlanOnce(q)'
    <3>1. /\ PlanOnce(q) /\ Workers(q)' = Workers(q) /\ coordOf[q] \in Instance
      BY <1>1, <1>2, Zenon DEF MessagesOK, Workers, Shape
    <3>2. rows'[q][coordOf[q]] = 0 => rows[q][coordOf[q]] = 0
      BY <3>1, NoRowFacts, Zenon DEF RecoveryMove
    <3> QED
      BY <1>2, <3>1, <3>2, Zenon DEF PlanOnce
  <2>2. ASSUME NEW m \in msgs
        PROVE  MessageOK(m)'
    BY <1>1, <1>2, Zenon DEF MessagesOK, MessageOK, Committed
  <2> QED
    BY <1>2, <2>1, <2>2, Zenon DEF MessagesOK
<1>8. ASSUME NEW q \in Queries, NEW j \in Instance
      PROVE  Data(q, j, exec[q][j], query[q][j], stack[q][j], NextView(q, j))
  <2>1. /\ Data(q, j, exec[q][j], query[q][j], stack[q][j], View(q, j)) /\ coordOf[q] \in Instance
        /\ Local(q, j, exec[q][j], query[q][j], stack[q][j], node[j])
    BY <1>1, Zenon DEF DataOK, ThreadsOK, Shape
  <2>2. Reporters(q)' = Reporters(q) /\ Workers(q)' = Workers(q)
    BY <1>2, Zenon DEF Reporters, Workers
  <2>3. CASE j = i
    BY <1>4, <2>1, <2>3, RecoveredData, Zenon DEF RecoveryMove
  <2>4. CASE j # i /\ j # coordOf[q]
    <3>1. SameButCoordRow(View(q, j), NextView(q, j))
      BY <1>2, <1>3, <2>2, <2>4, Zenon DEF RecoveryMove, SameButCoordRow, View, NextView
    <3>2. NextView(q, j).coordRow = rows'[q][coordOf[q]] /\ View(q, j).coordRow = rows[q][coordOf[q]]
      BY Zenon DEF View, NextView
    <3>3. rows'[q][coordOf[q]] = rows[q][coordOf[q]] \/ rows'[q][coordOf[q]] = NoRow
      BY <2>1, Zenon DEF RecoveryMove
    <3> QED
      BY <2>1, <2>4, <3>1, <3>2, <3>3, CoordRowKeeps, Zenon
  <2>5. CASE j # i /\ j = coordOf[q]
    <3>1. FewerReporters(View(q, j), NextView(q, j))
      BY <1>2, <1>3, <2>2, <2>5, Zenon DEF RecoveryMove, FewerReporters, View, NextView
    <3> QED
      BY <2>1, <3>1, FewerReportersKeep, Zenon
  <2> QED
    BY <2>3, <2>4, <2>5, Zenon
<1>9. DataOK'
  BY <1>2, <1>8, Zenon DEF DataOK, View, NextView
<1>10. VersionsOK'
  BY <1>1, <1>2, Zenon DEF VersionsOK, VersionsAreConsecutive
<1> QED
  BY <1>1, <1>2, <1>5, <1>6, <1>7, <1>9, <1>10, Zenon DEF CommitInv, AssertionsHold

LEMMA SameReporters ==
    ASSUME NEW q, query' = query, msgs' = msgs, plan' = plan
    PROVE  Reporters(q)' = Reporters(q) /\ Workers(q)' = Workers(q)
<1>1. Instance' = Instance
  BY Zenon DEF Instance
<1> QED
  BY <1>1, Zenon DEF Reporters, Workers

(* What is known of a query and an instance that is not up. *)
LEMMA RecoveryFacts ==
    ASSUME CommitInv, NEW q \in Queries, NEW i \in Instance, node[i] # "up",
           Resting,
           NEW v, NEW w, v = View(q, i), IsNext(q, i, w)
    PROVE  /\ coordOf[q] \in Instance /\ rows[q][i] \in Nat \cup {NoRow}
           /\ w.versions = v.versions /\ w.workers = v.workers /\ w.reporters \subseteq v.reporters
           /\ (Wrote(q, v) <=> Committed(q)) /\ (Wrote(q, w) <=> Committed(q))
           /\ RowOK(q, i, NoQuery, stack[q][i], v) /\ RecoveryOK(q, i, v) /\ StoredOK(q, v)
<1>1. /\ coordOf[q] \in Instance /\ TypeOK
      /\ Local(q, i, exec[q][i], query[q][i], stack[q][i], node[i])
      /\ Data(q, i, exec[q][i], query[q][i], stack[q][i], v)
  BY Before, Zenon
<1>2. query[q][i] = NoQuery
  BY <1>1, Zenon DEF Local, ObjectOK
<1>3. Reporters(q)' = Reporters(q) /\ Workers(q)' = Workers(q) /\ versions' = versions
  <2>1. query' = query /\ msgs' = msgs /\ versions' = versions /\ plan' = plan
    BY Zenon DEF Resting
  <2> QED
    BY <2>1, SameReporters, Zenon
<1>4. IsView(q, i, v) /\ v.versions = versions[arrayOf[q]]
  BY ViewFacts, Zenon DEF View
<1>5. rows[q][i] \in Nat \cup {NoRow}
  BY <1>1, Zenon DEF TypeOK
<1>6. Wrote(q, w) <=> Wrote(q, v)
  BY <1>3, <1>4, Zenon DEF Wrote, IsNext
<1> QED
  BY <1>1, <1>2, <1>3, <1>4, <1>5, <1>6, Zenon DEF Data, IsView, IsNext

LEMMA ReadArrayLocksKeeps ==
    ASSUME CommitInv, LocksInv', NEW i \in Instance, readArrayLocks(i)
    PROVE  CommitInv'
<1> DEFINE R == Locks(i, TRUE)
<1>1. TypeOK /\ R \in SUBSET Queries /\ "recoverCoord" \in NodeState
  BY Zenon DEF CommitInv, AssertionsHold, Locks, NodeState
<1>2. /\ node[i] = "down" /\ Resting
      /\ node' = [node EXCEPT ![i] = "recoverCoord"] /\ recovering' = [recovering EXCEPT ![i] = R]
      /\ rows' = rows /\ stored' = stored
  BY Zenon DEF readArrayLocks, Resting, catalog
<1>3. node'[i] = "recoverCoord" /\ recovering'[i] = R /\ node[i] # "up"
  BY <1>1, <1>2, Zenon DEF TypeOK
<1>4. \A q \in Queries : q \in R <=> rows[q][i] # NoRow /\ i = coordOf[q]
  BY DEF Locks, Coordinator
<1> HIDE DEF R
<1>5. ASSUME NEW q \in Queries
      PROVE  Recovered(q, i, View(q, i), NextView(q, i))
  <2> DEFINE v == View(q, i)
             w == NextView(q, i)
  <2>1. IsView(q, i, v) /\ IsNext(q, i, w) /\ v = View(q, i)
    BY ViewFacts, NextViewFacts, Zenon
  <2> HIDE DEF v, w
  <2>2. /\ w.versions = v.versions /\ w.workers = v.workers /\ w.reporters \subseteq v.reporters
        /\ (Wrote(q, v) <=> Committed(q)) /\ (Wrote(q, w) <=> Committed(q)) /\ StoredOK(q, v)
    BY <1>2, <1>3, <2>1, RecoveryFacts
  <2>3. /\ w.row = v.row /\ w.coordRow = v.coordRow /\ w.stored = v.stored /\ w.node = "recoverCoord"
        /\ q \in w.recovering <=> v.row # NoRow /\ i = coordOf[q]
    BY <1>2, <1>3, <1>4, <2>1, Zenon DEF IsView, IsNext
  <2>4. RecoveryOK(q, i, w) /\ StoredOK(q, w)
    BY <2>2, <2>3, Zenon DEF RecoveryOK, StoredOK
  <2> QED
    BY <2>2, <2>3, <2>4, Zenon DEF Recovered, v, w
<1>6. RecoveryMove(i, "recoverCoord", R)
  BY <1>1, <1>2, <1>5, Zenon DEF RecoveryMove, TypeOK
<1> QED
  BY <1>1, <1>3, <1>6, RecoveryMoveKeeps, Zenon

(* The chunks of the one lock that recovery looks at. *)
LEMMA OutcomeRecovered ==
    ASSUME CommitInv, NEW i \in Instance, NEW nd, node[i] = nd, nd \in {"recoverCoord", "recoverWorker"},
           NEW q \in recovering[i], NEW S \in SUBSET Queries, Outcome(q, i, S),
           UNCHANGED <<query, exec, stack, catalog, msgs, node, plan>>,
           recovering' = [recovering EXCEPT ![i] = @ \ {q}],
           nd = "recoverWorker" => S = stored[i] \/ rows[q][coordOf[q]] = NoRow
    PROVE  RecoveryMove(i, nd, recovering[i] \ {q})
<1>1. /\ Resting
      /\ rows' = rows /\ node' = node /\ stored' = [stored EXCEPT ![i] = S]
  BY Zenon DEF Outcome, Resting, catalog
<1>2. TypeOK /\ q \in Queries /\ node[i] # "up"
  BY Zenon DEF CommitInv, AssertionsHold, TypeOK
<1>3. /\ stored'[i] = S /\ recovering'[i] = recovering[i] \ {q} /\ node'[i] = nd
      /\ \A j \in Instance \ {i} : stored'[j] = stored[j]
  BY <1>1, <1>2, Zenon DEF TypeOK
<1>4. ASSUME NEW p \in Queries
      PROVE  Recovered(p, i, View(p, i), NextView(p, i))
  <2> DEFINE v == View(p, i)
             w == NextView(p, i)
  <2>1. IsView(p, i, v) /\ IsNext(p, i, w) /\ v = View(p, i)
    BY ViewFacts, NextViewFacts, Zenon
  <2> HIDE DEF v, w
  <2>2. /\ w.versions = v.versions /\ w.workers = v.workers /\ w.reporters \subseteq v.reporters
        /\ (Wrote(p, w) <=> Committed(p)) /\ (Wrote(p, v) <=> Committed(p))
        /\ RowOK(p, i, NoQuery, stack[p][i], v) /\ RecoveryOK(p, i, v) /\ StoredOK(p, v)
    BY <1>1, <1>2, <2>1, RecoveryFacts
  <2>3. /\ w.row = v.row /\ w.coordRow = v.coordRow /\ w.node = nd /\ v.node = nd
        /\ w.stored = S /\ v.stored = stored[i] /\ w.recovering = v.recovering \ {q}
        /\ v.recovering = recovering[i] /\ v.coordRow = rows[p][coordOf[p]]
    BY <1>1, <1>3, <2>1, Zenon DEF IsView, IsNext
  <2>4. CASE p # q
    <3>1. (p \in w.stored <=> p \in v.stored) /\ (p \in w.recovering <=> p \in v.recovering)
      BY <2>3, <2>4, Zenon DEF Outcome
    <3>2. RecoveryOK(p, i, w) /\ StoredOK(p, w)
      BY <2>2, <2>3, <3>1, Zenon DEF RecoveryOK, StoredOK
    <3> QED
      BY <2>2, <2>3, <3>1, <3>2, Zenon DEF Recovered, RowOK, v, w
  <2>5. CASE p = q
    <3>1. \/ S = stored[i] /\ (q \notin stored[i] \/ Committed(q))
          \/ q \notin S /\ ~Committed(q)
      BY Zenon DEF Outcome
    <3>2. RecoveryOK(p, i, w) /\ StoredOK(p, w) /\ (p \in w.stored => p \in v.stored)
      BY <2>2, <2>3, <2>5, <3>1, Zenon DEF RecoveryOK, StoredOK
    <3>3. i # coordOf[q] => nd = "recoverWorker"
      BY <2>2, <2>3, <2>5, Zenon DEF RecoveryOK
    <3>4. i # coordOf[p] /\ p \in v.stored /\ p \notin w.stored => w.coordRow = NoRow
      BY <2>3, <2>5, <3>3, Zenon
    <3> QED
      BY <1>2, <2>2, <2>3, <3>2, <3>4, Zenon DEF Recovered, RowOK, v, w
  <2> QED
    BY <2>4, <2>5, Zenon
<1>5. node' = [node EXCEPT ![i] = nd] /\ recovering' = [recovering EXCEPT ![i] = recovering[i] \ {q}]
  BY <1>1, <1>2, Zenon DEF TypeOK
<1>6. rows' \in [Queries -> [Instance -> Nat \cup {NoRow}]] /\ stored' \in [Instance -> SUBSET Queries]
  BY <1>1, <1>2, Zenon DEF TypeOK
<1> QED
  BY <1>1, <1>3, <1>4, <1>5, <1>6, Zenon DEF RecoveryMove

LEMMA RecoverCoordLockKeeps ==
    ASSUME CommitInv, LocksInv', NEW i \in Instance, recoverCoordLock(i)
    PROVE  CommitInv'
<1>1. /\ node[i] = "recoverCoord" /\ UNCHANGED <<query, exec, stack, catalog, msgs, node, plan>>
      /\ TypeOK /\ "recoverCoord" \in NodeState /\ node[i] # "up"
  BY Zenon DEF recoverCoordLock, CommitInv, AssertionsHold, NodeState
<1>2. PICK q \in recovering[i] :
         recovering' = [recovering EXCEPT ![i] = @ \ {q}] /\ handleErrorOnCoordinator(q, i)
  BY Zenon DEF recoverCoordLock
<1>3. q \in Queries /\ recovering[i] \ {q} \in SUBSET Queries
  BY <1>1, <1>2, Zenon DEF TypeOK
<1>4. PICK S \in SUBSET Queries : Outcome(q, i, S)
  BY <1>2, <1>3, CoordinatorHandler, Zenon
<1>5. RecoveryMove(i, "recoverCoord", recovering[i] \ {q})
  BY <1>1, <1>2, <1>4, OutcomeRecovered, Zenon
<1> QED
  BY <1>1, <1>3, <1>5, RecoveryMoveKeeps, Zenon

LEMMA RecoverWorkerLockKeeps ==
    ASSUME CommitInv, LocksInv', NEW i \in Instance, recoverWorkerLock(i)
    PROVE  CommitInv'
<1>1. /\ node[i] = "recoverWorker" /\ UNCHANGED <<query, exec, stack, catalog, msgs, node, plan>>
      /\ TypeOK /\ "recoverWorker" \in NodeState /\ node[i] # "up"
  BY Zenon DEF recoverWorkerLock, CommitInv, AssertionsHold, NodeState
<1>2. PICK q \in recovering[i] :
         /\ recovering' = [recovering EXCEPT ![i] = @ \ {q}]
         /\ handleErrorOnWorker(q, i, rows[q][i], rows[q][i] > 0, TRUE)
  BY Zenon DEF recoverWorkerLock
<1>3. q \in Queries /\ recovering[i] \ {q} \in SUBSET Queries
  BY <1>1, <1>2, Zenon DEF TypeOK
<1>4. i # coordOf[q] /\ rows[q][i] \in Nat /\ rows[q][i] > 0
  <2>1. Data(q, i, exec[q][i], query[q][i], stack[q][i], View(q, i)) /\ rows[q][i] \in Nat \cup {NoRow}
    BY <1>1, <1>3, Before, Zenon DEF TypeOK
  <2>2. IsView(q, i, View(q, i))
    BY ViewFacts, Zenon
  <2>3. i # coordOf[q] /\ rows[q][i] # NoRow /\ rows[q][i] # 0
    BY <1>1, <1>2, <2>1, <2>2, Zenon DEF Data, RecoveryOK, RowOK, IsView
  <2> QED
    BY <2>1, <2>3
<1>5. PICK S \in SUBSET Queries :
         Outcome(q, i, S) /\ (S = stored[i] \/ rows[q][coordOf[q]] = NoRow)
  <2> DEFINE version == rows[q][i]
             hasId == rows[q][i] > 0
  <2>1. hasId /\ hasId \in BOOLEAN /\ TRUE \in BOOLEAN /\ version \in Nat /\ rows[q][i] = version
    BY <1>4, Zenon
  <2>2. handleErrorOnWorker(q, i, version, hasId, TRUE)
    BY <1>2, Zenon
  <2> HIDE DEF version, hasId
  <2> QED
    BY <1>3, <1>4, <2>1, <2>2, WorkerHandler, Zenon
<1>6. RecoveryMove(i, "recoverWorker", recovering[i] \ {q})
  BY <1>1, <1>2, <1>5, OutcomeRecovered, Zenon
<1> QED
  BY <1>1, <1>3, <1>6, RecoveryMoveKeeps, Zenon

(* The rows of one role are deleted when their chunks have been seen to. *)
LEMMA DeleteCoordArrayLocksKeeps ==
    ASSUME CommitInv, LocksInv', NEW i \in Instance, deleteCoordArrayLocks(i)
    PROVE  CommitInv'
<1> DEFINE R == Locks(i, FALSE)
<1>1. TypeOK /\ R \in SUBSET Queries /\ "recoverWorker" \in NodeState
  BY Zenon DEF CommitInv, AssertionsHold, Locks, NodeState
<1>2. /\ node[i] = "recoverCoord" /\ node[i] # "up" /\ recovering[i] = {} /\ Resting /\ stored' = stored
      /\ node' = [node EXCEPT ![i] = "recoverWorker"] /\ recovering' = [recovering EXCEPT ![i] = R]
      /\ rows' = [q \in Queries |-> IF i = coordOf[q] THEN [rows[q] EXCEPT ![i] = NoRow] ELSE rows[q]]
  BY DEF deleteCoordArrayLocks, Resting, Coordinator
<1>3. node'[i] = "recoverWorker" /\ recovering'[i] = R
  BY <1>1, <1>2, Zenon DEF TypeOK
<1>4. \A q \in Queries : q \in R <=> rows[q][i] # NoRow /\ i # coordOf[q]
  BY DEF Locks, Coordinator
<1>5. /\ rows' \in [Queries -> [Instance -> Nat \cup {NoRow}]]
      /\ \A q \in Queries : rows'[q][i] = IF i = coordOf[q] THEN NoRow ELSE rows[q][i]
      /\ \A q \in Queries, j \in Instance \ {i} : rows'[q][j] = rows[q][j]
  BY <1>1, <1>2, Zenon DEF TypeOK
<1> HIDE DEF R
<1>6. ASSUME NEW q \in Queries
      PROVE  Recovered(q, i, View(q, i), NextView(q, i))
  <2> DEFINE v == View(q, i)
             w == NextView(q, i)
  <2>1. IsView(q, i, v) /\ IsNext(q, i, w) /\ v = View(q, i)
    BY ViewFacts, NextViewFacts, Zenon
  <2> HIDE DEF v, w
  <2>2. /\ w.versions = v.versions /\ w.workers = v.workers /\ w.reporters \subseteq v.reporters
        /\ (Wrote(q, v) <=> Committed(q)) /\ (Wrote(q, w) <=> Committed(q))
        /\ RecoveryOK(q, i, v) /\ StoredOK(q, v) /\ coordOf[q] \in Instance
    BY <1>2, <2>1, RecoveryFacts
  <2>3. /\ w.row = (IF i = coordOf[q] THEN NoRow ELSE v.row) /\ w.stored = v.stored
        /\ v.node = "recoverCoord" /\ w.node = "recoverWorker" /\ v.recovering = {}
        /\ q \in w.recovering <=> v.row # NoRow /\ i # coordOf[q]
    BY <1>2, <1>3, <1>4, <1>5, <2>1, Zenon DEF IsView, IsNext
  <2>4. w.coordRow = v.coordRow \/ w.coordRow = NoRow
    BY <1>5, <2>1, <2>2, Zenon DEF IsView, IsNext
  <2>5. RecoveryOK(q, i, w) /\ StoredOK(q, w)
    BY <2>2, <2>3, Zenon DEF RecoveryOK, StoredOK
  <2> QED
    BY <2>2, <2>3, <2>4, <2>5, Zenon DEF Recovered, v, w
<1>7. RecoveryMove(i, "recoverWorker", R)
  BY <1>1, <1>2, <1>5, <1>6, Zenon DEF RecoveryMove, TypeOK
<1> QED
  BY <1>1, <1>2, <1>7, RecoveryMoveKeeps, Zenon

LEMMA DeleteWorkerArrayLocksKeeps ==
    ASSUME CommitInv, LocksInv', NEW i \in Instance, deleteWorkerArrayLocks(i)
    PROVE  CommitInv'
<1>1. TypeOK /\ {} \in SUBSET Queries /\ "up" \in NodeState
  BY Zenon DEF CommitInv, AssertionsHold, NodeState
<1>2. /\ node[i] = "recoverWorker" /\ node[i] # "up" /\ recovering[i] = {} /\ Resting /\ stored' = stored
      /\ node' = [node EXCEPT ![i] = "up"] /\ recovering' = recovering
      /\ rows' = [q \in Queries |-> IF i = coordOf[q] THEN rows[q] ELSE [rows[q] EXCEPT ![i] = NoRow]]
  BY DEF deleteWorkerArrayLocks, Resting, Coordinator
<1>3. node'[i] = "up" /\ recovering' = [recovering EXCEPT ![i] = {}]
  BY <1>1, <1>2, Zenon DEF TypeOK
<1>4. /\ rows' \in [Queries -> [Instance -> Nat \cup {NoRow}]]
      /\ \A q \in Queries : rows'[q][i] = IF i = coordOf[q] THEN rows[q][i] ELSE NoRow
      /\ \A q \in Queries, j \in Instance \ {i} : rows'[q][j] = rows[q][j]
  BY <1>1, <1>2, Zenon DEF TypeOK
<1>5. ASSUME NEW q \in Queries
      PROVE  Recovered(q, i, View(q, i), NextView(q, i))
  <2> DEFINE v == View(q, i)
             w == NextView(q, i)
  <2>1. IsView(q, i, v) /\ IsNext(q, i, w) /\ v = View(q, i)
    BY ViewFacts, NextViewFacts, Zenon
  <2> HIDE DEF v, w
  <2>2. /\ w.versions = v.versions /\ w.workers = v.workers /\ w.reporters \subseteq v.reporters
        /\ (Wrote(q, v) <=> Committed(q)) /\ (Wrote(q, w) <=> Committed(q))
        /\ RecoveryOK(q, i, v) /\ StoredOK(q, v) /\ coordOf[q] \in Instance
        /\ RowOK(q, i, NoQuery, stack[q][i], v)
    BY <1>2, <2>1, RecoveryFacts
  <2>3. /\ w.row = (IF i = coordOf[q] THEN v.row ELSE NoRow) /\ w.stored = v.stored
        /\ v.node = "recoverWorker" /\ w.node = "up" /\ v.recovering = {}
    BY <1>2, <1>3, <1>4, <2>1, Zenon DEF IsView, IsNext
  <2>4. w.coordRow = v.coordRow \/ w.coordRow = NoRow
    BY <1>4, <2>1, <2>2, Zenon DEF IsView, IsNext
  <2>5. w.row = NoRow
    BY <2>2, <2>3, Zenon DEF RowOK
  <2>6. RecoveryOK(q, i, w) /\ StoredOK(q, w)
    BY <2>2, <2>3, Zenon DEF RecoveryOK, StoredOK
  <2> QED
    BY <2>2, <2>3, <2>4, <2>5, <2>6, Zenon DEF Recovered, v, w
<1>6. RecoveryMove(i, "up", {})
  BY <1>1, <1>2, <1>3, <1>4, <1>5, Zenon DEF RecoveryMove, TypeOK
<1> QED
  BY <1>1, <1>2, <1>6, RecoveryMoveKeeps, Zenon

--------------------------------------------------------------------------------
(* A worker reports. *)

OneMoreReporter(v, w, i) ==
    /\ w.node = v.node /\ w.recovering = v.recovering /\ w.stored = v.stored
    /\ w.row = v.row /\ w.coordRow = v.coordRow /\ w.versions = v.versions
    /\ w.workers = v.workers /\ w.reporters \subseteq v.reporters \cup {i}

LEMMA OneMoreReporterKeeps ==
    ASSUME NEW q, NEW j, NEW i, NEW pc, NEW o, NEW k, NEW v, NEW w,
           Data(q, j, pc, o, k, v), OneMoreReporter(v, w, i), i # j,
           j = coordOf[q] => pc \notin BeforePlan
    PROVE  Data(q, j, pc, o, k, w)
<1>1. (Wrote(q, w) <=> Wrote(q, v)) /\ LastOf(w) = LastOf(v)
  BY Zenon DEF OneMoreReporter, Wrote, LastOf
<1>2. RowOK(q, j, o, k, w) /\ RecoveryOK(q, j, w) /\ StoredOK(q, w)
  BY <1>1, Zenon DEF Data, RowOK, RecoveryOK, StoredOK, OneMoreReporter
<1>3. ChunksOK(q, j, pc, o, k, w)
  BY <1>1, Zenon DEF Data, ChunksOK, OneMoreReporter
<1>4. j = coordOf[q] => CoordinatorRow(q, pc, o, k, w)
  BY <1>1, Zenon DEF Data, CoordinatorRow, OneMoreReporter
<1>5. j # coordOf[q] => ReportsOK(q, j, pc, o, w)
  BY <1>1, Zenon DEF Data, ReportsOK, HasDone, OneMoreReporter
<1> QED
  BY <1>2, <1>3, <1>4, <1>5, Zenon DEF Data

LEMMA ReporterData ==
    ASSUME NEW q, NEW i, NEW o, NEW k, NEW v, NEW w, i # coordOf[q],
           Data(q, i, "sendResult", o, k, v), OneMoreReporter(v, w, i), o # NoQuery => o.status = "OK"
    PROVE  Data(q, i, "ended", o, k, w)
<1>1. (Wrote(q, w) <=> Wrote(q, v)) /\ LastOf(w) = LastOf(v)
  BY Zenon DEF OneMoreReporter, Wrote, LastOf
<1>2. RowOK(q, i, o, k, w) /\ RecoveryOK(q, i, w) /\ StoredOK(q, w)
  BY <1>1, Zenon DEF Data, RowOK, RecoveryOK, StoredOK, OneMoreReporter
<1>3. ChunksOK(q, i, "ended", o, k, w)
  BY <1>1, Zenon DEF Data, ChunksOK, OneMoreReporter
<1>4. ReportsOK(q, i, "ended", o, w)
  BY <1>1, Zenon DEF Data, ReportsOK, HasDone, OneMoreReporter
<1> QED
  BY <1>2, <1>3, <1>4, Zenon DEF Data

LEMMA SendResultKeeps ==
    ASSUME CommitInv, NEW q \in Queries, NEW i \in Instance, sendResult(q, i)
    PROVE  CommitInv'
<1> DEFINE o == query[q][i]
           k == stack[q][i]
<1>1. /\ exec[q][i] = "sendResult" /\ k["exec"] = <<>> /\ Goto(q, i, "ended") /\ coordOf[q] \in Instance
      /\ Shape /\ LocksInv /\ DataOK /\ VersionsOK /\ MessagesOK
  BY Zenon DEF sendResult, At, CommitInv, LocksInv, AssertionsHold, Shape
<1>2. /\ TypeOK /\ StackOK(k) /\ o \in QueryObject \cup {NoQuery}
      /\ Local(q, i, "sendResult", o, k, node[i]) /\ Data(q, i, "sendResult", o, k, View(q, i))
  BY <1>1, Before, Zenon
<1>3. i # coordOf[q]
  BY <1>2, Zenon DEF Local, CoordinatorOK, Started
<1>4. /\ Moves(q, i, "ended", o, k) /\ UNCHANGED <<machine, failed>>
      /\ rows' = rows /\ versions' = versions /\ stored' = stored /\ plan' = plan
      /\ node' = node /\ recovering' = recovering
  BY <1>1, <1>2, StaysFacts, Zenon DEF sendResult, Moves, Goto, Obj, catalog, machine
<1>5. Local(q, i, "ended", o, k, node[i])
  BY <1>1, <1>2, <1>3, EndLocal, Zenon DEF EndMoves
<1>6. o # NoQuery => o.status = "OK"
  BY <1>2, <1>3, Zenon DEF Local, WorkerOK
<1>7. "ended" \in ExecState /\ MovesOn(q, i, "ended") /\ exec[q][i] # "idle"
  BY <1>1, <1>3, Zenon DEF ExecState, MovesOn
<1>8. \A m \in msgs' \ msgs : m \in Message /\ m.type = "mtQueryResult" /\ m.from = i /\ m.query = q
  BY <1>1 DEF sendResult, Send, Message, MessageType
<1>9. Posts
  BY <1>3, <1>8, Zenon DEF Posts, MessageOK, IsPlan, NotificationType
<1>10. /\ rows' \in [Queries -> [Instance -> Nat \cup {NoRow}]]
       /\ versions' \in [Arrays -> SUBSET [version : Nat, writer : Queries]]
       /\ stored' \in [Instance -> SUBSET Queries]
       /\ \A p \in Queries : Committed(p) => Committed(p)'
  BY <1>2, <1>4, Zenon DEF TypeOK, Committed
<1>11. /\ AssertionsHold' /\ ThreadsOK' /\ MessagesOK' /\ SameElsewhere(q, i)
       /\ exec'[q][i] = "ended" /\ query'[q][i] = o /\ stack'[q][i] = k
       /\ Queries' = Queries /\ Instance' = Instance
  BY <1>2, <1>4, <1>5, <1>7, <1>9, <1>10, MoveStep, Zenon
<1>12. ASSUME NEW p \in Queries
       PROVE  Reporters(p)' \subseteq Reporters(p) \cup (IF p = q THEN {i} ELSE {})
  <2>1. query' = query
    BY Zenon DEF sendResult
  <2> QED
    BY <1>8, <1>11, <2>1, Zenon DEF Reporters
<1>13. ASSUME NEW p \in Queries, NEW j \in Instance
       PROVE  Data(p, j, exec'[p][j], query'[p][j], stack'[p][j], View(p, j)')
  <2>1. CASE p # q
    <3>1. Data(p, j, exec'[p][j], query'[p][j], stack'[p][j], View(p, j))
      BY <1>1, <1>11, <2>1, Zenon DEF DataOK, SameElsewhere, SameAt
    <3>2. FewerReporters(View(p, j), View(p, j)')
      BY <1>4, <1>11, <1>12, <2>1, Zenon DEF FewerReporters, View, Workers
    <3> QED
      BY <3>1, <3>2, FewerReportersKeep, Zenon
  <2>2. CASE p = q
    <3>1. OneMoreReporter(View(p, j), View(p, j)', i)
      BY <1>4, <1>11, <1>12, <2>2, Zenon DEF OneMoreReporter, View, Workers
    <3>2. CASE j = i
      BY <1>2, <1>3, <1>6, <1>11, <2>2, <3>1, <3>2, ReporterData
    <3>3. CASE j # i
      <4>1. Data(p, j, exec'[p][j], query'[p][j], stack'[p][j], View(p, j))
        BY <1>1, <1>11, <3>3, Zenon DEF DataOK, SameElsewhere, SameAt
      <4>2. exec[q][coordOf[q]] \notin BeforePlan
        BY <1>1, <1>3, Zenon DEF MessagesOK, PlanOnce, Workers, Unstarted
      <4>3. j = coordOf[q] => exec'[p][j] \notin BeforePlan
        BY <1>11, <2>2, <3>3, <4>2 DEF SameElsewhere, SameAt
      <4> QED
        BY <2>2, <3>1, <3>3, <4>1, <4>3, OneMoreReporterKeeps, Zenon
    <3> QED
      BY <3>2, <3>3, Zenon
  <2> QED
    BY <2>1, <2>2, Zenon
<1>14. DataOK'
  BY <1>11, <1>13, Zenon DEF DataOK
<1>15. LocksInv' /\ VersionsOK'
  BY <1>1, <1>4, SameRowsKeep, Zenon DEF VersionsOK, VersionsAreConsecutive
<1> QED
  BY <1>11, <1>14, <1>15, Zenon DEF CommitInv
=================================================================================
