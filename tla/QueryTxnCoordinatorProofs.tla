----------------------- MODULE QueryTxnCoordinatorProofs -----------------------
(***************************************************************************)
(* The steps of the coordinator's session keep the invariant of the commit *)
(* protocol; so do the steps of many threads: a crash, a lost connection,  *)
(* the preparation of a new query, and sending the plan to the workers.    *)
(***************************************************************************)
EXTENDS QueryTxnProofs

(* It goes on in another status, having found no error. *)
CoordinatorTurns == {<<"parsed", "prepared", "INIT">>, <<"stop", "planned", "INIT">>,
    <<"planned", "store", "START">>, <<"done", "finished", "OK">>}

LEMMA CoordinatorTurnLocal ==
    ASSUME NEW q, NEW i, i = coordOf[q], NEW o, NEW n, NEW k, NEW nd, NEW pc, NEW pd,
           Local(q, i, pc, o, k, nd), SameEntries(o, n), ~o.error,
           <<pc, pd, n.status>> \in CoordinatorTurns
    PROVE  Local(q, i, pd, n, k, nd)
<1>1. o.commit = "UNKNOWN" /\ Armed(o)
  BY SameEntriesFacts, Zenon DEF Local, ObjectOK, SwappedOnce, SameEntries
<1>2. CoordinatorOK(pd, n)
  BY <1>1, SameEntriesFacts, Zenon DEF Local, CoordinatorOK, CoordinatorTurns, Started, BeforeHandler, AfterHandler
<1>3. ObjectOK(pd, n, k, nd)
  BY <1>1, SameEntriesFacts, Zenon DEF Local, ObjectOK, SwappedOnce, CoordinatorTurns, SameEntries
<1> QED
  BY <1>2, <1>3, SameEntriesFacts, Zenon DEF Local

LEMMA TurnRow ==
    ASSUME NEW q, NEW pc, NEW pd, NEW o, NEW n, NEW k, NEW v,
           CoordinatorRow(q, pc, o, k, v), SameButStatus(o, n), Armed(o),
           <<pc, pd>> \in {<<"locked", "parsed">>, <<"parsed", "prepared">>, <<"broadcast", "stop">>,
                           <<"stop", "planned">>, <<"planned", "store">>, <<"done", "finished">>}
    PROVE  CoordinatorRow(q, pd, n, k, v)
<1>1. Armed(n) /\ (Recording(n, k) <=> Recording(o, k))
  BY SameEntriesFacts, Zenon DEF SameButStatus, SameEntries, Recording
<1> QED
  BY <1>1, Zenon DEF CoordinatorRow, BeforePlan, SameButStatus, SameEntries, Armed

(* prepareQueryAfterLocking, stop, completeExecuteQuery and done change the       *)
(* status of a query that has no error.                                           *)
LEMMA TurnKeeps ==
    ASSUME CommitInv, NEW q \in Queries, NEW c, c = coordOf[q], NEW pc, NEW pd, NEW s,
           exec[q][c] = pc, NoError(q, c), <<pc, pd, s>> \in CoordinatorTurns,
           query' = [query EXCEPT ![q][c].status = s], Goto(q, c, pd), stack' = stack,
           UNCHANGED <<catalog, stored, machine, failed>>, msgs' \subseteq msgs
    PROVE  ThreadMove
<1> DEFINE o == query[q][c]
           k == stack[q][c]
           n == [o EXCEPT !.status = s]
<1>1. c \in Instance
  BY Zenon DEF CommitInv, LocksInv
<1>2. /\ o # NoQuery /\ o \in QueryObject /\ ~o.error /\ TypeOK
      /\ Local(q, c, pc, o, k, node[c]) /\ Data(q, c, pc, o, k, View(q, c))
  BY <1>1, Before, Zenon DEF NoError
<1>3. Calm(q, c, pd, n, k)
  BY <1>1, <1>2, StaysFacts, Zenon DEF Calm, Moves, Goto
<1>4. pd \in ExecState /\ pd # "none" /\ (pd \in BeforePlan => exec[q][c] \in BeforePlan)
  BY Zenon DEF CoordinatorTurns, ExecState, BeforePlan
<1>5. s \in {"INIT", "START", "OK"}
  BY Zenon DEF CoordinatorTurns
<1>6. n \in QueryObject /\ SameButStatus(o, n) /\ SameEntries(o, n) /\ n.status = s /\ n.results = o.results
  BY <1>2, <1>5, Zenon DEF SameEntries, SameButStatus, QueryObject
<1> HIDE DEF n
<1>7. Local(q, c, pd, n, k, node[c])
  BY <1>2, <1>6, CoordinatorTurnLocal, Zenon
<1>8. CoordinatorRow(q, pd, n, k, View(q, c))
  <2>1. <<pc, pd>> \in {<<"parsed", "prepared">>, <<"stop", "planned">>, <<"planned", "store">>,
                        <<"done", "finished">>}
    BY Zenon DEF CoordinatorTurns
  <2>2. Armed(o) /\ CoordinatorRow(q, pc, o, k, View(q, c))
    BY <1>2, NoErrorArmed, Zenon DEF Data
  <2> QED
    BY <1>6, <2>1, <2>2, TurnRow, Zenon
<1>9. Data(q, c, pd, n, k, View(q, c))
  BY <1>2, <1>6, <1>8, StatusData, Zenon
<1> QED
  BY <1>2, <1>3, <1>4, <1>6, <1>7, <1>9, CoordinatorStep, Zenon

LEMMA StatusStepsKeep ==
    ASSUME CommitInv, NEW q \in Queries,
           \/ prepareQueryAfterLocking(q) \/ stop(q) \/ completeExecuteQuery(q)
           \/ done(q, coordOf[q])
    PROVE  ThreadMove
<1>1. CASE prepareQueryAfterLocking(q)
  <2>1. <<"parsed", "prepared", "INIT">> \in CoordinatorTurns
    BY Zenon DEF CoordinatorTurns
  <2> QED
    BY <1>1, <2>1, TurnKeeps, Zenon DEF prepareQueryAfterLocking, At
<1>2. CASE stop(q)
  <2>1. <<"stop", "planned", "INIT">> \in CoordinatorTurns
    BY Zenon DEF CoordinatorTurns
  <2> QED
    BY <1>2, <2>1, TurnKeeps, Zenon DEF stop, At
<1>3. CASE completeExecuteQuery(q)
  <2>1. <<"planned", "store", "START">> \in CoordinatorTurns
    BY Zenon DEF CoordinatorTurns
  <2>2. msgs' \subseteq msgs
    BY <1>3, Zenon DEF completeExecuteQuery
  <2> QED
    BY <1>3, <2>1, <2>2, TurnKeeps, Zenon DEF completeExecuteQuery, At
<1>4. CASE done(q, coordOf[q])
  <2>1. <<"done", "finished", "OK">> \in CoordinatorTurns
    BY Zenon DEF CoordinatorTurns
  <2> QED
    BY <1>4, <2>1, TurnKeeps, Zenon DEF done, At, Coordinator
<1> QED
  BY <1>1, <1>2, <1>3, <1>4, Zenon

LEMMA CancelPlannedKeeps ==
    ASSUME CommitInv, NEW q \in Queries, cancelPlanned(q)
    PROVE  ThreadMove
<1> DEFINE c == coordOf[q]
           o == query[q][c]
           k == stack[q][c]
<1>1. c \in Instance
  BY Zenon DEF CommitInv, LocksInv
<1>2. /\ exec[q][c] = "planned" /\ TypeOK /\ k["exec"] = <<>>
      /\ o \in QueryObject \cup {NoQuery} /\ StackOK(k)
      /\ Local(q, c, "planned", o, k, node[c]) /\ Data(q, c, "planned", o, k, View(q, c))
  BY <1>1, Before, Zenon DEF cancelPlanned, At
<1>3. Calm(q, c, "cancel", o, k)
  BY <1>1, <1>2, StaysFacts, Zenon DEF cancelPlanned, Calm, Moves, Goto, Obj
<1>4. "cancel" \in ExecState /\ MovesOn(q, c, "cancel") /\ msgs' = msgs
  BY <1>2, Zenon DEF cancelPlanned, ExecState, BeforePlan, MovesOn
<1>5. Posts /\ \A m \in msgs' \ msgs : m.type # "mtQueryResult"
  BY <1>4, Zenon DEF Posts
<1>6. Local(q, c, "cancel", o, k, node[c])
  BY <1>2, EndLocal, Zenon DEF EndMoves
<1>7. Data(q, c, "cancel", o, k, View(q, c))
  BY <1>2, Zenon DEF Data, CoordinatorRow, BeforePlan, ChunksOK
<1> QED
  BY <1>1, <1>2, <1>3, <1>4, <1>5, <1>6, <1>7, CalmStep, ResultsAreReports, Zenon DEF CalmMove

LEMMA ValidateLocksKeeps ==
    ASSUME CommitInv, NEW q \in Queries, validateLocks(q)
    PROVE  ThreadMove
<1> DEFINE c == coordOf[q]
           o == query[q][c]
           k == stack[q][c]
<1>1. c \in Instance
  BY DEF CommitInv, LocksInv
<1>2. /\ o # NoQuery /\ o \in QueryObject /\ ~o.error /\ exec[q][c] = "locked" /\ TypeOK
      /\ Local(q, c, "locked", o, k, node[c]) /\ Data(q, c, "locked", o, k, View(q, c))
  BY <1>1, Before, Zenon DEF validateLocks, At, NoError
<1>3. Calm(q, c, "parsed", o, k)
  BY <1>1, <1>2, StaysFacts, Zenon DEF validateLocks, Calm, Moves, Goto, Obj
<1>4. msgs' \subseteq msgs /\ "parsed" \in ExecState /\ exec[q][c] \in BeforePlan
  BY <1>2, Zenon DEF validateLocks, ExecState, BeforePlan
<1>5. SameEntries(o, o) /\ SameButStatus(o, o)
  BY <1>2, Zenon DEF SameEntries, SameButStatus
<1>6. Local(q, c, "parsed", o, k, node[c])
  BY <1>2, <1>5, CoordinatorMoveLocal, Zenon DEF CoordinatorMoves
<1>7. CoordinatorRow(q, "parsed", o, k, View(q, c))
  BY <1>2, <1>5, NoErrorArmed, TurnRow DEF Data
<1>8. Data(q, c, "parsed", o, k, View(q, c))
  BY <1>2, <1>5, <1>7, StatusData
<1> QED
  BY <1>2, <1>3, <1>4, <1>6, <1>8, CoordinatorStep, Zenon

LEMMA AcquireLocksKeeps ==
    ASSUME CommitInv, NEW q \in Queries, acquireLocks(q)
    PROVE  ThreadMove
<1> DEFINE c == coordOf[q]
           o == query[q][c]
           k == stack[q][c]
           n == [o EXCEPT !.finalizers = Append(@, "releaseLocks")]
<1>1. c \in Instance
  BY DEF CommitInv, LocksInv
<1>2. /\ o # NoQuery /\ o \in QueryObject /\ ~o.error /\ exec[q][c] = "acquireLocks" /\ TypeOK
      /\ Local(q, c, "acquireLocks", o, k, node[c]) /\ Data(q, c, "acquireLocks", o, k, View(q, c))
      /\ k["exec"] = <<>>
  BY <1>1, Before, Zenon DEF acquireLocks, At, NoError
<1>3. Calm(q, c, "lockArrays", n, k) /\ msgs' \subseteq msgs
  BY <1>1, <1>2, StaysFacts, Zenon DEF acquireLocks, Calm, Moves, Goto
<1> HIDE DEF o, k
<1>4. "lockArrays" \in ExecState /\ exec[q][c] \in BeforePlan
  BY <1>2, Zenon DEF ExecState, BeforePlan
<1>5. Armed(o) /\ o.commit = "UNKNOWN" /\ node[c] = "up"
  BY <1>2, NoErrorArmed, Zenon
<1>6. /\ Hs(o) = {"BroadcastAbort"} /\ Fs(o) = {"destroy", "broadcastCommit"} /\ o.status = "START"
      /\ Descending(o.finalizers) /\ Descending(o.errorHandlers) /\ o.finalizers \in Seq(Finalizer)
  BY <1>2, <1>5, Zenon DEF Local, CoordinatorOK, Started, Ordered, QueryObject
<1>7. /\ Append(o.finalizers, "releaseLocks") \in Seq(Finalizer)
      /\ Descending(Append(o.finalizers, "releaseLocks"))
      /\ Range(Append(o.finalizers, "releaseLocks")) = Fs(o) \cup {"releaseLocks"}
  <2>1. Finalizer \in SUBSET Entry /\ "releaseLocks" \in Finalizer
    BY Zenon DEF Entry, Finalizer
  <2>2. \A y \in Range(o.finalizers) : Rank["releaseLocks"] < Rank[y]
    BY <1>6, Ranks DEF Fs, Rank
  <2> QED
    BY <1>6, <2>1, <2>2, PushKeeps DEF Fs
<1>8. /\ n \in QueryObject /\ n.finalizers = Append(o.finalizers, "releaseLocks")
      /\ n.errorHandlers = o.errorHandlers /\ n.commit = o.commit /\ n.status = o.status
      /\ n.version = o.version /\ n.hasId = o.hasId /\ n.results = o.results /\ n.error = o.error
  BY <1>2, <1>7, Zenon DEF QueryObject
<1> HIDE DEF n
<1>9. /\ Hs(n) = {"BroadcastAbort"} /\ Fs(n) = {"destroy", "broadcastCommit", "releaseLocks"}
      /\ n # NoQuery /\ Armed(n)
  BY <1>6, <1>7, <1>8 DEF Hs, Fs, Armed, QueryObject, NoQuery
<1>10. CoordinatorOK("lockArrays", n)
  BY <1>6, <1>8, <1>9, Zenon DEF CoordinatorOK, Started, BeforeHandler, AfterHandler
<1>11. Local(q, c, "lockArrays", n, k, node[c])
  BY <1>2, <1>5, <1>6, <1>7, <1>8, <1>9, <1>10, PushLocal, Zenon
<1>12. CoordinatorRow(q, "lockArrays", n, k, View(q, c))
  BY <1>2, <1>5, <1>8, Zenon DEF Data, CoordinatorRow, BeforePlan, Recording
<1>13. Data(q, c, "lockArrays", n, k, View(q, c))
  BY <1>2, <1>5, <1>6, <1>8, <1>9, <1>12, PushData, Zenon
<1> QED
  BY <1>2, <1>3, <1>4, <1>8, <1>11, <1>13, CoordinatorStep, Zenon DEF o, k

LEMMA StartExecuteQueryKeeps ==
    ASSUME CommitInv, NEW q \in Queries, startExecuteQuery(q)
    PROVE  ThreadMove
<1> DEFINE c == coordOf[q]
           o == query[q][c]
           k == stack[q][c]
           n == [o EXCEPT !.status = "START", !.errorHandlers = Append(@, "UpdateErrorHandler")]
<1>1. c \in Instance
  BY DEF CommitInv, LocksInv
<1>2. /\ o # NoQuery /\ o \in QueryObject /\ ~o.error /\ exec[q][c] = "prepared" /\ TypeOK
      /\ Local(q, c, "prepared", o, k, node[c]) /\ Data(q, c, "prepared", o, k, View(q, c))
      /\ k["exec"] = <<>>
  BY <1>1, Before, Zenon DEF startExecuteQuery, At, NoError
<1>3. Calm(q, c, "preSingleExecute", n, k) /\ msgs' \subseteq msgs
  <2>1. query' = [query EXCEPT ![q][c] = n]
    BY <1>1, <1>2, Zenon DEF startExecuteQuery, TypeOK
  <2> QED
    BY <1>1, <1>2, <2>1, StaysFacts, Zenon DEF startExecuteQuery, Calm, Moves, Goto
<1> HIDE DEF o, k
<1>4. "preSingleExecute" \in ExecState /\ exec[q][c] \in BeforePlan
  BY <1>2, Zenon DEF ExecState, BeforePlan
<1>5. Armed(o) /\ o.commit = "UNKNOWN" /\ node[c] = "up"
  BY <1>2, NoErrorArmed, Zenon
<1>6. /\ Hs(o) = {"BroadcastAbort"} /\ Fs(o) = {"destroy", "broadcastCommit", "releaseLocks"}
      /\ Descending(o.finalizers) /\ Descending(o.errorHandlers) /\ o.errorHandlers \in Seq(Handler)
  BY <1>2, <1>5, Zenon DEF Local, CoordinatorOK, BeforeHandler, Ordered, QueryObject
<1>7. /\ Append(o.errorHandlers, "UpdateErrorHandler") \in Seq(Handler)
      /\ Descending(Append(o.errorHandlers, "UpdateErrorHandler"))
      /\ Range(Append(o.errorHandlers, "UpdateErrorHandler")) = Hs(o) \cup {"UpdateErrorHandler"}
  <2>1. Handler \in SUBSET Entry /\ "UpdateErrorHandler" \in Handler
    BY Zenon DEF Entry, Handler
  <2>2. \A y \in Range(o.errorHandlers) : Rank["UpdateErrorHandler"] < Rank[y]
    BY <1>6, Ranks, Zenon DEF Hs
  <2> QED
    BY <1>6, <2>1, <2>2, PushKeeps DEF Hs
<1>8. /\ n \in QueryObject /\ n.errorHandlers = Append(o.errorHandlers, "UpdateErrorHandler")
      /\ n.finalizers = o.finalizers /\ n.commit = o.commit /\ n.status = "START"
      /\ n.version = o.version /\ n.hasId = o.hasId /\ n.results = o.results /\ n.error = o.error
  BY <1>2, <1>7, Zenon DEF QueryObject
<1> HIDE DEF n
<1>9. /\ Hs(n) = Handler /\ Fs(n) = {"destroy", "broadcastCommit", "releaseLocks"}
      /\ n # NoQuery /\ Armed(n)
  BY <1>6, <1>7, <1>8 DEF Hs, Fs, Armed, QueryObject, NoQuery, Handler
<1>10. CoordinatorOK("preSingleExecute", n)
  BY <1>6, <1>8, <1>9, Zenon DEF CoordinatorOK, Started, BeforeHandler, AfterHandler
<1>11. Local(q, c, "preSingleExecute", n, k, node[c])
  BY <1>2, <1>5, <1>6, <1>7, <1>8, <1>9, <1>10, PushLocal, Zenon
<1>12. CoordinatorRow(q, "preSingleExecute", n, k, View(q, c))
  BY <1>2, <1>5, <1>8, Zenon DEF Data, CoordinatorRow, BeforePlan, Recording
<1>13. Data(q, c, "preSingleExecute", n, k, View(q, c))
  BY <1>2, <1>5, <1>6, <1>8, <1>9, <1>12, PushData, Zenon DEF Handler
<1> QED
  BY <1>2, <1>3, <1>4, <1>8, <1>11, <1>13, CoordinatorStep, Zenon DEF o, k

LEMMA PostSingleExecuteKeeps ==
    ASSUME CommitInv, NEW q \in Queries, postSingleExecute(q)
    PROVE  ThreadMove
<1> DEFINE c == coordOf[q]
           o == query[q][c]
           k == stack[q][c]
           n == [o EXCEPT !.finalizers = Append(@, "recordPersistent")]
<1>1. c \in Instance
  BY DEF CommitInv, LocksInv
<1>2. /\ o # NoQuery /\ o \in QueryObject /\ ~o.error /\ exec[q][c] = "semResults" /\ TypeOK
      /\ Local(q, c, "semResults", o, k, node[c]) /\ Data(q, c, "semResults", o, k, View(q, c))
      /\ k["exec"] = <<>>
  BY <1>1, Before, Zenon DEF postSingleExecute, At, NoError
<1>3. Calm(q, c, "done", n, k) /\ msgs' \subseteq msgs
  BY <1>1, <1>2, StaysFacts, Zenon DEF postSingleExecute, Calm, Moves, Goto
<1> HIDE DEF o, k
<1>4. "done" \in ExecState /\ "done" \notin BeforePlan
  BY <1>2, Zenon DEF ExecState, BeforePlan
<1>5. Armed(o) /\ o.commit = "UNKNOWN" /\ node[c] = "up"
  BY <1>2, NoErrorArmed, Zenon
<1>6. /\ Hs(o) = Handler /\ Fs(o) = {"destroy", "broadcastCommit", "releaseLocks"}
      /\ Descending(o.finalizers) /\ Descending(o.errorHandlers) /\ o.finalizers \in Seq(Finalizer)
      /\ o.status = "START"
  BY <1>2, <1>5, Zenon DEF Local, CoordinatorOK, AfterHandler, Started, Ordered, QueryObject
<1>7. /\ Append(o.finalizers, "recordPersistent") \in Seq(Finalizer)
      /\ Descending(Append(o.finalizers, "recordPersistent"))
      /\ Range(Append(o.finalizers, "recordPersistent")) = Fs(o) \cup {"recordPersistent"}
  <2>1. Finalizer \in SUBSET Entry /\ "recordPersistent" \in Finalizer
    BY Zenon DEF Entry, Finalizer
  <2>2. \A y \in Range(o.finalizers) : Rank["recordPersistent"] < Rank[y]
    BY <1>6, Ranks DEF Fs, Rank
  <2> QED
    BY <1>6, <2>1, <2>2, PushKeeps, Zenon DEF Fs
<1>8. /\ n \in QueryObject /\ n.finalizers = Append(o.finalizers, "recordPersistent")
      /\ n.errorHandlers = o.errorHandlers /\ n.commit = o.commit /\ n.status = "START"
      /\ n.version = o.version /\ n.hasId = o.hasId /\ n.results = o.results /\ n.error = o.error
  BY <1>2, <1>6, <1>7, Zenon DEF QueryObject
<1> HIDE DEF n
<1>9. /\ Hs(n) = Handler /\ Fs(n) = Finalizer /\ n # NoQuery /\ Armed(n)
  BY <1>6, <1>7, <1>8 DEF Hs, Fs, Armed, QueryObject, NoQuery, Finalizer
<1>10. CoordinatorOK("done", n)
  BY <1>6, <1>8, <1>9, Zenon DEF CoordinatorOK, Started, BeforeHandler, AfterHandler
<1>11. Local(q, c, "done", n, k, node[c])
  BY <1>2, <1>5, <1>6, <1>7, <1>8, <1>9, <1>10, PushLocal, Zenon
<1>12. CoordinatorRow(q, "done", n, k, View(q, c))
  <2>1. o.results = View(q, c).workers
    BY Zenon DEF View, postSingleExecute, Obj, o
  <2> QED
    BY <1>2, <1>5, <1>8, <2>1, Zenon DEF Data, CoordinatorRow, BeforePlan, Recording
<1>13. Data(q, c, "done", n, k, View(q, c))
  <2>1. Hs(o) \subseteq Hs(n) /\ Fs(o) \subseteq Fs(n)
    BY <1>6, <1>9, Zenon DEF Finalizer
  <2> QED
    BY <1>2, <1>5, <1>8, <1>9, <1>12, <2>1, PushData, Zenon
<1> QED
  BY <1>2, <1>3, <1>4, <1>8, <1>11, <1>13, CoordinatorStep, Zenon DEF o, k

LEMMA PreSingleExecuteKeeps ==
    ASSUME CommitInv, NEW q \in Queries, preSingleExecute(q)
    PROVE  ThreadMove
<1> DEFINE c == coordOf[q]
           o == query[q][c]
           k == stack[q][c]
           v == View(q, c)
           n == [o EXCEPT !.version = LastVersion(arrayOf[q]) + 1, !.hasId = TRUE]
<1>1. c \in Instance /\ arrayOf[q] \in Arrays
  BY QueryTxnAssumption, Zenon DEF CommitInv, LocksInv, Plan, Queries
<1>2. /\ exec[q][c] = "preSingleExecute" /\ TypeOK
      /\ Local(q, c, "preSingleExecute", o, k, node[c]) /\ Data(q, c, "preSingleExecute", o, k, v)
  BY <1>1, Before, Zenon DEF preSingleExecute, At
<1>3. Armed(o) /\ o # NoQuery /\ o.status = "START"
  BY <1>2, Zenon DEF Local, CoordinatorOK, Started, Armed
<1>4. o \in QueryObject
  BY <1>1, <1>3, Before, Zenon
<1>5. Calm(q, c, "updateArrayLock", n, k) /\ msgs' \subseteq msgs
  <2>1. query' = [query EXCEPT ![q][c] = n]
    BY <1>1, <1>2, Zenon DEF preSingleExecute, TypeOK
  <2> QED
    BY <1>1, <1>2, <2>1, StaysFacts, Zenon DEF preSingleExecute, Calm, Moves, Goto
<1> HIDE DEF o, k
<1>6. "updateArrayLock" \in ExecState /\ exec[q][c] \in BeforePlan
  BY <1>2, Zenon DEF ExecState, BeforePlan
<1>7. LastVersion(arrayOf[q]) \in Nat
  BY <1>1, LastVersionFacts, Zenon
<1>8. /\ n \in QueryObject /\ n.errorHandlers = o.errorHandlers /\ n.finalizers = o.finalizers
      /\ n.commit = o.commit /\ n.status = o.status /\ n.results = o.results /\ n.error = o.error
      /\ n.version = LastVersion(arrayOf[q]) + 1
  <2> DEFINE w == LastVersion(arrayOf[q]) + 1
  <2>1. w \in Nat
    BY <1>7
  <2> HIDE DEF w
  <2>2. [o EXCEPT !.version = w, !.hasId = TRUE] \in QueryObject
    BY <1>4, <2>1, Zenon DEF QueryObject
  <2> QED
    BY <1>4, <2>2, Zenon DEF QueryObject, w
<1> HIDE DEF n
<1>9. SameEntries(o, n)
  BY <1>4, <1>8, Zenon DEF SameEntries
<1>10. Local(q, c, "updateArrayLock", n, k, node[c])
  BY <1>2, <1>8, <1>9, CoordinatorMoveLocal, Zenon DEF CoordinatorMoves
<1>11. Hs(n) = Hs(o) /\ Fs(n) = Fs(o) /\ Armed(n) /\ ~Recording(o, k) /\ ~Recording(n, k)
  BY <1>2, <1>3, <1>9, SameEntriesFacts, Zenon DEF Local, SwappedOnce, Recording
<1>12. IsView(q, c, v)
  BY ViewFacts, Zenon
<1> HIDE DEF v
<1>13. CoordinatorRow(q, "updateArrayLock", n, k, v)
  BY <1>2, <1>3, <1>8, <1>11, <1>12, Zenon DEF Data, CoordinatorRow, BeforePlan, IsView
<1>14. RowOK(q, c, n, k, v) /\ ChunksOK(q, c, "updateArrayLock", n, k, v)
  BY <1>2, <1>3, <1>11, Zenon DEF Data, RowOK, ChunksOK
<1>15. Data(q, c, "updateArrayLock", n, k, v)
  BY <1>2, <1>13, <1>14, Zenon DEF Data
<1> QED
  BY <1>3, <1>5, <1>6, <1>8, <1>10, <1>15, CoordinatorStep, Zenon DEF o, k, v

(* Before the plan no worker has reported, nor has anything to report. *)
LEMMA NobodyReported ==
    ASSUME CommitInv, NEW q \in Queries, exec[q][coordOf[q]] \in BeforePlan
    PROVE  \A j \in Workers(q) : ~HasDone(j, exec[q][j], query[q][j], View(q, j))
<1>1. coordOf[q] \in Instance
  BY Zenon DEF CommitInv, LocksInv
<1>2. Reporters(q) = {}
  <2>1. View(q, coordOf[q]).reporters = {}
    BY <1>1, Before, Zenon DEF Data, CoordinatorRow
  <2> QED
    BY <2>1, ViewFacts, Zenon DEF IsView
<1>3. ASSUME NEW j \in Workers(q)
      PROVE  exec[q][j] # "sendResult" /\ ~(query[q][j] # NoQuery /\ query[q][j].status = "OK")
  <2>1. j \in Instance /\ j # coordOf[q] /\ Unstarted(exec[q][j], query[q][j])
    BY Zenon DEF CommitInv, MessagesOK, PlanOnce, Workers
  <2>2. WorkerOK(exec[q][j], query[q][j], stack[q][j]) /\ ObjectOK(exec[q][j], query[q][j], stack[q][j], node[j])
    BY <2>1, Before, Zenon DEF Local
  <2> QED
    BY <1>3, <2>1, <2>2, Zenon DEF Unstarted, WorkerOK, ObjectOK
<1>4. ASSUME NEW j
      PROVE  View(q, j).reporters = {}
  BY <1>2, ViewFacts, Zenon DEF IsView
<1> QED
  BY <1>3, <1>4, Zenon DEF HasDone

LEMMA LockArraysCommit ==
    ASSUME CommitInv, NEW q \in Queries, lockArrays(q)
    PROVE  ThreadMove
<1> DEFINE c == coordOf[q]
           o == query[q][c]
           k == stack[q][c]
           v == View(q, c)
           w == RowView(q, c, 0)
<1>1. c \in Instance
  BY DEF CommitInv, LocksInv
<1>2. /\ exec[q][c] = "lockArrays" /\ TypeOK /\ StackOK(k)
      /\ Local(q, c, "lockArrays", o, k, node[c]) /\ Data(q, c, "lockArrays", o, k, v)
  BY <1>1, Before, Zenon DEF lockArrays, At
<1>3. Armed(o) /\ o # NoQuery /\ o.status = "START"
  BY <1>2, Zenon DEF Local, CoordinatorOK, Started, Armed
<1>4. o \in QueryObject /\ SameEntries(o, o)
  BY <1>1, <1>3, Before, Zenon DEF SameEntries
<1>5. Moves(q, c, "locked", o, k)
  BY <1>1, <1>2, StaysFacts, Zenon DEF lockArrays, Moves, Goto, Obj
<1> HIDE DEF o, k
<1>6. /\ "locked" \in ExecState /\ MovesOn(q, c, "locked") /\ exec[q][c] \in BeforePlan
      /\ exec[q][c] # "idle"
  BY <1>2, Zenon DEF ExecState, BeforePlan, MovesOn
<1>7. Local(q, c, "locked", o, k, node[c])
  BY <1>2, <1>4, CoordinatorMoveLocal, Zenon DEF CoordinatorMoves
<1>8. /\ Fs(o) = {"destroy", "broadcastCommit", "releaseLocks"} /\ Hs(o) = {"BroadcastAbort"}
      /\ ~Recording(o, k) /\ node[c] = "up" /\ ~HandlerPending(k) /\ o.commit # "COMMITTED"
  BY <1>2, <1>3, Zenon DEF Local, CoordinatorOK, BeforeHandler, SwappedOnce, Recording, ObjectOK, HandlerPending, Thread
<1>v. IsView(q, c, v) /\ IsRowView(q, c, 0, w)
  BY ViewFacts, RowViewFacts, Zenon
<1> HIDE DEF v, w
<1>9. ~Committed(q) /\ q \notin stored[c] /\ Reporters(q) = {}
  BY <1>2, <1>3, <1>8, <1>v, Zenon DEF Data, CoordinatorRow, ChunksOK, BeforePlan, IsView
<1>10. CoordinatorRow(q, "locked", o, k, w)
  BY <1>8, <1>9, <1>v, Zenon DEF CoordinatorRow, IsRowView
<1>11. RowOK(q, c, o, k, w)
  BY <1>3, <1>8, <1>9, <1>v DEF RowOK, IsRowView
<1>12. ChunksOK(q, c, "locked", o, k, w) /\ RecoveryOK(q, c, w) /\ StoredOK(q, w)
  BY <1>3, <1>8, <1>9, <1>v, Zenon DEF ChunksOK, RecoveryOK, StoredOK, IsRowView
<1>13. Data(q, c, "locked", o, k, w)
  BY <1>10, <1>11, <1>12, Zenon DEF Data
<1>14. /\ rows' = [rows EXCEPT ![q][c] = 0] /\ 0 \in Nat \cup {NoRow}
       /\ UNCHANGED <<versions, stored, msgs, machine, failed>>
  BY Zenon DEF lockArrays
<1> QED
  BY <1>1, <1>2, <1>3, <1>4, <1>5, <1>6, <1>7, <1>13, <1>14, NobodyReported, ResultsAreReports, RowStep, Zenon
     DEF RowMove, o, k, w

LEMMA UpdateArrayLockCommit ==
    ASSUME CommitInv, NEW q \in Queries, updateArrayLock(q)
    PROVE  ThreadMove
<1> DEFINE c == coordOf[q]
           o == query[q][c]
           k == stack[q][c]
           v == View(q, c)
           w == RowView(q, c, o.version)
<1>1. c \in Instance /\ arrayOf[q] \in Arrays
  BY QueryTxnAssumption DEF CommitInv, LocksInv, Plan, Queries
<1>2. /\ exec[q][c] = "updateArrayLock" /\ TypeOK /\ StackOK(k)
      /\ Local(q, c, "updateArrayLock", o, k, node[c]) /\ Data(q, c, "updateArrayLock", o, k, v)
  BY <1>1, Before, Zenon DEF updateArrayLock, At
<1>3. Armed(o) /\ o # NoQuery /\ o.status = "START"
  BY <1>2, Zenon DEF Local, CoordinatorOK, Started, Armed
<1>4. o \in QueryObject /\ SameEntries(o, o) /\ o.version \in Nat /\ Obj(q, c) = o
  BY <1>1, <1>3, Before, Zenon DEF SameEntries, QueryObject
<1>5. Moves(q, c, "broadcast", o, k)
  BY <1>1, <1>2, StaysFacts, Zenon DEF updateArrayLock, Moves, Goto, Obj
<1> HIDE DEF o, k
<1>6. /\ "broadcast" \in ExecState /\ MovesOn(q, c, "broadcast") /\ exec[q][c] \in BeforePlan
      /\ exec[q][c] # "idle"
  BY <1>2, Zenon DEF ExecState, BeforePlan, MovesOn
<1>7. Local(q, c, "broadcast", o, k, node[c])
  BY <1>2, <1>4, CoordinatorMoveLocal, Zenon DEF CoordinatorMoves
<1>8. /\ Fs(o) = {"destroy", "broadcastCommit", "releaseLocks"} /\ Hs(o) = Handler
      /\ ~Recording(o, k) /\ node[c] = "up" /\ ~HandlerPending(k) /\ o.commit # "COMMITTED"
  BY <1>2, <1>3, Zenon DEF Local, CoordinatorOK, AfterHandler, SwappedOnce, Recording, ObjectOK, HandlerPending, Thread
<1>v. IsView(q, c, v) /\ IsRowView(q, c, o.version, w)
  BY ViewFacts, RowViewFacts, Zenon
<1> HIDE DEF v, w
<1>9. /\ ~Committed(q) /\ Reporters(q) = {} /\ rows[q][c] = 0
      /\ o.version = LastVersion(arrayOf[q]) + 1
  BY <1>2, <1>3, <1>8, <1>v, Zenon DEF Data, CoordinatorRow, BeforePlan, IsView
<1>10. q \notin stored[c] /\ o.version > 0
  BY <1>1, <1>2, <1>9, <1>v, LastVersionFacts DEF Data, RowOK, IsView
<1>11. CoordinatorRow(q, "broadcast", o, k, w)
  BY <1>8, <1>9, <1>10, <1>v, Zenon DEF CoordinatorRow, IsRowView
<1>12. RowOK(q, c, o, k, w)
  BY <1>1, <1>3, <1>4, <1>8, <1>9, <1>10, <1>v, LastVersionFacts, Zenon DEF RowOK, IsRowView
<1>13. ChunksOK(q, c, "broadcast", o, k, w) /\ RecoveryOK(q, c, w) /\ StoredOK(q, w)
  BY <1>3, <1>8, <1>9, <1>10, <1>v, Zenon DEF ChunksOK, RecoveryOK, StoredOK, IsRowView
<1>14. Data(q, c, "broadcast", o, k, w)
  BY <1>11, <1>12, <1>13, Zenon DEF Data
<1>15. /\ rows' = [rows EXCEPT ![q][c] = o.version]
       /\ UNCHANGED <<versions, stored, msgs, machine, failed>>
  <2>1. rows[q][c] # NoRow
    BY <1>9 DEF NoRow
  <2> QED
    BY <1>4, <2>1, Zenon DEF updateArrayLock, Unless
<1> QED
  BY <1>1, <1>2, <1>3, <1>4, <1>5, <1>6, <1>7, <1>9, <1>10, <1>14, <1>15, NobodyReported,
     ResultsAreReports, RowStep, Zenon DEF RowMove, o, k, w

--------------------------------------------------------------------------------
(* Crashes, lost connections and new queries: steps of many threads. *)

(* A step that leaves the catalog and the disks alone and adds no message but   *)
(* notifications.                                                               *)
Notices == \A m \in msgs' \ msgs : m.type \in NotificationType /\ m.to # m.from

Faulty ==
    /\ Queries' = Queries /\ Instance' = Instance /\ plan' \in Plan
    /\ rows' = rows /\ versions' = versions /\ stored' = stored /\ failed' = failed
    /\ msgs' \subseteq Message /\ Notices

Forgets(o, n) == n = NoQuery \/ n = o \/ n.results = {}

LEMMA FaultyReporters ==
    ASSUME Faulty, \A p \in Queries : Forgets(query[p][coordOf[p]], query'[p][coordOf[p]])
    PROVE  \A p \in Queries : Reporters(p)' \subseteq Reporters(p)
<1>1. Instance' = Instance /\ \A m \in msgs' : m.type = "mtQueryResult" => m \in msgs
  BY DEF Faulty, NotificationType, Notices
<1>2. ASSUME NEW p \in Queries, NEW j \in Instance, j \in Reporters(p)'
      PROVE  j \in Reporters(p)
  <2>1. CASE \E m \in msgs' : m.type = "mtQueryResult" /\ m.query = p /\ m.from = j
    BY <1>1, <2>1, Zenon DEF Reporters
  <2>2. CASE query'[p][coordOf[p]] # NoQuery /\ j \in query'[p][coordOf[p]].results
    BY <2>2, Zenon DEF Reporters, Forgets
  <2> QED
    BY <1>2, <2>1, <2>2, Zenon DEF Reporters
<1> QED
  BY <1>1, <1>2, Zenon DEF Reporters

LEMMA FaultyMessages ==
    ASSUME MessagesOK, Faulty, \A q \in Queries : PlanOnce(q)', msgs \subseteq Message,
           \A m \in msgs : m.to # coordOf[m.query] /\ IsPlan(m, m.query)
                             /\ query'[m.query][m.to] # NoQuery =>
               exec'[m.query][m.to] = exec[m.query][m.to] /\ query[m.query][m.to] # NoQuery
    PROVE  MessagesOK'
<1>1. /\ Queries' = Queries /\ Notices /\ \A q : Committed(q)' <=> Committed(q)
  BY Zenon DEF Faulty, Committed
<1>2. ASSUME NEW m \in msgs', m \in msgs
      PROVE  MessageOK(m)'
  BY <1>1, <1>2, Zenon DEF MessagesOK, MessageOK
<1>3. ASSUME NEW m \in msgs', m \notin msgs
      PROVE  MessageOK(m)'
  <2>1. m.type \in NotificationType /\ m.to # m.from
    BY <1>1, <1>3, Zenon DEF Notices
  <2>2. /\ m.type # "mtPreparePhysicalPlan" /\ m.type \notin {"mtAbort", "mtCommit"}
        /\ m.type # "mtCommit" /\ m.type # "mtQueryResult"
    BY <2>1 DEF NotificationType
  <2> QED
    BY <2>1, <2>2, Zenon DEF MessageOK, IsPlan
<1> QED
  BY <1>1, <1>2, <1>3, Zenon DEF MessagesOK

(* What holds of q on i after the step. *)
HoldsNext(q, i) ==
    /\ Local(q, i, exec'[q][i], query'[q][i], stack'[q][i], node'[i])
    /\ Data(q, i, exec'[q][i], query'[q][i], stack'[q][i], NextView(q, i))

(* And before it. *)
HoldsNow(q, i) ==
    /\ Local(q, i, exec[q][i], query[q][i], stack[q][i], node[i])
    /\ Data(q, i, exec[q][i], query[q][i], stack[q][i], View(q, i))

LEMMA FaultyKeeps ==
    ASSUME CommitInv, LocksInv', Faulty,
           query' \in [Queries -> [Instance -> QueryObject \cup {NoQuery}]],
           exec' \in [Queries -> [Instance -> ExecState]],
           stack' \in [Queries -> [Instance -> [Thread -> Seq(Entry)]]],
           node' \in [Instance -> NodeState], recovering' \in [Instance -> SUBSET Queries],
           MessagesOK',
           \A q \in Queries, i \in Instance : HoldsNext(q, i)
    PROVE  CommitInv'
<1>1. TypeOK /\ failed = {} /\ VersionsOK
  BY Zenon DEF CommitInv, AssertionsHold
<1>2. /\ Queries' = Queries /\ Instance' = Instance /\ plan' \in Plan /\ failed' = failed
      /\ rows' = rows /\ versions' = versions /\ stored' = stored /\ msgs' \subseteq Message
  BY Zenon DEF Faulty
<1>3. Message' = Message /\ QueryObject' = QueryObject
  BY <1>2, Zenon DEF Message, QueryObject
<1>4. TypeOK'
  BY <1>1, <1>2, <1>3, Zenon DEF TypeOK, NodeState, Entry
<1>5. ThreadsOK' /\ DataOK'
  BY <1>2, Zenon DEF HoldsNext, ThreadsOK, DataOK, View, NextView
<1>6. VersionsOK'
  BY <1>1, <1>2, SameVersions, Zenon
<1> QED
  BY <1>1, <1>2, <1>4, <1>5, <1>6, Zenon DEF CommitInv, AssertionsHold

(* What a thread that the step does not touch sees of it. *)
LEMMA FaultyOther ==
    ASSUME CommitInv, NEW q \in Queries, NEW i \in Instance, Faulty, SameAt(q, i),
           node'[i] = node[i], recovering'[i] = recovering[i],
           Reporters(q)' \subseteq Reporters(q)
    PROVE  HoldsNext(q, i)
<1>1. /\ Local(q, i, exec[q][i], query[q][i], stack[q][i], node[i])
      /\ Data(q, i, exec[q][i], query[q][i], stack[q][i], View(q, i))
  BY Before, Zenon
<1>2. exec'[q][i] = exec[q][i] /\ query'[q][i] = query[q][i] /\ stack'[q][i] = stack[q][i]
  BY Zenon DEF SameAt
<1>3. Workers(q)' = Workers(q) /\ rows' = rows /\ versions' = versions /\ stored' = stored
  BY Zenon DEF Workers, Faulty
<1>4. FewerReporters(View(q, i), NextView(q, i))
  BY <1>3, Zenon DEF FewerReporters, View, NextView
<1>5. Data(q, i, exec[q][i], query[q][i], stack[q][i], NextView(q, i))
  BY <1>1, <1>4, FewerReportersKeep, Zenon
<1> QED
  BY <1>1, <1>2, <1>5, Zenon DEF HoldsNext

(* A step that touches no thread. *)
LEMMA IdleKeeps ==
    ASSUME CommitInv, LocksInv', Faulty, UNCHANGED <<query, exec, stack, node, recovering>>
    PROVE  CommitInv'
<1>1. TypeOK /\ MessagesOK /\ msgs \subseteq Message
  BY Zenon DEF CommitInv, AssertionsHold, TypeOK
<1>2. /\ query' = query /\ exec' = exec /\ stack' = stack /\ node' = node /\ recovering' = recovering
      /\ Queries' = Queries /\ Instance' = Instance /\ rows' = rows /\ Notices
  BY Zenon DEF Faulty
<1>3. ASSUME NEW q \in Queries
      PROVE  PlanOnce(q)'
  <2>1. PlanOnce(q) /\ Workers(q)' = Workers(q)
    BY <1>1, <1>2, Zenon DEF MessagesOK, Workers
  <2>2. \A m \in msgs' : IsPlan(m, q) => m \in msgs
    BY <1>2 DEF Notices, IsPlan, NotificationType
  <2> QED
    BY <1>2, <2>1, <2>2, Zenon DEF PlanOnce
<1>4. MessagesOK'
  BY <1>1, <1>2, <1>3, FaultyMessages, Zenon
<1>5. ASSUME NEW q \in Queries, NEW i \in Instance
      PROVE  HoldsNext(q, i)
  <2>1. Reporters(q)' \subseteq Reporters(q)
    BY <1>2, FaultyReporters, Zenon DEF Forgets
  <2>2. SameAt(q, i) /\ node'[i] = node[i] /\ recovering'[i] = recovering[i]
    BY <1>2, Zenon DEF SameAt
  <2> QED
    BY <2>1, <2>2, FaultyOther, Zenon
<1> QED
  BY <1>1, <1>2, <1>4, <1>5, FaultyKeeps, Zenon DEF TypeOK, NodeState, Entry

(* A plan that differs in the faults to come. *)
LEMMA PlanStep ==
    ASSUME plan \in Plan, plan' \in Plan, NEW f,
           plan' = [plan EXCEPT !.crashes = f] \/ plan' = [plan EXCEPT !.losses = f]
    PROVE  plan' \in Plan /\ Queries' = Queries /\ Instance' = Instance
  BY DEF Plan, Queries, Instance

LEMMA NotifyFacts ==
    ASSUME NEW type \in NotificationType, NEW i \in Instance, NEW j \in Instance, i # j,
           NEW m \in Notify(type, i, j)
    PROVE  m \in Message /\ m.type \in NotificationType /\ m.to # m.from
  BY DEF Notify, Message

LEMMA ConnectionLostKeeps ==
    ASSUME CommitInv, LocksInv', NEW i \in Instance, NEW j \in Instance, ConnectionLost(i, j)
    PROVE  CommitInv'
<1>1. msgs \subseteq Message /\ plan \in Plan /\ plan' \in Plan
  BY Zenon DEF CommitInv, AssertionsHold, TypeOK, LocksInv
<1>2. /\ UNCHANGED <<query, exec, stack, node, recovering>> /\ i # j
      /\ rows' = rows /\ versions' = versions /\ stored' = stored /\ failed' = failed
  BY Zenon DEF ConnectionLost, catalog
<1>3. plan' \in Plan /\ Queries' = Queries /\ Instance' = Instance
  BY <1>1, PlanStep, Zenon DEF ConnectionLost
<1>4. \A m \in msgs' : m \in msgs \/ m \in Notify("connection", i, j) \/ m \in Notify("connection", j, i)
  BY Zenon DEF ConnectionLost
<1>5. "connection" \in NotificationType
  BY Zenon DEF NotificationType
<1>6. \A m \in msgs' : m \in msgs \/ (m \in Message /\ m.type \in NotificationType /\ m.to # m.from)
  BY <1>2, <1>4, <1>5, NotifyFacts, Zenon
<1>7. Faulty
  BY <1>1, <1>2, <1>3, <1>6, Zenon DEF Faulty, Notices
<1> QED
  BY <1>2, <1>7, IdleKeeps, Zenon

LEMMA StutterKeeps ==
    ASSUME CommitInv, LocksInv', UNCHANGED vars
    PROVE  CommitInv'
<1>1. msgs \subseteq Message /\ plan \in Plan
  BY Zenon DEF CommitInv, AssertionsHold, TypeOK
<1>2. /\ UNCHANGED <<query, exec, stack, node, recovering>> /\ plan' = plan /\ msgs' = msgs
      /\ rows' = rows /\ versions' = versions /\ stored' = stored /\ failed' = failed
  BY Zenon DEF vars, catalog, machine
<1>3. Queries' = Queries /\ Instance' = Instance
  BY <1>2, Zenon DEF Queries, Instance
<1>4. Faulty
  BY <1>1, <1>2, <1>3, Zenon DEF Faulty, Notices
<1> QED
  BY <1>2, <1>4, IdleKeeps, Zenon

(* What a crash leaves of a query on the instance that crashed: its row, its    *)
(* chunks, and nobody who has an object of it.                                  *)
Gone(pc) == IF pc = "none" THEN pc ELSE "ended"
NoFrames == [t \in Thread |-> <<>>]

LEMMA NoFramesFacts ==
    NoFrames \in [Thread -> Seq(Entry)] /\ \A t \in Thread : Ks(NoFrames, t) = {} /\ Descending(NoFrames[t])
  BY DEF NoFrames, Ks, Range, Descending

LEMMA CrashedLocal ==
    ASSUME NEW q, NEW i, NEW pc, NEW o, NEW k, NEW nd, Local(q, i, pc, o, k, nd)
    PROVE  Local(q, i, Gone(pc), NoQuery, NoFrames, "down")
<1>1. Gone(pc) \in {"none", "ended"} /\ ~Armed(NoQuery) /\ "exec" \in Thread /\ "errq" \in Thread
  BY DEF Gone, Armed, Thread
<1>2. Ordered(NoQuery, NoFrames) /\ SwappedOnce(NoQuery, NoFrames)
  BY <1>1, NoFramesFacts, Zenon DEF Ordered, SwappedOnce
<1>3. ObjectOK(Gone(pc), NoQuery, NoFrames, "down")
  BY <1>1, NoFramesFacts, Zenon DEF ObjectOK
<1>4. CoordinatorOK(Gone(pc), NoQuery)
  BY <1>1 DEF CoordinatorOK, Started
<1>5. WorkerOK(Gone(pc), NoQuery, NoFrames)
  BY <1>1, NoFramesFacts DEF WorkerOK
<1> QED
  BY <1>2, <1>3, <1>4, <1>5, Zenon DEF Local

Crashed(v, w) ==
    /\ w.node = "down" /\ w.stored = v.stored /\ w.row = v.row /\ w.coordRow = v.coordRow
    /\ w.versions = v.versions /\ w.workers = v.workers /\ w.reporters \subseteq v.reporters

LEMMA CrashedData ==
    ASSUME NEW q, NEW i, NEW pc, NEW o, NEW k, NEW v, NEW w, Data(q, i, pc, o, k, v), Crashed(v, w)
    PROVE  Data(q, i, Gone(pc), NoQuery, NoFrames, w)
<1>1. (Wrote(q, w) <=> Wrote(q, v)) /\ LastOf(w) = LastOf(v)
  BY Zenon DEF Crashed, Wrote, LastOf
<1>2. /\ Gone(pc) \in {"none", "ended"} /\ ~Armed(NoQuery) /\ ~HandlerPending(NoFrames)
      /\ ~Recording(NoQuery, NoFrames)
  BY NoFramesFacts, Zenon DEF Gone, Armed, HandlerPending, Recording
<1>3. RowOK(q, i, NoQuery, NoFrames, w)
  BY <1>1, Zenon DEF Crashed, Data, RowOK
<1>4. ChunksOK(q, i, Gone(pc), NoQuery, NoFrames, w)
  BY <1>2, Zenon DEF ChunksOK
<1>5. RecoveryOK(q, i, w) /\ StoredOK(q, w)
  BY <1>1, Zenon DEF Crashed, Data, RecoveryOK, StoredOK
<1>6. (Gone(pc) = "none" => pc = "none") /\ (pc = "ended" => Gone(pc) = "ended")
  BY Zenon DEF Gone
<1>7. i = coordOf[q] => CoordinatorRow(q, Gone(pc), NoQuery, NoFrames, w)
  BY <1>1, <1>2, <1>6, Zenon DEF Crashed, Data, CoordinatorRow, BeforePlan
<1>8. i # coordOf[q] => ReportsOK(q, i, Gone(pc), NoQuery, w)
  BY <1>1, <1>2, <1>6, Zenon DEF Crashed, Data, ReportsOK, HasDone
<1> QED
  BY <1>3, <1>4, <1>5, <1>7, <1>8, Zenon DEF Data

CrashAt(i) ==
    /\ node' = [node EXCEPT ![i] = "down"] /\ recovering' = [recovering EXCEPT ![i] = {}]
    /\ query' = [q \in Queries |-> [query[q] EXCEPT ![i] = NoQuery]]
    /\ exec' = [q \in Queries |-> [exec[q] EXCEPT ![i] = Gone(@)]]
    /\ stack' = [q \in Queries |-> [stack[q] EXCEPT ![i] = NoFrames]]

LEMMA CrashFacts ==
    ASSUME CommitInv, LocksInv', NEW i \in Instance, Crash(i)
    PROVE  Faulty /\ CrashAt(i)
<1>1. msgs \subseteq Message /\ plan \in Plan /\ plan' \in Plan
  BY Zenon DEF CommitInv, AssertionsHold, TypeOK, LocksInv
<1>2. rows' = rows /\ versions' = versions /\ stored' = stored /\ failed' = failed
  BY Zenon DEF Crash, catalog
<1>3. plan' \in Plan /\ Queries' = Queries /\ Instance' = Instance
  BY <1>1, PlanStep, Zenon DEF Crash
<1>4. \A m \in msgs' : m \in msgs \/ \E j \in Instance \ {i} : m \in Notify("liveness", j, i)
  BY Zenon DEF Crash
<1>5. "liveness" \in NotificationType
  BY Zenon DEF NotificationType
<1>6. \A m \in msgs' : m \in msgs \/ (m \in Message /\ m.type \in NotificationType /\ m.to # m.from)
  BY <1>4, <1>5, NotifyFacts, Zenon
<1>7. Faulty
  BY <1>1, <1>2, <1>3, <1>6, Zenon DEF Faulty, Notices
<1> QED
  BY <1>7, Zenon DEF Crash, CrashAt, Gone, NoFrames

LEMMA CrashKeeps ==
    ASSUME CommitInv, LocksInv', NEW i \in Instance, Crash(i)
    PROVE  CommitInv'
<1>1. TypeOK /\ MessagesOK /\ msgs \subseteq Message /\ \A q \in Queries : coordOf[q] \in Instance
  BY Zenon DEF CommitInv, AssertionsHold, TypeOK, LocksInv
<1>2. Faulty /\ CrashAt(i)
  BY CrashFacts, Zenon
<1>3. /\ Queries' = Queries /\ Instance' = Instance /\ rows' = rows /\ versions' = versions
      /\ stored' = stored /\ Notices
  BY <1>2, Zenon DEF Faulty
<1>4. NoQuery \in QueryObject \cup {NoQuery} /\ NoFrames \in [Thread -> Seq(Entry)] /\ "down" \in NodeState
  BY NoFramesFacts, Zenon DEF NodeState
<1>5. /\ query' \in [Queries -> [Instance -> QueryObject \cup {NoQuery}]]
      /\ stack' \in [Queries -> [Instance -> [Thread -> Seq(Entry)]]]
      /\ node' \in [Instance -> NodeState] /\ recovering' \in [Instance -> SUBSET Queries]
  BY <1>1, <1>2, <1>4, Zenon DEF TypeOK, CrashAt, NodeState, Entry
<1>6. exec' \in [Queries -> [Instance -> ExecState]]
  <2>1. \A pc \in ExecState : Gone(pc) \in ExecState
    BY Zenon DEF Gone, ExecState
  <2> QED
    BY <1>1, <1>2, <2>1, Zenon DEF TypeOK, CrashAt
<1>7. \A q \in Queries : /\ query'[q][i] = NoQuery /\ exec'[q][i] = Gone(exec[q][i])
                         /\ stack'[q][i] = NoFrames
  BY <1>1, <1>2, Zenon DEF TypeOK, CrashAt
<1>8. node'[i] = "down"
  BY <1>1, <1>2, Zenon DEF TypeOK, CrashAt
<1>9. \A q \in Queries, j \in Instance \ {i} :
        SameAt(q, j) /\ node'[j] = node[j] /\ recovering'[j] = recovering[j]
  BY <1>1, <1>2, Zenon DEF TypeOK, CrashAt, SameAt
<1>10. \A q \in Queries : Reporters(q)' \subseteq Reporters(q)
  BY <1>1, <1>2, <1>7, <1>9, FaultyReporters, Zenon DEF Forgets, SameAt
<1>11. ASSUME NEW q \in Queries
       PROVE  PlanOnce(q)'
  <2>1. PlanOnce(q) /\ Workers(q)' = Workers(q) /\ Workers(q) \subseteq Instance /\ coordOf[q] \in Instance
    BY <1>1, <1>3, Zenon DEF MessagesOK, Workers
  <2>2. \A m \in msgs' : IsPlan(m, q) => m \in msgs
    BY <1>3 DEF Notices, IsPlan, NotificationType
  <2>3. \A j \in Instance : exec'[q][j] = exec[q][j] \/ exec'[q][j] = "ended"
    BY <1>7, <1>9, Zenon DEF SameAt, Gone
  <2>4. "ended" \notin BeforePlan /\ "ended" # "none"
    BY DEF BeforePlan
  <2>5. \A j \in Instance : Unstarted(exec[q][j], query[q][j]) => Unstarted(exec'[q][j], query'[q][j])
    <3>1. ASSUME NEW j \in Instance, Unstarted(exec[q][j], query[q][j])
          PROVE  Unstarted(exec'[q][j], query'[q][j])
      <4>1. CASE j = i
        BY <1>7, <4>1, Zenon DEF Unstarted, Gone
      <4>2. CASE j # i
        BY <1>9, <3>1, <4>2, Zenon DEF SameAt
      <4> QED
        BY <4>1, <4>2, Zenon
    <3> QED
      BY <3>1, Zenon
  <2>6. \A j \in Instance : exec[q][j] = "none" => exec'[q][j] = "none"
    BY <1>7, <1>9, Zenon DEF SameAt, Gone
  <2> QED
    BY <1>3, <2>1, <2>2, <2>3, <2>4, <2>5, <2>6, Zenon DEF PlanOnce
<1>12. MessagesOK'
  <2>1. ASSUME NEW m \in msgs, query'[m.query][m.to] # NoQuery
        PROVE  exec'[m.query][m.to] = exec[m.query][m.to] /\ query[m.query][m.to] # NoQuery
    <3>1. m.query \in Queries /\ m.to \in Instance
      BY <1>1, Zenon DEF Message
    <3> QED
      BY <1>7, <1>9, <2>1, <3>1, Zenon DEF SameAt
  <2> QED
    BY <1>1, <1>2, <1>11, <2>1, FaultyMessages, Zenon
<1>13. ASSUME NEW q \in Queries, NEW j \in Instance
       PROVE  HoldsNext(q, j)
  <2>1. CASE j # i
    BY <1>2, <1>9, <1>10, <2>1, FaultyOther, Zenon
  <2>2. CASE j = i
    <3> DEFINE v == View(q, i)
               w == NextView(q, i)
    <3>1. IsNext(q, i, w) /\ IsView(q, i, v) /\ v.versions = versions[arrayOf[q]]
      BY NextViewFacts, ViewFacts, Zenon DEF View
    <3>2. /\ Local(q, i, exec[q][i], query[q][i], stack[q][i], node[i])
          /\ Data(q, i, exec[q][i], query[q][i], stack[q][i], v)
      BY Before, Zenon
    <3>3. Workers(q)' = Workers(q)
      BY <1>3, Zenon DEF Workers
    <3> HIDE DEF v, w
    <3>4. Crashed(v, w)
      BY <1>3, <1>8, <1>10, <3>1, <3>3, Zenon DEF Crashed, IsNext, IsView
    <3>5. Data(q, i, Gone(exec[q][i]), NoQuery, NoFrames, w)
      BY <3>2, <3>4, CrashedData, Zenon
    <3>6. Local(q, i, Gone(exec[q][i]), NoQuery, NoFrames, "down")
      BY <3>2, CrashedLocal, Zenon
    <3> QED
      BY <1>7, <1>8, <2>2, <3>5, <3>6, Zenon DEF HoldsNext, w
  <2> QED
    BY <2>1, <2>2, Zenon
<1> QED
  BY <1>2, <1>5, <1>6, <1>12, <1>13, FaultyKeeps, Zenon

(* A query that has not started has left nothing anywhere. *)
LEMMA NothingYet ==
    ASSUME CommitInv, NEW q \in Queries, exec[q][coordOf[q]] = "none", \A i \in Instance : node[i] = "up",
           NEW i \in Instance
    PROVE  /\ exec[q][i] = "none" /\ query[q][i] = NoQuery /\ rows[q][i] = NoRow
           /\ q \notin stored[i] /\ ~Committed(q) /\ Reporters(q) = {}
           /\ \A t \in Thread : Ks(stack[q][i], t) = {} /\ Descending(stack[q][i][t])
<1>1. coordOf[q] \in Instance /\ PlanOnce(q)
  BY Zenon DEF CommitInv, LocksInv, MessagesOK
<1>2. exec[q][i] = "none"
  BY <1>1, Zenon DEF PlanOnce
<1>3. /\ Local(q, i, exec[q][i], query[q][i], stack[q][i], node[i])
      /\ Data(q, i, exec[q][i], query[q][i], stack[q][i], View(q, i))
      /\ Data(q, coordOf[q], exec[q][coordOf[q]], query[q][coordOf[q]], stack[q][coordOf[q]],
              View(q, coordOf[q]))
  BY <1>1, Before, Zenon
<1>4. IsView(q, i, View(q, i)) /\ IsView(q, coordOf[q], View(q, coordOf[q]))
  BY ViewFacts, Zenon
<1>5. ~Committed(q) /\ Reporters(q) = {}
  BY <1>3, <1>4 DEF Data, CoordinatorRow, IsView, BeforePlan
<1>6. query[q][i] = NoQuery /\ \A t \in Thread : Descending(stack[q][i][t])
  BY <1>2, <1>3, Zenon DEF Local, ObjectOK, Ordered
<1>7. \A t \in Thread : Ks(stack[q][i], t) = {}
  BY <1>3, <1>6, Zenon DEF Local, SwappedOnce, Thread
<1>8. rows[q][i] = NoRow
  BY <1>3, <1>4, <1>6, <1>7, Zenon DEF Data, RowOK, IsView, Armed
<1>9. q \notin stored[i]
  BY <1>3, <1>4, <1>5, <1>8, Zenon DEF Data, StoredOK, IsView
<1> QED
  BY <1>2, <1>5, <1>6, <1>7, <1>8, <1>9, Zenon

LEMMA NewQueryFacts ==
    ASSUME NEW q, NEW i, NEW o, o = NewQuery(q, i)
    PROVE  /\ o \in QueryObject /\ o # NoQuery /\ Armed(o) /\ o.results = {} /\ ~o.error /\ ~o.hasId
           /\ o.commit = "UNKNOWN" /\ Descending(o.errorHandlers) /\ Descending(o.finalizers)
           /\ i = coordOf[q] => o.status = "START" /\ Hs(o) = {"BroadcastAbort"}
                                /\ Fs(o) = {"destroy", "broadcastCommit"}
           /\ i # coordOf[q] => o.status = "INIT" /\ Hs(o) = {} /\ Fs(o) = {"destroy"}
<1>1. /\ Range(<<"BroadcastAbort">>) = {"BroadcastAbort"} /\ Range(<<"destroy">>) = {"destroy"}
      /\ Range(<<"destroy", "broadcastCommit">>) = {"destroy", "broadcastCommit"} /\ Range(<<>>) = {}
  BY DEF Range
<1>2. /\ Descending(<<>>) /\ Descending(<<"BroadcastAbort">>) /\ Descending(<<"destroy">>)
      /\ Descending(<<"destroy", "broadcastCommit">>)
  BY DEF Descending, Rank
<1>3. o \in QueryObject /\ o # NoQuery
  <2> DEFINE s == IF Coordinator(q, i) THEN "START" ELSE "INIT"
             h == IF Coordinator(q, i) THEN <<"BroadcastAbort">> ELSE <<>>
             f == IF Coordinator(q, i) THEN <<"destroy", "broadcastCommit">> ELSE <<"destroy">>
  <2>1. s \in {"INIT", "START", "OK", "ERROR"} /\ s # "none"
    BY Zenon
  <2>2. h \in Seq(Handler)
    <3>1. "BroadcastAbort" \in Handler
      BY Zenon DEF Handler
    <3>2. <<"BroadcastAbort">> \in Seq(Handler) /\ <<>> \in Seq(Handler)
      BY <3>1
    <3> QED
      BY <3>2, Zenon
  <2>3. f \in Seq(Finalizer)
    <3>1. "destroy" \in Finalizer /\ "broadcastCommit" \in Finalizer
      BY Zenon DEF Finalizer
    <3>2. <<"destroy", "broadcastCommit">> \in Seq(Finalizer) /\ <<"destroy">> \in Seq(Finalizer)
      BY <3>1
    <3> QED
      BY <3>2, Zenon
  <2>4. o = [status |-> s, commit |-> "UNKNOWN", error |-> FALSE, errorHandlers |-> h, finalizers |-> f,
             version |-> 0, hasId |-> FALSE, results |-> {}]
    BY Zenon DEF NewQuery
  <2> HIDE DEF s, h, f
  <2>5. o \in QueryObject
    BY <2>1, <2>2, <2>3, <2>4 DEF QueryObject
  <2> QED
    BY <2>5 DEF QueryObject, NoQuery
<1>4. o.results = {} /\ ~o.error /\ ~o.hasId /\ o.commit = "UNKNOWN"
  BY DEF NewQuery
<1>5. CASE i = coordOf[q]
  <2>1. /\ o.status = "START" /\ o.errorHandlers = <<"BroadcastAbort">>
        /\ o.finalizers = <<"destroy", "broadcastCommit">>
    BY <1>5 DEF NewQuery, Coordinator
  <2> QED
    BY <1>1, <1>2, <1>3, <1>4, <1>5, <2>1, Zenon DEF Hs, Fs, Armed
<1>6. CASE i # coordOf[q]
  <2>1. o.status = "INIT" /\ o.errorHandlers = <<>> /\ o.finalizers = <<"destroy">>
    BY <1>6 DEF NewQuery, Coordinator
  <2> QED
    BY <1>1, <1>2, <1>3, <1>4, <1>6, <2>1, Zenon DEF Hs, Fs, Armed
<1> QED
  BY <1>5, <1>6, Zenon

LEMMA NewLocal ==
    ASSUME NEW q, NEW i, NEW k, \A t \in Thread : Ks(k, t) = {} /\ Descending(k[t]), NEW o, o = NewQuery(q, i),
           NEW pc, pc = (IF i = coordOf[q] THEN "acquireLocks" ELSE "idle")
    PROVE  Local(q, i, pc, o, k, "up")
<1>1. /\ o # NoQuery /\ Armed(o) /\ ~o.error /\ ~o.hasId
      /\ o.commit = "UNKNOWN" /\ Descending(o.errorHandlers) /\ Descending(o.finalizers)
      /\ i = coordOf[q] => o.status = "START" /\ Hs(o) = {"BroadcastAbort"}
                           /\ Fs(o) = {"destroy", "broadcastCommit"}
      /\ i # coordOf[q] => o.status = "INIT" /\ Hs(o) = {} /\ Fs(o) = {"destroy"}
  BY NewQueryFacts
<1>2. "exec" \in Thread /\ "errq" \in Thread
  BY Zenon DEF Thread
<1>3. Ordered(o, k) /\ SwappedOnce(o, k) /\ ObjectOK(pc, o, k, "up")
  BY <1>1, <1>2 DEF Ordered, SwappedOnce, ObjectOK
<1>4. ASSUME i = coordOf[q]
      PROVE  CoordinatorOK(pc, o)
  BY <1>1, <1>4 DEF CoordinatorOK, Started, BeforeHandler, AfterHandler
<1>5. ASSUME i # coordOf[q]
      PROVE  WorkerOK(pc, o, k)
  BY <1>1, <1>5 DEF WorkerOK, WorkerEntry
<1> QED
  BY <1>3, <1>4, <1>5, Zenon DEF Local

LEMMA NewData ==
    ASSUME NEW q, NEW i, NEW k, \A t \in Thread : Ks(k, t) = {}, NEW o, o = NewQuery(q, i),
           NEW pc, pc = (IF i = coordOf[q] THEN "acquireLocks" ELSE "idle"),
           NEW w, w.row = NoRow, w.coordRow = NoRow, q \notin w.stored, ~Wrote(q, w), w.reporters = {},
           w.node = "up"
    PROVE  Data(q, i, pc, o, k, w)
<1>1. /\ o # NoQuery /\ Armed(o) /\ ~o.hasId /\ o.commit = "UNKNOWN"
      /\ o.status = "START" \/ o.status = "INIT"
  BY NewQueryFacts
<1>2. ~Recording(o, k) /\ ~HandlerPending(k) /\ ~(NoRow > 0) /\ NoRow # 0
  BY <1>1, NoRowFacts DEF Recording, HandlerPending
<1>3. RowOK(q, i, o, k, w)
  BY <1>2 DEF RowOK
<1>4. ChunksOK(q, i, pc, o, k, w)
  BY <1>1, <1>2 DEF ChunksOK
<1>5. RecoveryOK(q, i, w) /\ StoredOK(q, w)
  BY DEF RecoveryOK, StoredOK
<1>6. i = coordOf[q] => CoordinatorRow(q, pc, o, k, w)
  BY <1>1, <1>2 DEF CoordinatorRow
<1>7. i # coordOf[q] => ReportsOK(q, i, pc, o, w)
  BY <1>1 DEF ReportsOK, HasDone
<1> QED
  BY <1>3, <1>4, <1>5, <1>6, <1>7, Zenon DEF Data

LEMMA PrepareQueryBeforeLockingKeeps ==
    ASSUME CommitInv, LocksInv', NEW q \in Queries, prepareQueryBeforeLocking(q)
    PROVE  CommitInv'
<1> DEFINE pc(i) == IF i = coordOf[q] THEN "acquireLocks" ELSE "idle"
<1>1. /\ TypeOK /\ MessagesOK /\ msgs \subseteq Message /\ plan \in Plan
      /\ \A p \in Queries : coordOf[p] \in Instance
  BY Zenon DEF CommitInv, AssertionsHold, TypeOK, LocksInv
<1>2. /\ exec[q][coordOf[q]] = "none" /\ \A i \in Instance : node[i] = "up"
      /\ query' = [query EXCEPT ![q] = [i \in Instance |-> NewQuery(q, i)]]
      /\ exec' = [exec EXCEPT ![q] = [i \in Instance |-> pc(i)]]
      /\ stack' = stack /\ rows' = rows /\ versions' = versions /\ stored' = stored /\ msgs' = msgs
      /\ node' = node /\ recovering' = recovering /\ plan' = plan /\ failed' = failed
  BY Zenon DEF prepareQueryBeforeLocking, catalog, machine, Coordinator
<1>3. Queries' = Queries /\ Instance' = Instance
  BY <1>2, Zenon DEF Queries, Instance
<1>4. Faulty
  BY <1>1, <1>2, <1>3, Zenon DEF Faulty, Notices
<1>5. \A i \in Instance : NewQuery(q, i) \in QueryObject /\ NewQuery(q, i).results = {}
  BY NewQueryFacts
<1>6. \A i \in Instance : pc(i) \in ExecState /\ pc(i) # "none"
  BY Zenon DEF ExecState
<1> HIDE DEF pc
<1>7. query' \in [Queries -> [Instance -> QueryObject \cup {NoQuery}]]
  BY <1>1, <1>2, <1>5, Zenon DEF TypeOK
<1>8. exec' \in [Queries -> [Instance -> ExecState]]
  BY <1>1, <1>2, <1>6, Zenon DEF TypeOK
<1>9. /\ stack' \in [Queries -> [Instance -> [Thread -> Seq(Entry)]]]
      /\ node' \in [Instance -> NodeState] /\ recovering' \in [Instance -> SUBSET Queries]
  BY <1>1, <1>2, Zenon DEF TypeOK, NodeState, Entry
<1>10. \A i \in Instance : query'[q][i] = NewQuery(q, i) /\ exec'[q][i] = pc(i)
  BY <1>1, <1>2, Zenon DEF TypeOK
<1>11. \A p \in Queries \ {q}, i \in Instance : SameAt(p, i)
  BY <1>1, <1>2, Zenon DEF TypeOK, SameAt
<1>12. \A p \in Queries : Reporters(p)' \subseteq Reporters(p)
  <2>1. ASSUME NEW p \in Queries
        PROVE  Forgets(query[p][coordOf[p]], query'[p][coordOf[p]])
    <3>1. CASE p = q
      BY <1>1, <1>5, <1>10, <3>1, Zenon DEF Forgets
    <3>2. CASE p # q
      BY <1>1, <1>11, <3>2, Zenon DEF Forgets, SameAt
    <3> QED
      BY <3>1, <3>2, Zenon
  <2> QED
    BY <1>4, <2>1, FaultyReporters, Zenon
<1>13. \A m \in msgs : ~IsPlan(m, q)
  BY <1>1, <1>2, Zenon DEF MessagesOK, PlanOnce, BeforePlan
<1>14. ASSUME NEW p \in Queries
       PROVE  PlanOnce(p)'
  <2>1. PlanOnce(p) /\ Workers(p)' = Workers(p) /\ Workers(p) \subseteq Instance /\ coordOf[p] \in Instance
    BY <1>1, <1>3, Zenon DEF MessagesOK, Workers
  <2>2. CASE p # q
    <3>1. \A i \in Instance : exec'[p][i] = exec[p][i] /\ query'[p][i] = query[p][i]
      BY <1>11, <2>2, Zenon DEF SameAt
    <3> QED
      BY <1>2, <1>3, <2>1, <3>1, Zenon DEF PlanOnce
  <2>3. CASE p = q
    <3>1. \A i \in Workers(q) : Unstarted(exec'[q][i], query'[q][i])
      BY <1>10, <2>1, <2>3, Zenon DEF Workers, Unstarted, pc
    <3>2. exec'[q][coordOf[q]] # "none"
      BY <1>1, <1>6, <1>10, Zenon
    <3> QED
      BY <1>2, <1>13, <2>1, <2>3, <3>1, <3>2, Zenon DEF PlanOnce
  <2> QED
    BY <2>2, <2>3, Zenon
<1>15. MessagesOK'
  <2>1. ASSUME NEW m \in msgs, IsPlan(m, m.query), query'[m.query][m.to] # NoQuery
        PROVE  exec'[m.query][m.to] = exec[m.query][m.to] /\ query[m.query][m.to] # NoQuery
    <3>1. m.query \in Queries /\ m.to \in Instance /\ m.query # q
      BY <1>1, <1>13, <2>1, Zenon DEF Message
    <3> QED
      BY <1>11, <2>1, <3>1, Zenon DEF SameAt
  <2> QED
    BY <1>1, <1>4, <1>14, <2>1, FaultyMessages, Zenon
<1>16. ASSUME NEW p \in Queries, NEW i \in Instance
       PROVE  HoldsNext(p, i)
  <2>1. CASE p # q
    BY <1>2, <1>4, <1>11, <1>12, <2>1, FaultyOther, Zenon
  <2>2. CASE p = q
    <3> DEFINE o == NewQuery(q, i)
               k == stack[q][i]
               w == NextView(q, i)
               x == pc(i)
    <3>1. /\ rows[q][i] = NoRow /\ q \notin stored[i] /\ ~Committed(q) /\ Reporters(q) = {}
          /\ \A t \in Thread : Ks(k, t) = {} /\ Descending(k[t])
      BY <1>2, NothingYet, Zenon
    <3>2. rows[q][coordOf[q]] = NoRow
      BY <1>1, <1>2, NothingYet, Zenon
    <3>3. IsNext(q, i, w)
      BY NextViewFacts, Zenon
    <3>4. o = NewQuery(q, i) /\ x = IF i = coordOf[q] THEN "acquireLocks" ELSE "idle"
      BY Zenon DEF pc
    <3>5. query'[q][i] = o /\ exec'[q][i] = x /\ stack'[q][i] = k /\ node'[i] = "up"
      BY <1>2, <1>10, Zenon
    <3> HIDE DEF o, k, w, x
    <3>6. w.row = NoRow /\ w.coordRow = NoRow /\ q \notin w.stored /\ w.node = "up"
      BY <1>2, <3>1, <3>2, <3>3, Zenon DEF IsNext
    <3>7. w.reporters = {}
      BY <1>12, <3>1, <3>3, Zenon DEF IsNext
    <3>8. ~Wrote(q, w)
      BY <1>2, <3>1, <3>3, Zenon DEF IsNext, Wrote, Committed
    <3>9. Local(q, i, x, o, k, "up")
      BY <3>1, <3>4, NewLocal
    <3>10. Data(q, i, x, o, k, w)
      BY <3>1, <3>4, <3>6, <3>7, <3>8, NewData, Zenon
    <3> QED
      BY <2>2, <3>5, <3>9, <3>10, Zenon DEF HoldsNext, w
  <2> QED
    BY <2>1, <2>2, Zenon
<1> QED
  BY <1>4, <1>7, <1>8, <1>9, <1>15, <1>16, FaultyKeeps, Zenon

--------------------------------------------------------------------------------
(* The plan is sent. *)

LEMMA PlanMessages ==
    ASSUME CommitInv, NEW q \in Queries, exec[q][coordOf[q]] = "broadcast", broadcastPlan(q),
           rows[q][coordOf[q]] # 0
    PROVE  MessagesOK'
<1> DEFINE c == coordOf[q]
           new(m) == /\ m.type = "mtPreparePhysicalPlan" /\ m.query = q /\ m.to \in Instance
                     /\ m = [type |-> "mtPreparePhysicalPlan", query |-> q, to |-> m.to,
                             from |-> c, version |-> Obj(q, c).version]
<1>1. TypeOK /\ Shape /\ MessagesOK /\ c \in Instance /\ exec[q][c] \in BeforePlan
  BY Zenon DEF CommitInv, AssertionsHold, LocksInv, Shape, BeforePlan
<1>2. \A m \in msgs' : m \in msgs \/ new(m)
  BY DEF broadcastPlan, Send
<1>3. /\ Queries' = Queries /\ Instance' = Instance /\ query' = query /\ rows' = rows /\ versions' = versions
      /\ exec' = [exec EXCEPT ![q][c] = "stop"]
  BY Zenon DEF broadcastPlan, machine, catalog, Queries, Instance, Goto
<1>4. /\ exec'[q][c] = "stop"
      /\ \A p \in Queries, j \in Instance : p # q \/ j # c => exec'[p][j] = exec[p][j]
  BY <1>1, <1>3, Zenon DEF TypeOK
<1>5. ASSUME NEW p \in Queries, p # q
      PROVE  PlanOnce(p)'
  <2>1. PlanOnce(p) /\ coordOf[p] \in Instance /\ Workers(p)' = Workers(p) /\ Workers(p) \subseteq Instance
    BY <1>1, <1>3, Zenon DEF MessagesOK, Shape, Workers
  <2>2. \A m \in msgs' : IsPlan(m, p) => m \in msgs
    BY <1>2, <1>5, Zenon DEF IsPlan
  <2> QED
    BY <1>3, <1>4, <1>5, <2>1, <2>2, Zenon DEF PlanOnce
<1>6. PlanOnce(q)'
  <2>1. \A m \in msgs : ~IsPlan(m, q)
    BY <1>1, Zenon DEF MessagesOK, PlanOnce
  <2>2. \A m, n \in msgs' : IsPlan(m, q) /\ IsPlan(n, q) /\ m.to = n.to => m = n
    BY <1>2, <2>1, Zenon
  <2>3. exec'[q][c] \notin BeforePlan /\ exec'[q][c] # "none"
    BY <1>4, Zenon DEF BeforePlan
  <2> QED
    BY <1>3, <2>2, <2>3, Zenon DEF PlanOnce
<1>7. ASSUME NEW m \in msgs'
      PROVE  MessageOK(m)'
  <2>1. CASE m \in msgs
    <3>1. MessageOK(m) /\ m.query \in Queries /\ m.to \in Instance
      BY <1>1, <2>1, Zenon DEF MessagesOK, TypeOK, Message
    <3>2. m.to # coordOf[m.query] => exec'[m.query][m.to] = exec[m.query][m.to]
      BY <1>4, <3>1, Zenon
    <3>3. Committed(m.query)' <=> Committed(m.query)
      BY <1>3, Zenon DEF Committed
    <3> QED
      BY <1>3, <3>1, <3>2, <3>3, Zenon DEF MessageOK
  <2>2. CASE new(m)
    <3>1. ASSUME m.to # c, query[q][m.to] # NoQuery
          PROVE  exec'[q][m.to] = "idle"
      <4>1. Unstarted(exec[q][m.to], query[q][m.to])
        BY <1>1, <2>2, <3>1, Zenon DEF MessagesOK, PlanOnce, Workers
      <4>2. ObjectOK(exec[q][m.to], query[q][m.to], stack[q][m.to], node[m.to])
        BY <2>2, Before, Zenon DEF Local
      <4> QED
        BY <1>4, <2>2, <3>1, <4>1, <4>2, Zenon DEF Unstarted, ObjectOK
    <3> QED
      BY <1>3, <2>2, <3>1, Zenon DEF MessageOK, NotificationType
  <2> QED
    BY <1>2, <2>1, <2>2, Zenon
<1> QED
  BY <1>3, <1>5, <1>6, <1>7, Zenon DEF MessagesOK

LEMMA BroadcastPlanKeeps ==
    ASSUME CommitInv, NEW q \in Queries, broadcastPlan(q)
    PROVE  CommitInv'
<1> DEFINE c == coordOf[q]
           o == query[q][c]
           k == stack[q][c]
<1>1. c \in Instance /\ Shape /\ LocksInv /\ ThreadsOK /\ DataOK /\ VersionsOK /\ failed = {}
  BY Zenon DEF CommitInv, LocksInv, AssertionsHold, Shape
<1>2. /\ exec[q][c] = "broadcast" /\ TypeOK /\ StackOK(k) /\ o \in QueryObject \cup {NoQuery}
      /\ Local(q, c, "broadcast", o, k, node[c]) /\ Data(q, c, "broadcast", o, k, View(q, c))
  BY <1>1, Before, Zenon DEF broadcastPlan, At
<1>3. Armed(o) /\ o # NoQuery /\ o.status = "START"
  BY <1>2, Zenon DEF Local, CoordinatorOK, Started, Armed
<1>4. o \in QueryObject /\ SameEntries(o, o) /\ SameButStatus(o, o) /\ o.version \in Nat /\ Obj(q, c) = o
  BY <1>1, <1>3, Before, Zenon DEF SameEntries, SameButStatus, QueryObject
<1>5. /\ Moves(q, c, "stop", o, k) /\ UNCHANGED <<catalog, stored, machine>> /\ failed' = failed
      /\ rows' = rows /\ versions' = versions /\ stored' = stored /\ plan' = plan
      /\ node' = node /\ recovering' = recovering
  BY <1>1, <1>2, StaysFacts, Zenon DEF broadcastPlan, Moves, Goto, Obj, catalog, machine
<1>6. Queries' = Queries /\ Instance' = Instance
  BY <1>5, Zenon DEF Queries, Instance
<1>7. Local(q, c, "stop", o, k, node[c])
  BY <1>2, <1>4, CoordinatorMoveLocal, Zenon DEF CoordinatorMoves
<1>8. CoordinatorRow(q, "broadcast", o, k, View(q, c)) /\ CoordinatorRow(q, "stop", o, k, View(q, c))
  BY <1>2, <1>3, <1>4, TurnRow DEF Data
<1>9. Data(q, c, "stop", o, k, View(q, c))
  BY <1>2, <1>4, <1>8, StatusData
<1>10. rows[q][c] # 0
  BY <1>3, <1>4, <1>8, ViewFacts DEF CoordinatorRow, IsView
<1>11. MessagesOK'
  BY <1>2, <1>10, PlanMessages, Zenon
<1>12. "stop" \in ExecState
  BY Zenon DEF ExecState
<1>13. /\ SameElsewhere(q, c)
       /\ exec'[q][c] = "stop" /\ query'[q][c] = o /\ stack'[q][c] = k
       /\ exec' \in [Queries -> [Instance -> ExecState]]
       /\ query' \in [Queries -> [Instance -> QueryObject \cup {NoQuery}]]
       /\ stack' \in [Queries -> [Instance -> [Thread -> Seq(Entry)]]]
  BY <1>1, <1>2, <1>5, <1>6, <1>12, MovesFacts, Zenon
<1>14. ThreadsOK'
  BY <1>1, <1>5, <1>6, <1>7, <1>13, LocalStep, Zenon
<1>15. \A m \in msgs' \ msgs : m \in Message /\ m.type = "mtPreparePhysicalPlan"
  BY <1>1, <1>4 DEF broadcastPlan, Send, Message, MessageType
<1>16. \A p \in Queries : Reporters(p)' \subseteq Reporters(p)
  BY <1>1, <1>3, <1>6, <1>13, <1>15, ReportersStep, ResultsAreReports, Zenon
<1>17. DataOK'
  BY <1>1, <1>5, <1>9, <1>13, <1>16, CalmData, Zenon
<1>18. TypeOK'
  <2>1. Message' = Message /\ QueryObject' = QueryObject /\ msgs' \subseteq Message
    BY <1>2, <1>6, <1>15, Zenon DEF Message, QueryObject, TypeOK
  <2> QED
    BY <1>2, <1>5, <1>6, <1>13, <2>1, Zenon DEF TypeOK, Entry
<1>19. LocksInv' /\ VersionsOK'
  BY <1>1, <1>5, SameRowsKeep, Zenon DEF VersionsOK, VersionsAreConsecutive
<1> QED
  BY <1>1, <1>5, <1>11, <1>14, <1>17, <1>18, <1>19 DEF CommitInv, AssertionsHold
=================================================================================
