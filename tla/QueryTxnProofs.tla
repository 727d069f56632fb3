----------------------------- MODULE QueryTxnProofs -----------------------------
(***************************************************************************)
(* The inductive invariant of the commit protocol, CommitInv; its part     *)
(* about the lock rows, by which writers exclude each other; and the proof *)
(* that a step that changes one thread, and at most one row or one disk    *)
(* (ThreadMove), keeps it.                                                 *)
(*                                                                         *)
(* QueryTxnCoordinatorProofs, QueryTxnWorkerProofs and QueryTxnEndProofs   *)
(* bring the actions of QueryTxn into that form and deal with those that   *)
(* do not have it; QueryTxnCommitProofs has the theorems.                  *)
(***************************************************************************)
EXTENDS QueryTxn, TLAPS

(* The inductive invariant.  The rows are those of the queries and instances of *)
(* the plan, which a fault does not change.                                     *)
LocksInv ==
    /\ plan \in Plan
    /\ \A q \in Queries : coordOf[q] \in Instance
    /\ DOMAIN rows = Queries
    /\ \A q \in Queries : DOMAIN rows[q] = Instance
    /\ WritersExclude

(* The order in which the entries of a stack run: error handlers before         *)
(* finalizers, the last one pushed first.                                       *)
Rank ==
    [UpdateErrorHandler |-> 1, BroadcastAbort |-> 2, recordPersistent |-> 3,
     releaseLocks |-> 4, broadcastCommit |-> 5, destroy |-> 6]

Entry == Handler \cup Finalizer
Descending(s) == \A j, k \in DOMAIN s : j < k => Rank[s[j]] > Rank[s[k]]

(* What a query has pushed and what its threads have yet to run. *)
Hs(o) == Range(o.errorHandlers)
Fs(o) == Range(o.finalizers)
Ks(k, t) == Range(k[t])

(* A query whose finalizers nobody has swapped yet. *)
Armed(o) == o # NoQuery /\ "destroy" \in Fs(o)

(* The thread of an instance: its program counter, Query object and stacks.     *)
Ordered(o, k) ==
    /\ o # NoQuery => Descending(o.errorHandlers) /\ Descending(o.finalizers)
    /\ \A t \in Thread : Descending(k[t])

(* Exactly one of an armed query and its two threads has the finalizers.        *)
SwappedOnce(o, k) ==
    /\ o = NoQuery \/ Armed(o) => Ks(k, "exec") = {} /\ Ks(k, "errq") = {}
    /\ o # NoQuery /\ ~Armed(o) =>
        /\ Fs(o) = {} /\ Hs(o) = {} /\ o.commit # "UNKNOWN"
        /\ \/ "destroy" \in Ks(k, "exec") /\ Ks(k, "errq") = {}
           \/ "destroy" \in Ks(k, "errq") /\ Ks(k, "exec") = {}

(* The states of a Query object, and where its executing thread may be.         *)
ObjectOK(pc, o, k, nd) ==
    /\ o # NoQuery =>
        /\ o.status = "START" => Armed(o)
        /\ o.commit # "UNKNOWN" => o.error
        /\ o.commit = "COMMITTED" => o.status = "OK" /\ Ks(k, "errq") \cap Handler = {}
        /\ o.status = "OK" =>
            /\ pc \in {"finished", "sendResult", "ended"}
            /\ Ks(k, "exec") = {}
            /\ Armed(o) => o.commit = "UNKNOWN"
    /\ Ks(k, "exec") # {} => pc \in {"ended", "sendError"}
    /\ pc = "none" => o = NoQuery
    /\ nd # "up" => o = NoQuery /\ pc \in {"none", "ended"}

(* The thread of the coordinator.                                               *)
Started == {"acquireLocks", "lockArrays", "locked", "parsed", "preSingleExecute",
            "updateArrayLock", "broadcast", "stop", "store", "semResults", "done"}
BeforeHandler == {"lockArrays", "locked", "parsed", "prepared"}

AfterHandler == {"preSingleExecute", "updateArrayLock", "broadcast", "stop", "planned",
                 "store", "semResults"}

CoordinatorOK(pc, o) ==
    /\ pc \in Started \cup {"none", "prepared", "planned", "finished", "cancel", "ended"}
    /\ pc \in Started => Armed(o) /\ o.status = "START"
    /\ pc \in {"prepared", "planned"} /\ o # NoQuery => o.status = "INIT"
    /\ pc = "finished" => Armed(o) /\ o.status = "OK"
    /\ pc = "cancel" /\ o # NoQuery => o.status \in {"INIT", "ERROR"}
    /\ pc = "ended" => ~Armed(o)
    /\ Armed(o) =>
        /\ pc = "acquireLocks" =>
            Hs(o) = {"BroadcastAbort"} /\ Fs(o) = {"destroy", "broadcastCommit"}
        /\ pc \in BeforeHandler =>
            Hs(o) = {"BroadcastAbort"} /\ Fs(o) = {"destroy", "broadcastCommit", "releaseLocks"}
        /\ pc \in AfterHandler =>
            Hs(o) = Handler /\ Fs(o) = {"destroy", "broadcastCommit", "releaseLocks"}
        /\ pc \in {"done", "finished"} => Hs(o) = Handler /\ Fs(o) = Finalizer

(* The thread of a worker.                                                      *)
WorkerEntry == {"UpdateErrorHandler", "releaseLocks", "destroy"}

WorkerOK(pc, o, k) ==
    /\ pc \in {"none", "idle", "install", "lockArray", "store", "done", "sendResult",
               "cancel", "sendError", "ended"}
    /\ \A t \in Thread : Ks(k, t) \subseteq WorkerEntry
    /\ pc \in {"lockArray", "store", "done"} =>
        /\ Armed(o) /\ o.status = "START"
        /\ Hs(o) = {"UpdateErrorHandler"} /\ Fs(o) = {"destroy", "releaseLocks"}
        /\ o.hasId <=> pc # "lockArray"
    /\ o # NoQuery =>
        /\ Hs(o) \subseteq WorkerEntry /\ Fs(o) \subseteq WorkerEntry
        /\ pc \in {"idle", "install"} =>
            /\ ~o.hasId
            /\ Armed(o) => Hs(o) = {} /\ Fs(o) = {"destroy"}
        /\ pc = "idle" => o.status = "INIT"
        /\ pc = "install" => o.status = "START" \/ (o.status = "INIT" /\ o.error)
        /\ pc = "sendResult" => o.status = "OK"
        /\ pc \in {"cancel", "sendError"} => o.status = "ERROR"
        /\ pc = "ended" => o.status \in {"OK", "ERROR"}

Local(q, i, pc, o, k, nd) ==
    /\ Ordered(o, k) /\ SwappedOnce(o, k) /\ ObjectOK(pc, o, k, nd)
    /\ i = coordOf[q] => CoordinatorOK(pc, o)
    /\ i # coordOf[q] => WorkerOK(pc, o, k)

ThreadsOK ==
    \A q \in Queries, i \in Instance :
        Local(q, i, exec[q][i], query[q][i], stack[q][i], node[i])

(* Before the coordinator sends the plan the workers are idle; it sends it once. *)
BeforePlan == {"none", "acquireLocks", "lockArrays", "locked", "parsed", "prepared",
               "preSingleExecute", "updateArrayLock", "broadcast"}
Unstarted(pc, o) == pc \in {"none", "idle"} \/ (pc = "ended" /\ o = NoQuery)
IsPlan(m, q) == m.type = "mtPreparePhysicalPlan" /\ m.query = q

PlanOnce(q) ==
    /\ exec[q][coordOf[q]] \in BeforePlan \/ rows[q][coordOf[q]] = 0 =>
        /\ \A m \in msgs : ~IsPlan(m, q)
        /\ \A i \in Workers(q) : Unstarted(exec[q][i], query[q][i])
    /\ exec[q][coordOf[q]] = "none" => \A i \in Instance : exec[q][i] = "none"
    /\ \A m, n \in msgs : IsPlan(m, q) /\ IsPlan(n, q) /\ m.to = n.to => m = n

MessageOK(m) ==
    /\ IsPlan(m, m.query) /\ m.to # coordOf[m.query] /\ query[m.query][m.to] # NoQuery =>
        exec[m.query][m.to] = "idle"
    /\ m.type \in {"mtAbort", "mtCommit"} => m.to # coordOf[m.query]
    /\ m.type = "mtCommit" => Committed(m.query)
    /\ m.type \in NotificationType \cup {"QUERY_NOT_FOUND"} => m.to # m.from
    /\ m.type = "mtQueryResult" => m.from # coordOf[m.query]

MessagesOK ==
    /\ \A q \in Queries : PlanOnce(q)
    /\ \A m \in msgs : MessageOK(m)

(* The workers that have reported that their chunks are stored. *)
Reporters(q) ==
    {i \in Instance :
        \/ query[q][coordOf[q]] # NoQuery /\ i \in query[q][coordOf[q]].results
        \/ \E m \in msgs : m.type = "mtQueryResult" /\ m.query = q /\ m.from = i}

(* What the catalog and the disks have for q and i. *)
View(q, i) ==
    [node |-> node[i], recovering |-> recovering[i], stored |-> stored[i],
     row |-> rows[q][i], coordRow |-> rows[q][coordOf[q]], versions |-> versions[arrayOf[q]],
     workers |-> Workers(q), reporters |-> Reporters(q)]

Wrote(q, v) == \E w \in v.versions : w.writer = q
LastOf(v) == Max({0} \cup {w.version : w \in v.versions})

(* What a report is worth: the worker has done its part, and nothing it does    *)
(* takes the chunks away while the coordinator has its lock.                    *)
HasDone(i, pc, o, v) ==
    i \in v.reporters \/ pc = "sendResult" \/ (o # NoQuery /\ o.status = "OK")

ReportsOK(q, i, pc, o, v) ==
    /\ i \in v.reporters \/ Wrote(q, v) => pc = "ended" /\ (o # NoQuery => o.status = "OK")
    /\ HasDone(i, pc, o, v) => v.coordRow = NoRow \/ q \in v.stored

(* The row and the chunks of the coordinator at each step.                      *)
Recording(o, k) == o # NoQuery /\ o.commit = "COMMITTED" /\ "recordPersistent" \in Ks(k, "errq")

CoordinatorRow(q, pc, o, k, v) ==
    /\ pc \in {"none", "acquireLocks", "lockArrays"} => v.row = NoRow
    /\ pc \in {"locked", "parsed", "prepared", "preSingleExecute", "updateArrayLock"} /\ Armed(o) =>
        v.row = 0
    /\ pc = "updateArrayLock" => o.version = LastOf(v) + 1
    /\ pc \in {"broadcast", "stop", "planned", "store", "semResults", "done", "finished"} /\ Armed(o) =>
        v.row = o.version /\ o.version > 0
    /\ pc \in {"semResults", "done", "finished"} => q \in v.stored
    /\ pc \in {"done", "finished"} => o.results = v.workers
    /\ Recording(o, k) =>
        /\ ~Wrote(q, v) /\ v.row = o.version /\ o.version > 0
        /\ q \in v.stored /\ o.results = v.workers
    /\ o # NoQuery /\ o.commit = "COMMITTED" => Recording(o, k) \/ Wrote(q, v)
    /\ Wrote(q, v) => pc = "ended"
    /\ pc \in BeforePlan => v.reporters = {}

(* The rows of all instances.  A row with a version has the next version of the *)
(* array, or the last one once the query has committed.                         *)
RowOK(q, i, o, k, v) ==
    /\ v.row > 0 => v.row = LastOf(v) + (IF Wrote(q, v) THEN 0 ELSE 1)
    /\ q \in v.stored \/ i # coordOf[q] => v.row # 0
    /\ v.row # NoRow =>
        \/ v.node # "up"
        \/ Armed(o) /\ "releaseLocks" \in Fs(o)
        \/ \E t \in Thread : "releaseLocks" \in Ks(k, t)
    /\ v.node = "recoverWorker" /\ i = coordOf[q] => v.row = NoRow

(* The chunks of a query: who removes those of one that does not commit.        *)
HandlerPending(k) == \E t \in Thread : "UpdateErrorHandler" \in Ks(k, t)

ChunksOK(q, i, pc, o, k, v) ==
    /\ Armed(o) /\ q \in v.stored => "UpdateErrorHandler" \in Hs(o)
    /\ o # NoQuery /\ ~Armed(o) /\ ~HandlerPending(k) /\ ~Recording(o, k) =>
        q \notin v.stored \/ Wrote(q, v)
    /\ i # coordOf[q] /\ (Armed(o) \/ HandlerPending(k)) =>
        /\ o.hasId => v.row = o.version /\ v.row # NoRow
        /\ q \in v.stored => o.hasId
    /\ i # coordOf[q] /\ pc = "done" => q \in v.stored

(* What the recovery of an instance has yet to look at, and what it leaves.     *)
RecoveryOK(q, i, v) ==
    /\ v.node \in {"recoverCoord", "recoverWorker"} /\ q \in v.recovering =>
        v.row # NoRow /\ (v.node = "recoverCoord" <=> i = coordOf[q])
    /\ \/ v.node = "recoverCoord" /\ i = coordOf[q]
       \/ v.node = "recoverWorker" /\ i # coordOf[q]
       => q \in v.recovering \/ q \notin v.stored \/ Wrote(q, v)

StoredOK(q, v) ==
    /\ q \in v.stored /\ ~Wrote(q, v) => v.row # NoRow
    /\ Wrote(q, v) => q \in v.stored

Data(q, i, pc, o, k, v) ==
    /\ RowOK(q, i, o, k, v) /\ ChunksOK(q, i, pc, o, k, v) /\ RecoveryOK(q, i, v) /\ StoredOK(q, v)
    /\ i = coordOf[q] => CoordinatorRow(q, pc, o, k, v)
    /\ i # coordOf[q] => ReportsOK(q, i, pc, o, v)

DataOK ==
    \A q \in Queries, i \in Instance :
        Data(q, i, exec[q][i], query[q][i], stack[q][i], View(q, i))

VersionsOK ==
    /\ VersionsAreConsecutive
    /\ \A a \in Arrays : IsFiniteSet(versions[a]) /\ Cardinality(versions[a]) \in Nat

CommitInv == LocksInv /\ AssertionsHold /\ ThreadsOK /\ MessagesOK /\ DataOK /\ VersionsOK

--------------------------------------------------------------------------------
(* Stacks. *)

LEMMA Ranks ==
    /\ \A x \in Entry : Rank[x] \in 1..6
    /\ \A x \in Handler, y \in Finalizer : Rank[x] < Rank[y]
    /\ \A x \in Entry \ {"destroy"} : Rank[x] < Rank["destroy"]
    /\ Rank["UpdateErrorHandler"] < Rank["BroadcastAbort"]
    /\ Rank["BroadcastAbort"] < Rank["recordPersistent"]
    /\ Rank["recordPersistent"] < Rank["releaseLocks"]
    /\ Rank["releaseLocks"] < Rank["broadcastCommit"]
    /\ Rank["broadcastCommit"] < Rank["destroy"]
  BY DEF Rank, Entry, Handler, Finalizer

(* An entry that runs before all the others may be pushed. *)
LEMMA PushKeeps ==
    ASSUME NEW S \in SUBSET Entry, NEW s \in Seq(S), Descending(s), NEW x \in S,
           \A y \in Range(s) : Rank[x] < Rank[y]
    PROVE  /\ Append(s, x) \in Seq(S) /\ Descending(Append(s, x))
           /\ Range(Append(s, x)) = Range(s) \cup {x}
<1> DEFINE a == Append(s, x)
<1>1. a \in Seq(S) /\ Len(a) = Len(s) + 1 /\ DOMAIN a = 1..(Len(s) + 1) /\ DOMAIN s = 1..Len(s)
  OBVIOUS
<1>2. \A k \in 1..Len(s) : a[k] = s[k] /\ s[k] \in Range(s)
  BY DEF Range
<1>3. a[Len(s) + 1] = x
  OBVIOUS
<1>4. \A k \in DOMAIN a : a[k] \in Range(s) \cup {x}
  BY <1>1, <1>2, <1>3
<1>5. Range(a) = Range(s) \cup {x}
  <2>1. Range(a) \subseteq Range(s) \cup {x}
    BY <1>4 DEF Range
  <2>2. Range(s) \subseteq Range(a)
    BY <1>1, <1>2 DEF Range
  <2>3. x \in Range(a)
    BY <1>1, <1>3 DEF Range
  <2> QED
    BY <2>1, <2>2, <2>3
<1>6. \A k \in DOMAIN a : Rank[a[k]] \in 1..6
  BY <1>1, Ranks
<1>7. ASSUME NEW j \in DOMAIN a, NEW k \in DOMAIN a, j < k
      PROVE  Rank[a[j]] > Rank[a[k]]
  <2>1. j \in 1..Len(s)
    BY <1>1, <1>7
  <2>2. CASE k = Len(s) + 1
    BY <1>2, <1>3, <1>6, <1>7, <2>1, <2>2
  <2>3. CASE k \in 1..Len(s)
    BY <1>1, <1>2, <1>7, <2>1, <2>3 DEF Descending
  <2> QED
    BY <1>1, <2>2, <2>3
<1>8. Descending(a)
  BY <1>7 DEF Descending
<1> QED
  BY <1>1, <1>5, <1>8

(* What is left after the last entry has run. *)
LEMMA PopKeeps ==
    ASSUME NEW s \in Seq(Entry), Descending(s), s # <<>>
    PROVE  /\ Pop(s) \in Seq(Entry) /\ Descending(Pop(s))
           /\ Top(s) \in Range(s) /\ Range(Pop(s)) = Range(s) \ {Top(s)}
           /\ \A y \in Range(Pop(s)) : Rank[Top(s)] < Rank[y]
<1> DEFINE r == Pop(s)
           n == Len(s)
<1>1. n \in Nat /\ n > 0 /\ DOMAIN s = 1..n /\ Top(s) = s[n] /\ n \in DOMAIN s
  BY DEF Top
<1>2. r \in Seq(Entry) /\ DOMAIN r = 1..(n - 1) /\ \A k \in 1..(n - 1) : r[k] = s[k] /\ k \in DOMAIN s
  BY <1>1 DEF Pop
<1> HIDE DEF r, n
<1>3. \A k \in DOMAIN s : Rank[s[k]] \in 1..6
  BY <1>1, Ranks
<1>4. \A k \in DOMAIN r : Rank[s[n]] < Rank[r[k]]
  BY <1>1, <1>2, <1>3 DEF Descending
<1>5. \A k \in DOMAIN r : r[k] # s[n]
  BY <1>1, <1>2, <1>3, <1>4
<1>6. Range(r) = Range(s) \ {Top(s)}
  <2>1. Range(r) \subseteq Range(s) \ {Top(s)}
    BY <1>1, <1>2, <1>5 DEF Range
  <2>2. ASSUME NEW k \in DOMAIN s, s[k] # Top(s)
        PROVE  s[k] \in Range(r)
    <3>1. k \in DOMAIN r
      BY <1>1, <1>2, <2>2
    <3> QED
      BY <1>2, <3>1 DEF Range
  <2>3. Range(s) \ {Top(s)} \subseteq Range(r)
    BY <2>2 DEF Range
  <2> QED
    BY <2>1, <2>3
<1>7. Descending(r)
  BY <1>1, <1>2 DEF Descending
<1>8. \A y \in Range(r) : Rank[Top(s)] < Rank[y]
  BY <1>1, <1>4 DEF Range
<1>9. Top(s) \in Range(s)
  BY <1>1 DEF Range
<1> QED
  BY <1>2, <1>6, <1>7, <1>8, <1>9 DEF r

LEMMA Stacks ==
    /\ Range(<<>>) = {} /\ Descending(<<>>) /\ \A S : <<>> \in Seq(S)
    /\ \A S : \A s \in Seq(S) : s = <<>> <=> Range(s) = {}
    /\ \A x : Range(<<x>>) = {x}
    /\ \A x, y : Range(<<x, y>>) = {x, y}
  BY DEF Range, Descending

--------------------------------------------------------------------------------
(* The threads. *)

Shape == TypeOK /\ \A q \in Queries : coordOf[q] \in Instance

LEMMA Objects ==
    ASSUME TypeOK, NEW q \in Queries, NEW i \in Instance
    PROVE  /\ Obj(q, i) = query[q][i] /\ (IsObject(q, i) <=> query[q][i] # NoQuery)
           /\ query[q][i] # NoQuery => query[q][i] \in QueryObject
           /\ \A t \in Thread : stack[q][i][t] \in Seq(Entry)
  BY DEF TypeOK, IsObject, Obj, Entry, QueryObject, NoQuery

(* The normal form of a step of one thread of q on i: what its program counter, *)
(* its Query object and its stacks become.                                      *)
Moves(q, i, pc, o, k) ==
    /\ exec' = [exec EXCEPT ![q][i] = pc]
    /\ query' = [query EXCEPT ![q][i] = o]
    /\ stack' = [stack EXCEPT ![q][i] = k]

StackOK(k) == k \in [Thread -> Seq(Entry)]

(* A part of the state that a step leaves alone can be written in that form. *)
LEMMA StaysFacts ==
    ASSUME TypeOK, NEW q \in Queries, NEW i \in Instance
    PROVE  /\ exec = [exec EXCEPT ![q][i] = exec[q][i]] /\ exec[q][i] \in ExecState
           /\ query = [query EXCEPT ![q][i] = Obj(q, i)] /\ Obj(q, i) \in QueryObject \cup {NoQuery}
           /\ stack = [stack EXCEPT ![q][i] = stack[q][i]] /\ StackOK(stack[q][i])
<1>1. /\ exec \in [Queries -> [Instance -> ExecState]]
      /\ query \in [Queries -> [Instance -> QueryObject \cup {NoQuery}]]
      /\ stack \in [Queries -> [Instance -> [Thread -> Seq(Entry)]]]
  BY DEF TypeOK, Entry
<1>2. exec = [exec EXCEPT ![q][i] = exec[q][i]] /\ exec[q][i] \in ExecState
  BY <1>1
<1>3. query = [query EXCEPT ![q][i] = Obj(q, i)] /\ Obj(q, i) \in QueryObject \cup {NoQuery}
  BY <1>1 DEF Obj
<1>4. stack = [stack EXCEPT ![q][i] = stack[q][i]] /\ StackOK(stack[q][i])
  BY <1>1 DEF StackOK
<1> QED
  BY <1>2, <1>3, <1>4

(* A step that changes neither handlers nor finalizers nor stacks. *)
SameEntries(o, n) ==
    /\ o \in QueryObject /\ n \in QueryObject
    /\ n.errorHandlers = o.errorHandlers /\ n.finalizers = o.finalizers /\ n.commit = o.commit

LEMMA SameEntriesFacts ==
    ASSUME NEW o, NEW n, SameEntries(o, n)
    PROVE  /\ o # NoQuery /\ n # NoQuery
           /\ Hs(n) = Hs(o) /\ Fs(n) = Fs(o) /\ (Armed(n) <=> Armed(o))
           /\ \A k : Ordered(o, k) => Ordered(n, k)
           /\ \A k : SwappedOnce(o, k) => SwappedOnce(n, k)
<1>1. o # NoQuery /\ n # NoQuery
  BY DEF SameEntries, NoQuery, QueryObject
<1>2. Hs(n) = Hs(o) /\ Fs(n) = Fs(o) /\ (Armed(n) <=> Armed(o))
  BY <1>1 DEF SameEntries, Hs, Fs, Armed
<1>3. \A k : Ordered(o, k) => Ordered(n, k)
  BY <1>1 DEF SameEntries, Ordered
<1>4. \A k : SwappedOnce(o, k) => SwappedOnce(n, k)
  BY <1>1, <1>2 DEF SameEntries, SwappedOnce
<1> QED
  BY <1>1, <1>2, <1>3, <1>4

(* The coordinator goes on in the same status. *)
CoordinatorMoves == {<<"lockArrays", "locked">>, <<"locked", "parsed">>,
    <<"preSingleExecute", "updateArrayLock">>, <<"updateArrayLock", "broadcast">>,
    <<"broadcast", "stop">>, <<"store", "semResults">>}

LEMMA CoordinatorMoveLocal ==
    ASSUME NEW q, NEW i, i = coordOf[q], NEW o, NEW n, NEW k, NEW nd, NEW pc, NEW pd,
           Local(q, i, pc, o, k, nd), SameEntries(o, n), n.status = o.status,
           o.error => n.error, <<pc, pd>> \in CoordinatorMoves
    PROVE  Local(q, i, pd, n, k, nd)
<1>1. CoordinatorOK(pd, n)
  BY SameEntriesFacts DEF Local, CoordinatorOK, CoordinatorMoves, Started, BeforeHandler, AfterHandler
<1>2. ObjectOK(pd, n, k, nd)
  BY SameEntriesFacts, Zenon DEF Local, ObjectOK, CoordinatorOK, CoordinatorMoves, Started, SameEntries
<1> QED
  BY <1>1, <1>2, SameEntriesFacts DEF Local

(* A thread that has to report, or to wait no more, ends. *)
EndMoves == {<<"sendResult", "ended">>, <<"sendError", "ended">>, <<"planned", "cancel">>,
             <<"cancel", "ended">>, <<"cancel", "sendError">>}

LEMMA EndLocal ==
    ASSUME NEW q, NEW i, NEW o, NEW k, NEW nd, NEW pc, NEW pd,
           Local(q, i, pc, o, k, nd), <<pc, pd>> \in EndMoves, k["exec"] = <<>>,
           pc = "cancel" => o = NoQuery,
           pd = "cancel" => i = coordOf[q], pd = "sendError" => i # coordOf[q],
           pc \in {"sendResult", "sendError"} => i # coordOf[q]
    PROVE  Local(q, i, pd, o, k, nd)
<1>1. i # coordOf[q] => WorkerOK(pd, o, k)
  BY DEF Local, WorkerOK, EndMoves
<1>2. i = coordOf[q] => CoordinatorOK(pd, o)
  BY DEF Local, CoordinatorOK, EndMoves, Started, BeforeHandler, AfterHandler, Armed
<1>3. Ks(k, "exec") = {}
  BY Stacks DEF Ks
<1>4. ObjectOK(pd, o, k, nd)
  BY <1>3 DEF Local, ObjectOK, EndMoves, CoordinatorOK, WorkerOK
<1> QED
  BY <1>1, <1>2, <1>4 DEF Local

(* The four steps that push handlers and finalizers, onto a query that has no   *)
(* error and so still has those it pushed before.                               *)
LEMMA PushLocal ==
    ASSUME NEW q, NEW i, NEW o \in QueryObject, NEW n \in QueryObject, NEW k, NEW nd, NEW pc, NEW pd,
           Local(q, i, pc, o, k, nd), ~o.error, ~n.error, n.commit = o.commit,
           Descending(n.errorHandlers), Descending(n.finalizers), Armed(n),
           k["exec"] = <<>>, n.status = "START",
           pd \in {"lockArrays", "preSingleExecute", "done", "lockArray"}, nd = "up",
           i = coordOf[q] => CoordinatorOK(pd, n),
           i # coordOf[q] => /\ pd = "lockArray" /\ ~n.hasId
                             /\ Hs(n) = {"UpdateErrorHandler"} /\ Fs(n) = {"destroy", "releaseLocks"}
    PROVE  Local(q, i, pd, n, k, nd)
<1>1. o # NoQuery /\ n # NoQuery
  BY DEF QueryObject, NoQuery
<1>2. o.commit = "UNKNOWN" /\ Armed(o)
  BY <1>1 DEF Local, ObjectOK, SwappedOnce, QueryObject
<1>3. Ks(k, "exec") = {} /\ Ks(k, "errq") = {}
  BY <1>2 DEF Local, SwappedOnce
<1>4. Ordered(n, k)
  BY <1>1 DEF Local, Ordered
<1>5. SwappedOnce(n, k)
  BY <1>1, <1>3 DEF SwappedOnce
<1>6. ObjectOK(pd, n, k, nd)
  BY <1>1, <1>2, <1>3 DEF ObjectOK
<1>7. i # coordOf[q] => WorkerOK(pd, n, k)
  BY <1>1 DEF Local, WorkerOK, WorkerEntry
<1> QED
  BY <1>4, <1>5, <1>6, <1>7 DEF Local

(* An entry of a stack runs.  destroy is the last one. *)
LEMMA PopFacts ==
    ASSUME NEW k, StackOK(k), NEW o, NEW t \in Thread, Ordered(o, k), SwappedOnce(o, k), k[t] # <<>>
    PROVE  /\ o # NoQuery /\ ~Armed(o) /\ "destroy" \in Ks(k, t)
           /\ \A u \in Thread \ {t} : Ks(k, u) = {}
           /\ StackOK([k EXCEPT ![t] = Pop(@)])
           /\ Top(k[t]) \in Ks(k, t) /\ Ks([k EXCEPT ![t] = Pop(@)], t) = Ks(k, t) \ {Top(k[t])}
           /\ \A u \in Thread \ {t} : Ks([k EXCEPT ![t] = Pop(@)], u) = {}
           /\ \A y \in Ks(k, t) \ {Top(k[t])} : Rank[Top(k[t])] < Rank[y]
           /\ \A u \in Thread : Descending([k EXCEPT ![t] = Pop(@)][u])
<1>1. k[t] \in Seq(Entry) /\ Descending(k[t])
  BY DEF StackOK, Ordered
<1>2. /\ Pop(k[t]) \in Seq(Entry) /\ Descending(Pop(k[t]))
      /\ Top(k[t]) \in Range(k[t]) /\ Range(Pop(k[t])) = Range(k[t]) \ {Top(k[t])}
      /\ \A y \in Range(Pop(k[t])) : Rank[Top(k[t])] < Rank[y]
  BY <1>1, PopKeeps
<1> DEFINE k2 == [k EXCEPT ![t] = Pop(@)]
<1>3. k2[t] = Pop(k[t]) /\ StackOK(k2) /\ \A u \in Thread \ {t} : k2[u] = k[u]
  BY <1>2 DEF StackOK
<1>4. Ks(k, t) # {}
  BY <1>2 DEF Ks
<1>5. /\ o # NoQuery /\ ~Armed(o) /\ "destroy" \in Ks(k, t)
      /\ \A u \in Thread \ {t} : Ks(k, u) = {}
  BY <1>4 DEF SwappedOnce, Thread
<1>6. \A u \in Thread : Descending(k2[u])
  BY <1>2, <1>3 DEF Ordered
<1> QED
  BY <1>2, <1>3, <1>5, <1>6, Zenon DEF Ks

LEMMA PopLocal ==
    ASSUME NEW q, NEW i, NEW o, NEW k, StackOK(k), NEW nd, NEW pc,
           NEW t \in Thread, Local(q, i, pc, o, k, nd), k[t] # <<>>, Top(k[t]) # "destroy"
    PROVE  Local(q, i, pc, o, [k EXCEPT ![t] = Pop(@)], nd)
<1> DEFINE k2 == [k EXCEPT ![t] = Pop(@)]
<1>1. /\ o # NoQuery /\ ~Armed(o) /\ "destroy" \in Ks(k, t)
      /\ \A u \in Thread \ {t} : Ks(k, u) = {} /\ Ks(k2, u) = {}
      /\ Ks(k2, t) = Ks(k, t) \ {Top(k[t])}
      /\ \A u \in Thread : Descending(k2[u])
  BY PopFacts, Zenon DEF Local
<1> HIDE DEF k2
<1>2. Ordered(o, k2)
  BY <1>1 DEF Local, Ordered
<1>3. SwappedOnce(o, k2)
  BY <1>1 DEF Local, SwappedOnce, Thread
<1>4. ObjectOK(pc, o, k2, nd)
  BY <1>1 DEF Local, ObjectOK, Thread
<1>5. i # coordOf[q] => WorkerOK(pc, o, k2)
  BY <1>1 DEF Local, WorkerOK
<1> QED
  BY <1>2, <1>3, <1>4, <1>5 DEF Local, k2

--------------------------------------------------------------------------------
(* The catalog, the disks and the messages. *)

FewerReporters(v, w) ==
    /\ w.node = v.node /\ w.recovering = v.recovering /\ w.stored = v.stored
    /\ w.row = v.row /\ w.coordRow = v.coordRow /\ w.versions = v.versions
    /\ w.workers = v.workers /\ w.reporters \subseteq v.reporters

LEMMA FewerReportersKeep ==
    ASSUME NEW q, NEW i, NEW pc, NEW o, NEW k, NEW v, NEW w,
           Data(q, i, pc, o, k, v), FewerReporters(v, w)
    PROVE  Data(q, i, pc, o, k, w)
<1>1. (Wrote(q, w) <=> Wrote(q, v)) /\ LastOf(w) = LastOf(v)
  BY DEF FewerReporters, Wrote, LastOf
<1>2. RowOK(q, i, o, k, w) /\ RecoveryOK(q, i, w) /\ StoredOK(q, w)
  BY <1>1 DEF Data, RowOK, RecoveryOK, StoredOK, FewerReporters
<1>3. ChunksOK(q, i, pc, o, k, w)
  BY <1>1 DEF Data, ChunksOK, FewerReporters
<1>4. i = coordOf[q] => CoordinatorRow(q, pc, o, k, w)
  BY <1>1 DEF Data, CoordinatorRow, FewerReporters
<1>5. i # coordOf[q] => ReportsOK(q, i, pc, o, w)
  BY <1>1 DEF Data, ReportsOK, HasDone, FewerReporters
<1> QED
  BY <1>2, <1>3, <1>4, <1>5 DEF Data

(* A step that changes neither entries nor what the query knows of its row. *)
SameButStatus(o, n) ==
    SameEntries(o, n) /\ n.version = o.version /\ n.hasId = o.hasId /\ n.results = o.results

LEMMA StatusData ==
    ASSUME NEW q, NEW i, NEW pc, NEW pd, NEW o, NEW n, NEW k, NEW v,
           Data(q, i, pc, o, k, v), SameButStatus(o, n),
           i = coordOf[q] => CoordinatorRow(q, pd, n, k, v),
           i # coordOf[q] => ReportsOK(q, i, pd, n, v) /\ (pd = "done" => q \in v.stored)
    PROVE  Data(q, i, pd, n, k, v)
<1>1. /\ o # NoQuery /\ n # NoQuery /\ Hs(n) = Hs(o) /\ Fs(n) = Fs(o)
      /\ (Armed(n) <=> Armed(o)) /\ (Recording(n, k) <=> Recording(o, k))
  BY SameEntriesFacts DEF SameButStatus, SameEntries, Recording
<1>2. RowOK(q, i, n, k, v)
  BY <1>1 DEF Data, RowOK
<1>3. ChunksOK(q, i, pd, n, k, v)
  BY <1>1 DEF Data, ChunksOK, SameButStatus
<1> QED
  BY <1>2, <1>3 DEF Data

(* The coordinator does not go back to where it has not sent the plan, and a    *)
(* worker starts with the plan.                                                 *)
MovesOn(q, i, pd) ==
    /\ i = coordOf[q] =>
        /\ pd \in BeforePlan => exec[q][i] \in BeforePlan
        /\ pd = "none" => exec[q][i] = "none"
    /\ i # coordOf[q] =>
        /\ exec[q][i] \in {"none", "idle"} /\ pd \notin {"none", "idle"} =>
            \E m \in msgs : IsPlan(m, q)
        /\ exec[q][i] = "ended" => pd = "ended"
    /\ exec[q][i] = "none" => pd = "none"

(* A step sends no plan, and what it sends is as it should be. *)
Posts == \A m \in msgs' \ msgs :
            m \in Message /\ m.type # "mtPreparePhysicalPlan" /\ MessageOK(m)'

(* A step that leaves the catalog and the disks alone. *)
Calm(q, i, pd, n, k2) == Moves(q, i, pd, n, k2) /\ UNCHANGED <<catalog, stored, machine, failed>>

RowView(q, i, r) == [View(q, i) EXCEPT !.row = r, !.coordRow = IF i = coordOf[q] THEN r ELSE @]

ChunkView(q, i, S, R) == [View(q, i) EXCEPT !.stored = S, !.recovering = R]

(* The steps of the thread of q on i by what else they change: nothing, the row *)
(* of q on i, the chunks of q on i.                                             *)
CalmMove(q, i, pd, n, k2) ==
    /\ pd \in ExecState /\ n \in QueryObject \cup {NoQuery} /\ StackOK(k2)
    /\ Calm(q, i, pd, n, k2) /\ MovesOn(q, i, pd) /\ (n # NoQuery => query[q][i] # NoQuery)
    /\ i # coordOf[q] /\ exec[q][i] = "idle" /\ pd # "idle" =>
           \A m \in msgs' : ~(IsPlan(m, q) /\ m.to = i)
    /\ i = coordOf[q] /\ n # NoQuery => n.results \subseteq Reporters(q)
    /\ Posts /\ \A m \in msgs' \ msgs : m.type # "mtQueryResult"
    /\ Local(q, i, pd, n, k2, node[i]) /\ Data(q, i, pd, n, k2, View(q, i))

RowMove(q, i, pd, n, k2, r) ==
    /\ pd \in ExecState /\ n \in QueryObject \cup {NoQuery} /\ StackOK(k2) /\ r \in Nat \cup {NoRow}
    /\ Moves(q, i, pd, n, k2) /\ rows' = [rows EXCEPT ![q][i] = r]
    /\ UNCHANGED <<versions, stored, msgs, machine, failed>>
    /\ MovesOn(q, i, pd) /\ (n # NoQuery => query[q][i] # NoQuery)
    /\ exec[q][i] = "idle" => pd = "idle"
    /\ i = coordOf[q] /\ n # NoQuery => n.results \subseteq Reporters(q)
    /\ i = coordOf[q] /\ r = 0 => exec[q][i] \in BeforePlan
    /\ i = coordOf[q] =>
           \/ r = NoRow \/ rows[q][i] # NoRow
           \/ \A j \in Workers(q) : ~HasDone(j, exec[q][j], query[q][j], View(q, j))
    /\ Local(q, i, pd, n, k2, node[i]) /\ Data(q, i, pd, n, k2, RowView(q, i, r))

ChunkMove(q, i, pd, k2, S) ==
    /\ pd \in ExecState /\ StackOK(k2) /\ S \in SUBSET Queries
    /\ Moves(q, i, pd, query[q][i], k2) /\ stored' = [stored EXCEPT ![i] = S]
    /\ \A p \in Queries \ {q} : p \in S <=> p \in stored[i]
    /\ UNCHANGED <<catalog, msgs, machine, failed>>
    /\ MovesOn(q, i, pd) /\ (exec[q][i] = "idle" => pd = "idle")
    /\ Local(q, i, pd, query[q][i], k2, node[i])
    /\ Data(q, i, pd, query[q][i], k2, ChunkView(q, i, S, recovering[i]))

ThreadMove ==
    \E q \in Queries, i \in Instance :
        \/ \E pd, n, k2 : CalmMove(q, i, pd, n, k2)
        \/ \E pd, n, k2, r : RowMove(q, i, pd, n, k2, r)
        \/ \E pd, k2, S : ChunkMove(q, i, pd, k2, S)

LEMMA CalmStep ==
    ASSUME NEW q \in Queries, NEW i \in Instance, NEW pd, NEW n, NEW k2, CalmMove(q, i, pd, n, k2)
    PROVE  ThreadMove
  BY DEF ThreadMove

LEMMA RowStep ==
    ASSUME NEW q \in Queries, NEW i \in Instance, NEW pd, NEW n, NEW k2, NEW r, RowMove(q, i, pd, n, k2, r)
    PROVE  ThreadMove
  BY DEF ThreadMove

LEMMA ChunkStep ==
    ASSUME NEW q \in Queries, NEW i \in Instance, NEW pd, NEW k2, NEW S, ChunkMove(q, i, pd, k2, S)
    PROVE  ThreadMove
  BY DEF ThreadMove

--------------------------------------------------------------------------------
(* What is known before a step. *)

(* What is known of the thread of q on i before a step. *)
LEMMA Before ==
    ASSUME CommitInv, NEW q \in Queries, NEW i \in Instance
    PROVE  /\ TypeOK /\ Shape /\ coordOf[q] \in Instance
           /\ Local(q, i, exec[q][i], query[q][i], stack[q][i], node[i])
           /\ Data(q, i, exec[q][i], query[q][i], stack[q][i], View(q, i))
           /\ Obj(q, i) = query[q][i] /\ (IsObject(q, i) <=> query[q][i] # NoQuery)
           /\ query[q][i] # NoQuery => query[q][i] \in QueryObject
           /\ query[q][i] \in QueryObject \cup {NoQuery} /\ exec[q][i] \in ExecState
           /\ stack[q][i] \in [Thread -> Seq(Entry)] /\ StackOK(stack[q][i])
           /\ NoQuery \notin QueryObject
<1>1. TypeOK /\ Shape /\ ThreadsOK /\ DataOK
  BY DEF CommitInv, AssertionsHold, LocksInv, Shape
<1>2. /\ Local(q, i, exec[q][i], query[q][i], stack[q][i], node[i])
      /\ Data(q, i, exec[q][i], query[q][i], stack[q][i], View(q, i))
  BY <1>1 DEF ThreadsOK, DataOK
<1>3. /\ Obj(q, i) \in QueryObject \cup {NoQuery} /\ exec[q][i] \in ExecState /\ StackOK(stack[q][i])
      /\ Obj(q, i) = query[q][i] /\ (IsObject(q, i) <=> query[q][i] # NoQuery)
  BY <1>1, StaysFacts, Objects
<1>4. NoQuery \notin QueryObject
  BY DEF QueryObject, NoQuery
<1> QED
  BY <1>1, <1>2, <1>3, <1>4 DEF Shape, StackOK

LEMMA ResultsAreReports ==
    ASSUME CommitInv, NEW q \in Queries, query[q][coordOf[q]] # NoQuery
    PROVE  query[q][coordOf[q]].results \subseteq Reporters(q)
<1>1. query[q][coordOf[q]] \in QueryObject
  BY Before DEF CommitInv, LocksInv
<1> QED
  BY <1>1 DEF Reporters, QueryObject

(* What the catalog says of the last version. *)
LEMMA LastVersionFacts ==
    ASSUME CommitInv, NEW a \in Arrays
    PROVE  /\ LastVersion(a) = Cardinality(versions[a]) /\ LastVersion(a) \in Nat
           /\ {v.version : v \in versions[a]} = 1..LastVersion(a)
<1>1. {v.version : v \in versions[a]} = 1..Cardinality(versions[a]) /\ Cardinality(versions[a]) \in Nat
  BY DEF CommitInv, VersionsOK, VersionsAreConsecutive
<1> DEFINE N == Cardinality(versions[a])
<1>2. {0} \cup {v.version : v \in versions[a]} = 0..N
  BY <1>1
<1> HIDE DEF N
<1>3. Max(0..N) = N
  BY <1>1 DEF N, Max
<1> QED
  BY <1>1, <1>2, <1>3, Zenon DEF LastVersion, N

(* What a view says of the state it is a view of: as it is, with another row, *)
(* with other chunks.                                                          *)
IsView(q, i, v) ==
    /\ LastOf(v) = LastVersion(arrayOf[q]) /\ (Wrote(q, v) <=> Committed(q))
    /\ v.row = rows[q][i] /\ v.coordRow = rows[q][coordOf[q]] /\ v.stored = stored[i]
    /\ v.node = node[i] /\ v.recovering = recovering[i]
    /\ v.workers = Workers(q) /\ v.reporters = Reporters(q)

IsRowView(q, i, r, v) ==
    /\ LastOf(v) = LastVersion(arrayOf[q]) /\ (Wrote(q, v) <=> Committed(q))
    /\ v.row = r /\ v.coordRow = (IF i = coordOf[q] THEN r ELSE rows[q][coordOf[q]])
    /\ v.stored = stored[i] /\ v.node = node[i] /\ v.recovering = recovering[i]
    /\ v.workers = Workers(q) /\ v.reporters = Reporters(q)

IsChunkView(q, i, S, R, v) ==
    /\ LastOf(v) = LastVersion(arrayOf[q]) /\ (Wrote(q, v) <=> Committed(q))
    /\ v.row = rows[q][i] /\ v.coordRow = rows[q][coordOf[q]]
    /\ v.stored = S /\ v.node = node[i] /\ v.recovering = R
    /\ v.workers = Workers(q) /\ v.reporters = Reporters(q)

LEMMA ViewFacts ==
    ASSUME NEW q, NEW i
    PROVE  IsView(q, i, View(q, i))
  BY DEF IsView, View, LastOf, LastVersion, Wrote, Committed

LEMMA RowViewFacts ==
    ASSUME NEW q, NEW i, NEW r
    PROVE  IsRowView(q, i, r, RowView(q, i, r))
  BY DEF IsRowView, RowView, View, LastOf, LastVersion, Wrote, Committed

LEMMA ChunkViewFacts ==
    ASSUME NEW q, NEW i, NEW S, NEW R
    PROVE  IsChunkView(q, i, S, R, ChunkView(q, i, S, R))
  BY DEF IsChunkView, ChunkView, View, LastOf, LastVersion, Wrote, Committed

(* A query without an error still has its finalizers. *)
LEMMA NoErrorArmed ==
    ASSUME NEW q, NEW i, NEW pc, NEW o \in QueryObject, NEW k, NEW nd, Local(q, i, pc, o, k, nd), ~o.error
    PROVE  Armed(o) /\ o.commit = "UNKNOWN" /\ nd = "up" /\ Ks(k, "exec") = {} /\ Ks(k, "errq") = {}
<1>1. o # NoQuery
  BY DEF QueryObject, NoQuery
<1>2. o.commit = "UNKNOWN"
  BY <1>1 DEF Local, ObjectOK, QueryObject
<1> QED
  BY <1>1, <1>2 DEF Local, SwappedOnce, ObjectOK

(* acquireLocks, startExecuteQuery, postSingleExecute and install push entries. *)
LEMMA PushData ==
    ASSUME NEW q, NEW i, NEW pc, NEW pd, NEW o \in QueryObject, NEW n \in QueryObject, NEW k, NEW v,
           Data(q, i, pc, o, k, v), Armed(o), Armed(n), Hs(o) \subseteq Hs(n), Fs(o) \subseteq Fs(n),
           n.version = o.version, n.hasId = o.hasId,
           i = coordOf[q] => CoordinatorRow(q, pd, n, k, v),
           i # coordOf[q] => ReportsOK(q, i, pd, n, v) /\ pd # "done"
    PROVE  Data(q, i, pd, n, k, v)
<1>1. RowOK(q, i, n, k, v)
  BY DEF Data, RowOK
<1>2. ChunksOK(q, i, pd, n, k, v)
  BY DEF Data, ChunksOK
<1> QED
  BY <1>1, <1>2 DEF Data

--------------------------------------------------------------------------------
(* A step of one thread that leaves the catalog and the disks alone. *)

LEMMA CoordinatorStep ==
    ASSUME CommitInv, NEW q \in Queries, NEW c, c = coordOf[q],
           NEW pd \in ExecState, NEW n \in QueryObject, query[q][c] # NoQuery,
           Calm(q, c, pd, n, stack[q][c]), msgs' \subseteq msgs,
           pd \in BeforePlan => exec[q][c] \in BeforePlan, pd # "none",
           n.results = query[q][c].results,
           Local(q, c, pd, n, stack[q][c], node[c]), Data(q, c, pd, n, stack[q][c], View(q, c))
    PROVE  ThreadMove
<1>1. c \in Instance
  BY DEF CommitInv, LocksInv
<1>2. Posts /\ \A m \in msgs' \ msgs : m.type # "mtQueryResult"
  BY DEF Posts
<1>3. StackOK(stack[q][c]) /\ (exec[q][c] = "none" => query[q][c] = NoQuery)
  BY <1>1, Before, Zenon DEF Local, ObjectOK
<1>4. MovesOn(q, c, pd)
  BY <1>3, Zenon DEF MovesOn
<1>5. n.results \subseteq Reporters(q)
  BY ResultsAreReports, Zenon
<1> QED
  BY <1>1, <1>2, <1>3, <1>4, <1>5, CalmStep DEF CalmMove

LEMMA WorkerStep ==
    ASSUME CommitInv, NEW q \in Queries, NEW i \in Instance, i # coordOf[q],
           NEW pd \in ExecState, NEW n \in QueryObject, query[q][i] # NoQuery,
           Calm(q, i, pd, n, stack[q][i]), msgs' \subseteq msgs,
           exec[q][i] \notin {"none", "idle", "ended"}, pd \notin {"none", "idle"},
           Local(q, i, pd, n, stack[q][i], node[i]), Data(q, i, pd, n, stack[q][i], View(q, i))
    PROVE  ThreadMove
<1>1. StackOK(stack[q][i])
  BY Before
<1>2. Posts /\ \A m \in msgs' \ msgs : m.type # "mtQueryResult"
  BY DEF Posts
<1>3. MovesOn(q, i, pd)
  BY DEF MovesOn
<1> QED
  BY <1>1, <1>2, <1>3, CalmStep DEF CalmMove

--------------------------------------------------------------------------------
(* A handler or a finalizer runs. *)

Popped(q, i, t) == [stack[q][i] EXCEPT ![t] = Pop(@)]

LEMMA RunsFacts ==
    ASSUME CommitInv, NEW q \in Queries, NEW i \in Instance, NEW t \in Thread, NEW x, Runs(q, i, t, x)
    PROVE  /\ stack' = [stack EXCEPT ![q][i] = Popped(q, i, t)] /\ StackOK(Popped(q, i, t))
           /\ query[q][i] # NoQuery /\ query[q][i] \in QueryObject /\ ~Armed(query[q][i])
           /\ x \in Ks(stack[q][i], t) /\ "destroy" \in Ks(stack[q][i], t)
           /\ Ks(Popped(q, i, t), t) = Ks(stack[q][i], t) \ {x}
           /\ \A u \in Thread \ {t} : Ks(stack[q][i], u) = {} /\ Ks(Popped(q, i, t), u) = {}
           /\ \A y \in Ks(Popped(q, i, t), t) : Rank[x] < Rank[y]
           /\ \A u \in Thread : Descending(Popped(q, i, t)[u])
           /\ x # "destroy" => Local(q, i, exec[q][i], query[q][i], Popped(q, i, t), node[i])
           /\ node[i] = "up"
<1> DEFINE o == query[q][i]
           k == stack[q][i]
<1>1. /\ TypeOK /\ StackOK(k) /\ Local(q, i, exec[q][i], o, k, node[i])
      /\ o # NoQuery => o \in QueryObject
  BY Before, Zenon
<1>2. k[t] # <<>> /\ Top(k[t]) = x /\ stack' = [stack EXCEPT ![q][i][t] = Pop(@)]
  BY Zenon DEF Runs, Next1
<1>3. stack' = [stack EXCEPT ![q][i] = Popped(q, i, t)]
  BY <1>1, <1>2, Zenon DEF TypeOK, Popped
<1>4. Ordered(o, k) /\ SwappedOnce(o, k) /\ (node[i] # "up" => o = NoQuery)
  BY <1>1, Zenon DEF Local, ObjectOK
<1>5. /\ o # NoQuery /\ ~Armed(o) /\ "destroy" \in Ks(k, t) /\ StackOK(Popped(q, i, t))
      /\ \A u \in Thread \ {t} : Ks(k, u) = {} /\ Ks(Popped(q, i, t), u) = {}
      /\ x \in Ks(k, t) /\ Ks(Popped(q, i, t), t) = Ks(k, t) \ {x}
      /\ \A y \in Ks(k, t) \ {x} : Rank[x] < Rank[y]
      /\ \A u \in Thread : Descending(Popped(q, i, t)[u])
  <2> DEFINE k2 == [k EXCEPT ![t] = Pop(@)]
  <2>1. Popped(q, i, t) = k2
    BY Zenon DEF Popped
  <2> HIDE DEF o, k
  <2>2. /\ o # NoQuery /\ ~Armed(o) /\ "destroy" \in Ks(k, t)
        /\ \A u \in Thread \ {t} : Ks(k, u) = {}
        /\ StackOK(k2)
        /\ Top(k[t]) \in Ks(k, t) /\ Ks(k2, t) = Ks(k, t) \ {Top(k[t])}
        /\ \A u \in Thread \ {t} : Ks(k2, u) = {}
        /\ \A y \in Ks(k, t) \ {Top(k[t])} : Rank[Top(k[t])] < Rank[y]
        /\ \A u \in Thread : Descending(k2[u])
    BY <1>1, <1>2, <1>4, PopFacts, Zenon
  <2> HIDE DEF k2
  <2> QED
    BY <1>2, <2>1, <2>2, Zenon
<1>6. x # "destroy" => Local(q, i, exec[q][i], o, Popped(q, i, t), node[i])
  BY <1>1, <1>2, PopLocal, Zenon DEF Popped
<1> QED
  BY <1>1, <1>3, <1>4, <1>5, <1>6, Zenon

LEMMA PopData ==
    ASSUME NEW q, NEW i, NEW pc, NEW o, NEW k, NEW k2, NEW v, NEW t \in Thread, NEW x,
           Data(q, i, pc, o, k, v), o # NoQuery, ~Armed(o), Ks(k2, t) = Ks(k, t) \ {x},
           \A u \in Thread \ {t} : Ks(k, u) = {} /\ Ks(k2, u) = {},
           x \notin {"releaseLocks", "UpdateErrorHandler"}, x = "recordPersistent" => ~Recording(o, k)
    PROVE  Data(q, i, pc, o, k2, v)
<1>1. HandlerPending(k2) <=> HandlerPending(k)
  BY Zenon DEF HandlerPending
<1>2. Recording(o, k2) <=> Recording(o, k)
  BY DEF Recording, Thread
<1>3. RowOK(q, i, o, k2, v)
  BY Zenon DEF Data, RowOK
<1>4. ChunksOK(q, i, pc, o, k2, v)
  BY <1>1, <1>2, Zenon DEF Data, ChunksOK
<1>5. i = coordOf[q] => CoordinatorRow(q, pc, o, k2, v)
  BY <1>2, Zenon DEF Data, CoordinatorRow
<1> QED
  BY <1>3, <1>4, <1>5, Zenon DEF Data

--------------------------------------------------------------------------------
(* What is the same, or seen, after a step. *)

SameAt(q, i) ==
    exec'[q][i] = exec[q][i] /\ query'[q][i] = query[q][i] /\ stack'[q][i] = stack[q][i]

LEMMA NoRowFacts == ~(NoRow > 0) /\ NoRow # 0
  BY DEF NoRow

LEMMA SameVersions ==
    ASSUME VersionsOK, versions' = versions
    PROVE  VersionsOK'
  BY Zenon DEF VersionsOK, VersionsAreConsecutive

NodeState == {"up", "down", "recoverCoord", "recoverWorker"}

(* The fields of what is seen of q on i after the step. *)
IsNext(q, i, w) ==
    /\ w.node = node'[i] /\ w.recovering = recovering'[i] /\ w.stored = stored'[i]
    /\ w.row = rows'[q][i] /\ w.coordRow = rows'[q][coordOf[q]]
    /\ w.versions = versions'[arrayOf[q]] /\ w.workers = Workers(q)' /\ w.reporters = Reporters(q)'

(* View(q, i)' *)
NextView(q, i) ==
    [node |-> node'[i], recovering |-> recovering'[i], stored |-> stored'[i],
     row |-> rows'[q][i], coordRow |-> rows'[q][coordOf[q]], versions |-> versions'[arrayOf[q]],
     workers |-> Workers(q)', reporters |-> Reporters(q)']

LEMMA NextViewFacts ==
    ASSUME NEW q, NEW i
    PROVE  IsNext(q, i, NextView(q, i))
  BY Zenon DEF NextView, IsNext

(* A worker sees another row of its coordinator. *)
SameButCoordRow(v, w) ==
    /\ w.node = v.node /\ w.recovering = v.recovering /\ w.stored = v.stored /\ w.row = v.row
    /\ w.versions = v.versions /\ w.workers = v.workers /\ w.reporters \subseteq v.reporters

LEMMA CoordRowKeeps ==
    ASSUME NEW q, NEW i, NEW pc, NEW o, NEW k, NEW v, NEW w, i # coordOf[q],
           Data(q, i, pc, o, k, v), SameButCoordRow(v, w),
           \/ w.coordRow = NoRow \/ v.coordRow # NoRow
           \/ ~HasDone(i, pc, o, v)
    PROVE  Data(q, i, pc, o, k, w)
<1>1. (Wrote(q, w) <=> Wrote(q, v)) /\ LastOf(w) = LastOf(v)
  BY Zenon DEF SameButCoordRow, Wrote, LastOf
<1>2. RowOK(q, i, o, k, w) /\ RecoveryOK(q, i, w) /\ StoredOK(q, w)
  BY <1>1, Zenon DEF Data, RowOK, RecoveryOK, StoredOK, SameButCoordRow
<1>3. ChunksOK(q, i, pc, o, k, w)
  BY <1>1, Zenon DEF Data, ChunksOK, SameButCoordRow
<1>4. ReportsOK(q, i, pc, o, w)
  BY <1>1, Zenon DEF Data, ReportsOK, HasDone, SameButCoordRow
<1> QED
  BY <1>2, <1>3, <1>4, Zenon DEF Data

--------------------------------------------------------------------------------
(* Writers exclude each other. *)

HasRow(q) == \E i \in Instance : rows[q][i] # NoRow

(* A step that keeps the shape of the table, and gives a row to no query that *)
(* has none, keeps writers apart.                                             *)
NoNewHolder ==
    /\ DOMAIN rows' = Queries
    /\ \A q \in Queries : DOMAIN rows'[q] = Instance
    /\ \A q \in Queries, i \in Instance : rows'[q][i] # NoRow => HasRow(q)

LEMMA NoNewHolderKeeps ==
    ASSUME LocksInv, NoNewHolder, plan' = plan
    PROVE  LocksInv'
<1>1. Queries' = Queries /\ Instance' = Instance /\ plan' \in Plan
  BY Zenon DEF LocksInv, Queries, Instance
<1>2. ASSUME NEW p \in Queries, NEW q \in Queries, p # q, arrayOf[p] = arrayOf[q],
             NEW i \in Instance, NEW j \in Instance
      PROVE  rows'[p][i] = NoRow \/ rows'[q][j] = NoRow
  BY <1>2, Zenon DEF LocksInv, NoNewHolder, HasRow, WritersExclude
<1>3. WritersExclude'
  BY <1>1, <1>2 DEF WritersExclude
<1> QED
  BY <1>1, <1>3, Zenon DEF LocksInv, NoNewHolder

(* The rows are left alone by most steps. *)
LEMMA SameRowsKeep ==
    ASSUME LocksInv, rows' = rows, plan' = plan
    PROVE  LocksInv'
<1>1. NoNewHolder
  BY Zenon DEF NoNewHolder, LocksInv, HasRow
<1> QED
  BY <1>1, NoNewHolderKeeps, Zenon

(* Faults only count down in the plan. *)
LEMMA FaultKeeps ==
    ASSUME LocksInv, rows' = rows,
           \/ plan.crashes > 0 /\ plan' = [plan EXCEPT !.crashes = @ - 1]
           \/ plan.losses > 0 /\ plan' = [plan EXCEPT !.losses = @ - 1]
    PROVE  LocksInv'
<1>1. plan' \in Plan /\ plan'.queries = plan.queries /\ plan'.instances = plan.instances
  BY DEF LocksInv, Plan
<1>2. Queries' = Queries /\ Instance' = Instance
  BY <1>1, Zenon DEF Queries, Instance
<1>3. WritersExclude'
  BY <1>2 DEF LocksInv, WritersExclude
<1> QED
  BY <1>1, <1>2, <1>3, Zenon DEF LocksInv

(* A row is deleted, by a finalizer or by a thread that unwinds. *)
LEMMA DeleteKeeps ==
    ASSUME LocksInv, NEW q \in Queries, NEW i \in Instance,
           rows' = [rows EXCEPT ![q][i] = NoRow], plan' = plan
    PROVE  LocksInv'
<1>1. NoNewHolder
  BY Zenon DEF NoNewHolder, LocksInv, HasRow
<1> QED
  BY <1>1, NoNewHolderKeeps, Zenon

(* lockArrays: the only step by which a query gets its first row, and CanLock  *)
(* has looked at the rows of every other writer of the array on every instance. *)
LEMMA LockArraysKeeps ==
    ASSUME LocksInv, NEW q \in Queries, lockArrays(q)
    PROVE  LocksInv'
<1>1. rows' = [rows EXCEPT ![q][coordOf[q]] = 0] /\ plan' = plan
  BY Zenon DEF lockArrays, machine
<1>2. Queries' = Queries /\ Instance' = Instance
  BY <1>1, Zenon DEF Queries, Instance
<1>3. /\ DOMAIN rows' = Queries
      /\ \A p \in Queries : DOMAIN rows'[p] = Instance
      /\ \A p \in Queries \ {q} : rows'[p] = rows[p]
  BY <1>1, Zenon DEF LocksInv
<1>4. ASSUME NEW p \in Queries, p # q, arrayOf[p] = arrayOf[q], NEW i \in Instance
      PROVE  rows'[p][i] = NoRow
  BY <1>3, <1>4 DEF lockArrays, CanLock
<1>5. ASSUME NEW p \in Queries, NEW r \in Queries, p # r, arrayOf[p] = arrayOf[r],
             NEW i \in Instance, NEW j \in Instance
      PROVE  rows'[p][i] = NoRow \/ rows'[r][j] = NoRow
  <2>1. CASE p = q
    BY <1>4, <1>5, <2>1, Zenon
  <2>2. CASE r = q
    BY <1>4, <1>5, <2>2, Zenon
  <2>3. CASE p # q /\ r # q
    BY <1>3, <1>5, <2>3 DEF LocksInv, WritersExclude
  <2> QED
    BY <2>1, <2>2, <2>3, Zenon
<1>6. WritersExclude'
  BY <1>2, <1>5 DEF WritersExclude
<1> QED
  BY <1>1, <1>2, <1>3, <1>6, Zenon DEF LocksInv

(* updateArrayLock rewrites a row that is there; lockArray of a worker copies the *)
(* row of its coordinator: the query had one either way.                          *)
LEMMA UpdateArrayLockKeeps ==
    ASSUME LocksInv, NEW q \in Queries, updateArrayLock(q)
    PROVE  LocksInv'
<1>1. rows' = [rows EXCEPT ![q][coordOf[q]] =
                 IF @ = NoRow THEN @ ELSE Obj(q, coordOf[q]).version] /\ plan' = plan
  BY Zenon DEF updateArrayLock, machine
<1>2. NoNewHolder
  BY <1>1, Zenon DEF NoNewHolder, LocksInv, HasRow
<1> QED
  BY <1>1, <1>2, NoNewHolderKeeps, Zenon

LEMMA LockArrayKeeps ==
    ASSUME LocksInv, NEW q \in Queries, NEW i \in Instance, lockArray(q, i)
    PROVE  LocksInv'
<1>1. /\ rows' = [rows EXCEPT ![q][i] = rows[q][coordOf[q]]] /\ plan' = plan
      /\ rows[q][coordOf[q]] # NoRow
  BY Zenon DEF lockArray, machine
<1>2. NoNewHolder
  BY <1>1, Zenon DEF NoNewHolder, LocksInv, HasRow
<1> QED
  BY <1>1, <1>2, NoNewHolderKeeps, Zenon

(* Recovery deletes the rows of one instance, in one role. *)
LEMMA RecoveryKeeps ==
    ASSUME LocksInv, NEW i \in Instance, deleteCoordArrayLocks(i) \/ deleteWorkerArrayLocks(i)
    PROVE  LocksInv'
<1>1. plan' = plan /\ \E S \in SUBSET Queries :
         rows' = [q \in Queries |-> IF q \in S THEN [rows[q] EXCEPT ![i] = NoRow] ELSE rows[q]]
  <2>1. CASE deleteCoordArrayLocks(i)
    <3>1. rows' = [q \in Queries |-> IF q \in {p \in Queries : Coordinator(p, i)}
                                    THEN [rows[q] EXCEPT ![i] = NoRow] ELSE rows[q]]
      BY <2>1, Zenon DEF deleteCoordArrayLocks
    <3> QED
      BY <2>1, <3>1, Zenon DEF deleteCoordArrayLocks
  <2>2. CASE deleteWorkerArrayLocks(i)
    <3>1. rows' = [q \in Queries |-> IF q \in {p \in Queries : ~Coordinator(p, i)}
                                    THEN [rows[q] EXCEPT ![i] = NoRow] ELSE rows[q]]
      BY <2>2, Zenon DEF deleteWorkerArrayLocks
    <3> QED
      BY <2>2, <3>1, Zenon DEF deleteWorkerArrayLocks
  <2> QED
    BY <2>1, <2>2, Zenon
<1>2. NoNewHolder
  BY <1>1, Zenon DEF NoNewHolder, LocksInv, HasRow
<1> QED
  BY <1>1, <1>2, NoNewHolderKeeps, Zenon

(* unwind releases the lock of a thread that was still taking it. *)
LEMMA UnwindKeeps ==
    ASSUME LocksInv, NEW q \in Queries, NEW i \in Instance, unwind(q, i)
    PROVE  LocksInv'
<1>1. plan' = plan /\ (rows' = rows \/ rows' = [rows EXCEPT ![q][i] = NoRow])
  BY Zenon DEF unwind, machine
<1> QED
  BY <1>1, DeleteKeeps, SameRowsKeep, Zenon

(* The executing threads of the coordinator and the workers. *)
LEMMA CoordinatorStepsKeep ==
    ASSUME LocksInv, NEW q \in Queries, CoordinatorSteps(q)
    PROVE  LocksInv'
<1>1. CASE lockArrays(q)
  BY <1>1, LockArraysKeeps, Zenon
<1>2. CASE updateArrayLock(q)
  BY <1>2, UpdateArrayLockKeeps, Zenon
<1>3. CASE \/ acquireLocks(q) \/ validateLocks(q) \/ prepareQueryAfterLocking(q)
           \/ startExecuteQuery(q) \/ preSingleExecute(q)
  BY <1>3, SameRowsKeep, Zenon DEF acquireLocks, validateLocks, prepareQueryAfterLocking,
     startExecuteQuery, preSingleExecute, catalog, machine
<1>4. CASE \/ broadcastPlan(q) \/ stop(q) \/ completeExecuteQuery(q)
           \/ postSingleExecute(q) \/ cancelPlanned(q) \/ completeQuery(q)
  BY <1>4, SameRowsKeep, Zenon DEF broadcastPlan, stop, completeExecuteQuery,
     postSingleExecute, cancelPlanned, completeQuery, catalog, machine
<1> QED
  BY <1>1, <1>2, <1>3, <1>4, Zenon DEF CoordinatorSteps

LEMMA StepsKeep ==
    ASSUME LocksInv, NEW q \in Queries, NEW i \in Instance, Steps(q, i)
    PROVE  LocksInv'
<1>1. CASE lockArray(q, i)
  BY <1>1, LockArrayKeeps, Zenon
<1>2. CASE raiseError(q, i)
  BY <1>2, UnwindKeeps, Zenon DEF raiseError
<1>3. CASE \/ handlePreparePhysicalPlan(q, i) \/ install(q, i) \/ store(q, i)
           \/ done(q, i) \/ sendResult(q, i) \/ sendError(q, i) \/ cancel(q, i)
  BY <1>3, SameRowsKeep, Zenon DEF handlePreparePhysicalPlan, install, store, done, sendResult,
     sendError, cancel, catalog, machine
<1> QED
  BY <1>1, <1>2, <1>3, Zenon DEF Steps

(* The error handlers and finalizers: only releaseLocks changes the table. *)
LEMMA StackStepsKeep ==
    ASSUME LocksInv, NEW q \in Queries, NEW i \in Instance, StackSteps(q, i)
    PROVE  LocksInv'
<1>1. PICK t \in Thread :
         \/ UpdateErrorHandler(q, i, t) \/ BroadcastAbort(q, i, t)
         \/ recordPersistent(q, i, t) \/ releaseLocks(q, i, t)
         \/ broadcastCommit(q, i, t) \/ destroy(q, i, t)
  BY Zenon DEF StackSteps
<1>2. CASE releaseLocks(q, i, t)
  BY <1>2, DeleteKeeps, Zenon DEF releaseLocks, machine
<1>3. CASE ~releaseLocks(q, i, t)
  BY <1>1, <1>3, SameRowsKeep, Zenon DEF UpdateErrorHandler, BroadcastAbort, recordPersistent,
     broadcastCommit, destroy, catalog, machine
<1> QED
  BY <1>2, <1>3, Zenon

LEMMA ReceivesKeep ==
    ASSUME LocksInv, NEW i \in Instance, Receives(i)
    PROVE  LocksInv'
  BY SameRowsKeep, Zenon DEF Receives, handleQueryResult, abortMessage, commitMessage, handleError,
     handleLivenessNotification, abortQueryOnConnError, dispatchMessage, catalog, machine

LEMMA RecoversKeep ==
    ASSUME LocksInv, NEW i \in Instance, Recovers(i)
    PROVE  LocksInv'
<1>1. CASE deleteCoordArrayLocks(i) \/ deleteWorkerArrayLocks(i)
  BY <1>1, RecoveryKeeps, Zenon
<1>2. CASE readArrayLocks(i) \/ recoverCoordLock(i) \/ recoverWorkerLock(i)
  BY <1>2, SameRowsKeep, Zenon DEF readArrayLocks, recoverCoordLock, recoverWorkerLock, catalog
<1> QED
  BY <1>1, <1>2, Zenon DEF Recovers

LEMMA LocksStep ==
    ASSUME LocksInv, [Next]_vars
    PROVE  LocksInv'
<1>1. ASSUME NEW q \in Queries, prepareQueryBeforeLocking(q) \/ handleCancel(q)
      PROVE  LocksInv'
  BY <1>1, SameRowsKeep, Zenon DEF prepareQueryBeforeLocking, handleCancel, catalog, machine
<1>2. ASSUME NEW q \in Queries, NEW i \in Instance, operatorFails(q, i)
      PROVE  LocksInv'
  BY <1>2, UnwindKeeps, Zenon DEF operatorFails
<1>3. ASSUME NEW i \in Instance, Crash(i)
      PROVE  LocksInv'
  BY <1>3, FaultKeeps, Zenon DEF Crash, catalog
<1>4. ASSUME NEW i \in Instance, NEW j \in Instance, ConnectionLost(i, j)
      PROVE  LocksInv'
  BY <1>4, FaultKeeps, Zenon DEF ConnectionLost, catalog
<1>5. CASE UNCHANGED vars
  BY <1>5, SameRowsKeep, Zenon DEF vars, catalog, machine
<1> QED
  BY <1>1, <1>2, <1>3, <1>4, <1>5, CoordinatorStepsKeep, StepsKeep, StackStepsKeep,
     ReceivesKeep, RecoversKeep, Zenon DEF Next

(* No two queries that write the same array ever have a row of array_version_lock *)
(* together, on any instances, through commit, abort, crash and recovery          *)
(* (SystemCatalog::lockArray, deleteArrayLocks and the callers of the two).       *)
THEOREM WritersAlwaysExclude == Spec => []WritersExclude
<1>1. Init => LocksInv
  BY QueryTxnAssumption DEF Init, LocksInv, WritersExclude, Queries, Instance
<1>2. LocksInv /\ [Next]_vars => LocksInv'
  BY LocksStep, Zenon
<1>3. LocksInv => WritersExclude
  BY Zenon DEF LocksInv
<1> QED
  BY <1>1, <1>2, <1>3, PTL DEF Spec

--------------------------------------------------------------------------------
(* A step of one thread keeps the invariant. *)

SameElsewhere(q, i) == \A p \in Queries, j \in Instance : p # q \/ j # i => SameAt(p, j)

LEMMA LocalStep ==
    ASSUME ThreadsOK, NEW q \in Queries, NEW i \in Instance, SameElsewhere(q, i),
           Local(q, i, exec'[q][i], query'[q][i], stack'[q][i], node[i]),
           node' = node, Queries' = Queries, Instance' = Instance
    PROVE  ThreadsOK'
<1>1. ASSUME NEW p \in Queries, NEW j \in Instance
      PROVE  Local(p, j, exec'[p][j], query'[p][j], stack'[p][j], node[j])
  BY Zenon DEF ThreadsOK, SameElsewhere, SameAt
<1> QED
  BY <1>1, Zenon DEF ThreadsOK

LEMMA MovesFacts ==
    ASSUME TypeOK, NEW q \in Queries, NEW i \in Instance,
           NEW pc \in ExecState, NEW o \in QueryObject \cup {NoQuery}, NEW k, StackOK(k),
           Moves(q, i, pc, o, k), Queries' = Queries, Instance' = Instance
    PROVE  /\ SameElsewhere(q, i)
           /\ exec'[q][i] = pc /\ query'[q][i] = o /\ stack'[q][i] = k
           /\ exec' \in [Queries -> [Instance -> ExecState]]
           /\ query' \in [Queries -> [Instance -> QueryObject \cup {NoQuery}]]
           /\ stack' \in [Queries -> [Instance -> [Thread -> Seq(Entry)]]]
<1>1. /\ exec \in [Queries -> [Instance -> ExecState]]
      /\ query \in [Queries -> [Instance -> QueryObject \cup {NoQuery}]]
      /\ stack \in [Queries -> [Instance -> [Thread -> Seq(Entry)]]]
  BY Zenon DEF TypeOK, Entry
<1>2. exec'[q][i] = pc /\ query'[q][i] = o /\ stack'[q][i] = k
  BY <1>1, Zenon DEF Moves
<1>3. SameElsewhere(q, i)
  BY <1>1, Zenon DEF Moves, SameElsewhere, SameAt
<1>4. exec' \in [Queries -> [Instance -> ExecState]]
  BY <1>1, Zenon DEF Moves
<1>5. query' \in [Queries -> [Instance -> QueryObject \cup {NoQuery}]]
  BY <1>1, Zenon DEF Moves
<1>6. stack' \in [Queries -> [Instance -> [Thread -> Seq(Entry)]]]
  BY <1>1, Zenon DEF Moves, StackOK
<1> QED
  BY <1>2, <1>3, <1>4, <1>5, <1>6, Zenon

LEMMA MessagesStep ==
    ASSUME Shape, MessagesOK, NEW q \in Queries, NEW i \in Instance,
           SameElsewhere(q, i), Queries' = Queries, Instance' = Instance,
           \A p \in Queries : Committed(p) => Committed(p)',
           MovesOn(q, i, exec'[q][i]),
           query'[q][i] # NoQuery => query[q][i] # NoQuery,
           i # coordOf[q] /\ exec[q][i] = "idle" /\ exec'[q][i] # "idle" =>
               \A m \in msgs' : ~(IsPlan(m, q) /\ m.to = i),
           \A p \in Queries : rows'[p][coordOf[p]] = 0 =>
               rows[p][coordOf[p]] = 0 \/ exec[p][coordOf[p]] \in BeforePlan,
           Posts
    PROVE  MessagesOK'
<1>1. ASSUME NEW p \in Queries
      PROVE  PlanOnce(p)'
  <2>1. PlanOnce(p) /\ coordOf[p] \in Instance /\ Workers(p)' = Workers(p)
    BY Zenon DEF MessagesOK, Shape, Workers
  <2>2. \A m \in msgs' : IsPlan(m, p) => m \in msgs
    BY Zenon DEF IsPlan, Posts
  <2>3. \A j \in Instance : p # q \/ j # i => exec'[p][j] = exec[p][j]
    BY Zenon DEF SameElsewhere, SameAt
  <2>4. exec'[p][coordOf[p]] \in BeforePlan => exec[p][coordOf[p]] \in BeforePlan
    BY <2>1, <2>3, Zenon DEF MovesOn
  <2>5. exec'[p][coordOf[p]] = "none" => exec[p][coordOf[p]] = "none"
    BY <2>1, <2>3, Zenon DEF MovesOn
  <2>6. exec'[p][coordOf[p]] \in BeforePlan \/ rows'[p][coordOf[p]] = 0 =>
           \A m \in msgs : ~IsPlan(m, p)
    BY <2>1, <2>4, Zenon DEF PlanOnce
  <2>7. ASSUME exec'[p][coordOf[p]] \in BeforePlan \/ rows'[p][coordOf[p]] = 0,
               NEW j \in Workers(p)
        PROVE  Unstarted(exec'[p][j], query'[p][j])
    <3>1. Unstarted(exec[p][j], query[p][j]) /\ j \in Instance /\ j # coordOf[p]
      BY <2>1, <2>4, <2>7, Zenon DEF PlanOnce, Workers
    <3>2. CASE p # q \/ j # i
      BY <3>1, <3>2, Zenon DEF SameElsewhere, SameAt
    <3>3. CASE p = q /\ j = i
      BY <2>6, <2>7, <3>1, <3>3, Zenon DEF MovesOn, Unstarted
    <3> QED
      BY <3>2, <3>3, Zenon
  <2>8. exec'[p][coordOf[p]] = "none" => \A j \in Instance : exec'[p][j] = "none"
    BY <2>1, <2>3, <2>5, Zenon DEF PlanOnce, MovesOn
  <2>9. \A m, n \in msgs' : IsPlan(m, p) /\ IsPlan(n, p) /\ m.to = n.to => m = n
    BY <2>1, <2>2, Zenon DEF PlanOnce
  <2> QED
    BY <2>1, <2>2, <2>6, <2>7, <2>8, <2>9, Zenon DEF PlanOnce
<1>2. ASSUME NEW m \in msgs', m \in msgs
      PROVE  MessageOK(m)'
  <2>1. MessageOK(m) /\ m.query \in Queries /\ m.to \in Instance
    BY <1>2, Zenon DEF MessagesOK, Shape, TypeOK, Message
  <2>2. SameAt(m.query, m.to) \/ (m.query = q /\ m.to = i)
    BY <2>1, Zenon DEF SameElsewhere
  <2>3. Committed(m.query) => Committed(m.query)'
    BY <2>1, Zenon
  <2>4. IsPlan(m, m.query) /\ m.to # coordOf[m.query] /\ query'[m.query][m.to] # NoQuery =>
            exec'[m.query][m.to] = "idle"
    BY <2>1, <2>2, Zenon DEF MessageOK, SameAt
  <2> QED
    BY <2>1, <2>3, <2>4, Zenon DEF MessageOK
<1> QED
  BY <1>1, <1>2, Zenon DEF MessagesOK, Posts

(* What a step of the thread of q on i leaves of the invariant, whatever it does *)
(* to the catalog and the disks.                                                 *)
LEMMA MoveStep ==
    ASSUME CommitInv, NEW q \in Queries, NEW i \in Instance,
           NEW pd \in ExecState, NEW n \in QueryObject \cup {NoQuery}, NEW k2, StackOK(k2),
           Moves(q, i, pd, n, k2), UNCHANGED <<machine, failed>>,
           rows' \in [Queries -> [Instance -> Nat \cup {NoRow}]],
           versions' \in [Arrays -> SUBSET [version : Nat, writer : Queries]],
           stored' \in [Instance -> SUBSET Queries],
           \A p \in Queries : Committed(p) => Committed(p)',
           Local(q, i, pd, n, k2, node[i]), MovesOn(q, i, pd), n # NoQuery => query[q][i] # NoQuery,
           i # coordOf[q] /\ exec[q][i] = "idle" /\ pd # "idle" =>
               \A m \in msgs' : ~(IsPlan(m, q) /\ m.to = i),
           \A p \in Queries : rows'[p][coordOf[p]] = 0 =>
               rows[p][coordOf[p]] = 0 \/ exec[p][coordOf[p]] \in BeforePlan,
           Posts
    PROVE  /\ AssertionsHold' /\ ThreadsOK' /\ MessagesOK' /\ SameElsewhere(q, i)
           /\ exec'[q][i] = pd /\ query'[q][i] = n /\ stack'[q][i] = k2
           /\ Queries' = Queries /\ Instance' = Instance
<1>1. TypeOK /\ failed = {} /\ Shape /\ ThreadsOK /\ MessagesOK
  BY Zenon DEF CommitInv, AssertionsHold, LocksInv, Shape
<1>2. Queries' = Queries /\ Instance' = Instance /\ node' = node /\ recovering' = recovering /\ plan' = plan
  BY Zenon DEF machine, Queries, Instance
<1>3. /\ SameElsewhere(q, i)
      /\ exec'[q][i] = pd /\ query'[q][i] = n /\ stack'[q][i] = k2
      /\ exec' \in [Queries -> [Instance -> ExecState]]
      /\ query' \in [Queries -> [Instance -> QueryObject \cup {NoQuery}]]
      /\ stack' \in [Queries -> [Instance -> [Thread -> Seq(Entry)]]]
  BY <1>1, <1>2, MovesFacts, Zenon
<1>4. msgs' \subseteq Message
  BY <1>1, Zenon DEF Posts, TypeOK
<1>5. TypeOK'
  <2>1. Message' = Message /\ QueryObject' = QueryObject
    BY <1>2, Zenon DEF Message, QueryObject
  <2> QED
    BY <1>1, <1>2, <1>3, <1>4, <2>1, Zenon DEF TypeOK, Entry
<1>6. ThreadsOK'
  BY <1>1, <1>2, <1>3, LocalStep, Zenon
<1>7. MessagesOK'
  BY <1>1, <1>2, <1>3, MessagesStep, Zenon
<1> QED
  BY <1>1, <1>2, <1>3, <1>5, <1>6, <1>7, Zenon DEF AssertionsHold

(* No step but sendResult adds a reporter. *)
LEMMA ReportersStep ==
    ASSUME Shape, NEW q \in Queries, NEW i \in Instance, SameElsewhere(q, i), Instance' = Instance,
           i = coordOf[q] /\ query'[q][i] # NoQuery => query'[q][i].results \subseteq Reporters(q),
           \A m \in msgs' \ msgs : m.type # "mtQueryResult"
    PROVE  \A p \in Queries : Reporters(p)' \subseteq Reporters(p)
<1>1. ASSUME NEW p \in Queries, NEW j \in Instance, j \in Reporters(p)'
      PROVE  j \in Reporters(p)
  <2>1. CASE \E m \in msgs' : m.type = "mtQueryResult" /\ m.query = p /\ m.from = j
    BY <2>1, Zenon DEF Reporters
  <2>2. CASE query'[p][coordOf[p]] # NoQuery /\ j \in query'[p][coordOf[p]].results
    <3>1. coordOf[p] \in Instance
      BY Zenon DEF Shape
    <3>2. CASE p = q /\ coordOf[p] = i
      BY <2>2, <3>2, Zenon
    <3>3. CASE p # q \/ coordOf[p] # i
      BY <2>2, <3>1, <3>3, Zenon DEF SameElsewhere, SameAt, Reporters
    <3> QED
      BY <3>2, <3>3, Zenon
  <2> QED
    BY <1>1, <2>1, <2>2, Zenon DEF Reporters
<1> QED
  BY <1>1, Zenon DEF Reporters

LEMMA NoReports ==
    ASSUME NEW q, query[q][coordOf[q]] = NoQuery, msgs = {}
    PROVE  Reporters(q) = {}
  BY Zenon DEF Reporters

LEMMA CalmData ==
    ASSUME Shape, DataOK, NEW q \in Queries, NEW i \in Instance, SameElsewhere(q, i),
           UNCHANGED <<catalog, stored, machine>>,
           \A p \in Queries : Reporters(p)' \subseteq Reporters(p),
           Data(q, i, exec'[q][i], query'[q][i], stack'[q][i], View(q, i))
    PROVE  DataOK'
<1>1. Queries' = Queries /\ Instance' = Instance
  BY Zenon DEF machine, Queries, Instance
<1>2. ASSUME NEW p \in Queries, NEW j \in Instance
      PROVE  Data(p, j, exec'[p][j], query'[p][j], stack'[p][j], View(p, j)')
  <2>1. Data(p, j, exec'[p][j], query'[p][j], stack'[p][j], View(p, j))
    BY Zenon DEF DataOK, SameElsewhere, SameAt
  <2>2. FewerReporters(View(p, j), View(p, j)')
    BY <1>1, Zenon DEF FewerReporters, View, Workers, catalog, machine
  <2> QED
    BY <2>1, <2>2, FewerReportersKeep, Zenon
<1> QED
  BY <1>1, <1>2, Zenon DEF DataOK

LEMMA CalmKeeps ==
    ASSUME CommitInv, NEW q \in Queries, NEW i \in Instance,
           NEW pd \in ExecState, NEW n \in QueryObject \cup {NoQuery}, NEW k2, StackOK(k2),
           Calm(q, i, pd, n, k2),
           MovesOn(q, i, pd), n # NoQuery => query[q][i] # NoQuery,
           i # coordOf[q] /\ exec[q][i] = "idle" /\ pd # "idle" =>
               \A m \in msgs' : ~(IsPlan(m, q) /\ m.to = i),
           i = coordOf[q] /\ n # NoQuery => n.results \subseteq Reporters(q),
           Posts, \A m \in msgs' \ msgs : m.type # "mtQueryResult",
           Local(q, i, pd, n, k2, node[i]), Data(q, i, pd, n, k2, View(q, i))
    PROVE  CommitInv'
<1>1. Shape /\ TypeOK /\ LocksInv /\ DataOK /\ VersionsOK
  BY Zenon DEF CommitInv, AssertionsHold, LocksInv, Shape
<1>2. /\ Moves(q, i, pd, n, k2) /\ UNCHANGED <<machine, failed>> /\ UNCHANGED <<catalog, stored, machine>>
      /\ rows' = rows /\ versions' = versions /\ stored' = stored /\ plan' = plan
  BY Zenon DEF Calm, catalog, machine
<1>3. /\ rows' \in [Queries -> [Instance -> Nat \cup {NoRow}]]
      /\ versions' \in [Arrays -> SUBSET [version : Nat, writer : Queries]]
      /\ stored' \in [Instance -> SUBSET Queries]
  BY <1>1, <1>2, Zenon DEF TypeOK
<1>4. \A p \in Queries : Committed(p) => Committed(p)'
  BY <1>2, Zenon DEF Committed
<1>5. /\ AssertionsHold' /\ ThreadsOK' /\ MessagesOK' /\ SameElsewhere(q, i)
      /\ exec'[q][i] = pd /\ query'[q][i] = n /\ stack'[q][i] = k2
      /\ Queries' = Queries /\ Instance' = Instance
  BY <1>2, <1>3, <1>4, MoveStep, Zenon
<1>6. \A p \in Queries : Reporters(p)' \subseteq Reporters(p)
  BY <1>1, <1>5, ReportersStep, Zenon
<1>7. DataOK'
  BY <1>1, <1>2, <1>5, <1>6, CalmData, Zenon
<1>8. LocksInv' /\ VersionsOK'
  BY <1>1, <1>2, SameRowsKeep, Zenon DEF VersionsOK, VersionsAreConsecutive
<1> QED
  BY <1>5, <1>7, <1>8, Zenon DEF CommitInv

(* A step that changes the row of q on i; the workers see it if i is the        *)
(* coordinator.                                                                 *)
LEMMA RowData ==
    ASSUME Shape, DataOK, NEW q \in Queries, NEW i \in Instance, NEW r, SameElsewhere(q, i),
           rows' = [rows EXCEPT ![q][i] = r], UNCHANGED <<versions, stored, machine>>,
           \A p \in Queries : Reporters(p)' \subseteq Reporters(p),
           Data(q, i, exec'[q][i], query'[q][i], stack'[q][i], RowView(q, i, r)),
           i = coordOf[q] =>
               \/ r = NoRow \/ rows[q][i] # NoRow
               \/ \A j \in Workers(q) : ~HasDone(j, exec[q][j], query[q][j], View(q, j))
    PROVE  DataOK'
<1>1. Queries' = Queries /\ Instance' = Instance /\ node' = node /\ recovering' = recovering
  BY Zenon DEF machine, Queries, Instance
<1>2. /\ rows'[q][i] = r /\ \A p \in Queries \ {q} : rows'[p] = rows[p]
      /\ \A j \in Instance \ {i} : rows'[q][j] = rows[q][j]
  BY Zenon DEF Shape, TypeOK
<1>3. ASSUME NEW p \in Queries, NEW j \in Instance
      PROVE  Data(p, j, exec'[p][j], query'[p][j], stack'[p][j], View(p, j)')
  <2>1. coordOf[p] \in Instance
    BY Zenon DEF Shape
  <2>2. CASE p # q
    <3>1. Data(p, j, exec'[p][j], query'[p][j], stack'[p][j], View(p, j))
      BY <2>2, Zenon DEF DataOK, SameElsewhere, SameAt
    <3>2. FewerReporters(View(p, j), View(p, j)')
      BY <1>1, <1>2, <2>1, <2>2 DEF FewerReporters, View, Workers
    <3> QED
      BY <3>1, <3>2, FewerReportersKeep, Zenon
  <2>3. CASE p = q /\ j # i /\ i # coordOf[q]
    <3>1. Data(p, j, exec'[p][j], query'[p][j], stack'[p][j], View(p, j))
      BY <2>3, Zenon DEF DataOK, SameElsewhere, SameAt
    <3>2. FewerReporters(View(p, j), View(p, j)')
      BY <1>1, <1>2, <2>1, <2>3, Zenon DEF FewerReporters, View, Workers
    <3> QED
      BY <3>1, <3>2, FewerReportersKeep
  <2>4. CASE p = q /\ j # i /\ i = coordOf[q]
    <3>1. /\ Data(p, j, exec'[p][j], query'[p][j], stack'[p][j], View(p, j))
          /\ query'[p][j] = query[p][j] /\ exec'[p][j] = exec[p][j] /\ j \in Workers(q)
      BY <2>4, Zenon DEF DataOK, SameElsewhere, SameAt, Workers
    <3>2. SameButCoordRow(View(p, j), View(p, j)')
      BY <1>1, <1>2, <2>1, <2>4, Zenon DEF SameButCoordRow, View, Workers
    <3>3. View(p, j)'.coordRow = r /\ View(p, j).coordRow = rows[q][i]
      BY <1>2, <2>4, Zenon DEF View
    <3> QED
      BY <2>4, <3>1, <3>2, <3>3, CoordRowKeeps, Zenon
  <2>5. CASE p = q /\ j = i
    <3>1. FewerReporters(RowView(q, i, r), View(q, i)')
      BY <1>1, <1>2, <2>1, <2>5, Zenon DEF FewerReporters, View, RowView, Workers
    <3> QED
      BY <2>5, <3>1, FewerReportersKeep, Zenon
  <2> QED
    BY <2>2, <2>3, <2>4, <2>5, Zenon
<1> QED
  BY <1>1, <1>3, Zenon DEF DataOK

LEMMA RowKeeps ==
    ASSUME CommitInv, LocksInv', NEW q \in Queries, NEW i \in Instance,
           NEW pd \in ExecState, NEW n \in QueryObject \cup {NoQuery}, NEW k2, StackOK(k2),
           Moves(q, i, pd, n, k2), NEW r \in Nat \cup {NoRow}, rows' = [rows EXCEPT ![q][i] = r],
           UNCHANGED <<versions, stored, msgs, machine, failed>>,
           MovesOn(q, i, pd), n # NoQuery => query[q][i] # NoQuery, exec[q][i] = "idle" => pd = "idle",
           i = coordOf[q] /\ n # NoQuery => n.results \subseteq Reporters(q),
           i = coordOf[q] /\ r = 0 => exec[q][i] \in BeforePlan,
           i = coordOf[q] =>
               \/ r = NoRow \/ rows[q][i] # NoRow
               \/ \A j \in Workers(q) : ~HasDone(j, exec[q][j], query[q][j], View(q, j)),
           Local(q, i, pd, n, k2, node[i]), Data(q, i, pd, n, k2, RowView(q, i, r))
    PROVE  CommitInv'
<1>1. Shape /\ TypeOK /\ DataOK /\ VersionsOK
  BY Zenon DEF CommitInv, AssertionsHold, LocksInv, Shape
<1>2. versions' = versions /\ stored' = stored /\ msgs' = msgs
  OBVIOUS
<1>3. /\ rows' \in [Queries -> [Instance -> Nat \cup {NoRow}]]
      /\ versions' \in [Arrays -> SUBSET [version : Nat, writer : Queries]]
      /\ stored' \in [Instance -> SUBSET Queries]
  BY <1>1, <1>2, Zenon DEF TypeOK
<1>4. \A p \in Queries : Committed(p) => Committed(p)'
  BY <1>2, Zenon DEF Committed
<1>5. \A p \in Queries : rows'[p][coordOf[p]] = 0 =>
          rows[p][coordOf[p]] = 0 \/ exec[p][coordOf[p]] \in BeforePlan
  <2>1. \A p \in Queries : coordOf[p] \in Instance
    BY <1>1, Zenon DEF Shape
  <2>2. rows \in [Queries -> [Instance -> Nat \cup {NoRow}]]
    BY <1>1, Zenon DEF TypeOK
  <2> QED
    BY <2>1, <2>2, Zenon
<1>6. Posts /\ \A m \in msgs' \ msgs : m.type # "mtQueryResult"
  BY <1>2, Zenon DEF Posts
<1>7. /\ AssertionsHold' /\ ThreadsOK' /\ MessagesOK' /\ SameElsewhere(q, i)
      /\ exec'[q][i] = pd /\ query'[q][i] = n /\ stack'[q][i] = k2
      /\ Queries' = Queries /\ Instance' = Instance
  BY <1>2, <1>3, <1>4, <1>5, <1>6, MoveStep, Zenon
<1>8. \A p \in Queries : Reporters(p)' \subseteq Reporters(p)
  BY <1>1, <1>6, <1>7, ReportersStep, Zenon
<1>9. DataOK'
  BY <1>1, <1>2, <1>7, <1>8, RowData, Zenon
<1>10. VersionsOK'
  BY <1>1, <1>2, Zenon DEF VersionsOK, VersionsAreConsecutive
<1> QED
  BY <1>7, <1>9, <1>10, Zenon DEF CommitInv

SameFor(q, v, w) ==
    /\ w.node = v.node /\ w.row = v.row /\ w.coordRow = v.coordRow /\ w.versions = v.versions
    /\ w.workers = v.workers /\ w.reporters \subseteq v.reporters
    /\ (q \in w.stored <=> q \in v.stored) /\ (q \in w.recovering <=> q \in v.recovering)

LEMMA SameForKeeps ==
    ASSUME NEW q, NEW i, NEW pc, NEW o, NEW k, NEW v, NEW w,
           Data(q, i, pc, o, k, v), SameFor(q, v, w)
    PROVE  Data(q, i, pc, o, k, w)
<1>1. (Wrote(q, w) <=> Wrote(q, v)) /\ LastOf(w) = LastOf(v)
  BY Zenon DEF SameFor, Wrote, LastOf
<1>2. RowOK(q, i, o, k, w) /\ RecoveryOK(q, i, w) /\ StoredOK(q, w)
  BY <1>1, Zenon DEF Data, RowOK, RecoveryOK, StoredOK, SameFor
<1>3. ChunksOK(q, i, pc, o, k, w)
  BY <1>1, Zenon DEF Data, ChunksOK, SameFor
<1>4. i = coordOf[q] => CoordinatorRow(q, pc, o, k, w)
  BY <1>1, Zenon DEF Data, CoordinatorRow, SameFor
<1>5. i # coordOf[q] => ReportsOK(q, i, pc, o, w)
  BY <1>1, Zenon DEF Data, ReportsOK, HasDone, SameFor
<1> QED
  BY <1>2, <1>3, <1>4, <1>5, Zenon DEF Data

LEMMA ChunkData ==
    ASSUME Shape, DataOK, NEW q \in Queries, NEW i \in Instance, NEW S, NEW R, SameElsewhere(q, i),
           stored' = [stored EXCEPT ![i] = S], recovering' = [recovering EXCEPT ![i] = R],
           UNCHANGED <<catalog, node, plan>>,
           \A p \in Queries \ {q} :
               (p \in S <=> p \in stored[i]) /\ (p \in R <=> p \in recovering[i]),
           \A p \in Queries : Reporters(p)' \subseteq Reporters(p),
           Data(q, i, exec'[q][i], query'[q][i], stack'[q][i], ChunkView(q, i, S, R))
    PROVE  DataOK'
<1>1. Queries' = Queries /\ Instance' = Instance
  BY Zenon DEF Queries, Instance
<1>2. /\ stored'[i] = S /\ recovering'[i] = R
      /\ \A j \in Instance \ {i} : stored'[j] = stored[j] /\ recovering'[j] = recovering[j]
  BY Zenon DEF Shape, TypeOK
<1>3. ASSUME NEW p \in Queries, NEW j \in Instance
      PROVE  Data(p, j, exec'[p][j], query'[p][j], stack'[p][j], View(p, j)')
  <2>1. CASE p = q /\ j = i
    <3>1. SameFor(q, ChunkView(q, i, S, R), View(q, i)')
      BY <1>1, <1>2, Zenon DEF SameFor, ChunkView, View, catalog, Workers
    <3> QED
      BY <2>1, <3>1, SameForKeeps, Zenon
  <2>2. CASE p # q \/ j # i
    <3>1. Data(p, j, exec'[p][j], query'[p][j], stack'[p][j], View(p, j))
      BY <2>2, Zenon DEF DataOK, SameElsewhere, SameAt
    <3>2. (p \in stored'[j] <=> p \in stored[j]) /\ (p \in recovering'[j] <=> p \in recovering[j])
      BY <1>2, <2>2, Zenon
    <3>3. SameFor(p, View(p, j), View(p, j)')
      BY <1>1, <3>2, Zenon DEF SameFor, View, catalog, Workers
    <3> QED
      BY <3>1, <3>3, SameForKeeps, Zenon
  <2> QED
    BY <2>1, <2>2, Zenon
<1> QED
  BY <1>1, <1>3, Zenon DEF DataOK

LEMMA ChunkKeeps ==
    ASSUME CommitInv, NEW q \in Queries, NEW i \in Instance,
           NEW pd \in ExecState, NEW k2, StackOK(k2),
           Moves(q, i, pd, query[q][i], k2), NEW S \in SUBSET Queries,
           stored' = [stored EXCEPT ![i] = S], \A p \in Queries \ {q} : p \in S <=> p \in stored[i],
           UNCHANGED <<catalog, msgs, machine, failed>>,
           MovesOn(q, i, pd), exec[q][i] = "idle" => pd = "idle",
           Local(q, i, pd, query[q][i], k2, node[i]),
           Data(q, i, pd, query[q][i], k2, ChunkView(q, i, S, recovering[i]))
    PROVE  CommitInv'
<1> DEFINE o == query[q][i]
<1>1. /\ TypeOK /\ Shape /\ o \in QueryObject \cup {NoQuery} /\ LocksInv /\ DataOK /\ VersionsOK
      /\ coordOf[q] \in Instance
  BY Before, Zenon DEF CommitInv
<1>2. /\ rows' \in [Queries -> [Instance -> Nat \cup {NoRow}]]
      /\ versions' \in [Arrays -> SUBSET [version : Nat, writer : Queries]]
      /\ stored' \in [Instance -> SUBSET Queries]
      /\ rows' = rows /\ versions' = versions /\ plan' = plan /\ node' = node /\ recovering' = recovering
      /\ \A p \in Queries : Committed(p) => Committed(p)'
  BY <1>1, Zenon DEF TypeOK, catalog, machine, Committed
<1>3. Posts /\ \A m \in msgs' \ msgs : m.type # "mtQueryResult"
  BY Zenon DEF Posts
<1>4. /\ AssertionsHold' /\ ThreadsOK' /\ MessagesOK' /\ SameElsewhere(q, i)
      /\ exec'[q][i] = pd /\ query'[q][i] = o /\ stack'[q][i] = k2
      /\ Queries' = Queries /\ Instance' = Instance
  BY <1>1, <1>2, <1>3, MoveStep, Zenon
<1>5. i = coordOf[q] /\ query'[q][i] # NoQuery => query'[q][i].results \subseteq Reporters(q)
  BY <1>4, ResultsAreReports, Zenon
<1>6. \A p \in Queries : Reporters(p)' \subseteq Reporters(p)
  BY <1>1, <1>3, <1>4, <1>5, ReportersStep, Zenon
<1>7. recovering' = [recovering EXCEPT ![i] = recovering[i]]
  BY <1>1, <1>2, Zenon DEF TypeOK
<1>8. DataOK'
  BY <1>1, <1>2, <1>4, <1>6, <1>7, ChunkData, Zenon DEF catalog
<1>9. LocksInv' /\ VersionsOK'
  BY <1>1, <1>2, SameRowsKeep, Zenon DEF VersionsOK, VersionsAreConsecutive
<1> QED
  BY <1>4, <1>8, <1>9, Zenon DEF CommitInv

LEMMA ThreadMoveKeeps ==
    ASSUME CommitInv, LocksInv', ThreadMove
    PROVE  CommitInv'
<1>1. PICK q \in Queries, i \in Instance :
         \/ \E pd, n, k2 : CalmMove(q, i, pd, n, k2)
         \/ \E pd, n, k2, r : RowMove(q, i, pd, n, k2, r)
         \/ \E pd, k2, S : ChunkMove(q, i, pd, k2, S)
  BY Zenon DEF ThreadMove
<1>2. ASSUME NEW pd, NEW n, NEW k2, CalmMove(q, i, pd, n, k2)
      PROVE  CommitInv'
  BY <1>2, CalmKeeps, Zenon DEF CalmMove
<1>3. ASSUME NEW pd, NEW n, NEW k2, NEW r, RowMove(q, i, pd, n, k2, r)
      PROVE  CommitInv'
  BY <1>3, RowKeeps, Zenon DEF RowMove
<1>4. ASSUME NEW pd, NEW k2, NEW S, ChunkMove(q, i, pd, k2, S)
      PROVE  CommitInv'
  BY <1>4, ChunkKeeps, Zenon DEF ChunkMove
<1> QED
  BY <1>1, <1>2, <1>3, <1>4, Zenon
=================================================================================
