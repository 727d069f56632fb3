--------------------------- MODULE QueryTxnEndProofs ---------------------------
(***************************************************************************)
(* Aborting and committing a query, the messages that ask for it and the   *)
(* error handlers and finalizers that carry it out keep the invariant of   *)
(* the commit protocol, recording the version in the catalog included.     *)
(***************************************************************************)
EXTENDS QueryTxnProofs, FiniteSetTheorems

(* All the error handlers run before the finalizers. *)
LEMMA ConcatKeeps ==
    ASSUME NEW s \in Seq(Finalizer), NEW u \in Seq(Handler), Descending(s), Descending(u)
    PROVE  s \o u \in Seq(Entry) /\ Descending(s \o u) /\ Range(s \o u) = Range(s) \cup Range(u)
<1> DEFINE w == s \o u
<1>1. /\ w \in Seq(Entry) /\ DOMAIN w = 1..(Len(s) + Len(u))
      /\ DOMAIN s = 1..Len(s) /\ DOMAIN u = 1..Len(u) /\ Len(s) \in Nat /\ Len(u) \in Nat
  BY DEF Entry
<1>2. \A k \in 1..Len(s) : w[k] = s[k] /\ s[k] \in Finalizer
  OBVIOUS
<1>3. \A k \in 1..(Len(s) + Len(u)) : k > Len(s) =>
         k - Len(s) \in 1..Len(u) /\ w[k] = u[k - Len(s)] /\ u[k - Len(s)] \in Handler
  OBVIOUS
<1>4. \A k \in 1..Len(u) : Len(s) + k \in 1..(Len(s) + Len(u)) /\ w[Len(s) + k] = u[k]
  BY <1>1, <1>3
<1> HIDE DEF w
<1>5. Range(w) = Range(s) \cup Range(u)
  <2>1. ASSUME NEW k \in DOMAIN w
        PROVE  w[k] \in Range(s) \cup Range(u)
    <3>1. CASE k <= Len(s)
      BY <1>1, <1>2, <3>1 DEF Range
    <3>2. CASE k > Len(s)
      <4>1. k - Len(s) \in DOMAIN u /\ w[k] = u[k - Len(s)]
        BY <1>1, <1>3, <3>2, Zenon
      <4> QED
        BY <4>1, Zenon DEF Range
    <3> QED
      BY <1>1, <3>1, <3>2
  <2>2. Range(s) \subseteq Range(w)
    BY <1>1, <1>2 DEF Range
  <2>3. ASSUME NEW k \in DOMAIN u
        PROVE  \E j \in DOMAIN w : w[j] = u[k]
    BY <1>1, <1>4, Zenon
  <2>4. Range(u) \subseteq Range(w)
    BY <2>3, Zenon DEF Range
  <2>5. Range(w) \subseteq Range(s) \cup Range(u)
    BY <2>1, Zenon DEF Range
  <2> QED
    BY <2>2, <2>4, <2>5, Zenon
<1>6. ASSUME NEW j \in DOMAIN w, NEW k \in DOMAIN w, j < k
      PROVE  Rank[w[j]] > Rank[w[k]]
  <2>1. CASE k <= Len(s)
    BY <1>1, <1>2, <1>6, <2>1 DEF Descending
  <2>2. CASE j > Len(s)
    <3>1. j - Len(s) \in DOMAIN u /\ k - Len(s) \in DOMAIN u /\ j - Len(s) < k - Len(s)
      BY <1>1, <1>6, <2>2
    <3>2. Rank[u[j - Len(s)]] > Rank[u[k - Len(s)]]
      BY <3>1, Zenon DEF Descending
    <3>3. /\ j \in 1..(Len(s) + Len(u)) /\ j > Len(s)
          /\ k \in 1..(Len(s) + Len(u)) /\ k > Len(s)
      BY <1>1, <1>6, <2>2
    <3>4. w[j] = u[j - Len(s)]
      BY <1>3, <3>3, Zenon
    <3>5. w[k] = u[k - Len(s)]
      BY <1>3, <3>3, Zenon
    <3> QED
      BY <3>2, <3>4, <3>5, Zenon
  <2>3. CASE j <= Len(s) /\ k > Len(s)
    <3>1. w[j] \in Finalizer /\ w[k] \in Handler
      BY <1>1, <1>2, <1>3, <2>3
    <3>2. Rank[w[k]] < Rank[w[j]] /\ Rank[w[k]] \in 1..6 /\ Rank[w[j]] \in 1..6
      BY <3>1, Ranks, Zenon DEF Entry
    <3> QED
      BY <3>2, Zenon
  <2> QED
    BY <1>1, <2>1, <2>2, <2>3
<1>7. Descending(w)
  BY <1>6, Zenon DEF Descending
<1> QED
  BY <1>1, <1>5, <1>7, Zenon DEF w

LEMMA SwappedKeeps ==
    ASSUME NEW o \in QueryObject, Descending(o.errorHandlers), Descending(o.finalizers)
    PROVE  /\ Swapped(o) \in Seq(Entry) /\ Descending(Swapped(o))
           /\ Range(Swapped(o)) = Range(o.errorHandlers) \cup Range(o.finalizers)
           /\ o.finalizers \in Seq(Entry)
<1>1. o.errorHandlers \in Seq(Handler) /\ o.finalizers \in Seq(Finalizer)
  BY Zenon DEF QueryObject
<1>2. o.finalizers \in Seq(Entry)
  BY <1>1 DEF Entry
<1> QED
  BY <1>1, <1>2, ConcatKeeps DEF Swapped

(* A message posts an error or a result. *)
LEMMA PostLocal ==
    ASSUME NEW q, NEW i, NEW o, NEW n, NEW k, NEW nd, NEW pc,
           Local(q, i, pc, o, k, nd), SameEntries(o, n), o.error => n.error,
           n.hasId = o.hasId, n.status = o.status
    PROVE  Local(q, i, pc, n, k, nd)
<1>1. i # coordOf[q] => WorkerOK(pc, n, k)
  BY SameEntriesFacts, Zenon DEF Local, WorkerOK, SameEntries
<1>2. i = coordOf[q] => CoordinatorOK(pc, n)
  BY SameEntriesFacts, Zenon DEF Local, CoordinatorOK, SameEntries
<1>3. ObjectOK(pc, n, k, nd)
  BY SameEntriesFacts, Zenon DEF Local, ObjectOK, SameEntries
<1> QED
  BY <1>1, <1>2, <1>3, SameEntriesFacts, Zenon DEF Local

(* handleAbort marks a query that is executing and swaps the entries of one     *)
(* that is not.                                                                 *)
AbortMark(o) == [o EXCEPT !.commit = "ABORTED", !.error = TRUE]

AbortSwap(o) == [o EXCEPT !.commit = "ABORTED", !.error = TRUE,
                          !.errorHandlers = <<>>, !.finalizers = <<>>]

CommitSwap(o) == [o EXCEPT !.commit = "COMMITTED", !.error = TRUE,
                           !.errorHandlers = <<>>, !.finalizers = <<>>]

LEMMA AbortMarkLocal ==
    ASSUME NEW q, NEW i, NEW o \in QueryObject, NEW k, NEW nd, NEW pc,
           Local(q, i, pc, o, k, nd), o.status = "START"
    PROVE  Local(q, i, pc, AbortMark(o), k, nd)
<1> DEFINE n == AbortMark(o)
<1>1. /\ n \in QueryObject /\ n.errorHandlers = o.errorHandlers /\ n.finalizers = o.finalizers
      /\ n.commit = "ABORTED" /\ n.error /\ n.status = o.status /\ n.hasId = o.hasId
  BY Zenon DEF QueryObject, AbortMark
<1>2. n # NoQuery /\ o # NoQuery
  BY <1>1 DEF QueryObject, NoQuery
<1>3. Hs(n) = Hs(o) /\ Fs(n) = Fs(o) /\ Armed(n) /\ Armed(o)
  BY <1>1, <1>2, Zenon DEF Hs, Fs, Armed, Local, ObjectOK
<1> HIDE DEF n
<1>4. Ordered(n, k)
  BY <1>1, <1>2, Zenon DEF Local, Ordered
<1>5. SwappedOnce(n, k)
  BY <1>2, <1>3, Zenon DEF Local, SwappedOnce
<1>6. ObjectOK(pc, n, k, nd)
  BY <1>1, <1>2, <1>3, Zenon DEF Local, ObjectOK
<1>7. i = coordOf[q] => CoordinatorOK(pc, n)
  BY <1>1, <1>2, <1>3, Zenon DEF Local, CoordinatorOK
<1>8. i # coordOf[q] => WorkerOK(pc, n, k)
  BY <1>1, <1>2, <1>3, Zenon DEF Local, WorkerOK
<1> QED
  BY <1>4, <1>5, <1>6, <1>7, <1>8, Zenon DEF Local, n

LEMMA SwapFacts ==
    ASSUME NEW o \in QueryObject, NEW n \in {AbortSwap(o), CommitSwap(o)}
    PROVE  /\ n \in QueryObject /\ n # NoQuery /\ o # NoQuery
           /\ Hs(n) = {} /\ Fs(n) = {} /\ ~Armed(n) /\ n.error
           /\ n.errorHandlers = <<>> /\ n.finalizers = <<>>
           /\ n.status = o.status /\ n.hasId = o.hasId /\ n.version = o.version
           /\ n.results = o.results
           /\ n = AbortSwap(o) => n.commit = "ABORTED"
           /\ n = CommitSwap(o) => n.commit = "COMMITTED"
<1>1. /\ n \in QueryObject /\ n # NoQuery /\ o # NoQuery
      /\ n.errorHandlers = <<>> /\ n.finalizers = <<>>
      /\ n.status = o.status /\ n.hasId = o.hasId /\ n.version = o.version
      /\ n.results = o.results /\ n.error
      /\ n = AbortSwap(o) => n.commit = "ABORTED"
      /\ n = CommitSwap(o) => n.commit = "COMMITTED"
  <2>1. <<>> \in Seq(Handler) /\ <<>> \in Seq(Finalizer)
    OBVIOUS
  <2>2. AbortSwap(o) \in QueryObject /\ AbortSwap(o).commit = "ABORTED" /\ AbortSwap(o).error
    BY <2>1, Zenon DEF QueryObject, AbortSwap
  <2>3. CommitSwap(o) \in QueryObject /\ CommitSwap(o).commit = "COMMITTED" /\ CommitSwap(o).error
    BY <2>1, Zenon DEF QueryObject, CommitSwap
  <2>4. n \in QueryObject /\ n # NoQuery /\ o # NoQuery
    BY <2>2, <2>3 DEF QueryObject, NoQuery
  <2>5. /\ n.errorHandlers = <<>> /\ n.finalizers = <<>>
        /\ n.status = o.status /\ n.hasId = o.hasId /\ n.version = o.version
        /\ n.results = o.results
    BY Zenon DEF QueryObject, AbortSwap, CommitSwap
  <2> QED
    BY <2>2, <2>3, <2>4, <2>5, Zenon
<1>2. Hs(n) = {} /\ Fs(n) = {} /\ ~Armed(n)
  BY <1>1, Stacks, Zenon DEF Hs, Fs, Armed
<1> QED
  BY <1>1, <1>2, Zenon

(* By the error queue (handleCancel or a message), or by the executing thread   *)
(* (cancelQuery or done()).                                                     *)
SwapMove(q, i, t, pc, pd) ==
    \/ t = "errq" /\ pd = IF i = coordOf[q] /\ pc = "finished" THEN "ended" ELSE pc
    \/ t = "exec" /\ pc = "cancel" /\ pd = IF i = coordOf[q] THEN "ended" ELSE "sendError"

LEMMA AbortSwapLocal ==
    ASSUME NEW q, NEW i, NEW o \in QueryObject, NEW k, StackOK(k), NEW nd, NEW pc, NEW pd,
           NEW t \in Thread, Local(q, i, pc, o, k, nd),
           o.status # "START", o.commit # "COMMITTED", k[t] = <<>>, SwapMove(q, i, t, pc, pd)
    PROVE  Local(q, i, pd, AbortSwap(o), [k EXCEPT ![t] = Swapped(o)], nd)
<1> DEFINE n == AbortSwap(o)
           k2 == [k EXCEPT ![t] = Swapped(o)]
<1>1. /\ n \in QueryObject /\ n # NoQuery /\ o # NoQuery /\ Hs(n) = {} /\ Fs(n) = {} /\ ~Armed(n)
      /\ n.error /\ n.errorHandlers = <<>> /\ n.finalizers = <<>>
      /\ n.status = o.status /\ n.hasId = o.hasId
  BY SwapFacts, Zenon
<1>2. n.commit = "ABORTED"
  BY Zenon DEF AbortSwap, QueryObject
<1>3. Descending(o.errorHandlers) /\ Descending(o.finalizers)
  BY <1>1, Zenon DEF Local, Ordered
<1>4. Descending(Swapped(o)) /\ Range(Swapped(o)) = Hs(o) \cup Fs(o)
  BY <1>3, SwappedKeeps, Zenon DEF Hs, Fs
<1>5. /\ Ks(k2, t) = Hs(o) \cup Fs(o) /\ Ks(k, t) = {}
      /\ \A u \in Thread \ {t} : Ks(k2, u) = Ks(k, u)
  BY <1>4, Stacks, Zenon DEF Ks, StackOK
<1>6. \A u \in Thread : Descending(k2[u])
  BY <1>1, <1>4, Zenon DEF StackOK, Local, Ordered
<1> HIDE DEF n, k2
<1>7. Ordered(n, k2)
  BY <1>1, <1>6, Stacks, Zenon DEF Ordered
<1>8. SwappedOnce(n, k2)
  BY <1>1, <1>2, <1>5, Zenon DEF Local, SwappedOnce, Armed, Thread
<1>9. ObjectOK(pd, n, k2, nd)
  BY <1>1, <1>2, <1>5, Zenon DEF Local, ObjectOK, SwapMove, Thread, CoordinatorOK, WorkerOK
<1>10. i = coordOf[q] => CoordinatorOK(pd, n)
  BY <1>1, Zenon DEF Local, CoordinatorOK, SwapMove, Started
<1>11. i # coordOf[q] => WorkerOK(pd, n, k2)
  BY <1>1, <1>5, Zenon DEF Local, WorkerOK, SwapMove, Thread
<1> QED
  BY <1>7, <1>8, <1>9, <1>10, <1>11, Zenon DEF Local, n, k2

LEMMA CommitSwapLocal ==
    ASSUME NEW q, NEW i, NEW o \in QueryObject, NEW k, StackOK(k), NEW nd, NEW pc, NEW pd,
           Local(q, i, pc, o, k, nd), o.status = "OK", k["errq"] = <<>>,
           SwapMove(q, i, "errq", pc, pd)
    PROVE  /\ Local(q, i, pd, CommitSwap(o), [k EXCEPT !["errq"] = o.finalizers], nd)
           /\ Armed(o) /\ o.commit = "UNKNOWN"
<1> DEFINE n == CommitSwap(o)
           k2 == [k EXCEPT !["errq"] = o.finalizers]
<1>1. /\ n \in QueryObject /\ n # NoQuery /\ o # NoQuery /\ Hs(n) = {} /\ Fs(n) = {} /\ ~Armed(n)
      /\ n.error /\ n.errorHandlers = <<>> /\ n.finalizers = <<>>
      /\ n.status = "OK" /\ n.hasId = o.hasId /\ n.commit = "COMMITTED"
  BY SwapFacts, Zenon
<1>2. Descending(o.errorHandlers) /\ Descending(o.finalizers)
  BY <1>1, Zenon DEF Local, Ordered
<1>3. Range(o.finalizers) = Fs(o)
  BY Zenon DEF Fs
<1>4. Ks(k, "errq") = {} /\ Ks(k2, "errq") = Fs(o) /\ Ks(k2, "exec") = Ks(k, "exec")
  BY <1>3, Stacks, Zenon DEF Ks, StackOK, Thread
<1>5. \A u \in Thread : Descending(k2[u])
  BY <1>1, <1>2, Zenon DEF StackOK, Local, Ordered
<1>6. Ks(k, "exec") = {} /\ Armed(o) /\ o.commit = "UNKNOWN"
  BY <1>1, <1>4, Zenon DEF Local, ObjectOK, SwappedOnce
<1>7. Fs(o) \cap Handler = {}
  BY DEF Fs, Range, QueryObject, Handler, Finalizer
<1> HIDE DEF n, k2
<1>8. Ordered(n, k2)
  BY <1>1, <1>5, Stacks, Zenon DEF Ordered
<1>9. SwappedOnce(n, k2)
  BY <1>1, <1>4, <1>6, Zenon DEF SwappedOnce, Armed
<1>10. ObjectOK(pd, n, k2, nd)
  BY <1>1, <1>4, <1>6, <1>7, Zenon DEF Local, ObjectOK, SwapMove
<1>11. i = coordOf[q] => CoordinatorOK(pd, n)
  BY <1>1, <1>6, Zenon DEF Local, CoordinatorOK, SwapMove, Started
<1>12. i # coordOf[q] => WorkerOK(pd, n, k2)
  BY <1>1, <1>4, <1>6, Zenon DEF Local, WorkerOK, SwapMove, Thread
<1> QED
  BY <1>6, <1>8, <1>9, <1>10, <1>11, <1>12, Zenon DEF Local, n, k2

--------------------------------------------------------------------------------
(* Abort and commit. *)

LEMMA AbortMarkData ==
    ASSUME NEW q, NEW i, NEW o \in QueryObject, NEW k, NEW nd, NEW pc, NEW v,
           Local(q, i, pc, o, k, nd), o.status = "START", Data(q, i, pc, o, k, v)
    PROVE  Data(q, i, pc, AbortMark(o), k, v)
<1> DEFINE n == AbortMark(o)
<1>1. /\ n \in QueryObject /\ n.errorHandlers = o.errorHandlers /\ n.finalizers = o.finalizers
      /\ n.commit = "ABORTED" /\ n.status = o.status /\ n.version = o.version /\ n.results = o.results
  BY Zenon DEF QueryObject, AbortMark
<1>2. n.hasId = o.hasId
  BY Zenon DEF QueryObject, AbortMark
<1>3. n # NoQuery /\ o # NoQuery
  BY <1>1 DEF QueryObject, NoQuery
<1>4. Hs(n) = Hs(o) /\ Fs(n) = Fs(o) /\ Armed(n) /\ Armed(o)
  BY <1>1, <1>3, Zenon DEF Hs, Fs, Armed, Local, ObjectOK
<1> HIDE DEF n
<1>5. ~Recording(n, k) /\ ~Recording(o, k)
  BY <1>1, <1>4, Zenon DEF Recording, Local, SwappedOnce
<1>6. RowOK(q, i, n, k, v)
  BY <1>4, Zenon DEF Data, RowOK
<1>7. ChunksOK(q, i, pc, n, k, v)
  BY <1>1, <1>2, <1>3, <1>4, Zenon DEF Data, ChunksOK
<1>8. i = coordOf[q] => CoordinatorRow(q, pc, n, k, v)
  BY <1>1, <1>4, <1>5, Zenon DEF Data, CoordinatorRow
<1>9. i # coordOf[q] => ReportsOK(q, i, pc, n, v)
  BY <1>1, <1>3, Zenon DEF Data, ReportsOK, HasDone
<1> QED
  BY <1>6, <1>7, <1>8, <1>9, Zenon DEF Data, n

LEMMA AbortSwapData ==
    ASSUME NEW q, NEW i, NEW o \in QueryObject, NEW k, StackOK(k), NEW nd, NEW pc, NEW pd, NEW v,
           NEW t \in Thread, Local(q, i, pc, o, k, nd), Data(q, i, pc, o, k, v),
           o.status # "START", o.commit # "COMMITTED", k[t] = <<>>, SwapMove(q, i, t, pc, pd)
    PROVE  Data(q, i, pd, AbortSwap(o), [k EXCEPT ![t] = Swapped(o)], v)
<1> DEFINE n == AbortSwap(o)
           k2 == [k EXCEPT ![t] = Swapped(o)]
<1>1. /\ n \in QueryObject /\ n # NoQuery /\ o # NoQuery /\ Hs(n) = {} /\ Fs(n) = {} /\ ~Armed(n)
      /\ n.status = o.status /\ n.hasId = o.hasId /\ n.version = o.version /\ n.results = o.results
  BY SwapFacts, Zenon
<1>2. n.commit = "ABORTED"
  BY Zenon DEF AbortSwap, QueryObject
<1>3. Descending(o.errorHandlers) /\ Descending(o.finalizers)
  BY <1>1, Zenon DEF Local, Ordered
<1>4. Range(Swapped(o)) = Hs(o) \cup Fs(o)
  BY <1>3, SwappedKeeps, Zenon DEF Hs, Fs
<1>5. /\ Ks(k2, t) = Hs(o) \cup Fs(o) /\ Ks(k, t) = {}
      /\ \A u \in Thread \ {t} : Ks(k2, u) = Ks(k, u)
  BY <1>4, Stacks, Zenon DEF Ks, StackOK
<1> HIDE DEF n, k2
<1>6. ~Recording(n, k2) /\ ~Recording(o, k)
  BY <1>2, Zenon DEF Recording
<1>7. RowOK(q, i, n, k2, v)
  BY <1>1, <1>5, Zenon DEF Data, RowOK
<1>8. Hs(o) \subseteq Handler /\ Fs(o) \subseteq Finalizer /\ "UpdateErrorHandler" \notin Finalizer
  BY DEF Hs, Fs, Range, QueryObject, Finalizer
<1>9. HandlerPending(k2) <=> HandlerPending(k) \/ "UpdateErrorHandler" \in Hs(o)
  BY <1>5, <1>8, Zenon DEF HandlerPending
<1>10. Armed(o) \/ Hs(o) = {}
  BY <1>1, Zenon DEF Local, SwappedOnce
<1>11. i # coordOf[q] => pd # "done"
  BY <1>1, Zenon DEF Local, WorkerOK, SwapMove
<1>12. ChunksOK(q, i, pd, n, k2, v)
  BY <1>1, <1>6, <1>9, <1>10, <1>11, Zenon DEF Data, ChunksOK
<1>13. ASSUME i = coordOf[q]
       PROVE  CoordinatorRow(q, pd, n, k2, v)
  <2>1. CoordinatorOK(pc, o) /\ CoordinatorRow(q, pc, o, k, v)
    BY <1>13, Zenon DEF Local, Data
  <2>2. pd \notin Started /\ pd # "finished" /\ (pd = pc \/ pd = "ended")
    BY <1>13, <2>1, Zenon DEF CoordinatorOK, SwapMove, Started
  <2>3. pc = "ended" => pd = "ended"
    BY <1>13, Zenon DEF SwapMove
  <2> QED
    BY <1>1, <1>2, <1>6, <2>1, <2>2, <2>3, Zenon DEF CoordinatorRow, Started, BeforePlan
<1>14. i # coordOf[q] => ReportsOK(q, i, pd, n, v)
  BY <1>1, Zenon DEF Data, ReportsOK, HasDone, SwapMove
<1> QED
  BY <1>7, <1>12, <1>13, <1>14, Zenon DEF Data, n, k2

LEMMA CommitSwapData ==
    ASSUME NEW q, NEW i, NEW o \in QueryObject, NEW k, StackOK(k), NEW nd, NEW pc, NEW pd, NEW v,
           Local(q, i, pc, o, k, nd), Data(q, i, pc, o, k, v), o.status = "OK", k["errq"] = <<>>,
           SwapMove(q, i, "errq", pc, pd), i # coordOf[q] => Wrote(q, v), i = coordOf[q] => pc = "finished"
    PROVE  Data(q, i, pd, CommitSwap(o), [k EXCEPT !["errq"] = o.finalizers], v)
<1> DEFINE n == CommitSwap(o)
           k2 == [k EXCEPT !["errq"] = o.finalizers]
<1>1. /\ n \in QueryObject /\ n # NoQuery /\ o # NoQuery /\ Hs(n) = {} /\ Fs(n) = {} /\ ~Armed(n)
      /\ n.status = "OK" /\ n.hasId = o.hasId /\ n.commit = "COMMITTED"
      /\ n.version = o.version /\ n.results = o.results
  BY SwapFacts, Zenon
<1>2. Armed(o) /\ o.commit = "UNKNOWN"
  BY CommitSwapLocal, Zenon
<1>3. Descending(o.errorHandlers) /\ Descending(o.finalizers)
  BY <1>1, Zenon DEF Local, Ordered
<1>4. Range(o.finalizers) = Fs(o)
  BY Zenon DEF Fs
<1>5. Ks(k, "errq") = {} /\ Ks(k2, "errq") = Fs(o) /\ Ks(k2, "exec") = Ks(k, "exec") /\ Ks(k, "exec") = {}
  BY <1>2, <1>4, Stacks, Zenon DEF Ks, StackOK, Thread, Local, SwappedOnce
<1>6. "UpdateErrorHandler" \notin Fs(o)
  BY DEF Fs, Range, QueryObject, Finalizer
<1> HIDE DEF n, k2
<1>7. ~HandlerPending(k2)
  BY <1>5, <1>6, Zenon DEF HandlerPending, Thread
<1>8. RowOK(q, i, n, k2, v)
  BY <1>1, <1>5, Zenon DEF Data, RowOK, Thread
<1>9. CASE i = coordOf[q]
  <2>1. Fs(o) = Finalizer /\ pd = "ended" /\ CoordinatorRow(q, "finished", o, k, v)
    BY <1>2, <1>9, Zenon DEF Local, CoordinatorOK, SwapMove, Data
  <2>2. Recording(n, k2)
    BY <1>1, <1>5, <2>1, Zenon DEF Recording, Finalizer
  <2>3. CoordinatorRow(q, pd, n, k2, v)
    BY <1>1, <1>2, <2>1, <2>2, Zenon DEF CoordinatorRow, BeforePlan
  <2>4. ChunksOK(q, i, pd, n, k2, v)
    BY <1>1, <1>9, <2>2, Zenon DEF ChunksOK
  <2> QED
    BY <1>8, <1>9, <2>3, <2>4, Zenon DEF Data, n, k2
<1>10. CASE i # coordOf[q]
  <2>1. Wrote(q, v) /\ pd = pc
    BY <1>10, Zenon DEF SwapMove
  <2>2. ReportsOK(q, i, pd, n, v)
    BY <1>1, <1>10, <2>1, Zenon DEF Data, ReportsOK, HasDone
  <2>3. ChunksOK(q, i, pd, n, k2, v)
    BY <1>1, <1>7, <1>10, <2>1, Zenon DEF Data, ChunksOK
  <2> QED
    BY <1>8, <1>10, <2>2, <2>3, Zenon DEF Data, n, k2
<1> QED
  BY <1>9, <1>10, Zenon

(* A query is not aborted once it has committed (Query.cpp:646): the stack of    *)
(* the error queue is empty, so the finalizers of a commit have run.             *)
LEMMA AbortFindsNoCommit ==
    ASSUME NEW q, NEW i, NEW pc, NEW o \in QueryObject, NEW k, NEW nd, NEW t \in Thread,
           Local(q, i, pc, o, k, nd), k[t] = <<>>, t = "exec" => pc = "cancel"
    PROVE  o.commit # "COMMITTED"
<1>1. o # NoQuery /\ Ks(k, t) = {}
  BY Stacks DEF QueryObject, NoQuery, Ks
<1>2. CASE t = "exec"
  BY <1>1, <1>2, Zenon DEF Local, ObjectOK
<1>3. CASE t = "errq"
  BY <1>1, <1>3, Zenon DEF Local, ObjectOK, SwappedOnce
<1> QED
  BY <1>2, <1>3, Zenon DEF Thread

LEMMA AbortKeeps ==
    ASSUME CommitInv, NEW q \in Queries, NEW i \in Instance, NEW t \in Thread, NEW pd \in ExecState,
           IsObject(q, i), handleAbort(q, i, t), stack[q][i][t] = <<>>,
           SwapMove(q, i, t, exec[q][i], pd), Goto(q, i, pd),
           UNCHANGED <<catalog, stored, machine>>, msgs' \subseteq msgs
    PROVE  ThreadMove
<1> DEFINE o == query[q][i]
           k == stack[q][i]
           pc == exec[q][i]
           k2 == [k EXCEPT ![t] = Swapped(o)]
<1>1. /\ TypeOK /\ Obj(q, i) = o /\ o # NoQuery /\ o \in QueryObject /\ StackOK(k)
      /\ Local(q, i, pc, o, k, node[i]) /\ Data(q, i, pc, o, k, View(q, i))
  BY Before, Zenon
<1>2. o.commit # "COMMITTED"
  BY <1>1, AbortFindsNoCommit, Zenon DEF SwapMove
<1>3. pc # "none" /\ (pc = "idle" => pd = "idle") /\ (pc = "ended" => pd = "ended")
  BY <1>1, Zenon DEF Local, ObjectOK, SwapMove
<1>4. MovesOn(q, i, pd)
  BY <1>3, Zenon DEF MovesOn, SwapMove, BeforePlan
<1>5. Posts /\ \A m \in msgs' \ msgs : m.type # "mtQueryResult"
  BY Zenon DEF Posts
<1>6. i = coordOf[q] => o.results \subseteq Reporters(q)
  BY <1>1, ResultsAreReports, Zenon
<1>7. CASE o.status = "START"
  <2>1. t = "errq" /\ pd = pc
    BY <1>1, <1>7, Zenon DEF SwapMove, Local, CoordinatorOK, WorkerOK
  <2>2. query' = [query EXCEPT ![q][i] = AbortMark(o)] /\ failed' = failed
    BY <1>1, <1>2, <1>7, Zenon DEF handleAbort, AbortMark
  <2>3. stack' = [stack EXCEPT ![q][i] = k]
    <3>1. stack' = [stack EXCEPT ![q][i][t] = <<>>]
      BY <1>1, <1>2, <1>7, Zenon DEF handleAbort
    <3>2. stack \in [Queries -> [Instance -> [Thread -> Seq(Entry)]]]
      BY <1>1, Zenon DEF TypeOK, Entry
    <3>3. [k EXCEPT ![t] = <<>>] = k
      BY <1>1, Zenon DEF StackOK
    <3> QED
      BY <3>1, <3>2, <3>3, Zenon
  <2>4. Calm(q, i, pd, AbortMark(o), k)
    BY <2>2, <2>3, Zenon DEF Calm, Moves, Goto
  <2>5. Local(q, i, pd, AbortMark(o), k, node[i]) /\ Data(q, i, pd, AbortMark(o), k, View(q, i))
    BY <1>1, <1>7, <2>1, AbortMarkLocal, AbortMarkData, Zenon
  <2>6. AbortMark(o) \in QueryObject /\ AbortMark(o).results = o.results
    BY <1>1, Zenon DEF AbortMark, QueryObject
  <2> QED
    BY <1>1, <1>3, <1>4, <1>5, <1>6, <2>4, <2>5, <2>6, CalmStep, Zenon DEF CalmMove
<1>8. CASE o.status # "START"
  <2>1. query' = [query EXCEPT ![q][i] = AbortSwap(o)] /\ failed' = failed
    BY <1>1, <1>2, <1>8, Zenon DEF handleAbort, AbortSwap
  <2>2. stack' = [stack EXCEPT ![q][i] = k2]
    BY <1>1, <1>2, <1>8, Zenon DEF handleAbort
  <2>3. Calm(q, i, pd, AbortSwap(o), k2)
    BY <2>1, <2>2, Zenon DEF Calm, Moves, Goto
  <2>4. Local(q, i, pd, AbortSwap(o), k2, node[i]) /\ Data(q, i, pd, AbortSwap(o), k2, View(q, i))
    BY <1>1, <1>2, <1>8, AbortSwapLocal, AbortSwapData, Zenon
  <2>5. AbortSwap(o) \in QueryObject /\ AbortSwap(o).results = o.results
    BY <1>1, SwapFacts, Zenon
  <2>6. StackOK(k2)
    <3>1. Swapped(o) \in Seq(Entry)
      BY <1>1, SwappedKeeps, Zenon DEF Local, Ordered
    <3> QED
      BY <1>1, <3>1, Zenon DEF StackOK
  <2> QED
    BY <1>1, <1>3, <1>4, <1>5, <1>6, <2>3, <2>4, <2>5, <2>6, CalmStep, Zenon DEF CalmMove
<1> QED
  BY <1>7, <1>8, Zenon

LEMMA CommitKeeps ==
    ASSUME CommitInv, NEW q \in Queries, NEW i \in Instance, NEW pd \in ExecState,
           ErrorQueueFree(q, i), handleCommit(q, i), query[q][i].status = "OK",
           SwapMove(q, i, "errq", exec[q][i], pd), Goto(q, i, pd),
           i = coordOf[q] => exec[q][i] = "finished", i # coordOf[q] => Committed(q),
           UNCHANGED <<catalog, stored, machine>>, msgs' \subseteq msgs
    PROVE  ThreadMove
<1> DEFINE o == query[q][i]
           k == stack[q][i]
           pc == exec[q][i]
           k2 == [k EXCEPT !["errq"] = o.finalizers]
<1>1. /\ TypeOK /\ Obj(q, i) = o /\ o # NoQuery /\ o \in QueryObject /\ StackOK(k) /\ k["errq"] = <<>>
      /\ Local(q, i, pc, o, k, node[i]) /\ Data(q, i, pc, o, k, View(q, i))
  BY Before, Zenon DEF ErrorQueueFree
<1>2. o.commit = "UNKNOWN" /\ Local(q, i, pd, CommitSwap(o), k2, node[i])
  BY <1>1, CommitSwapLocal, Zenon
<1>3. Data(q, i, pd, CommitSwap(o), k2, View(q, i))
  BY <1>1, CommitSwapData, ViewFacts, Zenon DEF IsView
<1>4. pc # "none" /\ (pc = "idle" => pd = "idle") /\ (pc = "ended" => pd = "ended")
  BY <1>1, Zenon DEF Local, ObjectOK, SwapMove
<1>5. MovesOn(q, i, pd)
  BY <1>4, Zenon DEF MovesOn, SwapMove, BeforePlan
<1>6. Posts /\ \A m \in msgs' \ msgs : m.type # "mtQueryResult"
  BY Zenon DEF Posts
<1>7. i = coordOf[q] => o.results \subseteq Reporters(q)
  BY <1>1, ResultsAreReports, Zenon
<1>8. query' = [query EXCEPT ![q][i] = CommitSwap(o)] /\ failed' = failed
  BY <1>1, <1>2, Zenon DEF handleCommit, CommitSwap
<1>9. stack' = [stack EXCEPT ![q][i] = k2]
  BY <1>1, <1>2, Zenon DEF handleCommit
<1>10. Calm(q, i, pd, CommitSwap(o), k2)
  BY <1>8, <1>9, Zenon DEF Calm, Moves, Goto
<1>11. CommitSwap(o) \in QueryObject /\ CommitSwap(o).results = o.results
  BY <1>1, SwapFacts, Zenon
<1>12. StackOK(k2)
  <2>1. o.finalizers \in Seq(Entry)
    BY <1>1, SwappedKeeps, Zenon DEF Local, Ordered
  <2> QED
    BY <1>1, <2>1, Zenon DEF StackOK
<1> QED
  BY <1>1, <1>2, <1>3, <1>4, <1>5, <1>6, <1>7, <1>10, <1>11, <1>12, CalmStep, Zenon DEF CalmMove

LEMMA HandleCancelKeeps ==
    ASSUME CommitInv, NEW q \in Queries, handleCancel(q)
    PROVE  ThreadMove
<1> DEFINE c == coordOf[q]
           pd == IF exec[q][c] = "finished" THEN "ended" ELSE exec[q][c]
<1>1. c \in Instance
  BY Zenon DEF CommitInv, LocksInv
<1>2. pd \in ExecState /\ SwapMove(q, c, "errq", exec[q][c], pd) /\ "errq" \in Thread
  BY <1>1, Before, Zenon DEF ExecState, SwapMove, Thread
<1>3. /\ IsObject(q, c) /\ stack[q][c]["errq"] = <<>> /\ handleAbort(q, c, "errq") /\ Goto(q, c, pd)
      /\ UNCHANGED <<catalog, stored, machine>> /\ msgs' \subseteq msgs
  BY Zenon DEF handleCancel, ErrorQueueFree
<1> HIDE DEF pd
<1> QED
  BY <1>1, <1>2, <1>3, AbortKeeps, Zenon

LEMMA CancelKeeps ==
    ASSUME CommitInv, NEW q \in Queries, NEW i \in Instance, cancel(q, i)
    PROVE  ThreadMove
<1> DEFINE o == query[q][i]
           k == stack[q][i]
           pd == IF i = coordOf[q] THEN "ended" ELSE "sendError"
<1>1. /\ exec[q][i] = "cancel" /\ k["exec"] = <<>> /\ msgs' \subseteq msgs
      /\ UNCHANGED <<catalog, stored, machine>> /\ Goto(q, i, pd)
  BY Zenon DEF cancel, At, Coordinator
<1>2. /\ TypeOK /\ (IsObject(q, i) <=> o # NoQuery) /\ StackOK(k)
      /\ Local(q, i, "cancel", o, k, node[i]) /\ Data(q, i, "cancel", o, k, View(q, i))
  BY <1>1, Before, Zenon
<1>3. pd \in ExecState /\ SwapMove(q, i, "exec", exec[q][i], pd) /\ "exec" \in Thread
  BY <1>1, Zenon DEF ExecState, SwapMove, Thread
<1>4. CASE IsObject(q, i)
  <2>1. handleAbort(q, i, "exec")
    BY <1>4, Zenon DEF cancel
  <2> HIDE DEF pd
  <2> QED
    BY <1>1, <1>3, <1>4, <2>1, AbortKeeps, Zenon
<1>5. CASE ~IsObject(q, i)
  <2>1. query' = query /\ stack' = stack /\ failed' = failed /\ o = NoQuery
    BY <1>2, <1>5, Zenon DEF cancel
  <2>2. Calm(q, i, pd, o, k)
    <3> HIDE DEF pd
    <3> QED
      BY <1>1, <1>2, <2>1, StaysFacts, Zenon DEF Calm, Moves, Goto, Obj
  <2>3. Local(q, i, pd, o, k, node[i])
    BY <1>1, <1>2, <2>1, EndLocal, Zenon DEF EndMoves
  <2>4. Data(q, i, pd, o, k, View(q, i))
    BY <1>2, <2>1, Zenon DEF Data, CoordinatorRow, ChunksOK, ReportsOK, HasDone, BeforePlan
  <2>5. MovesOn(q, i, pd) /\ exec[q][i] # "idle"
    BY <1>1, Zenon DEF MovesOn, BeforePlan
  <2>6. Posts /\ \A m \in msgs' \ msgs : m.type # "mtQueryResult"
    BY <1>1, Zenon DEF Posts
  <2> QED
    BY <1>2, <1>3, <2>1, <2>2, <2>3, <2>4, <2>5, <2>6, CalmStep, Zenon DEF CalmMove
<1> QED
  BY <1>4, <1>5, Zenon

LEMMA CompleteQueryKeeps ==
    ASSUME CommitInv, NEW q \in Queries, completeQuery(q)
    PROVE  ThreadMove
<1> DEFINE c == coordOf[q]
<1>1. c \in Instance
  BY DEF CommitInv, LocksInv
<1>2. /\ exec[q][c] = "finished" /\ ErrorQueueFree(q, c) /\ handleCommit(q, c) /\ Goto(q, c, "ended")
      /\ UNCHANGED <<catalog, stored, machine>> /\ msgs' \subseteq msgs
  BY Zenon DEF completeQuery, At
<1>3. query[q][c].status = "OK"
  BY <1>1, <1>2, Before, Zenon DEF Local, CoordinatorOK
<1>4. "ended" \in ExecState /\ SwapMove(q, c, "errq", exec[q][c], "ended")
  BY <1>2, Zenon DEF ExecState, SwapMove
<1> QED
  BY <1>1, <1>2, <1>3, <1>4, CommitKeeps, Zenon

(* An abort or a commit of the coordinator comes to a worker. *)
LEMMA AbortMessageKeeps ==
    ASSUME CommitInv, NEW i \in Instance, abortMessage(i)
    PROVE  ThreadMove
<1>1. PICK m \in msgs :
        /\ \/ Receive(m, i, "mtAbort")
           \/ Receive(m, i, "QUERY_NOT_FOUND") /\ m.from = coordOf[m.query]
        /\ ErrorQueueFree(m.query, i)
        /\ handleAbort(m.query, i, "errq")
        /\ msgs' = msgs \ {m}
        /\ UNCHANGED <<exec, catalog, stored, machine>>
  BY Zenon DEF abortMessage
<1> DEFINE q == m.query
<1>2. q \in Queries /\ MessageOK(m) /\ TypeOK
  BY Zenon DEF CommitInv, AssertionsHold, TypeOK, Message, MessagesOK
<1>3. i # coordOf[q]
  BY <1>1, <1>2, Zenon DEF Receive, MessageOK
<1>4. IsObject(q, i) /\ stack[q][i]["errq"] = <<>> /\ msgs' \subseteq msgs
  BY <1>1, Zenon DEF ErrorQueueFree
<1>5. exec[q][i] \in ExecState /\ Goto(q, i, exec[q][i])
  BY <1>1, <1>2, StaysFacts, Zenon DEF Goto
<1>6. SwapMove(q, i, "errq", exec[q][i], exec[q][i]) /\ "errq" \in Thread
  BY <1>3, Zenon DEF SwapMove, Thread
<1> QED
  BY <1>1, <1>2, <1>4, <1>5, <1>6, AbortKeeps, Zenon

LEMMA CommitMessageKeeps ==
    ASSUME CommitInv, NEW i \in Instance, commitMessage(i)
    PROVE  ThreadMove
<1>1. PICK m \in msgs :
        /\ Receive(m, i, "mtCommit")
        /\ ErrorQueueFree(m.query, i)
        /\ handleCommit(m.query, i)
        /\ msgs' = msgs \ {m}
        /\ UNCHANGED <<exec, catalog, stored, machine>>
  BY Zenon DEF commitMessage
<1> DEFINE q == m.query
<1>2. q \in Queries /\ MessageOK(m) /\ TypeOK
  BY Zenon DEF CommitInv, AssertionsHold, TypeOK, Message, MessagesOK
<1>3. i # coordOf[q] /\ Committed(q)
  BY <1>1, <1>2, Zenon DEF Receive, MessageOK
<1>4. query[q][i].status = "OK"
  BY <1>1, <1>2, <1>3, Before, ViewFacts, Zenon DEF Data, ReportsOK, ErrorQueueFree, IsView
<1>5. exec[q][i] \in ExecState /\ Goto(q, i, exec[q][i])
  BY <1>1, <1>2, StaysFacts, Zenon DEF Goto
<1>6. SwapMove(q, i, "errq", exec[q][i], exec[q][i]) /\ msgs' \subseteq msgs
  BY <1>1, <1>3, Zenon DEF SwapMove
<1> QED
  BY <1>1, <1>2, <1>3, <1>4, <1>5, <1>6, CommitKeeps, Zenon

--------------------------------------------------------------------------------
(* Messages that post an error or a result, or that find no query. *)

LEMMA PostKeeps ==
    ASSUME CommitInv, NEW q \in Queries, NEW i \in Instance, NEW n \in QueryObject,
           query[q][i] # NoQuery, SameEntries(query[q][i], n), query[q][i].error => n.error,
           n.hasId = query[q][i].hasId, n.status = query[q][i].status, n.version = query[q][i].version,
           query[q][i].results \subseteq n.results,
           i = coordOf[q] => n.results \subseteq Reporters(q) /\ n.results \subseteq query[q][i].results \cup Workers(q),
           query' = [query EXCEPT ![q][i] = n],
           UNCHANGED <<exec, stack, catalog, stored, machine, failed>>,
           Posts, \A m \in msgs' \ msgs : m.type # "mtQueryResult"
    PROVE  ThreadMove
<1> DEFINE o == query[q][i]
           k == stack[q][i]
           pc == exec[q][i]
<1>1. /\ TypeOK /\ StackOK(k) /\ pc \in ExecState
      /\ Local(q, i, pc, o, k, node[i]) /\ Data(q, i, pc, o, k, View(q, i))
  BY Before, Zenon
<1>2. Calm(q, i, pc, n, k)
  BY <1>1, StaysFacts, Zenon DEF Calm, Moves
<1>3. Local(q, i, pc, n, k, node[i])
  BY <1>1, PostLocal, Zenon
<1>4. /\ n # NoQuery /\ Hs(n) = Hs(o) /\ Fs(n) = Fs(o) /\ (Armed(n) <=> Armed(o))
      /\ (Recording(n, k) <=> Recording(o, k)) /\ n.commit = o.commit
  BY SameEntriesFacts, Zenon DEF SameEntries, Recording
<1>5. RowOK(q, i, n, k, View(q, i)) /\ ChunksOK(q, i, pc, n, k, View(q, i))
  BY <1>1, <1>4, Zenon DEF Data, RowOK, ChunksOK
<1>6. i = coordOf[q] => CoordinatorRow(q, pc, n, k, View(q, i))
  <2>1. View(q, i).workers = Workers(q)
    BY ViewFacts, Zenon DEF IsView
  <2> QED
    BY <1>1, <1>4, <2>1, Zenon DEF Data, CoordinatorRow
<1>7. i # coordOf[q] => ReportsOK(q, i, pc, n, View(q, i))
  BY <1>1, <1>4, Zenon DEF Data, ReportsOK, HasDone
<1>8. Data(q, i, pc, n, k, View(q, i))
  BY <1>1, <1>5, <1>6, <1>7, Zenon DEF Data
<1>9. MovesOn(q, i, pc)
  BY Zenon DEF MovesOn
<1> QED
  BY <1>1, <1>2, <1>3, <1>8, <1>9, CalmStep, Zenon DEF CalmMove

LEMMA HandleQueryResultKeeps ==
    ASSUME CommitInv, NEW i \in Instance, handleQueryResult(i)
    PROVE  ThreadMove
<1>1. PICK m \in msgs :
        /\ Receive(m, i, "mtQueryResult")
        /\ query' = [query EXCEPT ![m.query][i].results = @ \cup {m.from}]
        /\ msgs' = msgs \ {m}
        /\ UNCHANGED <<exec, stack, catalog, stored, machine, failed>>
  BY Zenon DEF handleQueryResult
<1> DEFINE q == m.query
           o == query[q][i]
           n == [o EXCEPT !.results = @ \cup {m.from}]
<1>2. q \in Queries /\ m.from \in Instance /\ MessageOK(m) /\ TypeOK /\ m.type = "mtQueryResult"
  BY <1>1, Zenon DEF CommitInv, AssertionsHold, TypeOK, Message, MessagesOK, Receive
<1>3. o # NoQuery /\ o \in QueryObject
  BY <1>1, <1>2, Before, Zenon DEF Receive
<1>4. m.from \in Workers(q) /\ m.from \in Reporters(q)
  BY <1>2, Zenon DEF MessageOK, Workers, Reporters
<1>5. /\ n \in QueryObject /\ SameEntries(o, n) /\ n.status = o.status /\ n.version = o.version
      /\ n.results = o.results \cup {m.from}
  BY <1>2, <1>3, Zenon DEF QueryObject, SameEntries
<1>6. n.error = o.error /\ n.hasId = o.hasId
  BY <1>3, Zenon DEF QueryObject
<1>7. i = coordOf[q] => n.results \subseteq Reporters(q) /\ n.results \subseteq o.results \cup Workers(q)
  BY <1>2, <1>3, <1>4, <1>5, ResultsAreReports, Zenon
<1>8. query' = [query EXCEPT ![q][i] = n]
  BY <1>1, Zenon
<1>9. Posts /\ \A x \in msgs' \ msgs : x.type # "mtQueryResult"
  BY <1>1, Zenon DEF Posts
<1>10. UNCHANGED <<exec, stack, catalog, stored, machine, failed>>
  BY <1>1, Zenon
<1> HIDE DEF n
<1>11. o.results \subseteq n.results /\ (o.error => n.error)
  BY <1>5, <1>6, Zenon
<1> QED
  BY <1>2, <1>3, <1>5, <1>6, <1>7, <1>8, <1>9, <1>10, <1>11, PostKeeps, Zenon

LEMMA SetErrorKeeps ==
    ASSUME CommitInv, NEW q \in Queries, NEW i \in Instance, IsObject(q, i),
           SetError(q, i) \/ query' = query,
           UNCHANGED <<exec, stack, catalog, stored, machine, failed>>,
           Posts, \A m \in msgs' \ msgs : m.type # "mtQueryResult"
    PROVE  ThreadMove
<1> DEFINE o == query[q][i]
           n == [o EXCEPT !.error = TRUE]
<1>1. o # NoQuery /\ o \in QueryObject /\ TypeOK /\ (i = coordOf[q] => o.results \subseteq Reporters(q))
  BY Before, ResultsAreReports, Zenon
<1>2. CASE SetError(q, i)
  <2>1. /\ n \in QueryObject /\ SameEntries(o, n) /\ n.status = o.status /\ n.version = o.version
        /\ n.results = o.results
    BY <1>1, Zenon DEF QueryObject, SameEntries
  <2>2. n.error /\ n.hasId = o.hasId
    BY <1>1, Zenon DEF QueryObject
  <2>3. query' = [query EXCEPT ![q][i] = n]
    BY <1>2, Zenon DEF SetError
  <2> HIDE DEF n
  <2> QED
    BY <1>1, <2>1, <2>2, <2>3, PostKeeps, Zenon
<1>3. CASE query' = query
  <2>1. SameEntries(o, o) /\ query' = [query EXCEPT ![q][i] = o]
    BY <1>1, <1>3, StaysFacts, Zenon DEF SameEntries, Obj
  <2> QED
    BY <1>1, <2>1, PostKeeps, Zenon
<1> QED
  BY <1>2, <1>3, Zenon

LEMMA NotificationsKeep ==
    ASSUME CommitInv, NEW i \in Instance,
           handleError(i) \/ handleLivenessNotification(i) \/ abortQueryOnConnError(i)
    PROVE  ThreadMove
<1>1. PICK m \in msgs :
        /\ IsObject(m.query, i) /\ m.to = i
        /\ SetError(m.query, i) \/ query' = query
        /\ \/ msgs' = msgs \ {m}
           \/ /\ m.type \in NotificationType /\ m.from = coordOf[m.query]
              /\ msgs' = (msgs \ {m}) \cup {[m EXCEPT !.type = "mtAbort"]}
        /\ UNCHANGED <<exec, stack, catalog, stored, machine, failed>>
  <2>1. CASE handleError(i)
    BY <2>1, Zenon DEF handleError, Receive
  <2>2. CASE handleLivenessNotification(i)
    BY <2>2, Zenon DEF handleLivenessNotification, Receive, NotificationType
  <2>3. CASE abortQueryOnConnError(i)
    BY <2>3, Zenon DEF abortQueryOnConnError, Receive, NotificationType
  <2> QED
    BY <2>1, <2>2, <2>3, Zenon
<1>2. m.query \in Queries /\ MessageOK(m) /\ TypeOK /\ m \in Message
  BY Zenon DEF CommitInv, AssertionsHold, TypeOK, Message, MessagesOK
<1>3. Posts /\ \A x \in msgs' \ msgs : x.type # "mtQueryResult"
  <2>1. CASE msgs' = msgs \ {m}
    BY <2>1, Zenon DEF Posts
  <2>2. CASE msgs' = (msgs \ {m}) \cup {[m EXCEPT !.type = "mtAbort"]} /\ msgs' # msgs \ {m}
    <3> DEFINE x == [m EXCEPT !.type = "mtAbort"]
    <3>1. /\ x \in Message /\ x.type = "mtAbort" /\ x.to = m.to /\ x.query = m.query
      BY <1>2, Zenon DEF Message, MessageType
    <3>2. m.to # coordOf[m.query]
      BY <1>1, <1>2, <2>2, Zenon DEF MessageOK
    <3>3. MessageOK(x)'
      BY <3>1, <3>2, Zenon DEF MessageOK, IsPlan, NotificationType
    <3> QED
      BY <2>2, <3>1, <3>3, Zenon DEF Posts
  <2> QED
    BY <1>1, <2>1, <2>2, Zenon
<1> QED
  BY <1>1, <1>2, <1>3, SetErrorKeeps, Zenon

LEMMA DispatchMessageKeeps ==
    ASSUME CommitInv, NEW i \in Instance, dispatchMessage(i)
    PROVE  ThreadMove
<1>1. PICK m \in msgs :
        /\ m.to = i /\ ~IsObject(m.query, i)
        /\ msgs' = (msgs \ {m}) \cup
            IF m.type \in {"mtPreparePhysicalPlan", "mtQueryResult", "mtCommit"} /\ m.from # i
            THEN Send(m.query, i, "QUERY_NOT_FOUND", {m.from}) ELSE {}
        /\ UNCHANGED <<query, exec, stack, catalog, stored, machine, failed>>
  BY Zenon DEF dispatchMessage
<1> DEFINE q == m.query
           o == query[q][i]
           k == stack[q][i]
           pc == exec[q][i]
<1>2. q \in Queries /\ TypeOK /\ m \in Message
  BY Zenon DEF CommitInv, AssertionsHold, TypeOK, Message
<1>3. /\ StackOK(k) /\ pc \in ExecState /\ o = NoQuery
      /\ Local(q, i, pc, o, k, node[i]) /\ Data(q, i, pc, o, k, View(q, i))
  BY <1>1, <1>2, Before, Zenon
<1>4. Calm(q, i, pc, o, k) /\ MovesOn(q, i, pc)
  BY <1>1, <1>2, StaysFacts, Zenon DEF Calm, Moves, Obj, MovesOn
<1>5. \A x \in msgs' \ msgs : x \in Message /\ x.type = "QUERY_NOT_FOUND" /\ x.to = m.from /\ x.from = i /\ m.from # i
  BY <1>1, <1>2 DEF Send, Message, MessageType
<1>6. Posts /\ \A x \in msgs' \ msgs : x.type # "mtQueryResult"
  BY <1>5, Zenon DEF Posts, MessageOK, IsPlan
<1> QED
  BY <1>2, <1>3, <1>4, <1>6, CalmStep, Zenon DEF CalmMove

--------------------------------------------------------------------------------
(* The handlers and the finalizers that leave the catalog and the disks alone. *)

LEMMA RankOrder ==
    /\ ~(Rank["broadcastCommit"] < Rank["recordPersistent"])
    /\ ~(Rank["releaseLocks"] < Rank["recordPersistent"])
    /\ ~(Rank["releaseLocks"] < Rank["UpdateErrorHandler"])
    /\ \A y \in Entry : ~(Rank["destroy"] < Rank[y])
    /\ ~(NoRow > 0) /\ NoRow # 0
  BY DEF Rank, Entry, Handler, Finalizer, NoRow

(* What would run before what runs now has run. *)
LEMMA RunsLast ==
    ASSUME CommitInv, NEW q \in Queries, NEW i \in Instance, NEW t \in Thread, NEW x, Runs(q, i, t, x),
           NEW y, y # x, ~(Rank[x] < Rank[y])
    PROVE  \A u \in Thread : y \notin Ks(stack[q][i], u)
<1>1. /\ Ks(Popped(q, i, t), t) = Ks(stack[q][i], t) \ {x}
      /\ \A u \in Thread \ {t} : Ks(stack[q][i], u) = {} /\ Ks(Popped(q, i, t), u) = {}
      /\ \A z \in Ks(Popped(q, i, t), t) : Rank[x] < Rank[z]
  BY RunsFacts, Zenon
<1> QED
  BY <1>1, Zenon

LEMMA PopStep ==
    ASSUME CommitInv, NEW q \in Queries, NEW i \in Instance, NEW t \in Thread, NEW x, Runs(q, i, t, x),
           x \notin {"destroy", "releaseLocks", "UpdateErrorHandler"},
           x = "recordPersistent" => ~Recording(query[q][i], stack[q][i]),
           UNCHANGED <<query, exec, catalog, stored, machine, failed>>,
           Posts, \A m \in msgs' \ msgs : m.type # "mtQueryResult"
    PROVE  ThreadMove
<1> DEFINE o == query[q][i]
           k == stack[q][i]
           pc == exec[q][i]
           v == View(q, i)
           k2 == Popped(q, i, t)
<1>1. /\ TypeOK /\ Data(q, i, pc, o, k, v) /\ pc \in ExecState
  BY Before, Zenon
<1>2. /\ stack' = [stack EXCEPT ![q][i] = k2] /\ StackOK(k2) /\ o # NoQuery /\ o \in QueryObject
      /\ ~Armed(o) /\ Ks(k2, t) = Ks(k, t) \ {x}
      /\ \A u \in Thread \ {t} : Ks(k, u) = {} /\ Ks(k2, u) = {}
      /\ Local(q, i, pc, o, k2, node[i])
  BY RunsFacts, Zenon
<1>3. Calm(q, i, pc, o, k2)
  BY <1>1, <1>2, StaysFacts, Zenon DEF Calm, Moves, Obj
<1>4. i = coordOf[q] => o.results \subseteq Reporters(q)
  BY <1>2, ResultsAreReports, Zenon
<1>5. MovesOn(q, i, pc)
  BY Zenon DEF MovesOn
<1> HIDE DEF o, k, v, k2
<1>6. Data(q, i, pc, o, k2, v)
  BY <1>1, <1>2, PopData, Zenon DEF o, k
<1> QED
  BY <1>1, <1>2, <1>3, <1>4, <1>5, <1>6, CalmStep, Zenon DEF CalmMove, o, v

(* Only a coordinator has them, so what they send goes to workers. *)
LEMMA BroadcastAbortKeeps ==
    ASSUME CommitInv, NEW q \in Queries, NEW i \in Instance, NEW t \in Thread, BroadcastAbort(q, i, t)
    PROVE  ThreadMove
<1>1. Runs(q, i, t, "BroadcastAbort") /\ UNCHANGED <<query, exec, catalog, stored, machine, failed>>
  BY Zenon DEF BroadcastAbort
<1>2. i = coordOf[q]
  <2>1. "BroadcastAbort" \in Ks(stack[q][i], t) /\ "BroadcastAbort" \notin WorkerEntry
    BY <1>1, RunsFacts, Zenon DEF WorkerEntry
  <2> QED
    BY <2>1, Before, Zenon DEF Local, WorkerOK
<1>3. \A m \in msgs' \ msgs : m \in Message /\ m.type = "mtAbort" /\ m.query = q /\ m.to # i
  BY DEF BroadcastAbort, Send, Message, MessageType
<1>4. Posts /\ \A m \in msgs' \ msgs : m.type # "mtQueryResult"
  BY <1>2, <1>3, Zenon DEF Posts, MessageOK, IsPlan, NotificationType
<1>5. "BroadcastAbort" \notin {"destroy", "releaseLocks", "UpdateErrorHandler", "recordPersistent"}
  OBVIOUS
<1> QED
  BY <1>1, <1>4, <1>5, PopStep, Zenon

LEMMA BroadcastCommitKeeps ==
    ASSUME CommitInv, NEW q \in Queries, NEW i \in Instance, NEW t \in Thread, broadcastCommit(q, i, t)
    PROVE  ThreadMove
<1> DEFINE o == query[q][i]
           k == stack[q][i]
           v == View(q, i)
<1>1. Runs(q, i, t, "broadcastCommit") /\ UNCHANGED <<query, exec, catalog, stored, machine, failed>>
  BY Zenon DEF broadcastCommit
<1>2. i = coordOf[q]
  <2>1. "broadcastCommit" \in Ks(k, t) /\ "broadcastCommit" \notin WorkerEntry
    BY <1>1, RunsFacts, Zenon DEF WorkerEntry
  <2> QED
    BY <2>1, Before, Zenon DEF Local, WorkerOK
<1>3. o.commit = "COMMITTED" => Committed(q)
  <2>1. "recordPersistent" \notin Ks(k, "errq")
    <3>1. "recordPersistent" # "broadcastCommit" /\ "errq" \in Thread
      BY DEF Thread
    <3> QED
      BY <1>1, <3>1, RunsLast, RankOrder, Zenon
  <2>2. CoordinatorRow(q, exec[q][i], o, k, v) /\ o # NoQuery /\ IsView(q, i, v)
    BY <1>1, <1>2, Before, RunsFacts, ViewFacts, Zenon DEF Data
  <2> QED
    BY <2>1, <2>2, Zenon DEF CoordinatorRow, Recording, IsView
<1>4. Obj(q, i) = o
  BY Before, Zenon
<1>5. \A m \in msgs' \ msgs : /\ m \in Message /\ m.type = "mtCommit" /\ m.query = q /\ m.to # i
                             /\ o.commit = "COMMITTED"
  BY <1>4 DEF broadcastCommit, Send, Message, MessageType
<1>6. Committed(q)' <=> Committed(q)
  BY <1>1, Zenon DEF Committed, catalog
<1>7. Posts /\ \A m \in msgs' \ msgs : m.type # "mtQueryResult"
  BY <1>2, <1>3, <1>5, <1>6, Zenon DEF Posts, MessageOK, IsPlan, NotificationType
<1>8. "broadcastCommit" \notin {"destroy", "releaseLocks", "UpdateErrorHandler", "recordPersistent"}
  OBVIOUS
<1> QED
  BY <1>1, <1>7, <1>8, PopStep, Zenon

(* Of a query that does not commit. *)
LEMMA RecordNothingKeeps ==
    ASSUME CommitInv, NEW q \in Queries, NEW i \in Instance, NEW t \in Thread, recordPersistent(q, i, t),
           query[q][i].commit # "COMMITTED"
    PROVE  ThreadMove
<1>1. Runs(q, i, t, "recordPersistent") /\ UNCHANGED <<query, exec, catalog, stored, machine, failed>>
      /\ msgs' = msgs
  BY Before, Zenon DEF recordPersistent, catalog
<1>2. Posts /\ \A m \in msgs' \ msgs : m.type # "mtQueryResult"
  BY <1>1, Zenon DEF Posts
<1>3. ~Recording(query[q][i], stack[q][i])
  BY Zenon DEF Recording
<1>4. "recordPersistent" \notin {"destroy", "releaseLocks", "UpdateErrorHandler"}
  OBVIOUS
<1> QED
  BY <1>1, <1>2, <1>3, <1>4, PopStep, Zenon

--------------------------------------------------------------------------------
(* The finalizers that delete a row and the query. *)

LEMMA UnlockedData ==
    ASSUME NEW q, NEW i, NEW pc, NEW o, NEW k, NEW k2, NEW v, NEW w,
           Local(q, i, pc, o, k, "up"), Data(q, i, pc, o, k, v), o # NoQuery, ~Armed(o),
           \A u \in Thread : /\ "UpdateErrorHandler" \notin Ks(k, u) /\ "recordPersistent" \notin Ks(k, u)
                            /\ Ks(k2, u) \subseteq Ks(k, u),
           v.node = "up", w.node = "up", w.row = NoRow, w.stored = v.stored, w.workers = v.workers,
           i # coordOf[q] => w.coordRow = v.coordRow, w.reporters = v.reporters,
           LastOf(w) = LastOf(v), Wrote(q, w) <=> Wrote(q, v)
    PROVE  Data(q, i, pc, o, k2, w)
<1>1. ~HandlerPending(k) /\ ~HandlerPending(k2) /\ ~Recording(o, k) /\ ~Recording(o, k2)
  BY Zenon DEF HandlerPending, Recording, Thread
<1>2. q \notin v.stored \/ Wrote(q, v)
  BY <1>1, Zenon DEF Data, ChunksOK
<1>3. RowOK(q, i, o, k2, w) /\ RecoveryOK(q, i, w) /\ StoredOK(q, w)
  BY <1>2, RankOrder, Zenon DEF Data, RowOK, RecoveryOK, StoredOK
<1>4. i # coordOf[q] => pc # "done"
  BY Zenon DEF Local, WorkerOK
<1>5. ChunksOK(q, i, pc, o, k2, w)
  BY <1>1, <1>2, <1>4, Zenon DEF ChunksOK
<1>6. i = coordOf[q] => CoordinatorRow(q, pc, o, k2, w)
  BY <1>1, Zenon DEF Local, CoordinatorOK, Started, Data, CoordinatorRow
<1>7. i # coordOf[q] => ReportsOK(q, i, pc, o, w)
  BY Zenon DEF Data, ReportsOK, HasDone
<1> QED
  BY <1>3, <1>5, <1>6, <1>7, Zenon DEF Data

LEMMA ReleaseLocksKeeps ==
    ASSUME CommitInv, NEW q \in Queries, NEW i \in Instance, NEW t \in Thread, releaseLocks(q, i, t)
    PROVE  ThreadMove
<1> DEFINE o == query[q][i]
           k == stack[q][i]
           pc == exec[q][i]
           v == View(q, i)
           w == RowView(q, i, NoRow)
           k2 == Popped(q, i, t)
<1>1. /\ TypeOK /\ Local(q, i, pc, o, k, node[i]) /\ Data(q, i, pc, o, k, v) /\ pc \in ExecState
  BY Before, Zenon
<1>2. /\ Runs(q, i, t, "releaseLocks") /\ rows' = [rows EXCEPT ![q][i] = NoRow]
      /\ UNCHANGED <<query, exec, versions, stored, msgs, machine, failed>>
  BY Zenon DEF releaseLocks
<1>3. /\ stack' = [stack EXCEPT ![q][i] = k2] /\ StackOK(k2) /\ o # NoQuery /\ o \in QueryObject
      /\ ~Armed(o) /\ Ks(k2, t) = Ks(k, t) \ {"releaseLocks"}
      /\ \A u \in Thread \ {t} : Ks(k, u) = {} /\ Ks(k2, u) = {}
      /\ Local(q, i, pc, o, k2, node[i]) /\ node[i] = "up"
  <2>1. "releaseLocks" # "destroy"
    OBVIOUS
  <2> HIDE DEF o, k, pc, k2
  <2> QED
    BY <1>2, <2>1, RunsFacts, Zenon DEF o, k, pc, k2
<1>4. \A u \in Thread : "UpdateErrorHandler" \notin Ks(k, u) /\ "recordPersistent" \notin Ks(k, u)
  <2>1. "UpdateErrorHandler" # "releaseLocks" /\ "recordPersistent" # "releaseLocks"
    OBVIOUS
  <2> QED
    BY <1>2, <2>1, RunsLast, RankOrder, Zenon
<1>5. IsView(q, i, v) /\ IsRowView(q, i, NoRow, w)
  BY ViewFacts, RowViewFacts, Zenon
<1>6. Moves(q, i, pc, o, k2)
  BY <1>1, <1>2, <1>3, StaysFacts, Zenon DEF Moves, Obj
<1>7. i = coordOf[q] => o.results \subseteq Reporters(q)
  BY <1>3, ResultsAreReports, Zenon
<1>8. MovesOn(q, i, pc)
  BY Zenon DEF MovesOn
<1> HIDE DEF o, k, v, w, k2
<1>9. Data(q, i, pc, o, k2, w)
  <2>1. \A u \in Thread : Ks(k2, u) \subseteq Ks(k, u)
    BY <1>3, Zenon
  <2> QED
    BY <1>1, <1>3, <1>4, <1>5, <2>1, UnlockedData, Zenon DEF IsView, IsRowView
<1> QED
  BY <1>1, <1>2, <1>3, <1>6, <1>7, <1>8, <1>9, RankOrder, RowStep, Zenon DEF RowMove, o, w

LEMMA DestroyData ==
    ASSUME NEW q, NEW i, NEW pc, NEW o, NEW k, NEW k2, NEW v,
           Local(q, i, pc, o, k, "up"), Data(q, i, pc, o, k, v), o # NoQuery, ~Armed(o), v.node = "up",
           \A u \in Thread : Ks(k, u) \subseteq {"destroy"} /\ Ks(k2, u) = {},
           \A u \in Thread : Descending(k2[u])
    PROVE  Local(q, i, pc, NoQuery, k2, "up") /\ Data(q, i, pc, NoQuery, k2, v)
<1>1. Ordered(NoQuery, k2) /\ SwappedOnce(NoQuery, k2) /\ ~Armed(NoQuery)
  BY Zenon DEF Ordered, SwappedOnce, Thread, Armed
<1>2. ObjectOK(pc, NoQuery, k2, "up")
  BY Zenon DEF Local, ObjectOK, Thread
<1>3. i = coordOf[q] => CoordinatorOK(pc, NoQuery)
  BY <1>1, Zenon DEF Local, CoordinatorOK
<1>4. i # coordOf[q] => WorkerOK(pc, NoQuery, k2)
  BY <1>1, Zenon DEF Local, WorkerOK
<1>5. ~HandlerPending(k2) /\ v.row = NoRow
  BY Zenon DEF HandlerPending, Data, RowOK
<1>6. RowOK(q, i, NoQuery, k2, v) /\ RecoveryOK(q, i, v) /\ StoredOK(q, v)
  BY <1>5, Zenon DEF Data, RowOK
<1>7. ChunksOK(q, i, pc, NoQuery, k2, v)
  BY <1>1, <1>5, Zenon DEF Local, WorkerOK, ChunksOK
<1>8. i = coordOf[q] => CoordinatorRow(q, pc, NoQuery, k2, v)
  BY <1>1, Zenon DEF Local, CoordinatorOK, Started, Data, CoordinatorRow, Recording
<1>9. i # coordOf[q] => ReportsOK(q, i, pc, NoQuery, v)
  BY Zenon DEF Data, ReportsOK, HasDone
<1> QED
  BY <1>1, <1>2, <1>3, <1>4, <1>6, <1>7, <1>8, <1>9, Zenon DEF Local, Data

LEMMA DestroyKeeps ==
    ASSUME CommitInv, NEW q \in Queries, NEW i \in Instance, NEW t \in Thread, destroy(q, i, t)
    PROVE  ThreadMove
<1> DEFINE o == query[q][i]
           k == stack[q][i]
           pc == exec[q][i]
           v == View(q, i)
           k2 == Popped(q, i, t)
<1>1. /\ TypeOK /\ Local(q, i, pc, o, k, node[i]) /\ Data(q, i, pc, o, k, v) /\ pc \in ExecState
      /\ StackOK(k)
  BY Before, Zenon
<1>2. /\ Runs(q, i, t, "destroy") /\ query' = [query EXCEPT ![q][i] = NoQuery]
      /\ UNCHANGED <<exec, catalog, stored, msgs, machine, failed>>
  BY Zenon DEF destroy
<1>3. /\ stack' = [stack EXCEPT ![q][i] = k2] /\ StackOK(k2) /\ o # NoQuery /\ ~Armed(o)
      /\ Ks(k2, t) = Ks(k, t) \ {"destroy"}
      /\ \A u \in Thread \ {t} : Ks(k, u) = {} /\ Ks(k2, u) = {}
      /\ \A y \in Ks(k2, t) : Rank["destroy"] < Rank[y]
      /\ \A u \in Thread : Descending(k2[u])
      /\ node[i] = "up"
  <2> HIDE DEF o, k, k2
  <2> QED
    BY <1>2, RunsFacts, Zenon DEF o, k, k2
<1>4. Ks(k2, t) \subseteq Entry
  BY <1>3 DEF Ks, StackOK, Range
<1>5. IsView(q, i, v)
  BY ViewFacts, Zenon
<1>6. Calm(q, i, pc, NoQuery, k2)
  BY <1>1, <1>2, <1>3, StaysFacts, Zenon DEF Calm, Moves
<1>7. MovesOn(q, i, pc) /\ Posts /\ msgs' \subseteq msgs
  BY <1>2, Zenon DEF MovesOn, Posts
<1> HIDE DEF o, k, v, k2
<1>8. Ks(k2, t) = {}
  BY <1>3, <1>4, RankOrder, Zenon
<1>9. \A u \in Thread : Ks(k, u) \subseteq {"destroy"} /\ Ks(k2, u) = {}
  BY <1>3, <1>8, Zenon
<1>10. Local(q, i, pc, NoQuery, k2, node[i]) /\ Data(q, i, pc, NoQuery, k2, v)
  BY <1>1, <1>3, <1>5, <1>9, DestroyData, Zenon DEF IsView
<1> QED
  BY <1>1, <1>3, <1>6, <1>7, <1>10, CalmStep, Zenon DEF CalmMove, v

--------------------------------------------------------------------------------
(* The coordinator records the version. *)

SameButVersions(v, w) ==
    /\ w.node = v.node /\ w.recovering = v.recovering /\ w.stored = v.stored
    /\ w.row = v.row /\ w.coordRow = v.coordRow
    /\ w.workers = v.workers /\ w.reporters \subseteq v.reporters

(* A query that waits for the lock sees a version more. *)
LEMMA OtherWriterData ==
    ASSUME NEW q, NEW i, NEW pc, NEW o, NEW k, NEW v, NEW w, NEW nd,
           Local(q, i, pc, o, k, nd), Data(q, i, pc, o, k, v), SameButVersions(v, w), v.row = NoRow,
           Wrote(q, w) <=> Wrote(q, v)
    PROVE  Data(q, i, pc, o, k, w)
<1>1. RowOK(q, i, o, k, w) /\ RecoveryOK(q, i, w) /\ StoredOK(q, w)
  BY RankOrder, Zenon DEF Data, RowOK, RecoveryOK, StoredOK, SameButVersions
<1>2. ChunksOK(q, i, pc, o, k, w)
  BY Zenon DEF Data, ChunksOK, SameButVersions
<1>3. i = coordOf[q] => pc # "updateArrayLock"
  BY RankOrder, Zenon DEF Local, CoordinatorOK, Started, Data, CoordinatorRow
<1>4. i = coordOf[q] => CoordinatorRow(q, pc, o, k, w)
  BY <1>3, Zenon DEF Data, CoordinatorRow, SameButVersions
<1>5. i # coordOf[q] => ReportsOK(q, i, pc, o, w)
  BY Zenon DEF Data, ReportsOK, HasDone, SameButVersions
<1> QED
  BY <1>1, <1>2, <1>4, <1>5, Zenon DEF Data

(* A worker that has reported keeps its chunks. *)
LEMMA RecordedWorkerData ==
    ASSUME NEW q, NEW i, NEW pc, NEW o, NEW k, NEW v, NEW w, i # coordOf[q],
           Data(q, i, pc, o, k, v), SameButVersions(v, w), ~Wrote(q, v), Wrote(q, w),
           LastOf(v) \in Nat, LastOf(w) = LastOf(v) + 1, i \in v.reporters, v.coordRow # NoRow
    PROVE  Data(q, i, pc, o, k, w)
<1>1. q \in v.stored /\ pc = "ended" /\ (o # NoQuery => o.status = "OK")
  BY Zenon DEF Data, ReportsOK, HasDone
<1>2. w.row > 0 => w.row = LastOf(w) + (IF Wrote(q, w) THEN 0 ELSE 1)
  BY DEF Data, RowOK, SameButVersions
<1>3. RowOK(q, i, o, k, w) /\ RecoveryOK(q, i, w) /\ StoredOK(q, w)
  BY <1>1, <1>2, Zenon DEF Data, RowOK, RecoveryOK, StoredOK, SameButVersions
<1>4. ChunksOK(q, i, pc, o, k, w)
  BY <1>1, Zenon DEF Data, ChunksOK, SameButVersions
<1>5. ReportsOK(q, i, pc, o, w)
  BY <1>1, Zenon DEF ReportsOK, SameButVersions
<1> QED
  BY <1>3, <1>4, <1>5, Zenon DEF Data

LEMMA RecordedData ==
    ASSUME NEW q, NEW o, NEW k, NEW k2, NEW v, NEW w, NEW t \in Thread,
           Data(q, coordOf[q], "ended", o, k, v), o # NoQuery, ~Armed(o),
           Ks(k2, t) = Ks(k, t) \ {"recordPersistent"},
           \A u \in Thread \ {t} : Ks(k, u) = {} /\ Ks(k2, u) = {},
           SameButVersions(v, w), ~Wrote(q, v), Wrote(q, w), q \in v.stored,
           LastOf(v) \in Nat, LastOf(w) = LastOf(v) + 1
    PROVE  Data(q, coordOf[q], "ended", o, k2, w)
<1>1. w.row > 0 => w.row = LastOf(w) + (IF Wrote(q, w) THEN 0 ELSE 1)
  BY DEF Data, RowOK, SameButVersions
<1>2. \A u \in Thread : /\ "recordPersistent" \notin Ks(k2, u)
                        /\ "releaseLocks" \in Ks(k, u) => "releaseLocks" \in Ks(k2, u)
  <2>1. "releaseLocks" # "recordPersistent"
    OBVIOUS
  <2> QED
    BY <2>1, Zenon
<1>3. ~Recording(o, k2)
  BY <1>2, Zenon DEF Recording, Thread
<1>4. RowOK(q, coordOf[q], o, k2, w) /\ RecoveryOK(q, coordOf[q], w) /\ StoredOK(q, w)
  BY <1>1, <1>2, Zenon DEF Data, RowOK, RecoveryOK, StoredOK, SameButVersions
<1>5. ChunksOK(q, coordOf[q], "ended", o, k2, w)
  BY Zenon DEF ChunksOK
<1>6. CoordinatorRow(q, "ended", o, k2, w)
  BY <1>3, Zenon DEF CoordinatorRow, BeforePlan
<1> QED
  BY <1>4, <1>5, <1>6, Zenon DEF Data

(* The versions of an array with the next one. *)
Numbers(S) == {v.version : v \in S}
Consecutive(S) ==
    /\ IsFiniteSet(S) /\ Cardinality(S) \in Nat /\ Numbers(S) = 1..Cardinality(S)
    /\ \A v, w \in S : v.writer = w.writer => v = w
Writers(S) == {v.writer : v \in S}

LEMMA NextVersion ==
    ASSUME NEW S, NEW q, Consecutive(S), q \notin Writers(S),
           NEW T, T = S \cup {[version |-> Cardinality(S) + 1, writer |-> q]}
    PROVE  /\ Consecutive(T) /\ Writers(T) = Writers(S) \cup {q}
           /\ Max({0} \cup Numbers(T)) = Cardinality(S) + 1
<1> DEFINE N == Cardinality(S)
           e == [version |-> N + 1, writer |-> q]
<1>1. e.version = N + 1 /\ e.writer = q
  OBVIOUS
<1>2. T = S \cup {e} /\ e \notin S /\ N \in Nat /\ IsFiniteSet(S) /\ Numbers(S) = 1..N
  BY <1>1 DEF Consecutive, Writers
<1> HIDE DEF e
<1>3. IsFiniteSet(T) /\ Cardinality(T) = N + 1
  BY <1>2, FS_AddElement
<1> HIDE DEF N
<1>4. Numbers(T) = Numbers(S) \cup {N + 1} /\ Writers(T) = Writers(S) \cup {q}
  BY <1>1, <1>2 DEF Numbers, Writers
<1>5. Numbers(T) = 1..(N + 1)
  <2>1. 1..(N + 1) = 1..N \cup {N + 1}
    BY <1>2
  <2> QED
    BY <1>2, <1>4, <2>1, Zenon
<1>6. \A v, w \in T : v.writer = w.writer => v = w
  BY <1>1, <1>2 DEF Consecutive, Writers
<1>7. {0} \cup Numbers(T) = 0..(N + 1)
  BY <1>2, <1>5
<1>8. Max(0..(N + 1)) = N + 1 /\ N + 1 \in Nat
  BY <1>2 DEF Max
<1> QED
  BY <1>3, <1>4, <1>5, <1>6, <1>7, <1>8, Zenon DEF N, Consecutive

(* Who records: the error queue of the coordinator, with a report of every      *)
(* worker and the next version of the array under its lock.                     *)
LEMMA RecordFacts ==
    ASSUME CommitInv, NEW q \in Queries, NEW i \in Instance, NEW t \in Thread,
           recordPersistent(q, i, t), query[q][i].commit = "COMMITTED"
    PROVE  /\ i = coordOf[q] /\ exec[q][i] = "ended" /\ q \in stored[i] /\ ~Committed(q)
           /\ rows[q][i] # NoRow /\ query[q][i].version = LastVersion(arrayOf[q]) + 1
           /\ \A j \in Workers(q) : j \in Reporters(q)
<1> DEFINE o == query[q][i]
           k == stack[q][i]
           pc == exec[q][i]
           v == View(q, i)
<1>1. /\ TypeOK /\ Local(q, i, pc, o, k, node[i]) /\ Data(q, i, pc, o, k, v)
  BY Before, Zenon
<1>2. Runs(q, i, t, "recordPersistent")
  BY Zenon DEF recordPersistent
<1>3. o # NoQuery /\ ~Armed(o) /\ "recordPersistent" \in Ks(k, t)
  BY <1>2, RunsFacts, Zenon
<1>4. IsView(q, i, v)
  BY ViewFacts, Zenon
<1>5. i = coordOf[q] /\ o.results \subseteq Reporters(q)
  <2>1. "recordPersistent" \notin WorkerEntry
    BY DEF WorkerEntry
  <2>2. i = coordOf[q]
    BY <1>1, <1>3, <2>1, Zenon DEF Local, WorkerOK
  <2> QED
    BY <1>3, <2>2, ResultsAreReports, Zenon
<1> HIDE DEF o, k, pc, v
<1>6. o.commit = "COMMITTED"
  BY Zenon DEF o
<1>7. pc = "ended" /\ Ks(k, "exec") = {}
  <2>1. pc \in {"finished", "sendResult", "ended"} /\ Ks(k, "exec") = {}
    BY <1>1, <1>3, <1>6, Zenon DEF Local, ObjectOK
  <2>2. pc # "sendResult" /\ pc # "finished"
    BY <1>1, <1>3, <1>5, Zenon DEF Local, CoordinatorOK, Started
  <2> QED
    BY <2>1, <2>2, Zenon
<1>8. Recording(o, k)
  BY <1>3, <1>6, <1>7, Zenon DEF Recording, Thread
<1>9. /\ ~Wrote(q, v) /\ v.row = o.version /\ o.version > 0
      /\ q \in v.stored /\ o.results = v.workers
  BY <1>1, <1>5, <1>8, Zenon DEF Data, CoordinatorRow
<1>10. v.row = LastOf(v) + 1 /\ v.row # NoRow
  BY <1>1, <1>9, RankOrder DEF Data, RowOK
<1> QED
  BY <1>4, <1>5, <1>7, <1>9, <1>10, Zenon DEF IsView, o, pc

LEMMA RecordPersistentKeeps ==
    ASSUME CommitInv, LocksInv', NEW q \in Queries, NEW i \in Instance, NEW t \in Thread,
           recordPersistent(q, i, t), query[q][i].commit = "COMMITTED"
    PROVE  CommitInv'
<1> DEFINE o == query[q][i]
           k2 == Popped(q, i, t)
           a == arrayOf[q]
           N == Cardinality(versions[a])
           e == [version |-> N + 1, writer |-> q]
<1>1. /\ i = coordOf[q] /\ exec[q][i] = "ended" /\ q \in stored[i] /\ ~Committed(q)
      /\ rows[q][i] # NoRow /\ o.version = LastVersion(a) + 1
      /\ \A j \in Workers(q) : j \in Reporters(q)
  BY RecordFacts, Zenon
<1>2. /\ TypeOK /\ Shape /\ StackOK(k2) /\ a \in Arrays /\ DataOK /\ WritersExclude
      /\ q \in QueryId /\ (\A p \in Queries : arrayOf[p] \in Arrays /\ coordOf[p] \in Instance)
  BY Before, RunsFacts, QueryTxnAssumption DEF recordPersistent, CommitInv, LocksInv, Plan, Queries
<1>3. /\ IsFiniteSet(versions[a]) /\ N \in Nat /\ {v.version : v \in versions[a]} = 1..N
      /\ \A v, w \in versions[a] : v.writer = w.writer => v = w
      /\ LastVersion(a) = N
  BY <1>2, LastVersionFacts, Zenon DEF CommitInv, VersionsOK, VersionsAreConsecutive
<1>4. /\ versions' = [versions EXCEPT ![a] = @ \cup {e}] /\ stack' = [stack EXCEPT ![q][i] = k2]
      /\ query' = query /\ exec' = exec /\ rows' = rows /\ stored' = stored /\ msgs' = msgs
      /\ UNCHANGED <<machine, failed>> /\ node' = node /\ recovering' = recovering /\ plan' = plan
      /\ o # NoQuery /\ o \in QueryObject /\ ~Armed(o)
      /\ Ks(k2, t) = Ks(stack[q][i], t) \ {"recordPersistent"}
      /\ \A u \in Thread \ {t} : Ks(stack[q][i], u) = {} /\ Ks(k2, u) = {}
      /\ Local(q, i, exec[q][i], o, k2, node[i])
  <2>1. /\ versions' = [versions EXCEPT ![a] = @ \cup {[version |-> o.version, writer |-> q]}]
        /\ query' = query /\ exec' = exec /\ rows' = rows /\ stored' = stored /\ msgs' = msgs
        /\ UNCHANGED <<machine, failed>> /\ node' = node /\ recovering' = recovering /\ plan' = plan
    BY Zenon DEF recordPersistent, Obj, machine
  <2>2. Runs(q, i, t, "recordPersistent") /\ "recordPersistent" # "destroy"
    BY Zenon DEF recordPersistent
  <2> HIDE DEF o, k2
  <2>3. /\ stack' = [stack EXCEPT ![q][i] = k2] /\ o # NoQuery /\ o \in QueryObject /\ ~Armed(o)
        /\ Ks(k2, t) = Ks(stack[q][i], t) \ {"recordPersistent"}
        /\ \A u \in Thread \ {t} : Ks(stack[q][i], u) = {} /\ Ks(k2, u) = {}
        /\ Local(q, i, exec[q][i], o, k2, node[i])
    BY <2>2, RunsFacts, Zenon DEF o, k2
  <2> QED
    BY <1>1, <1>3, <2>1, <2>3, Zenon
<1>5. versions'[a] = versions[a] \cup {e} /\ \A b \in Arrays \ {a} : versions'[b] = versions[b]
  BY <1>2, <1>4, Zenon DEF TypeOK
<1>6. Consecutive(versions[a]) /\ q \notin Writers(versions[a])
  BY <1>1, <1>3 DEF Committed, Consecutive, Numbers, Writers
<1> HIDE DEF N
<1>7. /\ Consecutive(versions'[a]) /\ Writers(versions'[a]) = Writers(versions[a]) \cup {q}
      /\ Max({0} \cup Numbers(versions'[a])) = N + 1
  <2> DEFINE S == versions[a]
             T == versions'[a]
  <2>1. Consecutive(S) /\ q \notin Writers(S) /\ N = Cardinality(S)
    BY <1>6, Zenon DEF N
  <2>2. T = S \cup {[version |-> Cardinality(S) + 1, writer |-> q]}
    BY <1>5, Zenon DEF N
  <2> HIDE DEF S, T
  <2>3. /\ Consecutive(T) /\ Writers(T) = Writers(S) \cup {q}
        /\ Max({0} \cup Numbers(T)) = Cardinality(S) + 1
    BY <2>1, <2>2, NextVersion, Zenon
  <2> QED
    BY <2>1, <2>3, Zenon DEF S, T
<1>8. VersionsOK'
  <2>1. VersionsOK
    BY Zenon DEF CommitInv
  <2> QED
    BY <1>5, <1>7, <2>1, Zenon DEF VersionsOK, VersionsAreConsecutive, Consecutive, Numbers
<1>9. versions' \in [Arrays -> SUBSET [version : Nat, writer : Queries]]
  <2>1. e \in [version : Nat, writer : Queries]
    BY <1>3
  <2> HIDE DEF e
  <2> QED
    BY <1>2, <1>4, <2>1, Zenon DEF TypeOK
<1>10. /\ rows' \in [Queries -> [Instance -> Nat \cup {NoRow}]] /\ stored' \in [Instance -> SUBSET Queries]
       /\ \A p \in Queries : Committed(p) => Committed(p)'
  BY <1>2, <1>4, <1>5, Zenon DEF TypeOK, Committed
<1>11. /\ Moves(q, i, exec[q][i], o, k2) /\ MovesOn(q, i, exec[q][i]) /\ Posts
       /\ exec[q][i] \in ExecState /\ \A m \in msgs' \ msgs : m.type # "mtQueryResult"
  BY <1>2, <1>4, StaysFacts, Before, Zenon DEF Moves, MovesOn, Posts, Obj
<1> HIDE DEF e, k2
<1>12. /\ AssertionsHold' /\ ThreadsOK' /\ MessagesOK' /\ SameElsewhere(q, i)
       /\ exec'[q][i] = exec[q][i] /\ query'[q][i] = o /\ stack'[q][i] = k2
       /\ Queries' = Queries /\ Instance' = Instance
  BY <1>2, <1>4, <1>9, <1>10, <1>11, MoveStep, Zenon
<1>13. o.results \subseteq Reporters(q)
  BY <1>1, <1>4, ResultsAreReports, Zenon
<1>14. \A p \in Queries : Reporters(p)' \subseteq Reporters(p)
  BY <1>2, <1>11, <1>12, <1>13, ReportersStep, Zenon
<1>15. ASSUME NEW p \in Queries, NEW j \in Instance
       PROVE  Data(p, j, exec'[p][j], query'[p][j], stack'[p][j], View(p, j)')
  <2> DEFINE v == View(p, j)
             w == View(p, j)'
  <2>1. SameButVersions(v, w) /\ w.versions = versions'[arrayOf[p]] /\ v.versions = versions[arrayOf[p]]
    BY <1>4, <1>12, <1>14, Zenon DEF SameButVersions, View, Workers
  <2>2. Data(p, j, exec[p][j], query[p][j], stack[p][j], v) /\ IsView(p, j, v)
    BY <1>2, ViewFacts, Zenon DEF DataOK
  <2>3. Local(p, j, exec[p][j], query[p][j], stack[p][j], node[j])
    BY Before, Zenon
  <2> HIDE DEF v, w
  <2>4. CASE arrayOf[p] # a
    <3>1. FewerReporters(v, w)
      BY <1>2, <1>5, <2>1, <2>4, Zenon DEF FewerReporters, SameButVersions
    <3>2. exec'[p][j] = exec[p][j] /\ query'[p][j] = query[p][j] /\ stack'[p][j] = stack[p][j]
      BY <1>12, <2>4, Zenon DEF SameElsewhere, SameAt
    <3> QED
      BY <2>2, <3>1, <3>2, FewerReportersKeep, Zenon DEF w
  <2>5. CASE arrayOf[p] = a /\ p # q
    <3>1. v.row = NoRow
      BY <1>1, <1>2, <2>2, <2>5, Zenon DEF WritersExclude, IsView
    <3>2. exec'[p][j] = exec[p][j] /\ query'[p][j] = query[p][j] /\ stack'[p][j] = stack[p][j]
      BY <1>12, <2>5, Zenon DEF SameElsewhere, SameAt
    <3>3. Wrote(p, w) <=> Wrote(p, v)
      <4>1. p \in Writers(versions'[a]) <=> p \in Writers(versions[a])
        BY <1>7, <2>5, Zenon
      <4> QED
        BY <2>1, <2>5, <4>1 DEF Wrote, Writers
    <3> QED
      BY <2>1, <2>2, <2>3, <3>1, <3>2, <3>3, OtherWriterData, Zenon DEF w
  <2>6. CASE p = q
    <3>1. ~Wrote(q, v) /\ Wrote(q, w) /\ LastOf(v) = N /\ LastOf(w) = N + 1 /\ N \in Nat
      <4>1. q \in Writers(versions'[a])
        BY <1>7, Zenon
      <4>2. Wrote(q, w)
        BY <2>1, <2>6, <4>1 DEF Wrote, Writers
      <4> QED
        BY <1>1, <1>3, <1>7, <2>1, <2>2, <2>6, <4>2, Zenon DEF LastOf, IsView, Numbers
    <3>2. LastOf(v) \in Nat /\ LastOf(w) = LastOf(v) + 1
      BY <3>1, Zenon
    <3>3. CASE j = i
      <4>1. Data(q, coordOf[q], "ended", o, stack[q][i], v) /\ q \in v.stored
        BY <1>1, <2>2, <2>6, <3>3, Zenon DEF IsView
      <4>2. Data(q, coordOf[q], "ended", o, k2, w)
        BY <1>4, <2>1, <3>1, <3>2, <4>1, RecordedData, Zenon
      <4> QED
        BY <1>1, <1>12, <2>6, <3>3, <4>2, Zenon DEF w
    <3>4. CASE j # i
      <4>1. j \in v.reporters /\ v.coordRow # NoRow /\ j # coordOf[q]
        BY <1>1, <2>2, <2>6, <3>4, Zenon DEF Workers, IsView
      <4>2. exec'[p][j] = exec[p][j] /\ query'[p][j] = query[p][j] /\ stack'[p][j] = stack[p][j]
        BY <1>12, <3>4, Zenon DEF SameElsewhere, SameAt
      <4> QED
        BY <2>1, <2>2, <2>6, <3>1, <3>2, <4>1, <4>2, RecordedWorkerData, Zenon DEF w
    <3> QED
      BY <3>3, <3>4, Zenon
  <2> QED
    BY <2>4, <2>5, <2>6, Zenon
<1>16. DataOK'
  BY <1>12, <1>15, Zenon DEF DataOK
<1> QED
  BY <1>8, <1>12, <1>16, Zenon DEF CommitInv
=================================================================================
