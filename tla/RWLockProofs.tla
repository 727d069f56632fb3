---------------------------- MODULE RWLockProofs -------------------------------
(***************************************************************************)
(* The safety of the reader-writer lock for any finite set of threads, any *)
(* bound on nesting, with and without timed waits.                         *)
(***************************************************************************)
EXTENDS RWLock, FiniteSetTheorems, TLAPS

(***************************************************************************)
(* How the number of threads at some places changes when one thread moves. *)
(***************************************************************************)
LEMMA AtFinite ==
    ASSUME NEW places
    PROVE  IsFiniteSet(At(places)) /\ Cardinality(At(places)) \in Nat
<1>1. At(places) \subseteq Thread
  BY DEF At
<1> QED
  BY <1>1, RWLockAssumption, FS_Subset, FS_CardinalityType

LEMMA AtFinitePrime ==
    ASSUME NEW places
    PROVE  Cardinality(At(places)') \in Nat
<1>1. At(places)' \subseteq Thread
  BY DEF At
<1> QED
  BY <1>1, RWLockAssumption, FS_Subset, FS_CardinalityType

LEMMA AtEnter ==
    ASSUME TypeOK, NEW t \in Thread, NEW to, NEW places,
           pc' = [pc EXCEPT ![t] = to], to \in places, pc[t] \notin places
    PROVE  Cardinality(At(places)') = Cardinality(At(places)) + 1
<1>1. At(places)' = At(places) \cup {t}
  BY DEF At, TypeOK
<1>2. t \notin At(places)
  BY DEF At
<1> QED
  BY <1>1, <1>2, AtFinite, FS_AddElement

LEMMA AtSomebody ==
    ASSUME NEW t \in Thread, NEW places, pc[t] \in places
    PROVE  Cardinality(At(places)) > 0
<1>1. t \in At(places)
  BY DEF At
<1>2. Cardinality(At(places)) # 0
  BY <1>1, AtFinite, FS_EmptySet
<1> QED
  BY <1>2, AtFinite

LEMMA AtLeave ==
    ASSUME TypeOK, NEW t \in Thread, NEW places,
           pc[t] \in places, pc'[t] \notin places,
           \A u \in Thread \ {t} : pc'[u] = pc[u]
    PROVE  Cardinality(At(places)) = Cardinality(At(places)') + 1
<1>1. At(places) = At(places)' \cup {t}
  BY DEF At, TypeOK
<1>2. t \notin At(places)'
  BY DEF At, TypeOK
<1>3. IsFiniteSet(At(places)')
  BY <1>1, AtFinite, FS_Subset
<1> QED
  BY <1>1, <1>2, <1>3, FS_AddElement, Zenon

LEMMA AtStay ==
    ASSUME TypeOK, NEW t \in Thread, NEW to, NEW places,
           pc' = [pc EXCEPT ![t] = to], to \in places <=> pc[t] \in places
    PROVE  At(places)' = At(places)
BY DEF At, TypeOK

LEMMA AtNobody ==
    ASSUME NEW places, Cardinality(At(places)) = 0
    PROVE  \A t \in Thread : pc[t] \notin places
BY AtFinite, FS_EmptySet DEF At

(***************************************************************************)
(* One lemma for each way in which an operation can end or fall asleep.    *)
(***************************************************************************)
LEMMA SleepEffect ==
    ASSUME TypeOK, OnlyWaitersSleep, NEW t \in Thread, NEW place \in Waiting, Sleep(t, place)
    PROVE  /\ pc' = [pc EXCEPT ![t] = place]
           /\ pc' \in [Thread -> Place]
           /\ signaled' \in [Event -> BOOLEAN]
           /\ wake' \in [Thread -> {"no", "asleep", "woken", "expired"}]
           /\ OnlyWaitersSleep'
BY DEF TypeOK, OnlyWaitersSleep, Sleep, Waiting, Place, Event, EventOf

LEMMA GotoEffect ==
    ASSUME TypeOK, OnlyWaitersSleep, NEW t \in Thread, NEW place \in Place, Goto(t, place)
    PROVE  /\ pc' = [pc EXCEPT ![t] = place]
           /\ pc' \in [Thread -> Place]
           /\ signaled' \in [Event -> BOOLEAN]
           /\ wake' \in [Thread -> {"no", "asleep", "woken", "expired"}]
           /\ OnlyWaitersSleep'
BY DEF TypeOK, OnlyWaitersSleep, Goto

LEMMA SignalEffect ==
    ASSUME TypeOK, OnlyWaitersSleep, NEW t \in Thread, NEW place \in Place, NEW e \in Event,
           SignalAnd(e, t, place)
    PROVE  /\ pc' = [pc EXCEPT ![t] = place]
           /\ pc' \in [Thread -> Place]
           /\ signaled' \in [Event -> BOOLEAN]
           /\ wake' \in [Thread -> {"no", "asleep", "woken", "expired"}]
           /\ OnlyWaitersSleep'
BY DEF TypeOK, OnlyWaitersSleep, SignalAnd, Asleep

LEMMA EnterReadKeeps ==
    ASSUME IInv, NEW t \in Thread, pc[t] \in {"idle", "reader"}, EnterRead(t)
    PROVE  IInv'
<1> USE DEF IInv
<1>1. CASE /\ pendingWriters = 0 /\ currentWriter = None
           /\ readers' = readers + 1
           /\ Goto(t, "reading")
           /\ UNCHANGED <<pendingWriters, currentWriter, nested, failing>>
  <2>1. "reading" \in Place
    BY DEF Place
  <2>2. /\ pc' = [pc EXCEPT ![t] = "reading"]
        /\ TypeOK' /\ OnlyWaitersSleep'
    BY <1>1, <2>1, GotoEffect DEF TypeOK
  <2>3. readers' = Cardinality(At({"reading"})')
    BY <1>1, <2>2, AtEnter, Zenon DEF CountersMatchHolders
  <2>4. pendingWriters' = Cardinality(At({"drain", "queue"})')
    BY <1>1, <2>2, AtStay, Zenon DEF CountersMatchHolders
  <2>5. \A u \in Thread : pc[u] \notin {"drain", "queue"}
    BY <1>1, AtNobody, Zenon DEF CountersMatchHolders
  <2>6. CountersMatchHolders'
    BY <1>1, <2>2, <2>3, <2>4, RWLockAssumption DEF CountersMatchHolders, TypeOK
  <2>7. NoReaderPastDrain' /\ NestedOnlyByWriter'
    BY <1>1, <2>2, <2>5, RWLockAssumption
    DEF NoReaderPastDrain, NestedOnlyByWriter, CountersMatchHolders, TypeOK
  <2> QED
    BY <2>2, <2>6, <2>7
<1>2. ASSUME NEW to \in {"idle", "reader"},
             /\ pc' = [pc EXCEPT ![t] = to]
             /\ TypeOK' /\ OnlyWaitersSleep'
             /\ UNCHANGED lockVars
      PROVE  IInv'
  <2>1. readers' = Cardinality(At({"reading"})')
    BY <1>2, AtStay, Zenon DEF CountersMatchHolders, lockVars
  <2>2. pendingWriters' = Cardinality(At({"drain", "queue"})')
    BY <1>2, AtStay, Zenon DEF CountersMatchHolders, lockVars
  <2> QED
    BY <1>2, <2>1, <2>2
    DEF CountersMatchHolders, NoReaderPastDrain, NestedOnlyByWriter, TypeOK, lockVars
<1>3. CASE /\ Sleep(t, "reader")
           /\ UNCHANGED <<lockVars, failing>>
  BY <1>2, <1>3, SleepEffect DEF TypeOK, Waiting, lockVars
<1>4. CASE ReadFails(t)
  BY <1>2, <1>4, GotoEffect DEF ReadFails, TypeOK, Place, lockVars
<1> QED
  BY <1>1, <1>3, <1>4 DEF EnterRead

(***************************************************************************)
(* Inside lockWrite, pw is the value _pendingWriters has once the caller   *)
(* is counted: PendingWriter adds one when the caller comes in, and        *)
(* nothing when it comes back from a wait.                                 *)
(***************************************************************************)
InLockWrite(t, pw) ==
    \/ pc[t] = "idle" /\ pw = pendingWriters + 1
    \/ pc[t] \in {"drain", "queue"} /\ pw = pendingWriters

LEMMA WriteFailsKeeps ==
    ASSUME IInv, NEW t \in Thread, NEW pw, InLockWrite(t, pw), WriteFails(t, pw)
    PROVE  IInv'
<1> USE DEF IInv
<1>1. pc' = [pc EXCEPT ![t] = "idle"] /\ TypeOK'
  <2>1. "idle" \in Place /\ "noWriter" \in Event
    BY DEF Place, Event
  <2>2. pw - 1 \in Nat
    <3>1. CASE pc[t] = "idle"
      BY <3>1 DEF InLockWrite, TypeOK
    <3>2. CASE pc[t] \in {"drain", "queue"}
      <4>1. pendingWriters > 0
        BY <3>2, AtSomebody DEF CountersMatchHolders
      <4> QED
        BY <3>2, <4>1 DEF InLockWrite, TypeOK
    <3> QED
      BY <3>1, <3>2 DEF InLockWrite
  <2> QED
    BY <2>1, <2>2, GotoEffect, SignalEffect DEF WriteFails, TypeOK
<1>2. OnlyWaitersSleep'
  BY GotoEffect, SignalEffect DEF WriteFails, Place, Event
<1>3. readers' = Cardinality(At({"reading"})')
  BY <1>1, AtStay, Zenon DEF InLockWrite, WriteFails, CountersMatchHolders
<1>4. pendingWriters' = Cardinality(At({"drain", "queue"})')
  <2>1. CASE pc[t] = "idle"
    <3>1. pendingWriters' = pendingWriters
      BY <2>1 DEF InLockWrite, WriteFails, TypeOK
    <3>2. At({"drain", "queue"})' = At({"drain", "queue"})
      BY <1>1, <2>1, AtStay, Zenon
    <3> QED
      BY <3>1, <3>2 DEF CountersMatchHolders
  <2>2. CASE pc[t] \in {"drain", "queue"}
    <3>1. pendingWriters' = pendingWriters - 1
      BY <2>2 DEF InLockWrite, WriteFails
    <3>2. pc'[t] \notin {"drain", "queue"} /\ \A u \in Thread \ {t} : pc'[u] = pc[u]
      BY <1>1 DEF TypeOK
    <3>3. pendingWriters = Cardinality(At({"drain", "queue"})') + 1
      BY <2>2, <3>2, AtLeave DEF CountersMatchHolders
    <3> QED
      BY <3>1, <3>3, AtFinitePrime DEF CountersMatchHolders
  <2> QED
    BY <2>1, <2>2 DEF InLockWrite
<1>5. CountersMatchHolders'
  BY <1>1, <1>3, <1>4 DEF InLockWrite, WriteFails, CountersMatchHolders, TypeOK
<1>6. NoReaderPastDrain' /\ NestedOnlyByWriter'
  BY <1>1 DEF WriteFails, NoReaderPastDrain, NestedOnlyByWriter, TypeOK
<1> QED
  BY <1>1, <1>2, <1>5, <1>6

LEMMA WriterSleepKeeps ==
    ASSUME IInv, NEW t \in Thread, NEW pw, NEW place \in {"drain", "queue"},
           InLockWrite(t, pw), place = "queue" => readers = 0,
           pendingWriters' = pw, Sleep(t, place),
           UNCHANGED <<readers, currentWriter, nested, failing>>
    PROVE  IInv'
<1> USE DEF IInv
<1>1. /\ pc' = [pc EXCEPT ![t] = place]
      /\ TypeOK' /\ OnlyWaitersSleep'
  BY SleepEffect DEF InLockWrite, TypeOK, Waiting
<1>2. readers' = Cardinality(At({"reading"})')
  BY <1>1, AtStay, Zenon DEF InLockWrite, CountersMatchHolders
<1>3. pendingWriters' = Cardinality(At({"drain", "queue"})')
  <2>1. CASE pc[t] = "idle"
    BY <1>1, <2>1, AtEnter, Zenon DEF InLockWrite, CountersMatchHolders
  <2>2. CASE pc[t] \in {"drain", "queue"}
    BY <1>1, <2>2, AtStay, Zenon DEF InLockWrite, CountersMatchHolders
  <2> QED
    BY <2>1, <2>2 DEF InLockWrite
<1>4. CountersMatchHolders'
  BY <1>1, <1>2, <1>3 DEF InLockWrite, CountersMatchHolders, TypeOK
<1>5. NoReaderPastDrain' /\ NestedOnlyByWriter'
  BY <1>1 DEF NoReaderPastDrain, NestedOnlyByWriter, TypeOK
<1> QED
  BY <1>1, <1>4, <1>5

LEMMA WriterEntersKeeps ==
    ASSUME IInv, NEW t \in Thread, NEW pw, InLockWrite(t, pw), readers = 0,
           currentWriter = None, currentWriter' = t, pendingWriters' = pw - 1,
           Goto(t, "writing"), UNCHANGED <<readers, nested, failing>>
    PROVE  IInv'
<1> USE DEF IInv
<1>1. "writing" \in Place
  BY DEF Place
<1>2. pc' = [pc EXCEPT ![t] = "writing"] /\ OnlyWaitersSleep'
  BY <1>1, GotoEffect
<1>3. readers' = Cardinality(At({"reading"})')
  BY <1>2, AtStay, Zenon DEF InLockWrite, CountersMatchHolders
<1>4. pendingWriters' = Cardinality(At({"drain", "queue"})')
  <2>1. CASE pc[t] = "idle"
    <3>1. pendingWriters' = pendingWriters
      BY <2>1 DEF InLockWrite, TypeOK
    <3>2. At({"drain", "queue"})' = At({"drain", "queue"})
      BY <1>2, <2>1, AtStay, Zenon
    <3> QED
      BY <3>1, <3>2 DEF CountersMatchHolders
  <2>2. CASE pc[t] \in {"drain", "queue"}
    <3>1. pendingWriters' = pendingWriters - 1
      BY <2>2 DEF InLockWrite
    <3>2. pc'[t] \notin {"drain", "queue"} /\ \A u \in Thread \ {t} : pc'[u] = pc[u]
      BY <1>2 DEF TypeOK
    <3>3. pendingWriters = Cardinality(At({"drain", "queue"})') + 1
      BY <2>2, <3>2, AtLeave DEF CountersMatchHolders
    <3> QED
      BY <3>1, <3>3, AtFinitePrime DEF CountersMatchHolders
  <2> QED
    BY <2>1, <2>2 DEF InLockWrite
<1>5. TypeOK'
  <2>1. pendingWriters' \in Nat
    BY <1>4, AtFinitePrime
  <2> QED
    BY <1>1, <2>1, GotoEffect DEF TypeOK
<1>6. CountersMatchHolders'
  BY <1>2, <1>3, <1>4, RWLockAssumption DEF CountersMatchHolders, TypeOK
<1>7. NoReaderPastDrain' /\ NestedOnlyByWriter'
  BY RWLockAssumption DEF NoReaderPastDrain, NestedOnlyByWriter
<1> QED
  BY <1>2, <1>5, <1>6, <1>7

LEMMA EnterQueueKeeps ==
    ASSUME IInv, NEW t \in Thread, NEW pw, InLockWrite(t, pw), readers = 0, EnterQueue(t, pw)
    PROVE  IInv'
BY WriterEntersKeeps, WriterSleepKeeps, WriteFailsKeeps DEF EnterQueue

LEMMA EnterDrainKeeps ==
    ASSUME IInv, NEW t \in Thread, NEW pw, InLockWrite(t, pw), EnterDrain(t, pw)
    PROVE  IInv'
BY EnterQueueKeeps, WriterSleepKeeps, WriteFailsKeeps DEF EnterDrain

LEMMA LeaveReadKeeps ==
    ASSUME IInv, NEW t \in Thread, pc[t] = "reading", LeaveRead(t)
    PROVE  IInv'
<1> USE DEF IInv
<1>1. pc' = [pc EXCEPT ![t] = "idle"] /\ OnlyWaitersSleep'
  BY GotoEffect, SignalEffect DEF LeaveRead, Place, Event
<1>2. /\ readers = Cardinality(At({"reading"})') + 1
      /\ Cardinality(At({"reading"})') \in Nat
  <2>1. pc'[t] \notin {"reading"} /\ \A u \in Thread \ {t} : pc'[u] = pc[u]
    BY <1>1 DEF TypeOK
  <2> QED
    BY <2>1, AtLeave, AtFinitePrime DEF CountersMatchHolders
<1>3. At({"drain", "queue"})' = At({"drain", "queue"})
  BY <1>1, AtStay, Zenon
<1>4. TypeOK'
  BY <1>2, GotoEffect, SignalEffect DEF LeaveRead, TypeOK, Place, Event
<1>5. CountersMatchHolders'
  BY <1>1, <1>2, <1>3 DEF LeaveRead, CountersMatchHolders, TypeOK
<1>6. NoReaderPastDrain' /\ NestedOnlyByWriter'
  BY <1>1, <1>2 DEF LeaveRead, NoReaderPastDrain, NestedOnlyByWriter, TypeOK
<1> QED
  BY <1>1, <1>4, <1>5, <1>6

LEMMA LeaveWriteKeeps ==
    ASSUME IInv, NEW t \in Thread, pc[t] = "writing", nested = 0, LeaveWrite(t)
    PROVE  IInv'
<1> USE DEF IInv
<1>1. pc' = [pc EXCEPT ![t] = "idle"] /\ OnlyWaitersSleep'
  BY SignalEffect DEF LeaveWrite, Place, Event
<1>2. /\ At({"reading"})' = At({"reading"})
      /\ At({"drain", "queue"})' = At({"drain", "queue"})
  BY <1>1, AtStay, Zenon
<1>3. TypeOK'
  BY SignalEffect DEF LeaveWrite, TypeOK, Place, Event
<1>4. CountersMatchHolders'
  BY <1>1, <1>2, RWLockAssumption DEF LeaveWrite, CountersMatchHolders, TypeOK
<1>5. NoReaderPastDrain' /\ NestedOnlyByWriter'
  BY <1>1 DEF LeaveWrite, NoReaderPastDrain, NestedOnlyByWriter, TypeOK
<1> QED
  BY <1>1, <1>3, <1>4, <1>5

LEMMA NestingKeeps ==
    ASSUME IInv, currentWriter # None, UNCHANGED <<readers, pendingWriters, currentWriter,
           signaled, pc, wake, failing>>, nested' \in 0..MaxNested
    PROVE  IInv'
BY DEF IInv, TypeOK, CountersMatchHolders, NoReaderPastDrain, NestedOnlyByWriter,
       OnlyWaitersSleep, At

LEMMA SleepingKeeps ==
    ASSUME IInv, UNCHANGED <<lockVars, signaled, pc>>, failing' \subseteq Thread,
           wake' \in [Thread -> {"no", "asleep", "woken", "expired"}],
           \A t \in Thread : wake[t] = "no" => wake'[t] = "no"
    PROVE  IInv'
BY DEF IInv, TypeOK, CountersMatchHolders, NoReaderPastDrain, NestedOnlyByWriter,
       OnlyWaitersSleep, At, lockVars

LEMMA RecheckKeeps ==
    ASSUME IInv, NEW t \in Thread, Recheck(t)
    PROVE  IInv'
<1>1. CASE pc[t] = "reader" /\ EnterRead(t)
  BY <1>1, EnterReadKeeps
<1>2. CASE pc[t] = "drain" /\ EnterDrain(t, pendingWriters)
  BY <1>2, EnterDrainKeeps DEF InLockWrite
<1>3. CASE pc[t] = "queue" /\ EnterQueue(t, pendingWriters)
  BY <1>3, EnterQueueKeeps DEF InLockWrite, IInv, NoReaderPastDrain
<1> QED
  BY <1>1, <1>2, <1>3 DEF Recheck

LEMMA ReadFailsKeeps ==
    ASSUME IInv, NEW t \in Thread, pc[t] = "reader", ReadFails(t)
    PROVE  IInv'
<1> USE DEF IInv
<1>1. /\ pc' = [pc EXCEPT ![t] = "idle"]
      /\ TypeOK' /\ OnlyWaitersSleep'
  BY GotoEffect DEF ReadFails, TypeOK, Place, lockVars
<1>2. /\ At({"reading"})' = At({"reading"})
      /\ At({"drain", "queue"})' = At({"drain", "queue"})
  BY <1>1, AtStay, Zenon
<1> QED
  BY <1>1, <1>2
  DEF ReadFails, CountersMatchHolders, NoReaderPastDrain, NestedOnlyByWriter, TypeOK, lockVars

LEMMA TimedOutKeeps ==
    ASSUME IInv, NEW t \in Thread, TimedOut(t)
    PROVE  IInv'
<1>1. CASE t \in failing
  <2>1. CASE pc[t] = "reader"
    BY <1>1, <2>1, ReadFailsKeeps DEF TimedOut
  <2>2. CASE pc[t] # "reader"
    <3>1. pc[t] \in {"drain", "queue"}
      BY <2>2 DEF TimedOut, IInv, OnlyWaitersSleep, Waiting
    <3> QED
      BY <1>1, <2>2, <3>1, WriteFailsKeeps DEF TimedOut, InLockWrite
  <2> QED
    BY <2>1, <2>2
<1>2. CASE t \notin failing /\ signaled[EventOf(pc[t])]
  BY <1>2, RecheckKeeps DEF TimedOut
<1>3. CASE t \notin failing /\ ~signaled[EventOf(pc[t])]
  BY <1>3, SleepingKeeps DEF TimedOut, IInv, TypeOK
<1> QED
  BY <1>1, <1>2, <1>3

LEMMA UnnestKeeps ==
    ASSUME IInv, nested # 0, Unnest
    PROVE  IInv'
<1>1. currentWriter # None /\ nested - 1 \in 0..MaxNested
  BY RWLockAssumption DEF IInv, TypeOK, NestedOnlyByWriter
<1> QED
  BY <1>1, NestingKeeps DEF Unnest

\* A reader finds _nested = 0 and _readers > 0; the writer finds _readers = 0.
LEMMA HolderView ==
    ASSUME IInv, NEW t \in Thread
    PROVE  /\ pc[t] = "reading" => nested = 0 /\ readers > 0
           /\ pc[t] = "writing" => readers = 0 /\ currentWriter = t
<1>1. ASSUME pc[t] = "reading" PROVE nested = 0 /\ readers > 0
  <2>1. readers > 0
    BY <1>1, AtSomebody DEF IInv, CountersMatchHolders
  <2>2. currentWriter = None
    BY <2>1 DEF IInv, TypeOK, NoReaderPastDrain, CountersMatchHolders
  <2> QED
    BY <2>1, <2>2, RWLockAssumption DEF IInv, TypeOK, NestedOnlyByWriter
<1> QED
  BY <1>1 DEF IInv, NoReaderPastDrain, CountersMatchHolders

LEMMA ReleaseKeeps ==
    ASSUME IInv, NEW t \in Thread, unLockRead(t) \/ unLockWrite(t) \/ unLock(t)
    PROVE  IInv'
<1>1. CASE nested # 0
  BY <1>1, UnnestKeeps DEF unLockRead, unLockWrite, unLock
<1>2. CASE nested = 0
  BY <1>2, HolderView, LeaveReadKeeps, LeaveWriteKeeps DEF unLockRead, unLockWrite, unLock
<1> QED
  BY <1>1, <1>2

LEMMA LockKeeps ==
    ASSUME IInv, NEW t \in Thread, lockRead(t) \/ lockWrite(t)
    PROVE  IInv'
<1>1. CASE Nest(t)
  <2>1. currentWriter # None /\ nested + 1 \in 0..MaxNested
    BY <1>1, RWLockAssumption DEF Nest, IInv, TypeOK
  <2> QED
    BY <1>1, <2>1, NestingKeeps DEF Nest
<1>2. CASE pc[t] = "idle" /\ EnterRead(t)
  BY <1>2, EnterReadKeeps
<1>3. CASE pc[t] = "idle" /\ EnterDrain(t, pendingWriters + 1)
  BY <1>3, EnterDrainKeeps DEF InLockWrite
<1> QED
  BY <1>1, <1>2, <1>3 DEF lockRead, lockWrite

(***************************************************************************)
(* IInv is inductive.                                                      *)
(***************************************************************************)
LEMMA InitIInv == Init => IInv
<1> SUFFICES ASSUME Init PROVE IInv
  OBVIOUS
<1>1. At({"reading"}) = {} /\ At({"drain", "queue"}) = {}
  BY DEF Init, At
<1> QED
  BY <1>1, FS_EmptySet, RWLockAssumption
  DEF Init, IInv, TypeOK, CountersMatchHolders, NoReaderPastDrain, NestedOnlyByWriter,
      OnlyWaitersSleep, Place

LEMMA NextIInv == IInv /\ [Next]_vars => IInv'
<1> SUFFICES ASSUME IInv, [Next]_vars PROVE IInv'
  OBVIOUS
<1>1. CASE UNCHANGED vars
  BY <1>1 DEF vars, lockVars, IInv, TypeOK, CountersMatchHolders, NoReaderPastDrain,
              NestedOnlyByWriter, OnlyWaitersSleep, At
<1>2. ASSUME NEW t \in Thread, lockRead(t) \/ lockWrite(t) PROVE IInv'
  BY <1>2, LockKeeps
<1>3. ASSUME NEW t \in Thread, unLockRead(t) \/ unLockWrite(t) \/ unLock(t) PROVE IInv'
  BY <1>3, ReleaseKeeps
<1>4. ASSUME NEW t \in Thread, TimerExpires(t) \/ SpuriousWakeup(t) PROVE IInv'
  BY <1>4, SleepingKeeps DEF TimerExpires, SpuriousWakeup, IInv, TypeOK
<1>5. ASSUME NEW t \in Thread, Signalled(t) PROVE IInv'
  BY <1>5, RecheckKeeps DEF Signalled
<1>6. ASSUME NEW t \in Thread, TimedOut(t) PROVE IInv'
  BY <1>6, TimedOutKeeps
<1>7. ASSUME NEW t \in Thread, QueryFails(t) PROVE IInv'
  BY <1>7, SleepingKeeps DEF QueryFails, IInv, TypeOK
<1> QED
  BY <1>1, <1>2, <1>3, <1>4, <1>5, <1>6, <1>7 DEF Next

(***************************************************************************)
(* The counters of the lock describe its holders and waiters, whatever the *)
(* order in which threads arrive, are woken, time out and give up.         *)
(***************************************************************************)
THEOREM LockInvariant == Spec => []IInv
BY InitIInv, NextIInv, PTL DEF Spec

\* assert(!_readers) in lockWrite cannot fail.
THEOREM WriterFindsNoReader == Spec => []NoReaderPastDrain
<1>1. IInv => NoReaderPastDrain
  BY DEF IInv
<1> QED
  BY <1>1, LockInvariant, PTL

\* _readers, _pendingWriters and _currentWriter agree with the callers.
THEOREM CountersAreRight == Spec => []CountersMatchHolders
<1>1. IInv => CountersMatchHolders
  BY DEF IInv
<1> QED
  BY <1>1, LockInvariant, PTL

--------------------------------------------------------------------------------
(***************************************************************************)
(* Refinement: every step of the lock is a step of SharedExclusive or      *)
(* leaves shared, exclusive and depth as they are.                         *)
(***************************************************************************)
Unseen == UNCHANGED <<At({"reading"}), At({"writing"}), nested>>

AbstractStep == SE!SNext \/ Unseen

LEMMA UnseenMove ==
    ASSUME IInv, NEW t \in Thread, NEW to, pc' = [pc EXCEPT ![t] = to],
           to \notin {"reading", "writing"}, pc[t] \notin {"reading", "writing"},
           UNCHANGED nested
    PROVE  AbstractStep
BY AtStay, Zenon DEF AbstractStep, Unseen, IInv

LEMMA EnterReadRefines ==
    ASSUME IInv, NEW t \in Thread, pc[t] \in {"idle", "reader"}, EnterRead(t)
    PROVE  AbstractStep
<1>1. CASE /\ pendingWriters = 0 /\ currentWriter = None
           /\ Goto(t, "reading")
           /\ UNCHANGED nested
  <2>1. At({"writing"}) = {}
    BY <1>1, RWLockAssumption DEF IInv, CountersMatchHolders, At
  <2>2. At({"writing"})' = At({"writing"})
    BY <1>1, AtStay, Zenon DEF Goto, IInv
  <2>3. At({"reading"})' = At({"reading"}) \cup {t} /\ t \notin At({"reading"})
    BY <1>1 DEF Goto, IInv, TypeOK, At
  <2>4. SE!Share(t)
    BY <1>1, <2>1, <2>2, <2>3 DEF SE!Share
  <2> QED
    BY <2>4 DEF AbstractStep, SE!SNext
<1>2. CASE Sleep(t, "reader") /\ UNCHANGED <<lockVars, failing>>
  BY <1>2, UnseenMove, Zenon DEF Sleep, lockVars
<1>3. CASE ReadFails(t)
  BY <1>3, UnseenMove, Zenon DEF ReadFails, Goto, lockVars
<1> QED
  BY <1>1, <1>2, <1>3 DEF EnterRead

LEMMA WriteFailsRefines ==
    ASSUME IInv, NEW t \in Thread, NEW pw, InLockWrite(t, pw), WriteFails(t, pw)
    PROVE  AbstractStep
<1>1. pc' = [pc EXCEPT ![t] = "idle"]
  BY DEF WriteFails, Goto, SignalAnd
<1> QED
  BY <1>1, UnseenMove, Zenon DEF WriteFails, InLockWrite

LEMMA EnterQueueRefines ==
    ASSUME IInv, NEW t \in Thread, NEW pw, InLockWrite(t, pw), readers = 0, EnterQueue(t, pw)
    PROVE  AbstractStep
<1>1. CASE currentWriter = None /\ Goto(t, "writing") /\ UNCHANGED nested
  <2>1. At({"writing"}) = {} /\ At({"writing"})' = {t}
    BY <1>1, RWLockAssumption DEF Goto, IInv, TypeOK, CountersMatchHolders, At
  <2>2. At({"reading"})' = At({"reading"})
    BY <1>1, AtStay, Zenon DEF Goto, IInv, InLockWrite
  <2>3. At({"reading"}) = {}
    BY AtNobody, Zenon DEF IInv, CountersMatchHolders, At
  <2>4. SE!Exclude(t)
    BY <1>1, <2>1, <2>2, <2>3 DEF SE!Exclude
  <2> QED
    BY <2>4 DEF AbstractStep, SE!SNext
<1>2. CASE Sleep(t, "queue") /\ UNCHANGED nested
  BY <1>2, UnseenMove, Zenon DEF Sleep, InLockWrite
<1>3. CASE WriteFails(t, pw)
  BY <1>3, WriteFailsRefines
<1> QED
  BY <1>1, <1>2, <1>3 DEF EnterQueue

LEMMA EnterDrainRefines ==
    ASSUME IInv, NEW t \in Thread, NEW pw, InLockWrite(t, pw), EnterDrain(t, pw)
    PROVE  AbstractStep
<1>1. CASE readers = 0 /\ EnterQueue(t, pw)
  BY <1>1, EnterQueueRefines
<1>2. CASE Sleep(t, "drain") /\ UNCHANGED nested
  BY <1>2, UnseenMove, Zenon DEF Sleep, InLockWrite
<1>3. CASE WriteFails(t, pw)
  BY <1>3, WriteFailsRefines
<1> QED
  BY <1>1, <1>2, <1>3 DEF EnterDrain

LEMMA RecheckRefines ==
    ASSUME IInv, NEW t \in Thread, Recheck(t)
    PROVE  AbstractStep
<1>1. CASE pc[t] = "reader" /\ EnterRead(t)
  BY <1>1, EnterReadRefines
<1>2. CASE pc[t] = "drain" /\ EnterDrain(t, pendingWriters)
  BY <1>2, EnterDrainRefines DEF InLockWrite
<1>3. CASE pc[t] = "queue" /\ EnterQueue(t, pendingWriters)
  BY <1>3, EnterQueueRefines DEF InLockWrite, IInv, NoReaderPastDrain
<1> QED
  BY <1>1, <1>2, <1>3 DEF Recheck

LEMMA LeaveReadRefines ==
    ASSUME IInv, NEW t \in Thread, pc[t] = "reading", LeaveRead(t)
    PROVE  AbstractStep
<1>1. pc' = [pc EXCEPT ![t] = "idle"]
  BY DEF LeaveRead, Goto, SignalAnd
<1>2. At({"writing"})' = At({"writing"})
  BY <1>1, AtStay, Zenon DEF IInv
<1>3. At({"reading"})' = At({"reading"}) \ {t} /\ t \in At({"reading"})
  BY <1>1 DEF IInv, TypeOK, At
<1>4. SE!Unshare(t)
  BY <1>2, <1>3 DEF SE!Unshare, LeaveRead
<1> QED
  BY <1>4 DEF AbstractStep, SE!SNext

LEMMA LeaveWriteRefines ==
    ASSUME IInv, NEW t \in Thread, pc[t] = "writing", nested = 0, LeaveWrite(t)
    PROVE  AbstractStep
<1>1. pc' = [pc EXCEPT ![t] = "idle"]
  BY DEF LeaveWrite, SignalAnd
<1>2. At({"reading"})' = At({"reading"})
  BY <1>1, AtStay, Zenon DEF IInv
<1>3. At({"writing"})' = {} /\ t \in At({"writing"})
  BY <1>1 DEF IInv, TypeOK, CountersMatchHolders, At
<1>4. SE!Yield(t)
  BY <1>2, <1>3 DEF SE!Yield, LeaveWrite
<1> QED
  BY <1>4 DEF AbstractStep, SE!SNext

LEMMA UnnestRefines ==
    ASSUME IInv, NEW t \in Thread, pc[t] = "writing", nested # 0, Unnest
    PROVE  AbstractStep
<1>1. SE!Unnest(t)
  BY DEF SE!Unnest, Unnest, IInv, TypeOK, At
<1> QED
  BY <1>1 DEF AbstractStep, SE!SNext

LEMMA NestRefines ==
    ASSUME IInv, NEW t \in Thread, pc[t] = "writing", Nest(t)
    PROVE  AbstractStep
<1>1. SE!Nest(t)
  BY DEF SE!Nest, Nest, At
<1> QED
  BY <1>1 DEF AbstractStep, SE!SNext

LEMMA NextRefines == IInv /\ [Next]_vars => AbstractStep
<1> SUFFICES ASSUME IInv, [Next]_vars PROVE AbstractStep
  OBVIOUS
<1>1. CASE UNCHANGED pc /\ UNCHANGED nested
  BY <1>1 DEF AbstractStep, Unseen, At
<1>2. ASSUME NEW t \in Thread, lockRead(t) \/ lockWrite(t) PROVE AbstractStep
  BY <1>2, NestRefines, EnterReadRefines, EnterDrainRefines DEF lockRead, lockWrite, InLockWrite
<1>3. ASSUME NEW t \in Thread, unLockRead(t) \/ unLockWrite(t) \/ unLock(t) PROVE AbstractStep
  <2>1. CASE nested # 0
    <3>1. pc[t] = "writing" /\ Unnest
      BY <1>3, <2>1, HolderView DEF unLockRead, unLockWrite, unLock
    <3> QED
      BY <2>1, <3>1, UnnestRefines
  <2>2. CASE nested = 0
    BY <1>3, <2>2, HolderView, LeaveReadRefines, LeaveWriteRefines
    DEF unLockRead, unLockWrite, unLock
  <2> QED
    BY <2>1, <2>2
<1>4. ASSUME NEW t \in Thread, Signalled(t) PROVE AbstractStep
  BY <1>4, RecheckRefines DEF Signalled
<1>5. ASSUME NEW t \in Thread, TimedOut(t) PROVE AbstractStep
  <2>1. CASE t \in failing /\ pc[t] = "reader"
    BY <1>5, <2>1, UnseenMove DEF TimedOut, ReadFails, Goto, lockVars
  <2>2. CASE t \in failing /\ pc[t] # "reader"
    <3>1. pc[t] \in {"drain", "queue"}
      BY <1>5, <2>2 DEF TimedOut, IInv, OnlyWaitersSleep, Waiting
    <3> QED
      BY <1>5, <2>2, <3>1, WriteFailsRefines DEF TimedOut, InLockWrite
  <2>3. CASE Recheck(t)
    BY <2>3, RecheckRefines
  <2> QED
    BY <1>1, <1>5, <2>1, <2>2, <2>3 DEF TimedOut, lockVars
<1> QED
  BY <1>1, <1>2, <1>3, <1>4, <1>5
  DEF Next, TimerExpires, SpuriousWakeup, QueryFails, vars, lockVars

(***************************************************************************)
(* RWLock.h implements a plain shared/exclusive lock: any set of readers   *)
(* or one writer, who may nest.                                            *)
(***************************************************************************)
THEOREM LockImplementsSharedExclusive == Spec => ImplementsSharedExclusive
<1>1. Init => SE!SInit
  BY DEF Init, SE!SInit, At
<1>2. IInv /\ [Next]_vars => [SE!SNext]_(SE!svars)
  BY NextRefines DEF AbstractStep, Unseen, SE!svars
<1> QED
  BY <1>1, <1>2, LockInvariant, PTL DEF Spec, SE!SSpec, ImplementsSharedExclusive
================================================================================
