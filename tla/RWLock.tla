------------------------------- MODULE RWLock ----------------------------------
(***************************************************************************)
(* The reader-writer lock of include/util/RWLock.h over the condition      *)
(* variable of src/util/Event.cpp.                                         *)
(*                                                                         *)
(* The lock's mutex is held from the entry of an operation to its return   *)
(* or to the next pthread_cond_(timed)wait, so what lies between is one    *)
(* step.  A sleeping thread is woken by a broadcast, spuriously, or by its *)
(* timer; it runs on once it has the mutex again.                          *)
(***************************************************************************)
EXTENDS Naturals, FiniteSets

CONSTANTS
    Thread,         \* the threads that use the lock
    None,           \* _currentWriter == 0
    MaxNested,      \* bound on nested acquisitions
    Timed           \* the threads that pass an ErrorChecker

ASSUME RWLockAssumption ==
    /\ None \notin Thread
    /\ IsFiniteSet(Thread)
    /\ MaxNested \in Nat
    /\ Timed \subseteq Thread

VARIABLES
    readers,        \* _readers
    pendingWriters, \* _pendingWriters
    currentWriter,  \* _currentWriter
    nested,         \* _nested
    signaled,       \* Event::_signaled of _noReaders and of _noWriter
    pc,             \* where each thread is
    wake,           \* the state of a waiting thread in pthread_cond_(timed)wait
    failing         \* the threads whose ErrorChecker returns false

lockVars == <<readers, pendingWriters, currentWriter, nested>>
vars == <<lockVars, signaled, pc, wake, failing>>

Event == {"noReaders", "noWriter"}

\* "reader" waits in lockRead, "drain" and "queue" in the two loops of lockWrite
Waiting == {"reader", "drain", "queue"}

Place == Waiting \cup {"idle", "reading", "writing"}

EventOf(place) == IF place = "drain" THEN "noReaders" ELSE "noWriter"

TypeOK ==
    /\ readers \in Nat
    /\ pendingWriters \in Nat
    /\ currentWriter \in Thread \cup {None}
    /\ nested \in 0..MaxNested
    /\ signaled \in [Event -> BOOLEAN]
    /\ pc \in [Thread -> Place]
    /\ wake \in [Thread -> {"no", "asleep", "woken", "expired"}]
    /\ failing \subseteq Thread

Init ==
    /\ readers = 0
    /\ pendingWriters = 0
    /\ currentWriter = None
    /\ nested = 0
    /\ signaled = [e \in Event |-> FALSE]
    /\ pc = [t \in Thread |-> "idle"]
    /\ wake = [t \in Thread |-> "no"]
    /\ failing = {}

--------------------------------------------------------------------------------
(* Event *)

\* Event::wait up to the point where the thread sleeps
Sleep(t, place) ==
    /\ ~(t \in Timed /\ t \in failing)
    /\ pc' = [pc EXCEPT ![t] = place]
    /\ wake' = [wake EXCEPT ![t] = "asleep"]
    /\ signaled' = IF t \in Timed THEN [signaled EXCEPT ![EventOf(place)] = FALSE]
                                     ELSE signaled

Asleep(e) == {t \in Thread : wake[t] = "asleep" /\ EventOf(pc[t]) = e}

\* Event::signal, with thread t going on to place in the same step
SignalAnd(e, t, place) ==
    /\ signaled' = [signaled EXCEPT ![e] = TRUE]
    /\ wake' = [u \in Thread |-> IF u = t THEN "no"
                                 ELSE IF u \in Asleep(e) THEN "woken" ELSE wake[u]]
    /\ pc' = [pc EXCEPT ![t] = place]

\* no Event is involved
Goto(t, place) ==
    /\ pc' = [pc EXCEPT ![t] = place]
    /\ wake' = [wake EXCEPT ![t] = "no"]
    /\ UNCHANGED signaled

--------------------------------------------------------------------------------
(* Faulty variants of the definitions below: each property is known to    *)
(* fail when one of them takes the place of the definition it distorts.   *)

\* EnterRead that tests _currentWriter only
EnterReadIgnoringPending(t) ==
    /\ currentWriter = None
    /\ readers' = readers + 1
    /\ Goto(t, "reading")
    /\ UNCHANGED <<pendingWriters, currentWriter, nested, failing>>

\* EnterQueue without ~PendingWriter on success
EnterQueueStillPending(t, pw) ==
    /\ currentWriter = None
    /\ currentWriter' = t
    /\ pendingWriters' = pw
    /\ Goto(t, "writing")
    /\ UNCHANGED <<readers, nested, failing>>

\* LeaveRead and LeaveWrite without the signal
LeaveReadSilently(t) ==
    /\ readers' = readers - 1
    /\ Goto(t, "idle")
    /\ UNCHANGED <<pendingWriters, currentWriter, nested, failing>>

LeaveWriteSilently(t) ==
    /\ currentWriter' = None
    /\ Goto(t, "idle")
    /\ UNCHANGED <<readers, pendingWriters, nested, failing>>

--------------------------------------------------------------------------------
(* lockRead and lockWrite: the loops from the point where the mutex is held *)

Nest(t) ==
    /\ currentWriter = t
    /\ nested < MaxNested
    /\ nested' = nested + 1
    /\ UNCHANGED <<readers, pendingWriters, currentWriter, signaled, pc, wake, failing>>

\* wait() returned false and so does lockRead: the query is over, and the
\* thread goes on with another one
ReadFails(t) ==
    /\ Goto(t, "idle")
    /\ failing' = failing \ {t}
    /\ UNCHANGED lockVars

EnterRead(t) ==
    \/ /\ pendingWriters = 0 /\ currentWriter = None
       /\ readers' = readers + 1
       /\ Goto(t, "reading")
       /\ UNCHANGED <<pendingWriters, currentWriter, nested, failing>>
    \/ /\ pendingWriters > 0 \/ currentWriter # None
       /\ Sleep(t, "reader")
       /\ UNCHANGED <<lockVars, failing>>
    \/ /\ pendingWriters > 0 \/ currentWriter # None
       /\ t \in Timed /\ t \in failing
       /\ ReadFails(t)

\* ~PendingWriter when wait() returned false and lockWrite returns false;
\* pw counts the pending writers, t among them
WriteFails(t, pw) ==
    /\ pendingWriters' = pw - 1
    /\ IF currentWriter = None THEN SignalAnd("noWriter", t, "idle")
                               ELSE Goto(t, "idle")
    /\ failing' = failing \ {t}
    /\ UNCHANGED <<readers, currentWriter, nested>>

\* the loop that waits on _noWriter, then the end of lockWrite
EnterQueue(t, pw) ==
    \/ /\ currentWriter = None
       /\ currentWriter' = t
       /\ pendingWriters' = pw - 1
       /\ Goto(t, "writing")
       /\ UNCHANGED <<readers, nested, failing>>
    \/ /\ currentWriter # None
       /\ pendingWriters' = pw
       /\ Sleep(t, "queue")
       /\ UNCHANGED <<readers, currentWriter, nested, failing>>
    \/ /\ currentWriter # None
       /\ t \in Timed /\ t \in failing
       /\ WriteFails(t, pw)

\* the loop that waits on _noReaders, and what follows it
EnterDrain(t, pw) ==
    \/ /\ readers = 0
       /\ EnterQueue(t, pw)
    \/ /\ readers > 0
       /\ pendingWriters' = pw
       /\ Sleep(t, "drain")
       /\ UNCHANGED <<readers, currentWriter, nested, failing>>
    \/ /\ readers > 0
       /\ t \in Timed /\ t \in failing
       /\ WriteFails(t, pw)

--------------------------------------------------------------------------------
(* The operations *)

lockRead(t) ==
    \/ pc[t] = "writing" /\ Nest(t)
    \/ pc[t] = "idle" /\ EnterRead(t)

lockWrite(t) ==
    \/ pc[t] = "writing" /\ Nest(t)
    \/ pc[t] = "idle" /\ EnterDrain(t, pendingWriters + 1)

Unnest ==
    /\ nested' = nested - 1
    /\ UNCHANGED <<readers, pendingWriters, currentWriter, signaled, pc, wake, failing>>

LeaveRead(t) ==
    /\ readers' = readers - 1
    /\ IF readers = 1 THEN SignalAnd("noReaders", t, "idle") ELSE Goto(t, "idle")
    /\ UNCHANGED <<pendingWriters, currentWriter, nested, failing>>

LeaveWrite(t) ==
    /\ currentWriter' = None
    /\ SignalAnd("noWriter", t, "idle")
    /\ UNCHANGED <<readers, pendingWriters, nested, failing>>

\* a reader gives up the lock, or the writer undoes a nested lockRead
unLockRead(t) ==
    /\ pc[t] = "reading" \/ (pc[t] = "writing" /\ nested # 0)
    /\ IF nested # 0 THEN Unnest ELSE LeaveRead(t)

unLockWrite(t) ==
    /\ pc[t] = "writing"
    /\ IF nested # 0 THEN Unnest ELSE LeaveWrite(t)

\* unLock works out from the counters what is held
unLock(t) ==
    /\ pc[t] \in {"reading", "writing"}
    /\ IF nested # 0 THEN Unnest
       ELSE IF readers > 0 THEN LeaveRead(t) ELSE LeaveWrite(t)

--------------------------------------------------------------------------------
(* Steps of a waiting thread *)

TimerExpires(t) ==
    /\ t \in Timed
    /\ wake[t] = "asleep"
    /\ wake' = [wake EXCEPT ![t] = "expired"]
    /\ UNCHANGED <<lockVars, signaled, pc, failing>>

SpuriousWakeup(t) ==
    /\ wake[t] = "asleep"
    /\ wake' = [wake EXCEPT ![t] = "woken"]
    /\ UNCHANGED <<lockVars, signaled, pc, failing>>

\* wait() returns true: the loop tests its condition again
Recheck(t) ==
    \/ pc[t] = "reader" /\ EnterRead(t)
    \/ pc[t] = "drain" /\ EnterDrain(t, pendingWriters)
    \/ pc[t] = "queue" /\ EnterQueue(t, pendingWriters)

\* pthread_cond_(timed)wait returns 0
Signalled(t) ==
    /\ wake[t] = "woken"
    /\ Recheck(t)

\* pthread_cond_timedwait returns ETIMEDOUT
TimedOut(t) ==
    /\ wake[t] = "expired"
    /\ \/ /\ t \in failing
          /\ IF pc[t] = "reader" THEN ReadFails(t) ELSE WriteFails(t, pendingWriters)
       \/ /\ t \notin failing
          /\ signaled[EventOf(pc[t])]
          /\ Recheck(t)
       \/ /\ t \notin failing
          /\ ~signaled[EventOf(pc[t])]
          /\ wake' = [wake EXCEPT ![t] = "asleep"]
          /\ UNCHANGED <<lockVars, signaled, pc, failing>>

\* the query of a caller fails: from now on its ErrorChecker returns false
QueryFails(t) ==
    /\ t \in Timed
    /\ t \notin failing
    /\ failing' = failing \cup {t}
    /\ UNCHANGED <<lockVars, signaled, pc, wake>>

Resume(t) == Signalled(t) \/ TimedOut(t)

Release(t) == unLockRead(t) \/ unLockWrite(t) \/ unLock(t)

Next ==
    \E t \in Thread :
        \/ lockRead(t) \/ lockWrite(t)
        \/ unLockRead(t) \/ unLockWrite(t) \/ unLock(t)
        \/ TimerExpires(t) \/ SpuriousWakeup(t)
        \/ Signalled(t) \/ TimedOut(t)
        \/ QueryFails(t)

Spec == Init /\ [][Next]_vars

(***************************************************************************)
(* A thread that can run is scheduled eventually, timers expire, and a     *)
(* holder gives the lock up; nobody is obliged to ask for it.              *)
(***************************************************************************)
Fairness ==
    \A t \in Thread :
        /\ WF_vars(Resume(t))
        /\ WF_vars(TimerExpires(t))
        /\ WF_vars(Release(t))

FairSpec == Spec /\ Fairness

--------------------------------------------------------------------------------
(* Properties *)

At(places) == {t \in Thread : pc[t] \in places}

\* The counters of RWLock.h describe what the callers hold: _readers counts the
\* readers, _pendingWriters the threads inside lockWrite, and _currentWriter is
\* the one thread that writes.  A path that forgets a decrement breaks it.
CountersMatchHolders ==
    /\ readers = Cardinality(At({"reading"}))
    /\ pendingWriters = Cardinality(At({"drain", "queue"}))
    /\ \A t \in Thread : pc[t] = "writing" <=> currentWriter = t

\* assert(!_readers) at the end of lockWrite: a writer that has left the first
\* loop does not look at _readers again, so no reader may slip in while it
\* queues for _currentWriter, and none is there beside a writer.
NoReaderPastDrain ==
    (\E t \in Thread : pc[t] \in {"queue", "writing"}) => readers = 0

\* A nested acquisition belongs to the writer: unLockRead and unLock test
\* _nested before anything else, whichever thread calls them.
NestedOnlyByWriter == nested > 0 => currentWriter # None

\* A thread has a state in pthread_cond_(timed)wait only while it waits in one of
\* the three loops.  With the invariants above this is inductive.
OnlyWaitersSleep == \A t \in Thread : wake[t] # "no" => pc[t] \in Waiting

IInv ==
    /\ TypeOK
    /\ CountersMatchHolders
    /\ NoReaderPastDrain
    /\ NestedOnlyByWriter
    /\ OnlyWaitersSleep

\* The waiting and the signalling never show: RWLock.h implements a plain
\* shared/exclusive lock.
SE == INSTANCE SharedExclusive WITH
        shared <- At({"reading"}),
        exclusive <- At({"writing"}),
        depth <- nested

ImplementsSharedExclusive == SE!SSpec

\* New readers stand back once _pendingWriters is not zero, so a writer that
\* waits for the readers of lockWrite's first loop leaves that loop.
DrainEnds ==
    \A t \in Thread : pc[t] = "drain" ~> pc[t] # "drain"

Held == \E t \in Thread : pc[t] \in {"reading", "writing"}
SomeoneWaits == \E t \in Thread : pc[t] \in Waiting

\* Event.h on signal(): it "will cause the wait()'s of *all* threads to return".
\* So a lock nobody holds does not stay free while threads wait for it.
FreeLockIsTaken == (SomeoneWaits /\ ~Held) ~> (Held \/ ~SomeoneWaits)
================================================================================
