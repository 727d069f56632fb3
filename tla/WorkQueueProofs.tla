--------------------------- MODULE WorkQueueProofs -----------------------------
(***************************************************************************)
(* The accounting of the work queues, and with it the assertions of        *)
(* WorkQueue, for any finite sets of queues and jobs, any bounds and any   *)
(* mix of the operations; and that no wakeup is lost when the clients are  *)
(* orderly.                                                                *)
(***************************************************************************)
EXTENDS MCWorkQueue, FiniteSetTheorems, TLAPS

(* How the sets of jobs change when one job moves *)

B(b) == IF b THEN 1 ELSE 0

LEMMA OneChange ==
    ASSUME NEW S, NEW T, S \subseteq Job, T \subseteq Job, NEW j \in Job,
           \A i \in Job \ {j} : i \in S <=> i \in T
    PROVE  /\ Cardinality(S) \in Nat
           /\ Cardinality(T) \in Nat
           /\ Cardinality(T) = Cardinality(S) + B(j \in T) - B(j \in S)
<1>1. IsFiniteSet(S) /\ IsFiniteSet(T)
  BY WorkQueueAssumption, FS_Subset
<1>2. Cardinality(S) \in Nat /\ Cardinality(T) \in Nat
  BY <1>1, FS_CardinalityType
<1>3. CASE j \in S /\ j \in T
  <2>1. S = T
    BY <1>3
  <2> QED
    BY <2>1, <1>2, <1>3 DEF B
<1>4. CASE j \notin S /\ j \notin T
  <2>1. S = T
    BY <1>4
  <2> QED
    BY <2>1, <1>2, <1>4 DEF B
<1>5. CASE j \in S /\ j \notin T
  <2>1. S = T \cup {j}
    BY <1>5
  <2>2. Cardinality(S) = Cardinality(T) + 1
    BY <2>1, <1>1, <1>5, FS_AddElement
  <2> QED
    BY <2>2, <1>2, <1>5 DEF B
<1>6. CASE j \notin S /\ j \in T
  <2>1. T = S \cup {j}
    BY <1>6
  <2>2. Cardinality(T) = Cardinality(S) + 1
    BY <2>1, <1>1, <1>6, FS_AddElement
  <2> QED
    BY <2>2, <1>2, <1>6 DEF B
<1> QED
  BY <1>3, <1>4, <1>5, <1>6

\* the change of the number of jobs that run, have a reservation, hold q in
\* their context or stall q
Counted(j, p, r, c, o, q) ==
    /\ Cardinality(At(q, "running"))' = Cardinality(At(q, "running"))
          + B(p = "running" /\ r = q) - B(phase[j] = "running" /\ at[j] = q)
    /\ Cardinality(At(q, "reserved"))' = Cardinality(At(q, "reserved"))
          + B(p = "reserved" /\ r = q) - B(phase[j] = "reserved" /\ at[j] = q)
    /\ Cardinality(Holding(q))' = Cardinality(Holding(q)) + B(q \in c) - B(q \in ctx[j])
    /\ Cardinality(Stalling(q))' = Cardinality(Stalling(q)) + B(o = q) - B(origin[j] = q)

LEMMA MoveCounts ==
    ASSUME TypeOK, NEW j \in Job, NEW p, NEW r, NEW c, NEW o, Move(j, p, r, c, o)
    PROVE  \A q \in Queue : Counted(j, p, r, c, o, q)
<1> SUFFICES ASSUME NEW q \in Queue PROVE Counted(j, p, r, c, o, q)
  OBVIOUS
<1>1. /\ phase'[j] = p /\ at'[j] = r /\ ctx'[j] = c /\ origin'[j] = o
      /\ \A i \in Job \ {j} : /\ phase'[i] = phase[i] /\ at'[i] = at[i]
                              /\ ctx'[i] = ctx[i] /\ origin'[i] = origin[i]
  BY DEF Move, TypeOK
<1>2. ASSUME NEW x
      PROVE  Cardinality(At(q, x)') = Cardinality(At(q, x))
                + B(p = x /\ r = q) - B(phase[j] = x /\ at[j] = q)
  <2>1. \A i \in Job \ {j} : i \in At(q, x) <=> i \in At(q, x)'
    BY <1>1 DEF At
  <2>2. (j \in At(q, x)' <=> p = x /\ r = q) /\ (j \in At(q, x) <=> phase[j] = x /\ at[j] = q)
    BY <1>1 DEF At
  <2>3. At(q, x) \subseteq Job /\ At(q, x)' \subseteq Job
    BY DEF At
  <2>4. Cardinality(At(q, x)') = Cardinality(At(q, x)) + B(j \in At(q, x)') - B(j \in At(q, x))
    BY <2>1, <2>3, OneChange
  <2> QED
    BY <2>2, <2>4 DEF B
<1>3. Cardinality(Holding(q)') = Cardinality(Holding(q)) + B(q \in c) - B(q \in ctx[j])
  <2>1. \A i \in Job \ {j} : i \in Holding(q) <=> i \in Holding(q)'
    BY <1>1 DEF Holding
  <2>2. (j \in Holding(q)' <=> q \in c) /\ (j \in Holding(q) <=> q \in ctx[j])
    BY <1>1 DEF Holding
  <2>3. Holding(q) \subseteq Job /\ Holding(q)' \subseteq Job
    BY DEF Holding
  <2>4. Cardinality(Holding(q)') = Cardinality(Holding(q)) + B(j \in Holding(q)') - B(j \in Holding(q))
    BY <2>1, <2>3, OneChange
  <2> QED
    BY <2>2, <2>4 DEF B
<1>4. Cardinality(Stalling(q)') = Cardinality(Stalling(q)) + B(o = q) - B(origin[j] = q)
  <2>1. \A i \in Job \ {j} : i \in Stalling(q) <=> i \in Stalling(q)'
    BY <1>1 DEF Stalling
  <2>2. (j \in Stalling(q)' <=> o = q) /\ (j \in Stalling(q) <=> origin[j] = q)
    BY <1>1 DEF Stalling
  <2>3. Stalling(q) \subseteq Job /\ Stalling(q)' \subseteq Job
    BY DEF Stalling
  <2>4. Cardinality(Stalling(q)') = Cardinality(Stalling(q)) + B(j \in Stalling(q)') - B(j \in Stalling(q))
    BY <2>1, <2>3, OneChange
  <2> QED
    BY <2>2, <2>4 DEF B
<1> QED
  BY <1>2, <1>3, <1>4 DEF Counted

LEMMA CountsAreNat ==
    ASSUME NEW q
    PROVE  /\ \A x : Cardinality(At(q, x)) \in Nat
           /\ Cardinality(Holding(q)) \in Nat
           /\ Cardinality(Stalling(q)) \in Nat
<1>1. /\ \A x : At(q, x) \subseteq Job
      /\ Holding(q) \subseteq Job
      /\ Stalling(q) \subseteq Job
  BY DEF At, Holding, Stalling
<1> QED
  BY <1>1, WorkQueueAssumption, FS_Subset, FS_CardinalityType

--------------------------------------------------------------------------------
(* The queues when a job joins or leaves one *)

Distinct(s) == \A k, l \in 1..Len(s) : s[k] = s[l] => k = l
Within(s, S) == \A k \in 1..Len(s) : s[k] \in S

LEMMA AppendIsSeq ==
    ASSUME NEW s \in Seq(Job), NEW j \in Job
    PROVE  Append(s, j) \in Seq(Job)
OBVIOUS

LEMMA AppendDistinct ==
    ASSUME NEW s \in Seq(Job), NEW j \in Job, NEW S, Distinct(s), Within(s, S), j \notin S
    PROVE  /\ Distinct(Append(s, j))
           /\ Within(Append(s, j), S \cup {j})
           /\ Append(s, j) \in Seq(Job)
           /\ Len(Append(s, j)) = Len(s) + 1
<1>1. /\ Len(Append(s, j)) = Len(s) + 1
      /\ \A k \in 1..Len(s) : Append(s, j)[k] = s[k]
      /\ Append(s, j)[Len(s) + 1] = j
  OBVIOUS
<1>2. Within(Append(s, j), S \cup {j})
  BY <1>1 DEF Within
<1>3. Distinct(Append(s, j))
  BY <1>1 DEF Within, Distinct
<1> QED
  BY <1>1, <1>2, <1>3

LEMMA TailDistinct ==
    ASSUME NEW s \in Seq(Job), NEW S, s # << >>, Distinct(s), Within(s, S)
    PROVE  /\ Distinct(Tail(s))
           /\ Within(Tail(s), S \ {Head(s)})
           /\ Tail(s) \in Seq(Job)
           /\ Len(Tail(s)) = Len(s) - 1
           /\ Head(s) \in S /\ Head(s) \in Job
<1>1. /\ Len(s) \in Nat /\ Len(s) > 0
      /\ Len(Tail(s)) = Len(s) - 1
      /\ \A k \in 1..Len(Tail(s)) : Tail(s)[k] = s[k + 1]
      /\ Head(s) = s[1]
      /\ Tail(s) \in Seq(Job)
  OBVIOUS
<1>2. Within(Tail(s), S \ {Head(s)})
  BY <1>1 DEF Within, Distinct
<1>3. Distinct(Tail(s))
  BY <1>1 DEF Distinct
<1> QED
  BY <1>1, <1>2, <1>3 DEF Within

\* JobsInOnePlace in these terms
LEMMA PlacesAgain ==
    JobsInOnePlace <=>
        \A q \in Queue : /\ Within(workQueue[q], At(q, "queued")) /\ Distinct(workQueue[q])
                         /\ Within(overflowQueue[q], At(q, "overflow")) /\ Distinct(overflowQueue[q])
BY DEF JobsInOnePlace, Within, Distinct

LEMMA PlacesAgainPrime ==
    JobsInOnePlace' <=>
        \A q \in Queue : /\ Within(workQueue'[q], At(q, "queued")') /\ Distinct(workQueue'[q])
                         /\ Within(overflowQueue'[q], At(q, "overflow")') /\ Distinct(overflowQueue'[q])
BY DEF JobsInOnePlace, Within, Distinct

LEMMA WithinLarger ==
    ASSUME NEW s, NEW S, NEW T, Within(s, S), S \subseteq T
    PROVE  Within(s, T)
BY DEF Within

\* which jobs are where after j has moved
LEMMA MoveAt ==
    ASSUME TypeOK, NEW j \in Job, NEW p, NEW r, NEW c, NEW o, Move(j, p, r, c, o)
    PROVE  \A q, x : At(q, x)' = IF p = x /\ r = q THEN At(q, x) \cup {j} ELSE At(q, x) \ {j}
BY DEF Move, TypeOK, At

LEMMA PushPlaces ==
    ASSUME TypeOK, JobsInOnePlace, NEW j \in Job, NEW r \in Queue, NEW c, NEW o,
           Move(j, "queued", r, c, o), phase[j] \notin {"queued", "overflow"},
           workQueue' = Push(workQueue, r, j), overflowQueue' = overflowQueue
    PROVE  JobsInOnePlace' /\ workQueue' \in [Queue -> Seq(Job)]
<1>1. \A q, x : At(q, x)' = IF "queued" = x /\ r = q THEN At(q, x) \cup {j} ELSE At(q, x) \ {j}
  BY MoveAt
<1>2. \A q : j \notin At(q, "queued") /\ j \notin At(q, "overflow")
  BY DEF At
<1>3. workQueue' = [workQueue EXCEPT ![r] = Append(workQueue[r], j)]
  BY DEF Push
<1>4. ASSUME NEW q \in Queue
      PROVE  /\ Within(workQueue'[q], At(q, "queued")') /\ Distinct(workQueue'[q])
             /\ Within(overflowQueue'[q], At(q, "overflow")') /\ Distinct(overflowQueue'[q])
  <2>1. Within(overflowQueue'[q], At(q, "overflow")') /\ Distinct(overflowQueue'[q])
    <3>1. At(q, "overflow")' = At(q, "overflow")
      BY <1>1, <1>2
    <3> QED
      BY <3>1, PlacesAgain
  <2>2. CASE q = r
    <3>1. workQueue'[q] = Append(workQueue[q], j) /\ workQueue[q] \in Seq(Job)
      BY <2>2, <1>3 DEF TypeOK
    <3>2. At(q, "queued")' = At(q, "queued") \cup {j}
      BY <1>1, <2>2
    <3> QED
      BY <2>1, <3>1, <3>2, <1>2, PlacesAgain, AppendDistinct
  <2>3. CASE q # r
    <3>1. workQueue'[q] = workQueue[q]
      BY <2>3, <1>3 DEF TypeOK
    <3>2. At(q, "queued")' = At(q, "queued")
      BY <1>1, <1>2, <2>3
    <3> QED
      BY <2>1, <3>1, <3>2, PlacesAgain
  <2> QED
    BY <2>2, <2>3
<1>5. workQueue' \in [Queue -> Seq(Job)]
  BY <1>3 DEF TypeOK
<1> QED
  BY <1>4, <1>5, PlacesAgainPrime

LEMMA OverflowPlaces ==
    ASSUME TypeOK, JobsInOnePlace, NEW j \in Job, NEW r \in Queue, NEW c, NEW o,
           Move(j, "overflow", r, c, o), phase[j] \notin {"queued", "overflow"},
           overflowQueue' = Push(overflowQueue, r, j), workQueue' = workQueue
    PROVE  JobsInOnePlace' /\ overflowQueue' \in [Queue -> Seq(Job)]
<1>1. \A q, x : At(q, x)' = IF "overflow" = x /\ r = q THEN At(q, x) \cup {j} ELSE At(q, x) \ {j}
  BY MoveAt
<1>2. \A q : j \notin At(q, "queued") /\ j \notin At(q, "overflow")
  BY DEF At
<1>3. overflowQueue' = [overflowQueue EXCEPT ![r] = Append(overflowQueue[r], j)]
  BY DEF Push
<1>4. ASSUME NEW q \in Queue
      PROVE  /\ Within(workQueue'[q], At(q, "queued")') /\ Distinct(workQueue'[q])
             /\ Within(overflowQueue'[q], At(q, "overflow")') /\ Distinct(overflowQueue'[q])
  <2>1. Within(workQueue'[q], At(q, "queued")') /\ Distinct(workQueue'[q])
    <3>1. At(q, "queued")' = At(q, "queued")
      BY <1>1, <1>2
    <3> QED
      BY <3>1, PlacesAgain
  <2>2. CASE q = r
    <3>1. overflowQueue'[q] = Append(overflowQueue[q], j) /\ overflowQueue[q] \in Seq(Job)
      BY <2>2, <1>3 DEF TypeOK
    <3>2. At(q, "overflow")' = At(q, "overflow") \cup {j}
      BY <1>1, <2>2
    <3> QED
      BY <2>1, <3>1, <3>2, <1>2, PlacesAgain, AppendDistinct
  <2>3. CASE q # r
    <3>1. overflowQueue'[q] = overflowQueue[q]
      BY <2>3, <1>3 DEF TypeOK
    <3>2. At(q, "overflow")' = At(q, "overflow")
      BY <1>1, <1>2, <2>3
    <3> QED
      BY <2>1, <3>1, <3>2, PlacesAgain
  <2> QED
    BY <2>2, <2>3
<1>5. overflowQueue' \in [Queue -> Seq(Job)]
  BY <1>3 DEF TypeOK
<1> QED
  BY <1>4, <1>5, PlacesAgainPrime

LEMMA KeepPlaces ==
    ASSUME TypeOK, JobsInOnePlace, NEW j \in Job, NEW p, NEW r, NEW c, NEW o,
           Move(j, p, r, c, o),
           phase[j] \notin {"queued", "overflow"}, p \notin {"queued", "overflow"},
           overflowQueue' = overflowQueue, workQueue' = workQueue
    PROVE  JobsInOnePlace'
<1>1. \A q : j \notin At(q, "queued") /\ j \notin At(q, "overflow")
  BY DEF At
<1>2. \A q, x : At(q, x)' = IF p = x /\ r = q THEN At(q, x) \cup {j} ELSE At(q, x) \ {j}
  BY MoveAt
<1>3. \A q : At(q, "queued")' = At(q, "queued") /\ At(q, "overflow")' = At(q, "overflow")
  BY <1>1, <1>2
<1> QED
  BY <1>3, PlacesAgain, PlacesAgainPrime

--------------------------------------------------------------------------------
(* The steps *)

LEMMA IncDecTypes ==
    ASSUME NEW f \in [Queue -> Nat], NEW q \in Queue
    PROVE  /\ Inc(f, q) \in [Queue -> Nat]
           /\ f[q] > 0 => Dec(f, q) \in [Queue -> Nat]
BY DEF Inc, Dec

LEMMA CallTypes ==
    ASSUME TypeOK
    PROVE  /\ \A r \in Queue : /\ Inc(spawns, r) \in [Queue -> Nat]
                               /\ Inc(outstanding, r) \in [Queue -> Nat]
                               /\ Inc(reserved, r) \in [Queue -> Nat]
           /\ \A S : ReleaseAll(S) => releases' \in [Queue -> Nat]
<1>1. /\ spawns \in [Queue -> Nat] /\ releases \in [Queue -> Nat]
      /\ outstanding \in [Queue -> Nat] /\ reserved \in [Queue -> Nat]
  BY Zenon DEF TypeOK
<1>2. ASSUME NEW S, ReleaseAll(S)
      PROVE  releases' \in [Queue -> Nat]
  <2>1. releases \in [Queue -> Nat]
    BY <1>1
  <2> QED
    BY <1>2, <2>1 DEF ReleaseAll
<1> QED
  BY <1>1, <1>2, IncDecTypes, Zenon

LEMMA MoveTypes ==
    ASSUME TypeOK, NEW j \in Job, NEW p \in Phase, NEW r \in Queue \cup {NoQueue},
           NEW c \in SUBSET Queue, NEW o \in Queue \cup {NoQueue}, Move(j, p, r, c, o)
    PROVE  /\ phase' \in [Job -> Phase] /\ at' \in [Job -> Queue \cup {NoQueue}]
           /\ ctx' \in [Job -> SUBSET Queue] /\ origin' \in [Job -> Queue \cup {NoQueue}]
<1>1. phase \in [Job -> Phase] /\ phase' = [phase EXCEPT ![j] = p]
  BY Zenon DEF TypeOK, Move
<1>2. at \in [Job -> Queue \cup {NoQueue}] /\ at' = [at EXCEPT ![j] = r]
  BY Zenon DEF TypeOK, Move
<1>3. ctx \in [Job -> SUBSET Queue] /\ ctx' = [ctx EXCEPT ![j] = c]
  BY Zenon DEF TypeOK, Move
<1>4. origin \in [Job -> Queue \cup {NoQueue}] /\ origin' = [origin EXCEPT ![j] = o]
  BY Zenon DEF TypeOK, Move
<1>5. phase' \in [Job -> Phase]
  BY <1>1, Zenon
<1>6. at' \in [Job -> Queue \cup {NoQueue}]
  BY <1>2, Zenon
<1>7. ctx' \in [Job -> SUBSET Queue]
  BY <1>3, Zenon
<1>8. origin' \in [Job -> Queue \cup {NoQueue}]
  BY <1>4, Zenon
<1> QED
  BY <1>5, <1>6, <1>7, <1>8, Zenon

\* what the assignments of a method do to the fields of one queue
LEMMA IncDecAt ==
    ASSUME NEW f \in [Queue -> Nat], NEW q \in Queue, NEW t \in Queue
    PROVE  /\ t = q => Inc(f, q)[t] = f[t] + 1 /\ Dec(f, q)[t] = f[t] + -1
           /\ t # q => Inc(f, q)[t] = f[t] /\ Dec(f, q)[t] = f[t]
BY DEF Inc, Dec

LEMMA PushAt ==
    ASSUME NEW f \in [Queue -> Seq(Job)], NEW q \in Queue, NEW t \in Queue, NEW j \in Job
    PROVE  /\ t = q => Len(Push(f, q, j)[t]) = Len(f[t]) + 1
           /\ t # q => Push(f, q, j)[t] = f[t]
<1>1. f[t] \in Seq(Job)
  OBVIOUS
<1>2. t = q => Push(f, q, j)[t] = Append(f[t], j)
  BY Zenon DEF Push
<1>3. Len(Append(f[t], j)) = Len(f[t]) + 1
  BY <1>1
<1>4. t # q => Push(f, q, j)[t] = f[t]
  BY Zenon DEF Push
<1> QED
  BY <1>2, <1>3, <1>4, Zenon

LEMMA FieldsAt ==
    ASSUME TypeOK, NEW q \in Queue, NEW t \in Queue
    PROVE  /\ t = q => /\ Inc(outstanding, q)[t] = outstanding[t] + 1
                       /\ Dec(outstanding, q)[t] = outstanding[t] + -1
                       /\ Inc(reserved, q)[t] = reserved[t] + 1
                       /\ Dec(reserved, q)[t] = reserved[t] + -1
                       /\ Dec(releases, q)[t] = releases[t] + -1
                       /\ \A j \in Job : Len(Push(workQueue, q, j)[t]) = Len(workQueue[t]) + 1
           /\ t # q => /\ Inc(outstanding, q)[t] = outstanding[t]
                       /\ Dec(outstanding, q)[t] = outstanding[t]
                       /\ Inc(reserved, q)[t] = reserved[t]
                       /\ Dec(reserved, q)[t] = reserved[t]
                       /\ Dec(releases, q)[t] = releases[t]
                       /\ \A j \in Job : Push(workQueue, q, j)[t] = workQueue[t]
           /\ \A S : ReleaseAll(S) => /\ t \in S => releases'[t] = releases[t] + 1
                                      /\ t \notin S => releases'[t] = releases[t]
<1>1. /\ releases \in [Queue -> Nat] /\ outstanding \in [Queue -> Nat]
      /\ reserved \in [Queue -> Nat] /\ workQueue \in [Queue -> Seq(Job)]
  BY Zenon DEF TypeOK
<1>2. \A S : ReleaseAll(S) => /\ t \in S => releases'[t] = releases[t] + 1
                              /\ t \notin S => releases'[t] = releases[t]
  BY Zenon DEF ReleaseAll
<1>3. \A j \in Job : /\ t = q => Len(Push(workQueue, q, j)[t]) = Len(workQueue[t]) + 1
                     /\ t # q => Push(workQueue, q, j)[t] = workQueue[t]
  BY <1>1, PushAt, Zenon
<1>4. /\ t = q => /\ Inc(outstanding, q)[t] = outstanding[t] + 1
                  /\ Dec(outstanding, q)[t] = outstanding[t] + -1
      /\ t # q => /\ Inc(outstanding, q)[t] = outstanding[t]
                  /\ Dec(outstanding, q)[t] = outstanding[t]
  BY <1>1, IncDecAt, Zenon
<1>5. /\ t = q => /\ Inc(reserved, q)[t] = reserved[t] + 1
                  /\ Dec(reserved, q)[t] = reserved[t] + -1
      /\ t # q => /\ Inc(reserved, q)[t] = reserved[t]
                  /\ Dec(reserved, q)[t] = reserved[t]
  BY <1>1, IncDecAt, Zenon
<1>6. /\ t = q => Dec(releases, q)[t] = releases[t] + -1
      /\ t # q => Dec(releases, q)[t] = releases[t]
  BY <1>1, IncDecAt, Zenon
<1> QED
  BY <1>2, <1>3, <1>4, <1>5, <1>6, Zenon

LEMMA InitIInv == Init => IInv
<1> SUFFICES ASSUME Init PROVE IInv
  OBVIOUS
<1> USE DEF Init
<1>1. TypeOK
  BY WorkQueueAssumption DEF TypeOK, Phase
<1>2. JobsInOnePlace
  BY DEF JobsInOnePlace
<1>3. \A q \in Queue : At(q, "running") = {} /\ At(q, "reserved") = {}
                        /\ Holding(q) = {} /\ Stalling(q) = {}
  BY WorkQueueAssumption DEF At, Holding, Stalling
<1>4. \A q \in Queue : /\ Cardinality(At(q, "running")) = 0
                       /\ Cardinality(At(q, "reserved")) = 0
                       /\ Cardinality(Holding(q)) = 0
                       /\ Cardinality(Stalling(q)) = 0
  BY <1>3, FS_EmptySet, Zenon
<1>7. OutstandingIsOwned /\ ReservationsAreOwned
  BY <1>4 DEF OutstandingIsOwned, ReservationsAreOwned
<1>8. PlacesAreKept
  BY <1>4, WorkQueueAssumption DEF PlacesAreKept
<1>5. JobsHoldUpstream
  BY DEF JobsHoldUpstream
<1>6. \A q \in Queue : outstanding[q] <= maxOutstanding[q]
  BY WorkQueueAssumption
<1> QED
  BY <1>1, <1>2, <1>5, <1>6, <1>7, <1>8 DEF IInv

\* the terms of the accounts of a queue are natural numbers
Numbers(q) ==
    /\ outstanding[q] \in Nat /\ reserved[q] \in Nat /\ Len(workQueue[q]) \in Nat
    /\ spawns[q] \in Nat /\ releases[q] \in Nat
    /\ maxSize[q] \in Nat /\ maxOutstanding[q] \in Nat
    /\ Cardinality(At(q, "running")) \in Nat
    /\ Cardinality(At(q, "reserved")) \in Nat
    /\ Cardinality(Holding(q)) \in Nat
    /\ Cardinality(Stalling(q)) \in Nat

LEMMA NumbersAreNat ==
    ASSUME TypeOK, NEW q \in Queue
    PROVE  Numbers(q)
<1>1. /\ Cardinality(At(q, "running")) \in Nat
      /\ Cardinality(At(q, "reserved")) \in Nat
      /\ Cardinality(Holding(q)) \in Nat
      /\ Cardinality(Stalling(q)) \in Nat
  BY CountsAreNat
<1>2. workQueue[q] \in Seq(Job)
  BY DEF TypeOK
<1> QED
  BY <1>1, <1>2, WorkQueueAssumption DEF TypeOK, Numbers

\* what IInv says of these numbers, for one queue
Accounts(q) ==
    /\ outstanding[q] = Cardinality(At(q, "running")) + releases[q]
                        + Cardinality(Holding(q)) + Cardinality(Stalling(q))
    /\ reserved[q] = Cardinality(At(q, "reserved"))
    /\ reserved[q] + Len(workQueue[q]) + Cardinality(At(q, "running")) <= maxSize[q]
    /\ outstanding[q] <= maxOutstanding[q]

LEMMA AccountsAgain ==
    IInv <=> /\ TypeOK /\ JobsInOnePlace /\ JobsHoldUpstream
             /\ \A q \in Queue : Accounts(q)
BY DEF IInv, OutstandingIsOwned, ReservationsAreOwned, PlacesAreKept, Accounts

LEMMA AccountsAgainPrime ==
    IInv' <=> /\ TypeOK' /\ JobsInOnePlace' /\ JobsHoldUpstream'
              /\ \A q \in Queue : Accounts(q)'
BY DEF IInv, OutstandingIsOwned, ReservationsAreOwned, PlacesAreKept, Accounts

\* how a step changes these numbers
Counts(q, dRunning, dReserved, dHolding, dStalling) ==
    /\ Cardinality(At(q, "running"))' = Cardinality(At(q, "running")) + dRunning
    /\ Cardinality(At(q, "reserved"))' = Cardinality(At(q, "reserved")) + dReserved
    /\ Cardinality(Holding(q))' = Cardinality(Holding(q)) + dHolding
    /\ Cardinality(Stalling(q))' = Cardinality(Stalling(q)) + dStalling

Grows(after, before, d) ==
    \/ after = before + d
    \/ d = 0 /\ after = before

Change(q, dOutstanding, dReserved, dLen, dReleases, dRunning, dHolding, dStalling) ==
    /\ Grows(outstanding'[q], outstanding[q], dOutstanding)
    /\ Grows(reserved'[q], reserved[q], dReserved)
    /\ Grows(Len(workQueue'[q]), Len(workQueue[q]), dLen)
    /\ Grows(releases'[q], releases[q], dReleases)
    /\ Counts(q, dRunning, dReserved, dHolding, dStalling)

\* what the move of j adds to each count of q
Diff(after, before, d) ==
    \/ after /\ ~before /\ d = 1
    \/ ~after /\ before /\ d = -1
    \/ (after <=> before) /\ d = 0

Deltas(j, p, r, c, o, q, dRunning, dReserved, dHolding, dStalling) ==
    /\ Diff(p = "running" /\ r = q, phase[j] = "running" /\ at[j] = q, dRunning)
    /\ Diff(p = "reserved" /\ r = q, phase[j] = "reserved" /\ at[j] = q, dReserved)
    /\ Diff(q \in c, q \in ctx[j], dHolding)
    /\ Diff(o = q, origin[j] = q, dStalling)

LEMMA Added ==
    ASSUME NEW n \in Nat, NEW m, NEW a, NEW b, NEW d, m = n + B(a) - B(b), Diff(a, b, d)
    PROVE  m = n + d
<1>1. CASE a /\ ~b /\ d = 1
  BY <1>1 DEF B
<1>2. CASE ~a /\ b /\ d = -1
  BY <1>2 DEF B
<1>3. CASE (a <=> b) /\ d = 0
  BY <1>3 DEF B
<1> QED
  BY <1>1, <1>2, <1>3 DEF Diff

LEMMA CountsChange ==
    ASSUME NEW j, NEW p, NEW r, NEW c, NEW o, NEW q,
           NEW dN, NEW dR, NEW dH, NEW dT,
           Numbers(q), Counted(j, p, r, c, o, q), Deltas(j, p, r, c, o, q, dN, dR, dH, dT)
    PROVE  Counts(q, dN, dR, dH, dT)
<1>1. Cardinality(At(q, "running"))' = Cardinality(At(q, "running")) + dN
  BY Added DEF Numbers, Counted, Deltas
<1>2. Cardinality(At(q, "reserved"))' = Cardinality(At(q, "reserved")) + dR
  BY Added DEF Numbers, Counted, Deltas
<1>3. Cardinality(Holding(q))' = Cardinality(Holding(q)) + dH
  BY Added DEF Numbers, Counted, Deltas
<1>4. Cardinality(Stalling(q))' = Cardinality(Stalling(q)) + dT
  BY Added DEF Numbers, Counted, Deltas
<1> QED
  BY <1>1, <1>2, <1>3, <1>4 DEF Counts

LEMMA SameFields ==
    ASSUME NEW q, NEW dN, NEW dH, NEW dT, Counts(q, dN, 0, dH, dT),
           outstanding'[q] = outstanding[q], reserved'[q] = reserved[q],
           workQueue'[q] = workQueue[q]
    PROVE  /\ releases'[q] = releases[q] => Change(q, 0, 0, 0, 0, dN, dH, dT)
           /\ releases'[q] = releases[q] + 1 => Change(q, 0, 0, 0, 1, dN, dH, dT)
BY Zenon DEF Change, Grows

LEMMA GrowsBy ==
    ASSUME NEW before \in Nat, NEW after, NEW d \in Int, Grows(after, before, d)
    PROVE  after = before + d
BY DEF Grows

\* that they stay within the bounds
KeepsBounds(q, dO, dR, dL, dN) ==
    /\ (reserved[q] + dR) + (Len(workQueue[q]) + dL)
          + (Cardinality(At(q, "running")) + dN) <= maxSize[q]
    /\ outstanding[q] + dO <= maxOutstanding[q]

\* A step that changes both sides alike and keeps the bounds keeps the accounts.
LEMMA AccountsBalance ==
    ASSUME NEW q \in Queue, Numbers(q), Accounts(q),
           NEW dO \in Int, NEW dR \in Int, NEW dL \in Int, NEW dE \in Int,
           NEW dN \in Int, NEW dH \in Int, NEW dT \in Int,
           Change(q, dO, dR, dL, dE, dN, dH, dT),
           dO = dN + dE + dH + dT,
           KeepsBounds(q, dO, dR, dL, dN)
    PROVE  Accounts(q)'
<1>1. outstanding[q] + dO = (Cardinality(At(q, "running")) + dN) + (releases[q] + dE)
              + (Cardinality(Holding(q)) + dH) + (Cardinality(Stalling(q)) + dT)
  <2> DEFINE n == Cardinality(At(q, "running"))
             h == Cardinality(Holding(q))
             t == Cardinality(Stalling(q))
  <2>1. outstanding[q] \in Nat /\ releases[q] \in Nat /\ n \in Nat /\ h \in Nat /\ t \in Nat
    BY DEF Numbers
  <2>2. outstanding[q] = n + releases[q] + h + t
    BY DEF Accounts
  <2> HIDE DEF n, h, t
  <2>3. outstanding[q] + dO = (n + dN) + (releases[q] + dE) + (h + dH) + (t + dT)
    BY <2>1, <2>2
  <2> QED
    BY <2>3 DEF n, h, t
<1>2. /\ outstanding'[q] = outstanding[q] + dO /\ reserved'[q] = reserved[q] + dR
      /\ Len(workQueue'[q]) = Len(workQueue[q]) + dL /\ releases'[q] = releases[q] + dE
  BY GrowsBy, Zenon DEF Change, Numbers
<1>3. /\ Cardinality(At(q, "running"))' = Cardinality(At(q, "running")) + dN
      /\ Cardinality(At(q, "reserved"))' = Cardinality(At(q, "reserved")) + dR
      /\ Cardinality(Holding(q))' = Cardinality(Holding(q)) + dH
      /\ Cardinality(Stalling(q))' = Cardinality(Stalling(q)) + dT
  BY Zenon DEF Change, Counts
<1>4. outstanding'[q] = Cardinality(At(q, "running"))' + releases'[q]
              + Cardinality(Holding(q))' + Cardinality(Stalling(q))'
  BY <1>1, <1>2, <1>3, Zenon
<1>5. reserved'[q] = Cardinality(At(q, "reserved"))'
  BY <1>2, <1>3, Zenon DEF Accounts
<1>6. reserved'[q] + Len(workQueue'[q]) + Cardinality(At(q, "running"))' <= maxSize[q]
  BY <1>2, <1>3, Zenon DEF KeepsBounds
<1>7. outstanding'[q] <= maxOutstanding[q]
  BY <1>2, Zenon DEF KeepsBounds
<1> QED
  BY <1>4, <1>5, <1>6, <1>7, Zenon DEF Accounts

\* what the accounts say of the sizes that the methods test
LEMMA AccountsSay ==
    ASSUME NEW q \in Queue, Numbers(q), Accounts(q)
    PROVE  /\ Cardinality(At(q, "running")) <= outstanding[q]
           /\ Cardinality(At(q, "running")) > 0 => outstanding[q] > 0
           /\ releases[q] > 0 => outstanding[q] > 0
           /\ size(q) <= maxSize[q] + outstanding[q] /\ outstanding[q] <= maxOutstanding[q]
           /\ Cardinality(At(q, "running")) + Cardinality(Holding(q)) <= maxOutstanding[q]
           /\ size(q) < maxSize[q] => HasRoom(q)
<1> DEFINE n == Cardinality(At(q, "running"))
           h == Cardinality(Holding(q))
           t == Cardinality(Stalling(q))
           l == Len(workQueue[q])
           o == outstanding[q]
           r == reserved[q]
           e == releases[q]
           z == maxSize[q]
           m == maxOutstanding[q]
<1>1. n \in Nat /\ h \in Nat /\ t \in Nat /\ l \in Nat /\ o \in Nat /\ r \in Nat /\ e \in Nat
  BY Zenon DEF Numbers
<1>2. z \in Nat /\ m \in Nat
  BY Zenon DEF Numbers
<1>3. o = n + e + h + t /\ r + l + n <= z /\ o <= m
  BY Zenon DEF Accounts
<1>4. size(q) = o + r + l
  BY Zenon DEF size
<1> HIDE DEF n, h, t, l, o, r, e, z, m
<1>5. n <= o /\ (n > 0 => o > 0) /\ (e > 0 => o > 0) /\ n + h <= m
  BY <1>1, <1>2, <1>3
<1>6. o + r + l <= z + o /\ (o + r + l < z => (o + r + l) + 1 <= z)
  BY <1>1, <1>2, <1>3
<1>7. size(q) <= z + o /\ (size(q) < z => size(q) + 1 <= z)
  BY <1>4, <1>6, Zenon
<1> QED
  BY <1>3, <1>5, <1>7, Zenon DEF HasRoom, n, h, t, l, o, r, e, z, m

LEMMA BoundsKept ==
    ASSUME NEW q \in Queue, Numbers(q), Accounts(q)
    PROVE  /\ KeepsBounds(q, 0, 0, 0, 0)
           /\ KeepsBounds(q, 0, -1, 0, 0)
           /\ KeepsBounds(q, 0, -1, 1, 0)
           /\ KeepsBounds(q, 0, 0, 0, -1)
           /\ KeepsBounds(q, 0, 1, 0, -1)
           /\ KeepsBounds(q, 0, 0, 1, -1)
           /\ KeepsBounds(q, -1, 0, 1, -1)
           /\ KeepsBounds(q, -1, 0, 0, 0)
           /\ outstanding[q] < maxOutstanding[q] => KeepsBounds(q, 1, 0, -1, 1)
           /\ HasRoom(q) => KeepsBounds(q, 0, 0, 1, 0) /\ KeepsBounds(q, 0, 1, 0, 0)
<1> DEFINE n == Cardinality(At(q, "running"))
           l == Len(workQueue[q])
<1>1. /\ reserved[q] \in Nat /\ l \in Nat /\ n \in Nat /\ maxSize[q] \in Nat
      /\ outstanding[q] \in Nat /\ maxOutstanding[q] \in Nat
  BY DEF Numbers
<1>2. reserved[q] + l + n <= maxSize[q] /\ outstanding[q] <= maxOutstanding[q]
  BY DEF Accounts
<1>3. n <= outstanding[q]
  BY AccountsSay, Zenon
<1>4. HasRoom(q) => outstanding[q] + reserved[q] + l + 1 <= maxSize[q]
  BY DEF HasRoom, size
<1> HIDE DEF n, l
<1>5. /\ (reserved[q] + 0) + (l + 0) + (n + 0) <= maxSize[q]
      /\ (reserved[q] + -1) + (l + 0) + (n + 0) <= maxSize[q]
      /\ (reserved[q] + -1) + (l + 1) + (n + 0) <= maxSize[q]
      /\ (reserved[q] + 0) + (l + 0) + (n + -1) <= maxSize[q]
      /\ (reserved[q] + 1) + (l + 0) + (n + -1) <= maxSize[q]
      /\ (reserved[q] + 0) + (l + 1) + (n + -1) <= maxSize[q]
      /\ (reserved[q] + 0) + (l + -1) + (n + 1) <= maxSize[q]
  BY <1>1, <1>2
<1>6. /\ outstanding[q] + 0 <= maxOutstanding[q]
      /\ outstanding[q] + -1 <= maxOutstanding[q]
      /\ outstanding[q] < maxOutstanding[q] => outstanding[q] + 1 <= maxOutstanding[q]
  BY <1>1, <1>2
<1>7. HasRoom(q) => /\ (reserved[q] + 0) + (l + 1) + (n + 0) <= maxSize[q]
                    /\ (reserved[q] + 1) + (l + 0) + (n + 0) <= maxSize[q]
  BY <1>1, <1>3, <1>4
<1> QED
  BY <1>5, <1>6, <1>7 DEF KeepsBounds, n, l

LEMMA EnqueueStep ==
    ASSUME IInv, NEW q \in Queue, NEW j \in Job, enqueue(q, j)
    PROVE  IInv'
<1>0. TypeOK /\ JobsInOnePlace /\ JobsHoldUpstream
  BY AccountsAgain
<1>1. /\ Move(j, "queued", q, {}, NoQueue)
      /\ phase[j] = "idle" /\ ctx[j] = {} /\ origin[j] = NoQueue
  BY <1>0 DEF enqueue, JobsHoldUpstream
<1>2. JobsInOnePlace' /\ workQueue' \in [Queue -> Seq(Job)]
  BY <1>0, <1>1, PushPlaces DEF enqueue
<1>3. TypeOK'
  BY <1>0, <1>1, <1>2, MoveTypes, CallTypes, Zenon DEF TypeOK, Phase, enqueue
<1>4. JobsHoldUpstream'
  BY <1>0, <1>1, Zenon DEF JobsHoldUpstream, Move, TypeOK
<1>5. ASSUME NEW r \in Queue
      PROVE  Accounts(r)'
  <2>1. Numbers(r) /\ Accounts(r)
    BY <1>0, NumbersAreNat, AccountsAgain
  <2>2. Counted(j, "queued", q, {}, NoQueue, r) /\ r # NoQueue
    BY <1>0, <1>1, MoveCounts, WorkQueueAssumption
  <2>3. CASE r = q
    <3>1. Change(r, 0, 0, 1, 0, 0, 0, 0)
      <4>1. Deltas(j, "queued", q, {}, NoQueue, r, 0, 0, 0, 0)
        BY <1>0, <1>1, <2>2, <2>3 DEF Deltas, Diff
      <4>2. Counts(r, 0, 0, 0, 0)
        BY <2>1, <2>2, <4>1, CountsChange
      <4>3. /\ outstanding'[r] = outstanding[r] /\ reserved'[r] = reserved[r]
            /\ Len(workQueue'[r]) = Len(workQueue[r]) + 1 /\ releases'[r] = releases[r]
        BY <1>0, <1>1, <2>3, FieldsAt, Zenon DEF enqueue
      <4> QED
        BY <4>2, <4>3, Zenon DEF Change, Grows
    <3>2. KeepsBounds(r, 0, 0, 1, 0)
      BY <2>1, <2>3, BoundsKept DEF enqueue
    <3> QED
      BY <2>1, <3>1, <3>2, AccountsBalance
  <2>4. CASE r # q
    <3>1. Change(r, 0, 0, 0, 0, 0, 0, 0)
      <4>1. Deltas(j, "queued", q, {}, NoQueue, r, 0, 0, 0, 0)
        BY <1>0, <1>1, <2>2, <2>4 DEF Deltas, Diff
      <4>2. Counts(r, 0, 0, 0, 0)
        BY <2>1, <2>2, <4>1, CountsChange
      <4>3. /\ outstanding'[r] = outstanding[r] /\ reserved'[r] = reserved[r]
            /\ workQueue'[r] = workQueue[r] /\ releases'[r] = releases[r]
        BY <1>0, <1>1, <2>4, FieldsAt, Zenon DEF enqueue
      <4> QED
        BY <2>1, <4>2, <4>3, SameFields, Zenon
    <3>2. KeepsBounds(r, 0, 0, 0, 0)
      BY <2>1, BoundsKept
    <3> QED
      BY <2>1, <3>1, <3>2, AccountsBalance
  <2> QED
    BY <2>3, <2>4
<1> QED
  BY <1>2, <1>3, <1>4, <1>5, AccountsAgainPrime

LEMMA FrameStep ==
    ASSUME IInv, TypeOK',
           UNCHANGED <<workQueue, overflowQueue, outstanding, reserved, releases, jobs>>
    PROVE  IInv'
<1>1. \A q, x : At(q, x)' = At(q, x) /\ Holding(q)' = Holding(q) /\ Stalling(q)' = Stalling(q)
  BY DEF At, Holding, Stalling, jobs
<1>2. JobsInOnePlace' /\ JobsHoldUpstream'
  BY <1>1 DEF IInv, JobsInOnePlace, JobsHoldUpstream, jobs
<1>3. \A q \in Queue : Accounts(q)'
  BY <1>1, AccountsAgain DEF Accounts
<1> QED
  BY <1>2, <1>3, AccountsAgainPrime

\* a job that goes from q to r is not yet known to r
LEMMA RunningUpstream ==
    ASSUME TypeOK, JobsHoldUpstream, NEW q \in Queue, NEW r \in Queue,
           NEW j \in At(q, "running"), Rank[q] < Rank[r]
    PROVE  /\ phase[j] = "running" /\ at[j] = q /\ origin[j] = NoQueue
           /\ q \notin ctx[j] /\ r # q /\ r \notin ctx[j]
           /\ \A u \in ctx[j] : Rank[u] < Rank[q] /\ Rank[u] < Rank[r]
           /\ Rank[q] < Rank[r]
<1>1. j \in Job /\ phase[j] = "running" /\ at[j] = q
  BY DEF At
<1>2. origin[j] = NoQueue /\ ctx[j] \subseteq Queue /\ \A u \in ctx[j] : Rank[u] < Rank[q]
  BY <1>1, Zenon DEF JobsHoldUpstream, TypeOK
<1>3. \A u \in Queue : Rank[u] \in Nat
  BY WorkQueueAssumption
<1>4. \A u \in ctx[j] : Rank[u] < Rank[r]
  BY <1>2, <1>3
<1> QED
  BY <1>1, <1>2, <1>3, <1>4

LEMMA SomeCounted ==
    ASSUME NEW q, NEW x, NEW j \in At(q, x)
    PROVE  Cardinality(At(q, x)) > 0
<1>1. At(q, x) # {} /\ At(q, x) \subseteq Job
  BY DEF At
<1>2. IsFiniteSet(At(q, x))
  BY <1>1, WorkQueueAssumption, FS_Subset
<1> QED
  BY <1>1, <1>2, FS_EmptySet, FS_CardinalityType

LEMMA ReserveStep ==
    ASSUME IInv, NEW q \in Queue, NEW j \in Job, reserve(q, j)
    PROVE  IInv'
<1>0. TypeOK /\ JobsInOnePlace /\ JobsHoldUpstream
  BY AccountsAgain
<1>1. /\ Move(j, "reserved", q, {}, NoQueue)
      /\ phase[j] = "idle" /\ ctx[j] = {} /\ origin[j] = NoQueue
  <2>1. Move(j, "reserved", q, {}, NoQueue) /\ phase[j] = "idle"
    BY DEF reserve
  <2> QED
    BY <1>0, <2>1 DEF JobsHoldUpstream
<1>2. JobsInOnePlace'
  BY <1>0, <1>1, KeepPlaces DEF reserve
<1>3. TypeOK'
  BY <1>0, <1>1, <1>2, MoveTypes, CallTypes, Zenon DEF TypeOK, Phase, reserve
<1>4. JobsHoldUpstream'
  BY <1>0, <1>1, WorkQueueAssumption, Zenon DEF JobsHoldUpstream, Move, TypeOK
<1>5. ASSUME NEW t \in Queue
      PROVE  Accounts(t)'
  <2>1. Numbers(t) /\ Accounts(t)
    BY <1>0, NumbersAreNat, AccountsAgain
  <2>2. Counted(j, "reserved", q, {}, NoQueue, t) /\ t # NoQueue
    BY <1>0, <1>1, MoveCounts, WorkQueueAssumption
  <2>3. CASE t = q
    <3>1. Change(t, 0, 1, 0, 0, 0, 0, 0)
      <4>1. Deltas(j, "reserved", q, {}, NoQueue, t, 0, 1, 0, 0)
        BY <1>0, <1>1, <2>2, <2>3, Zenon DEF Deltas, Diff
      <4>2. Counts(t, 0, 1, 0, 0)
        BY <2>1, <2>2, <4>1, CountsChange
      <4>3. /\ outstanding'[t] = outstanding[t] /\ reserved'[t] = reserved[t] + 1
            /\ workQueue'[t] = workQueue[t] /\ releases'[t] = releases[t]
        BY <1>0, <1>1, <2>3, FieldsAt, Zenon DEF reserve
      <4> QED
        BY <4>2, <4>3, Zenon DEF Change, Grows
    <3>2. KeepsBounds(t, 0, 1, 0, 0)
      BY <2>1, <2>3, BoundsKept DEF reserve
    <3> QED
      BY <2>1, <3>1, <3>2, AccountsBalance
  <2>4. CASE t # q
    <3>1. Change(t, 0, 0, 0, 0, 0, 0, 0)
      <4>1. Deltas(j, "reserved", q, {}, NoQueue, t, 0, 0, 0, 0)
        BY <1>0, <1>1, <2>2, <2>4 DEF Deltas, Diff
      <4>2. Counts(t, 0, 0, 0, 0)
        BY <2>1, <2>2, <4>1, CountsChange
      <4>3. /\ outstanding'[t] = outstanding[t] /\ reserved'[t] = reserved[t]
            /\ workQueue'[t] = workQueue[t] /\ releases'[t] = releases[t]
        BY <1>0, <1>1, <2>4, FieldsAt, Zenon DEF reserve
      <4> QED
        BY <2>1, <4>2, <4>3, SameFields
    <3>2. KeepsBounds(t, 0, 0, 0, 0)
      BY <2>1, <2>4, BoundsKept DEF reserve
    <3> QED
      BY <2>1, <3>1, <3>2, AccountsBalance
  <2> QED
    BY <2>3, <2>4
<1> QED
  BY <1>2, <1>3, <1>4, <1>5, AccountsAgainPrime

LEMMA UnreserveStep ==
    ASSUME IInv, NEW q \in Queue, NEW j \in Job, unreserve(q, j)
    PROVE  IInv'
<1>0. TypeOK /\ JobsInOnePlace /\ JobsHoldUpstream
  BY AccountsAgain
<1>1. /\ Move(j, "idle", NoQueue, {}, NoQueue)
      /\ phase[j] = "reserved" /\ at[j] = q /\ origin[j] = NoQueue /\ q \notin ctx[j]
  BY <1>0, WorkQueueAssumption DEF unreserve, JobsHoldUpstream, At, TypeOK
<1>2. JobsInOnePlace'
  <2>1. overflowQueue' = overflowQueue /\ workQueue' = workQueue
    BY DEF unreserve
  <2>2. phase[j] \notin {"queued", "overflow"} /\ "idle" \notin {"queued", "overflow"}
    BY <1>1
  <2> QED
    BY <1>0, <1>1, <2>1, <2>2, KeepPlaces
<1>3. TypeOK'
  <2>1. reserved \in [Queue -> Nat] /\ ctx[j] \in SUBSET Queue
    BY <1>0, Zenon DEF TypeOK
  <2>2. reserved' \in [Queue -> Nat]
    BY <2>1, IncDecTypes DEF unreserve
  <2>3. /\ phase' \in [Job -> Phase] /\ at' \in [Job -> Queue \cup {NoQueue}]
        /\ ctx' \in [Job -> SUBSET Queue] /\ origin' \in [Job -> Queue \cup {NoQueue}]
    BY <1>0, <1>1, <2>1, MoveTypes, Zenon DEF Phase
  <2> QED
    BY <1>0, <1>2, <2>2, <2>3, CallTypes, Zenon DEF TypeOK, unreserve
<1>4. JobsHoldUpstream'
  BY <1>0, <1>1, WorkQueueAssumption, Zenon DEF JobsHoldUpstream, Move, TypeOK
<1>5. ASSUME NEW t \in Queue
      PROVE  Accounts(t)'
  <2>1. Numbers(t) /\ Accounts(t)
    BY <1>0, NumbersAreNat, AccountsAgain
  <2>2. Counted(j, "idle", NoQueue, {}, NoQueue, t) /\ t # NoQueue
    BY <1>0, <1>1, MoveCounts, WorkQueueAssumption
  <2>3. CASE t = q
    <3>1. Change(t, 0, -1, 0, 0, 0, 0, 0)
      <4>1. Deltas(j, "idle", NoQueue, {}, NoQueue, t, 0, -1, 0, 0)
        BY <1>0, <1>1, <2>2, <2>3 DEF Deltas, Diff
      <4>2. Counts(t, 0, -1, 0, 0)
        BY <2>1, <2>2, <4>1, CountsChange
      <4>3. /\ outstanding'[t] = outstanding[t] /\ reserved'[t] = reserved[t] + -1
            /\ workQueue'[t] = workQueue[t] /\ releases'[t] = releases[t]
        BY <1>0, <1>1, <2>3, FieldsAt, Zenon DEF unreserve
      <4> QED
        BY <4>2, <4>3, Zenon DEF Change, Grows
    <3>2. KeepsBounds(t, 0, -1, 0, 0)
      BY <2>1, <2>3, BoundsKept DEF unreserve
    <3> QED
      BY <2>1, <3>1, <3>2, AccountsBalance
  <2>4. CASE t # q /\ t \in ctx[j]
    <3>1. Counts(t, 0, 0, -1, 0)
      <4>1. Deltas(j, "idle", NoQueue, {}, NoQueue, t, 0, 0, -1, 0)
        BY <1>1, <2>2, <2>4 DEF Deltas, Diff
      <4> QED
        BY <2>1, <2>2, <4>1, CountsChange
    <3>2. /\ outstanding'[t] = outstanding[t] /\ reserved'[t] = reserved[t]
          /\ workQueue'[t] = workQueue[t] /\ releases'[t] = releases[t] + 1
      BY <1>0, <2>4, FieldsAt, Zenon DEF unreserve
    <3>3. Change(t, 0, 0, 0, 1, 0, -1, 0)
      BY <2>1, <3>1, <3>2, SameFields
    <3>4. KeepsBounds(t, 0, 0, 0, 0)
      BY <2>1, BoundsKept
    <3> QED
      BY <2>1, <3>3, <3>4, AccountsBalance
  <2>5. CASE t # q /\ t \notin ctx[j]
    <3>1. Change(t, 0, 0, 0, 0, 0, 0, 0)
      <4>1. Deltas(j, "idle", NoQueue, {}, NoQueue, t, 0, 0, 0, 0)
        BY <1>0, <1>1, <2>2, <2>5 DEF Deltas, Diff
      <4>2. Counts(t, 0, 0, 0, 0)
        BY <2>1, <2>2, <4>1, CountsChange
      <4>3. /\ outstanding'[t] = outstanding[t] /\ reserved'[t] = reserved[t]
            /\ workQueue'[t] = workQueue[t] /\ releases'[t] = releases[t]
        BY <1>0, <1>1, <2>5, FieldsAt, Zenon DEF unreserve
      <4> QED
        BY <2>1, <4>2, <4>3, SameFields
    <3>2. KeepsBounds(t, 0, 0, 0, 0)
      BY <2>1, <2>5, BoundsKept DEF unreserve
    <3> QED
      BY <2>1, <3>1, <3>2, AccountsBalance
  <2> QED
    BY <2>3, <2>4, <2>5
<1> QED
  BY <1>2, <1>3, <1>4, <1>5, AccountsAgainPrime

LEMMA EnqueueReservedStep ==
    ASSUME IInv, NEW q \in Queue, NEW j \in Job, enqueueReserved(q, j)
    PROVE  IInv'
<1>0. TypeOK /\ JobsInOnePlace /\ JobsHoldUpstream
  BY AccountsAgain
<1>1. /\ Move(j, "queued", q, ctx[j], NoQueue)
      /\ phase[j] = "reserved" /\ at[j] = q /\ origin[j] = NoQueue /\ q \notin ctx[j]
  BY <1>0, WorkQueueAssumption DEF enqueueReserved, JobsHoldUpstream, At, TypeOK
<1>2. JobsInOnePlace' /\ workQueue' \in [Queue -> Seq(Job)]
  BY <1>0, <1>1, PushPlaces DEF enqueueReserved
<1>3. TypeOK'
  <2>1. reserved \in [Queue -> Nat] /\ ctx[j] \in SUBSET Queue
    BY <1>0, Zenon DEF TypeOK
  <2>2. reserved' \in [Queue -> Nat]
    BY <2>1, IncDecTypes DEF enqueueReserved
  <2>3. /\ phase' \in [Job -> Phase] /\ at' \in [Job -> Queue \cup {NoQueue}]
        /\ ctx' \in [Job -> SUBSET Queue] /\ origin' \in [Job -> Queue \cup {NoQueue}]
    BY <1>0, <1>1, <2>1, MoveTypes, Zenon DEF Phase
  <2> QED
    BY <1>0, <1>2, <2>2, <2>3, CallTypes, Zenon DEF TypeOK, enqueueReserved
<1>4. JobsHoldUpstream'
  BY <1>0, <1>1, WorkQueueAssumption, Zenon DEF JobsHoldUpstream, Move, TypeOK
<1>5. ASSUME NEW t \in Queue
      PROVE  Accounts(t)'
  <2>1. Numbers(t) /\ Accounts(t)
    BY <1>0, NumbersAreNat, AccountsAgain
  <2>2. Counted(j, "queued", q, ctx[j], NoQueue, t) /\ t # NoQueue
    BY <1>0, <1>1, MoveCounts, WorkQueueAssumption
  <2>3. CASE t = q
    <3>1. Change(t, 0, -1, 1, 0, 0, 0, 0)
      <4>1. Deltas(j, "queued", q, ctx[j], NoQueue, t, 0, -1, 0, 0)
        BY <1>0, <1>1, <2>2, <2>3 DEF Deltas, Diff
      <4>2. Counts(t, 0, -1, 0, 0)
        BY <2>1, <2>2, <4>1, CountsChange
      <4>3. /\ outstanding'[t] = outstanding[t] /\ reserved'[t] = reserved[t] + -1
            /\ Len(workQueue'[t]) = Len(workQueue[t]) + 1 /\ releases'[t] = releases[t]
        BY <1>0, <1>1, <2>3, FieldsAt, Zenon DEF enqueueReserved
      <4> QED
        BY <4>2, <4>3, Zenon DEF Change, Grows
    <3>2. KeepsBounds(t, 0, -1, 1, 0)
      BY <2>1, <2>3, BoundsKept DEF enqueueReserved
    <3> QED
      BY <2>1, <3>1, <3>2, AccountsBalance
  <2>4. CASE t # q
    <3>1. Change(t, 0, 0, 0, 0, 0, 0, 0)
      <4>1. Deltas(j, "queued", q, ctx[j], NoQueue, t, 0, 0, 0, 0)
        BY <1>0, <1>1, <2>2, <2>4 DEF Deltas, Diff
      <4>2. Counts(t, 0, 0, 0, 0)
        BY <2>1, <2>2, <4>1, CountsChange
      <4>3. /\ outstanding'[t] = outstanding[t] /\ reserved'[t] = reserved[t]
            /\ workQueue'[t] = workQueue[t] /\ releases'[t] = releases[t]
        BY <1>0, <1>1, <2>4, FieldsAt, Zenon DEF enqueueReserved
      <4> QED
        BY <2>1, <4>2, <4>3, SameFields
    <3>2. KeepsBounds(t, 0, 0, 0, 0)
      BY <2>1, <2>4, BoundsKept DEF enqueueReserved
    <3> QED
      BY <2>1, <3>1, <3>2, AccountsBalance
  <2> QED
    BY <2>3, <2>4
<1> QED
  BY <1>2, <1>3, <1>4, <1>5, AccountsAgainPrime

LEMMA FinishStep ==
    ASSUME IInv, NEW q \in Queue, NEW j \in Job, finish(q, j)
    PROVE  IInv'
<1>0. TypeOK /\ JobsInOnePlace /\ JobsHoldUpstream
  BY AccountsAgain
<1>1. /\ Move(j, "idle", NoQueue, {}, NoQueue)
      /\ phase[j] = "running" /\ at[j] = q /\ origin[j] = NoQueue /\ q \notin ctx[j]
  BY <1>0, WorkQueueAssumption DEF finish, JobsHoldUpstream, At, TypeOK
<1>2. JobsInOnePlace'
  <2>1. overflowQueue' = overflowQueue /\ workQueue' = workQueue
    BY DEF finish, queues
  <2>2. phase[j] \notin {"queued", "overflow"} /\ "idle" \notin {"queued", "overflow"}
    BY <1>1
  <2> QED
    BY <1>0, <1>1, <2>1, <2>2, KeepPlaces
<1>3. TypeOK'
  BY <1>0, <1>1, <1>2, MoveTypes, CallTypes, Zenon DEF TypeOK, Phase, finish, queues
<1>4. JobsHoldUpstream'
  BY <1>0, <1>1, WorkQueueAssumption, Zenon DEF JobsHoldUpstream, Move, TypeOK
<1>5. ASSUME NEW t \in Queue
      PROVE  Accounts(t)'
  <2>1. Numbers(t) /\ Accounts(t)
    BY <1>0, NumbersAreNat, AccountsAgain
  <2>2. Counted(j, "idle", NoQueue, {}, NoQueue, t) /\ t # NoQueue
    BY <1>0, <1>1, MoveCounts, WorkQueueAssumption
  <2>3. CASE t = q
    <3>1. Change(t, 0, 0, 0, 1, -1, 0, 0)
      <4>1. Deltas(j, "idle", NoQueue, {}, NoQueue, t, -1, 0, 0, 0)
        BY <1>0, <1>1, <2>2, <2>3 DEF Deltas, Diff
      <4>2. Counts(t, -1, 0, 0, 0)
        BY <2>1, <2>2, <4>1, CountsChange
      <4>3. /\ outstanding'[t] = outstanding[t] /\ reserved'[t] = reserved[t]
            /\ workQueue'[t] = workQueue[t] /\ releases'[t] = releases[t] + 1
        <5>1. releases'[t] = releases[t] + 1
          BY <2>3 DEF ReleaseAll, finish
        <5> QED
          BY <5>1, Zenon DEF finish, queues
      <4> QED
        BY <4>2, <4>3, Zenon DEF Change, Grows
    <3>2. KeepsBounds(t, 0, 0, 0, -1)
      BY <2>1, <2>3, BoundsKept DEF finish
    <3> QED
      BY <2>1, <3>1, <3>2, AccountsBalance
  <2>4. CASE t # q /\ t \in ctx[j]
    <3>1. Counts(t, 0, 0, -1, 0)
      <4>1. Deltas(j, "idle", NoQueue, {}, NoQueue, t, 0, 0, -1, 0)
        BY <1>1, <2>2, <2>4 DEF Deltas, Diff
      <4> QED
        BY <2>1, <2>2, <4>1, CountsChange
    <3>2. /\ outstanding'[t] = outstanding[t] /\ reserved'[t] = reserved[t]
          /\ workQueue'[t] = workQueue[t] /\ releases'[t] = releases[t] + 1
      <4>1. releases'[t] = releases[t] + 1
        BY <2>4 DEF ReleaseAll, finish
      <4> QED
        BY <4>1, Zenon DEF finish, queues
    <3>3. Change(t, 0, 0, 0, 1, 0, -1, 0)
      BY <2>1, <3>1, <3>2, SameFields
    <3>4. KeepsBounds(t, 0, 0, 0, 0)
      BY <2>1, BoundsKept
    <3> QED
      BY <2>1, <3>3, <3>4, AccountsBalance
  <2>5. CASE t # q /\ t \notin ctx[j]
    <3>1. Change(t, 0, 0, 0, 0, 0, 0, 0)
      <4>1. Deltas(j, "idle", NoQueue, {}, NoQueue, t, 0, 0, 0, 0)
        BY <1>0, <1>1, <2>2, <2>5 DEF Deltas, Diff
      <4>2. Counts(t, 0, 0, 0, 0)
        BY <2>1, <2>2, <4>1, CountsChange
      <4>3. /\ outstanding'[t] = outstanding[t] /\ reserved'[t] = reserved[t]
            /\ workQueue'[t] = workQueue[t] /\ releases'[t] = releases[t]
        <5>1. releases'[t] = releases[t]
          BY <2>5 DEF ReleaseAll, finish
        <5> QED
          BY <5>1, Zenon DEF finish, queues
      <4> QED
        BY <2>1, <4>2, <4>3, SameFields
    <3>2. KeepsBounds(t, 0, 0, 0, 0)
      BY <2>1, <2>5, BoundsKept DEF finish
    <3> QED
      BY <2>1, <3>1, <3>2, AccountsBalance
  <2> QED
    BY <2>3, <2>4, <2>5
<1> QED
  BY <1>2, <1>3, <1>4, <1>5, AccountsAgainPrime

LEMMA ReserveOwnStep ==
    ASSUME IInv, NEW q \in Queue, NEW j \in Job, reserveOwn(q, j)
    PROVE  IInv'
<1>0. TypeOK /\ JobsInOnePlace /\ JobsHoldUpstream
  BY AccountsAgain
<1>1. /\ Move(j, "reserved", q, ctx[j], NoQueue)
      /\ phase[j] = "running" /\ at[j] = q /\ origin[j] = NoQueue /\ q \notin ctx[j]
  BY <1>0, WorkQueueAssumption DEF reserveOwn, JobsHoldUpstream, At, TypeOK
<1>2. JobsInOnePlace'
  BY <1>0, <1>1, KeepPlaces DEF reserveOwn
<1>3. TypeOK'
  BY <1>0, <1>1, <1>2, MoveTypes, CallTypes, Zenon DEF TypeOK, Phase, reserveOwn
<1>4. JobsHoldUpstream'
  BY <1>0, <1>1, WorkQueueAssumption, Zenon DEF JobsHoldUpstream, Move, TypeOK
<1>5. ASSUME NEW t \in Queue
      PROVE  Accounts(t)'
  <2>1. Numbers(t) /\ Accounts(t)
    BY <1>0, NumbersAreNat, AccountsAgain
  <2>2. Counted(j, "reserved", q, ctx[j], NoQueue, t) /\ t # NoQueue
    BY <1>0, <1>1, MoveCounts, WorkQueueAssumption, Zenon
  <2>3. CASE t = q
    <3>1. Change(t, 0, 1, 0, 1, -1, 0, 0)
      <4>1. Deltas(j, "reserved", q, ctx[j], NoQueue, t, -1, 1, 0, 0)
        BY <1>0, <1>1, <2>2, <2>3 DEF Deltas, Diff
      <4>2. Counts(t, -1, 1, 0, 0)
        BY <2>1, <2>2, <4>1, CountsChange
      <4>3. /\ outstanding'[t] = outstanding[t] /\ reserved'[t] = reserved[t] + 1
            /\ workQueue'[t] = workQueue[t] /\ releases'[t] = releases[t] + 1
        BY <1>0, <1>1, <2>3, FieldsAt, Zenon DEF reserveOwn
      <4> QED
        BY <4>2, <4>3, Zenon DEF Change, Grows
    <3>2. KeepsBounds(t, 0, 1, 0, -1)
      BY <2>1, <2>3, BoundsKept DEF reserveOwn
    <3> QED
      BY <2>1, <3>1, <3>2, AccountsBalance
  <2>4. CASE t # q
    <3>1. Change(t, 0, 0, 0, 0, 0, 0, 0)
      <4>1. Deltas(j, "reserved", q, ctx[j], NoQueue, t, 0, 0, 0, 0)
        BY <1>0, <1>1, <2>2, <2>4, Zenon DEF Deltas, Diff
      <4>2. Counts(t, 0, 0, 0, 0)
        BY <2>1, <2>2, <4>1, CountsChange
      <4>3. /\ outstanding'[t] = outstanding[t] /\ reserved'[t] = reserved[t]
            /\ workQueue'[t] = workQueue[t] /\ releases'[t] = releases[t]
        <5>1. releases'[t] = releases[t]
          BY <2>4 DEF ReleaseAll, reserveOwn
        <5> QED
          BY <5>1, <1>0, <2>4, FieldsAt, Zenon DEF reserveOwn
      <4> QED
        BY <2>1, <4>2, <4>3, SameFields
    <3>2. KeepsBounds(t, 0, 0, 0, 0)
      BY <2>1, <2>4, BoundsKept DEF reserveOwn
    <3> QED
      BY <2>1, <3>1, <3>2, AccountsBalance
  <2> QED
    BY <2>3, <2>4
<1> QED
  BY <1>2, <1>3, <1>4, <1>5, AccountsAgainPrime

LEMMA ReEnqueueOwnStep ==
    ASSUME IInv, NEW q \in Queue, NEW j \in Job, reEnqueueOwn(q, j)
    PROVE  IInv'
<1>0. TypeOK /\ JobsInOnePlace /\ JobsHoldUpstream
  BY AccountsAgain
<1>1. /\ Move(j, "queued", q, ctx[j], NoQueue)
      /\ phase[j] = "running" /\ at[j] = q /\ origin[j] = NoQueue /\ q \notin ctx[j]
  BY <1>0, WorkQueueAssumption DEF reEnqueueOwn, JobsHoldUpstream, At, TypeOK
<1>2. JobsInOnePlace' /\ workQueue' \in [Queue -> Seq(Job)]
  BY <1>0, <1>1, PushPlaces DEF reEnqueueOwn
<1>3. TypeOK'
  BY <1>0, <1>1, <1>2, MoveTypes, CallTypes, Zenon DEF TypeOK, Phase, reEnqueueOwn
<1>4. JobsHoldUpstream'
  BY <1>0, <1>1, WorkQueueAssumption, Zenon DEF JobsHoldUpstream, Move, TypeOK
<1>5. ASSUME NEW t \in Queue
      PROVE  Accounts(t)'
  <2>1. Numbers(t) /\ Accounts(t)
    BY <1>0, NumbersAreNat, AccountsAgain
  <2>2. Counted(j, "queued", q, ctx[j], NoQueue, t) /\ t # NoQueue
    BY <1>0, <1>1, MoveCounts, WorkQueueAssumption
  <2>3. CASE t = q
    <3>1. Change(t, 0, 0, 1, 1, -1, 0, 0)
      <4>1. Deltas(j, "queued", q, ctx[j], NoQueue, t, -1, 0, 0, 0)
        BY <1>0, <1>1, <2>2, <2>3 DEF Deltas, Diff
      <4>2. Counts(t, -1, 0, 0, 0)
        BY <2>1, <2>2, <4>1, CountsChange
      <4>3. /\ outstanding'[t] = outstanding[t] /\ reserved'[t] = reserved[t]
            /\ Len(workQueue'[t]) = Len(workQueue[t]) + 1 /\ releases'[t] = releases[t] + 1
        <5>1. releases'[t] = releases[t] + 1
          BY <2>3 DEF ReleaseAll, reEnqueueOwn
        <5> QED
          BY <5>1, <1>0, <1>1, <2>3, FieldsAt, Zenon DEF reEnqueueOwn
      <4> QED
        BY <4>2, <4>3, Zenon DEF Change, Grows
    <3>2. KeepsBounds(t, 0, 0, 1, -1)
      BY <2>1, <2>3, BoundsKept DEF reEnqueueOwn
    <3> QED
      BY <2>1, <3>1, <3>2, AccountsBalance
  <2>4. CASE t # q
    <3>1. Change(t, 0, 0, 0, 0, 0, 0, 0)
      <4>1. Deltas(j, "queued", q, ctx[j], NoQueue, t, 0, 0, 0, 0)
        BY <1>0, <1>1, <2>2, <2>4 DEF Deltas, Diff
      <4>2. Counts(t, 0, 0, 0, 0)
        BY <2>1, <2>2, <4>1, CountsChange
      <4>3. /\ outstanding'[t] = outstanding[t] /\ reserved'[t] = reserved[t]
            /\ workQueue'[t] = workQueue[t] /\ releases'[t] = releases[t]
        <5>1. releases'[t] = releases[t]
          BY <2>4 DEF ReleaseAll, reEnqueueOwn
        <5> QED
          BY <5>1, <1>0, <2>4, FieldsAt, Zenon DEF reEnqueueOwn
      <4> QED
        BY <2>1, <4>2, <4>3, SameFields
    <3>2. KeepsBounds(t, 0, 0, 0, 0)
      BY <2>1, <2>4, BoundsKept DEF reEnqueueOwn
    <3> QED
      BY <2>1, <3>1, <3>2, AccountsBalance
  <2> QED
    BY <2>3, <2>4
<1> QED
  BY <1>2, <1>3, <1>4, <1>5, AccountsAgainPrime

LEMMA ReEnqueueOwnFullStep ==
    ASSUME IInv, NEW q \in Queue, NEW j \in Job, reEnqueueOwnFull(q, j)
    PROVE  IInv'
<1>0. TypeOK /\ JobsInOnePlace /\ JobsHoldUpstream
  BY AccountsAgain
<1>1. /\ Move(j, "queued", q, ctx[j], NoQueue)
      /\ phase[j] = "running" /\ at[j] = q /\ origin[j] = NoQueue /\ q \notin ctx[j]
  BY <1>0, WorkQueueAssumption DEF reEnqueueOwnFull, JobsHoldUpstream, At, TypeOK
<1>6. outstanding[q] > 0
  <2>1. Cardinality(At(q, "running")) > 0
    BY SomeCounted DEF reEnqueueOwnFull
  <2>2. Numbers(q) /\ Accounts(q)
    BY <1>0, NumbersAreNat, AccountsAgain
  <2> QED
    BY <2>1, <2>2, AccountsSay, Zenon
<1>2. JobsInOnePlace' /\ workQueue' \in [Queue -> Seq(Job)]
  BY <1>0, <1>1, PushPlaces DEF reEnqueueOwnFull
<1>3. TypeOK'
  <2>1. outstanding \in [Queue -> Nat] /\ ctx[j] \in SUBSET Queue
    BY <1>0, Zenon DEF TypeOK
  <2>2. outstanding' \in [Queue -> Nat]
    BY <1>6, <2>1, IncDecTypes DEF reEnqueueOwnFull
  <2>3. /\ phase' \in [Job -> Phase] /\ at' \in [Job -> Queue \cup {NoQueue}]
        /\ ctx' \in [Job -> SUBSET Queue] /\ origin' \in [Job -> Queue \cup {NoQueue}]
    BY <1>0, <1>1, <2>1, MoveTypes, Zenon DEF Phase
  <2> QED
    BY <1>0, <1>2, <2>2, <2>3, CallTypes, Zenon DEF TypeOK, reEnqueueOwnFull
<1>4. JobsHoldUpstream'
  BY <1>0, <1>1, WorkQueueAssumption, Zenon DEF JobsHoldUpstream, Move, TypeOK
<1>5. ASSUME NEW t \in Queue
      PROVE  Accounts(t)'
  <2>1. Numbers(t) /\ Accounts(t)
    BY <1>0, NumbersAreNat, AccountsAgain
  <2>2. Counted(j, "queued", q, ctx[j], NoQueue, t) /\ t # NoQueue
    BY <1>0, <1>1, MoveCounts, WorkQueueAssumption
  <2>3. CASE t = q
    <3>1. Change(t, -1, 0, 1, 0, -1, 0, 0)
      <4>1. Deltas(j, "queued", q, ctx[j], NoQueue, t, -1, 0, 0, 0)
        BY <1>0, <1>1, <2>2, <2>3 DEF Deltas, Diff
      <4>2. Counts(t, -1, 0, 0, 0)
        BY <2>1, <2>2, <4>1, CountsChange
      <4>3. /\ outstanding'[t] = outstanding[t] + -1 /\ reserved'[t] = reserved[t]
            /\ Len(workQueue'[t]) = Len(workQueue[t]) + 1 /\ releases'[t] = releases[t]
        BY <1>0, <1>1, <2>3, FieldsAt, Zenon DEF reEnqueueOwnFull
      <4> QED
        BY <4>2, <4>3, Zenon DEF Change, Grows
    <3>2. KeepsBounds(t, -1, 0, 1, -1)
      BY <2>1, <2>3, BoundsKept DEF reEnqueueOwnFull
    <3> QED
      BY <2>1, <3>1, <3>2, AccountsBalance
  <2>4. CASE t # q
    <3>1. Change(t, 0, 0, 0, 0, 0, 0, 0)
      <4>1. Deltas(j, "queued", q, ctx[j], NoQueue, t, 0, 0, 0, 0)
        BY <1>0, <1>1, <2>2, <2>4 DEF Deltas, Diff
      <4>2. Counts(t, 0, 0, 0, 0)
        BY <2>1, <2>2, <4>1, CountsChange
      <4>3. /\ outstanding'[t] = outstanding[t] /\ reserved'[t] = reserved[t]
            /\ workQueue'[t] = workQueue[t] /\ releases'[t] = releases[t]
        BY <1>0, <1>1, <2>4, FieldsAt, Zenon DEF reEnqueueOwnFull
      <4> QED
        BY <2>1, <4>2, <4>3, SameFields
    <3>2. KeepsBounds(t, 0, 0, 0, 0)
      BY <2>1, <2>4, BoundsKept DEF reEnqueueOwnFull
    <3> QED
      BY <2>1, <3>1, <3>2, AccountsBalance
  <2> QED
    BY <2>3, <2>4
<1> QED
  BY <1>2, <1>3, <1>4, <1>5, AccountsAgainPrime

LEMMA ReEnqueueStep ==
    ASSUME IInv, NEW q \in Queue, NEW r \in Queue, NEW j \in Job, reEnqueue(q, r, j), HasRoom(r)
    PROVE  IInv'
<1>0. TypeOK /\ JobsInOnePlace /\ JobsHoldUpstream
  BY AccountsAgain
<1>1. /\ phase[j] = "running" /\ at[j] = q /\ origin[j] = NoQueue
      /\ q \notin ctx[j] /\ r # q /\ r \notin ctx[j]
      /\ \A u \in ctx[j] : Rank[u] < Rank[q] /\ Rank[u] < Rank[r]
      /\ Rank[q] < Rank[r]
  BY <1>0, RunningUpstream DEF reEnqueue
<1>2. /\ workQueue' = Push(workQueue, r, j) /\ spawns' = Inc(spawns, r) /\ overflowQueue' = overflowQueue
      /\ ReleaseAll(ctx[j] \cup {q})
      /\ Move(j, "queued", r, {}, NoQueue)
      /\ UNCHANGED <<outstanding, reserved, isStarted, mutex>>
  BY DEF reEnqueue
<1>3. JobsInOnePlace' /\ workQueue' \in [Queue -> Seq(Job)]
  BY <1>0, <1>1, <1>2, PushPlaces
<1>4. TypeOK'
  <2>1. releases' \in [Queue -> Nat] /\ spawns' \in [Queue -> Nat]
    BY <1>0, <1>2, CallTypes, Zenon DEF TypeOK
  <2>2. /\ phase' \in [Job -> Phase] /\ at' \in [Job -> Queue \cup {NoQueue}]
        /\ ctx' \in [Job -> SUBSET Queue] /\ origin' \in [Job -> Queue \cup {NoQueue}]
    BY <1>0, <1>2, MoveTypes, Zenon DEF Phase
  <2> QED
    BY <1>0, <1>2, <1>3, <2>1, <2>2, Zenon DEF TypeOK
<1>5. JobsHoldUpstream'
  BY <1>0, <1>1, <1>2, Zenon DEF JobsHoldUpstream, Move, TypeOK
<1>6. ASSUME NEW t \in Queue
      PROVE  Accounts(t)'
  <2>1. Numbers(t) /\ Accounts(t)
    BY <1>0, NumbersAreNat, AccountsAgain
  <2>2. Counted(j, "queued", r, {}, NoQueue, t) /\ t # NoQueue
    BY <1>0, <1>2, MoveCounts, WorkQueueAssumption
  <2>3. CASE t = r
    <3>1. Counts(t, 0, 0, 0, 0)
      <4>1. Deltas(j, "queued", r, {}, NoQueue, t, 0, 0, 0, 0)
        BY <1>1, <2>2, <2>3 DEF Deltas, Diff
      <4> QED
        BY <2>1, <2>2, <4>1, CountsChange
    <3>2. /\ outstanding'[t] = outstanding[t] /\ reserved'[t] = reserved[t]
          /\ Len(workQueue'[t]) = Len(workQueue[t]) + 1 /\ releases'[t] = releases[t]
      <4>1. releases'[t] = releases[t]
        BY <1>1, <1>2, <2>3 DEF ReleaseAll
      <4> QED
        BY <4>1, <1>0, <1>2, <2>3, FieldsAt, Zenon
    <3>3. Change(t, 0, 0, 1, 0, 0, 0, 0)
      BY <3>1, <3>2, Zenon DEF Change, Grows
    <3>4. KeepsBounds(t, 0, 0, 1, 0)
      BY <2>1, <2>3, BoundsKept
    <3> QED
      BY <2>1, <3>3, <3>4, AccountsBalance
  <2>4. CASE t = q
    <3>1. Counts(t, -1, 0, 0, 0)
      <4>1. Deltas(j, "queued", r, {}, NoQueue, t, -1, 0, 0, 0)
        BY <1>1, <2>2, <2>4, Zenon DEF Deltas, Diff
      <4> QED
        BY <2>1, <2>2, <4>1, CountsChange
    <3>2. /\ outstanding'[t] = outstanding[t] /\ reserved'[t] = reserved[t]
          /\ workQueue'[t] = workQueue[t] /\ releases'[t] = releases[t] + 1
      <4>1. releases'[t] = releases[t] + 1
        BY <1>2, <2>4 DEF ReleaseAll
      <4> QED
        BY <4>1, <1>0, <1>1, <1>2, <2>4, FieldsAt, Zenon
    <3>3. Change(t, 0, 0, 0, 1, -1, 0, 0)
      BY <2>1, <3>1, <3>2, SameFields
    <3>4. KeepsBounds(t, 0, 0, 0, -1)
      BY <2>1, BoundsKept
    <3> QED
      BY <2>1, <3>3, <3>4, AccountsBalance
  <2>5. CASE t \notin {q, r} /\ t \in ctx[j]
    <3>1. Counts(t, 0, 0, -1, 0)
      <4>1. Deltas(j, "queued", r, {}, NoQueue, t, 0, 0, -1, 0)
        BY <1>1, <2>2, <2>5, Zenon DEF Deltas, Diff
      <4> QED
        BY <2>1, <2>2, <4>1, CountsChange
    <3>2. /\ outstanding'[t] = outstanding[t] /\ reserved'[t] = reserved[t]
          /\ workQueue'[t] = workQueue[t] /\ releases'[t] = releases[t] + 1
      <4>1. releases'[t] = releases[t] + 1
        BY <1>2, <2>5 DEF ReleaseAll
      <4> QED
        BY <4>1, <1>0, <1>2, <2>5, FieldsAt, Zenon
    <3>3. Change(t, 0, 0, 0, 1, 0, -1, 0)
      BY <2>1, <3>1, <3>2, SameFields, Zenon
    <3>4. KeepsBounds(t, 0, 0, 0, 0)
      BY <2>1, BoundsKept
    <3> QED
      BY <2>1, <3>3, <3>4, AccountsBalance
  <2>6. CASE t \notin {q, r} /\ t \notin ctx[j]
    <3>1. Counts(t, 0, 0, 0, 0)
      <4>1. Deltas(j, "queued", r, {}, NoQueue, t, 0, 0, 0, 0)
        BY <1>1, <2>2, <2>6 DEF Deltas, Diff
      <4> QED
        BY <2>1, <2>2, <4>1, CountsChange
    <3>2. /\ outstanding'[t] = outstanding[t] /\ reserved'[t] = reserved[t]
          /\ workQueue'[t] = workQueue[t] /\ releases'[t] = releases[t]
      <4>1. releases'[t] = releases[t]
        BY <1>2, <2>6 DEF ReleaseAll
      <4> QED
        BY <4>1, <1>0, <1>2, <2>6, FieldsAt, Zenon
    <3>3. Change(t, 0, 0, 0, 0, 0, 0, 0)
      BY <2>1, <3>1, <3>2, SameFields
    <3>4. KeepsBounds(t, 0, 0, 0, 0)
      BY <2>1, BoundsKept
    <3> QED
      BY <2>1, <3>3, <3>4, AccountsBalance
  <2> QED
    BY <2>3, <2>4, <2>5, <2>6
<1> QED
  BY <1>3, <1>4, <1>5, <1>6, AccountsAgainPrime

LEMMA ReEnqueueFullStep ==
    ASSUME IInv, NEW q \in Queue, NEW r \in Queue, NEW j \in Job, reEnqueue(q, r, j), ~HasRoom(r)
    PROVE  IInv'
<1>0. TypeOK /\ JobsInOnePlace /\ JobsHoldUpstream
  BY AccountsAgain
<1>1. /\ phase[j] = "running" /\ at[j] = q /\ origin[j] = NoQueue
      /\ q \notin ctx[j] /\ r # q /\ r \notin ctx[j]
      /\ \A u \in ctx[j] : Rank[u] < Rank[q] /\ Rank[u] < Rank[r]
      /\ Rank[q] < Rank[r]
  BY <1>0, RunningUpstream DEF reEnqueue
<1>2. /\ overflowQueue' = Push(overflowQueue, r, j) /\ workQueue' = workQueue /\ spawns' = spawns
      /\ ReleaseAll(ctx[j])
      /\ Move(j, "overflow", r, {}, q)
      /\ UNCHANGED <<outstanding, reserved, isStarted, mutex>>
  BY DEF reEnqueue
<1>3. JobsInOnePlace' /\ overflowQueue' \in [Queue -> Seq(Job)]
  BY <1>0, <1>1, <1>2, OverflowPlaces
<1>4. TypeOK'
  <2>1. releases' \in [Queue -> Nat] /\ spawns' \in [Queue -> Nat]
    BY <1>0, <1>2, CallTypes, Zenon DEF TypeOK
  <2>2. /\ phase' \in [Job -> Phase] /\ at' \in [Job -> Queue \cup {NoQueue}]
        /\ ctx' \in [Job -> SUBSET Queue] /\ origin' \in [Job -> Queue \cup {NoQueue}]
    BY <1>0, <1>2, MoveTypes, Zenon DEF Phase
  <2> QED
    BY <1>0, <1>2, <1>3, <2>1, <2>2, Zenon DEF TypeOK
<1>5. JobsHoldUpstream'
  BY <1>0, <1>1, <1>2, Zenon DEF JobsHoldUpstream, Move, TypeOK
<1>6. ASSUME NEW t \in Queue
      PROVE  Accounts(t)'
  <2>1. Numbers(t) /\ Accounts(t)
    BY <1>0, NumbersAreNat, AccountsAgain
  <2>2. Counted(j, "overflow", r, {}, q, t) /\ t # NoQueue
    BY <1>0, <1>2, MoveCounts, WorkQueueAssumption
  <2>3. CASE t = q
    <3>1. Counts(t, -1, 0, 0, 1)
      <4>1. Deltas(j, "overflow", r, {}, q, t, -1, 0, 0, 1)
        BY <1>1, <2>2, <2>3 DEF Deltas, Diff
      <4> QED
        BY <2>1, <2>2, <4>1, CountsChange
    <3>2. /\ outstanding'[t] = outstanding[t] /\ reserved'[t] = reserved[t]
          /\ workQueue'[t] = workQueue[t] /\ releases'[t] = releases[t]
      BY <1>0, <1>1, <1>2, <2>3, FieldsAt, Zenon
    <3>3. Change(t, 0, 0, 0, 0, -1, 0, 1)
      BY <2>1, <3>1, <3>2, SameFields
    <3>4. KeepsBounds(t, 0, 0, 0, -1)
      BY <2>1, BoundsKept
    <3> QED
      BY <2>1, <3>3, <3>4, AccountsBalance
  <2>4. CASE t # q /\ t \in ctx[j]
    <3>1. Counts(t, 0, 0, -1, 0)
      <4>1. Deltas(j, "overflow", r, {}, q, t, 0, 0, -1, 0)
        BY <1>1, <2>2, <2>4 DEF Deltas, Diff
      <4> QED
        BY <2>1, <2>2, <4>1, CountsChange
    <3>2. /\ outstanding'[t] = outstanding[t] /\ reserved'[t] = reserved[t]
          /\ workQueue'[t] = workQueue[t] /\ releases'[t] = releases[t] + 1
      BY <1>0, <1>1, <1>2, <2>4, FieldsAt, Zenon
    <3>3. Change(t, 0, 0, 0, 1, 0, -1, 0)
      BY <2>1, <3>1, <3>2, SameFields
    <3>4. KeepsBounds(t, 0, 0, 0, 0)
      BY <2>1, BoundsKept
    <3> QED
      BY <2>1, <3>3, <3>4, AccountsBalance
  <2>5. CASE t # q /\ t \notin ctx[j]
    <3>1. Counts(t, 0, 0, 0, 0)
      <4>1. Deltas(j, "overflow", r, {}, q, t, 0, 0, 0, 0)
        BY <1>1, <2>2, <2>5 DEF Deltas, Diff
      <4> QED
        BY <2>1, <2>2, <4>1, CountsChange
    <3>2. /\ outstanding'[t] = outstanding[t] /\ reserved'[t] = reserved[t]
          /\ workQueue'[t] = workQueue[t] /\ releases'[t] = releases[t]
      BY <1>0, <1>1, <1>2, <2>5, FieldsAt, Zenon
    <3>3. Change(t, 0, 0, 0, 0, 0, 0, 0)
      BY <2>1, <3>1, <3>2, SameFields
    <3>4. KeepsBounds(t, 0, 0, 0, 0)
      BY <2>1, BoundsKept
    <3> QED
      BY <2>1, <3>3, <3>4, AccountsBalance
  <2> QED
    BY <2>3, <2>4, <2>5
<1> QED
  BY <1>3, <1>4, <1>5, <1>6, AccountsAgainPrime

LEMMA ReEnqueueSerializedStep ==
    ASSUME IInv, NEW q \in Queue, NEW r \in Queue, NEW j \in Job, reEnqueueSerialized(q, r, j), HasRoom(r)
    PROVE  IInv'
<1>0. TypeOK /\ JobsInOnePlace /\ JobsHoldUpstream
  BY AccountsAgain
<1>1. /\ phase[j] = "running" /\ at[j] = q /\ origin[j] = NoQueue
      /\ q \notin ctx[j] /\ r # q /\ r \notin ctx[j]
      /\ \A u \in ctx[j] : Rank[u] < Rank[q] /\ Rank[u] < Rank[r]
      /\ Rank[q] < Rank[r]
  BY <1>0, RunningUpstream DEF reEnqueueSerialized
<1>2. /\ workQueue' = Push(workQueue, r, j) /\ spawns' = Inc(spawns, r) /\ overflowQueue' = overflowQueue
      /\ Move(j, "queued", r, ctx[j] \cup {q}, NoQueue)
      /\ UNCHANGED <<outstanding, reserved, isStarted, mutex, releases>>
  BY DEF reEnqueueSerialized
<1>3. JobsInOnePlace' /\ workQueue' \in [Queue -> Seq(Job)]
  BY <1>0, <1>1, <1>2, PushPlaces
<1>4. TypeOK'
  <2>1. releases' \in [Queue -> Nat] /\ spawns' \in [Queue -> Nat]
    BY <1>0, <1>2, CallTypes, Zenon DEF TypeOK
  <2>2. /\ phase' \in [Job -> Phase] /\ at' \in [Job -> Queue \cup {NoQueue}]
        /\ ctx' \in [Job -> SUBSET Queue] /\ origin' \in [Job -> Queue \cup {NoQueue}]
    <3>1. ctx[j] \cup {q} \in SUBSET Queue
      <4>1. ctx[j] \in SUBSET Queue
        BY <1>0, Zenon DEF TypeOK
      <4> QED
        BY <4>1, Zenon
    <3> QED
      BY <1>0, <1>2, <3>1, MoveTypes, Zenon DEF Phase
  <2> QED
    BY <1>0, <1>2, <1>3, <2>1, <2>2, Zenon DEF TypeOK
<1>5. JobsHoldUpstream'
  BY <1>0, <1>1, <1>2, Zenon DEF JobsHoldUpstream, Move, TypeOK
<1>6. ASSUME NEW t \in Queue
      PROVE  Accounts(t)'
  <2>1. Numbers(t) /\ Accounts(t)
    BY <1>0, NumbersAreNat, AccountsAgain
  <2>2. Counted(j, "queued", r, ctx[j] \cup {q}, NoQueue, t) /\ t # NoQueue
    BY <1>0, <1>2, MoveCounts, WorkQueueAssumption
  <2>3. CASE t = r
    <3>1. Counts(t, 0, 0, 0, 0)
      <4>1. Deltas(j, "queued", r, ctx[j] \cup {q}, NoQueue, t, 0, 0, 0, 0)
        BY <1>1, <2>2, <2>3 DEF Deltas, Diff
      <4> QED
        BY <2>1, <2>2, <4>1, CountsChange
    <3>2. /\ outstanding'[t] = outstanding[t] /\ reserved'[t] = reserved[t]
          /\ Len(workQueue'[t]) = Len(workQueue[t]) + 1 /\ releases'[t] = releases[t]
      BY <1>0, <1>1, <1>2, <2>3, FieldsAt, Zenon
    <3>3. Change(t, 0, 0, 1, 0, 0, 0, 0)
      BY <3>1, <3>2, Zenon DEF Change, Grows
    <3>4. KeepsBounds(t, 0, 0, 1, 0)
      BY <2>1, <2>3, BoundsKept
    <3> QED
      BY <2>1, <3>3, <3>4, AccountsBalance
  <2>4. CASE t = q
    <3>1. Counts(t, -1, 0, 1, 0)
      <4>1. Deltas(j, "queued", r, ctx[j] \cup {q}, NoQueue, t, -1, 0, 1, 0)
        BY <1>1, <2>2, <2>4 DEF Deltas, Diff
      <4> QED
        BY <2>1, <2>2, <4>1, CountsChange
    <3>2. /\ outstanding'[t] = outstanding[t] /\ reserved'[t] = reserved[t]
          /\ workQueue'[t] = workQueue[t] /\ releases'[t] = releases[t]
      BY <1>0, <1>1, <1>2, <2>4, FieldsAt, Zenon
    <3>3. Change(t, 0, 0, 0, 0, -1, 1, 0)
      BY <2>1, <3>1, <3>2, SameFields
    <3>4. KeepsBounds(t, 0, 0, 0, -1)
      BY <2>1, BoundsKept
    <3> QED
      BY <2>1, <3>3, <3>4, AccountsBalance
  <2>5. CASE t \notin {q, r}
    <3>1. Counts(t, 0, 0, 0, 0)
      <4>1. Deltas(j, "queued", r, ctx[j] \cup {q}, NoQueue, t, 0, 0, 0, 0)
        BY <1>1, <2>2, <2>5, Zenon DEF Deltas, Diff
      <4> QED
        BY <2>1, <2>2, <4>1, CountsChange, Zenon
    <3>2. /\ outstanding'[t] = outstanding[t] /\ reserved'[t] = reserved[t]
          /\ workQueue'[t] = workQueue[t] /\ releases'[t] = releases[t]
      BY <1>0, <1>1, <1>2, <2>5, FieldsAt, Zenon
    <3>3. Change(t, 0, 0, 0, 0, 0, 0, 0)
      BY <2>1, <3>1, <3>2, SameFields
    <3>4. KeepsBounds(t, 0, 0, 0, 0)
      BY <2>1, BoundsKept
    <3> QED
      BY <2>1, <3>3, <3>4, AccountsBalance
  <2> QED
    BY <2>3, <2>4, <2>5
<1> QED
  BY <1>3, <1>4, <1>5, <1>6, AccountsAgainPrime

LEMMA ReEnqueueSerializedFullStep ==
    ASSUME IInv, NEW q \in Queue, NEW r \in Queue, NEW j \in Job, reEnqueueSerialized(q, r, j), ~HasRoom(r)
    PROVE  IInv'
<1>0. TypeOK /\ JobsInOnePlace /\ JobsHoldUpstream
  BY AccountsAgain
<1>1. /\ phase[j] = "running" /\ at[j] = q /\ origin[j] = NoQueue
      /\ q \notin ctx[j] /\ r # q /\ r \notin ctx[j]
      /\ \A u \in ctx[j] : Rank[u] < Rank[q] /\ Rank[u] < Rank[r]
      /\ Rank[q] < Rank[r]
  BY <1>0, RunningUpstream DEF reEnqueueSerialized
<1>2. /\ overflowQueue' = Push(overflowQueue, r, j) /\ workQueue' = workQueue /\ spawns' = spawns
      /\ Move(j, "overflow", r, ctx[j] \cup {q}, NoQueue)
      /\ UNCHANGED <<outstanding, reserved, isStarted, mutex, releases>>
  BY DEF reEnqueueSerialized
<1>3. JobsInOnePlace' /\ overflowQueue' \in [Queue -> Seq(Job)]
  BY <1>0, <1>1, <1>2, OverflowPlaces
<1>4. TypeOK'
  <2>1. releases' \in [Queue -> Nat] /\ spawns' \in [Queue -> Nat]
    BY <1>0, <1>2, CallTypes, Zenon DEF TypeOK
  <2>2. /\ phase' \in [Job -> Phase] /\ at' \in [Job -> Queue \cup {NoQueue}]
        /\ ctx' \in [Job -> SUBSET Queue] /\ origin' \in [Job -> Queue \cup {NoQueue}]
    <3>1. ctx[j] \cup {q} \in SUBSET Queue
      <4>1. ctx[j] \in SUBSET Queue
        BY <1>0, Zenon DEF TypeOK
      <4> QED
        BY <4>1, Zenon
    <3> QED
      BY <1>0, <1>2, <3>1, MoveTypes, Zenon DEF Phase
  <2> QED
    BY <1>0, <1>2, <1>3, <2>1, <2>2, Zenon DEF TypeOK
<1>5. JobsHoldUpstream'
  BY <1>0, <1>1, <1>2, Zenon DEF JobsHoldUpstream, Move, TypeOK
<1>6. ASSUME NEW t \in Queue
      PROVE  Accounts(t)'
  <2>1. Numbers(t) /\ Accounts(t)
    BY <1>0, NumbersAreNat, AccountsAgain
  <2>2. Counted(j, "overflow", r, ctx[j] \cup {q}, NoQueue, t) /\ t # NoQueue
    BY <1>0, <1>2, MoveCounts, WorkQueueAssumption
  <2>3. CASE t = q
    <3>1. Counts(t, -1, 0, 1, 0)
      <4>1. Deltas(j, "overflow", r, ctx[j] \cup {q}, NoQueue, t, -1, 0, 1, 0)
        BY <1>1, <2>2, <2>3 DEF Deltas, Diff
      <4> QED
        BY <2>1, <2>2, <4>1, CountsChange, Zenon
    <3>2. /\ outstanding'[t] = outstanding[t] /\ reserved'[t] = reserved[t]
          /\ workQueue'[t] = workQueue[t] /\ releases'[t] = releases[t]
      BY <1>0, <1>1, <1>2, <2>3, FieldsAt, Zenon
    <3>3. Change(t, 0, 0, 0, 0, -1, 1, 0)
      BY <2>1, <3>1, <3>2, SameFields
    <3>4. KeepsBounds(t, 0, 0, 0, -1)
      BY <2>1, BoundsKept
    <3> QED
      BY <2>1, <3>3, <3>4, AccountsBalance
  <2>4. CASE t # q
    <3>1. Counts(t, 0, 0, 0, 0)
      <4>1. Deltas(j, "overflow", r, ctx[j] \cup {q}, NoQueue, t, 0, 0, 0, 0)
        BY <1>1, <2>2, <2>4 DEF Deltas, Diff
      <4> QED
        BY <2>1, <2>2, <4>1, CountsChange, Zenon
    <3>2. /\ outstanding'[t] = outstanding[t] /\ reserved'[t] = reserved[t]
          /\ workQueue'[t] = workQueue[t] /\ releases'[t] = releases[t]
      BY <1>0, <1>1, <1>2, <2>4, FieldsAt, Zenon
    <3>3. Change(t, 0, 0, 0, 0, 0, 0, 0)
      BY <2>1, <3>1, <3>2, SameFields
    <3>4. KeepsBounds(t, 0, 0, 0, 0)
      BY <2>1, BoundsKept
    <3> QED
      BY <2>1, <3>3, <3>4, AccountsBalance
  <2> QED
    BY <2>3, <2>4
<1> QED
  BY <1>3, <1>4, <1>5, <1>6, AccountsAgainPrime

LEMMA ReleaseStep ==
    ASSUME IInv, NEW q \in Queue, release(q)
    PROVE  IInv'
<1>0. TypeOK /\ JobsInOnePlace /\ JobsHoldUpstream
  BY AccountsAgain
<1>1. outstanding[q] > 0 /\ releases[q] > 0
  <2>1. Numbers(q) /\ Accounts(q)
    BY <1>0, NumbersAreNat, AccountsAgain
  <2>2. releases[q] > 0
    BY DEF release
  <2> QED
    BY <2>1, <2>2, AccountsSay, Zenon
<1>2. TypeOK'
  <2>1. outstanding' \in [Queue -> Nat] /\ releases' \in [Queue -> Nat]
    <3>1. outstanding \in [Queue -> Nat] /\ releases \in [Queue -> Nat]
      BY <1>0, Zenon DEF TypeOK
    <3> QED
      BY <1>1, <3>1 DEF release, Dec
  <2>2. spawns' \in [Queue -> Nat]
    BY <1>0, CallTypes, Zenon DEF release
  <2> QED
    BY <1>0, <2>1, <2>2, Zenon DEF TypeOK, release, jobs
<1>3. \A t, x : At(t, x)' = At(t, x) /\ Holding(t)' = Holding(t) /\ Stalling(t)' = Stalling(t)
  BY DEF At, Holding, Stalling, release, jobs
<1>4. JobsInOnePlace' /\ JobsHoldUpstream'
  BY <1>0, <1>3 DEF JobsInOnePlace, JobsHoldUpstream, release, jobs
<1>5. ASSUME NEW t \in Queue
      PROVE  Accounts(t)'
  <2>1. Numbers(t) /\ Accounts(t)
    BY <1>0, NumbersAreNat, AccountsAgain
  <2>2. /\ Cardinality(At(t, "running"))' = Cardinality(At(t, "running"))
        /\ Cardinality(At(t, "reserved"))' = Cardinality(At(t, "reserved"))
        /\ Cardinality(Holding(t))' = Cardinality(Holding(t))
        /\ Cardinality(Stalling(t))' = Cardinality(Stalling(t))
        /\ workQueue'[t] = workQueue[t] /\ reserved'[t] = reserved[t]
    BY <1>3 DEF release
  <2>3. CASE t = q
    <3>1. outstanding'[t] = outstanding[t] - 1 /\ releases'[t] = releases[t] - 1
      BY <1>0, <2>3 DEF release, Dec, TypeOK
    <3>2. Change(t, -1, 0, 0, -1, 0, 0, 0)
      <4>1. Counts(t, 0, 0, 0, 0)
        <5>1. /\ Cardinality(At(t, "running")) \in Nat /\ Cardinality(At(t, "reserved")) \in Nat
              /\ Cardinality(Holding(t)) \in Nat /\ Cardinality(Stalling(t)) \in Nat
          BY <2>1, Zenon DEF Numbers
        <5>2. \A x \in Nat : x = x + 0
          OBVIOUS
        <5> QED
          BY <2>2, <5>1, <5>2, Zenon DEF Counts
      <4> QED
        BY <2>2, <3>1, <4>1, Zenon DEF Change, Grows
    <3>3. KeepsBounds(t, -1, 0, 0, 0)
      BY <2>1, BoundsKept
    <3> QED
      BY <2>1, <3>2, <3>3, AccountsBalance
  <2>4. CASE t # q
    <3>1. outstanding'[t] = outstanding[t] /\ releases'[t] = releases[t]
      BY <1>0, <2>4 DEF release, Dec, TypeOK
    <3> QED
      BY <2>1, <2>2, <3>1 DEF Accounts
  <2> QED
    BY <2>3, <2>4
<1> QED
  BY <1>2, <1>4, <1>5, AccountsAgainPrime

\* the head of _overflowQueue goes to the end of _workQueue
LEMMA TransferPlaces ==
    ASSUME TypeOK, JobsInOnePlace, NEW q \in Queue, overflowQueue[q] # << >>,
           NEW j, j = Head(overflowQueue[q]),
           Move(j, "queued", q, ctx[j], NoQueue),
           workQueue' = Push(workQueue, q, j),
           overflowQueue' = [overflowQueue EXCEPT ![q] = Tail(@)]
    PROVE  /\ JobsInOnePlace'
           /\ workQueue' \in [Queue -> Seq(Job)] /\ overflowQueue' \in [Queue -> Seq(Job)]
           /\ j \in Job /\ phase[j] = "overflow" /\ at[j] = q
<1>0. overflowQueue[q] \in Seq(Job) /\ workQueue[q] \in Seq(Job)
  BY DEF TypeOK
<1>1. /\ Distinct(Tail(overflowQueue[q]))
      /\ Within(Tail(overflowQueue[q]), At(q, "overflow") \ {j})
      /\ Tail(overflowQueue[q]) \in Seq(Job)
      /\ j \in At(q, "overflow") /\ j \in Job
  BY <1>0, PlacesAgain, TailDistinct, Zenon
<1>2. phase[j] = "overflow" /\ at[j] = q
  BY <1>1 DEF At
<1>3. \A t, x : At(t, x)' = IF "queued" = x /\ q = t THEN At(t, x) \cup {j} ELSE At(t, x) \ {j}
  BY <1>1, MoveAt
<1>4. /\ workQueue' = [workQueue EXCEPT ![q] = Append(workQueue[q], j)]
      /\ overflowQueue' = [overflowQueue EXCEPT ![q] = Tail(overflowQueue[q])]
  BY DEF Push
<1>5. ASSUME NEW t \in Queue
      PROVE  /\ Within(workQueue'[t], At(t, "queued")') /\ Distinct(workQueue'[t])
             /\ Within(overflowQueue'[t], At(t, "overflow")') /\ Distinct(overflowQueue'[t])
  <2>1. j \notin At(t, "queued") /\ (t # q => j \notin At(t, "overflow"))
    BY <1>2 DEF At
  <2>2. CASE t = q
    <3>1. workQueue'[t] = Append(workQueue[q], j) /\ overflowQueue'[t] = Tail(overflowQueue[q])
      BY <1>4, <2>2 DEF TypeOK
    <3>2. At(t, "queued")' = At(q, "queued") \cup {j} /\ At(t, "overflow")' = At(q, "overflow") \ {j}
      BY <1>3, <2>2
    <3>3. /\ Within(Append(workQueue[q], j), At(q, "queued") \cup {j})
          /\ Distinct(Append(workQueue[q], j))
      BY <1>0, <1>1, <2>1, <2>2, PlacesAgain, AppendDistinct, Zenon
    <3> QED
      BY <1>1, <3>1, <3>2, <3>3, Zenon
  <2>3. CASE t # q
    <3>1. workQueue'[t] = workQueue[t] /\ overflowQueue'[t] = overflowQueue[t]
      BY <1>4, <2>3, Zenon DEF TypeOK
    <3>2. At(t, "queued")' = At(t, "queued") /\ At(t, "overflow")' = At(t, "overflow")
      BY <1>3, <2>1, <2>3, Zenon
    <3> QED
      BY <3>1, <3>2, PlacesAgain
  <2> QED
    BY <2>2, <2>3, Zenon
<1>6. workQueue' \in [Queue -> Seq(Job)] /\ overflowQueue' \in [Queue -> Seq(Job)]
  <2>1. Append(workQueue[q], j) \in Seq(Job)
    BY <1>0, <1>1, AppendIsSeq, Zenon
  <2>2. workQueue' \in [Queue -> Seq(Job)]
    BY <1>4, <2>1, Zenon DEF TypeOK
  <2>3. overflowQueue' \in [Queue -> Seq(Job)]
    BY <1>1, <1>4 DEF TypeOK
  <2> QED
    BY <2>2, <2>3
<1> QED
  BY <1>1, <1>2, <1>5, <1>6, PlacesAgainPrime

\* the head of _workQueue leaves it
LEMMA StartPlaces ==
    ASSUME TypeOK, JobsInOnePlace, NEW q \in Queue, workQueue[q] # << >>,
           NEW j, j = Head(workQueue[q]),
           Move(j, "running", q, ctx[j], NoQueue),
           workQueue' = [workQueue EXCEPT ![q] = Tail(@)],
           overflowQueue' = overflowQueue
    PROVE  /\ JobsInOnePlace'
           /\ workQueue' \in [Queue -> Seq(Job)]
           /\ j \in Job /\ phase[j] = "queued" /\ at[j] = q
<1>0. workQueue[q] \in Seq(Job)
  BY DEF TypeOK
<1>1. /\ Distinct(Tail(workQueue[q]))
      /\ Within(Tail(workQueue[q]), At(q, "queued") \ {j})
      /\ Tail(workQueue[q]) \in Seq(Job)
      /\ j \in At(q, "queued") /\ j \in Job
  BY <1>0, PlacesAgain, TailDistinct, Zenon
<1>2. phase[j] = "queued" /\ at[j] = q
  BY <1>1 DEF At
<1>3. \A t, x : At(t, x)' = IF "running" = x /\ q = t THEN At(t, x) \cup {j} ELSE At(t, x) \ {j}
  BY <1>1, MoveAt
<1>5. ASSUME NEW t \in Queue
      PROVE  /\ Within(workQueue'[t], At(t, "queued")') /\ Distinct(workQueue'[t])
             /\ Within(overflowQueue'[t], At(t, "overflow")') /\ Distinct(overflowQueue'[t])
  <2>1. j \notin At(t, "overflow") /\ (t # q => j \notin At(t, "queued"))
    BY <1>2 DEF At
  <2>2. At(t, "overflow")' = At(t, "overflow") /\ At(t, "queued")' = At(t, "queued") \ {j}
    BY <1>3, <2>1, Zenon
  <2>3. CASE t = q
    <3>1. workQueue'[t] = Tail(workQueue[q])
      BY <2>3 DEF TypeOK
    <3> QED
      BY <1>1, <2>2, <2>3, <3>1, PlacesAgain, Zenon
  <2>4. CASE t # q
    <3>1. workQueue'[t] = workQueue[t] /\ At(t, "queued")' = At(t, "queued")
      BY <2>1, <2>2, <2>4, Zenon DEF TypeOK
    <3> QED
      BY <2>2, <3>1, PlacesAgain
  <2> QED
    BY <2>3, <2>4
<1>6. workQueue' \in [Queue -> Seq(Job)]
  BY <1>0, <1>1 DEF TypeOK
<1> QED
  BY <1>1, <1>2, <1>5, <1>6, PlacesAgainPrime

LEMMA TransferStep ==
    ASSUME IInv, NEW q \in Queue, transferOverflow(q)
    PROVE  IInv'
<1> DEFINE j == Head(overflowQueue[q])
<1>0. TypeOK /\ JobsInOnePlace /\ JobsHoldUpstream
  BY AccountsAgain
<1>1. /\ Move(j, "queued", q, ctx[j], NoQueue)
      /\ overflowQueue[q] # << >>
      /\ workQueue' = Push(workQueue, q, j)
      /\ overflowQueue' = [overflowQueue EXCEPT ![q] = Tail(@)]
      /\ ReleaseAll({origin[j]})
      /\ UNCHANGED <<outstanding, reserved, isStarted, mutex, spawns>>
  BY DEF transferOverflow, CanTransfer
<1>2. HasRoom(q)
  <2>1. Numbers(q) /\ Accounts(q) /\ size(q) < maxSize[q]
    BY <1>0, NumbersAreNat, AccountsAgain DEF transferOverflow, CanTransfer
  <2> QED
    BY <2>1, AccountsSay, Zenon
<1> HIDE DEF j
<1>3. /\ JobsInOnePlace'
      /\ workQueue' \in [Queue -> Seq(Job)] /\ overflowQueue' \in [Queue -> Seq(Job)]
      /\ j \in Job /\ phase[j] = "overflow" /\ at[j] = q
  BY <1>0, <1>1, TransferPlaces, Zenon DEF j
<1>4. TypeOK'
  <2>1. releases' \in [Queue -> Nat]
    BY <1>0, <1>1, CallTypes, Zenon
  <2>2. /\ phase' \in [Job -> Phase] /\ at' \in [Job -> Queue \cup {NoQueue}]
        /\ ctx' \in [Job -> SUBSET Queue] /\ origin' \in [Job -> Queue \cup {NoQueue}]
    <3>1. ctx[j] \in SUBSET Queue
      BY <1>0, <1>3, Zenon DEF TypeOK
    <3> QED
      BY <1>0, <1>1, <1>3, <3>1, MoveTypes, Zenon DEF Phase
  <2> QED
    BY <1>0, <1>1, <1>3, <2>1, <2>2, Zenon DEF TypeOK
<1>5. JobsHoldUpstream'
  BY <1>0, <1>1, <1>3, Zenon DEF JobsHoldUpstream, Move, TypeOK
<1>6. ASSUME NEW t \in Queue
      PROVE  Accounts(t)'
  <2>1. Numbers(t) /\ Accounts(t)
    BY <1>0, NumbersAreNat, AccountsAgain
  <2>2. Counted(j, "queued", q, ctx[j], NoQueue, t) /\ t # NoQueue
    BY <1>0, <1>1, <1>3, MoveCounts, WorkQueueAssumption
  <2>3. outstanding'[t] = outstanding[t] /\ reserved'[t] = reserved[t]
    BY <1>1
  <2>4. PICK k \in {0, 1}, d \in {0, -1} :
            k + d = 0 /\ releases'[t] = releases[t] + k /\ Counts(t, 0, 0, 0, d)
    <3>1. CASE origin[j] = t
      <4>1. releases'[t] = releases[t] + 1
        BY <1>0, <1>1, <3>1 DEF ReleaseAll, TypeOK
      <4>2. Deltas(j, "queued", q, ctx[j], NoQueue, t, 0, 0, 0, -1)
        BY <1>3, <2>2, <3>1 DEF Deltas, Diff
      <4>3. Counts(t, 0, 0, 0, -1)
        BY <2>1, <2>2, <4>2, CountsChange
      <4> QED
        BY <4>1, <4>3
    <3>2. CASE origin[j] # t
      <4>1. releases'[t] = releases[t] + 0
        <5>1. releases'[t] = releases[t]
          BY <1>1, <3>2 DEF ReleaseAll
        <5>2. releases[t] \in Nat
          BY <2>1, Zenon DEF Numbers
        <5> QED
          BY <5>1, <5>2
      <4>2. Deltas(j, "queued", q, ctx[j], NoQueue, t, 0, 0, 0, 0)
        BY <1>3, <2>2, <3>2 DEF Deltas, Diff
      <4>3. Counts(t, 0, 0, 0, 0)
        BY <2>1, <2>2, <4>2, CountsChange
      <4> QED
        BY <4>1, <4>3
    <3> QED
      BY <3>1, <3>2
  <2>5. k \in Int /\ d \in Int /\ 0 = 0 + k + 0 + d
    BY <2>4
  <2>6. CASE t = q
    <3>1. Len(workQueue'[t]) = Len(workQueue[t]) + 1
      BY <1>0, <1>1, <2>6 DEF Push, TypeOK
    <3>2. Change(t, 0, 0, 1, k, 0, 0, d)
      BY <2>3, <2>4, <3>1, Zenon DEF Change, Grows
    <3>3. KeepsBounds(t, 0, 0, 1, 0)
      BY <1>2, <2>1, <2>6, BoundsKept
    <3> QED
      BY <2>1, <2>5, <3>2, <3>3, AccountsBalance
  <2>7. CASE t # q
    <3>1. workQueue'[t] = workQueue[t]
      BY <1>0, <1>1, <2>7 DEF Push, TypeOK
    <3>2. Change(t, 0, 0, 0, k, 0, 0, d)
      BY <2>3, <2>4, <3>1, Zenon DEF Change, Grows
    <3>3. KeepsBounds(t, 0, 0, 0, 0)
      BY <2>1, BoundsKept
    <3> QED
      BY <2>1, <2>5, <3>2, <3>3, AccountsBalance
  <2> QED
    BY <2>6, <2>7
<1> QED
  BY <1>3, <1>4, <1>5, <1>6, AccountsAgainPrime

LEMMA StartStep ==
    ASSUME IInv, NEW q \in Queue, startItem(q)
    PROVE  IInv'
<1> DEFINE j == Head(workQueue[q])
<1>0. TypeOK /\ JobsInOnePlace /\ JobsHoldUpstream
  BY AccountsAgain
<1>1. /\ Move(j, "running", q, ctx[j], NoQueue)
      /\ workQueue[q] # << >> /\ outstanding[q] < maxOutstanding[q]
      /\ workQueue' = [workQueue EXCEPT ![q] = Tail(@)]
      /\ outstanding' = Inc(outstanding, q)
      /\ UNCHANGED <<overflowQueue, reserved, isStarted, mutex, spawns, releases>>
  BY DEF startItem, CanStart
<1> HIDE DEF j
<1>2. /\ JobsInOnePlace' /\ workQueue' \in [Queue -> Seq(Job)]
      /\ j \in Job /\ phase[j] = "queued" /\ at[j] = q
  BY <1>0, <1>1, StartPlaces, Zenon DEF j
<1>3. origin[j] = NoQueue
  BY <1>0, <1>2 DEF JobsHoldUpstream
<1>4. TypeOK'
  BY <1>0, <1>1, <1>2, MoveTypes, CallTypes, Zenon DEF TypeOK, Phase
<1>5. JobsHoldUpstream'
  BY <1>0, <1>1, <1>2, Zenon DEF JobsHoldUpstream, Move, TypeOK
<1>6. ASSUME NEW t \in Queue
      PROVE  Accounts(t)'
  <2>1. Numbers(t) /\ Accounts(t)
    BY <1>0, NumbersAreNat, AccountsAgain
  <2>2. Counted(j, "running", q, ctx[j], NoQueue, t) /\ t # NoQueue
    BY <1>0, <1>1, <1>2, MoveCounts, WorkQueueAssumption
  <2>3. reserved'[t] = reserved[t] /\ releases'[t] = releases[t]
    BY <1>1
  <2>4. CASE t = q
    <3>1. Counts(t, 1, 0, 0, 0)
      <4>1. Deltas(j, "running", q, ctx[j], NoQueue, t, 1, 0, 0, 0)
        BY <1>2, <1>3, <2>2, <2>4 DEF Deltas, Diff
      <4> QED
        BY <2>1, <2>2, <4>1, CountsChange
    <3>2. Len(workQueue'[t]) = Len(workQueue[t]) + (-1) /\ outstanding'[t] = outstanding[t] + 1
      BY <1>0, <1>1, <2>4 DEF Inc, TypeOK
    <3>3. Change(t, 1, 0, -1, 0, 1, 0, 0)
      BY <2>3, <3>1, <3>2, Zenon DEF Change, Grows
    <3>4. KeepsBounds(t, 1, 0, -1, 1)
      BY <1>1, <2>1, <2>4, BoundsKept
    <3> QED
      BY <2>1, <3>3, <3>4, AccountsBalance
  <2>5. CASE t # q
    <3>1. Counts(t, 0, 0, 0, 0)
      <4>1. Deltas(j, "running", q, ctx[j], NoQueue, t, 0, 0, 0, 0)
        BY <1>2, <1>3, <2>2, <2>5 DEF Deltas, Diff
      <4> QED
        BY <2>1, <2>2, <4>1, CountsChange
    <3>2. workQueue'[t] = workQueue[t] /\ outstanding'[t] = outstanding[t]
      BY <1>0, <1>1, <2>5 DEF Inc, TypeOK
    <3>3. Change(t, 0, 0, 0, 0, 0, 0, 0)
      BY <2>3, <3>1, <3>2, Zenon DEF Change, Grows
    <3>4. KeepsBounds(t, 0, 0, 0, 0)
      BY <2>1, BoundsKept
    <3> QED
      BY <2>1, <3>3, <3>4, AccountsBalance
  <2> QED
    BY <2>4, <2>5
<1> QED
  BY <1>2, <1>4, <1>5, <1>6, AccountsAgainPrime

--------------------------------------------------------------------------------
(* The theorems *)

LEMMA NextIInv == IInv /\ [Next]_vars => IInv'
<1> SUFFICES ASSUME IInv, [Next]_vars PROVE IInv'
  OBVIOUS
<1>0. TypeOK
  BY DEF IInv
<1>1. CASE UNCHANGED vars
  <2>1. TypeOK'
    BY <1>0, <1>1 DEF TypeOK, vars, queues, jobs
  <2> QED
    BY <1>1, <2>1, FrameStep DEF vars, queues
<1>2. ASSUME NEW q \in Queue, start(q) \/ stop(q) \/ spawn(q) \/ transferred(q) \/ spawned(q)
      PROVE  IInv'
  <2>1. TypeOK'
    <3>1. CASE start(q) \/ stop(q)
      <4>1. isStarted' \in [Queue -> BOOLEAN]
        BY <1>0, <3>1, Zenon DEF TypeOK, start, stop
      <4>2. spawns' \in [Queue -> Nat]
        <5>1. spawns' = Inc(spawns, q) \/ spawns' = spawns
          BY <3>1 DEF start, stop
        <5>2. spawns \in [Queue -> Nat]
          BY <1>0 DEF TypeOK
        <5>3. Inc(spawns, q) \in [Queue -> Nat]
          BY <5>2 DEF Inc
        <5> QED
          BY <5>1, <5>2, <5>3
      <4> QED
        BY <1>0, <3>1, <4>1, <4>2, Zenon DEF TypeOK, start, stop, jobs
    <3>2. CASE spawn(q)
      <4>1. spawns \in [Queue -> Nat] /\ spawns[q] > 0 /\ spawns' = Dec(spawns, q)
        BY <1>0, <3>2, Zenon DEF TypeOK, spawn
      <4>2. spawns' \in [Queue -> Nat]
        BY <4>1, IncDecTypes
      <4>3. mutex' \in [Queue -> {"free", "transfer", "start"}]
        BY <1>0, <3>2, Zenon DEF TypeOK, spawn
      <4> QED
        BY <1>0, <3>2, <4>2, <4>3, Zenon DEF TypeOK, spawn, queues, jobs
    <3>3. CASE transferred(q) \/ spawned(q)
      BY <1>0, <3>3, Zenon DEF TypeOK, transferred, spawned, queues, jobs
    <3> QED
      BY <1>2, <3>1, <3>2, <3>3
  <2> QED
    BY <1>2, <2>1, FrameStep DEF start, stop, spawn, transferred, spawned, queues
<1>3. ASSUME NEW q \in Queue, release(q) \/ transferOverflow(q) \/ startItem(q)
      PROVE  IInv'
  BY <1>3, ReleaseStep, TransferStep, StartStep
<1>4. ASSUME NEW q \in Queue, NEW j \in Job,
             \/ enqueue(q, j) \/ reserve(q, j) \/ unreserve(q, j) \/ enqueueReserved(q, j)
             \/ finish(q, j)
             \/ reserveOwn(q, j) \/ reEnqueueOwn(q, j) \/ reEnqueueOwnFull(q, j)
      PROVE  IInv'
  BY <1>4, EnqueueStep, ReserveStep, UnreserveStep, EnqueueReservedStep, FinishStep,
     ReserveOwnStep, ReEnqueueOwnStep, ReEnqueueOwnFullStep
<1>5. ASSUME NEW q \in Queue, NEW r \in Queue, NEW j \in Job,
             reEnqueue(q, r, j) \/ reEnqueueSerialized(q, r, j)
      PROVE  IInv'
  BY <1>5, ReEnqueueStep, ReEnqueueFullStep, ReEnqueueSerializedStep, ReEnqueueSerializedFullStep
<1> QED
  BY <1>1, <1>2, <1>3, <1>4, <1>5 DEF Next

\* IInv holds in every state the queues reach: the books of every queue balance
\* and every job that runs has a place to come back to.
THEOREM AccountsInvariant == Spec => []IInv
<1>1. Init => IInv
  BY InitIInv
<1>2. IInv /\ [Next]_vars => IInv'
  BY NextIInv
<1> QED
  BY <1>1, <1>2, PTL DEF Spec

\* The assertions on _size() and _outstanding that the methods of WorkQueue make
\* never fail, whatever the clients do and however the threads interleave.
THEOREM SizeIsBounded == Spec => []SizeBounded
<1>1. IInv => SizeBounded
  <2> SUFFICES ASSUME IInv, NEW q \in Queue
               PROVE  size(q) <= maxSize[q] + outstanding[q] /\ outstanding[q] <= maxOutstanding[q]
    BY DEF SizeBounded
  <2>1. Numbers(q) /\ Accounts(q)
    BY NumbersAreNat, AccountsAgain
  <2> QED
    BY <2>1, AccountsSay
<1> QED
  BY <1>1, AccountsInvariant, PTL

\* Each unit of _outstanding and each reservation has exactly one owner: an item
\* is not released twice, nor is its release lost when it is pushed back.
THEOREM UnitsAreOwned == Spec => [](OutstandingIsOwned /\ ReservationsAreOwned)
<1>1. IInv => OutstandingIsOwned /\ ReservationsAreOwned
  BY DEF IInv
<1> QED
  BY <1>1, AccountsInvariant, PTL

\* A queue never has more than _maxOutstanding unfinished items, those that have
\* been serialized to other queues included.
THEOREM SerializationHolds == Spec => []SerializedUntilDone
<1>1. IInv => SerializedUntilDone
  <2> SUFFICES ASSUME IInv, NEW q \in Queue
               PROVE  Cardinality(At(q, "running")) + Cardinality(Holding(q)) <= maxOutstanding[q]
    BY DEF SerializedUntilDone
  <2>1. Numbers(q) /\ Accounts(q)
    BY NumbersAreNat, AccountsAgain
  <2> QED
    BY <2>1, AccountsSay
<1> QED
  BY <1>1, AccountsInvariant, PTL

\* A job is in one queue, once.
THEOREM OnePlace == Spec => [](TypeOK /\ JobsInOnePlace)
<1>1. IInv => TypeOK /\ JobsInOnePlace
  BY DEF IInv
<1> QED
  BY <1>1, AccountsInvariant, PTL

--------------------------------------------------------------------------------
(* No wakeup is lost *)

\* A started queue whose spawn() is past the overflow queue has moved what it
\* could; one with no spawn() to come has also started what it could.
Awake(q) ==
    /\ isStarted[q]
    /\ mutex[q] = "start" => ~CanTransfer(q)
    /\ Quiet(q) => ~CanTransfer(q) /\ ~CanStart(q)

AllAwake == \A q \in Queue : Awake(q)

\* the queue q is left alone by the step
SameQueue(q) ==
    /\ workQueue'[q] = workQueue[q] /\ overflowQueue'[q] = overflowQueue[q]
    /\ outstanding'[q] = outstanding[q] /\ reserved'[q] = reserved[q]
    /\ isStarted'[q] = isStarted[q] /\ mutex'[q] = mutex[q] /\ spawns'[q] = spawns[q]

LEMMA SameQueueAwake ==
    ASSUME NEW q, Awake(q), SameQueue(q)
    PROVE  Awake(q)'
  BY DEF Awake, SameQueue, Quiet, CanTransfer, CanStart, size

\* a queue that a call has left with a spawn() to come
LEMMA SpawnComes ==
    ASSUME NEW q, isStarted'[q], mutex'[q] = "free", spawns'[q] # 0
    PROVE  Awake(q)'
  BY DEF Awake, Quiet

\* a queue that is only fuller than it was
LEMMA FullerAwake ==
    ASSUME NEW q \in Queue, TypeOK, Awake(q), mutex[q] = "free", mutex'[q] = "free",
           isStarted'[q] = isStarted[q], spawns'[q] = spawns[q],
           workQueue'[q] = workQueue[q], outstanding'[q] = outstanding[q],
           reserved'[q] \in Nat, reserved'[q] >= reserved[q],
           overflowQueue'[q] = overflowQueue[q] \/ ~HasRoom(q)
    PROVE  Awake(q)'
<1>1. /\ outstanding[q] \in Nat /\ reserved[q] \in Nat /\ Len(workQueue[q]) \in Nat
      /\ maxSize[q] \in Nat
  BY WorkQueueAssumption DEF TypeOK
<1>2. Quiet(q)' => Quiet(q)
  BY DEF Quiet
<1>3. Quiet(q) => ~CanStart(q)'
  BY DEF Awake, CanStart
<1>4. Quiet(q) => ~CanTransfer(q)'
  BY <1>1 DEF Awake, CanTransfer, HasRoom, size
<1> QED
  BY <1>2, <1>3, <1>4 DEF Awake

LEMMA OthersAwake ==
    ASSUME AllAwake, NEW q \in Queue, Awake(q)', \A p \in Queue \ {q} : SameQueue(p)
    PROVE  AllAwake'
<1>1. ASSUME NEW p \in Queue PROVE Awake(p)'
  BY SameQueueAwake DEF AllAwake
<1> QED
  BY <1>1 DEF AllAwake

\* the calls that add an item or free a slot: spawn() follows the unlock
LEMMA CallAwake ==
    ASSUME TypeOK, AllAwake, NEW q \in Queue, mutex[q] = "free",
           \/ release(q)
           \/ \E j \in Job : enqueue(q, j) \/ enqueueReserved(q, j)
           \/ \E p \in Queue, j \in Job :
                 (reEnqueue(p, q, j) \/ reEnqueueSerialized(p, q, j)) /\ HasRoom(q)
    PROVE  AllAwake'
<1>1. /\ isStarted' = isStarted /\ mutex' = mutex /\ spawns' = Inc(spawns, q)
      /\ \A p \in Queue \ {q} : /\ workQueue'[p] = workQueue[p]
                                /\ overflowQueue'[p] = overflowQueue[p]
                                /\ outstanding'[p] = outstanding[p]
                                /\ reserved'[p] = reserved[p]
  BY Zenon DEF TypeOK, release, enqueue, enqueueReserved, reEnqueue, reEnqueueSerialized, Push, Inc, Dec
<1>2. spawns'[q] = spawns[q] + 1 /\ \A p \in Queue \ {q} : spawns'[p] = spawns[p]
  BY <1>1, Zenon DEF TypeOK, Inc
<1>3. spawns'[q] # 0
  BY <1>2 DEF TypeOK
<1>4. Awake(q)'
  BY <1>1, <1>3, SpawnComes, Zenon DEF AllAwake, Awake
<1>5. \A p \in Queue \ {q} : SameQueue(p)
  BY <1>1, <1>2, Zenon DEF SameQueue
<1> QED
  BY <1>4, <1>5, OthersAwake

\* the calls that only fill the queue
LEMMA FillAwake ==
    ASSUME TypeOK, AllAwake, NEW q \in Queue, mutex[q] = "free",
           \/ \E j \in Job : reserve(q, j) \/ reserveOwn(q, j)
           \/ \E p \in Queue, j \in Job :
                 (reEnqueue(p, q, j) \/ reEnqueueSerialized(p, q, j)) /\ ~HasRoom(q)
    PROVE  AllAwake'
<1>1. /\ isStarted' = isStarted /\ mutex' = mutex /\ spawns' = spawns
      /\ workQueue' = workQueue /\ outstanding' = outstanding
      /\ reserved' = reserved \/ reserved' = Inc(reserved, q)
      /\ overflowQueue'[q] = overflowQueue[q] \/ ~HasRoom(q)
      /\ \A p \in Queue \ {q} : overflowQueue'[p] = overflowQueue[p]
  BY Zenon DEF TypeOK, reserve, reserveOwn, reEnqueue, reEnqueueSerialized, Push
<1>2. /\ reserved'[q] \in Nat /\ reserved'[q] >= reserved[q]
      /\ \A p \in Queue \ {q} : reserved'[p] = reserved[p]
  BY <1>1 DEF TypeOK, Inc
<1>3. Awake(q)'
  BY <1>1, <1>2, FullerAwake DEF AllAwake
<1>4. \A p \in Queue \ {q} : SameQueue(p)
  BY <1>1, <1>2 DEF SameQueue
<1> QED
  BY <1>3, <1>4, OthersAwake

\* the steps of spawn() itself
LEMMA SpawnAwake ==
    ASSUME TypeOK, AllAwake, NEW q \in Queue,
           spawn(q) \/ transferOverflow(q) \/ transferred(q) \/ startItem(q) \/ spawned(q)
    PROVE  AllAwake'
<1>1. /\ isStarted' = isStarted
      /\ \A p \in Queue \ {q} : SameQueue(p)
  BY DEF TypeOK, spawn, transferOverflow, transferred, startItem, spawned, queues, SameQueue,
         Push, Inc, Dec
<1> SUFFICES Awake(q)'
  BY <1>1, OthersAwake
<1>2. isStarted[q]
  BY DEF AllAwake, Awake
<1>3. CASE spawn(q)
  BY <1>1, <1>2, <1>3 DEF Awake, Quiet, spawn, TypeOK
<1>4. CASE transferOverflow(q)
  BY <1>1, <1>2, <1>4, Zenon DEF Awake, Quiet, transferOverflow
<1>5. CASE transferred(q)
  BY <1>1, <1>2, <1>5 DEF Awake, Quiet, transferred, TypeOK, queues, CanTransfer, size
<1>6. CASE startItem(q)
  <2>1. /\ Len(workQueue'[q]) = Len(workQueue[q]) - 1
        /\ outstanding'[q] = outstanding[q] + 1 /\ reserved'[q] = reserved[q]
        /\ overflowQueue'[q] = overflowQueue[q] /\ mutex'[q] = "start" /\ mutex[q] = "start"
    BY <1>6 DEF startItem, CanStart, TypeOK, Inc
  <2>2. outstanding[q] \in Nat /\ reserved[q] \in Nat /\ Len(workQueue[q]) \in Nat
    BY DEF TypeOK
  <2>3. ~CanTransfer(q)
    BY <2>1 DEF AllAwake, Awake
  <2>4. ~CanTransfer(q)'
    BY <2>1, <2>2, <2>3 DEF CanTransfer, size
  <2> QED
    BY <1>1, <1>2, <2>1, <2>4 DEF Awake, Quiet
<1>7. CASE spawned(q)
  <2>1. ~CanTransfer(q)' /\ ~CanStart(q)'
    BY <1>7 DEF AllAwake, Awake, spawned, queues, CanTransfer, CanStart, size
  <2> QED
    BY <1>1, <1>2, <2>1 DEF Awake
<1> QED
  BY <1>3, <1>4, <1>5, <1>6, <1>7

LEMMA AwakeStep ==
    ASSUME TypeOK, AllAwake, Next, ~Disorderly
    PROVE  AllAwake'
<1>1. ASSUME NEW q \in Queue, NEW j \in Job, finish(q, j)
      PROVE  AllAwake'
  <2>1. \A p \in Queue : SameQueue(p)
    BY <1>1, Zenon DEF finish, queues, SameQueue
  <2> QED
    BY <2>1, SameQueueAwake, Zenon DEF AllAwake
<1>2. ASSUME NEW q \in Queue, release(q)
      PROVE  AllAwake'
  BY <1>2, CallAwake, Zenon DEF release
<1>3. ASSUME NEW q \in Queue, NEW j \in Job, enqueue(q, j) \/ enqueueReserved(q, j)
      PROVE  AllAwake'
  BY <1>3, CallAwake, Zenon DEF enqueue, enqueueReserved, Called
<1>4. ASSUME NEW q \in Queue, NEW j \in Job, reserve(q, j) \/ reserveOwn(q, j)
      PROVE  AllAwake'
  BY <1>4, FillAwake, Zenon DEF reserve, reserveOwn, Called
<1>5. ASSUME NEW p \in Queue, NEW q \in Queue, NEW j \in Job,
             reEnqueue(p, q, j) \/ reEnqueueSerialized(p, q, j)
      PROVE  AllAwake'
  <2>1. mutex[q] = "free"
    BY <1>5 DEF reEnqueue, reEnqueueSerialized, Called
  <2> QED
    BY <1>5, <2>1, CallAwake, FillAwake
<1> QED
  BY <1>1, <1>2, <1>3, <1>4, <1>5, SpawnAwake DEF Next, Disorderly

\* As long as the clients are orderly every queue is awake.
THEOREM OrderlyIsAwake == mcSafe => [](orderly => AllAwake)
<1>1. mcInit => IInv /\ (orderly => AllAwake)
  BY InitIInv DEF mcInit, Init, AllAwake, Awake, Quiet, CanTransfer, CanStart
<1>2. IInv /\ [mcNext]_<<vars, orderly>> => IInv'
  BY NextIInv, Zenon DEF mcNext
<1>3. ASSUME IInv, orderly => AllAwake, [mcNext]_<<vars, orderly>>
      PROVE  (orderly => AllAwake)'
  <2>1. CASE mcNext
    BY <1>3, <2>1, AwakeStep, Zenon DEF mcNext, IInv
  <2>2. CASE UNCHANGED <<vars, orderly>>
    <3>1. orderly' = orderly /\ \A q \in Queue : SameQueue(q)
      BY <2>2, Zenon DEF vars, queues, SameQueue
    <3> QED
      BY <1>3, <3>1, SameQueueAwake, Zenon DEF AllAwake
  <2> QED
    BY <1>3, <2>1, <2>2, Zenon
<1> QED
  BY <1>1, <1>2, <1>3, PTL DEF mcSafe

\* A queue with items and free slots has a spawn() to come, however its methods
\* interleave: no path of WorkQueue that frees a slot or adds an item forgets it.
THEOREM NoItemIsForgotten == mcSafe => []OrderlyNeverStalls
<1>1. (orderly => AllAwake) => OrderlyNeverStalls
  BY Zenon DEF AllAwake, Awake, OrderlyNeverStalls, StallsOnlyWhenBusy
<1> QED
  BY <1>1, OrderlyIsAwake, PTL

\* An item of the overflow queue is not left there once the queue has room.
THEOREM NoOverflowIsForgotten == mcSafe => []OrderlyOverflowMoves
<1>1. (orderly => AllAwake) => OrderlyOverflowMoves
  BY Zenon DEF AllAwake, Awake, OrderlyOverflowMoves, OverflowMovesWhenRoom
<1> QED
  BY <1>1, OrderlyIsAwake, PTL
================================================================================
