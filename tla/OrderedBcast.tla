----------------------------- MODULE OrderedBcast ------------------------------
(***************************************************************************)
(* Totally ordered broadcast of src/network/OrderedBcast.cpp: the          *)
(* LivenessTracker, by which the instances agree on a view of the cluster, *)
(* and the OrderedBcastManager, which orders requests by Lamport clocks    *)
(* inside a view.                                                          *)
(*                                                                         *)
(* The manager runs one work item at a time (_wq is a FIFO), so a handler  *)
(* is a function from the state of an instance to its next state and the   *)
(* messages it sends.  An item waits in the channel it came through until  *)
(* it runs; the channel from an instance to itself holds the liveness      *)
(* notifications of its failure detector, which is outside the repository. *)
(***************************************************************************)
EXTENDS Integers, Sequences, SequencesExt, FiniteSets, FiniteSetsExt, TLC

CONSTANT Plans
(***************************************************************************)
(* What happens in a behaviour, and its bounds.  A plan has                *)
(*   instances   the instances of the cluster: a set of naturals           *)
(*   detections  how many livenesses the detector of each instance reports *)
(*   requests    how many requests each instance broadcasts                *)
(*   liveSets    the sets of live instances a detector may report          *)
(*   accurate    TRUE when only crashed instances are reported dead        *)
(*   losses, crashes   how many connections break and instances crash      *)
(***************************************************************************)

ASSUME OrderedBcastAssumption ==
    \A p \in Plans :
        /\ p.instances \subseteq Nat /\ IsFiniteSet(p.instances) /\ p.instances # {}
        /\ p.detections \in [p.instances -> Nat] /\ p.requests \in [p.instances -> Nat]
        /\ p.liveSets \subseteq SUBSET p.instances /\ p.accurate \in BOOLEAN
        /\ p.losses \in Nat /\ p.crashes \in Nat

VARIABLES
    plan,           \* the plan of this behaviour
    node,           \* the LivenessTracker and OrderedBcastManager of each instance
    net,            \* net[i][j]: what i sent to j and j has not processed
    cluster,        \* Cluster::getInstanceLiveness at each instance
    issued,         \* requests each instance has broadcast
    lost,           \* connections lost so far
    up,             \* the instances that have not crashed
    released        \* what each instance has passed to sendLocal, in order

vars == <<plan, node, net, cluster, issued, lost, up, released>>

Instance == plan.instances

NoView == << >>                     \* an empty VersionVector: not in sync

\* an InstanceLiveness: its version and the live instances; the others are dead
DefaultLiveness == [ver |-> 0, live |-> Instance]

Put(f, x, y) == (x :> y) @@ f       \* f[x] = y, for a std::map f

--------------------------------------------------------------------------------
(* The state of an instance *)

NewNode(i) ==
    [liveVector    |-> << >>,           \* instance -> its liveness
     versionVector |-> NoView,          \* instance -> its liveness version
     ts            |-> 0,               \* _ts
     lastBroadcast |-> 0,               \* _lastBroadcastTs
     clocks        |-> (i :> 0),        \* _remoteTimestamps
     queue         |-> {},              \* _queue
     deferred      |-> << >>,           \* _deferredQueue
     out           |-> << >>,           \* messages sent by the running item
     local         |-> << >>,           \* messages released by the running item
     failed        |-> {}]              \* assertions that did not hold

Before(e, f) == e.ts < f.ts \/ (e.ts = f.ts /\ e.src < f.src)

\* a request or a reply, in a queue and on the wire; of a reply, body is None
None == << >>
Entry(ts, src, body, view) == [type |-> "Entry", ts |-> ts, src |-> src, body |-> body, view |-> view]

Liveness(l) == [type |-> "Liveness", liveness |-> l]
LivenessAck(v, l) == [type |-> "LivenessAck", requestVersion |-> v, liveness |-> l]

Send(n, to, m) == [n EXCEPT !.out = Append(@, [to |-> to, msg |-> m])]

\* SCIDB_ASSERT: n goes on in a release build, and the assertion is noted
Check(n, name, holds) == IF holds THEN n ELSE [n EXCEPT !.failed = @ \cup {name}]

InSync(n) == n.versionVector # NoView

--------------------------------------------------------------------------------
(* LivenessTracker *)

checkInSync(i, liveVector) ==
    IF /\ i \in DOMAIN liveVector
       /\ Cardinality(liveVector[i].live) = Cardinality(DOMAIN liveVector)
       /\ \A j \in DOMAIN liveVector : liveVector[j].live = liveVector[i].live
    THEN [j \in DOMAIN liveVector |-> liveVector[j].ver]
    ELSE NoView

Older(v, w) == \E j \in DOMAIN v \cap DOMAIN w : v[j] < w[j]

\* faulty: the version vector of the message is not compared
deliverAnyView(n, view) == IF n.versionVector = NoView THEN "DEFER" ELSE "DELIVER"

getMsgDeliveryAction(n, view) ==
    CASE n.versionVector = NoView       -> "DEFER"
      [] n.versionVector = view         -> "DELIVER"
      [] Older(view, n.versionVector)   -> "DISCARD"
      [] OTHER                          -> "DEFER"

Learn(i, n, j, l) ==
    LET liveVector == Put(n.liveVector, j, l)
    IN  [n EXCEPT !.liveVector = liveVector, !.versionVector = checkInSync(i, liveVector)]

Knows(n, j) == j \in DOMAIN n.liveVector

--------------------------------------------------------------------------------
(* OrderedBcastManager: clocks, queue and delivery *)

isOkToRelease(n, e) ==
    /\ Cardinality(DOMAIN n.versionVector) <= Cardinality(DOMAIN n.clocks)
    /\ \A j \in DOMAIN n.clocks : n.clocks[j] >= e.ts

\* the longest prefix of the queue whose entries may all be released
Releasable(n) ==
    {e \in n.queue : \A f \in n.queue : f = e \/ Before(f, e) => isOkToRelease(n, f)}

\* the assertions of the loop in release and of isOkToRelease, about the head of
\* the queue and about every entry that follows one that is released
Current(n, e) ==
    /\ getMsgDeliveryAction(n, e.view) = "DELIVER"
    /\ \/ Cardinality(DOMAIN n.versionVector) > Cardinality(DOMAIN n.clocks)
       \/ DOMAIN n.versionVector = DOMAIN n.clocks

release(i, n) ==
    LET own     == [n EXCEPT !.clocks = Put(@, i, n.ts)]
        ok      == Releasable(own)
        visited == {e \in n.queue : \A f \in n.queue : Before(f, e) => f \in ok}
        current == Check(own, "release", \A e \in visited : Current(own, e))
    IN  [current EXCEPT !.queue = @ \ ok,
                        !.local = @ \o SetToSortSeq(ok, Before)]

broadcastRequest(i, n, e) ==
    LET checked == Check(n, "clock", n.lastBroadcast < e.ts)
    IN  [Send(checked, DOMAIN e.view \ {i}, e) EXCEPT !.lastBroadcast = e.ts]

broadcastReply(i, n, view) ==
    LET checked == Check(n, "clock", n.lastBroadcast < n.ts)
    IN  [Send(checked, DOMAIN view \ {i}, Entry(n.ts, i, None, view))
            EXCEPT !.lastBroadcast = n.ts]

\* the Lamport clock after a local request
LocalTs(n) == n.ts + 1

\* the Lamport clock after a remote message
RemoteTs(n, ts) == Max({n.ts, ts}) + 1

\* _ts = _ts + 1 and deliverLocalRequest
deliverLocalRequest(i, n, body) ==
    LET e      == Entry(LocalTs(n), i, body, n.versionVector)
        last   == Check(n, "order", \A f \in n.queue : Before(f, e))
        queued == [last EXCEPT !.ts = e.ts, !.queue = @ \cup {e}]
    IN  IF Cardinality(DOMAIN e.view) = 1 THEN release(i, queued)
                                          ELSE broadcastRequest(i, queued, e)

Stale(n, e) == e.src \in DOMAIN n.clocks /\ n.clocks[e.src] >= e.ts

\* others may wait for the clock of this instance; faulty: it keeps silent
NeverReplies(n, e, mayReply) == FALSE
MustReply(n, e, mayReply) == mayReply /\ e.body # None /\ n.lastBroadcast < e.ts

\* _ts = max(_ts, ts) + 1 and deliverRemoteRequest or deliverRemoteReply
deliverRemote(i, n, e, mayReply) ==
    LET ticked == [n EXCEPT !.ts = RemoteTs(n, e.ts)]
        seen   == [ticked EXCEPT !.clocks = Put(@, e.src, e.ts),
                                 !.queue  = IF e.body = None THEN @ ELSE @ \cup {e}]
    IN  IF Stale(n, e) THEN Check(ticked, "clock", FALSE)
        ELSE release(i, IF MustReply(seen, e, mayReply)
                        THEN broadcastReply(i, seen, e.view) ELSE seen)

\* faulty: the loop over the deferred queue does nothing
ProcessDeferredLater(i, acc, e) == [acc EXCEPT !.kept = Append(@, e)]

\* One entry of the deferred queue, once the instance is in sync.  acc carries
\* the instance, the entries that stay deferred and the timestamp of the last
\* remote request delivered.
ProcessDeferred(i, acc, e) ==
    LET n      == acc.node
        view   == IF e.view = NoView THEN n.versionVector ELSE e.view
        action == getMsgDeliveryAction(n, view)
        fifo   == Check(n, "fifo", \A k \in DOMAIN acc.kept : acc.kept[k].src # e.src)
    IN  CASE action = "DISCARD" -> acc
          [] action = "DEFER"   -> [acc EXCEPT !.kept = Append(@, [e EXCEPT !.view = view])]
          [] e.src = i          -> [acc EXCEPT !.node = deliverLocalRequest(i, fifo, e.body)]
          [] OTHER              ->
               [acc EXCEPT !.node = deliverRemote(i, fifo, e, FALSE),
                           !.lastRemoteReq = IF e.body # None /\ ~Stale(n, e)
                                             THEN Max({@, e.ts}) ELSE @]

processQueueOnLivenessChange(i, n) ==
    LET old   == Check(n, "view", \A e \in n.queue : getMsgDeliveryAction(n, e.view) = "DISCARD")
        fresh == [old EXCEPT !.clocks = (i :> n.ts), !.lastBroadcast = 0, !.queue = {}]
        pass[k \in 0..Len(n.deferred)] ==
                 IF k = 0 THEN [node |-> fresh, kept |-> << >>, lastRemoteReq |-> 0]
                          ELSE ProcessDeferred(i, pass[k - 1], n.deferred[k])
        done  == pass[Len(n.deferred)]
        final == [done.node EXCEPT !.deferred = done.kept]
    IN  IF ~InSync(n) THEN n
        ELSE IF final.lastBroadcast < done.lastRemoteReq
             THEN broadcastReply(i, final, final.versionVector)
             ELSE final

\* the local liveness is known already
KnownLocally(i, n, j, l) == j = i /\ Knows(n, i) /\ n.liveVector[i].ver >= l.ver

\* the answer to a remote liveness; faulty: none
NoAck(i, n, j, l) == n
Acknowledge(i, n, j, l) ==
    IF Knows(n, i) THEN Send(n, {j}, LivenessAck(l.ver, n.liveVector[i])) ELSE n

\* newLiveness, and what livenessChange does when it returns true
livenessChange(i, n, j, l) ==
    LET base   == IF j = i THEN [n EXCEPT !.liveVector = << >>, !.versionVector = NoView] ELSE n
        known  == Knows(base, j) /\ base.liveVector[j].ver >= l.ver
        next   == IF known THEN base ELSE Learn(i, base, j, l)
        told   == IF j = i THEN Send(next, l.live \ {i}, Liveness(l))
                           ELSE Acknowledge(i, next, j, l)
    IN  CASE KnownLocally(i, n, j, l)                 -> n
          [] known /\ l.ver = 0                       -> n
          [] known /\ base.liveVector[j].ver # l.ver  -> Check(n, "version", FALSE)
          [] OTHER                                    -> processQueueOnLivenessChange(i, told)

\* newLivenessAck, and what livenessAck does when it returns true
livenessAck(i, n, j, version, l) ==
    LET mine    == n.liveVector[i].ver
        known   == Knows(n, j) /\ n.liveVector[j].ver >= l.ver
        checked == Check(n, "version", known => n.liveVector[j].ver = l.ver)
    IN  CASE mine > version -> n
          [] mine < version -> Check(n, "version", FALSE)
          [] known          -> checked
          [] OTHER          -> processQueueOnLivenessChange(i, Learn(i, n, j, l))

NoneDeferred(n, j) == \A k \in DOMAIN n.deferred : n.deferred[k].src # j

Defer(n, e) == [n EXCEPT !.deferred = Append(@, e)]

\* remoteRequest and remoteReply
remoteEntry(i, n, e) ==
    LET action == getMsgDeliveryAction(n, e.view)
        fifo   == Check(n, "fifo", NoneDeferred(n, e.src))
    IN  CASE action = "DISCARD" -> n
          [] action = "DEFER"   -> Defer(n, e)
          [] OTHER              -> deliverRemote(i, fifo, e, TRUE)

\* the part of localRequest that follows livenessChange
submit(i, n, body) ==
    IF InSync(n) THEN deliverLocalRequest(i, Check(n, "fifo", NoneDeferred(n, i)), body)
                 ELSE Defer(n, Entry(0, i, body, NoView))

--------------------------------------------------------------------------------
(* Steps of the system *)

Init ==
    /\ plan \in Plans
    /\ node = [i \in Instance |-> NewNode(i)]
    /\ net = [i \in Instance |-> [j \in Instance |->
                IF i = j THEN <<[type |-> "Notification", liveness |-> DefaultLiveness]>>
                         ELSE << >>]]
    /\ cluster = [i \in Instance |-> DefaultLiveness]
    /\ issued = [i \in Instance |-> 0]
    /\ lost = 0
    /\ up = Instance
    /\ released = [i \in Instance |-> << >>]

Sent(n, j) ==
    LET mine == SelectSeq(n.out, LAMBDA o : j \in o.to)
    IN  [k \in DOMAIN mine |-> mine[k].msg]

\* instance i goes on as n, having taken the item at the head of channel c to
\* it (c = i and an empty channel when the item is a local request)
Run(i, n, channels) ==
    /\ node' = [node EXCEPT ![i] = [n EXCEPT !.out = << >>, !.local = << >>]]
    /\ net' = [channels EXCEPT ![i] = [j \in Instance |-> channels[i][j] \o Sent(n, j)]]
    /\ released' = [released EXCEPT ![i] = @ \o n.local]
    /\ UNCHANGED <<cluster, lost, up>>

\* the oldest item from j to i, of type t, is m
Arrives(j, i, t) == i \in up /\ net[j][i] # << >> /\ Head(net[j][i]).type = t

Consume(j, i) == [net EXCEPT ![j][i] = Tail(@)]

handleLivenessNotification(j, i) ==
    /\ Arrives(j, i, "Notification")
    /\ \E n \in {livenessChange(i, node[i], i, Head(net[j][i]).liveness)} :
            Run(i, n, Consume(j, i))
    /\ UNCHANGED issued

handleLiveness(j, i) ==
    /\ Arrives(j, i, "Liveness")
    /\ \E n \in {livenessChange(i, node[i], j, Head(net[j][i]).liveness)} :
            Run(i, n, Consume(j, i))
    /\ UNCHANGED issued

handleLivenessAck(j, i) ==
    /\ Arrives(j, i, "LivenessAck")
    /\ LET m == Head(net[j][i]) IN
       \E n \in {livenessAck(i, node[i], j, m.requestVersion, m.liveness)} :
            Run(i, n, Consume(j, i))
    /\ UNCHANGED issued

handleRequest(j, i) ==
    /\ Arrives(j, i, "Entry")
    /\ Head(net[j][i]).body # None
    /\ \E n \in {remoteEntry(i, node[i], Head(net[j][i]))} : Run(i, n, Consume(j, i))
    /\ UNCHANGED issued

handleReply(j, i) ==
    /\ Arrives(j, i, "Entry")
    /\ Head(net[j][i]).body = None
    /\ \E n \in {remoteEntry(i, node[i], Head(net[j][i]))} : Run(i, n, Consume(j, i))
    /\ UNCHANGED issued

\* broadcast, from the point where the work item runs
localRequest(i) ==
    /\ i \in up
    /\ issued[i] < plan.requests[i]
    /\ issued' = [issued EXCEPT ![i] = @ + 1]
    /\ \E n \in {submit(i, livenessChange(i, node[i], i, cluster[i]), <<i, issued[i] + 1>>)} :
            Run(i, n, net)

--------------------------------------------------------------------------------
(* The environment *)

Newer(i, live) == [ver |-> cluster[i].ver + 1, live |-> live]

\* the failure detector of i reports a new liveness; i is always live to itself
Detect(i, live) ==
    /\ i \in up
    /\ cluster[i].ver < plan.detections[i]
    /\ i \in live
    /\ plan.accurate => up \subseteq live
    /\ cluster' = [cluster EXCEPT ![i] = Newer(i, live)]
    /\ net' = [net EXCEPT ![i][i] =
                Append(@, [type |-> "Notification", liveness |-> Newer(i, live)])]
    /\ UNCHANGED <<node, issued, lost, up, released>>

\* The connection from j to i breaks and loses what is under way.  The receiver
\* reports it as a new local liveness (the contract in OrderedBcast.h), which
\* its manager sees before anything that j sends on the next connection.
Disconnect(j, i) ==
    /\ lost < plan.losses
    /\ i # j /\ i \in up
    /\ cluster[i].ver < plan.detections[i]
    /\ lost' = lost + 1
    /\ cluster' = [cluster EXCEPT ![i] = Newer(i, @.live)]
    /\ net' = [net EXCEPT ![j][i] =
                Append(SelectSeq(@, LAMBDA m : m.type = "Notification"),
                       [type |-> "Notification", liveness |-> Newer(i, cluster[i].live)])]
    /\ UNCHANGED <<node, issued, up, released>>

\* i stops for good; what it has sent is still delivered
Crash(i) ==
    /\ i \in up
    /\ Cardinality(Instance \ up) < plan.crashes
    /\ up' = up \ {i}
    /\ UNCHANGED <<node, net, cluster, issued, lost, released>>

Receive(j, i) ==
    \/ handleLivenessNotification(j, i)
    \/ handleLiveness(j, i)
    \/ handleLivenessAck(j, i)
    \/ handleRequest(j, i)
    \/ handleReply(j, i)

Next ==
    /\ \/ \E i, j \in Instance :
               \/ handleLivenessNotification(j, i)
               \/ handleLiveness(j, i)
               \/ handleLivenessAck(j, i)
               \/ handleRequest(j, i)
               \/ handleReply(j, i)
               \/ Disconnect(j, i)
       \/ \E i \in Instance :
               \/ localRequest(i)
               \/ Crash(i)
               \/ \E live \in plan.liveSets : Detect(i, live)
    /\ UNCHANGED plan

Spec == Init /\ [][Next]_vars

\* no work item is left
Idle == \A i \in up : \A j \in Instance : net[j][i] = << >>

\* As long as there are work items some instance runs one of them: weak fairness
\* of the handlers, one of which is enabled unless Idle.
Fairness == []<>Idle \/ []<><<\E i, j \in Instance : Receive(j, i)>>_vars

FairSpec == Spec /\ Fairness

--------------------------------------------------------------------------------
(* Properties *)

TypeOK ==
    \A i \in Instance :
        LET n == node[i] IN
        /\ DOMAIN n.liveVector \subseteq Instance
        /\ DOMAIN n.versionVector \subseteq DOMAIN n.liveVector
        /\ n.ts \in Nat /\ n.lastBroadcast \in 0..n.ts
        /\ i \in DOMAIN n.clocks
        /\ \A e \in n.queue : e.body # None /\ e.src \in DOMAIN e.view
        /\ n.out = << >> /\ n.local = << >>

\* Inside a view an instance releases requests in the order of their logical
\* timestamps, it never returns to a view it has left, and it releases no request
\* twice, also when the liveness changes while the request is deferred or queued.
ReleasedInOrder ==
    \A i \in Instance : \A k, l \in DOMAIN released[i] :
        k < l => LET e == released[i][k]
                     f == released[i][l]
                 IN  /\ e.body # f.body
                     /\ IF e.view = f.view THEN Before(e, f) ELSE ~Older(f.view, e.view)

ReleasedIn(i, view) == SelectSeq(released[i], LAMBDA e : e.view = view)

\* The total order: what two instances release in a view agrees, with no gap,
\* up to the point that the slower one has reached.
SameOrderEverywhere ==
    \A i, j \in Instance : \A k \in DOMAIN released[i] :
        LET view == released[i][k].view
        IN  \/ IsPrefix(ReleasedIn(i, view), ReleasedIn(j, view))
            \/ IsPrefix(ReleasedIn(j, view), ReleasedIn(i, view))

\* The state is well formed and the assertions of the manager hold at every
\* instance, which no instance can see to by itself:
\*   view     all messages in the active queue become undeliverable with a change
\*            of the liveness (clearQueueInDebug);
\*   fifo     no message is delivered past a deferred one of the same instance
\*            (processQueueOnLivenessChange, verifyNoDeferredInDebug);
\*   clock    inside a view the clock of a sender only moves forward, whoever's
\*            broadcast or reply was saved (deliverRemoteRequest, broadcastReply);
\*   order    a local request goes to the end of the active queue;
\*   release  the active queue holds requests of the current view, and no clock is
\*            kept for an instance outside it (release, isOkToRelease);
\*   version  livenesses of an instance arrive with increasing versions, and an ack
\*            never answers one its receiver has not announced (newLivenessAck).
AssertionsHold == TypeOK /\ \A i \in Instance : node[i].failed = {}

--------------------------------------------------------------------------------

Bodies(i) == {released[i][k].body : k \in DOMAIN released[i]}

\* nothing has changed since the instances formed the view of DefaultLiveness
Stable == up = Instance /\ \A i \in Instance : cluster[i] = DefaultLiveness

\* OrderedBcast.h: "if the liveness does not change in a cluster, the messages
\* are reliably delivered to all the live instances".  The requests are finitely
\* many, so all of them are out at the end.
ReliableWhenStable ==
    \/ <>~Stable
    \/ <>[](\A i, j \in Instance : \A k \in 1..issued[i] : <<i, k>> \in Bodies(j))

\* the detectors of the instances that are up report just these instances
Converged == \A i \in up : cluster[i].live = up

\* the instances that are up share a view, and nothing is queued or deferred
Settled ==
    \A i \in up :
        /\ node[i].versionVector = [j \in up |-> cluster[j].ver]
        /\ node[i].queue = {}
        /\ node[i].deferred = << >>

\* an instance that is gone has left a liveness behind
Stray == \E i \in up : ~(DOMAIN node[i].liveVector \subseteq up)

\* Once the detectors agree with what is up, the instances come to the same view
\* and release or discard everything; the only obstacle is a liveness from an
\* instance that has crashed.
SettledWhenIdle == Idle /\ Converged => Settled \/ Stray

\* The same without the exception.
AlwaysSettledWhenIdle == Idle /\ Converged => Settled

================================================================================
