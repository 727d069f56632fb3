--------------------------- MODULE MCOrderedBcast ------------------------------
(***************************************************************************)
(* Instances of OrderedBcast for TLC.  The behaviours of Plans begin when  *)
(* the instances start up, those of Formed when they have formed the first *)
(* view.                                                                   *)
(***************************************************************************)
EXTENDS OrderedBcast

CONSTANT Formed

\* two instances that start up; every detector may report any set, and be wrong
StartUp ==
    [instances |-> {1, 2}, detections |-> <<2, 1>>, requests |-> <<1, 1>>,
     liveSets |-> SUBSET {1, 2}, accurate |-> FALSE, losses |-> 1, crashes |-> 1]

\* three instances, one of which comes to a new view before the others
Three ==
    [instances |-> {1, 2, 3}, detections |-> <<1, 0, 0>>, requests |-> <<1, 0, 1>>,
     liveSets |-> {{1, 2, 3}}, accurate |-> FALSE, losses |-> 1, crashes |-> 1]

\* two instances whose detectors are never wrong
Careful ==
    [StartUp EXCEPT !.detections = <<1, 1>>, !.accurate = TRUE, !.losses = 0]

OnlyStartUp == {StartUp}
OnlyThree == {Three}
OnlyCareful == {Careful}

InSyncNode(i) ==
    [NewNode(i) EXCEPT !.liveVector = [j \in Instance |-> DefaultLiveness],
                       !.versionVector = [j \in Instance |-> 0]]

InSyncInit ==
    /\ plan \in Formed
    /\ node = [i \in Instance |-> InSyncNode(i)]
    /\ net = [i \in Instance |-> [j \in Instance |-> << >>]]
    /\ cluster = [i \in Instance |-> DefaultLiveness]
    /\ issued = [i \in Instance |-> 0]
    /\ lost = 0
    /\ up = Instance
    /\ released = [i \in Instance |-> << >>]

mcSafe == (Init \/ InSyncInit) /\ [][Next]_vars
mcSpec == mcSafe /\ Fairness
================================================================================
