---------------------------- MODULE SharedExclusive ----------------------------
(***************************************************************************)
(* What include/util/RWLock.h promises to its callers, with the waiting    *)
(* left out: a set of readers or one writer, where the writer may acquire  *)
(* the lock again (in either mode) and gives it up once every nested       *)
(* acquisition has been undone.                                            *)
(***************************************************************************)
EXTENDS Naturals

CONSTANT Thread      \* the threads that use the lock

VARIABLES
    shared,          \* the threads that hold the lock for reading
    exclusive,       \* the set of threads that hold it for writing
    depth            \* nested acquisitions of the writer

svars == <<shared, exclusive, depth>>

SInit ==
    /\ shared = {}
    /\ exclusive = {}
    /\ depth = 0

Share(t) ==
    /\ exclusive = {}
    /\ t \notin shared
    /\ shared' = shared \cup {t}
    /\ UNCHANGED <<exclusive, depth>>

Unshare(t) ==
    /\ t \in shared
    /\ shared' = shared \ {t}
    /\ UNCHANGED <<exclusive, depth>>

Exclude(t) ==
    /\ shared = {}
    /\ exclusive = {}
    /\ exclusive' = {t}
    /\ UNCHANGED <<shared, depth>>

Nest(t) ==
    /\ t \in exclusive
    /\ depth' = depth + 1
    /\ UNCHANGED <<shared, exclusive>>

Unnest(t) ==
    /\ t \in exclusive
    /\ depth > 0
    /\ depth' = depth - 1
    /\ UNCHANGED <<shared, exclusive>>

Yield(t) ==
    /\ t \in exclusive
    /\ depth = 0
    /\ exclusive' = {}
    /\ UNCHANGED <<shared, depth>>

SNext ==
    \E t \in Thread :
        Share(t) \/ Unshare(t) \/ Exclude(t) \/ Nest(t) \/ Unnest(t) \/ Yield(t)

SSpec == SInit /\ [][SNext]_svars
================================================================================
