\* t1 passes an ErrorChecker (timed waits, a query that fails), t2 and t3 do not
CONSTANTS
    t1 = t1
    t2 = t2
    t3 = t3
    Thread = {t1, t2, t3}
    None = None
    MaxNested = 2
    Timed = {t1}
SPECIFICATION FairSpec
INVARIANTS CountersMatchHolders NoReaderPastDrain
PROPERTIES ImplementsSharedExclusive DrainEnds FreeLockIsTaken
