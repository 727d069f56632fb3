CONSTANTS
    q1 = q1
    q2 = q2
    Queue = {q1, q2}
    Job = {j1, j2}
    Few = {j1, j2}
    NoQueue = NoQueue
    maxOutstanding <- One
    maxSize <- One
    Rank <- OneTwo
    Uses = {"enqueue", "reschedule"}
    MaxCalls = 2
SPECIFICATION mcSafe
INVARIANTS StallsOnlyWhenBusy
