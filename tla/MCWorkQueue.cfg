CONSTANTS
    q1 = q1
    q2 = q2
    Queue = {q1, q2}
    Job = {j1, j2, j3}
    Few = {j1, j2}
    NoQueue = NoQueue
    maxOutstanding <- OneTwo
    maxSize <- Two
    Rank <- OneTwo
    Uses = {"enqueue", "reserve", "unreserve", "delay", "reschedule", "reEnqueue", "reEnqueueSerialized", "stop"}
    MaxCalls = 2
SPECIFICATION mcSpec
INVARIANTS JobsInOnePlace OutstandingIsOwned SizeBounded SerializedUntilDone
    OrderlyNeverStalls OrderlyOverflowMoves
PROPERTIES OrderlyJobsRun
