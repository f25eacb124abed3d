CONSTANTS
    r1 = r1
    r2 = r2
    w1 = w1
    w2 = w2
    Requests <- OneRequest
    Workers <- OneWorker
    Kinds = {"text", "done"}
    MaxChunk = 2
    MaxUnits = 3
    PageSize = 2
    MaxPendingPages = 1
    Faults = {"get"}
SPECIFICATION CollectorSpec
INVARIANT IncompleteMeansNoDone
