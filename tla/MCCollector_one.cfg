CONSTANTS
    r1 = r1
    r2 = r2
    w1 = w1
    w2 = w2
    Requests <- OneRequest
    Workers <- TwoWorkers
    Kinds = {"text", "null", "parts", "done", "bare"}
    MaxChunk = 2
    MaxUnits = 4
    PageSize = 2
    MaxPendingPages = 1
    Faults = {"put", "late", "pipe", "get", "del", "expire"}
SPECIFICATION CollectorSpec
SYMMETRY Symmetry
INVARIANTS TypeOK InflightCounts NoFlushAfterRead PageConservation ReadsEveryPage WholeUnlessLost RAMBounded PayloadInOrder
