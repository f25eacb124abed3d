CONSTANTS
    r1 = r1
    w1 = w1
    c1 = c1
    none = none
    Requests <- OneRequest
    Workers <- OneWorker
    Clients <- OneClient
    ClientSessions <- NoClientSessions
    NoSession = none
    SessionFaults = TRUE
    Bodies = {"sse", "json", "plain"}
    JsonLimit = 1
    Kinds = {"text", "done"}
    MaxChunk = 2
    MaxUnits = 2
    PageSize = 1
    MaxPendingPages = 1
    Faults = {"put", "late", "get", "del", "expire"}
SPECIFICATION FairProcessSpec
INVARIANT NothingLost
PROPERTIES NoLateFinalizer ShutdownCompletes ChunkNotStuck FinalizersEnd TempDataGone
