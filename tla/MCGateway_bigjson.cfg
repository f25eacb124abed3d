CONSTANTS
    r1 = r1
    r2 = r2
    r3 = r3
    w1 = w1
    c1 = c1
    c2 = c2
    s1 = s1
    none = none
    Requests <- OneRequest
    Workers <- OneWorker
    Clients <- OneClient
    ClientSessions <- NoClientSessions
    NoSession = none
    SessionFaults = FALSE
    Bodies = {"json"}
    JsonLimit = 1
    Kinds = {"text", "done"}
    MaxChunk = 2
    MaxUnits = 3
    PageSize = 1
    MaxPendingPages = 1
    Faults = {}
SPECIFICATION GatewaySpec
INVARIANT JsonAccounted
