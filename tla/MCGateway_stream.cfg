CONSTANTS
    r1 = r1
    r2 = r2
    r3 = r3
    w1 = w1
    c1 = c1
    c2 = c2
    s1 = s1
    none = none
    Requests <- OneRequest
    Workers <- OneWorker
    Clients <- OneClient
    ClientSessions <- NoClientSessions
    NoSession = none
    SessionFaults = TRUE
    Bodies = {"sse", "json", "plain"}
    JsonLimit = 1
    Kinds = {"text", "done", "bare", "padded"}
    MaxChunk = 2
    MaxUnits = 3
    PageSize = 1
    MaxPendingPages = 1
    Faults = {"put", "get", "expire"}
SPECIFICATION GatewaySpec
INVARIANTS GatewayTypeOK SingleOwner CountedOnce MappedOnceOrFailed MappingSound
PROPERTY CollectorSpec
