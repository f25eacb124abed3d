CONSTANTS
    r1 = r1
    r2 = r2
    r3 = r3
    w1 = w1
    c1 = c1
    c2 = c2
    s1 = s1
    none = none
    Requests <- TwoRequests
    Workers <- OneWorker
    Clients <- TwoClients
    ClientSessions <- OneClientSession
    NoSession = none
    SessionFaults = FALSE
    Bodies = {"sse", "json"}
    JsonLimit = 1
    Kinds = {"text", "done"}
    MaxChunk = 1
    MaxUnits = 2
    PageSize = 2
    MaxPendingPages = 1
    Faults = {}
SPECIFICATION GatewaySpec
SYMMETRY Symmetry
INVARIANTS MappedBeforeDoneSeen SessionStaysWithClient
PROPERTY KeepsPromise
