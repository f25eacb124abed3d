CONSTANTS
    Kinds = {"text", "ping", "done", "bare", "padded"}
    MaxChunk = 1
    MaxUnits = 2
    ScanCap = 5
    Payloads <- MCPayloads
SPECIFICATION ScannerSpec
INVARIANTS WatchExact SealLosesNothing PiecesFaithful
