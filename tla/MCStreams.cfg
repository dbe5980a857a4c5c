SPECIFICATION Spec
CONSTANTS
    A = A
    B = B
    Client = {A, B}
    StoreCalls <- AllCalls
    CallsOf <- MCCallsOf
    MaxCalls <- MCMaxCalls
    Seed <- MCSeed
    Now <- MCNow
    Cutoff <- MCCutoff
    Backends = {"memory", "postgres"}
    Reading = {TRUE}
    BatchSize = 1
    Reader = "u"
    DefaultQueryLimit = 20
    MaxQueryLimit = 100
INVARIANT StreamUnaffectedByChanges
CHECK_DEADLOCK FALSE
