SPECIFICATION Spec
CONSTANTS
    A = A
    B = B
    Client = {A, B}
    StoreCalls <- AllCalls
    CallsOf <- MCCallsOf
    MaxCalls <- MCMaxCalls
    Seed <- MCSeed
    Now <- MCNow
    Cutoff <- MCCutoff
    Backends = {"memory", "postgres", "mongo"}
    Reading = {TRUE, FALSE}
    BatchSize = 1
    Reader = "u"
    DefaultQueryLimit = 20
    MaxQueryLimit = 100
INVARIANTS TypeOK SoloCallsAccomplish   CountsAgree
 
CHECK_DEADLOCK FALSE
