SPECIFICATION Spec
CONSTANTS
    Client = {1, 2, 3}
    Instance = {1, 2}
    Message = {1, 2}
    Home <- MCHome
    Scenarios <- MCScenarios
    Event = {1, 2}
    Stream = {1, 2}
    BufferSize = 1
    PageSize = 2
    Setups <- MCSetups
    Tracker = {1, 2}
    Registration = {1, 2, 3}
    Trackers = {"redis", "memory"}
    MaxFaults = 1
    File = {1, 2}
    Process = {1, 2}
    Length = 2
    MaxSize = 3
    MaxCalls = 2
    Run = {1, 2}
    Tables <- MCTables
    MaxCache = 2
    Stricts = {TRUE, FALSE}
    MaxEdits = 1
    Worker = {1, 2}
    Providers = {"elasticsearch", "meilisearch"}
    MaxVersion = 1
    MaxPending = 2
INVARIANTS  FailureLeavesMessage OneWinner NothingSkipped  OnlineWhileRegistered  RulesAsWritten 
PROPERTIES  OfflineEventually
CHECK_DEADLOCK FALSE
