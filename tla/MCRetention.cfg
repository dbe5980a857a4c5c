SPECIFICATION Spec
CONSTANTS
    u1 = u1
    u2 = u2
    a1 = a1
    j1 = j1
    j2 = j2
    c1 = c1
    Never = Never
    N = 3
    Attachment <- MCAttachment
    OwnerOf <- MCOwnerOf
    Carries <- MCCarries
    CreatedAt <- MCCreatedAt
    ExpiresAt <- MCExpiresAt
    Job <- MCJob
    Call <- MCCall
    Kinds <- MCKinds
    TrashRetention = 1
    MessageRetention = 3
    DeleteOlderThan = 2
    MaxMessages = 1
    PageSize = 2
    EventErrorsFatal = TRUE
    MaxTime = 1
    MaxFaults = 1
INVARIANTS TypeOK AttachmentsSafe RefsBalanced DeletedForAReason 
PROPERTY TrimsOldest
CHECK_DEADLOCK FALSE
