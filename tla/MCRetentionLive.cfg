SPECIFICATION Spec
CONSTANTS
    u1 = u1
    u2 = u2
    a1 = a1
    j1 = j1
    j2 = j2
    c1 = c1
    Never = Never
    N = 2
    Attachment <- MCAttachment
    OwnerOf <- MCOwnerOf
    Carries <- MCCarries
    CreatedAt <- MCCreatedAt
    ExpiresAt <- MCExpiresAt
    Job <- MCJob
    Call <- MCCall
    Kinds <- MCCleanKinds
    TrashRetention = 1
    MessageRetention = 3
    DeleteOlderThan = 2
    MaxMessages = 1
    PageSize = 1
    EventErrorsFatal = FALSE
    MaxTime = 1
    MaxFaults = 1
PROPERTY TrashEmptied
CHECK_DEADLOCK FALSE
