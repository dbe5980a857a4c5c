SPECIFICATION Spec
CONSTANTS
    u1 = u1
    u2 = u2
    a1 = a1
    j1 = j1
    j2 = j2
    c1 = c1
    Never = Never
    N = 3
    Attachment <- MCAttachment
    OwnerOf <- MCOneOwner
    Carries <- MCCarries
    CreatedAt <- MCCreatedAt
    ExpiresAt <- MCExpiresAt
    Job <- MCJob
    Call <- MCNoCall
    Kinds <- MCQuotaKinds
    TrashRetention = 1
    MessageRetention = 3
    DeleteOlderThan = 1
    MaxMessages = 2
    PageSize = 2
    EventErrorsFatal = TRUE
    MaxTime = 1
    MaxFaults = 0
PROPERTY EnforcementKeepsQuota
CHECK_DEADLOCK FALSE
