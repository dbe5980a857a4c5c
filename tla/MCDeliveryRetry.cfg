SPECIFICATION Spec
CONSTANTS
    s1 = s1
    s2 = s2
    u1 = u1
    u2 = u2
    a1 = a1
    a2 = a2
    Send <- MCSend
    User <- MCUser
    Attachment <- MCAttachment
    Targets <- MCTargets
    Carries <- MCCarries
    SenderCopy = SenderCopy
    MaxAttempts = 2
    MaxConcurrentSends = 2
    MaxMessages = 1
    EventErrorsFatal = FALSE
    MaxFaults = 1
    Deleters <- MCNoDeleters
INVARIANTS DraftNotLost 
PROPERTY SendReturns
CHECK_DEADLOCK FALSE
