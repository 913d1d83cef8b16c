SPECIFICATION FairSpec
CONSTANTS
    Calls = {c1, c2, c3}
    FailureThreshold = 2
    HalfOpenRequests = 2
    MaxAttempts = 2
INVARIANTS SlotLeft ShortTrialsCapped
PROPERTIES OpensForTimeout Recovers
