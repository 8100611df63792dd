SPECIFICATION FairSpec
CONSTANTS
    Attempts = {a1, a2}
    Operations = {unlock}
    DefaultOperation = unlock
    NoAttempt = NoAttempt
    NoOperation = NoOperation
    Ttl = 2
    MaxTime = 3
    MaxPresses = 2
INVARIANTS
    FreshGesture
PROPERTIES
    GrantInTime
    RequestEnds
