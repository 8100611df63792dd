CONSTANTS
    Days <- ShortAndLong
    Never = Never
    NoVault = NoVault
    DayLength = 2
    PendingTtl = 1
    MaxTime = 6
    LastUnlock = 2
SPECIFICATION FairSpec
INVARIANTS
    UnlockedWithinLifetime
    PendingKeyInTime
PROPERTY LocksItself
