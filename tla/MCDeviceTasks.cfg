CONSTANT Free = Free
SPECIFICATION FairSpec
INVARIANTS
    LockedIsClean
    AnchorOnlyUnlocked
PROPERTIES
    NoTaskWaitsForever
    PrivateViewEnds
