SPECIFICATION FairSpec
CONSTANTS
    VaultIds = {v1, v2}
    Bodies = {b1, b2}
    NoBody = NoBody
    MaxGeneration = 3
    MaxCrashes = 3
    Others = TRUE
INVARIANTS OwnerCanRead WriterIsCurrent
PROPERTIES CopiesOutliveTheDevice SettlesAlone
