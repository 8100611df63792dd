SPECIFICATION FairSpec
CONSTANTS
    VaultIds = {v1}
    Bodies = {b1}
    NoBody = NoBody
    MaxGeneration = 2
    MaxCrashes = 2
    Others = FALSE
PROPERTY ErasedIsSettled
