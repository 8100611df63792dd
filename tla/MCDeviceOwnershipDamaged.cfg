SPECIFICATION Spec
CONSTANTS
    VaultIds = {v1, v2}
    Keys = {k1, k2}
    Browsers = {b1, b2}
    Attempts = {a1, a2}
    MaxGeneration = 3
    MaxEpoch = 3
    Nothing = Nothing
INVARIANTS
    RecoveryOnlyWhenDamaged
