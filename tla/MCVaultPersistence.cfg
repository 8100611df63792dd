SPECIFICATION Spec
CONSTANTS
    VaultIds = {v1, v2}
    Bodies = {b1, b2}
    MaxGeneration = 3
    Credentials = {c1}
    Absent = Absent
    Torn = Torn
    Newer = Newer
INVARIANTS
    NeverPartialGeneration
    StaleCacheBounded
    AcknowledgedIsDurable
PROPERTIES
    AtomicCommit
