SPECIFICATION FormatSpec
CONSTANTS
    Samples <- MCSamples
    Headers <- MCHeaders
    kMaxCredentials = 2
    kMaxFieldBytes = 4
    kMaxSecretBytes = 1
    kMaxPersistedCiphertextBytes = 60
    TextBytes <- MCTextBytes
    MaxText = 4
    EditBytes = {0, 1, 2, 128}
    MaxEdits = 2
INVARIANTS RoundTrip Canonical AcceptsExactlyUtf8 OnlyWhatWasSealed
CHECK_DEADLOCK FALSE
