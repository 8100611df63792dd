CONSTANTS
    MaxLine = 1
    MaxBytes = 6
SPECIFICATION UsbSpec
INVARIANTS
    FramesAreTheStream
    FaultIsFinal
    ProtocolAfterHello
