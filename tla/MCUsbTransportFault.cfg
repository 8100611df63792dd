CONSTANTS
    MaxLine = 1
    MaxBytes = 4
SPECIFICATION UsbSpec
INVARIANT
    FaultEndsPending
