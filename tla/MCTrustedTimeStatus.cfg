CONSTANTS
    TicksPerSecond = 2
    ResyncInterval = 2
    StaleAfter = 4
    MaxJump = 3
    InitialRetry = 1
    MinUnix = 9
    MaxUnix = 30
    Poll = 1
    MaxWait = 1
    MaxExchange = 1
    Epoch = 10
    UsbErrors <- MCUsbErrors
    NtpErrors <- MCNtpErrors
    MaxTime = 16
SPECIFICATION ReaderSpec
INVARIANT
    StaleMeansOld
