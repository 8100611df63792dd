CONSTANTS
    a = a
    b = b
    None = None
    Credentials = {a, b}
    Lists <- MCLists
    Period = 2
    RevealTicks = 2
    RefreshTicks = 1
    Offsets = {0, 1}
    MaxGeneration = 1
    MaxTime = 5
SPECIFICATION UiSpec
INVARIANT WarningStays
