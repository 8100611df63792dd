SPECIFICATION Spec
CONSTANTS
    Attempts = {a1}
    Operations = {unlock, reset}
    DefaultOperation = unlock
    NoAttempt = NoAttempt
    NoOperation = NoOperation
    Ttl = 2
    MaxTime = 2
    MaxPresses = 3
PROPERTIES
    ConfirmsWhatIsShown
