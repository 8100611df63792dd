CONSTANTS
    b1 = b1
    b2 = b2
    Browsers <- MCBrowsers
    None = None
    MaxDeliveries = 2
    MaxAttempts = 2
SYMMETRY MCSymmetry
SPECIFICATION Spec
INVARIANTS
    InjectiveAgreement
    ReturnMeansInstalled
    ReplacedBrowserIsOut
