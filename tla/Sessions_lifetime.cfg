SPECIFICATION Spec
CONSTANTS
    Devices = {phone, laptop}
    Second = 2
    Expiry = 4
    Interval = 1
    Cap = 6
    Dormant = 7
    Latency = 2
    MaxTime = 8
    NoCookie = NoCookie
INVARIANTS
    EndsAtCap
    StaysSignedIn
    LiveSessionKeepsTokens
SYMMETRY Symmetry
CHECK_DEADLOCK FALSE
