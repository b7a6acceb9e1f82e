SPECIFICATION Spec
CONSTANTS
    Session = {s1}
    Subject = {u1, u2, u3}
    NoRow = NoRow
    Mode <- BothModes
    MaxEntryFailures = 3
    MaxCookieFailures = 2
    FailureBound = 4
    Wavering = {u1}
INVARIANTS
    TypeOK
    WipesAreComplete
    TwoPersonControl
    LockoutHolds
PROPERTIES
    TwoPersonActivation
    IdleNeedsReentry
