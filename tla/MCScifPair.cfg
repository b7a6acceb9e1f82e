SPECIFICATION Spec
CONSTANTS
    Session = {s1, s2}
    Subject = {u1, u2, u3}
    NoRow = NoRow
    Mode <- BothModes
    MaxEntryFailures = 3
    MaxCookieFailures = 2
    FailureBound = 0
    Wavering <- Nobody
SYMMETRY Interchangeable
INVARIANT OneLivePlainSession
PROPERTIES
    EntryIsGuarded
    ImplementsAccess
