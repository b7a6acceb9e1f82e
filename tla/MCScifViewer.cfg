SPECIFICATION ViewerSpec
CONSTANTS
    Session = {s1}
    Subject = {u1, u2, u3}
    NoRow = NoRow
    Mode <- BothModes
    MaxEntryFailures = 3
    MaxCookieFailures = 2
    FailureBound = 0
    Wavering = {u1}
PROPERTY ViewerReauthorizes
