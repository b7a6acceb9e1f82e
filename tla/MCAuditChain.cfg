SPECIFICATION LiveSpec
CONSTANTS
    e1 = e1
    e2 = e2
    s1 = s1
    s2 = s2
    Session = {s1, s2, s3}
    TwoPerson = {s2}
    Entering = {e1, e2}
    Revoking = {r1}
    Noting = {n1}
    Own <- OwnSessions
    NoOne = NoOne
INVARIANTS
    TypeOK
    ChainVerifies
    TrailMatchesRows
    OneSessionEntered
PROPERTIES
    ImplementsLog
    EveryCallEnds
