SPECIFICATION LiveSpec
CONSTANTS
    k1 = k1
    k2 = k2
    k3 = k3
    x = x
    y = y
    Process = {p1, p2}
    KeyId = {k1, k2, k3}
    Seed = {x, y}
    Config <- OwnIds
    NoKey = NoKey
INVARIANTS
    TypeOK
    ReceiptsStayVerifiable
    OneActiveUnlessCrossed
PROPERTY StartupEnds
