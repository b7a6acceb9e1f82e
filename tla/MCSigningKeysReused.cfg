SPECIFICATION Spec
CONSTANTS
    k1 = k1
    k2 = k2
    k3 = k3
    x = x
    y = y
    Process = {p1, p2}
    KeyId = {k1}
    Seed = {x, y}
    Config <- ReusedId
    NoKey = NoKey
INVARIANT ReceiptsStayVerifiable
