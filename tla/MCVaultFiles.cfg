SPECIFICATION Spec
CONSTANTS
    kms = kms
    old = old
    new = new
    first = first
    second = second
    long = long
    other = other
    short = short
    Package = {k1, k2}
    Managed = {kms}
    KeyId = {old, new}
    MasterKey = {first, second}
    Offered <- Settings
    Code = {long, other, short}
    LongCode = {long, other}
    None = None
INVARIANTS
    TypeOK
    FileComesBack
    SwitchKeepsFilesReadable
    ShareOpensToItsCode
