SPECIFICATION Spec
CONSTANTS
    Request = {r1, r2}
    Execution = {e1, e2}
    Subject = {u1, u2, u3, u4, u5}
    Operator = {u1, u2, u3, u4, u5}
    Approver = {u1, u2, u3, u4, u5}
    Quorum = 3
    None = None
SYMMETRY Interchangeable
INVARIANTS
    TypeOK
    OneReleasePerRequest
    IndependentQuorum
    AuditedSeparation
PROPERTY DecisionIsFinal
