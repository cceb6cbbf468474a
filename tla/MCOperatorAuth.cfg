CONSTANTS
    Operators = {o1, o2}
    Keys = {k1, k2}
    Conns = {c1, c2}
    NoConn = NoConn
    Modes = {TRUE, FALSE}
    Allowed = {k1}
    Interactive = TRUE
    InitialKnown = {k2}
    MaxTries = 3
SPECIFICATION Spec
SYMMETRY Symmetry
INVARIANTS
    AccessTracesToApproval
    ApprovalsNotShared
    WaitersAreReachable
    TrustIsPersistedFirst
    OnlyTrustPersists
CHECK_DEADLOCK FALSE
