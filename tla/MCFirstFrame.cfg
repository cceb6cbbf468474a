CONSTANTS
    Identifiers = {i1}
    Conns = {c1, c2}
    Operators = {o1}
    NoConn = NoConn
    NoId = NoId
    MaxFrames = 2
SPECIFICATION Spec
INVARIANT FirstFrameIsResult
CHECK_DEADLOCK FALSE
