CONSTANTS
    Window = 2
    Ahead = 2
    Room = 1
    Total = 12
SPECIFICATION Spec
INVARIANT ClientOutlastsFullPipes
CHECK_DEADLOCK FALSE
