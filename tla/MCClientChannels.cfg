CONSTANTS
    Ptys = {TRUE, FALSE}
    Full = 2
    MaxOut = 2
    Holds = {TRUE, FALSE}
    MaxData = 2
SPECIFICATION FairChannelSpec
INVARIANTS
    OneClose
    OutputBeforeEof
    TcpFramesInOrder
    PeerDataBeforeEof
PROPERTIES
    ExitEndsChannel
    PtyOutputArrives
    TcpThreadEnds
CHECK_DEADLOCK FALSE
