CONSTANTS
    Listeners = {l1, l2}
    NoListener = NoListener
    Keys = {fixed, any}
    AnyPort = {any}
    Streams = {t1}
    NoStream = NoStream
    MaxData = 1
SPECIFICATION FairSpec
INVARIANTS
    LateConnectionsStayOut
    ListenersEndWithConnection
PROPERTIES
    ConnectionsAreDecided
    StreamEndsAreTold
CHECK_DEADLOCK FALSE
