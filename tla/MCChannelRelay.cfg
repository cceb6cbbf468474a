CONSTANTS
    Conns = {s1, s2}
    First = s1
    NoOwner = NoOwner
    Kinds = {"session", "direct-tcpip"}
    MaxChannels = 2
    MaxData = 1
    MaxSent = 1
    MaxGrants = 1
    InitialWindow = 0
    Leavers = {s1}
    LinkMayFail = TRUE
SPECIFICATION FairSpec
CONSTRAINT TwoAreSimple
INVARIANTS
    AnsweredOnce
    OpenChannelIsRouted
    OnlyFinishedChannelsMiss
PROPERTIES
    CloseReachesClient
    NobodyWaitsForever
CHECK_DEADLOCK FALSE
