CONSTANTS
    Writers = {w1, w2}
    SendingEnds = {"client", "relay"}
    MaxFrames = 2
    MaxControl = 1
SPECIFICATION FairLinkSpec
PROPERTIES
    FramesArriveInOrder
    CloseIsSeen
    UpgradeDecided
CHECK_DEADLOCK FALSE
