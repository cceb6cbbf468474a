CONSTANTS
    Cap = 4
    MinPacket = 1
    MaxPacket = 2
    LocalWindow = 3
    Amounts = {0, 1, 3}
    MaxBytes = 5
SPECIFICATION FairSpec
INVARIANTS
    LocalWindowKept
PROPERTIES
    OutImplementsCreditFlow
    SendingEnds
CHECK_DEADLOCK FALSE
