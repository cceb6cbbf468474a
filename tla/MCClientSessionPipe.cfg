CONSTANTS
    Ptys = {FALSE}
    Full = 2
    MaxOut = 1
    Holds = {TRUE, FALSE}
SPECIFICATION FairSpec
PROPERTY OutputArrives
CHECK_DEADLOCK FALSE
