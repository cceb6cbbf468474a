CONSTANTS
    TheIdent = i1
    Identifiers <- MCIdentifiers
    Conns = {1, 2}
    Operators = {1}
    NoConn = NoConn
    NoId = NoId
    MaxFrames = 2
    Machines = {1, 2}
    MachineIdent <- MCMachineIdent
SPECIFICATION RegistrationFairSpec
CONSTRAINT InOrder
INVARIANTS
    ToldSoIsRegistered
    NoTwoServed
PROPERTIES
    LeaseRefinement
    RegistrationDecided
    DeadClientLeavesRegistry
CHECK_DEADLOCK FALSE
