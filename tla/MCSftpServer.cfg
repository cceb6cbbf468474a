CONSTANTS
    Names = {n1, n2}
    Odd = {n2}
    Batch = 2
    FlagSets <- MCFlagSets
    MaxRequests = 5
    MaxAhead = 2
    MaxHandles = 2
    MaxOutside = 2
SPECIFICATION Spec
INVARIANTS
    ReadsAreCurrent
    EntriesAccountedFor
    StuckFileIsPassed
PROPERTIES
    AnswersInOrder
    OpensWhatWasMissing
CHECK_DEADLOCK FALSE
