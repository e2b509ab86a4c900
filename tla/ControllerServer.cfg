SPECIFICATION FairSpec
CONSTANTS
    None = None
    NameCalls = {n1, n2}
    IDCalls = {i1}
    Requests <- MCRequests
    SourceSizes = {2, 4}
    InitialSize = 2
    MinimumSectorSize = 2
    DefaultSize = 4
    MaxInt = 15
    Minimum = 1
    MaxFaults = 1
    MaxExpands = 1
INVARIANTS AnswerFitsRequest AnswerIsWhole
PROPERTIES WaitersAreWoken CreationSucceeds
CHECK_DEADLOCK FALSE
