SPECIFICATION FairSpec
CHECK_DEADLOCK FALSE
CONSTANTS
    Vector <- MCVector
    Start <- MCStart
    Operations = 3
    MaxRounds = 3
    Bound = 3
    None = None
    Seeds = 2
    MaxFaults = 2
    Landscapes <- MCLandscapes
INVARIANTS ArchiveVerifies HistoryIsSearch ResultIsSearch NothingUnsettled
PROPERTIES Finishes
