SPECIFICATION Spec
CONSTANTS
    Threads = {t1}
    Ids <- MCIds
    Offsets <- MCOffsets
    Files <- MCCutOffFiles
    MaxCalls = 3
    NoThread = none
    Nothing = nothing
INVARIANTS
    NoStaleAnswer
