SPECIFICATION FairSpec
CONSTANTS
    Threads = {t1, t2}
    Ids <- MCIds
    Offsets <- MCOffsets
    Files <- MCFiles
    MaxCalls = 3
    NoThread = none
    Nothing = nothing
INVARIANTS
    TypeOK
    CachesCoherent
    RepairsOnce
    AnswersAreRight
    NestingBounded
PROPERTIES
    Termination
