SPECIFICATION MCSpec
CONSTANTS
    N = 3
    Limit = 2
INVARIANTS
    TypeOK
    ReportedOnceAndTruly
    EveryFileReported
    FailFastStops
PROPERTIES
    Termination
