SPECIFICATION MCSpec
CONSTANTS
    N = 6
    Jobs = 2
    Outcomes <- MCOutcomes
    NoOutcome = none
INVARIANTS
    TypeOK
    CommitsInOrder
    RenderedOnceInWindow
    NothingLost
PROPERTIES
    NothingAfterStop
    Termination
    ImplementsOrderedCommit
