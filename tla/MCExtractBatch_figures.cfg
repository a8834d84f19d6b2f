SPECIFICATION MCSpec
CONSTANTS
    N = 3
    Jobs = 2
    Outcomes = {"rendered", "failed"}
    NoOutcome = none
    Targets <- MCTargets
INVARIANTS
    NoOrphanFigures
