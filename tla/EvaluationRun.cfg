SPECIFICATION Spec
CONSTANTS
    Cases = {1, 2}
    Files = {f1, f2}
    Workers = {1, 2}
    Budgets = {0, 1}
    MaxMoves = 1
    NoFile = nofile
INVARIANTS
    ArtifactIsSound
    BudgetHolds
    OutcomesAreFinal
CHECK_DEADLOCK FALSE
