SPECIFICATION FairSpec
CONSTANTS
    ra = ra rb = rb
    Ids = {1, 2}
    Rules = {ra, rb}
    RuleOf <- SameRule
    Operators = {o1}
    NoPins = nopins
    NoId = noid
    MaxJobs = 2
    MaxMoves = 1
    MaxCrashes = 1
INVARIANTS
    EvaluationHasAJob
PROPERTIES
    PoolWasEvaluated
    EvaluationSettles
CHECK_DEADLOCK FALSE
