SPECIFICATION Spec
SYMMETRY Symmetry
CONSTRAINT Explored
CONSTANTS
    Policies = {base, hand, compiled}
    Baseline = base
    Compiled = {compiled}
    Deployments = {d1, d2}
    NoDeployment = nodeployment
    Tasks = {t1, t2}
    NoTask = notask
    Sampled = {t1}
    Environments = {e1, e2}
    Queries = {q1, q2}
    Operators = {o1}
    MinShadow = 1
    MinCanary = 1
    DisagreementPercent = 50
    FailurePercent = 0
INVARIANTS CountersMatchObservations DecidedInTime CandidateIsCleared PolicyFollowsDeployment ReleasesSucceed
PROPERTY ActivationIsEarned
