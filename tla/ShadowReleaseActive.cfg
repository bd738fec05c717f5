SPECIFICATION Spec
CONSTANTS
    Policies = {base, cand}
    Baseline = base
    Compiled = {}
    Deployments = {d1}
    NoDeployment = nodeployment
    Tasks = {t1, t2}
    NoTask = notask
    Sampled = {t1, t2}
    Environments = {e1}
    Queries = {q1, q2}
    Operators = {o1}
    MinShadow = 1
    MinCanary = 1
    DisagreementPercent = 50
    FailurePercent = 0
INVARIANT ActivePolicyIsApproved
