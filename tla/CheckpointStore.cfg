SPECIFICATION FairSpec
CONSTANTS
    c1 = c1
    c2 = c2
    c3 = c3
    sameQuestion = sameQuestion
    otherQuestion = otherQuestion
    Callers <- MCThree
    Identity <- MCIdentity
    NoIdentity = NoIdentity
    NoResult = NoResult
    NumNodes = 2
    Retries = 1
    LeaseSeconds = 2
    MaxTime = 2
    MaxFaults = 1
INVARIANTS NoFalseCorruption ResultIsCommitted AnswersAgree
PROPERTIES CompletedNodesAreFinal ProgressIsKept NoTakeoverOfALiveLease ImplementsDurableRun ImplementsLeasedRun EveryCallerIsServed
CHECK_DEADLOCK FALSE
