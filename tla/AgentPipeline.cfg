SPECIFICATION Spec
CONSTANTS
    MaxCandidates = 3
    NoPlan = NoPlan
    NoCandidate = NoCandidate
INVARIANTS
    OnlyVettedSqlRuns
    ApprovedPlanIsCurrent
    ConflictsAreRevised
    ClarificationStops
    RejectionHasACause
CHECK_DEADLOCK FALSE
