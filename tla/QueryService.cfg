SPECIFICATION Spec
SYMMETRY Symmetry
CONSTRAINT Explored
CONSTANTS
    Requests = {q1, q2, q3}
    Releases = {r1, r2}
    Sessions = {s1, s2}
    NoRequest = norequest
    NoResult = noresult
    FaultyWrites = TRUE
INVARIANTS AnswersAreDurable RetryIsAccepted SideEffectsHappenOnce
PROPERTY EvidenceIsKept
CHECK_DEADLOCK FALSE
