SPECIFICATION Spec
CONSTANTS
    e2 = e2 old1 = old1 old2 = old2
    planning = planning generation = generation
    Experiences = {e2}
    Inherited = {old1, old2}
    Repairs = {}
    Corrections = {}
    Skills = {planning, generation}
    SkillOf <- SkillsOfTwo
    Tasks = {e2}
    TaskOf <- TasksOfTwo
    Words = {w1}
    Texts = {t0, t1}
    Text0 = t0
    Automatic = automatic
    People = {person}
    NoVersion = noversion
    MaxDecisions = 1
    Contract = "v1"
    Movable = {"memory"}
    MaxMoves = 1
    MaxPolicies = 3
    ByHand = {generation}
    MaxByHand = 1
INVARIANTS
    PromptsHaveTheirSources
    RetryMakesNoTwin
PROPERTIES
    OnlyProvenIsActivated
CHECK_DEADLOCK FALSE
