\* Four questions compete for two slots.
SPECIFICATION Spec
CONSTANTS
    r1 = r1
    r2 = r2
    r3 = r3
    r4 = r4
    Requests = {r1, r2, r3, r4}
    MaxActiveAnswers = 2
SYMMETRY RequestSymmetry
INVARIANTS
    AnswerQuota
    CountIsExact
PROPERTIES
    RefusedOnlyWhenBusy
    ImplementsQuota
CHECK_DEADLOCK FALSE
