\* Two documents, one of them without text, two workers, every fault.
SPECIFICATION Spec
CONSTANTS
    d1 = d1
    d2 = d2
    w1 = w1
    w2 = w2
    w3 = w3
    NoDoc = NoDoc
    Docs = {d1, d2}
    ValidPdfs = {d1}
    Workers = {w1, w2}
    MaxAttempts = 2
    MaxUserRetries = 1
    Faults = {"file", "drain", "extraction", "limits"}
SYMMETRY WorkerSymmetry
INVARIANTS
    TypeOK
    ResultOfLastClaim
    GivesUpOnlyWhenExhausted
    EveryClaimIsCounted
    OnlyLastClaimRejects
PROPERTIES
    FinalRowsStay
    LiveLeaseExcludes
CHECK_DEADLOCK FALSE
