\* Fair workers, and every fault.
SPECIFICATION FairSpec
CONSTANTS
    d1 = d1
    d2 = d2
    w1 = w1
    w2 = w2
    w3 = w3
    NoDoc = NoDoc
    Docs = {d1, d2}
    ValidPdfs = {d1}
    Workers = {w1, w2}
    MaxAttempts = 2
    MaxUserRetries = 0
    Faults = {"file", "drain", "extraction", "limits"}
PROPERTIES
    EverySubmissionSettles
    ImplementsLifecycle
CHECK_DEADLOCK FALSE
