\* Two uploads compete for one document, and two requests delete it.
SPECIFICATION Spec
CONSTANTS
    u1 = u1
    u2 = u2
    x1 = x1
    x2 = x2
    NoUpload = NoUpload
    Uploads = {u1, u2}
    Size <- MCSize
    Deleters = {x1, x2}
    MaxOwnerDocuments = 1
    MaxOwnerStorage = 3
    StorageMayFail = TRUE
    CommitMayBeInDoubt = TRUE
SYMMETRY DeleterSymmetry
INVARIANTS
    TypeOK
    DocumentQuota
    NeverOvercounts
PROPERTIES
    RefusedOnlyWhenFull
    ImplementsQuota
CHECK_DEADLOCK FALSE
