\* Storage works and instances keep being started.
SPECIFICATION FairSpec
CONSTANTS
    u1 = u1
    u2 = u2
    x1 = x1
    x2 = x2
    NoUpload = NoUpload
    Uploads = {u1, u2}
    Size <- MCSize
    Deleters = {x1}
    MaxOwnerDocuments = 2
    MaxOwnerStorage = 3
    StorageMayFail = FALSE
    CommitMayBeInDoubt = FALSE
PROPERTY OrphanFilesAreRemoved
CHECK_DEADLOCK FALSE
