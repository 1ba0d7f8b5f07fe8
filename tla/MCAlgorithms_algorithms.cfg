SPECIFICATION Spec
CONSTANTS
    k1 = k1
    k2 = k2
    ChunkSize = 3
    Overlap = 1
    MaxChunks = 7
    BatchSize = 2
    MaxProcessedChunks = 3
    MaxDuration = 15
    Documents = {1, 2, 3}
    DefaultLimit = 1
    MaxLimit = 2
    MaxOffset = 7
    MaxOwnerStorage = 3
    MaxOwnerDocuments = 2
    MaxUploads = 2
    UploadWindow = 1
    MaxActive = 2
    MaxAnswers = 2
    AnswerWindow = 1
    AuthKeys = {k1, k2}
    AuthLimit <- AllLimits
    AuthWindow <- AllWindows
    MaxEntries = 1
    Texts <- AllTexts
    Runs <- AllRuns
    Streams <- AllStreams
    Backoffs <- AllBackoffs
    Listings <- AllListings
    Requests <- AllRequests
    Admissions <- AllAdmissions
    Logins <- AllLogins
    MaxCalls = 5
INVARIANTS
    ChunksCoverText
    VerdictIsRight
    BackoffIsCapped
    PagesListOnce
    RangesAsAsked
    AdmissionKeepsLimits
    SlidingLimit
CHECK_DEADLOCK FALSE
