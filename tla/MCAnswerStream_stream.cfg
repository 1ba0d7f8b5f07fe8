\* Two questions, one slot, answers of at most two pieces.
SPECIFICATION FairSpec
CONSTANTS
    r1 = r1
    r2 = r2
    Requests = {r1, r2}
    QuestionCapacity = 1
    Watched <- WatchedOne
    MaxTokens <- Tokens
INVARIANTS
    TypeOK
    SavedIsWhole
    NoHistoryOfDeleted
    OkIsTrue
    CancelReachesModel
    SlotsAreConserved
PROPERTIES
    EveryAskEnds
    CancelledSlotsReturn
CHECK_DEADLOCK FALSE
