SPECIFICATION FairSpec
CHECK_DEADLOCK FALSE
CONSTANTS
    Runs = {r1}
    FullText = {u}
    Market = {m}
    PendingLimit = 1
    Tools = {t}
    Grants = {g}
    AskLimit = 1
    None = None
INVARIANTS
    QuietAfterRevocation
PROPERTIES
    StoredReviewed
    AnswersCount
    DeniedOnly
    ReviewsEnd
