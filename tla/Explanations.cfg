SPECIFICATION FairSpec
CHECK_DEADLOCK FALSE
CONSTANTS
    Docs = {d1}
    Levels = {l1}
    Jobs = {j1, j2}
    QueueLimit = 2
    Watched = j1
    None = None
INVARIANTS
    FinishedIsOver
    NothingOutlivesDocument
    OneWriter
    NothingAfterRevocation
PROPERTIES
    EverythingEnds
    ObserverLearns
