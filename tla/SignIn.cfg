SPECIFICATION FairSpec
CHECK_DEADLOCK FALSE
CONSTANTS
    Starts = {s1, s2}
    Cancels = {c1, c2}
    Quit = quit
    Jobs = {j1}
    None = None
INVARIANTS
    OneOwnedProcess
    PendingWatched
    JoinedGoesDown
PROPERTIES
    CancelSettles
    SignInEnds
