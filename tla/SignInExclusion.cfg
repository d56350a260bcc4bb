SPECIFICATION Spec
CHECK_DEADLOCK FALSE
CONSTANTS
    Starts = {s1}
    Cancels = {c1}
    Quit = quit
    Jobs = {j1}
    None = None
INVARIANTS
    SignInExcludesResearch
