SPECIFICATION Spec
CONSTANTS
    Jobs = {j1, j2}
    Threads = {t1, t2}
    Loop = Loop
    None = None
INVARIANTS
    OnlyRestoreDeadlocks
PROPERTIES
    MaintenanceSeesOneState
    AtomicSpec
