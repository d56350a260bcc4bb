SPECIFICATION Spec
CONSTANTS
    Jobs = {j1, j2}
    Kinds = {"research", "term"}
    Providers = {p1, p2}
    Slots = 1
    QueueLimit = 2
    MaxAwaits = 2
    None = None
SYMMETRY Symmetry
INVARIANTS
    TypeOK
    SlotsOwned
    OneTurn
    OneEnding
    RunningOwned
    RevokedNeverPublishes
    ProviderStable
PROPERTIES
    CloseDrains
    LifecycleSpec
