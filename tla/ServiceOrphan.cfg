SPECIFICATION Spec
CONSTANTS
    Jobs = {j1, j2}
    Kinds = {"research", "term"}
    Providers = {p1}
    Slots = 1
    QueueLimit = 2
    MaxAwaits = 1
    None = None
SYMMETRY Symmetry
INVARIANT RevokedWorkEnds
