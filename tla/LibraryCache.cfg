SPECIFICATION Spec
CONSTANTS
    Assets = {a1}
    Idents = {i1}
    Bundles = {b1, b2, b3}
    Convs = {}
    Items = {k1}
    Jobs = {j1, j2}
    Kinds = {"research", "term"}
    None = None
SYMMETRY Symmetry
INVARIANTS
    RefsResolve
    CheckpointsLabelled
    TermsExplainedOnce
    HeldEvidenceStays
PROPERTIES
    SavedWorkStable
