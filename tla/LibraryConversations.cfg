SPECIFICATION Spec
CONSTANTS
    Assets = {a1, a2}
    Idents = {i1}
    Bundles = {b1, b2}
    Convs = {c1}
    Items = {}
    Jobs = {j1, j2}
    Kinds = {"research"}
    None = None
SYMMETRY Symmetry
INVARIANTS
    ScopeFrozen
    ScopesAgree
    AnswersPublished
PROPERTY LifecycleSpec
