SPECIFICATION Spec
CONSTANTS
    Assets = {a1}
    Idents = {i1, i2}
    Bundles = {b1, b2}
    Convs = {c1}
    Items = {}
    Jobs = {j1, j2}
    Kinds = {"research"}
    None = None
SYMMETRY Symmetry
INVARIANT ContextMatchesPage
