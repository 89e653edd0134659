SPECIFICATION Spec
CONSTANTS
    p1 = p1
    p2 = p2
    v1 = v1
    v2 = v2
    Programs = {p1, p2}
    Namespaces = {}
    All = All
    Views = {v1, v2}
    DefaultView = v1
    Nothing = Nothing
    MaxFiles = 2
INVARIANTS
    SavedSurvives
    SuccessMeansSaved
PROPERTIES
    SessionIsWhole
SYMMETRY Alike
