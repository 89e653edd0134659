SPECIFICATION Spec
CONSTANTS
    a = a
    n1 = n1
    n2 = n2
    c1 = c1
    c2 = c2
    Names = {a}
    Namespaces = {n1, n2}
    Pods <- TwoPods
    Containers = {c1, c2}
    All = All
    None = None
    Default = Default
    MaxTicks = 2
SYMMETRY Alike
INVARIANTS
    RefreshGoesOn
    LoadingIsAnswered
    LinesOfSelection
