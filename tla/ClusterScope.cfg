SPECIFICATION Spec
CONSTANTS
    wide = wide
    narrow = narrow
    Contexts <- BothContexts
    Restricted <- NarrowOnly
    Scoped <- NarrowOnly
    None = None
    Slots = {1, 2, 3}
    MaxConnections = 2
    MaxEdits = 1
INVARIANTS
    ConfigNamesConnection
    DeniedScopeIsLeft
    RootKnowsConnection
