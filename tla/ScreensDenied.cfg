SPECIFICATION Spec
CONSTANTS
    Contexts = {c1, c2}
    Namespaces = {n1, n2}
    Nothing = Nothing
    Tours = {{"browser"}}
    LiveTypes = {pods}
    FetchedTypes = {nodes}
    Feeds = {podFeed, eventFeed}
    Pods = podFeed
    Releases = {r1, r2}
SYMMETRY ScopeSymmetry
INVARIANTS
    DeniedShowsNotice
