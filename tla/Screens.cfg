SPECIFICATION Spec
CONSTANTS
    Contexts = {c1, c2}
    Namespaces = {n1, n2}
    Nothing = Nothing
    Tours = {{"browser"}, {"dashboard"}, {"helm"}, {"crds"}}
    LiveTypes = {pods, deployments}
    FetchedTypes = {nodes}
    Feeds = {podFeed, eventFeed}
    Pods = podFeed
    Releases = {r1, r2}
SYMMETRY ScopeSymmetry
INVARIANTS
    ShownIsFed
    ShownIsCurrent
    HeldIsCurrent
    OnlyShownWatches
    OneTimer
