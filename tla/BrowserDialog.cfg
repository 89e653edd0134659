SPECIFICATION Spec
CONSTANTS
    Pods = {p1, p2}
    Workloads = {w1}
    NoRow = NoRow
    Namespaces = {n1}
    AllNamespaces = AllNamespaces
    Habits <- DialogHabits
    MaxAnswers = 1
    MaxSummaries = 1
    MaxMutations = 1
    MaxShells = 2
SYMMETRY PodSymmetry
INVARIANTS
    PromptIsObeyed
    PromptIsSeen
    SummaryOfContent
    PaneListens
