SPECIFICATION Spec
CONSTANTS
    Pods = {p1, p2}
    Workloads = {w1}
    NoRow = NoRow
    Namespaces = {n1}
    AllNamespaces = AllNamespaces
    Habits <- StaleHabits
    MaxAnswers = 1
    MaxSummaries = 0
    MaxMutations = 1
    MaxShells = 0
INVARIANTS
    ConfirmedIsShown
