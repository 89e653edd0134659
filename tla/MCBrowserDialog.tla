-------------------------- MODULE MCBrowserDialog --------------------------
(* Two pods and one workload are enough for a mark or a cursor to be on the wrong row.  *)
EXTENDS BrowserDialog, TLC

\* The keys of one user: what meets on the screen meets in one of the sets.
DialogHabits == {
    {"space", "esc", "tab", "x", "s", "tabs", ":"},             \* prompts under other types
    {"space", "esc", "tab", "x", "s", "describe", "tabs"},      \* prompts and late descriptions
    {"space", "esc", "x", "s", "describe", "tabs", "n"},        \* prompts and namespaces
    {"/", "text", "esc", "tabs"},
    {"esc", "describe", "a", "ctrl+p", "k", "n"},               \* details of another scope
    {"esc", "describe", "a", "tabs"},
    {"esc", "X", "describe", "ctrl+p"},                         \* shells and late descriptions
    {"esc", "X", "describe", "k"},
    {"esc", "X", "describe", "tabs", "n"}}
StaleHabits == {{"space", "esc", "tab", "x", "tabs", ":"}}

\* The rows of a type are alike.
PodSymmetry == Permutations(Pods)
=============================================================================
