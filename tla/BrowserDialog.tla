--------------------------- MODULE BrowserDialog ---------------------------
(***************************************************************************)
(* The dialogs of the browser screen, internal/ui/screen/browser: marks,   *)
(* prompts, details with their summary, and the shell pane, together with  *)
(* what the root model (internal/ui/root_*.go) does to the screen.         *)
(*                                                                         *)
(* Update handles one message at a time; the commands it returns run       *)
(* concurrently and their answers arrive in any order.  The root sends an  *)
(* answer without an owner (a description, a YAML text, events, the result *)
(* of a mutation) to the screen that is visible when it arrives.           *)
(*                                                                         *)
(* Where the rows come from is the matter of module BrowserLists: here a   *)
(* list may change at any moment and leave the cursor on any row, for the  *)
(* cursor is an index and the list is replaced under it.                   *)
(***************************************************************************)
EXTENDS Naturals, FiniteSets

CONSTANTS
    Pods, Workloads,    \* the rows of two resource types
    NoRow,
    Namespaces, AllNamespaces,
    Habits,             \* bound: the sets of keys that one user has
    MaxAnswers,         \* bound on the descriptions and texts on their way
    MaxSummaries,       \* bound on the summaries on their way
    MaxMutations,       \* bound on the mutations on their way
    MaxShells           \* bound on the shells ever opened

ASSUME DialogConstants ==
    /\ NoRow \notin Pods \cup Workloads
    /\ AllNamespaces \notin Namespaces
    /\ MaxAnswers \in Nat /\ MaxSummaries \in Nat /\ MaxMutations \in Nat /\ MaxShells \in Nat

Row == Pods \cup Workloads
Types == {"pods", "workloads"}
RowsOf(t) == IF t = "pods" THEN Pods ELSE Workloads
Shells == 1..MaxShells
NoShell == 0

VARIABLES
    screen,             \* RootModel.screen: "browser" or "other"
    active,
    switching,          \* RootModel.contextSwitching
    travel,             \* a GoBackMsg or DrillDownMsg on its way: "leave", a resource type, or "none"
    namespace, resourceType,
    cursor,             \* the row under the cursor: selectedIdentity
    state,
    showConfirm,
    confirm,            \* the prompt: what was asked, and the rows its box stands for (confirmTarget)
    confirmIdentity, scaleIdentity,
    selected,
    mutating,           \* mutations without an answer
    request,            \* history: the mutation sent last, until it is answered: what its box
                        \* showed, what it acts on, and whether as marks or as one row
    showDetail,
    detail,             \* detailKind, and the row detailContent is about
    answers,            \* descriptions and texts on their way
    summary,            \* the row whose description analysisSummary was made from
    analyzing,          \* analysisSummaryLoading
    summaries,          \* summaries on their way; latest: made for the current detailRequestID
    shells,             \* what has become of each shell
    shellSession, shellLines,
    outputs, exits,     \* the commands waiting for the output and the exit of each shell
    keys                \* what the user of this behaviour does

rootVars   == <<screen, active, switching, travel>>
listVars   == <<namespace, resourceType, cursor>>
promptVars == <<showConfirm, confirm, confirmIdentity, scaleIdentity, selected>>
workVars   == <<mutating, request>>
detailVars == <<showDetail, detail, answers, summary, analyzing, summaries>>
shellVars  == <<shells, shellSession, shellLines, outputs, exits>>
vars == <<rootVars, listVars, state, promptVars, workVars, detailVars, shellVars, keys>>

States == {"browsing", "detail", "scaleInput", "scaleConfirm", "deleteConfirm", "filter", "shell"}
Prompts == {"scaleConfirm", "deleteConfirm"}

RootTypes ==
    /\ screen \in {"browser", "other"} /\ active \in BOOLEAN /\ switching \in BOOLEAN
    /\ travel \in Types \cup {"none", "leave"}
ListTypes ==
    /\ namespace \in Namespaces \cup {AllNamespaces} /\ resourceType \in Types
    /\ cursor \in RowsOf(resourceType) \cup {NoRow}
PromptTypes ==
    /\ state \in States /\ showConfirm \in BOOLEAN
    /\ confirm \in [prompt : {"none", "row", "marks", "scale"}, shows : SUBSET Row]
    /\ confirmIdentity \in Row \cup {NoRow} /\ scaleIdentity \in Row \cup {NoRow}
    /\ selected \subseteq RowsOf(resourceType)
WorkTypes ==
    /\ mutating \in 0..MaxMutations
    /\ request \in [prompt : {"none", "row", "marks", "scale"}, shown : SUBSET Row,
                   by : {"none", "row", "marks"}, on : SUBSET Row]
DetailTypes ==
    /\ showDetail \in BOOLEAN
    /\ detail \in [kind : {"none", "describe", "text"}, of : Row \cup {NoRow}]
    /\ detail.kind # "none" => detail.of \in Row
    /\ answers \subseteq [kind : {"describe", "text"}, of : Row]
    /\ summary \in Row \cup {NoRow} /\ analyzing \in BOOLEAN
    /\ summaries \subseteq [latest : {"yes", "no"}, identity : Row, content : Row]
ShellTypes ==
    /\ shells \in [Shells -> {"unused", "open", "ended", "closed"}]
    /\ shellSession \in Shells \cup {NoShell} /\ shellLines \subseteq Shells
    /\ outputs \in [Shells -> {"none", "waiting", "line", "closed"}]
    /\ exits \in [Shells -> {"none", "waiting", "exit"}]
TypeOK == RootTypes /\ ListTypes /\ PromptTypes /\ WorkTypes /\ DetailTypes /\ ShellTypes

NoRequest == [prompt |-> "none", shown |-> {}, by |-> "none", on |-> {}]

\* NewWithAnalysis, and the root showing its dashboard.
Init ==
    /\ keys \in Habits
    /\ screen = "other" /\ active = FALSE /\ switching = FALSE /\ travel = "none"
    /\ namespace \in Namespaces \cup {AllNamespaces} /\ resourceType = "pods" /\ cursor = NoRow
    /\ state = "browsing" /\ showConfirm = FALSE
    /\ confirm = [prompt |-> "none", shows |-> {}]
    /\ confirmIdentity = NoRow /\ scaleIdentity = NoRow /\ selected = {}
    /\ mutating = 0 /\ request = NoRequest
    /\ showDetail = FALSE /\ detail = [kind |-> "none", of |-> NoRow] /\ answers = {}
    /\ summary = NoRow /\ analyzing = FALSE /\ summaries = {}
    /\ shells = [s \in Shells |-> "unused"] /\ shellSession = NoShell /\ shellLines = {}
    /\ outputs = [s \in Shells |-> "none"] /\ exits = [s \in Shells |-> "none"]

\* A key that handleKey gives to the handler of the state it is in.
Press(key, in) == key \in keys /\ screen = "browser" /\ ~switching /\ state = in
\* A key the root keeps for itself: the screen has no input focus.
RootKey(key) == key \in keys /\ ~switching /\ (screen = "other" \/ state \in {"browsing", "detail"})

-----------------------------------------------------------------------------
(* Rows and marks                                                          *)

\* A list arrives, or the user moves: the cursor stands on any row of the type.
ListChanges ==
    /\ cursor' \in RowsOf(resourceType) \cup {NoRow} /\ cursor' # cursor
    /\ UNCHANGED <<rootVars, namespace, resourceType, state, promptVars, workVars, detailVars, shellVars>>

\* toggleSelectedResource.
Mark ==
    /\ Press("space", "browsing") /\ cursor # NoRow
    /\ selected' = IF cursor \in selected THEN selected \ {cursor} ELSE selected \cup {cursor}
    /\ UNCHANGED <<rootVars, listVars, state, showConfirm, confirm, confirmIdentity, scaleIdentity,
                   workVars, detailVars, shellVars>>

\* handleBrowsingEscape: clears the marks, or asks the root to go back.
Escape ==
    /\ Press("esc", "browsing")
    /\ selected' = {}
    /\ travel' = IF selected = {} /\ travel = "none" THEN "leave" ELSE travel
    /\ UNCHANGED <<screen, active, switching, listVars, state, showConfirm, confirm, confirmIdentity,
                   scaleIdentity, workVars, detailVars, shellVars>>

\* A number made for an earlier request is no longer the latest.
Stale(set) == {[m EXCEPT !.latest = "no"] : m \in set}

\* SetResourceType.
SetResourceType(t) ==
    \/ /\ t = resourceType
       /\ UNCHANGED <<resourceType, cursor, selected, summaries>>
    \/ /\ t # resourceType
       /\ resourceType' = t
       /\ cursor' \in RowsOf(t) \cup {NoRow}
       /\ selected' = {}
       /\ summaries' = Stale(summaries)


\* cycleResourceType, selectResourceTypeShortcut, handleTitleBarClick.
ChangeType(t) ==
    /\ Press("tab", "browsing") /\ t # resourceType
    /\ SetResourceType(t)
    /\ UNCHANGED <<rootVars, namespace, state, showConfirm, confirm, confirmIdentity, scaleIdentity,
                   workVars, showDetail, detail, answers, summary, analyzing, shellVars>>

\* The filter bar.
OpenFilter ==
    /\ Press("/", "browsing") /\ state' = "filter"
    /\ UNCHANGED <<rootVars, listVars, promptVars, workVars, detailVars, shellVars>>
CloseFilter ==
    /\ Press("/", "filter") /\ state' = "browsing"
    /\ cursor' \in RowsOf(resourceType) \cup {NoRow}
    /\ UNCHANGED <<rootVars, namespace, resourceType, promptVars, workVars, detailVars, shellVars>>

-----------------------------------------------------------------------------
(* Prompts and mutations                                                   *)

\* beginResourceConfirmation for the row under the cursor.
AskForRow ==
    /\ Press("x", "browsing") /\ selected = {} /\ cursor # NoRow
    /\ confirm' = [prompt |-> "row", shows |-> {cursor}]
    /\ confirmIdentity' = cursor
    /\ showConfirm' = TRUE /\ state' = "deleteConfirm"
    /\ UNCHANGED <<rootVars, listVars, scaleIdentity, selected, workVars, detailVars, shellVars>>

\* beginBatchResourceConfirmation; refused in all-namespaces mode.
AskForMarks ==
    /\ Press("x", "browsing") /\ selected # {} /\ namespace # AllNamespaces
    /\ confirm' = [prompt |-> "marks", shows |-> selected]
    /\ showConfirm' = TRUE /\ state' = "deleteConfirm"
    /\ UNCHANGED <<rootVars, listVars, confirmIdentity, scaleIdentity, selected, workVars, detailVars,
                   shellVars>>

\* openScaleInput.
OpenScale ==
    /\ Press("s", "browsing") /\ resourceType = "workloads" /\ cursor # NoRow
    /\ scaleIdentity' = cursor /\ state' = "scaleInput"
    /\ UNCHANGED <<rootVars, listVars, showConfirm, confirm, confirmIdentity, selected, workVars,
                   detailVars, shellVars>>

\* handleScaleInputKey: enter with a replica count, or escape.
EnterReplicas ==
    /\ Press("s", "scaleInput")
    /\ confirm' = [prompt |-> "scale", shows |-> {scaleIdentity}]
    /\ showConfirm' = TRUE /\ state' = "scaleConfirm"
    /\ UNCHANGED <<rootVars, listVars, confirmIdentity, scaleIdentity, selected, workVars, detailVars,
                   shellVars>>
CancelScale ==
    /\ Press("s", "scaleInput") /\ state' = "browsing"
    /\ UNCHANGED <<rootVars, listVars, promptVars, workVars, detailVars, shellVars>>

\* n, N or esc in a prompt.
Refuse ==
    /\ \E p \in Prompts : Press("x", p)
    /\ showConfirm' = FALSE /\ state' = "browsing"
    /\ UNCHANGED <<rootVars, listVars, confirm, confirmIdentity, scaleIdentity, selected, workVars,
                   detailVars, shellVars>>

\* A fault to be told apart: the row under the cursor is taken when the prompt is confirmed.
ConfirmedUnderCursor ==
    IF state = "scaleConfirm" THEN {scaleIdentity}
    ELSE IF selected # {} THEN selected ELSE {cursor} \ {NoRow}

\* The rows a confirmed prompt acts on: confirmScale, executeConfirmedResourceAction.
ConfirmedRows ==
    CASE state = "scaleConfirm" -> {scaleIdentity}
      [] state = "deleteConfirm" /\ selected # {} -> selected
      [] state = "deleteConfirm" /\ selected = {} -> {confirmIdentity} \ {NoRow}

\* y in a prompt.  Without a row the setup of the operation fails and nothing is sent.
Confirm ==
    /\ \E p \in Prompts : Press("x", p)
    /\ mutating < MaxMutations
    /\ showConfirm' = FALSE /\ state' = "browsing"
    /\ selected' = IF state = "deleteConfirm" THEN {} ELSE selected
    /\ IF ConfirmedRows = {} THEN UNCHANGED workVars
       ELSE /\ mutating' = mutating + 1
            /\ request' = [prompt |-> confirm.prompt, shown |-> confirm.shows, on |-> ConfirmedRows,
                            by |-> IF state = "deleteConfirm" /\ selected # {} THEN "marks" ELSE "row"]
    /\ UNCHANGED <<rootVars, listVars, confirm, confirmIdentity, scaleIdentity, detailVars, shellVars>>

\* A fault to be told apart: the result of a mutation hides a prompt and leaves its keys.
DeliverMutationHiding ==
    /\ mutating > 0 /\ mutating' = mutating - 1
    /\ request' = IF mutating = 1 THEN NoRequest ELSE request
    /\ showConfirm' = (screen = "other" /\ showConfirm)
    /\ UNCHANGED <<rootVars, listVars, state, confirm, confirmIdentity, scaleIdentity, selected,
                   detailVars, shellVars>>

\* handleBrowserCommandResult, on the screen that is visible when the result arrives.
DeliverMutation ==
    /\ mutating > 0 /\ mutating' = mutating - 1
    /\ request' = IF mutating = 1 THEN NoRequest ELSE request
    /\ IF screen = "browser" THEN showConfirm' = FALSE /\ state' = "browsing"
       ELSE UNCHANGED <<showConfirm, state>>
    /\ UNCHANGED <<rootVars, listVars, confirm, confirmIdentity, scaleIdentity, selected,
                   detailVars, shellVars>>

-----------------------------------------------------------------------------
(* Details and their summary                                               *)

\* describeSelectedResource, fetchSelectedResourceYAML, fetchSelectedResourceEvents.
Read(kind) ==
    /\ Press(kind, "browsing") /\ cursor # NoRow
    /\ Cardinality(answers) < MaxAnswers
    /\ answers' = answers \cup {[kind |-> kind, of |-> cursor]}
    /\ UNCHANGED <<rootVars, listVars, state, promptVars, workVars, showDetail, detail, summary,
                   analyzing, summaries, shellVars>>

\* A fault to be told apart: the summary outlives its description.
OpenDetailKeepingSummary(answer) ==
    /\ detail' = answer /\ showDetail' = TRUE /\ state' = "detail"
    /\ summaries' = Stale(summaries) /\ analyzing' = FALSE /\ UNCHANGED summary

\* openBrowserDetail.
OpenDetail(answer) ==
    /\ detail' = answer
    /\ showDetail' = TRUE /\ state' = "detail"
    /\ summaries' = Stale(summaries)
    /\ summary' = NoRow /\ analyzing' = FALSE

\* handleDescribeResult, handleYAMLResult, handleEventsResult.  An error is only reported.
DeliverAnswer(answer) ==
    /\ answer \in answers /\ answers' = answers \ {answer}
    /\ \/ screen = "browser" /\ OpenDetail(answer)
       \/ UNCHANGED <<state, showDetail, detail, summary, analyzing, summaries>>
    /\ UNCHANGED <<rootVars, listVars, promptVars, workVars, shellVars>>

\* closeDetail.
CloseDetail ==
    /\ Press("esc", "detail")
    /\ state' = "browsing" /\ showDetail' = FALSE
    /\ detail' = [detail EXCEPT !.kind = "none"]
    /\ summaries' = Stale(summaries) /\ summary' = NoRow /\ analyzing' = FALSE
    /\ UNCHANGED <<rootVars, listVars, promptVars, workVars, answers, shellVars>>

\* analyzeDetail, fetchDetailSummary.
Analyze ==
    /\ Press("a", "detail") /\ detail.kind = "describe" /\ ~analyzing /\ cursor # NoRow
    /\ Cardinality(summaries) < MaxSummaries
    /\ analyzing' = TRUE /\ summary' = NoRow
    /\ summaries' = Stale(summaries)
                      \cup {[latest |-> "yes", identity |-> cursor, content |-> detail.of]}
    /\ UNCHANGED <<rootVars, listVars, state, promptVars, workVars, showDetail, detail, answers,
                   shellVars>>

\* acceptsDetailSummary.
AcceptsSummary(m) ==
    /\ detail.kind = "describe"
    /\ m.latest = "yes" /\ m.identity = cursor /\ m.content = detail.of

\* handleDescribeSummaryResult: a summary or an error.
DeliverSummary(m) ==
    /\ m \in summaries /\ summaries' = summaries \ {m}
    /\ IF AcceptsSummary(m)
       THEN analyzing' = FALSE /\ summary' \in {m.content, NoRow}
       ELSE UNCHANGED <<analyzing, summary>>
    /\ UNCHANGED <<rootVars, listVars, state, promptVars, workVars, showDetail, detail, answers,
                   shellVars>>

-----------------------------------------------------------------------------
(* The shell pane                                                          *)

\* shellSession.Close on a session that may have ended already.
Closed(s) == IF s # NoShell /\ shells[s] = "open" THEN [shells EXCEPT ![s] = "closed"] ELSE shells

\* closeShell, all but the change of state.
DropShell ==
    /\ shells' = Closed(shellSession) /\ shellSession' = NoShell /\ shellLines' = {}
    /\ UNCHANGED <<outputs, exits>>

\* openShell, when StartShell succeeds; it waits for the output and the exit.
OpenShell ==
    /\ Press("X", "browsing") /\ resourceType = "pods" /\ cursor # NoRow
    /\ \E s \in Shells :
        /\ \A r \in Shells : shells[r] = "unused" <=> r >= s
        /\ shells' = [shells EXCEPT ![s] = "open"]
        /\ shellSession' = s
        /\ outputs' = [outputs EXCEPT ![s] = "waiting"]
        /\ exits' = [exits EXCEPT ![s] = "waiting"]
    /\ shellLines' = {} /\ state' = "shell"
    /\ UNCHANGED <<rootVars, listVars, promptVars, workVars, detailVars>>

\* closeShell by key: escape, ctrl+x or an interrupt.
CloseShell ==
    /\ Press("esc", "shell")
    /\ DropShell /\ state' = "browsing"
    /\ UNCHANGED <<rootVars, listVars, promptVars, workVars, detailVars>>

\* The shell prints a line, or its output is closed at the end: waitForShellOutput returns.
ShellPrints(s) ==
    /\ outputs[s] = "waiting"
    /\ outputs' = [outputs EXCEPT ![s] = IF shells[s] = "open" THEN "line" ELSE "closed"]
    /\ UNCHANGED <<rootVars, listVars, state, promptVars, workVars, detailVars, shells, shellSession,
                   shellLines, exits>>

\* A fault to be told apart: a line is shown whatever session it came from.
DeliverAnyOutput(s) ==
    /\ outputs[s] = "line"
    /\ IF state = "shell"
       THEN /\ shellLines' = shellLines \cup {s}
            /\ outputs' = [outputs EXCEPT ![s] = "none", ![shellSession] = "waiting"]
       ELSE outputs' = [outputs EXCEPT ![s] = "none"] /\ UNCHANGED shellLines
    /\ UNCHANGED <<rootVars, listVars, state, promptVars, workVars, detailVars, shells, shellSession,
                   exits>>

\* handleShellOutput.
DeliverOutput(s) ==
    /\ outputs[s] = "line"
    /\ IF state = "shell" /\ shellSession = s
       THEN /\ shellLines' = shellLines \cup {s}
            /\ outputs' = [outputs EXCEPT ![s] = "waiting"]
       ELSE outputs' = [outputs EXCEPT ![s] = "none"] /\ UNCHANGED shellLines
    /\ UNCHANGED <<rootVars, listVars, state, promptVars, workVars, detailVars, shells, shellSession,
                   exits>>

\* The remote side ends the shell.
ShellEnds(s) ==
    /\ shells[s] = "open" /\ shells' = [shells EXCEPT ![s] = "ended"]
    /\ UNCHANGED <<rootVars, listVars, state, promptVars, workVars, detailVars, shellSession,
                   shellLines, outputs, exits>>

\* waitForShellExit returns.
ReportExit(s) ==
    /\ exits[s] = "waiting" /\ shells[s] \in {"ended", "closed"}
    /\ exits' = [exits EXCEPT ![s] = "exit"]
    /\ UNCHANGED <<rootVars, listVars, state, promptVars, workVars, detailVars, shells, shellSession,
                   shellLines, outputs>>

\* handleShellExit: closes the pane of that session, whatever the state.
DeliverExit(s) ==
    /\ exits[s] = "exit" /\ exits' = [exits EXCEPT ![s] = "none"]
    /\ IF shellSession = s
       THEN /\ shells' = Closed(s) /\ shellSession' = NoShell /\ shellLines' = {}
            /\ state' = "browsing"
       ELSE UNCHANGED <<shells, shellSession, shellLines, state>>
    /\ UNCHANGED <<rootVars, listVars, promptVars, workVars, detailVars, outputs>>

-----------------------------------------------------------------------------
(* What the root does to the screen                                        *)

\* Deactivate: a session is closed with its pane.
Deactivate ==
    /\ active' = FALSE
    /\ DropShell
    /\ state' = IF shellSession # NoShell THEN "browsing" ELSE state

\* switchScreen to another screen, by a click on the status bar in any state.
LeaveBrowser ==
    /\ "tabs" \in keys /\ screen = "browser" /\ ~switching
    /\ screen' = "other" /\ Deactivate
    /\ UNCHANGED <<switching, travel, listVars, promptVars, workVars, detailVars>>

\* transitionTo the browser: Activate.
OpenBrowser ==
    /\ screen = "other" /\ ~switching
    /\ screen' = "browser" /\ active' = TRUE
    /\ UNCHANGED <<switching, travel, listVars, state, promptVars, workVars, detailVars, shellVars>>

\* openPaletteResource.
Palette(t) ==
    /\ RootKey(":") /\ SetResourceType(t)
    /\ screen' = "browser" /\ active' = TRUE
    /\ UNCHANGED <<switching, travel, namespace, state, showConfirm, confirm, confirmIdentity,
                   scaleIdentity, workVars, showDetail, detail, answers, summary, analyzing, shellVars>>

\* A resource is chosen in the search or on the dashboard, or the logs of a pod are asked for.
AskToTravel(where) ==
    /\ RootKey("ctrl+p") /\ travel = "none" /\ travel' = where
    /\ UNCHANGED <<screen, active, switching, listVars, state, promptVars, workVars, detailVars,
                   shellVars>>

\* handleDrillDown to the browser: the type, the transition and the description of one row.
DrillDown(t) ==
    /\ travel = t /\ travel' = "none"
    /\ SetResourceType(t)
    /\ screen' = "browser" /\ active' = (screen = "other" \/ active)
    /\ Cardinality(answers) < MaxAnswers
    /\ \E r \in RowsOf(t) : answers' = answers \cup {[kind |-> "describe", of |-> r]}
    /\ UNCHANGED <<switching, namespace, state, showConfirm, confirm, confirmIdentity, scaleIdentity,
                   workVars, showDetail, detail, summary, analyzing, shellVars>>

\* GoBackMsg, or handleDrillDown to the logs.
GoAway ==
    /\ travel = "leave" /\ travel' = "none"
    /\ \/ screen = "browser" /\ screen' = "other" /\ Deactivate
       \/ screen = "other" /\ UNCHANGED <<screen, active, state, shellVars>>
    /\ UNCHANGED <<switching, listVars, promptVars, workVars, detailVars>>

\* SetNamespace.  The table keeps its rows, and the cursor, until the next list arrives.
SetNamespace(ns) ==
    /\ namespace' = ns
    /\ state' = "browsing"
    /\ showConfirm' = FALSE /\ showDetail' = FALSE /\ selected' = {}
    /\ summaries' = Stale(summaries) /\ summary' = NoRow /\ analyzing' = FALSE
    /\ UNCHANGED <<resourceType, cursor, confirm, confirmIdentity, scaleIdentity, detail, answers>>

\* switchNamespace: the visible screen is deactivated and activated around SetNamespace.
SwitchNamespace(ns) ==
    /\ IF screen = "browser" THEN DropShell /\ active' = TRUE ELSE UNCHANGED <<shellVars, active>>
    /\ SetNamespace(ns)

\* The namespace picker, open to a click in any state; or leaveClusterScope, at any time.
ChooseNamespace(ns) ==
    /\ \/ "n" \in keys /\ ~switching
       \/ "n" \in keys /\ namespace = AllNamespaces
    /\ SwitchNamespace(ns)
    /\ UNCHANGED <<screen, switching, travel, workVars>>

\* selectContext.
SelectContext ==
    /\ RootKey("k") /\ switching' = TRUE
    /\ IF screen = "browser" THEN Deactivate ELSE UNCHANGED <<active, shellVars, state>>
    /\ UNCHANGED <<screen, travel, listVars, promptVars, workVars, detailVars>>

\* handleContextSwitched.
ContextSwitched(ns) ==
    /\ switching /\ switching' = FALSE
    /\ SwitchNamespace(ns)
    /\ UNCHANGED <<screen, travel, workVars>>
ContextSwitchFailed ==
    /\ switching /\ switching' = FALSE
    /\ active' = (screen = "browser" \/ active)
    /\ UNCHANGED <<screen, travel, listVars, state, promptVars, workVars, detailVars, shellVars>>

-----------------------------------------------------------------------------
NamespaceChoice == Namespaces \cup {AllNamespaces}

UserActs ==
    \/ Mark \/ Escape \/ OpenFilter \/ CloseFilter \/ AskForRow \/ AskForMarks \/ OpenScale
    \/ EnterReplicas \/ CancelScale \/ Refuse \/ Confirm \/ CloseDetail \/ Analyze \/ OpenShell
    \/ CloseShell \/ LeaveBrowser \/ OpenBrowser \/ SelectContext
    \/ \E t \in Types : ChangeType(t) \/ Palette(t)
    \/ \E where \in Types \cup {"leave"} : AskToTravel(where)
    \/ \E kind \in {"describe", "text"} : Read(kind)
    \/ \E ns \in NamespaceChoice : ChooseNamespace(ns)

MessageArrives ==
    \/ ListChanges \/ DeliverMutation \/ GoAway \/ ContextSwitchFailed
    \/ \E t \in Types : DrillDown(t)
    \/ \E ns \in NamespaceChoice : ContextSwitched(ns)
    \/ \E answer \in answers : DeliverAnswer(answer)
    \/ \E m \in summaries : DeliverSummary(m)
    \/ \E s \in Shells : \/ ShellPrints(s) \/ DeliverOutput(s) \/ ShellEnds(s)
                         \/ ReportExit(s) \/ DeliverExit(s)

Next == (UserActs \/ MessageArrives) /\ UNCHANGED keys

Spec == Init /\ [][Next]_vars

-----------------------------------------------------------------------------
(* Properties                                                              *)

\* A mutation acts on the rows its prompt showed, wherever the cursor has gone since.  What is
\* left out is a prompt for marks that were cleared under it: see ConfirmedIsShown.
PromptIsObeyed == request.on = request.shown \/ (request.prompt = "marks" /\ request.by = "row")

\* What is confirmed is what the box of the prompt shows.
ConfirmedIsShown == request.on = request.shown

\* A prompt that waits for its keys is drawn, so no key is taken for an answer to something unseen.
PromptIsSeen == state \in Prompts => showConfirm

\* A summary stands above the description it was made from.
SummaryOfContent == summary # NoRow => detail = [kind |-> "describe", of |-> summary]

\* The shell pane shows its own session only and keeps listening to it.
PaneListens ==
    state = "shell" =>
        /\ shellSession # NoShell /\ shellLines \subseteq {shellSession}
        /\ outputs[shellSession] # "none"

\* A browser that is not active holds no session, whatever state it was left in.
InactiveHoldsNoShell == ~active => shellSession = NoShell
=============================================================================
