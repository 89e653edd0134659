----------------------------- MODULE LogFollow ------------------------------
(***************************************************************************)
(* The log screen (internal/ui/screen/logs) and what the root does to it:  *)
(* the refresh timer, the requests of pods, containers and lines, and the  *)
(* selection their answers are compared with.                              *)
(*                                                                         *)
(* A request carries the number it was given; an answer is taken only when *)
(* no later number was given since.  Of each kind only the latest request  *)
(* is kept here, and whether its number is still the newest: the answers   *)
(* to all earlier ones are dropped.  The screen handles one message at a   *)
(* time; a timer and an answer may come at any moment.                     *)
(***************************************************************************)
EXTENDS Naturals, Sequences, FiniteSets

CONSTANTS
    Names, Namespaces,
    Pods,               \* the pods there may be, records of a name and a namespace
    Containers,
    All,                \* the empty namespace: every one of them
    None,               \* the empty name of a pod: none is selected
    Default,            \* the empty name of a container: the one the cluster chooses
    MaxTicks            \* bound on the timers that run beside one another

ASSUME LogConstants ==
    /\ Pods \subseteq [name : Names, namespace : Namespaces]
    /\ All \notin Namespaces /\ None \notin Names /\ Default \notin Containers
    /\ MaxTicks \in Nat \ {0}

VARIABLES
    shown,              \* RootModel.screen is the log screen
    switching,          \* RootModel.contextSwitching
    active, namespace,
    pods,               \* a sequence of pods
    selectedPod, selectedPodNamespace,
    containers, selectedContainer,
    showPodPopup, showContainerPopup, inspectMode, paused, loading,
    lines,              \* the target whose lines are on the screen, or NoLines
    podRequest, logRequest, containerRequest,
    ticks,              \* the timers that run
    ended,              \* history: the last lines asked for were denied
    relabelled,         \* history: a list of containers changed the selected one under the lines
    lost                \* history: the answer to the newest request of lines was dropped

rootVars      == <<shown, switching, active, namespace>>
selectionVars == <<selectedPod, selectedPodNamespace>>
containerVars == <<containers, selectedContainer, showContainerPopup>>
modeVars      == <<showPodPopup, inspectMode, paused>>
lineVars      == <<lines, relabelled>>
fetchVars     == <<logRequest, ended, lost>>
vars == <<rootVars, pods, selectionVars, containerVars, modeVars, loading, lineVars, podRequest, fetchVars,
          containerRequest, ticks>>

Scopes == Namespaces \cup {All}
Steps == {"none", "newest", "outdated"}
Targets == [name : Names \cup {None}, namespace : Scopes, container : Containers \cup {Default}]
NoLines == [name |-> None, namespace |-> All, container |-> Default]
NoPodRequest == [namespace |-> All, step |-> "none"]
NoLogRequest == [target |-> NoLines, step |-> "none"]
NoContainerRequest == [name |-> None, namespace |-> All, step |-> "none"]

RootTypes ==
    /\ shown \in BOOLEAN /\ switching \in BOOLEAN /\ active \in BOOLEAN /\ namespace \in Scopes
SelectionTypes ==
    /\ pods \in Seq(Pods)
    /\ selectedPod \in Names \cup {None} /\ selectedPodNamespace \in Scopes
    /\ containers \subseteq Containers /\ selectedContainer \in Containers \cup {Default}
ModeTypes ==
    /\ showPodPopup \in BOOLEAN /\ showContainerPopup \in BOOLEAN /\ inspectMode \in BOOLEAN
    /\ paused \in BOOLEAN /\ loading \in BOOLEAN
RequestTypes ==
    /\ lines \in Targets
    /\ podRequest \in [namespace : Scopes, step : Steps]
    /\ logRequest \in [target : Targets, step : Steps]
    /\ containerRequest \in [name : Names \cup {None}, namespace : Scopes, step : Steps]
    /\ ticks \in 0..MaxTicks
    /\ ended \in BOOLEAN /\ relabelled \in BOOLEAN /\ lost \in BOOLEAN
TypeOK == RootTypes /\ SelectionTypes /\ ModeTypes /\ RequestTypes

-----------------------------------------------------------------------------
(* The selection and the requests made for it                              *)

\* selectedPodNS: of a pod whose namespace is not known, that of the first pod of its name.
Resolve(list, scope, name, ns) ==
    LET first == {i \in DOMAIN list : list[i].name = name /\ \A j \in 1..(i - 1) : list[j].name # name}
    IN  IF ns # All THEN ns
        ELSE IF scope # All THEN scope
        ELSE IF first = {} THEN All
        ELSE list[CHOOSE i \in first : TRUE].namespace

SelectedPodNS == Resolve(pods, namespace, selectedPod, selectedPodNamespace)
Target(name, ns, container) == [name |-> name, namespace |-> ns, container |-> container]
Selection == Target(selectedPod, SelectedPodNS, selectedContainer)

\* A number is given without a request.
Outdated(request) == [request EXCEPT !.step = IF @ = "none" THEN @ ELSE "outdated"]

FetchPods(scope) == podRequest' = [namespace |-> scope, step |-> "newest"]

\* fetchSelectedLogs.
FetchLogs(target) ==
    /\ logRequest' = [target |-> target, step |-> "newest"]
    /\ ended' = FALSE /\ lost' = FALSE

ClearLines == lines' = NoLines /\ relabelled' = FALSE
ResetContainers == containers' = {} /\ selectedContainer' = Default /\ showContainerPopup' = FALSE

\* setPodIdentity and the request for its lines that follows in each of its callers; list holds the
\* pods known by then.
SetPodIdentity(list, name, ns) ==
    LET changed == selectedPod # name \/ Resolve(list, namespace, selectedPod, selectedPodNamespace) # ns
    IN  /\ selectedPod' = name /\ selectedPodNamespace' = ns
        /\ IF changed THEN ResetContainers ELSE UNCHANGED containerVars
        /\ containerRequest' = Outdated(containerRequest)
        /\ ClearLines /\ loading' = TRUE
        /\ FetchLogs(Target(name, Resolve(list, namespace, name, ns),
                            IF changed THEN Default ELSE selectedContainer))

-----------------------------------------------------------------------------
(* What the root does                                                      *)

Init ==
    /\ shown = FALSE /\ switching = FALSE /\ active = FALSE /\ namespace \in Scopes
    /\ pods = <<>> /\ selectedPod = None /\ selectedPodNamespace = All
    /\ containers = {} /\ selectedContainer = Default /\ showContainerPopup = FALSE
    /\ showPodPopup = FALSE /\ inspectMode = FALSE /\ paused = FALSE
    /\ loading = FALSE /\ lines = NoLines /\ relabelled = FALSE
    /\ podRequest = NoPodRequest /\ logRequest = NoLogRequest
    /\ containerRequest = NoContainerRequest
    /\ ticks = 0 /\ ended = FALSE /\ lost = FALSE

\* A fault to be told apart: the screen comes back without asking for its lines.
ActivateQuietly ==
    /\ active' = TRUE /\ FetchPods(namespace)
    /\ UNCHANGED <<loading, fetchVars>>

Activate ==
    /\ active' = TRUE /\ FetchPods(namespace)
    /\ IF selectedPod # None THEN loading' = TRUE /\ FetchLogs(Selection)
       ELSE UNCHANGED <<loading, fetchVars>>

Deactivate ==
    /\ active' = FALSE /\ loading' = FALSE
    /\ podRequest' = Outdated(podRequest) /\ logRequest' = Outdated(logRequest)
    /\ containerRequest' = Outdated(containerRequest)
    /\ UNCHANGED <<ended, lost>>

\* transitionTo the log screen, or the first activation of the program.
Enter ==
    /\ ~shown /\ shown' = TRUE /\ Activate
    /\ UNCHANGED <<switching, namespace, pods, selectionVars, containerVars, modeVars, lineVars,
                   containerRequest, ticks>>

\* transitionTo another screen: a key, a click on its tab, GoBackMsg or a drill-down.
Leave ==
    /\ shown /\ shown' = FALSE /\ Deactivate
    /\ UNCHANGED <<switching, namespace, pods, selectionVars, containerVars, modeVars, lineVars, ticks>>

\* handleDrillDown to the log screen with the name of a pod; it is activated only when it is entered.
DrillDown(name, ns) ==
    /\ shown' = TRUE
    /\ SetPodIdentity(pods, name, IF ns # All THEN ns ELSE namespace)
    /\ IF shown THEN UNCHANGED <<active, podRequest>> ELSE active' = TRUE /\ FetchPods(namespace)
    /\ UNCHANGED <<switching, namespace, pods, modeVars, ticks>>

\* selectContext: the screen on display is deactivated until the connection is there.
SwitchContext ==
    /\ ~switching /\ switching' = TRUE
    /\ IF shown THEN Deactivate
       ELSE UNCHANGED <<active, loading, podRequest, fetchVars, containerRequest>>
    /\ UNCHANGED <<shown, namespace, pods, selectionVars, containerVars, modeVars, lineVars, ticks>>

ContextSwitchFailed ==
    /\ switching /\ switching' = FALSE
    /\ IF shown THEN Activate ELSE UNCHANGED <<active, loading, podRequest, fetchVars>>
    /\ UNCHANGED <<shown, namespace, pods, selectionVars, containerVars, modeVars, lineVars,
                   containerRequest, ticks>>

\* A fault to be told apart: the lines of the old namespace stay.
SetNamespaceKeepingLines(ns) ==
    /\ namespace' = ns /\ selectedPod' = None /\ selectedPodNamespace' = All /\ ResetContainers
    /\ podRequest' = IF shown THEN [namespace |-> ns, step |-> "newest"] ELSE Outdated(podRequest)
    /\ logRequest' = Outdated(logRequest) /\ containerRequest' = Outdated(containerRequest)
    /\ active' = shown /\ loading' = (loading /\ ~shown)
    /\ UNCHANGED <<shown, pods, modeVars, lineVars, ended, lost, ticks>>

\* switchNamespace: the screen on display is deactivated, every screen is told the namespace, and
\* the one on display is activated; without a pod it asks for the pods alone.
SetNamespace(ns) ==
    /\ namespace' = ns /\ selectedPod' = None /\ selectedPodNamespace' = All /\ ResetContainers
    /\ podRequest' = IF shown THEN [namespace |-> ns, step |-> "newest"] ELSE Outdated(podRequest)
    /\ logRequest' = Outdated(logRequest) /\ containerRequest' = Outdated(containerRequest)
    /\ ClearLines
    /\ active' = shown /\ loading' = (loading /\ ~shown)
    /\ UNCHANGED <<shown, pods, modeVars, ended, lost, ticks>>

\* A namespace is chosen, or a denied scope is left.
SwitchNamespace(ns) == SetNamespace(ns) /\ UNCHANGED switching

\* handleContextSwitched.
ContextSwitched(ns) == switching /\ switching' = FALSE /\ SetNamespace(ns)

-----------------------------------------------------------------------------
(* The user                                                                *)

\* The root passes keys on; the popup of containers comes before that of pods and the inspection.
Keys == active /\ ~switching
PlainKeys == Keys /\ ~showContainerPopup /\ ~showPodPopup /\ ~inspectMode

\* The key space.
TogglePause ==
    /\ PlainKeys /\ paused' = ~paused
    /\ IF paused /\ selectedPod # None THEN ticks < MaxTicks /\ ticks' = ticks + 1 ELSE UNCHANGED ticks
    /\ UNCHANGED <<rootVars, pods, selectionVars, containerVars, showPodPopup, inspectMode, loading,
                   lineVars, podRequest, fetchVars, containerRequest>>

\* startLogInspection, or a click on a line, which the popups keep away.
StartInspection ==
    /\ Keys /\ ~showContainerPopup /\ ~showPodPopup /\ lines # NoLines
    /\ inspectMode' = TRUE /\ paused' = TRUE
    /\ UNCHANGED <<rootVars, pods, selectionVars, containerVars, showPodPopup, loading, lineVars,
                   podRequest, fetchVars, containerRequest, ticks>>

\* The key esc or i of the inspection: the stream stays paused.
LeaveInspection ==
    /\ Keys /\ ~showContainerPopup /\ ~showPodPopup /\ inspectMode /\ inspectMode' = FALSE
    /\ UNCHANGED <<rootVars, pods, selectionVars, containerVars, showPodPopup, paused, loading, lineVars,
                   podRequest, fetchVars, containerRequest, ticks>>

\* The key r.
Refresh ==
    /\ PlainKeys /\ selectedPod # None
    /\ loading' = TRUE /\ FetchLogs(Selection)
    /\ UNCHANGED <<rootVars, pods, selectionVars, containerVars, modeVars, lineVars, podRequest,
                   containerRequest, ticks>>

\* The key p; esc, p or a click beside the popup.
TogglePodPopup ==
    /\ Keys /\ ~showContainerPopup /\ (inspectMode => showPodPopup)
    /\ showPodPopup' = ~showPodPopup
    /\ UNCHANGED <<rootVars, pods, selectionVars, containerVars, inspectMode, paused, loading, lineVars,
                   podRequest, fetchVars, containerRequest, ticks>>

\* handlePopupKey and handlePopupClick: a pod of the list.
ChoosePod(i) ==
    /\ Keys /\ showPodPopup /\ ~showContainerPopup
    /\ showPodPopup' = FALSE
    /\ SetPodIdentity(pods, pods[i].name, pods[i].namespace)
    /\ UNCHANGED <<rootVars, pods, inspectMode, paused, podRequest, ticks>>

\* The key o: fetchContainers.
FetchContainers ==
    /\ PlainKeys /\ selectedPod # None
    /\ containerRequest' = [name |-> selectedPod, namespace |-> SelectedPodNS, step |-> "newest"]
    /\ UNCHANGED <<rootVars, pods, selectionVars, containerVars, modeVars, loading, lineVars, podRequest,
                   fetchVars, ticks>>

\* A fault to be told apart: a container is chosen and its lines come with the next timer.
ChooseContainerLater(container) ==
    /\ Keys /\ showContainerPopup /\ container \in containers
    /\ selectedContainer' = container /\ showContainerPopup' = FALSE
    /\ ClearLines /\ loading' = TRUE
    /\ UNCHANGED <<rootVars, pods, selectionVars, containers, modeVars, podRequest, fetchVars,
                   containerRequest, ticks>>

\* handleContainerPopupKey: a container of the list.
ChooseContainer(container) ==
    /\ Keys /\ showContainerPopup /\ container \in containers
    /\ selectedContainer' = container /\ showContainerPopup' = FALSE
    /\ ClearLines /\ loading' = TRUE
    /\ FetchLogs(Target(selectedPod, SelectedPodNS, container))
    /\ UNCHANGED <<rootVars, pods, selectionVars, containers, modeVars, podRequest, containerRequest, ticks>>

CloseContainerPopup ==
    /\ Keys /\ showContainerPopup /\ showContainerPopup' = FALSE
    /\ UNCHANGED <<rootVars, pods, selectionVars, containers, selectedContainer, modeVars, loading, lineVars,
                   podRequest, fetchVars, containerRequest, ticks>>

-----------------------------------------------------------------------------
(* Answers and timers                                                      *)

\* The pods a list may hold: at most two of the namespace asked for.
Lists(scope) ==
    LET in == {p \in Pods : scope \in {All, p.namespace}}
    IN  {<<>>} \cup {<<p>> : p \in in} \cup UNION {{<<p, q>> : q \in in \ {p}} : p \in in}

\* acceptsPodListResult.
AcceptsPods == podRequest.step = "newest" /\ podRequest.namespace = namespace
PodsHandled ==
    /\ podRequest.step # "none" /\ podRequest' = NoPodRequest
    /\ UNCHANGED <<rootVars, modeVars, ticks>>

\* applyLogPods: the first pod of the list is selected when none is.
PodsListed(list) ==
    /\ PodsHandled /\ AcceptsPods
    /\ pods' = list
    /\ IF selectedPod # None \/ list = <<>>
       THEN UNCHANGED <<selectionVars, containerVars, loading, lineVars, fetchVars, containerRequest>>
       ELSE SetPodIdentity(list, list[1].name, list[1].namespace)

PodsFailed ==
    /\ PodsHandled /\ AcceptsPods
    /\ loading' = FALSE
    /\ UNCHANGED <<pods, selectionVars, containerVars, lineVars, fetchVars, containerRequest>>

PodsDropped ==
    /\ PodsHandled /\ ~AcceptsPods
    /\ UNCHANGED <<pods, selectionVars, containerVars, loading, lineVars, fetchVars, containerRequest>>

\* acceptsLogResult.
AcceptsLogs == logRequest.step = "newest" /\ logRequest.target = Selection
LogsHandled ==
    /\ logRequest.step # "none" /\ logRequest' = NoLogRequest
    /\ UNCHANGED <<rootVars, pods, selectionVars, containerVars, modeVars, podRequest, containerRequest>>
StartTimer == ticks < MaxTicks /\ ticks' = ticks + 1

\* applyLogs; a pod without a namespace has no lines.
LogsRead ==
    /\ LogsHandled /\ AcceptsLogs /\ logRequest.target.namespace # All
    /\ lines' = logRequest.target /\ relabelled' = FALSE /\ loading' = FALSE
    /\ IF paused THEN UNCHANGED ticks ELSE StartTimer
    /\ UNCHANGED <<ended, lost>>

LogsFailed ==
    /\ LogsHandled /\ AcceptsLogs
    /\ loading' = FALSE /\ StartTimer
    /\ UNCHANGED <<lineVars, ended, lost>>

LogsDenied ==
    /\ LogsHandled /\ AcceptsLogs /\ logRequest.target.namespace # All
    /\ loading' = FALSE /\ ended' = TRUE
    /\ UNCHANGED <<lineVars, lost, ticks>>

LogsDropped ==
    /\ LogsHandled /\ ~AcceptsLogs
    /\ lost' = (lost \/ logRequest.step = "newest")
    /\ UNCHANGED <<loading, lineVars, ended, ticks>>

\* acceptsContainersResult.
AcceptsContainers ==
    /\ containerRequest.step = "newest"
    /\ containerRequest.name = selectedPod /\ containerRequest.namespace = SelectedPodNS
ContainersHandled ==
    /\ containerRequest.step # "none" /\ containerRequest' = NoContainerRequest
    /\ UNCHANGED <<rootVars, pods, selectionVars, modeVars, loading, lines, podRequest, fetchVars, ticks>>

\* reconcileContainerSelection.
Reconciled(found) ==
    IF Cardinality(found) = 1 THEN CHOOSE c \in found : TRUE
    ELSE IF selectedContainer \in found THEN selectedContainer ELSE Default

\* applyContainers.
ContainersListed(found) ==
    /\ ContainersHandled /\ AcceptsContainers
    /\ containers' = found /\ selectedContainer' = Reconciled(found)
    /\ showContainerPopup' = (Cardinality(found) > 1)
    /\ relabelled' = (relabelled \/ Reconciled(found) # selectedContainer)

\* An error, or an answer that is not taken.
ContainersDropped == ContainersHandled /\ UNCHANGED <<containerVars, relabelled>>

\* handleLogRefreshTick.
Tick ==
    /\ ticks > 0 /\ ticks' = ticks - 1
    /\ IF active /\ ~paused /\ selectedPod # None
       THEN loading' = TRUE /\ FetchLogs(Selection)
       ELSE UNCHANGED <<loading, fetchVars>>
    /\ UNCHANGED <<rootVars, pods, selectionVars, containerVars, modeVars, lineVars, podRequest,
                   containerRequest>>

-----------------------------------------------------------------------------
RootSteps ==
    \/ Enter \/ Leave \/ SwitchContext \/ ContextSwitchFailed
    \/ \E ns \in Scopes : SwitchNamespace(ns) \/ ContextSwitched(ns)
    \/ \E name \in Names, ns \in Scopes : DrillDown(name, ns)
UserSteps ==
    \/ TogglePause \/ StartInspection \/ LeaveInspection \/ Refresh \/ TogglePodPopup
    \/ \E i \in DOMAIN pods : ChoosePod(i)
    \/ FetchContainers \/ CloseContainerPopup
    \/ \E c \in Containers : ChooseContainer(c)
Answers ==
    \/ \E list \in Lists(podRequest.namespace) : PodsListed(list)
    \/ PodsFailed \/ PodsDropped
    \/ LogsRead \/ LogsFailed \/ LogsDenied \/ LogsDropped
    \/ \E found \in SUBSET Containers : ContainersListed(found)
    \/ ContainersDropped

Next == RootSteps \/ UserSteps \/ Answers \/ Tick

Spec == Init /\ [][Next]_vars

-----------------------------------------------------------------------------
(* Properties                                                              *)

Following == active /\ ~paused /\ selectedPod # None

\* The namespace of the selected pod is looked up in the list of pods, and changes with it.
Unresolved == namespace = All /\ selectedPodNamespace = All

\* The stream goes on: a pod that is followed has a timer or an answer to come, unless its lines
\* are denied or an answer was dropped because the selection changed under its request.
RefreshGoesOn == Following /\ ~ended /\ ~lost => ticks > 0 \/ logRequest.step = "newest"

\* What is said to be loading will be answered.
LoadingIsAnswered == loading /\ ~lost => logRequest.step = "newest"

\* The lines on the screen are those of the pod and the container its title names.
LinesOfSelection ==
    lines # NoLines =>
        /\ lines.name = selectedPod
        /\ lines.namespace = SelectedPodNS \/ Unresolved
        /\ lines.container = selectedContainer \/ relabelled

\* An answer is lost only to a list of containers that changed the selected one, or to a list of
\* pods that changed the namespace of a pod whose namespace was not given.
LostToLists ==
    /\ lost => relabelled \/ Unresolved \/ selectedPod = None
    /\ logRequest.step = "newest" =>
        /\ logRequest.target.name = selectedPod
        /\ logRequest.target.namespace = SelectedPodNS \/ Unresolved
        /\ logRequest.target.container = selectedContainer \/ relabelled
=============================================================================
