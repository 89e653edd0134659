--------------------------- MODULE PodStreamProofs --------------------------
(***************************************************************************)
(* Proofs about the two streams that a pod has on the screen: LogFollow,   *)
(* for any pods, namespaces and containers and any number of timers, and   *)
(* ShellSession, for any number of lines and any capacity of its channels. *)
(***************************************************************************)
EXTENDS LogFollow, ShellSession, TLAPS, FiniteSetTheorems

-----------------------------------------------------------------------------
(* The logs of a pod                                                       *)

USE LogConstants

\* The namespace of a pod is one there is, or not known.
LEMMA ResolveTyped ==
    ASSUME NEW list \in Seq(Pods), NEW scope \in Scopes, NEW name, NEW ns \in Scopes
    PROVE  Resolve(list, scope, name, ns) \in Scopes
<1> DEFINE first == {i \in DOMAIN list : list[i].name = name /\ \A j \in 1..(i - 1) : list[j].name # name}
           one == CHOOSE i \in first : TRUE
<1>1. CASE first = {}
  BY <1>1 DEF Resolve, Scopes
<1>2. CASE first # {}
  <2>1. one \in DOMAIN list
    BY <1>2
  <2>2. list[one].namespace \in Namespaces
    BY <2>1
  <2> QED BY <1>2, <2>2 DEF Resolve, Scopes
<1> QED BY <1>1, <1>2

\* A pod whose namespace is known has it in every list.
LEMMA ResolvedForGood ==
    ASSUME NEW list, NEW other, NEW scope, NEW name, NEW ns, scope # All \/ ns # All
    PROVE  Resolve(list, scope, name, ns) = Resolve(other, scope, name, ns)
  BY DEF Resolve

\* The lists of pods are sequences of pods.
LEMMA ListsTyped == ASSUME NEW scope PROVE Lists(scope) \subseteq Seq(Pods)
<1>1. <<>> \in Seq(Pods) /\ \A p \in Pods : <<p>> \in Seq(Pods)
  OBVIOUS
<1>2. \A p, q \in Pods : <<p, q>> \in Seq(Pods)
  OBVIOUS
<1> DEFINE in == {p \in Pods : scope \in {All, p.namespace}}
<1>3. in \subseteq Pods
  OBVIOUS
<1>4. {<<p>> : p \in in} \subseteq Seq(Pods)
  BY <1>1, <1>3
<1>5. \A p \in in : {<<p, q>> : q \in in \ {p}} \subseteq Seq(Pods)
  BY <1>2, <1>3
<1>6. UNION {{<<p, q>> : q \in in \ {p}} : p \in in} \subseteq Seq(Pods)
  BY <1>5
<1> QED BY <1>1, <1>4, <1>6 DEF Lists

\* The root shows or hides the log screen and gives it a namespace.
THEOREM RootTyped == Spec => []RootTypes
<1>1. Init => RootTypes
  <2>1. Init => {shown, switching, active} \subseteq BOOLEAN
    BY DEF Init
  <2> QED BY <2>1 DEF Init, RootTypes, Scopes
<1>2. RootTypes /\ [Next]_vars => RootTypes'
  <2> SUFFICES ASSUME RootTypes, [Next]_vars PROVE RootTypes'
    OBVIOUS
  <2> USE DEF RootTypes, Scopes, rootVars, selectionVars, containerVars, modeVars, lineVars,
            fetchVars
  <2>1. CASE Enter
    BY <2>1 DEF Enter, Activate, FetchPods, FetchLogs
  <2>2. CASE Leave
    BY <2>2 DEF Leave, Deactivate, Outdated
  <2>3. CASE SwitchContext
    BY <2>3 DEF SwitchContext, Deactivate, Outdated
  <2>4. CASE ContextSwitchFailed
    BY <2>4 DEF ContextSwitchFailed, Activate, FetchPods, FetchLogs
  <2>5. ASSUME NEW ns \in Scopes, SwitchNamespace(ns) PROVE RootTypes'
    BY <2>5 DEF SwitchNamespace, SetNamespace, ResetContainers, Outdated, ClearLines
  <2>6. ASSUME NEW ns \in Scopes, ContextSwitched(ns) PROVE RootTypes'
    BY <2>6 DEF ContextSwitched, SetNamespace, ResetContainers, Outdated, ClearLines
  <2>7. ASSUME NEW name \in Names, NEW ns \in Scopes, DrillDown(name, ns) PROVE RootTypes'
    BY <2>7 DEF DrillDown, SetPodIdentity, ResetContainers, Outdated, ClearLines, FetchLogs, FetchPods
  <2>8. CASE TogglePause
    BY <2>8 DEF TogglePause, Keys, PlainKeys
  <2>9. CASE StartInspection
    BY <2>9 DEF StartInspection, Keys, PlainKeys
  <2>10. CASE LeaveInspection
    BY <2>10 DEF LeaveInspection, Keys, PlainKeys
  <2>11. CASE Refresh
    BY <2>11 DEF Refresh, Keys, PlainKeys, FetchLogs
  <2>12. CASE TogglePodPopup
    BY <2>12 DEF TogglePodPopup, Keys, PlainKeys
  <2>13. ASSUME NEW i \in DOMAIN pods, ChoosePod(i) PROVE RootTypes'
    BY <2>13 DEF ChoosePod, Keys, PlainKeys, SetPodIdentity, ResetContainers, Outdated, ClearLines, FetchLogs
  <2>14. CASE FetchContainers
    BY <2>14 DEF FetchContainers, Keys, PlainKeys
  <2>15. CASE CloseContainerPopup
    BY <2>15 DEF CloseContainerPopup, Keys, PlainKeys
  <2>16. ASSUME NEW c \in Containers, ChooseContainer(c) PROVE RootTypes'
    BY <2>16 DEF ChooseContainer, Keys, PlainKeys, ClearLines, FetchLogs
  <2>17. ASSUME NEW list \in Lists(podRequest.namespace), PodsListed(list) PROVE RootTypes'
    BY <2>17 DEF PodsListed, PodsHandled, NoPodRequest, SetPodIdentity, ResetContainers, Outdated, ClearLines, FetchLogs
  <2>18. CASE PodsFailed
    BY <2>18 DEF PodsFailed, PodsHandled, NoPodRequest
  <2>19. CASE PodsDropped
    BY <2>19 DEF PodsDropped, PodsHandled, NoPodRequest
  <2>20. CASE LogsRead
    BY <2>20 DEF LogsRead, LogsHandled, NoLogRequest, StartTimer
  <2>21. CASE LogsFailed
    BY <2>21 DEF LogsFailed, LogsHandled, NoLogRequest, StartTimer
  <2>22. CASE LogsDenied
    BY <2>22 DEF LogsDenied, LogsHandled, NoLogRequest
  <2>23. CASE LogsDropped
    BY <2>23 DEF LogsDropped, LogsHandled, NoLogRequest
  <2>24. ASSUME NEW found \in SUBSET Containers, ContainersListed(found) PROVE RootTypes'
    BY <2>24 DEF ContainersListed, ContainersHandled, NoContainerRequest
  <2>25. CASE ContainersDropped
    BY <2>25 DEF ContainersDropped, ContainersHandled, NoContainerRequest
  <2>26. CASE Tick
    BY <2>26 DEF Tick, FetchLogs
  <2>27. CASE UNCHANGED vars
    BY <2>27 DEF vars
  <2> QED
    BY <2>1, <2>2, <2>3, <2>4, <2>5, <2>6, <2>7, <2>8, <2>9, <2>10, <2>11, <2>12, <2>13,
       <2>14, <2>15, <2>16, <2>17, <2>18, <2>19, <2>20, <2>21, <2>22, <2>23, <2>24, <2>25,
       <2>26, <2>27
    DEF Next, RootSteps, UserSteps, Answers
<1> QED BY <1>1, <1>2, PTL DEF Spec

\* The popups, the inspection and the pause are switches.
THEOREM ModeTyped == Spec => []ModeTypes
<1>1. Init => ModeTypes
  <2>1. Init => {showPodPopup, showContainerPopup, inspectMode, paused, loading} \subseteq BOOLEAN
    BY DEF Init
  <2> QED BY <2>1 DEF Init, ModeTypes
<1>2. RootTypes /\ ModeTypes /\ [Next]_vars => ModeTypes'
  <2> SUFFICES ASSUME RootTypes, ModeTypes, [Next]_vars PROVE ModeTypes'
    OBVIOUS
  <2> USE DEF ModeTypes, rootVars, selectionVars, containerVars, modeVars, lineVars,
            fetchVars
  <2>1. CASE Enter
    BY <2>1 DEF Enter, Activate, FetchPods, FetchLogs
  <2>2. CASE Leave
    BY <2>2 DEF Leave, Deactivate, Outdated
  <2>3. CASE SwitchContext
    BY <2>3 DEF SwitchContext, Deactivate, Outdated
  <2>4. CASE ContextSwitchFailed
    BY <2>4 DEF ContextSwitchFailed, Activate, FetchPods, FetchLogs
  <2>5. ASSUME NEW ns \in Scopes, SwitchNamespace(ns) PROVE ModeTypes'
    BY <2>5 DEF SwitchNamespace, SetNamespace, ResetContainers, Outdated, ClearLines
  <2>6. ASSUME NEW ns \in Scopes, ContextSwitched(ns) PROVE ModeTypes'
    BY <2>6 DEF ContextSwitched, SetNamespace, ResetContainers, Outdated, ClearLines
  <2>7. ASSUME NEW name \in Names, NEW ns \in Scopes, DrillDown(name, ns) PROVE ModeTypes'
    BY <2>7 DEF DrillDown, SetPodIdentity, ResetContainers, Outdated, ClearLines, FetchLogs, FetchPods
  <2>8. CASE TogglePause
    BY <2>8 DEF TogglePause, Keys, PlainKeys
  <2>9. CASE StartInspection
    BY <2>9 DEF StartInspection, Keys, PlainKeys
  <2>10. CASE LeaveInspection
    BY <2>10 DEF LeaveInspection, Keys, PlainKeys
  <2>11. CASE Refresh
    BY <2>11 DEF Refresh, Keys, PlainKeys, FetchLogs
  <2>12. CASE TogglePodPopup
    BY <2>12 DEF TogglePodPopup, Keys, PlainKeys
  <2>13. ASSUME NEW i \in DOMAIN pods, ChoosePod(i) PROVE ModeTypes'
    BY <2>13 DEF ChoosePod, Keys, PlainKeys, SetPodIdentity, ResetContainers, Outdated, ClearLines, FetchLogs
  <2>14. CASE FetchContainers
    BY <2>14 DEF FetchContainers, Keys, PlainKeys
  <2>15. CASE CloseContainerPopup
    BY <2>15 DEF CloseContainerPopup, Keys, PlainKeys
  <2>16. ASSUME NEW c \in Containers, ChooseContainer(c) PROVE ModeTypes'
    BY <2>16 DEF ChooseContainer, Keys, PlainKeys, ClearLines, FetchLogs
  <2>17. ASSUME NEW list \in Lists(podRequest.namespace), PodsListed(list) PROVE ModeTypes'
    BY <2>17 DEF PodsListed, PodsHandled, NoPodRequest, SetPodIdentity, ResetContainers, Outdated, ClearLines, FetchLogs
  <2>18. CASE PodsFailed
    BY <2>18 DEF PodsFailed, PodsHandled, NoPodRequest
  <2>19. CASE PodsDropped
    BY <2>19 DEF PodsDropped, PodsHandled, NoPodRequest
  <2>20. CASE LogsRead
    BY <2>20 DEF LogsRead, LogsHandled, NoLogRequest, StartTimer
  <2>21. CASE LogsFailed
    BY <2>21 DEF LogsFailed, LogsHandled, NoLogRequest, StartTimer
  <2>22. CASE LogsDenied
    BY <2>22 DEF LogsDenied, LogsHandled, NoLogRequest
  <2>23. CASE LogsDropped
    BY <2>23 DEF LogsDropped, LogsHandled, NoLogRequest
  <2>24. ASSUME NEW found \in SUBSET Containers, ContainersListed(found) PROVE ModeTypes'
    BY <2>24 DEF ContainersListed, ContainersHandled, NoContainerRequest
  <2>25. CASE ContainersDropped
    BY <2>25 DEF ContainersDropped, ContainersHandled, NoContainerRequest
  <2>26. CASE Tick
    BY <2>26 DEF Tick, FetchLogs
  <2>27. CASE UNCHANGED vars
    BY <2>27 DEF vars
  <2> QED
    BY <2>1, <2>2, <2>3, <2>4, <2>5, <2>6, <2>7, <2>8, <2>9, <2>10, <2>11, <2>12, <2>13,
       <2>14, <2>15, <2>16, <2>17, <2>18, <2>19, <2>20, <2>21, <2>22, <2>23, <2>24, <2>25,
       <2>26, <2>27
    DEF Next, RootSteps, UserSteps, Answers
<1> QED BY <1>1, <1>2, RootTyped, PTL DEF Spec

\* The selection with its requests, without the switches.
PodRequests == [namespace : Scopes, step : Steps]
LogRequests == [target : Targets, step : Steps]
ContainerRequests == [name : Names \cup {None}, namespace : Scopes, step : Steps]
SelectionTypesOK ==
    /\ SelectionTypes /\ lines \in Targets
    /\ podRequest \in PodRequests /\ logRequest \in LogRequests /\ containerRequest \in ContainerRequests

\* Nothing asked for and nothing shown.
LEMMA NothingTyped ==
    /\ NoPodRequest \in PodRequests /\ NoLogRequest \in LogRequests
    /\ NoContainerRequest \in ContainerRequests /\ NoLines \in Targets
    /\ None \in Names \cup {None} /\ Default \in Containers \cup {Default} /\ All \in Scopes
  BY DEF PodRequests, LogRequests, ContainerRequests, Targets, Scopes, Steps, NoPodRequest,
         NoLogRequest, NoContainerRequest, NoLines

\* A request under an old number is still one of its kind.
LEMMA OutdatedTyped ==
    /\ \A r \in PodRequests : Outdated(r) \in PodRequests
    /\ \A r \in LogRequests : Outdated(r) \in LogRequests
    /\ \A r \in ContainerRequests : Outdated(r) \in ContainerRequests
<1>1. \A r \in PodRequests : r.step \in Steps /\ r = [namespace |-> r.namespace, step |-> r.step]
  BY DEF PodRequests
<1>2. \A r \in LogRequests : r.step \in Steps /\ r = [target |-> r.target, step |-> r.step]
  BY DEF LogRequests
<1>3. \A r \in ContainerRequests :
          r.step \in Steps /\ r = [name |-> r.name, namespace |-> r.namespace, step |-> r.step]
  BY DEF ContainerRequests
<1>4. \A r \in PodRequests : Outdated(r) \in PodRequests
  BY <1>1 DEF PodRequests, Outdated, Steps
<1>5. \A r \in LogRequests : Outdated(r) \in LogRequests
  BY <1>2 DEF LogRequests, Outdated, Steps
<1>6. \A r \in ContainerRequests : Outdated(r) \in ContainerRequests
  BY <1>3 DEF ContainerRequests, Outdated, Steps
<1> QED BY <1>4, <1>5, <1>6

\* A pod of a scope and one of its containers are a target.
LEMMA TargetTyped ==
    ASSUME NEW name \in Names \cup {None}, NEW ns \in Scopes, NEW c \in Containers \cup {Default}
    PROVE  Target(name, ns, c) \in Targets
  BY DEF Target, Targets

\* A fetch of lines is a request for them.
LEMMA FetchTyped ==
    ASSUME NEW t \in Targets, FetchLogs(t)
    PROVE  logRequest' \in LogRequests
  BY DEF FetchLogs, LogRequests, Steps

\* The selection is one there is.
LEMMA SelectionIsTarget == ASSUME SelectionTypesOK, RootTypes PROVE Selection \in Targets
<1>1. SelectedPodNS \in Scopes
  BY ResolveTyped DEF SelectedPodNS, SelectionTypesOK, SelectionTypes, RootTypes
<1> QED BY <1>1, TargetTyped DEF Selection, SelectionTypesOK, SelectionTypes

\* A pod that is selected is one there is, and so is what is asked for it.
LEMMA ChosenTyped ==
    ASSUME SelectionTypesOK, RootTypes, NEW list \in Seq(Pods), NEW name \in Names, NEW ns \in Scopes,
           SetPodIdentity(list, name, ns)
    PROVE  /\ selectedPod' \in Names \cup {None} /\ selectedPodNamespace' \in Scopes
           /\ containers' \subseteq Containers /\ selectedContainer' \in Containers \cup {Default}
           /\ lines' \in Targets
           /\ logRequest' \in LogRequests /\ containerRequest' \in ContainerRequests
<1> DEFINE changed == selectedPod # name \/ Resolve(list, namespace, selectedPod, selectedPodNamespace) # ns
           c == IF changed THEN Default ELSE selectedContainer
           t == Target(name, Resolve(list, namespace, name, ns), c)
<1>1. Resolve(list, namespace, name, ns) \in Scopes
  BY ResolveTyped DEF RootTypes
<1>2. c \in Containers \cup {Default}
  BY DEF SelectionTypesOK, SelectionTypes
<1>3. t \in Targets
  BY <1>1, <1>2, TargetTyped
<1>4. FetchLogs(t)
  BY DEF SetPodIdentity
<1>5. logRequest' \in LogRequests
  BY <1>3, <1>4, FetchTyped
<1>6. containerRequest' \in ContainerRequests
  BY OutdatedTyped DEF SetPodIdentity, SelectionTypesOK
<1>7. containers' \subseteq Containers /\ selectedContainer' \in Containers \cup {Default}
  BY DEF SetPodIdentity, ResetContainers, containerVars, SelectionTypesOK, SelectionTypes
<1> QED BY <1>5, <1>6, <1>7 DEF SetPodIdentity, ClearLines, NoLines, Targets, Scopes

\* An answer can be that of every target and an outcome of every list.
LEMMA ReconciledTyped ==
    ASSUME SelectionTypesOK, NEW found \in SUBSET Containers
    PROVE  Reconciled(found) \in Containers \cup {Default}
<1>1. CASE Cardinality(found) = 1 /\ found # {}
  <2>1. (CHOOSE c \in found : TRUE) \in found
    BY <1>1
  <2> QED BY <1>1, <2>1 DEF Reconciled
<1>2. CASE Cardinality(found) # 1
  BY <1>2 DEF Reconciled, SelectionTypesOK, SelectionTypes
<1>3. Cardinality({}) = 0
  BY FS_EmptySet
<1> QED BY <1>1, <1>2, <1>3

\* What is selected, shown and asked for is a pod, a namespace and a container.
THEOREM SelectionTyped == Spec => []SelectionTypesOK
<1>1. Init => SelectionTypesOK
  BY DEF Init, SelectionTypesOK, SelectionTypes, PodRequests, LogRequests, ContainerRequests, Scopes,
         Steps, Targets, NoLines, NoPodRequest, NoLogRequest, NoContainerRequest
<1>2. RootTypes /\ SelectionTypesOK /\ [Next]_vars => SelectionTypesOK'
  <2> SUFFICES ASSUME RootTypes, SelectionTypesOK, [Next]_vars PROVE SelectionTypesOK'
    OBVIOUS
  <2> USE DEF SelectionTypesOK, SelectionTypes, PodRequests, RootTypes, rootVars,
            selectionVars, containerVars, modeVars, lineVars, fetchVars
  <2>1. CASE Enter
    BY <2>1, SelectionIsTarget, FetchTyped DEF Enter, Activate, FetchPods, Steps
  <2>2. CASE Leave
    BY <2>2, OutdatedTyped DEF Leave, Deactivate
  <2>3. CASE SwitchContext
    BY <2>3, OutdatedTyped DEF SwitchContext, Deactivate
  <2>4. CASE ContextSwitchFailed
    BY <2>4, SelectionIsTarget, FetchTyped DEF ContextSwitchFailed, Activate, FetchPods, Steps
  <2>5. ASSUME NEW ns \in Scopes, SwitchNamespace(ns) PROVE SelectionTypesOK'
    BY <2>5, OutdatedTyped, NothingTyped DEF SwitchNamespace, SetNamespace, ResetContainers, ClearLines, Steps
  <2>6. ASSUME NEW ns \in Scopes, ContextSwitched(ns) PROVE SelectionTypesOK'
    BY <2>6, OutdatedTyped, NothingTyped DEF ContextSwitched, SetNamespace, ResetContainers, ClearLines, Steps
  <2>7. ASSUME NEW name \in Names, NEW ns \in Scopes, DrillDown(name, ns) PROVE SelectionTypesOK'
    <3>1. (IF ns # All THEN ns ELSE namespace) \in Scopes
      BY <2>7 DEF DrillDown
    <3>2. SetPodIdentity(pods, name, IF ns # All THEN ns ELSE namespace)
      BY <2>7, <3>1 DEF DrillDown
    <3>3. /\ selectedPod' \in Names \cup {None} /\ selectedPodNamespace' \in Scopes
         /\ containers' \subseteq Containers /\ selectedContainer' \in Containers \cup {Default}
         /\ lines' \in Targets
         /\ logRequest' \in LogRequests /\ containerRequest' \in ContainerRequests
      BY <3>1, <3>2, ChosenTyped
    <3> QED BY <2>7, <3>1, <3>2, <3>3 DEF DrillDown, FetchPods, Steps
  <2>8. CASE TogglePause
    BY <2>8 DEF TogglePause, Keys, PlainKeys
  <2>9. CASE StartInspection
    BY <2>9 DEF StartInspection, Keys, PlainKeys
  <2>10. CASE LeaveInspection
    BY <2>10 DEF LeaveInspection, Keys, PlainKeys
  <2>11. CASE Refresh
    BY <2>11, SelectionIsTarget, FetchTyped DEF Refresh, PlainKeys, Keys
  <2>12. CASE TogglePodPopup
    BY <2>12 DEF TogglePodPopup, Keys, PlainKeys
  <2>13. ASSUME NEW i \in DOMAIN pods, ChoosePod(i) PROVE SelectionTypesOK'
    <3>1. pods[i] \in Pods
      BY <2>13 DEF ChoosePod
    <3>2. pods[i].name \in Names /\ pods[i].namespace \in Scopes
      BY <2>13, <3>1 DEF ChoosePod, Scopes
    <3>3. SetPodIdentity(pods, pods[i].name, pods[i].namespace)
      BY <2>13, <3>1, <3>2 DEF ChoosePod
    <3>4. /\ selectedPod' \in Names \cup {None} /\ selectedPodNamespace' \in Scopes
         /\ containers' \subseteq Containers /\ selectedContainer' \in Containers \cup {Default}
         /\ lines' \in Targets
         /\ logRequest' \in LogRequests /\ containerRequest' \in ContainerRequests
      BY <3>1, <3>2, <3>3, ChosenTyped
    <3> QED BY <2>13, <3>1, <3>2, <3>3, <3>4 DEF ChoosePod, Keys
  <2>14. CASE FetchContainers
    <3>1. SelectedPodNS \in Scopes
      BY ResolveTyped DEF SelectedPodNS
    <3>2. containerRequest' \in ContainerRequests
      BY <2>14, <3>1 DEF FetchContainers, ContainerRequests, Steps
    <3> QED BY <2>14, <3>1, <3>2 DEF FetchContainers, Keys, PlainKeys
  <2>15. CASE CloseContainerPopup
    BY <2>15 DEF CloseContainerPopup, Keys, PlainKeys
  <2>16. ASSUME NEW c \in Containers, ChooseContainer(c) PROVE SelectionTypesOK'
    <3>1. SelectedPodNS \in Scopes
      BY ResolveTyped DEF SelectedPodNS
    <3>2. Target(selectedPod, SelectedPodNS, c) \in Targets
      BY <3>1, TargetTyped
    <3>3. FetchLogs(Target(selectedPod, SelectedPodNS, c))
      BY <2>16, NothingTyped, <3>1, <3>2 DEF ChooseContainer
    <3>4. logRequest' \in LogRequests
      BY <3>1, <3>2, <3>3, FetchTyped
    <3>5. lines' \in Targets
      BY <2>16, NothingTyped, <3>1, <3>2, <3>3, <3>4 DEF ChooseContainer, ClearLines
    <3> QED BY <2>16, <3>1, <3>2, <3>3, <3>4, <3>5 DEF ChooseContainer, ClearLines
  <2>17. ASSUME NEW list \in Lists(podRequest.namespace), PodsListed(list) PROVE SelectionTypesOK'
    <3>1. list \in Seq(Pods)
      BY ListsTyped
    <3>2. CASE selectedPod # None \/ list = <<>>
      BY <2>17, <3>1, <3>2, NothingTyped DEF PodsListed, PodsHandled
    <3>3. CASE ~(selectedPod # None \/ list = <<>>)
      <4>1. list[1] \in Pods /\ list[1].name \in Names /\ list[1].namespace \in Scopes
        BY <3>1, <3>3 DEF Scopes
      <4>2. SetPodIdentity(list, list[1].name, list[1].namespace)
        BY <2>17, <3>3 DEF PodsListed
      <4>3. /\ selectedPod' \in Names \cup {None} /\ selectedPodNamespace' \in Scopes
            /\ containers' \subseteq Containers /\ selectedContainer' \in Containers \cup {Default}
            /\ lines' \in Targets
            /\ logRequest' \in LogRequests /\ containerRequest' \in ContainerRequests
        BY <3>1, <4>1, <4>2, ChosenTyped
      <4> QED BY <2>17, <3>1, <4>3, NothingTyped DEF PodsListed, PodsHandled
    <3> QED BY <3>1, <3>2, <3>3
  <2>18. CASE PodsFailed
    BY <2>18, NothingTyped DEF PodsFailed, PodsHandled
  <2>19. CASE PodsDropped
    BY <2>19, NothingTyped DEF PodsDropped, PodsHandled
  <2>20. CASE LogsRead
    BY <2>20, NothingTyped DEF LogsRead, LogsHandled, LogRequests
  <2>21. CASE LogsFailed
    BY <2>21, NothingTyped DEF LogsFailed, LogsHandled
  <2>22. CASE LogsDenied
    BY <2>22, NothingTyped DEF LogsDenied, LogsHandled
  <2>23. CASE LogsDropped
    BY <2>23, NothingTyped DEF LogsDropped, LogsHandled
  <2>24. ASSUME NEW found \in SUBSET Containers, ContainersListed(found) PROVE SelectionTypesOK'
    BY <2>24, ReconciledTyped, NothingTyped DEF ContainersListed, ContainersHandled
  <2>25. CASE ContainersDropped
    BY <2>25, NothingTyped DEF ContainersDropped, ContainersHandled
  <2>26. CASE Tick
    BY <2>26, SelectionIsTarget, FetchTyped DEF Tick
  <2>27. CASE UNCHANGED vars
    BY <2>27 DEF vars
  <2> QED
    BY <2>1, <2>2, <2>3, <2>4, <2>5, <2>6, <2>7, <2>8, <2>9, <2>10, <2>11, <2>12, <2>13,
       <2>14, <2>15, <2>16, <2>17, <2>18, <2>19, <2>20, <2>21, <2>22, <2>23, <2>24, <2>25,
       <2>26, <2>27
    DEF Next, RootSteps, UserSteps, Answers
<1> QED BY <1>1, <1>2, RootTyped, PTL DEF Spec

RestTypes == ticks \in 0..MaxTicks /\ ended \in BOOLEAN /\ relabelled \in BOOLEAN /\ lost \in BOOLEAN

\* The timers are bounded and the history is a set of switches.
THEOREM RestTyped == Spec => []RestTypes
<1>1. Init => RestTypes
  <2>1. Init => {ended, relabelled, lost} \subseteq BOOLEAN
    BY DEF Init
  <2> QED BY <2>1 DEF Init, RestTypes
<1>2. SelectionTypesOK /\ RestTypes /\ [Next]_vars => RestTypes'
  <2> SUFFICES ASSUME SelectionTypesOK, RestTypes, [Next]_vars PROVE RestTypes'
    OBVIOUS
  <2> USE DEF RestTypes, rootVars, selectionVars, containerVars, modeVars, lineVars,
            fetchVars
  <2>1. CASE Enter
    BY <2>1 DEF Enter, Activate, FetchPods, FetchLogs
  <2>2. CASE Leave
    BY <2>2 DEF Leave, Deactivate, Outdated
  <2>3. CASE SwitchContext
    BY <2>3 DEF SwitchContext, Deactivate, Outdated
  <2>4. CASE ContextSwitchFailed
    BY <2>4 DEF ContextSwitchFailed, Activate, FetchPods, FetchLogs
  <2>5. ASSUME NEW ns \in Scopes, SwitchNamespace(ns) PROVE RestTypes'
    BY <2>5 DEF SwitchNamespace, SetNamespace, ResetContainers, Outdated, ClearLines
  <2>6. ASSUME NEW ns \in Scopes, ContextSwitched(ns) PROVE RestTypes'
    BY <2>6 DEF ContextSwitched, SetNamespace, ResetContainers, Outdated, ClearLines
  <2>7. ASSUME NEW name \in Names, NEW ns \in Scopes, DrillDown(name, ns) PROVE RestTypes'
    BY <2>7 DEF DrillDown, SetPodIdentity, ResetContainers, Outdated, ClearLines, FetchLogs, FetchPods
  <2>8. CASE TogglePause
    BY <2>8 DEF TogglePause, Keys, PlainKeys
  <2>9. CASE StartInspection
    BY <2>9 DEF StartInspection, Keys, PlainKeys
  <2>10. CASE LeaveInspection
    BY <2>10 DEF LeaveInspection, Keys, PlainKeys
  <2>11. CASE Refresh
    BY <2>11 DEF Refresh, Keys, PlainKeys, FetchLogs
  <2>12. CASE TogglePodPopup
    BY <2>12 DEF TogglePodPopup, Keys, PlainKeys
  <2>13. ASSUME NEW i \in DOMAIN pods, ChoosePod(i) PROVE RestTypes'
    BY <2>13 DEF ChoosePod, Keys, PlainKeys, SetPodIdentity, ResetContainers, Outdated, ClearLines, FetchLogs
  <2>14. CASE FetchContainers
    BY <2>14 DEF FetchContainers, Keys, PlainKeys
  <2>15. CASE CloseContainerPopup
    BY <2>15 DEF CloseContainerPopup, Keys, PlainKeys
  <2>16. ASSUME NEW c \in Containers, ChooseContainer(c) PROVE RestTypes'
    BY <2>16 DEF ChooseContainer, Keys, PlainKeys, ClearLines, FetchLogs
  <2>17. ASSUME NEW list \in Lists(podRequest.namespace), PodsListed(list) PROVE RestTypes'
    BY <2>17 DEF PodsListed, PodsHandled, NoPodRequest, SetPodIdentity, ResetContainers, Outdated, ClearLines, FetchLogs
  <2>18. CASE PodsFailed
    BY <2>18 DEF PodsFailed, PodsHandled, NoPodRequest
  <2>19. CASE PodsDropped
    BY <2>19 DEF PodsDropped, PodsHandled, NoPodRequest
  <2>20. CASE LogsRead
    <3>1. ticks' \in 0..MaxTicks
      BY <2>20 DEF LogsRead, StartTimer
    <3> QED BY <2>20, <3>1 DEF LogsRead, LogsHandled, NoLogRequest, StartTimer
  <2>21. CASE LogsFailed
    BY <2>21 DEF LogsFailed, LogsHandled, NoLogRequest, StartTimer
  <2>22. CASE LogsDenied
    BY <2>22 DEF LogsDenied, LogsHandled, NoLogRequest
  <2>23. CASE LogsDropped
    BY <2>23 DEF LogsDropped, LogsHandled, NoLogRequest
  <2>24. ASSUME NEW found \in SUBSET Containers, ContainersListed(found) PROVE RestTypes'
    BY <2>24 DEF ContainersListed, ContainersHandled, NoContainerRequest
  <2>25. CASE ContainersDropped
    BY <2>25 DEF ContainersDropped, ContainersHandled, NoContainerRequest
  <2>26. CASE Tick
    <3>1. ticks' \in 0..MaxTicks
      BY <2>26 DEF Tick
    <3>2. ended' \in BOOLEAN /\ lost' \in BOOLEAN
      BY <2>26, <3>1 DEF Tick, FetchLogs
    <3> QED BY <2>26, <3>1, <3>2 DEF Tick, FetchLogs
  <2>27. CASE UNCHANGED vars
    BY <2>27 DEF vars
  <2> QED
    BY <2>1, <2>2, <2>3, <2>4, <2>5, <2>6, <2>7, <2>8, <2>9, <2>10, <2>11, <2>12, <2>13,
       <2>14, <2>15, <2>16, <2>17, <2>18, <2>19, <2>20, <2>21, <2>22, <2>23, <2>24, <2>25,
       <2>26, <2>27
    DEF Next, RootSteps, UserSteps, Answers
<1> QED BY <1>1, <1>2, SelectionTyped, PTL DEF Spec

\* Every variable of the log screen keeps its type.
THEOREM TypeCorrect == Spec => []TypeOK
<1>1. RootTypes /\ ModeTypes /\ SelectionTypesOK /\ RestTypes => TypeOK
  BY DEF SelectionTypesOK, RestTypes, TypeOK, RequestTypes, PodRequests, LogRequests, ContainerRequests
<1> QED BY <1>1, RootTyped, ModeTyped, SelectionTyped, RestTyped, PTL

\* Nothing is asked for on a screen that is not shown.
Hidden ==
    ~shown =>
        /\ ~active /\ ~loading
        /\ podRequest.step # "newest" /\ logRequest.step # "newest"

\* The newest request has not been answered.
NewestNotLost == logRequest.step = "newest" => ~lost

\* A request under an old number is not the newest, and is about what it was about.
LEMMA OutdatedIsNotNewest ==
    /\ \A r \in PodRequests : Outdated(r).step # "newest"
    /\ \A r \in LogRequests : Outdated(r).step # "newest" /\ Outdated(r).target = r.target
<1>1. \A r \in PodRequests : r.step \in Steps /\ r = [namespace |-> r.namespace, step |-> r.step]
  BY DEF PodRequests
<1>2. \A r \in LogRequests : r.step \in Steps /\ r = [target |-> r.target, step |-> r.step]
  BY DEF LogRequests
<1>3. \A r \in PodRequests : Outdated(r).step # "newest"
  BY <1>1 DEF Outdated, Steps
<1>4. \A r \in LogRequests : Outdated(r).step # "newest" /\ Outdated(r).target = r.target
  BY <1>2 DEF Outdated, Steps
<1> QED BY <1>3, <1>4

\* Nothing is asked for on a screen that is not shown (RootModel.transitionTo, switchNamespace).
THEOREM HiddenAsksNothing == Spec => []Hidden
<1>1. Init => Hidden
  BY DEF Init, Hidden, NoPodRequest, NoLogRequest
<1>2. SelectionTypesOK /\ RootTypes /\ ModeTypes /\ Hidden /\ [Next]_vars => Hidden'
  <2> SUFFICES ASSUME SelectionTypesOK, RootTypes, ModeTypes, Hidden, [Next]_vars PROVE Hidden'
    OBVIOUS
  <2> USE DEF Hidden, SelectionTypesOK, rootVars, selectionVars, containerVars, modeVars,
            lineVars, fetchVars
  <2>1. CASE Enter
    BY <2>1 DEF Enter, Activate, FetchPods, FetchLogs
  <2>2. CASE Leave
    BY <2>2, OutdatedIsNotNewest DEF Leave, Deactivate
  <2>3. CASE SwitchContext
    BY <2>3, OutdatedIsNotNewest DEF SwitchContext, Deactivate
  <2>4. CASE ContextSwitchFailed
    BY <2>4 DEF ContextSwitchFailed, Activate, FetchPods, FetchLogs
  <2>5. ASSUME NEW ns \in Scopes, SwitchNamespace(ns) PROVE Hidden'
    BY <2>5, OutdatedIsNotNewest DEF SwitchNamespace, SetNamespace, ResetContainers, ClearLines, RootTypes, ModeTypes
  <2>6. ASSUME NEW ns \in Scopes, ContextSwitched(ns) PROVE Hidden'
    BY <2>6, OutdatedIsNotNewest DEF ContextSwitched, SetNamespace, ResetContainers, ClearLines, RootTypes, ModeTypes
  <2>7. ASSUME NEW name \in Names, NEW ns \in Scopes, DrillDown(name, ns) PROVE Hidden'
    BY <2>7 DEF DrillDown, SetPodIdentity, ResetContainers, ClearLines, FetchLogs, FetchPods
  <2>8. CASE TogglePause
    BY <2>8 DEF TogglePause, Keys, PlainKeys
  <2>9. CASE StartInspection
    BY <2>9 DEF StartInspection, Keys, PlainKeys
  <2>10. CASE LeaveInspection
    BY <2>10 DEF LeaveInspection, Keys, PlainKeys
  <2>11. CASE Refresh
    BY <2>11 DEF Refresh, Keys, PlainKeys, FetchLogs
  <2>12. CASE TogglePodPopup
    BY <2>12 DEF TogglePodPopup, Keys, PlainKeys
  <2>13. ASSUME NEW i \in DOMAIN pods, ChoosePod(i) PROVE Hidden'
    BY <2>13 DEF ChoosePod, Keys, PlainKeys, SetPodIdentity, ResetContainers, ClearLines, FetchLogs
  <2>14. CASE FetchContainers
    BY <2>14 DEF FetchContainers, Keys, PlainKeys
  <2>15. CASE CloseContainerPopup
    BY <2>15 DEF CloseContainerPopup, Keys, PlainKeys
  <2>16. ASSUME NEW c \in Containers, ChooseContainer(c) PROVE Hidden'
    BY <2>16 DEF ChooseContainer, Keys, PlainKeys, ClearLines, FetchLogs
  <2>17. ASSUME NEW list \in Lists(podRequest.namespace), PodsListed(list) PROVE Hidden'
    BY <2>17 DEF PodsListed, PodsHandled, NoPodRequest, SetPodIdentity, ResetContainers, ClearLines, FetchLogs, AcceptsPods
  <2>18. CASE PodsFailed
    BY <2>18 DEF PodsFailed, PodsHandled, NoPodRequest
  <2>19. CASE PodsDropped
    BY <2>19 DEF PodsDropped, PodsHandled, NoPodRequest
  <2>20. CASE LogsRead
    BY <2>20 DEF LogsRead, LogsHandled, NoLogRequest, StartTimer
  <2>21. CASE LogsFailed
    BY <2>21 DEF LogsFailed, LogsHandled, NoLogRequest, StartTimer
  <2>22. CASE LogsDenied
    BY <2>22 DEF LogsDenied, LogsHandled, NoLogRequest
  <2>23. CASE LogsDropped
    BY <2>23 DEF LogsDropped, LogsHandled, NoLogRequest
  <2>24. ASSUME NEW found \in SUBSET Containers, ContainersListed(found) PROVE Hidden'
    BY <2>24 DEF ContainersListed, ContainersHandled, NoContainerRequest
  <2>25. CASE ContainersDropped
    BY <2>25 DEF ContainersDropped, ContainersHandled, NoContainerRequest
  <2>26. CASE Tick
    BY <2>26 DEF Tick, FetchLogs
  <2>27. CASE UNCHANGED vars
    BY <2>27 DEF vars
  <2> QED
    BY <2>1, <2>2, <2>3, <2>4, <2>5, <2>6, <2>7, <2>8, <2>9, <2>10, <2>11, <2>12, <2>13,
       <2>14, <2>15, <2>16, <2>17, <2>18, <2>19, <2>20, <2>21, <2>22, <2>23, <2>24, <2>25,
       <2>26, <2>27
    DEF Next, RootSteps, UserSteps, Answers
<1> QED BY <1>1, <1>2, SelectionTyped, RootTyped, ModeTyped, PTL DEF Spec

\* The newest request of lines is answered at most once.
THEOREM NewestIsNotLost == Spec => []NewestNotLost
<1>1. Init => NewestNotLost
  BY DEF Init, NewestNotLost, NoLogRequest
<1>2. SelectionTypesOK /\ NewestNotLost /\ [Next]_vars => NewestNotLost'
  <2> SUFFICES ASSUME SelectionTypesOK, NewestNotLost, [Next]_vars PROVE NewestNotLost'
    OBVIOUS
  <2> USE DEF NewestNotLost, SelectionTypesOK, rootVars, selectionVars, containerVars,
            modeVars, lineVars, fetchVars
  <2>1. CASE Enter
    BY <2>1 DEF Enter, Activate, FetchPods, FetchLogs
  <2>2. CASE Leave
    BY <2>2, OutdatedIsNotNewest DEF Leave, Deactivate
  <2>3. CASE SwitchContext
    BY <2>3, OutdatedIsNotNewest DEF SwitchContext, Deactivate
  <2>4. CASE ContextSwitchFailed
    BY <2>4 DEF ContextSwitchFailed, Activate, FetchPods, FetchLogs
  <2>5. ASSUME NEW ns \in Scopes, SwitchNamespace(ns) PROVE NewestNotLost'
    BY <2>5, OutdatedIsNotNewest DEF SwitchNamespace, SetNamespace, ResetContainers, ClearLines
  <2>6. ASSUME NEW ns \in Scopes, ContextSwitched(ns) PROVE NewestNotLost'
    BY <2>6, OutdatedIsNotNewest DEF ContextSwitched, SetNamespace, ResetContainers, ClearLines
  <2>7. ASSUME NEW name \in Names, NEW ns \in Scopes, DrillDown(name, ns) PROVE NewestNotLost'
    BY <2>7 DEF DrillDown, SetPodIdentity, ResetContainers, ClearLines, FetchLogs, FetchPods
  <2>8. CASE TogglePause
    BY <2>8 DEF TogglePause, Keys, PlainKeys
  <2>9. CASE StartInspection
    BY <2>9 DEF StartInspection, Keys, PlainKeys
  <2>10. CASE LeaveInspection
    BY <2>10 DEF LeaveInspection, Keys, PlainKeys
  <2>11. CASE Refresh
    BY <2>11 DEF Refresh, Keys, PlainKeys, FetchLogs
  <2>12. CASE TogglePodPopup
    BY <2>12 DEF TogglePodPopup, Keys, PlainKeys
  <2>13. ASSUME NEW i \in DOMAIN pods, ChoosePod(i) PROVE NewestNotLost'
    BY <2>13 DEF ChoosePod, Keys, PlainKeys, SetPodIdentity, ResetContainers, ClearLines, FetchLogs
  <2>14. CASE FetchContainers
    BY <2>14 DEF FetchContainers, Keys, PlainKeys
  <2>15. CASE CloseContainerPopup
    BY <2>15 DEF CloseContainerPopup, Keys, PlainKeys
  <2>16. ASSUME NEW c \in Containers, ChooseContainer(c) PROVE NewestNotLost'
    BY <2>16 DEF ChooseContainer, Keys, PlainKeys, ClearLines, FetchLogs
  <2>17. ASSUME NEW list \in Lists(podRequest.namespace), PodsListed(list) PROVE NewestNotLost'
    BY <2>17 DEF PodsListed, PodsHandled, NoPodRequest, SetPodIdentity, ResetContainers, ClearLines, FetchLogs
  <2>18. CASE PodsFailed
    BY <2>18 DEF PodsFailed, PodsHandled, NoPodRequest
  <2>19. CASE PodsDropped
    BY <2>19 DEF PodsDropped, PodsHandled, NoPodRequest
  <2>20. CASE LogsRead
    BY <2>20 DEF LogsRead, LogsHandled, NoLogRequest, StartTimer
  <2>21. CASE LogsFailed
    BY <2>21 DEF LogsFailed, LogsHandled, NoLogRequest, StartTimer
  <2>22. CASE LogsDenied
    BY <2>22 DEF LogsDenied, LogsHandled, NoLogRequest
  <2>23. CASE LogsDropped
    BY <2>23 DEF LogsDropped, LogsHandled, NoLogRequest
  <2>24. ASSUME NEW found \in SUBSET Containers, ContainersListed(found) PROVE NewestNotLost'
    BY <2>24 DEF ContainersListed, ContainersHandled, NoContainerRequest
  <2>25. CASE ContainersDropped
    BY <2>25 DEF ContainersDropped, ContainersHandled, NoContainerRequest
  <2>26. CASE Tick
    BY <2>26 DEF Tick, FetchLogs
  <2>27. CASE UNCHANGED vars
    BY <2>27 DEF vars
  <2> QED
    BY <2>1, <2>2, <2>3, <2>4, <2>5, <2>6, <2>7, <2>8, <2>9, <2>10, <2>11, <2>12, <2>13,
       <2>14, <2>15, <2>16, <2>17, <2>18, <2>19, <2>20, <2>21, <2>22, <2>23, <2>24, <2>25,
       <2>26, <2>27
    DEF Next, RootSteps, UserSteps, Answers
<1> QED BY <1>1, <1>2, SelectionTyped, PTL DEF Spec

\* The stream of a pod that is followed goes on: a timer runs or an answer is to come.
THEOREM FollowedGoesOn == Spec => []RefreshGoesOn
<1>1. Init => RefreshGoesOn
  BY DEF Init, RefreshGoesOn, Following
<1>2. SelectionTypesOK /\ RestTypes /\ RefreshGoesOn /\ [Next]_vars => RefreshGoesOn'
  <2> SUFFICES ASSUME SelectionTypesOK, RestTypes, RefreshGoesOn, [Next]_vars PROVE RefreshGoesOn'
    OBVIOUS
  <2> USE DEF RefreshGoesOn, Following, SelectionTypesOK, RestTypes, rootVars,
            selectionVars, containerVars, modeVars, lineVars, fetchVars
  <2>1. CASE Enter
    BY <2>1 DEF Enter, Activate, FetchPods, FetchLogs
  <2>2. CASE Leave
    BY <2>2, OutdatedIsNotNewest DEF Leave, Deactivate
  <2>3. CASE SwitchContext
    BY <2>3, OutdatedIsNotNewest DEF SwitchContext, Deactivate
  <2>4. CASE ContextSwitchFailed
    <3>1. CASE shown /\ selectedPod # None
      BY <2>4, <3>1 DEF ContextSwitchFailed, Activate, FetchPods, FetchLogs
    <3>2. CASE shown /\ selectedPod = None
      BY <2>4, <3>2 DEF ContextSwitchFailed, Activate, FetchPods, FetchLogs
    <3>3. CASE ~shown
      BY <2>4, <3>3 DEF ContextSwitchFailed
    <3> QED BY <2>4, <3>1, <3>2, <3>3
  <2>5. ASSUME NEW ns \in Scopes, SwitchNamespace(ns) PROVE RefreshGoesOn'
    BY <2>5, OutdatedIsNotNewest DEF SwitchNamespace, SetNamespace, ResetContainers, ClearLines
  <2>6. ASSUME NEW ns \in Scopes, ContextSwitched(ns) PROVE RefreshGoesOn'
    BY <2>6, OutdatedIsNotNewest DEF ContextSwitched, SetNamespace, ResetContainers, ClearLines
  <2>7. ASSUME NEW name \in Names, NEW ns \in Scopes, DrillDown(name, ns) PROVE RefreshGoesOn'
    BY <2>7 DEF DrillDown, SetPodIdentity, ResetContainers, ClearLines, FetchLogs, FetchPods
  <2>8. CASE TogglePause
    BY <2>8 DEF TogglePause, Keys, PlainKeys
  <2>9. CASE StartInspection
    BY <2>9 DEF StartInspection, Keys, PlainKeys
  <2>10. CASE LeaveInspection
    BY <2>10 DEF LeaveInspection, Keys, PlainKeys
  <2>11. CASE Refresh
    BY <2>11 DEF Refresh, Keys, PlainKeys, FetchLogs
  <2>12. CASE TogglePodPopup
    BY <2>12 DEF TogglePodPopup, Keys, PlainKeys
  <2>13. ASSUME NEW i \in DOMAIN pods, ChoosePod(i) PROVE RefreshGoesOn'
    BY <2>13 DEF ChoosePod, Keys, PlainKeys, SetPodIdentity, ResetContainers, ClearLines, FetchLogs
  <2>14. CASE FetchContainers
    BY <2>14 DEF FetchContainers, Keys, PlainKeys
  <2>15. CASE CloseContainerPopup
    BY <2>15 DEF CloseContainerPopup, Keys, PlainKeys
  <2>16. ASSUME NEW c \in Containers, ChooseContainer(c) PROVE RefreshGoesOn'
    BY <2>16 DEF ChooseContainer, Keys, PlainKeys, ClearLines, FetchLogs
  <2>17. ASSUME NEW list \in Lists(podRequest.namespace), PodsListed(list) PROVE RefreshGoesOn'
    BY <2>17 DEF PodsListed, PodsHandled, NoPodRequest, SetPodIdentity, ResetContainers, ClearLines, FetchLogs
  <2>18. CASE PodsFailed
    BY <2>18 DEF PodsFailed, PodsHandled, NoPodRequest
  <2>19. CASE PodsDropped
    BY <2>19 DEF PodsDropped, PodsHandled, NoPodRequest
  <2>20. CASE LogsRead
    BY <2>20 DEF LogsRead, LogsHandled, NoLogRequest, StartTimer
  <2>21. CASE LogsFailed
    BY <2>21 DEF LogsFailed, LogsHandled, NoLogRequest, StartTimer
  <2>22. CASE LogsDenied
    BY <2>22 DEF LogsDenied, LogsHandled, NoLogRequest
  <2>23. CASE LogsDropped
    BY <2>23 DEF LogsDropped, LogsHandled, NoLogRequest
  <2>24. ASSUME NEW found \in SUBSET Containers, ContainersListed(found) PROVE RefreshGoesOn'
    BY <2>24 DEF ContainersListed, ContainersHandled, NoContainerRequest
  <2>25. CASE ContainersDropped
    BY <2>25 DEF ContainersDropped, ContainersHandled, NoContainerRequest
  <2>26. CASE Tick
    BY <2>26 DEF Tick, FetchLogs
  <2>27. CASE UNCHANGED vars
    BY <2>27 DEF vars
  <2> QED
    BY <2>1, <2>2, <2>3, <2>4, <2>5, <2>6, <2>7, <2>8, <2>9, <2>10, <2>11, <2>12, <2>13,
       <2>14, <2>15, <2>16, <2>17, <2>18, <2>19, <2>20, <2>21, <2>22, <2>23, <2>24, <2>25,
       <2>26, <2>27
    DEF Next, RootSteps, UserSteps, Answers
<1> QED BY <1>1, <1>2, SelectionTyped, RestTyped, PTL DEF Spec

\* What is said to be loading will be answered, unless the answer was lost.
THEOREM LoadingEnds == Spec => []LoadingIsAnswered
<1>1. Init => LoadingIsAnswered
  BY DEF Init, LoadingIsAnswered
<1>2. SelectionTypesOK /\ Hidden /\ LoadingIsAnswered /\ [Next]_vars => LoadingIsAnswered'
  <2> SUFFICES ASSUME SelectionTypesOK, Hidden, LoadingIsAnswered, [Next]_vars PROVE LoadingIsAnswered'
    OBVIOUS
  <2> USE DEF LoadingIsAnswered, SelectionTypesOK, Hidden, rootVars, selectionVars,
            containerVars, modeVars, lineVars, fetchVars
  <2>1. CASE Enter
    <3>1. CASE selectedPod # None
      BY <2>1, <3>1 DEF Enter, Activate, FetchPods, FetchLogs
    <3>2. CASE selectedPod = None
      BY <2>1, <3>2 DEF Enter, Activate, FetchPods, FetchLogs
    <3> QED BY <2>1, <3>1, <3>2
  <2>2. CASE Leave
    BY <2>2, OutdatedIsNotNewest DEF Leave, Deactivate
  <2>3. CASE SwitchContext
    BY <2>3, OutdatedIsNotNewest DEF SwitchContext, Deactivate
  <2>4. CASE ContextSwitchFailed
    <3>1. CASE shown /\ selectedPod # None
      BY <2>4, <3>1 DEF ContextSwitchFailed, Activate, FetchPods, FetchLogs
    <3>2. CASE shown /\ selectedPod = None
      BY <2>4, <3>2 DEF ContextSwitchFailed, Activate, FetchPods, FetchLogs
    <3>3. CASE ~shown
      BY <2>4, <3>3 DEF ContextSwitchFailed
    <3> QED BY <2>4, <3>1, <3>2, <3>3
  <2>5. ASSUME NEW ns \in Scopes, SwitchNamespace(ns) PROVE LoadingIsAnswered'
    BY <2>5, OutdatedIsNotNewest DEF SwitchNamespace, SetNamespace, ResetContainers, ClearLines
  <2>6. ASSUME NEW ns \in Scopes, ContextSwitched(ns) PROVE LoadingIsAnswered'
    BY <2>6, OutdatedIsNotNewest DEF ContextSwitched, SetNamespace, ResetContainers, ClearLines
  <2>7. ASSUME NEW name \in Names, NEW ns \in Scopes, DrillDown(name, ns) PROVE LoadingIsAnswered'
    BY <2>7 DEF DrillDown, SetPodIdentity, ResetContainers, ClearLines, FetchLogs, FetchPods
  <2>8. CASE TogglePause
    BY <2>8 DEF TogglePause, Keys, PlainKeys
  <2>9. CASE StartInspection
    BY <2>9 DEF StartInspection, Keys, PlainKeys
  <2>10. CASE LeaveInspection
    BY <2>10 DEF LeaveInspection, Keys, PlainKeys
  <2>11. CASE Refresh
    BY <2>11 DEF Refresh, Keys, PlainKeys, FetchLogs
  <2>12. CASE TogglePodPopup
    BY <2>12 DEF TogglePodPopup, Keys, PlainKeys
  <2>13. ASSUME NEW i \in DOMAIN pods, ChoosePod(i) PROVE LoadingIsAnswered'
    BY <2>13 DEF ChoosePod, Keys, PlainKeys, SetPodIdentity, ResetContainers, ClearLines, FetchLogs
  <2>14. CASE FetchContainers
    BY <2>14 DEF FetchContainers, Keys, PlainKeys
  <2>15. CASE CloseContainerPopup
    BY <2>15 DEF CloseContainerPopup, Keys, PlainKeys
  <2>16. ASSUME NEW c \in Containers, ChooseContainer(c) PROVE LoadingIsAnswered'
    BY <2>16 DEF ChooseContainer, Keys, PlainKeys, ClearLines, FetchLogs
  <2>17. ASSUME NEW list \in Lists(podRequest.namespace), PodsListed(list) PROVE LoadingIsAnswered'
    <3>1. CASE selectedPod # None \/ list = <<>>
      BY <2>17, <3>1 DEF PodsListed, PodsHandled
    <3>2. CASE ~(selectedPod # None \/ list = <<>>)
      BY <2>17, <3>2 DEF PodsListed, PodsHandled, SetPodIdentity, FetchLogs
    <3> QED BY <2>17, <3>1, <3>2
  <2>18. CASE PodsFailed
    BY <2>18 DEF PodsFailed, PodsHandled, NoPodRequest
  <2>19. CASE PodsDropped
    BY <2>19 DEF PodsDropped, PodsHandled, NoPodRequest
  <2>20. CASE LogsRead
    BY <2>20 DEF LogsRead, LogsHandled, NoLogRequest, StartTimer
  <2>21. CASE LogsFailed
    BY <2>21 DEF LogsFailed, LogsHandled, NoLogRequest, StartTimer
  <2>22. CASE LogsDenied
    BY <2>22 DEF LogsDenied, LogsHandled, NoLogRequest
  <2>23. CASE LogsDropped
    BY <2>23 DEF LogsDropped, LogsHandled, NoLogRequest
  <2>24. ASSUME NEW found \in SUBSET Containers, ContainersListed(found) PROVE LoadingIsAnswered'
    BY <2>24 DEF ContainersListed, ContainersHandled, NoContainerRequest
  <2>25. CASE ContainersDropped
    BY <2>25 DEF ContainersDropped, ContainersHandled, NoContainerRequest
  <2>26. CASE Tick
    <3>1. CASE active /\ ~paused /\ selectedPod # None
      BY <2>26, <3>1 DEF Tick, FetchLogs
    <3>2. CASE ~(active /\ ~paused /\ selectedPod # None)
      BY <2>26, <3>2 DEF Tick
    <3> QED BY <2>26, <3>1, <3>2
  <2>27. CASE UNCHANGED vars
    BY <2>27 DEF vars
  <2> QED
    BY <2>1, <2>2, <2>3, <2>4, <2>5, <2>6, <2>7, <2>8, <2>9, <2>10, <2>11, <2>12, <2>13,
       <2>14, <2>15, <2>16, <2>17, <2>18, <2>19, <2>20, <2>21, <2>22, <2>23, <2>24, <2>25,
       <2>26, <2>27
    DEF Next, RootSteps, UserSteps, Answers
<1> QED BY <1>1, <1>2, SelectionTyped, HiddenAsksNothing, PTL DEF Spec

\* The lines on the screen are those of the pod and the container its title names.
THEOREM LinesAreOfSelection == Spec => []LinesOfSelection
<1>1. Init => LinesOfSelection
  BY DEF Init, LinesOfSelection
<1>2. SelectionTypesOK /\ LinesOfSelection /\ [Next]_vars => LinesOfSelection'
  <2> SUFFICES ASSUME SelectionTypesOK, LinesOfSelection, [Next]_vars PROVE LinesOfSelection'
    OBVIOUS
  <2> USE DEF LinesOfSelection, Unresolved, SelectedPodNS, SelectionTypesOK, rootVars,
            selectionVars, containerVars, modeVars, lineVars, fetchVars
  <2>1. CASE Enter
    BY <2>1 DEF Enter, Activate, FetchPods, FetchLogs
  <2>2. CASE Leave
    BY <2>2 DEF Leave, Deactivate
  <2>3. CASE SwitchContext
    BY <2>3 DEF SwitchContext, Deactivate
  <2>4. CASE ContextSwitchFailed
    BY <2>4 DEF ContextSwitchFailed, Activate, FetchPods, FetchLogs
  <2>5. ASSUME NEW ns \in Scopes, SwitchNamespace(ns) PROVE LinesOfSelection'
    BY <2>5 DEF SwitchNamespace, SetNamespace, ResetContainers, ClearLines
  <2>6. ASSUME NEW ns \in Scopes, ContextSwitched(ns) PROVE LinesOfSelection'
    BY <2>6 DEF ContextSwitched, SetNamespace, ResetContainers, ClearLines
  <2>7. ASSUME NEW name \in Names, NEW ns \in Scopes, DrillDown(name, ns) PROVE LinesOfSelection'
    BY <2>7 DEF DrillDown, SetPodIdentity, ResetContainers, ClearLines, FetchLogs, FetchPods
  <2>8. CASE TogglePause
    BY <2>8 DEF TogglePause, Keys, PlainKeys
  <2>9. CASE StartInspection
    BY <2>9 DEF StartInspection, Keys, PlainKeys
  <2>10. CASE LeaveInspection
    BY <2>10 DEF LeaveInspection, Keys, PlainKeys
  <2>11. CASE Refresh
    BY <2>11 DEF Refresh, Keys, PlainKeys, FetchLogs
  <2>12. CASE TogglePodPopup
    BY <2>12 DEF TogglePodPopup, Keys, PlainKeys
  <2>13. ASSUME NEW i \in DOMAIN pods, ChoosePod(i) PROVE LinesOfSelection'
    BY <2>13 DEF ChoosePod, Keys, PlainKeys, SetPodIdentity, ResetContainers, ClearLines, FetchLogs
  <2>14. CASE FetchContainers
    BY <2>14 DEF FetchContainers, Keys, PlainKeys
  <2>15. CASE CloseContainerPopup
    BY <2>15 DEF CloseContainerPopup, Keys, PlainKeys
  <2>16. ASSUME NEW c \in Containers, ChooseContainer(c) PROVE LinesOfSelection'
    BY <2>16 DEF ChooseContainer, Keys, PlainKeys, ClearLines, FetchLogs
  <2>17. ASSUME NEW list \in Lists(podRequest.namespace), PodsListed(list) PROVE LinesOfSelection'
    BY <2>17, ResolvedForGood DEF PodsListed, PodsHandled, NoPodRequest, SetPodIdentity, ResetContainers, ClearLines, FetchLogs
  <2>18. CASE PodsFailed
    BY <2>18 DEF PodsFailed, PodsHandled, NoPodRequest
  <2>19. CASE PodsDropped
    BY <2>19 DEF PodsDropped, PodsHandled, NoPodRequest
  <2>20. CASE LogsRead
    BY <2>20 DEF LogsRead, LogsHandled, NoLogRequest, StartTimer, AcceptsLogs, Selection, Target, SelectedPodNS
  <2>21. CASE LogsFailed
    BY <2>21 DEF LogsFailed, LogsHandled, NoLogRequest, StartTimer
  <2>22. CASE LogsDenied
    BY <2>22 DEF LogsDenied, LogsHandled, NoLogRequest
  <2>23. CASE LogsDropped
    BY <2>23 DEF LogsDropped, LogsHandled, NoLogRequest
  <2>24. ASSUME NEW found \in SUBSET Containers, ContainersListed(found) PROVE LinesOfSelection'
    BY <2>24 DEF ContainersListed, ContainersHandled, NoContainerRequest
  <2>25. CASE ContainersDropped
    BY <2>25 DEF ContainersDropped, ContainersHandled, NoContainerRequest
  <2>26. CASE Tick
    BY <2>26 DEF Tick, FetchLogs
  <2>27. CASE UNCHANGED vars
    BY <2>27 DEF vars
  <2> QED
    BY <2>1, <2>2, <2>3, <2>4, <2>5, <2>6, <2>7, <2>8, <2>9, <2>10, <2>11, <2>12, <2>13,
       <2>14, <2>15, <2>16, <2>17, <2>18, <2>19, <2>20, <2>21, <2>22, <2>23, <2>24, <2>25,
       <2>26, <2>27
    DEF Next, RootSteps, UserSteps, Answers
<1> QED BY <1>1, <1>2, SelectionTyped, PTL DEF Spec

\* An answer is lost only to a list that changed the selection under its request.
THEOREM LostOnlyToLists == Spec => []LostToLists
<1>1. Init => LostToLists
  BY DEF Init, LostToLists, NoLogRequest
<1>2. SelectionTypesOK /\ NewestNotLost /\ LostToLists /\ [Next]_vars => LostToLists'
  <2> SUFFICES ASSUME SelectionTypesOK, NewestNotLost, LostToLists, [Next]_vars PROVE LostToLists'
    OBVIOUS
  <2> USE DEF LostToLists, Unresolved, SelectedPodNS, SelectionTypesOK, NewestNotLost,
            rootVars, selectionVars, containerVars, modeVars, lineVars, fetchVars
  <2>1. CASE Enter
    BY <2>1 DEF Enter, Activate, FetchPods, FetchLogs, AcceptsLogs, Selection, Target
  <2>2. CASE Leave
    BY <2>2, OutdatedIsNotNewest DEF Leave, Deactivate
  <2>3. CASE SwitchContext
    BY <2>3, OutdatedIsNotNewest DEF SwitchContext, Deactivate
  <2>4. CASE ContextSwitchFailed
    BY <2>4 DEF ContextSwitchFailed, Activate, FetchPods, FetchLogs, AcceptsLogs, Selection, Target
  <2>5. ASSUME NEW ns \in Scopes, SwitchNamespace(ns) PROVE LostToLists'
    BY <2>5, OutdatedIsNotNewest DEF SwitchNamespace, SetNamespace, ResetContainers, ClearLines
  <2>6. ASSUME NEW ns \in Scopes, ContextSwitched(ns) PROVE LostToLists'
    BY <2>6, OutdatedIsNotNewest DEF ContextSwitched, SetNamespace, ResetContainers, ClearLines
  <2>7. ASSUME NEW name \in Names, NEW ns \in Scopes, DrillDown(name, ns) PROVE LostToLists'
    BY <2>7 DEF DrillDown, SetPodIdentity, ResetContainers, ClearLines, FetchLogs, FetchPods, AcceptsLogs, Selection, Target
  <2>8. CASE TogglePause
    BY <2>8 DEF TogglePause, Keys, PlainKeys
  <2>9. CASE StartInspection
    BY <2>9 DEF StartInspection, Keys, PlainKeys
  <2>10. CASE LeaveInspection
    BY <2>10 DEF LeaveInspection, Keys, PlainKeys
  <2>11. CASE Refresh
    BY <2>11 DEF Refresh, Keys, PlainKeys, FetchLogs, AcceptsLogs, Selection, Target
  <2>12. CASE TogglePodPopup
    BY <2>12 DEF TogglePodPopup, Keys, PlainKeys
  <2>13. ASSUME NEW i \in DOMAIN pods, ChoosePod(i) PROVE LostToLists'
    BY <2>13 DEF ChoosePod, Keys, PlainKeys, SetPodIdentity, ResetContainers, ClearLines, FetchLogs, AcceptsLogs, Selection, Target
  <2>14. CASE FetchContainers
    BY <2>14 DEF FetchContainers, Keys, PlainKeys
  <2>15. CASE CloseContainerPopup
    BY <2>15 DEF CloseContainerPopup, Keys, PlainKeys
  <2>16. ASSUME NEW c \in Containers, ChooseContainer(c) PROVE LostToLists'
    BY <2>16 DEF ChooseContainer, Keys, PlainKeys, ClearLines, FetchLogs, AcceptsLogs, Selection, Target
  <2>17. ASSUME NEW list \in Lists(podRequest.namespace), PodsListed(list) PROVE LostToLists'
    BY <2>17, ResolvedForGood DEF PodsListed, PodsHandled, NoPodRequest, SetPodIdentity, ResetContainers, ClearLines, FetchLogs, AcceptsLogs, Selection, Target
  <2>18. CASE PodsFailed
    BY <2>18 DEF PodsFailed, PodsHandled, NoPodRequest
  <2>19. CASE PodsDropped
    BY <2>19 DEF PodsDropped, PodsHandled, NoPodRequest
  <2>20. CASE LogsRead
    BY <2>20 DEF LogsRead, LogsHandled, NoLogRequest, StartTimer, AcceptsLogs
  <2>21. CASE LogsFailed
    BY <2>21 DEF LogsFailed, LogsHandled, NoLogRequest, StartTimer
  <2>22. CASE LogsDenied
    BY <2>22 DEF LogsDenied, LogsHandled, NoLogRequest
  <2>23. CASE LogsDropped
    <3>1. CASE logRequest.step # "newest"
      BY <2>23, <3>1 DEF LogsDropped, LogsHandled, NoLogRequest
    <3>2. CASE logRequest.step = "newest"
      <4>1. logRequest.target \in Targets /\ logRequest.target # Selection
        BY <2>23, <3>2 DEF LogsDropped, AcceptsLogs, LogRequests
      <4>2. relabelled \/ Unresolved
        BY <3>2, <4>1 DEF Selection, Target, Targets
      <4> QED BY <2>23, <4>2 DEF LogsDropped, LogsHandled, NoLogRequest
    <3> QED BY <2>23, <3>1, <3>2
  <2>24. ASSUME NEW found \in SUBSET Containers, ContainersListed(found) PROVE LostToLists'
    BY <2>24 DEF ContainersListed, ContainersHandled, NoContainerRequest
  <2>25. CASE ContainersDropped
    BY <2>25 DEF ContainersDropped, ContainersHandled, NoContainerRequest
  <2>26. CASE Tick
    BY <2>26 DEF Tick, FetchLogs, AcceptsLogs, Selection, Target
  <2>27. CASE UNCHANGED vars
    BY <2>27 DEF vars
  <2> QED
    BY <2>1, <2>2, <2>3, <2>4, <2>5, <2>6, <2>7, <2>8, <2>9, <2>10, <2>11, <2>12, <2>13,
       <2>14, <2>15, <2>16, <2>17, <2>18, <2>19, <2>20, <2>21, <2>22, <2>23, <2>24, <2>25,
       <2>26, <2>27
    DEF Next, RootSteps, UserSteps, Answers
<1> QED BY <1>1, <1>2, SelectionTyped, NewestIsNotLost, PTL DEF Spec


-----------------------------------------------------------------------------
(* A shell in a pod                                                        *)

HIDE LogConstants
USE ShellBounds

\* Every variable keeps its type; the channels never hold more than their capacity.
THEOREM ShellTypeCorrect == ShellSpec => []ShellTypeOK
<1>1. ShellInit => ShellTypeOK
  <2>1. ShellInit => {ctxDone, outputClosed, wasCanceled} \subseteq BOOLEAN
    BY DEF ShellInit
  <2> QED BY <2>1 DEF ShellInit, ShellTypeOK, Streams, NoExit, Parts
<1>2. ShellTypeOK /\ [ShellNext]_shellVars => ShellTypeOK'
  <2> SUFFICES ASSUME ShellTypeOK, [ShellNext]_shellVars PROVE ShellTypeOK'
    OBVIOUS
  <2> USE DEF ShellTypeOK, closeVars, inputVars, readVars, outputVars, runVars
  <2>1. CASE ScreenCloses
    <3>1. once' \in {"open", "screen", "run", "done"}
      BY <2>1 DEF ScreenCloses, Close
    <3>2. ctxDone' \in BOOLEAN
      BY <2>1, <3>1 DEF ScreenCloses, Close, EndContext
    <3>3. endedBy' \in {"nobody", "screen", "lifetime", "run"}
      BY <2>1, <3>1, <3>2 DEF ScreenCloses, Close, EndContext
    <3> QED BY <2>1, <3>1, <3>2, <3>3 DEF ScreenCloses, Close, EndContext
  <2>2. CASE LifetimeEnds
    BY <2>2 DEF LifetimeEnds, EndContext
  <2>3. CASE Send
    BY <2>3 DEF Send
  <2>4. CASE RemoteReads
    BY <2>4 DEF RemoteReads
  <2>5. CASE ReceiveOutput
    BY <2>5 DEF ReceiveOutput
  <2>6. CASE NextInput
    BY <2>6 DEF NextInput
  <2>7. CASE WriteFails
    BY <2>7 DEF WriteFails
  <2>8. CASE CloseInput
    BY <2>8 DEF CloseInput
  <2>9. CASE SampleCanceled
    BY <2>9 DEF SampleCanceled, RunStep
  <2>10. CASE CloseWriters
    BY <2>10 DEF CloseWriters, RunStep
  <2>11. CASE WaitForReaders
    BY <2>11 DEF WaitForReaders, RunStep
  <2>12. CASE RunCloses
    BY <2>12, ZenonT(60) DEF RunCloses, Close, EndContext
  <2>13. CASE JoinInput
    BY <2>13 DEF JoinInput, RunStep
  <2>14. CASE CloseOutput
    BY <2>14 DEF CloseOutput, RunStep
  <2>15. CASE ReportExit
    BY <2>15 DEF ReportExit, RunStep, Failures, NoExit, Parts
  <2>16. ASSUME NEW s \in Streams, Scan(s) PROVE ShellTypeOK'
    BY <2>16 DEF Scan
  <2>17. ASSUME NEW s \in Streams, Emit(s) PROVE ShellTypeOK'
    BY <2>17 DEF Emit
  <2>18. ASSUME NEW s \in Streams, FinishReading(s) PROVE ShellTypeOK'
    BY <2>18 DEF FinishReading
  <2>19. ASSUME NEW s \in Streams, NEW kind \in {"line", "long"}, RemoteWrites(s, kind) PROVE ShellTypeOK'
    BY <2>19 DEF RemoteWrites
  <2>20. ASSUME NEW err \in {"nil", "failure"}, StreamReturns(err) PROVE ShellTypeOK'
    BY <2>20 DEF StreamReturns, RunStep
  <2>21. CASE UNCHANGED shellVars
    BY <2>21 DEF shellVars
  <2> QED
    BY <2>1, <2>2, <2>3, <2>4, <2>5, <2>6, <2>7, <2>8, <2>9, <2>10, <2>11, <2>12, <2>13,
       <2>14, <2>15, <2>16, <2>17, <2>18, <2>19, <2>20, <2>21
    DEF ShellNext, WriterStep, RunProgress, ReaderStep
<1> QED BY <1>1, <1>2, PTL DEF ShellSpec

\* The order in which run takes the session down.
THEOREM OrderCorrect == ShellSpec => []RunOrder
<1>1. ShellInit => RunOrder
  BY DEF ShellInit, RunOrder
<1>2. ShellTypeOK /\ RunOrder /\ [ShellNext]_shellVars => RunOrder'
  <2> SUFFICES ASSUME ShellTypeOK, RunOrder, [ShellNext]_shellVars PROVE RunOrder'
    OBVIOUS
  <2> USE DEF RunOrder, ReadersDone, ShellTypeOK, Failures, closeVars, inputVars, readVars,
            outputVars, runVars
  <2>1. CASE ScreenCloses
    BY <2>1 DEF ScreenCloses, Close, EndContext
  <2>2. CASE LifetimeEnds
    BY <2>2 DEF LifetimeEnds, EndContext
  <2>3. CASE Send
    BY <2>3 DEF Send
  <2>4. CASE RemoteReads
    BY <2>4 DEF RemoteReads
  <2>5. CASE ReceiveOutput
    BY <2>5 DEF ReceiveOutput
  <2>6. CASE NextInput
    BY <2>6 DEF NextInput
  <2>7. CASE WriteFails
    BY <2>7 DEF WriteFails
  <2>8. CASE CloseInput
    BY <2>8 DEF CloseInput
  <2>9. CASE SampleCanceled
    BY <2>9 DEF SampleCanceled, RunStep
  <2>10. CASE CloseWriters
    BY <2>10 DEF CloseWriters, RunStep
  <2>11. CASE WaitForReaders
    BY <2>11 DEF WaitForReaders, RunStep
  <2>12. CASE RunCloses
    BY <2>12 DEF RunCloses, Close, EndContext
  <2>13. CASE JoinInput
    BY <2>13 DEF JoinInput, RunStep
  <2>14. CASE CloseOutput
    BY <2>14 DEF CloseOutput, RunStep
  <2>15. CASE ReportExit
    BY <2>15 DEF ReportExit, RunStep, Failures, NoExit, Parts
  <2>16. ASSUME NEW s \in Streams, Scan(s) PROVE RunOrder'
    BY <2>16 DEF Scan
  <2>17. ASSUME NEW s \in Streams, Emit(s) PROVE RunOrder'
    BY <2>17 DEF Emit
  <2>18. ASSUME NEW s \in Streams, FinishReading(s) PROVE RunOrder'
    BY <2>18 DEF FinishReading
  <2>19. ASSUME NEW s \in Streams, NEW kind \in {"line", "long"}, RemoteWrites(s, kind) PROVE RunOrder'
    BY <2>19 DEF RemoteWrites
  <2>20. ASSUME NEW err \in {"nil", "failure"}, StreamReturns(err) PROVE RunOrder'
    BY <2>20 DEF StreamReturns, RunStep
  <2>21. CASE UNCHANGED shellVars
    BY <2>21 DEF shellVars
  <2> QED
    BY <2>1, <2>2, <2>3, <2>4, <2>5, <2>6, <2>7, <2>8, <2>9, <2>10, <2>11, <2>12, <2>13,
       <2>14, <2>15, <2>16, <2>17, <2>18, <2>19, <2>20, <2>21
    DEF ShellNext, WriterStep, RunProgress, ReaderStep
<1> QED BY <1>1, <1>2, ShellTypeCorrect, PTL DEF ShellSpec

\* Nothing is sent on the output channel once it is closed: shell.go, run and emitOutput.
THEOREM OutputClosedAfterReaders == ShellSpec => []OutputClosedLast
<1>1. RunOrder => OutputClosedLast
  BY DEF RunOrder, OutputClosedLast
<1> QED BY <1>1, OrderCorrect, PTL

\* Every line is delivered, in a channel, in a pipe, in the hands of a reader, or counted.
THEOREM AccountingCorrect == ShellSpec => []Accounting
<1>1. ShellInit => Accounting
  BY DEF ShellInit, Accounting, InFlight, Streams
<1>2. ShellTypeOK /\ RunOrder /\ Accounting /\ [ShellNext]_shellVars => Accounting'
  <2> SUFFICES ASSUME ShellTypeOK, RunOrder, Accounting, [ShellNext]_shellVars PROVE Accounting'
    OBVIOUS
  <2> USE DEF Accounting, InFlight, ReadersDone, WritersClosed, Streams, ShellTypeOK, RunOrder,
            closeVars, inputVars, readVars, outputVars, runVars
  <2>1. CASE ScreenCloses
    BY <2>1 DEF ScreenCloses, Close, EndContext
  <2>2. CASE LifetimeEnds
    BY <2>2 DEF LifetimeEnds, EndContext
  <2>3. CASE Send
    BY <2>3 DEF Send
  <2>4. CASE RemoteReads
    BY <2>4 DEF RemoteReads
  <2>5. CASE ReceiveOutput
    BY <2>5 DEF ReceiveOutput
  <2>6. CASE NextInput
    BY <2>6 DEF NextInput
  <2>7. CASE WriteFails
    BY <2>7 DEF WriteFails
  <2>8. CASE CloseInput
    BY <2>8 DEF CloseInput
  <2>9. CASE SampleCanceled
    BY <2>9 DEF SampleCanceled, RunStep
  <2>10. CASE CloseWriters
    BY <2>10 DEF CloseWriters, RunStep
  <2>11. CASE WaitForReaders
    BY <2>11 DEF WaitForReaders, RunStep
  <2>12. CASE RunCloses
    BY <2>12 DEF RunCloses, Close, EndContext
  <2>13. CASE JoinInput
    BY <2>13 DEF JoinInput, RunStep
  <2>14. CASE CloseOutput
    BY <2>14 DEF CloseOutput, RunStep
  <2>15. CASE ReportExit
    BY <2>15 DEF ReportExit, RunStep, Failures
  <2>16. ASSUME NEW s \in Streams, Scan(s) PROVE Accounting'
    BY <2>16 DEF Scan
  <2>17. ASSUME NEW s \in Streams, Emit(s) PROVE Accounting'
    BY <2>17 DEF Emit
  <2>18. ASSUME NEW s \in Streams, FinishReading(s) PROVE Accounting'
    BY <2>18 DEF FinishReading
  <2>19. ASSUME NEW s \in Streams, NEW kind \in {"line", "long"}, RemoteWrites(s, kind) PROVE Accounting'
    BY <2>19 DEF RemoteWrites
  <2>20. ASSUME NEW err \in {"nil", "failure"}, StreamReturns(err) PROVE Accounting'
    BY <2>20 DEF StreamReturns, RunStep
  <2>21. CASE UNCHANGED shellVars
    BY <2>21 DEF shellVars
  <2> QED
    BY <2>1, <2>2, <2>3, <2>4, <2>5, <2>6, <2>7, <2>8, <2>9, <2>10, <2>11, <2>12, <2>13,
       <2>14, <2>15, <2>16, <2>17, <2>18, <2>19, <2>20, <2>21
    DEF ShellNext, WriterStep, RunProgress, ReaderStep
<1> QED BY <1>1, <1>2, ShellTypeCorrect, OrderCorrect, PTL DEF ShellSpec

\* An exit without error follows the delivery of every line to the output channel.
THEOREM NothingLost == ShellSpec => []CleanExitLosesNothing
<1>1. ShellTypeOK /\ RunOrder /\ Accounting => CleanExitLosesNothing
  <2> SUFFICES ASSUME ShellTypeOK, RunOrder, Accounting, exit = {}, endedBy = "run"
               PROVE  wrote["stdout"] + wrote["stderr"] = delivered + output
    BY DEF CleanExitLosesNothing
  <2>1. run = "ended" /\ Failures = {}
    BY DEF RunOrder, NoExit
  <2>2. tooLong = {} /\ dropped = 0
    BY <2>1 DEF Failures, Parts, ShellTypeOK
  <2>3. InFlight("stdout") = 0 /\ InFlight("stderr") = 0
    BY <2>1 DEF RunOrder, ReadersDone, Streams, Accounting, InFlight
  <2> QED BY <2>2, <2>3 DEF Accounting, ShellTypeOK
<1> QED BY <1>1, ShellTypeCorrect, OrderCorrect, AccountingCorrect, PTL

\* The exit reports a failure of the stream exactly when nobody had closed the session.
THEOREM FailuresAreReal == ShellSpec => []OnlyRealFailures
<1>1. RunOrder => OnlyRealFailures
  BY DEF RunOrder, OnlyRealFailures, Failures, Parts
<1> QED BY <1>1, OrderCorrect, PTL
=============================================================================
