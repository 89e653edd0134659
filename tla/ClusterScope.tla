---------------------------- MODULE ClusterScope ----------------------------
(***************************************************************************)
(* The connection and the scope of the program: Manager.Connect            *)
(* (internal/kube/manager.go), and what the root model                     *)
(* (internal/ui/root_access.go, root_picker.go, root_update.go) knows of   *)
(* the context and the namespace it shows.                                 *)
(*                                                                         *)
(* The root handles one message at a time.  A fetch runs beside it: it     *)
(* reads the connection of that moment, which may be replaced before its   *)
(* answer is handled, and an answer does not say which connection it is    *)
(* about.  Namespaces are told apart only as one of them or all of them.   *)
(***************************************************************************)
EXTENDS Naturals, FiniteSets

CONSTANTS
    Contexts,           \* the contexts of the kubeconfig
    Restricted,         \* those whose account may not list the namespaces
    Scoped,             \* those that name a namespace of their own
    None,
    Slots,              \* the fetches that may be on their way together
    MaxConnections,     \* bound on the connections made
    MaxEdits            \* bound on the changes another program makes to the kubeconfig

ASSUME ScopeConstants ==
    /\ Restricted \subseteq Contexts /\ Scoped \subseteq Contexts /\ None \notin Contexts
    /\ IsFiniteSet(Slots) /\ Cardinality(Slots) >= 3
    /\ MaxConnections \in Nat \ {0} /\ MaxEdits \in Nat

VARIABLES
    kubeconfig,         \* its current context
    edits, edited,      \* history: another program changed it since the connection was prepared
    connect,            \* the call of Connect on its way, its context and the one it found current
    connected,          \* Manager.currentContext, installed together with the clients
    lifetime, canceled, \* the number of the connection, and of those that were canceled
    fetches,            \* Slots -> what is asked for, and the answer once it was read
    currentContext,     \* RootModel.currentContext: the context the screen names
    contexts,           \* the context marked current in the list of contexts; None without a list
    contextsLoaded,
    namespaces,         \* the context whose namespaces are listed, or None
    namespaceListDenied,
    namespace,          \* "one" or "all"
    picker,             \* "namespaces" (showNSPicker), "contexts" (showCtxPicker) or "none"
    nsLoading, ctxLoading,
    switching,          \* contextSwitching
    active,             \* the screen on display was activated after it was last deactivated
    late                \* history: an answer about a replaced connection was handled since the last switch

configVars  == <<kubeconfig, edits, edited>>
managerVars == <<connected, lifetime, canceled>>
listVars    == <<currentContext, contexts, contextsLoaded, namespaces, namespaceListDenied>>
viewVars    == <<picker, nsLoading, ctxLoading>>
screenVars  == <<namespace, active>>
vars == <<configVars, connect, managerVars, fetches, listVars, viewVars, screenVars, switching, late>>

Lifetimes == 1..MaxConnections
Kinds == {"namespaces", "contexts", "current"}
NoFetch == [kind |-> "none", step |-> "none", of |-> None]
Asked(kind) == [kind |-> kind, step |-> "asked", of |-> None]

ManagerTypes ==
    /\ kubeconfig \in Contexts /\ edits \in 0..MaxEdits /\ edited \in BOOLEAN
    /\ connect \in [step : {"idle", "prepare", "check", "set", "install", "cancel", "done", "failed"},
                    to : Contexts \cup {None}, previous : Contexts \cup {None},
                    found : {"fresh", "stale"}]
    /\ connected \in Contexts /\ lifetime \in Lifetimes /\ canceled \subseteq Lifetimes
FetchTypes ==
    fetches \in [Slots -> [kind : Kinds \cup {"none"}, of : Contexts \cup {None},
                           step : {"none", "asked", "answer", "denied", "error"}]]
RootTypes ==
    /\ currentContext \in Contexts \cup {None} /\ contexts \in Contexts \cup {None}
    /\ contextsLoaded \in BOOLEAN /\ namespaceListDenied \in BOOLEAN
    /\ namespaces \in (Contexts \ Restricted) \cup {None}
    /\ namespace \in {"one", "all"} /\ picker \in {"none", "namespaces", "contexts"}
    /\ nsLoading \in BOOLEAN /\ ctxLoading \in BOOLEAN
    /\ switching \in BOOLEAN /\ active \in BOOLEAN /\ late \in BOOLEAN
TypeOK == ManagerTypes /\ FetchTypes /\ RootTypes

\* The slots of the first three fetches.
FirstSlots == CHOOSE f \in [1..3 -> Slots] : \A a, b \in 1..3 : f[a] = f[b] => a = b

NotConnecting == [step |-> "idle", to |-> None, previous |-> None, found |-> "fresh"]

\* The program has connected before it starts the root; Update(initializeRootMsg) asks for the rest.
Init ==
    /\ kubeconfig \in Contexts /\ edits = 0 /\ edited = FALSE
    /\ connect = NotConnecting
    /\ connected = kubeconfig /\ lifetime = 1 /\ canceled = {}
    /\ fetches = [i \in Slots |-> IF i = FirstSlots[1] THEN Asked("namespaces")
                                  ELSE IF i = FirstSlots[2] THEN Asked("current")
                                  ELSE IF i = FirstSlots[3] THEN Asked("contexts") ELSE NoFetch]
    /\ currentContext = None /\ contexts = None /\ contextsLoaded = FALSE
    /\ namespaces = None /\ namespaceListDenied = FALSE
    /\ namespace \in {"one", "all"} /\ picker = "none"
    /\ nsLoading = FALSE /\ ctxLoading = FALSE
    /\ switching = FALSE /\ active = TRUE /\ late = FALSE

-----------------------------------------------------------------------------
(* Fetches: fetchNamespaces, fetchContexts, fetchCurrentContext            *)

FreeSlots == {i \in Slots : fetches[i] = NoFetch}

\* A fetch starts in a free slot; all slots are alike.
Start(kind) ==
    /\ FreeSlots # {}
    /\ fetches' = [fetches EXCEPT ![CHOOSE i \in FreeSlots : TRUE] = Asked(kind)]

\* Two fetches start.
StartBoth(a, b) ==
    \E i \in FreeSlots : \E j \in FreeSlots \ {i} :
        /\ i = CHOOSE k \in FreeSlots : TRUE
        /\ j = CHOOSE k \in FreeSlots \ {i} : TRUE
        /\ fetches' = [fetches EXCEPT ![i] = Asked(a), ![j] = Asked(b)]

\* The cluster, or the kubeconfig, answers: the connection of this moment is the one that is read.
Answer(i) ==
    /\ fetches[i].step = "asked"
    /\ \E step \in {"answer", "denied", "error"} :
        /\ step = "denied" <=> fetches[i].kind = "namespaces" /\ connected \in Restricted /\ step # "error"
        /\ fetches' = [fetches EXCEPT ![i] = [@ EXCEPT !.step = step, !.of = connected]]
    /\ UNCHANGED <<configVars, connect, managerVars, listVars, viewVars, screenVars, switching, late>>

\* An answer is handled; it is late when its connection was replaced.
Handle(i, kind) ==
    /\ fetches[i].kind = kind /\ fetches[i].step \in {"answer", "denied", "error"}
    /\ fetches' = [fetches EXCEPT ![i] = NoFetch]
    /\ late' = (late \/ fetches[i].of # connected)

\* switchNamespace: the screen is deactivated, told the namespace, and activated.
SwitchNamespace(ns) == namespace' = ns /\ active' = TRUE

\* A fault to be told apart: what is known is read before it is assigned.
LeaveClusterScopeBefore(denied, loaded) ==
    IF namespaceListDenied /\ contextsLoaded /\ namespace = "all" THEN SwitchNamespace("one")
    ELSE UNCHANGED screenVars

\* leaveClusterScope, with what is known of the list and of the contexts by now.
LeaveClusterScope(denied, loaded) ==
    IF denied /\ loaded /\ namespace = "all" THEN SwitchNamespace("one") ELSE UNCHANGED screenVars

\* applyNamespaces.
ApplyNamespaces(i) ==
    /\ Handle(i, "namespaces") /\ nsLoading' = FALSE
    /\ \/ /\ fetches[i].step = "answer"
          /\ namespaces' = fetches[i].of /\ namespaceListDenied' = FALSE
          /\ UNCHANGED screenVars
       \/ /\ fetches[i].step = "denied"
          /\ namespaces' = None /\ namespaceListDenied' = TRUE
          /\ LeaveClusterScope(TRUE, contextsLoaded)
       \/ /\ fetches[i].step = "error"
          /\ UNCHANGED <<namespaces, namespaceListDenied, screenVars>>
    /\ UNCHANGED <<configVars, connect, managerVars, currentContext, contexts, contextsLoaded, picker,
                   ctxLoading, switching>>

\* applyContexts.
ApplyContexts(i) ==
    /\ Handle(i, "contexts") /\ ctxLoading' = FALSE /\ contextsLoaded' = TRUE
    /\ IF fetches[i].step = "answer"
       THEN contexts' = fetches[i].of /\ currentContext' = fetches[i].of
       ELSE UNCHANGED <<contexts, currentContext>>
    /\ LeaveClusterScope(namespaceListDenied, TRUE)
    /\ UNCHANGED <<configVars, connect, managerVars, namespaces, namespaceListDenied, picker, nsLoading,
                   switching>>

\* applyCurrentContext.
ApplyCurrentContext(i) ==
    /\ Handle(i, "current")
    /\ currentContext' = IF fetches[i].step = "answer" THEN fetches[i].of ELSE currentContext
    /\ UNCHANGED <<configVars, connect, managerVars, contexts, contextsLoaded, namespaces,
                   namespaceListDenied, viewVars, screenVars, switching>>

-----------------------------------------------------------------------------
(* The user                                                                *)

\* openNamespacePicker.
OpenNamespacePicker ==
    /\ picker = "none" /\ ~switching /\ picker' = "namespaces"
    /\ IF namespaces # None THEN UNCHANGED <<fetches, nsLoading>>
       ELSE /\ Start("namespaces")
            /\ nsLoading' = (nsLoading \/ ~namespaceListDenied)
    /\ UNCHANGED <<configVars, connect, managerVars, listVars, ctxLoading, screenVars, switching, late>>

\* handleGlobalRootKey, the key k.
OpenContextPicker ==
    /\ picker = "none" /\ ~switching /\ picker' = "contexts"
    /\ ctxLoading' = TRUE /\ Start("contexts")
    /\ UNCHANGED <<configVars, connect, managerVars, listVars, nsLoading, screenVars, switching, late>>

\* Escape, or the choice of the context that is marked current.
ClosePicker ==
    /\ picker # "none" /\ picker' = "none"
    /\ UNCHANGED <<configVars, connect, managerVars, fetches, listVars, nsLoading, ctxLoading, screenVars,
                   switching, late>>

\* selectNamespace and selectTypedNamespace: all of them, or one from the list; a name that is typed.
ChooseNamespace(ns) ==
    /\ picker = "namespaces" /\ picker' = "none"
    /\ ns = "all" => ~namespaceListDenied
    /\ ns = "one" => namespaceListDenied \/ namespaces # None
    /\ SwitchNamespace(ns)
    /\ UNCHANGED <<configVars, connect, managerVars, fetches, listVars, nsLoading, ctxLoading, switching,
                   late>>

\* executeNamespacePaletteCommand with a name.
PaletteNamespace ==
    /\ picker = "none" /\ ~switching
    /\ SwitchNamespace("one")
    /\ UNCHANGED <<configVars, connect, managerVars, fetches, listVars, viewVars, switching, late>>

\* selectContext, on a context that is not marked current; switchContext calls Connect.
SelectContext(c) ==
    /\ picker = "contexts" /\ contexts # None /\ c # contexts
    /\ picker' = "none" /\ switching' = TRUE /\ active' = FALSE
    /\ connect' = [NotConnecting EXCEPT !.step = "prepare", !.to = c]
    /\ UNCHANGED <<configVars, managerVars, fetches, listVars, nsLoading, ctxLoading, namespace, late>>

-----------------------------------------------------------------------------
(* Manager.Connect                                                         *)

ConnectStep(from) == connect.step = from
Reach(step) == connect' = [connect EXCEPT !.step = step]

\* A step of Connect that returns an error.
ConnectFails ==
    /\ connect.step \in {"prepare", "check", "set"} /\ Reach("failed")
    /\ UNCHANGED <<configVars, managerVars, fetches, listVars, viewVars, screenVars, switching, late>>

\* A fault to be told apart: the kubeconfig is changed before the connection was checked.
PrepareAndSet ==
    /\ ConnectStep("prepare")
    /\ connect' = [connect EXCEPT !.step = "check", !.previous = kubeconfig, !.found = "fresh"]
    /\ kubeconfig' = connect.to
    /\ UNCHANGED <<edits, edited, managerVars, fetches, listVars, viewVars, screenVars, switching, late>>

\* prepareConnection: reads the kubeconfig.
Prepare ==
    /\ ConnectStep("prepare")
    /\ connect' = [connect EXCEPT !.step = "check", !.previous = kubeconfig, !.found = "fresh"]
    /\ UNCHANGED <<configVars, managerVars, fetches, listVars, viewVars, screenVars, switching, late>>

\* CheckConnection succeeds, within its time; beyond the bound it fails.
Check ==
    /\ ConnectStep("check") /\ lifetime < MaxConnections /\ Reach("set")
    /\ UNCHANGED <<configVars, managerVars, fetches, listVars, viewVars, screenVars, switching, late>>

\* SetCurrentContext, unless the context was the current one when the kubeconfig was read.
Set ==
    /\ ConnectStep("set") /\ Reach("install")
    /\ kubeconfig' = IF connect.previous # connect.to THEN connect.to ELSE kubeconfig
    /\ UNCHANGED <<edits, edited, managerVars, fetches, listVars, viewVars, screenVars, switching, late>>

\* installConnection, under the lock: clients, context and lifetime are replaced together.
Install ==
    /\ ConnectStep("install") /\ Reach("cancel")
    /\ connected' = connect.to /\ lifetime' = lifetime + 1
    /\ edited' = (connect.found = "stale")
    /\ UNCHANGED <<kubeconfig, edits, canceled, fetches, listVars, viewVars, screenVars, switching, late>>

\* installConnection, after the lock: the previous lifetime ends.
CancelPrevious ==
    /\ ConnectStep("cancel") /\ Reach("done")
    /\ canceled' = canceled \cup {lifetime - 1}
    /\ UNCHANGED <<configVars, connected, lifetime, fetches, listVars, viewVars, screenVars, switching,
                   late>>

\* Another program changes the current context of the kubeconfig.
Edit(c) ==
    /\ edits < MaxEdits /\ edits' = edits + 1
    /\ kubeconfig' = c /\ edited' = TRUE
    /\ connect' = [connect EXCEPT !.found = IF connect.step = "idle" THEN "fresh" ELSE "stale"]
    /\ UNCHANGED <<managerVars, fetches, listVars, viewVars, screenVars, switching, late>>

-----------------------------------------------------------------------------
(* handleContextSwitched                                                   *)

NamespaceForContext(c) == IF contexts # None /\ c \in Scoped THEN "one" ELSE "all"

\* A fault to be told apart: what is known of the namespaces outlives the connection.
ContextSwitchedKeepingLists ==
    /\ ConnectStep("done") /\ connect' = NotConnecting /\ switching' = FALSE
    /\ currentContext' = connect.to /\ contextsLoaded' = FALSE
    /\ SwitchNamespace(NamespaceForContext(connect.to))
    /\ StartBoth("namespaces", "contexts")
    /\ late' = FALSE
    /\ UNCHANGED <<configVars, managerVars, contexts, namespaces, namespaceListDenied, viewVars>>

ContextSwitched ==
    /\ ConnectStep("done") /\ connect' = NotConnecting /\ switching' = FALSE
    /\ currentContext' = connect.to
    /\ namespaces' = None /\ namespaceListDenied' = FALSE /\ contextsLoaded' = FALSE
    /\ SwitchNamespace(NamespaceForContext(connect.to))
    /\ StartBoth("namespaces", "contexts")
    /\ late' = FALSE
    /\ UNCHANGED <<configVars, managerVars, contexts, viewVars>>

ContextSwitchFailed ==
    /\ ConnectStep("failed") /\ connect' = NotConnecting /\ switching' = FALSE
    /\ active' = TRUE
    /\ UNCHANGED <<configVars, managerVars, fetches, listVars, viewVars, namespace, late>>

-----------------------------------------------------------------------------
ConnectRuns == Prepare \/ ConnectFails \/ Check \/ Set \/ Install \/ CancelPrevious
Switched == ContextSwitched \/ ContextSwitchFailed
Apply(i) == ApplyNamespaces(i) \/ ApplyContexts(i) \/ ApplyCurrentContext(i)

Next ==
    \/ OpenNamespacePicker \/ OpenContextPicker \/ ClosePicker \/ PaletteNamespace
    \/ \E ns \in {"one", "all"} : ChooseNamespace(ns)
    \/ \E c \in Contexts : SelectContext(c) \/ Edit(c)
    \/ ConnectRuns \/ Switched
    \/ \E i \in Slots : Answer(i) \/ Apply(i)

Spec == Init /\ [][Next]_vars

-----------------------------------------------------------------------------
(* Properties                                                              *)

Quiet == connect.step = "idle" /\ \A i \in Slots : fetches[i] = NoFetch

\* One connection is alive whenever no connection is being replaced: sessions, forwards and live
\* sets of every older one were canceled and those of the current one were not.
OneLiveConnection ==
    canceled = (1..(lifetime - 1)) \ (IF connect.step = "cancel" THEN {lifetime - 1} ELSE {})

\* The kubeconfig names the context the program is connected to, unless another program changed it
\* since that connection was prepared: a connection that fails leaves the kubeconfig as it was.
ConfigNamesConnection == ~edited /\ connect.step # "install" => kubeconfig = connected

\* A root that knows it may not list the namespaces has left the scope of the whole cluster.
DeniedScopeIsLeft == namespaceListDenied /\ contextsLoaded => namespace = "one"

\* The screen comes back after every switch.
ScreenComesBack == ~switching => active

\* Once every answer has been handled, none of them late, the root names the context the program is
\* connected to, lists its namespaces and knows whether it may.
RootKnowsConnection ==
    Quiet /\ ~late =>
        /\ currentContext \in {connected, None}
        /\ namespaces \in {connected, None}
        /\ namespaceListDenied => connected \in Restricted

\* What is said to be loading is on its way, so that its answer ends the loading.
LoadingIsAskedFor ==
    /\ nsLoading => \E i \in Slots : fetches[i].kind = "namespaces"
    /\ ctxLoading => \E i \in Slots : fetches[i].kind = "contexts"
    /\ switching <=> connect.step # "idle"
=============================================================================
