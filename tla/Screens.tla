------------------------------ MODULE Screens ------------------------------
(***************************************************************************)
(* The screens of cluster data under the root model (internal/ui/root_*.go)*)
(* that activates and deactivates them, tells them the namespace, and      *)
(* replaces the connection all of them read from.                          *)
(***************************************************************************)
EXTENDS BrowserLists, Dashboard, HelmReleases, CustomResources

screenVars == <<browser, dashboard, helm, crds>>
vars == <<frameVars, screenVars>>

TypeOK ==
    /\ FrameTypes
    /\ browser \in Browsers /\ dashboard \in Dashboards /\ helm \in Helms
    /\ crds \in CustomResourceScreens

Init ==
    /\ FrameInit
    /\ browser \in {NewBrowser(type) : type \in Types}     \* the saved one
    /\ dashboard = NewDashboard /\ helm = NewHelm /\ crds = NewCustomResources

-----------------------------------------------------------------------------
(* The screens as the root uses them: a record of the four                 *)

All == [browser |-> browser, dashboard |-> dashboard, helm |-> helm, crds |-> crds]

Becomes(all) ==
    /\ browser' = all.browser /\ dashboard' = all.dashboard
    /\ helm' = all.helm /\ crds' = all.crds

\* deactivateScreen.
Deactivated(all, s) ==
    CASE s = "browser"   -> [all EXCEPT !.browser = DeactivatedBrowser(@)]
      [] s = "dashboard" -> [all EXCEPT !.dashboard = DeactivatedDashboard(@)]
      [] s = "helm"      -> [all EXCEPT !.helm = DeactivatedHelm(@)]
      [] s = "crds"      -> [all EXCEPT !.crds = DeactivatedCustomResources(@)]
      [] s = Elsewhere   -> all

\* activateScreen.
Activated(all, s, scope) ==
    CASE s = "browser"   -> {[all EXCEPT !.browser = b] : b \in ActivatedBrowsers(all.browser, scope)}
      [] s = "dashboard" -> {[all EXCEPT !.dashboard = d] : d \in ActivatedDashboards(all.dashboard, scope)}
      [] s = "helm"      -> {[all EXCEPT !.helm = ActivatedHelm(@, scope)]}
      [] s = "crds"      -> {[all EXCEPT !.crds = ActivatedCustomResources(@, scope)]}
      [] s = Elsewhere   -> {all}

\* resizeChildren: SetSize draws the table of the browser again.
Resized(all) == [all EXCEPT !.browser = Redrawn(@)]

\* The calls of SetNamespace in switchNamespace.
Told(all, to) ==
    [all EXCEPT !.browser = RenamedBrowser(@), !.dashboard = RenamedDashboard(@),
                !.helm = RenamedHelm(@, namespace, to),
                !.crds = RenamedCustomResources(@, namespace, to)]

-----------------------------------------------------------------------------
(* Navigation                                                              *)

\* transitionTo.
TransitionTo(all, s, remember) ==
    IF s = screen
    THEN Becomes(all) /\ UNCHANGED frameVars
    ELSE /\ \E shown \in Activated(Deactivated(all, screen), s, Scope) : Becomes(Resized(shown))
         /\ screen' = s /\ prevScreen' = IF remember THEN screen ELSE prevScreen
         /\ UNCHANGED <<namespace, connection, switching, tour>>

Visited == tour \cup {Elsewhere}

\* A key of a screen, or a click on its tab: switchScreen.
SwitchScreen(s) == switching = "no" /\ s # screen /\ TransitionTo(All, s, FALSE)

\* GoBackMsg, of the logs; a message is handled while the context is switched, too.
GoBack == prevScreen \in Visited /\ TransitionTo(All, prevScreen, FALSE)

\* DrillDownMsg to the logs.
DrillIntoLogs == TransitionTo(All, Elsewhere, TRUE)

\* openPaletteResource.
Palette(type) ==
    LET all == [All EXCEPT !.browser = RetypedBrowser(@, type)]
    IN  /\ switching = "no"
        /\ IF screen = "browser"
           THEN /\ \E b \in ActivatedBrowsers(all.browser, Scope) : Becomes([all EXCEPT !.browser = b])
                /\ UNCHANGED frameVars
           ELSE TransitionTo(all, "browser", TRUE)

\* DrillDownMsg to the browser, of the search or of a row of the dashboard: a browser on display is
\* given the type and loads nothing.  The resource is inspected.
DrillDown(type) ==
    LET sought == screen = "browser" /\ browser.type # type
        given  == RetypedBrowser(browser, type)
    IN  /\ browser.operation = "none"
        /\ TransitionTo([All EXCEPT !.browser = [given EXCEPT !.operation = "read",
                                                              !.sought = @ \/ sought]],
                        "browser", TRUE)

-----------------------------------------------------------------------------
(* The namespace and the context                                           *)

\* switchNamespace: what is on display is deactivated, all are told, and it is activated again.
SwitchNamespaceTo(to) ==
    /\ namespace' = to
    /\ \E all \in Activated(Told(Deactivated(All, screen), to), screen,
                            [context |-> connection, namespace |-> to]) : Becomes(all)
    /\ UNCHANGED <<screen, prevScreen, connection, tour>>

\* A namespace of the picker or the palette, or the one that takes the place of a denied scope.
SwitchNamespace(to) == SwitchNamespaceTo(to) /\ UNCHANGED switching

SelectContext ==
    /\ switching = "no" /\ switching' = "connecting"
    /\ Becomes(Deactivated(All, screen))
    /\ UNCHANGED <<screen, prevScreen, namespace, connection, tour>>

\* Manager.Connect replaces the connection while requests are under way (module ClusterScope).
Connect(context) ==
    /\ switching = "connecting" /\ switching' = "connected" /\ connection' = context
    /\ browser' = [browser EXCEPT !.fetch = Rerouted(@, context)]
    /\ dashboard' = [dashboard EXCEPT !.fetch = Rerouted(@, context)]
    /\ helm' = [helm EXCEPT !.request = Rerouted(@, context), !.valuesRequest = Rerouted(@, context)]
    /\ crds' = [crds EXCEPT !.listRequest = Rerouted(@, context),
                            !.instanceRequest = Rerouted(@, context)]
    /\ UNCHANGED <<screen, prevScreen, namespace, tour>>

\* handleContextSwitched, with the namespace the context names.
ContextSwitched(to) == switching = "connected" /\ switching' = "no" /\ SwitchNamespaceTo(to)

ContextSwitchFailed ==
    /\ switching = "connecting" /\ switching' = "no"
    /\ \E all \in Activated(All, screen, Scope) : Becomes(all)
    /\ UNCHANGED <<screen, prevScreen, namespace, connection, tour>>

RootSteps ==
    \/ \E s \in Visited : SwitchScreen(s)
    \/ GoBack \/ DrillIntoLogs \/ SelectContext \/ ContextSwitchFailed
    \/ "browser" \in tour /\ \E type \in Types : Palette(type) \/ DrillDown(type)
    \/ \E to \in Namespaces : SwitchNamespace(to) \/ ContextSwitched(to)
    \/ \E context \in Contexts : Connect(context)

Next ==
    \/ RootSteps
    \/ BrowserSteps /\ UNCHANGED <<dashboard, helm, crds>>
    \/ DashboardSteps /\ UNCHANGED <<browser, helm, crds>>
    \/ HelmSteps /\ UNCHANGED <<browser, dashboard, crds>>
    \/ CustomResourceSteps /\ UNCHANGED <<browser, dashboard, helm>>

Spec == Init /\ [][Next]_vars

-----------------------------------------------------------------------------
(* Properties                                                              *)

\* What a screen on display says it is loading is on its way: a request whose answer will be accepted,
\* or a live set that the screen owns.  Excepted is what the code does leave waiting: the browser
\* after a search that only changed its type, and the definitions after an esc that was too early.
ShownIsFed ==
    /\ Heard("browser") /\ browser.loading =>
        browser.sought \/ browser.operation # "none" \/ Current(browser.fetch) \/
        (browser.type \in LiveTypes /\ browser.live[browser.type] = Scope)
    /\ Heard("dashboard") /\ dashboard.loading => dashboard.live[Pods] = Scope
    /\ dashboard.healthLoading => Current(dashboard.health)
    /\ Heard("helm") /\ helm.loading => Current(helm.request)
    /\ Heard("helm") /\ helm.visible /\ helm.valuesLoading => AcceptsValues
    /\ Heard("crds") /\ crds.loading => AcceptsList \/ AcceptsInstances \/ "early" \in crds.left

\* What a screen shows as loaded is of the cluster and the namespace it names.  The table of the
\* browser may lag behind while its rows are about to be replaced, or after a list that failed; what
\* a denied list then looks like is DeniedShowsNotice.  Excepted are the definitions that esc came
\* back to after a switch of the context.
ShownIsCurrent ==
    /\ Heard("browser") /\ browser.table # Nothing /\ browser.table.scope # Scope =>
        browser.failed # "no" \/ Current(browser.fetch) \/
        (browser.type \in LiveTypes /\ browser.live[browser.type] = Scope)
    /\ Heard("helm") /\ ~helm.loading => helm.releases \in {Nothing, Scope}
    /\ Heard("helm") /\ helm.visible /\ ~helm.valuesLoading =>
        helm.values \in {Nothing, [release |-> helm.release, context |-> connection]}
    /\ Heard("crds") /\ ~crds.loading /\ crds.view = "instances" => crds.instances \in {Nothing, Scope}
    /\ Heard("crds") /\ ~crds.loading /\ crds.view = "list" =>
        crds.list \in {Nothing, connection} \/ "former" \in crds.left

\* collectSearchCorpus, and the summaries and contexts made for the analysis, read the rows of
\* screens that are not on display as well: outside a switch of the context all are of this scope.
HeldIsCurrent ==
    switching = "no" =>
        /\ \A type \in Types : browser.rows[type] \in {Nothing, Scope}
        /\ \A feed \in Feeds : dashboard.rows[feed] \in {Nothing, Scope}
        /\ dashboard.metrics \in {Nothing, Scope}
        /\ dashboard.summary \in {Nothing} \cup SUBSET {Scope}

\* Only the screen on display watches the cluster, the browser only the type it shows, and outside a
\* switch of the context only an active screen, in the scope of the root.  During a switch the result
\* of a change does start a live set of the browser that was deactivated for it.
OnlyShownWatches ==
    /\ \A type \in LiveTypes : browser.live[type] # Nothing =>
        /\ screen = "browser" /\ browser.type = type
        /\ switching = "no" => browser.active /\ browser.live[type] = Scope
    /\ \A feed \in Feeds : dashboard.live[feed] # Nothing =>
        /\ screen = "dashboard" /\ dashboard.active
        /\ switching = "no" => dashboard.live[feed] = Scope

\* The metrics have one timer, and one only, however often the dashboard is left and shown again.
OneTimer ==
    /\ dashboard.ticks \leq 1
    /\ dashboard.active => dashboard.ticks = 1
    /\ dashboard.inited => (dashboard.tickPending <=> dashboard.ticks = 1)

\* README.md:47: anything the account cannot read shows a notice in place of the data.  So a scope
\* whose list is denied shows no rows of another one.
DeniedShowsNotice ==
    Heard("browser") /\ browser.failed = "denied" /\ browser.table # Nothing =>
        browser.table.scope = Scope
=============================================================================
