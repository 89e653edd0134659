--------------------------- MODULE ScreensProofs ---------------------------
(***************************************************************************)
(* Proofs about the screens of cluster data under the root: they show and  *)
(* keep what is of the cluster and the namespace the root names, they wait *)
(* for what is on its way, and only the one on display watches.            *)
(*                                                                         *)
(* The root changes a screen in several calls, between which its own state *)
(* is half old: the invariants are therefore predicates on the record of a *)
(* screen b, d, h or c, the screen s that is on display, how far a switch  *)
(* sw of the context is, and the scope of the root.  Every call is a lemma *)
(* about any record; a step of the root is a composition of them.          *)
(***************************************************************************)
EXTENDS Screens, TLAPS

CurrentIn(request, scope) == InFlight(request) /\ request.namespace = scope.namespace

\* What is under way was asked of this scope, and is read from its connection unless that is
\* being replaced.
OfScope(request, sw, scope) ==
    InFlight(request) =>
        /\ request.namespace = scope.namespace
        /\ sw # "connected" => request.reads = {scope.context}

-----------------------------------------------------------------------------
(* The invariants                                                          *)

\* What the browser keeps, on display or not.
BrowserKeeps(b, sw, scope) ==
    /\ OfScope(b.fetch, sw, scope)
    /\ InFlight(b.fetch) => b.fetch.about = b.type
    /\ sw # "connected" => \A type \in Types : b.rows[type] \in {Nothing, scope}

\* What it watches.
BrowserWatches(b, s, sw, scope) ==
    /\ \A type \in LiveTypes : b.live[type] # Nothing =>
        /\ s = "browser" /\ b.type = type
        /\ sw # "connected" => b.live[type] = scope
    /\ s = "browser" /\ sw = "no" => b.active

\* Where the rows of its type come from.
Fed(b, scope) == CurrentIn(b.fetch, scope) \/ (b.type \in LiveTypes /\ b.live[b.type] = scope)

\* What it shows.
BrowserShows(b, scope) ==
    /\ b.loading => b.sought \/ b.operation # "none" \/ Fed(b, scope)
    /\ b.table # Nothing /\ b.table.scope # scope => b.failed # "no" \/ Fed(b, scope)

BrowserInv(b, s, sw, scope) ==
    /\ BrowserKeeps(b, sw, scope) /\ BrowserWatches(b, s, sw, scope)
    /\ s = "browser" /\ sw = "no" => BrowserShows(b, scope)

\* The timer of the metrics.
Timed(d) ==
    /\ d.ticks \leq 1 /\ (d.active => d.ticks = 1) /\ (d.tickPending <=> d.ticks = 1 \/ ~d.inited)
    /\ ~d.inited => d.ticks = 0 /\ ~d.active

\* What the dashboard keeps, on display or not.
DashboardKeeps(d, sw, scope) ==
    /\ OfScope(d.fetch, sw, scope) /\ OfScope(d.health, sw, scope)
    /\ d.healthLoading => CurrentIn(d.health, scope)
    /\ sw # "connected" =>
        /\ \A feed \in Feeds : d.rows[feed] \in {Nothing, scope}
        /\ d.metrics \in {Nothing, scope} /\ d.summary \in {Nothing} \cup SUBSET {scope}
        /\ InFlight(d.health) => d.health.about \subseteq {scope}

\* What it watches and waits for.
DashboardWatches(d, s, sw, scope) ==
    /\ \A feed \in Feeds : d.live[feed] # Nothing =>
        s = "dashboard" /\ d.active /\ (sw # "connected" => d.live[feed] = scope)
    /\ d.active => s = "dashboard"
    /\ s = "dashboard" /\ sw = "no" => d.active /\ (d.loading => d.live[Pods] = scope)

DashboardInv(d, s, sw, scope) ==
    Timed(d) /\ DashboardKeeps(d, sw, scope) /\ DashboardWatches(d, s, sw, scope)

\* The helm screen on display, and its popup, which is closed whenever the screen is left.
HelmShows(h, sw, scope) ==
    /\ OfScope(h.request, sw, scope)
    /\ h.loading => CurrentIn(h.request, scope)
    /\ ~h.loading => h.releases \in {Nothing, scope}

PopupShows(h, scope) ==
    /\ InFlight(h.valuesRequest) =>
        h.valuesRequest.reads = {scope.context} /\ h.valuesRequest.about = h.release
    /\ h.valuesLoading => InFlight(h.valuesRequest)
    /\ ~h.valuesLoading => h.values \in {Nothing, [release |-> h.release, context |-> scope.context]}

HelmInv(h, s, sw, scope) ==
    /\ s = "helm" /\ sw = "no" => HelmShows(h, sw, scope)
    /\ h.visible => s = "helm" /\ sw = "no" /\ PopupShows(h, scope)

\* The custom resources on display: the definitions ...
ListShows(c, scope) ==
    /\ "former" \notin c.left /\ InFlight(c.listRequest) => c.listRequest.reads = {scope.context}
    /\ c.loading => CurrentIn(c.listRequest, scope) \/ "early" \in c.left
    /\ ~c.loading => c.list \in {Nothing, scope.context} \/ "former" \in c.left

\* ... or the instances of one.
InstancesShow(c, scope) ==
    /\ InFlight(c.instanceRequest) => c.instanceRequest.reads = {scope.context}
    /\ c.loading => CurrentIn(c.instanceRequest, scope)
    /\ ~c.loading => c.instances \in {Nothing, scope}

CustomResourcesInv(c, s, sw, scope) ==
    s = "crds" /\ sw = "no" =>
        /\ c.view = "list" => ListShows(c, scope)
        /\ c.view = "instances" => InstancesShow(c, scope)

BrowserHolds == BrowserInv(browser, screen, switching, Scope)
DashboardHolds == DashboardInv(dashboard, screen, switching, Scope)
HelmHolds == HelmInv(helm, screen, switching, Scope)
CustomResourcesHold == CustomResourcesInv(crds, screen, switching, Scope)

-----------------------------------------------------------------------------
(* Types                                                                   *)

\* A request that is sent is one of its kind, and is on its way.
LEMMA AskedIsSent ==
    ASSUME NEW abouts, NEW about \in abouts, NEW scope \in Scopes
    PROVE  /\ Asked(about, scope) \in Sent(abouts)
           /\ Asked(about, scope).step = "newest" /\ Asked(about, scope).about = about
           /\ Asked(about, scope).namespace = scope.namespace
           /\ Asked(about, scope).reads = {scope.context}
BY DEF Asked, Sent, Scopes

\* A request stays one of its kind, whatever is done to it.
LEMMA RequestsStay ==
    ASSUME NEW abouts, NEW request \in Requests(abouts)
    PROVE  /\ Outdated(request) \in Requests(abouts)
           /\ \A context \in Contexts : Rerouted(request, context) \in Requests(abouts)
BY DEF Outdated, Rerouted, Requests, Sent

\* A request under an old number waits for nothing.
LEMMA OutdatedIsIdle ==
    ASSUME NEW abouts, NEW request \in Requests(abouts)
    PROVE  ~InFlight(Outdated(request))
BY DEF Outdated, InFlight, Requests, Sent

\* A connection that is replaced leaves of a request all but what it reads from.
LEMMA ReroutedOnlyReads ==
    ASSUME NEW abouts, NEW request \in Requests(abouts), NEW context \in Contexts
    PROVE  /\ InFlight(Rerouted(request, context)) => InFlight(request)
           /\ InFlight(request) =>
                /\ request \in Sent(abouts)
                /\ InFlight(Rerouted(request, context)) \/ Rerouted(request, context) = Nothing
                /\ Rerouted(request, context).namespace = request.namespace
                /\ Rerouted(request, context).about = request.about
BY DEF Rerouted, InFlight, Requests, Sent

\* The scope of the root is one.
LEMMA ScopeIsScope == ASSUME FrameTypes PROVE Scope \in Scopes
BY DEF FrameTypes, Scope, Scopes

\* A browser that is drawn again keeps its type.
LEMMA RedrawnType == ASSUME NEW b \in Browsers PROVE Redrawn(b) \in Browsers
<1>1. b.rows[b.type] \in Rows /\ b.type \in Types
  BY DEF Browsers
<1>2. CASE b.rows[b.type] = Nothing
  BY <1>2 DEF Browsers, Redrawn
<1>3. CASE b.rows[b.type] # Nothing
  <2>1. [type |-> b.type, scope |-> b.rows[b.type]] \in [type : Types, scope : Scopes]
    BY <1>1, <1>3 DEF Rows
  <2> QED BY <2>1, <1>3 DEF Browsers, Redrawn
<1> QED BY <1>2, <1>3

\* So does one whose live sets are stopped ...
LEMMA StoppedType == ASSUME NEW b \in Browsers PROVE StopAllLiveSets(b) \in Browsers
BY DEF Browsers, StopAllLiveSets, Rows

\* ... whose list failed ...
LEMMA FailedType == ASSUME NEW b \in Browsers PROVE FailedLists(b) \subseteq Browsers
<1>1. \A why \in {"error", "denied"} : [b EXCEPT !.loading = FALSE, !.failed = why] \in Browsers
  BY DEF Browsers
<1> QED BY <1>1 DEF FailedLists

\* ... that loads its rows ...
LEMMA LoadsType ==
    ASSUME NEW b \in Browsers, NEW scope \in Scopes
    PROVE  Loads(b, scope) \subseteq Browsers
<1> DEFINE asked == [b EXCEPT !.loading = TRUE, !.sought = FALSE]
<1>1. asked \in Browsers
  BY DEF Browsers
<1>2. asked.live \in [LiveTypes -> Rows] /\ b.type \in Types
  BY DEF Browsers
<1>3. b.type \in LiveTypes => [asked EXCEPT !.live[b.type] = scope] \in Browsers
  BY <1>1 DEF Browsers, Rows
<1>4. [asked EXCEPT !.fetch = Asked(b.type, scope)] \in Browsers
  BY <1>1, <1>2, AskedIsSent DEF Browsers, Requests
<1> HIDE DEF asked
<1>5. FailedLists(asked) \subseteq Browsers
  BY <1>1, FailedType
<1> QED BY <1>3, <1>4, <1>5 DEF Loads, asked

\* ... and that is called by the root.
LEMMA BrowserCallsType ==
    ASSUME NEW b \in Browsers, NEW scope \in Scopes, NEW type \in Types
    PROVE  /\ ActivatedBrowsers(b, scope) \subseteq Browsers
           /\ DeactivatedBrowser(b) \in Browsers /\ RenamedBrowser(b) \in Browsers
           /\ RetypedBrowser(b, type) \in Browsers
           /\ Listed(b, type, scope) \in Browsers
<1>1. [b EXCEPT !.active = TRUE] \in Browsers
  BY DEF Browsers
<1>2. StopAllLiveSets(b) \in Browsers
  BY StoppedType
<1>3. DeactivatedBrowser(b) \in Browsers
  BY <1>2 DEF DeactivatedBrowser, Browsers
<1>4. Outdated(StopAllLiveSets(b).fetch) \in Requests(Types)
  BY <1>2, RequestsStay DEF Browsers
<1>5. RenamedBrowser(b) \in Browsers
  BY <1>2, <1>4 DEF RenamedBrowser, Browsers, Rows
<1>6. [StopAllLiveSets(b) EXCEPT !.type = type, !.loading = TRUE, !.fetch = Outdated(@)] \in Browsers
  BY <1>2, <1>4 DEF Browsers
<1>7. RetypedBrowser(b, type) \in Browsers
  BY <1>6, RedrawnType DEF RetypedBrowser
<1>8. [b EXCEPT !.rows[type] = scope, !.loading = FALSE, !.failed = "no"] \in Browsers
  BY DEF Browsers, Rows
<1>9. Listed(b, type, scope) \in Browsers
  BY <1>8, RedrawnType DEF Listed
<1>10. ActivatedBrowsers(b, scope) \subseteq Browsers
  BY <1>1, LoadsType DEF ActivatedBrowsers
<1> QED BY <1>3, <1>5, <1>7, <1>9, <1>10

\* The dashboard keeps its type under every call.
LEMMA RefreshedType ==
    ASSUME NEW d \in Dashboards, NEW scope \in Scopes
    PROVE  RefreshedDashboards(d, scope) \subseteq Dashboards
<1> DEFINE asked == [d EXCEPT !.loading = TRUE, !.fetch = Asked(Nothing, scope)]
<1>1. asked \in Dashboards
  BY AskedIsSent DEF Dashboards, Requests
<1> HIDE DEF asked
<1>2. ASSUME NEW refused \in SUBSET Feeds
      PROVE  [asked EXCEPT !.live = [f \in Feeds |-> IF f \in refused THEN Nothing ELSE scope],
               !.failed = refused, !.loading = @ /\ Pods \notin refused] \in Dashboards
  <2>1. [f \in Feeds |-> IF f \in refused THEN Nothing ELSE scope] \in [Feeds -> {Nothing} \cup Scopes]
    OBVIOUS
  <2>2. \A live \in [Feeds -> {Nothing} \cup Scopes], loading \in BOOLEAN :
          [asked EXCEPT !.live = live, !.failed = refused, !.loading = loading] \in Dashboards
    BY <1>1 DEF Dashboards
  <2> QED BY <2>1, <2>2
<1>3. StartedLiveSets(asked, scope) \subseteq Dashboards
  BY <1>2 DEF StartedLiveSets
<1> QED BY <1>1, <1>3 DEF RefreshedDashboards, asked

\* The calls of the root leave the dashboard a dashboard, so does a request for its health.
LEMMA DashboardCallsType ==
    ASSUME NEW d \in Dashboards, NEW scope \in Scopes
    PROVE  /\ ActivatedDashboards(d, scope) \subseteq Dashboards
           /\ DeactivatedDashboard(d) \in Dashboards /\ RenamedDashboard(d) \in Dashboards
           /\ AskedForHealth(d, scope) \in Dashboards
<1>1. \A n \in Nat : n + 1 \in Nat
  OBVIOUS
<1>2. \A x \in Dashboards : x.ticks \in Nat
  BY DEF Dashboards
<1>3. \A n \in Nat : [d EXCEPT !.inited = TRUE, !.ticks = n] \in Dashboards
  BY DEF Dashboards
<1>4. InitDashboard(d) \in Dashboards
  BY <1>1, <1>2, <1>3 DEF InitDashboard
<1>5. \A ready \in Dashboards : \A n \in Nat :
        [ready EXCEPT !.active = TRUE, !.tickPending = TRUE, !.ticks = n] \in Dashboards
  BY DEF Dashboards
<1>6. \A ready \in Dashboards :
        [ready EXCEPT !.active = TRUE, !.tickPending = TRUE,
                      !.ticks = IF ready.tickPending THEN @ ELSE @ + 1] \in Dashboards
  BY <1>1, <1>2, <1>5
<1>7. ActivatedDashboards(d, scope) \subseteq Dashboards
  BY <1>4, <1>6, RefreshedType DEF ActivatedDashboards
<1>8. [f \in Feeds |-> Nothing] \in [Feeds -> {Nothing} \cup Scopes]
  OBVIOUS
<1>9. DeactivatedDashboard(d) \in Dashboards
  BY <1>8 DEF DeactivatedDashboard, StopDashboardLiveSets, Dashboards
<1>10. Outdated(d.fetch) \in Requests({Nothing}) /\ Outdated(d.health) \in Requests(SUBSET Scopes)
  BY RequestsStay DEF Dashboards
<1>11. RenamedDashboard(d) \in Dashboards
  BY <1>8, <1>10 DEF RenamedDashboard, Dashboards
<1>12. {d.rows[f] : f \in Feeds} \ {Nothing} \in SUBSET Scopes
  BY DEF Dashboards
<1>13. AskedForHealth(d, scope) \in Dashboards
  BY <1>12, AskedIsSent DEF AskedForHealth, Dashboards, Requests
<1> QED BY <1>7, <1>9, <1>11, <1>13

\* The same of helm, whatever the namespaces it is told of.
LEMMA HelmCallsType ==
    ASSUME NEW h \in Helms, NEW scope \in Scopes, NEW from, NEW to
    PROVE  /\ ActivatedHelm(h, scope) \in Helms /\ DeactivatedHelm(h) \in Helms
           /\ RenamedHelm(h, from, to) \in Helms
<1>1. Asked(Nothing, scope) \in Requests({Nothing})
  BY AskedIsSent DEF Requests
<1>2. Outdated(h.request) \in Requests({Nothing}) /\ Outdated(h.valuesRequest) \in Requests(Releases)
  BY RequestsStay DEF Helms
<1> QED BY <1>1, <1>2 DEF ActivatedHelm, DeactivatedHelm, RenamedHelm, Helms

\* The same of the custom resources, with the request of what is in view.
LEMMA CustomResourceCallsType ==
    ASSUME NEW c \in CustomResourceScreens, NEW scope \in Scopes, NEW from, NEW to
    PROVE  /\ ActivatedCustomResources(c, scope) \in CustomResourceScreens
           /\ DeactivatedCustomResources(c) \in CustomResourceScreens
           /\ RenamedCustomResources(c, from, to) \in CustomResourceScreens
           /\ FetchedView([c EXCEPT !.loading = TRUE], scope) \in CustomResourceScreens
<1>1. Asked(Nothing, scope) \in Requests({Nothing})
  BY AskedIsSent DEF Requests
<1>2. Outdated(c.listRequest) \in Requests({Nothing}) /\ Outdated(c.instanceRequest) \in Requests({Nothing})
  BY RequestsStay DEF CustomResourceScreens
<1>3. \A x \in CustomResourceScreens : FetchedView(x, scope) \in CustomResourceScreens
  BY <1>1 DEF FetchedView, CustomResourceScreens
<1>4. [c EXCEPT !.inited = TRUE, !.loading = TRUE] \in CustomResourceScreens
      /\ [c EXCEPT !.loading = TRUE] \in CustomResourceScreens
  BY DEF CustomResourceScreens
<1> QED BY <1>2, <1>3, <1>4
    DEF ActivatedCustomResources, DeactivatedCustomResources, RenamedCustomResources, CustomResourceScreens

-----------------------------------------------------------------------------
(* A step of the root, screen by screen                                    *)

AllScreens == [browser : Browsers, dashboard : Dashboards, helm : Helms, crds : CustomResourceScreens]

\* What the screens become when the root deactivates s.
LEMMA DeactivatedParts ==
    ASSUME NEW all \in AllScreens, NEW s \in Screens \cup {Elsewhere}
    PROVE  LET x == Deactivated(all, s) IN
           /\ x \in AllScreens
           /\ x.browser = IF s = "browser" THEN DeactivatedBrowser(all.browser) ELSE all.browser
           /\ x.dashboard = IF s = "dashboard" THEN DeactivatedDashboard(all.dashboard) ELSE all.dashboard
           /\ x.helm = IF s = "helm" THEN DeactivatedHelm(all.helm) ELSE all.helm
           /\ x.crds = IF s = "crds" THEN DeactivatedCustomResources(all.crds) ELSE all.crds
<1>1. /\ all.browser \in Browsers /\ all.dashboard \in Dashboards
      /\ all.helm \in Helms /\ all.crds \in CustomResourceScreens
  BY DEF AllScreens
<1>2. PICK scope : scope \in Scopes
  <2>1. PICK context \in Contexts, name \in Namespaces : TRUE
    BY FrameConstants
  <2>2. [context |-> context, namespace |-> name] \in Scopes
    BY DEF Scopes
  <2> QED BY <2>2
<1>3. DeactivatedBrowser(all.browser) \in Browsers
  BY <1>1, <1>2, BrowserCallsType DEF Browsers
<1>4. DeactivatedDashboard(all.dashboard) \in Dashboards
  BY <1>1, <1>2, DashboardCallsType
<1>5. DeactivatedHelm(all.helm) \in Helms /\ DeactivatedCustomResources(all.crds) \in CustomResourceScreens
  BY <1>1, <1>2, HelmCallsType, CustomResourceCallsType
<1> QED BY <1>3, <1>4, <1>5 DEF Deactivated, AllScreens, Screens, Elsewhere

\* What they become when it activates s.
ActivatedAre(x, all, s, scope) ==
    /\ x \in AllScreens
    /\ x.browser \in IF s = "browser" THEN ActivatedBrowsers(all.browser, scope) ELSE {all.browser}
    /\ x.dashboard \in IF s = "dashboard" THEN ActivatedDashboards(all.dashboard, scope)
                       ELSE {all.dashboard}
    /\ x.helm = IF s = "helm" THEN ActivatedHelm(all.helm, scope) ELSE all.helm
    /\ x.crds = IF s = "crds" THEN ActivatedCustomResources(all.crds, scope) ELSE all.crds

\* The screen that is activated changes, and the others stay as they were.
LEMMA ActivatedParts ==
    ASSUME NEW all \in AllScreens, NEW s \in Screens \cup {Elsewhere}, NEW scope \in Scopes,
           NEW x \in Activated(all, s, scope)
    PROVE  ActivatedAre(x, all, s, scope)
<1>1. /\ all.browser \in Browsers /\ all.dashboard \in Dashboards
      /\ all.helm \in Helms /\ all.crds \in CustomResourceScreens
  BY DEF AllScreens
<1>2. ActivatedBrowsers(all.browser, scope) \subseteq Browsers
  BY <1>1, BrowserCallsType DEF Browsers
<1>3. ActivatedDashboards(all.dashboard, scope) \subseteq Dashboards
  BY <1>1, DashboardCallsType
<1>4. ActivatedHelm(all.helm, scope) \in Helms
      /\ ActivatedCustomResources(all.crds, scope) \in CustomResourceScreens
  BY <1>1, HelmCallsType, CustomResourceCallsType
<1>5. CASE s = "browser"
  BY <1>5, <1>2 DEF Activated, ActivatedAre, AllScreens, Elsewhere
<1>6. CASE s = "dashboard"
  BY <1>6, <1>3 DEF Activated, ActivatedAre, AllScreens, Elsewhere
<1>7. CASE s = "helm"
  BY <1>7, <1>4 DEF Activated, ActivatedAre, AllScreens, Elsewhere
<1>8. CASE s = "crds"
  BY <1>8, <1>4 DEF Activated, ActivatedAre, AllScreens, Elsewhere
<1>9. CASE s = Elsewhere
  BY <1>9 DEF Activated, ActivatedAre, AllScreens, Elsewhere
<1> QED BY <1>5, <1>6, <1>7, <1>8, <1>9 DEF Screens

\* The root is on its way to another screen: the browser may have been given a type before.
Navigates(b) ==
    /\ UNCHANGED <<namespace, connection, switching>> /\ screen' # screen
    /\ \E x \in IF screen' = "browser" THEN ActivatedBrowsers(b, Scope)
                ELSE IF screen = "browser" THEN {DeactivatedBrowser(b)} ELSE {b} : browser' = Redrawn(x)
    /\ dashboard' \in IF screen' = "dashboard" THEN ActivatedDashboards(dashboard, Scope)
                      ELSE IF screen = "dashboard" THEN {DeactivatedDashboard(dashboard)} ELSE {dashboard}
    /\ helm' = IF screen' = "helm" THEN ActivatedHelm(helm, Scope)
               ELSE IF screen = "helm" THEN DeactivatedHelm(helm) ELSE helm
    /\ crds' = IF screen' = "crds" THEN ActivatedCustomResources(crds, Scope)
               ELSE IF screen = "crds" THEN DeactivatedCustomResources(crds) ELSE crds

\* A transition to the screen on display changes nothing but the type it was given.
LEMMA TransitionNavigates ==
    ASSUME TypeOK, NEW b \in Browsers, NEW s \in Screens \cup {Elsewhere}, NEW remember,
           TransitionTo([All EXCEPT !.browser = b], s, remember)
    PROVE  \/ Navigates(b) /\ screen' = s
           \/ browser' = b /\ UNCHANGED <<frameVars, dashboard, helm, crds>> /\ s = screen
<1> DEFINE all == [All EXCEPT !.browser = b]
<1>1. all \in AllScreens /\ all.browser = b /\ all.dashboard = dashboard /\ all.helm = helm /\ all.crds = crds
  BY DEF All, AllScreens, TypeOK
<1>2. Scope \in Scopes /\ screen \in Screens \cup {Elsewhere}
  BY ScopeIsScope DEF TypeOK, FrameTypes
<1> HIDE DEF all
<1>3. TransitionTo(all, s, remember)
  BY DEF all
<1>4. CASE s = screen
  BY <1>1, <1>3, <1>4 DEF TransitionTo, Becomes
<1>5. CASE s # screen
  <2>1. PICK shown \in Activated(Deactivated(all, screen), s, Scope) : Becomes(Resized(shown))
    BY <1>3, <1>5 DEF TransitionTo
  <2>2. screen' = s /\ UNCHANGED <<namespace, connection, switching>>
    BY <1>3, <1>5 DEF TransitionTo
  <2> DEFINE left == Deactivated(all, screen)
  <2>3. /\ left \in AllScreens
        /\ left.browser = IF screen = "browser" THEN DeactivatedBrowser(b) ELSE b
        /\ left.dashboard = IF screen = "dashboard" THEN DeactivatedDashboard(dashboard) ELSE dashboard
        /\ left.helm = IF screen = "helm" THEN DeactivatedHelm(helm) ELSE helm
        /\ left.crds = IF screen = "crds" THEN DeactivatedCustomResources(crds) ELSE crds
    BY <1>1, <1>2, DeactivatedParts
  <2> HIDE DEF left
  <2>4. ActivatedAre(shown, left, s, Scope)
    <3>1. shown \in Activated(left, s, Scope)
      BY <2>1 DEF left
    <3>2. left \in AllScreens
      BY <2>3
    <3> QED BY <3>1, <3>2, <1>2, ActivatedParts
  <2>5. /\ browser' = Redrawn(shown.browser) /\ dashboard' = shown.dashboard
        /\ helm' = shown.helm /\ crds' = shown.crds
    BY <2>1, <2>4 DEF ActivatedAre, Becomes, Resized, AllScreens
  <2>6. \E x \in IF s = "browser" THEN ActivatedBrowsers(b, Scope)
                 ELSE IF screen = "browser" THEN {DeactivatedBrowser(b)} ELSE {b} : browser' = Redrawn(x)
    BY <1>5, <2>3, <2>4, <2>5 DEF ActivatedAre
  <2>7. dashboard' \in IF s = "dashboard" THEN ActivatedDashboards(dashboard, Scope)
                       ELSE IF screen = "dashboard" THEN {DeactivatedDashboard(dashboard)} ELSE {dashboard}
    BY <1>5, <2>3, <2>4, <2>5 DEF ActivatedAre
  <2>8. /\ helm' = IF s = "helm" THEN ActivatedHelm(helm, Scope)
                   ELSE IF screen = "helm" THEN DeactivatedHelm(helm) ELSE helm
        /\ crds' = IF s = "crds" THEN ActivatedCustomResources(crds, Scope)
                   ELSE IF screen = "crds" THEN DeactivatedCustomResources(crds) ELSE crds
    BY <1>5, <2>3, <2>4, <2>5 DEF ActivatedAre
  <2> QED BY <1>5, <2>2, <2>6, <2>7, <2>8 DEF Navigates
<1> QED BY <1>4, <1>5

\* The root tells every screen the namespace: what is on display is stopped before and starts again.
Renames(to) ==
    LET scope == [context |-> connection, namespace |-> to]
        left  == IF screen = "browser" THEN DeactivatedBrowser(browser) ELSE browser
        gone  == IF screen = "dashboard" THEN DeactivatedDashboard(dashboard) ELSE dashboard
        hid   == IF screen = "helm" THEN DeactivatedHelm(helm) ELSE helm
        shut  == IF screen = "crds" THEN DeactivatedCustomResources(crds) ELSE crds
    IN  /\ namespace' = to /\ UNCHANGED <<screen, connection>>
        /\ browser' \in IF screen = "browser" THEN ActivatedBrowsers(RenamedBrowser(left), scope)
                        ELSE {RenamedBrowser(left)}
        /\ dashboard' \in IF screen = "dashboard" THEN ActivatedDashboards(RenamedDashboard(gone), scope)
                          ELSE {RenamedDashboard(gone)}
        /\ helm' = IF screen = "helm" THEN ActivatedHelm(RenamedHelm(hid, namespace, to), scope)
                   ELSE RenamedHelm(hid, namespace, to)
        /\ crds' = IF screen = "crds" THEN ActivatedCustomResources(RenamedCustomResources(shut, namespace, to), scope)
                   ELSE RenamedCustomResources(shut, namespace, to)

\* That is what the switch of a namespace does.
LEMMA SwitchRenames ==
    ASSUME TypeOK, NEW to \in Namespaces, SwitchNamespaceTo(to)
    PROVE  Renames(to)
<1> DEFINE scope == [context |-> connection, namespace |-> to]
           left  == Deactivated(All, screen)
           told  == Told(left, to)
<1>1. All \in AllScreens /\ All.browser = browser /\ All.dashboard = dashboard
      /\ All.helm = helm /\ All.crds = crds
  BY DEF All, AllScreens, TypeOK
<1>2. scope \in Scopes /\ screen \in Screens \cup {Elsewhere}
  BY DEF TypeOK, FrameTypes, Scopes
<1>3. PICK x \in Activated(told, screen, scope) : Becomes(x)
  BY DEF SwitchNamespaceTo
<1>4. /\ left \in AllScreens
      /\ left.browser = IF screen = "browser" THEN DeactivatedBrowser(browser) ELSE browser
      /\ left.dashboard = IF screen = "dashboard" THEN DeactivatedDashboard(dashboard) ELSE dashboard
      /\ left.helm = IF screen = "helm" THEN DeactivatedHelm(helm) ELSE helm
      /\ left.crds = IF screen = "crds" THEN DeactivatedCustomResources(crds) ELSE crds
  BY <1>1, <1>2, DeactivatedParts
<1> HIDE DEF left, scope
<1>5. /\ told.browser = RenamedBrowser(left.browser) /\ told.dashboard = RenamedDashboard(left.dashboard)
      /\ told.helm = RenamedHelm(left.helm, namespace, to)
      /\ told.crds = RenamedCustomResources(left.crds, namespace, to)
  BY <1>4 DEF Told, AllScreens
<1>6. told \in AllScreens
  <2>1. /\ left.browser \in Browsers /\ left.dashboard \in Dashboards
        /\ left.helm \in Helms /\ left.crds \in CustomResourceScreens
    BY <1>4 DEF AllScreens
  <2>2. RenamedBrowser(left.browser) \in Browsers
    BY <2>1, <1>2, BrowserCallsType DEF Browsers
  <2>3. RenamedDashboard(left.dashboard) \in Dashboards
    BY <2>1, <1>2, DashboardCallsType
  <2>4. /\ RenamedHelm(left.helm, namespace, to) \in Helms
        /\ RenamedCustomResources(left.crds, namespace, to) \in CustomResourceScreens
    BY <2>1, <1>2, HelmCallsType, CustomResourceCallsType
  <2> QED BY <1>4, <2>2, <2>3, <2>4 DEF Told, AllScreens
<1> HIDE DEF told
<1>7. ActivatedAre(x, told, screen, scope)
  BY <1>2, <1>3, <1>6, ActivatedParts
<1>8. browser' = x.browser /\ dashboard' = x.dashboard /\ helm' = x.helm /\ crds' = x.crds
  BY <1>3 DEF Becomes
<1>9. namespace' = to /\ UNCHANGED <<screen, connection>>
  BY DEF SwitchNamespaceTo
<1>10. browser' \in IF screen = "browser" THEN ActivatedBrowsers(RenamedBrowser(left.browser), scope)
                    ELSE {RenamedBrowser(left.browser)}
  BY <1>5, <1>7, <1>8 DEF ActivatedAre
<1>11. dashboard' \in IF screen = "dashboard" THEN ActivatedDashboards(RenamedDashboard(left.dashboard), scope)
                      ELSE {RenamedDashboard(left.dashboard)}
  BY <1>5, <1>7, <1>8 DEF ActivatedAre
<1>12. helm' = IF screen = "helm" THEN ActivatedHelm(RenamedHelm(left.helm, namespace, to), scope)
               ELSE RenamedHelm(left.helm, namespace, to)
  BY <1>5, <1>7, <1>8 DEF ActivatedAre
<1>13. crds' = IF screen = "crds" THEN ActivatedCustomResources(RenamedCustomResources(left.crds, namespace, to), scope)
               ELSE RenamedCustomResources(left.crds, namespace, to)
  BY <1>5, <1>7, <1>8 DEF ActivatedAre
<1> QED BY <1>4, <1>9, <1>10, <1>11, <1>12, <1>13 DEF Renames, scope

\* A switch of the context stops what is on display, and one that fails starts it again.
LEMMA SelectStops ==
    ASSUME TypeOK, SelectContext
    PROVE  /\ browser' = IF screen = "browser" THEN DeactivatedBrowser(browser) ELSE browser
           /\ dashboard' = IF screen = "dashboard" THEN DeactivatedDashboard(dashboard) ELSE dashboard
           /\ helm' = IF screen = "helm" THEN DeactivatedHelm(helm) ELSE helm
           /\ crds' = IF screen = "crds" THEN DeactivatedCustomResources(crds) ELSE crds
<1>1. All \in AllScreens /\ All.browser = browser /\ All.dashboard = dashboard
      /\ All.helm = helm /\ All.crds = crds /\ screen \in Screens \cup {Elsewhere}
  BY DEF All, AllScreens, TypeOK, FrameTypes
<1>2. LET x == Deactivated(All, screen) IN
      browser' = x.browser /\ dashboard' = x.dashboard /\ helm' = x.helm /\ crds' = x.crds
  BY DEF SelectContext, Becomes
<1> QED BY <1>1, <1>2, DeactivatedParts

\* The other half: the screen on display is activated in the scope the root still has.
LEMMA FailureStarts ==
    ASSUME TypeOK, ContextSwitchFailed
    PROVE  /\ browser' \in IF screen = "browser" THEN ActivatedBrowsers(browser, Scope) ELSE {browser}
           /\ dashboard' \in IF screen = "dashboard" THEN ActivatedDashboards(dashboard, Scope) ELSE {dashboard}
           /\ helm' = IF screen = "helm" THEN ActivatedHelm(helm, Scope) ELSE helm
           /\ crds' = IF screen = "crds" THEN ActivatedCustomResources(crds, Scope) ELSE crds
<1>1. All \in AllScreens /\ All.browser = browser /\ All.dashboard = dashboard
      /\ All.helm = helm /\ All.crds = crds /\ screen \in Screens \cup {Elsewhere}
  BY DEF All, AllScreens, TypeOK, FrameTypes
<1>2. Scope \in Scopes
  BY ScopeIsScope DEF TypeOK
<1>3. PICK x \in Activated(All, screen, Scope) : Becomes(x)
  BY DEF ContextSwitchFailed
<1>4. ActivatedAre(x, All, screen, Scope)
  BY <1>1, <1>2, <1>3, ActivatedParts
<1> QED BY <1>1, <1>3, <1>4 DEF ActivatedAre, Becomes

\* The browsers a search or the palette makes before the root shows them.
Given(type) ==
    LET given == RetypedBrowser(browser, type)
        moved == screen = "browser" /\ browser.type # type
    IN  {given, [given EXCEPT !.operation = "read", !.sought = @ \/ moved]}

\* Either is a browser.
LEMMA GivenType ==
    ASSUME TypeOK, NEW type \in Types
    PROVE  \A b \in Given(type) : b \in Browsers
<1> DEFINE given == RetypedBrowser(browser, type)
           moved == screen = "browser" /\ browser.type # type
<1>1. given \in Browsers
  <2>1. Scope \in Scopes /\ browser \in Browsers
    BY ScopeIsScope DEF TypeOK
  <2> QED BY <2>1, BrowserCallsType
<1>2. \A b \in Browsers, sought \in BOOLEAN : [b EXCEPT !.operation = "read", !.sought = sought] \in Browsers
  BY DEF Browsers
<1>3. given.sought \in BOOLEAN /\ moved \in BOOLEAN
  BY <1>1 DEF Browsers
<1> HIDE DEF given, moved
<1>4. [given EXCEPT !.operation = "read", !.sought = @ \/ moved] \in Browsers
  BY <1>1, <1>2, <1>3
<1> QED BY <1>1, <1>4 DEF Given, given, moved

\* The steps of the root, by what they do to the screens.
LEMMA RootStepsAre ==
    ASSUME TypeOK, RootSteps
    PROVE  \/ Navigates(browser)
           \/ UNCHANGED <<frameVars, screenVars>>
           \/ \E type \in Types : \E b \in Given(type) : Navigates(b) /\ screen' = "browser"
           \/ /\ screen = "browser" /\ UNCHANGED <<frameVars, dashboard, helm, crds>>
              /\ \E type \in Types :
                    \/ switching = "no" /\ browser' \in ActivatedBrowsers(RetypedBrowser(browser, type), Scope)
                    \/ browser' \in Given(type) /\ browser'.operation = "read"
           \/ SelectContext \/ ContextSwitchFailed
           \/ \E context \in Contexts : Connect(context)
           \/ \E to \in Namespaces :
                Renames(to) /\ (switching' = switching \/ (switching' = "no" /\ switching = "connected"))
<1>1. \A type \in Types : \A b \in Given(type) : b \in Browsers
  BY GivenType
<1>2. [All EXCEPT !.browser = browser] = All
  BY DEF All
<1>3. browser \in Browsers /\ screen \in Screens \cup {Elsewhere} /\ prevScreen \in Screens \cup {Elsewhere}
      /\ tour \subseteq Screens
  BY FrameConstants DEF TypeOK, FrameTypes
<1>4. ASSUME NEW s \in Screens \cup {Elsewhere}, NEW remember \in BOOLEAN, TransitionTo(All, s, remember)
      PROVE  Navigates(browser) \/ UNCHANGED <<frameVars, screenVars>>
  BY <1>2, <1>3, <1>4, TransitionNavigates DEF screenVars
<1>5. ASSUME NEW s \in Visited, SwitchScreen(s)
      PROVE  Navigates(browser) \/ UNCHANGED <<frameVars, screenVars>>
  BY <1>3, <1>4, <1>5 DEF SwitchScreen, Visited
<1>6. CASE GoBack \/ DrillIntoLogs
  BY <1>3, <1>4, <1>6 DEF GoBack, DrillIntoLogs
<1>7. ASSUME NEW type \in Types, Palette(type)
      PROVE  \/ Navigates(RetypedBrowser(browser, type)) /\ screen' = "browser"
             \/ /\ screen = "browser" /\ UNCHANGED <<frameVars, dashboard, helm, crds>>
                /\ switching = "no" /\ browser' \in ActivatedBrowsers(RetypedBrowser(browser, type), Scope)
  <2> DEFINE given == RetypedBrowser(browser, type)
  <2>1. [All EXCEPT !.browser = RetypedBrowser(@, type)] = [All EXCEPT !.browser = given]
    BY DEF All
  <2>2. given \in Browsers
    BY <1>1 DEF Given
  <2>3. switching = "no"
    BY <1>7 DEF Palette
  <2> HIDE DEF given
  <2>4. CASE screen = "browser"
    BY <1>7, <2>1, <2>3, <2>4 DEF Palette, Becomes, All, given
  <2>5. CASE screen # "browser"
    <3>1. TransitionTo([All EXCEPT !.browser = given], "browser", TRUE)
      BY <1>7, <2>1, <2>5 DEF Palette
    <3> QED BY <3>1, <2>2, <2>5, TransitionNavigates DEF Screens, given
  <2> QED BY <2>4, <2>5
<1>8. ASSUME NEW type \in Types, DrillDown(type)
      PROVE  \E b \in Given(type) : b.operation = "read" /\
                \/ Navigates(b) /\ screen' = "browser"
                \/ screen = "browser" /\ UNCHANGED <<frameVars, dashboard, helm, crds>> /\ browser' = b
  <2> DEFINE given == RetypedBrowser(browser, type)
             moved == screen = "browser" /\ browser.type # type
             b == [given EXCEPT !.operation = "read", !.sought = @ \/ moved]
  <2>1. TransitionTo([All EXCEPT !.browser = b], "browser", TRUE)
    BY <1>8 DEF DrillDown
  <2>2. b \in Given(type) /\ b \in Browsers
    BY <1>1 DEF Given
  <2>3. given \in Browsers
    BY <1>1 DEF Given
  <2>4. b.operation = "read"
    BY <2>3 DEF Browsers
  <2> HIDE DEF b
  <2> QED BY <2>1, <2>2, <2>4, TransitionNavigates DEF Screens
<1>9. ASSUME NEW to \in Namespaces, SwitchNamespace(to) \/ ContextSwitched(to)
      PROVE  Renames(to) /\ (switching' = switching \/ (switching' = "no" /\ switching = "connected"))
  <2>1. SwitchNamespaceTo(to) /\ (switching' = switching \/ (switching' = "no" /\ switching = "connected"))
    BY <1>9 DEF SwitchNamespace, ContextSwitched
  <2>2. Renames(to)
    BY <2>1, SwitchRenames
  <2> QED BY <2>1, <2>2
<1>10. CASE \E s \in Visited : SwitchScreen(s)
  BY <1>5, <1>10
<1>11. CASE \E type \in Types : Palette(type)
  <2>1. PICK type \in Types : Palette(type)
    BY <1>11
  <2>2. RetypedBrowser(browser, type) \in Given(type)
    BY DEF Given
  <2> QED BY <2>1, <2>2, <1>7
<1>12. CASE \E type \in Types : DrillDown(type)
  BY <1>8, <1>12
<1>13. CASE \E to \in Namespaces : SwitchNamespace(to) \/ ContextSwitched(to)
  BY <1>9, <1>13
<1> QED BY <1>6, <1>10, <1>11, <1>12, <1>13 DEF RootSteps

-----------------------------------------------------------------------------
(* Type correctness                                                        *)

\* The root stays typed.
LEMMA FrameStaysTyped == FrameTypes /\ RootSteps => FrameTypes'
<1> SUFFICES ASSUME FrameTypes, RootSteps PROVE FrameTypes'
  OBVIOUS
<1>1. ASSUME NEW all, NEW s \in Screens \cup {Elsewhere}, NEW remember \in BOOLEAN,
             TransitionTo(all, s, remember)
      PROVE  FrameTypes'
  BY <1>1 DEF TransitionTo, FrameTypes, frameVars
<1>2. tour \subseteq Screens /\ Elsewhere \in Screens \cup {Elsewhere} /\ "browser" \in Screens
  BY FrameConstants DEF FrameTypes, Screens
<1>3. CASE (\E s \in Visited : SwitchScreen(s)) \/ GoBack \/ DrillIntoLogs
  BY <1>1, <1>2, <1>3 DEF SwitchScreen, GoBack, DrillIntoLogs, Visited
<1>4. ASSUME NEW type \in Types, Palette(type)
      PROVE  FrameTypes'
  BY <1>1, <1>2, <1>4 DEF Palette, FrameTypes, frameVars
<1>5. ASSUME NEW type \in Types, DrillDown(type)
      PROVE  FrameTypes'
  BY <1>1, <1>2, <1>5 DEF DrillDown
<1>6. CASE SelectContext \/ ContextSwitchFailed \/ \E context \in Contexts : Connect(context)
  BY <1>6 DEF SelectContext, ContextSwitchFailed, Connect, FrameTypes
<1>7. CASE \E to \in Namespaces : SwitchNamespace(to) \/ ContextSwitched(to)
  BY <1>7 DEF SwitchNamespace, ContextSwitched, SwitchNamespaceTo, FrameTypes
<1> QED BY <1>3, <1>4, <1>5, <1>6, <1>7 DEF RootSteps

\* A connection that is replaced changes no type.
LEMMA ConnectType ==
    ASSUME TypeOK, NEW context \in Contexts, Connect(context)
    PROVE  /\ browser' \in Browsers /\ dashboard' \in Dashboards
           /\ helm' \in Helms /\ crds' \in CustomResourceScreens
<1>1. Rerouted(browser.fetch, context) \in Requests(Types)
  BY RequestsStay DEF TypeOK, Browsers
<1>2. Rerouted(dashboard.fetch, context) \in Requests({Nothing})
  BY RequestsStay DEF TypeOK, Dashboards
<1>3. Rerouted(helm.request, context) \in Requests({Nothing})
      /\ Rerouted(helm.valuesRequest, context) \in Requests(Releases)
  BY RequestsStay DEF TypeOK, Helms
<1>4. Rerouted(crds.listRequest, context) \in Requests({Nothing})
      /\ Rerouted(crds.instanceRequest, context) \in Requests({Nothing})
  BY RequestsStay DEF TypeOK, CustomResourceScreens
<1>5. browser' \in Browsers
  BY <1>1 DEF Connect, TypeOK, Browsers
<1>6. dashboard' \in Dashboards
  BY <1>2 DEF Connect, TypeOK, Dashboards
<1>7. helm' \in Helms
  BY <1>3 DEF Connect, TypeOK, Helms
<1>8. crds' \in CustomResourceScreens
  BY <1>4 DEF Connect, TypeOK, CustomResourceScreens
<1> QED BY <1>5, <1>6, <1>7, <1>8

\* No step of the root changes the type of a screen.
LEMMA RootKeepsTypes == TypeOK /\ RootSteps => TypeOK'
<1> SUFFICES ASSUME TypeOK, RootSteps PROVE TypeOK'
  OBVIOUS
<1> DEFINE Screened == browser' \in Browsers /\ dashboard' \in Dashboards /\ helm' \in Helms
                       /\ crds' \in CustomResourceScreens
<1>0. Scope \in Scopes /\ browser \in Browsers /\ dashboard \in Dashboards /\ helm \in Helms
      /\ crds \in CustomResourceScreens
  BY ScopeIsScope DEF TypeOK
<1>1. FrameTypes'
  BY FrameStaysTyped DEF TypeOK
<1>2. \A b \in Browsers, scope \in Scopes :
        /\ ActivatedBrowsers(b, scope) \subseteq Browsers /\ DeactivatedBrowser(b) \in Browsers
        /\ RenamedBrowser(b) \in Browsers /\ Redrawn(b) \in Browsers
        /\ \A type \in Types : RetypedBrowser(b, type) \in Browsers
  <2> SUFFICES ASSUME NEW b \in Browsers, NEW scope \in Scopes
               PROVE  /\ ActivatedBrowsers(b, scope) \subseteq Browsers /\ DeactivatedBrowser(b) \in Browsers
                      /\ RenamedBrowser(b) \in Browsers /\ Redrawn(b) \in Browsers
                      /\ \A type \in Types : RetypedBrowser(b, type) \in Browsers
    OBVIOUS
  <2>1. b.type \in Types
    BY DEF Browsers
  <2> QED BY <2>1, BrowserCallsType, RedrawnType
<1>3. \A d \in Dashboards, scope \in Scopes :
        /\ ActivatedDashboards(d, scope) \subseteq Dashboards
        /\ DeactivatedDashboard(d) \in Dashboards /\ RenamedDashboard(d) \in Dashboards
  BY DashboardCallsType
<1>4. \A h \in Helms, scope \in Scopes, to \in Namespaces :
        /\ ActivatedHelm(h, scope) \in Helms /\ DeactivatedHelm(h) \in Helms
        /\ RenamedHelm(h, namespace, to) \in Helms
  BY HelmCallsType
<1>5. \A c \in CustomResourceScreens, scope \in Scopes, to \in Namespaces :
        /\ ActivatedCustomResources(c, scope) \in CustomResourceScreens
        /\ DeactivatedCustomResources(c) \in CustomResourceScreens
        /\ RenamedCustomResources(c, namespace, to) \in CustomResourceScreens
  BY CustomResourceCallsType
<1>6. \A type \in Types : \A b \in Given(type) : b \in Browsers
  BY GivenType
<1>7. ASSUME NEW b \in Browsers, Navigates(b) PROVE Screened
  <2>1. browser' \in Browsers
    BY <1>0, <1>2, <1>7 DEF Navigates
  <2>2. dashboard' \in Dashboards
    BY <1>0, <1>3, <1>7 DEF Navigates
  <2>3. helm' \in Helms
    BY <1>0, <1>4, <1>7, FrameConstants DEF Navigates
  <2>4. crds' \in CustomResourceScreens
    BY <1>0, <1>5, <1>7, FrameConstants DEF Navigates
  <2> QED BY <2>1, <2>2, <2>3, <2>4
<1>8. ASSUME NEW to \in Namespaces, Renames(to) PROVE Screened
  <2> DEFINE scope == [context |-> connection, namespace |-> to]
  <2>0. scope \in Scopes
    BY DEF TypeOK, FrameTypes, Scopes
  <2> HIDE DEF scope
  <2>1. browser' \in Browsers
    <3>1. (IF screen = "browser" THEN DeactivatedBrowser(browser) ELSE browser) \in Browsers
      BY <1>0, <1>2
    <3> QED BY <3>1, <2>0, <1>2, <1>8 DEF Renames, scope
  <2>2. dashboard' \in Dashboards
    <3>1. (IF screen = "dashboard" THEN DeactivatedDashboard(dashboard) ELSE dashboard) \in Dashboards
      BY <1>0, <1>3
    <3> QED BY <3>1, <2>0, <1>3, <1>8 DEF Renames, scope
  <2>3. helm' \in Helms
    <3>1. (IF screen = "helm" THEN DeactivatedHelm(helm) ELSE helm) \in Helms
      BY <1>0, <1>4
    <3> QED BY <3>1, <2>0, <1>4, <1>8 DEF Renames, scope
  <2>4. crds' \in CustomResourceScreens
    <3>1. (IF screen = "crds" THEN DeactivatedCustomResources(crds) ELSE crds) \in CustomResourceScreens
      BY <1>0, <1>5
    <3> QED BY <3>1, <2>0, <1>5, <1>8 DEF Renames, scope
  <2> QED BY <2>1, <2>2, <2>3, <2>4
<1>9. ASSUME SelectContext PROVE Screened
  BY <1>0, <1>2, <1>3, <1>4, <1>5, <1>9, SelectStops, FrameConstants
<1>10. ASSUME ContextSwitchFailed PROVE Screened
  BY <1>0, <1>2, <1>3, <1>4, <1>5, <1>10, FailureStarts, FrameConstants
<1>11. ASSUME NEW context \in Contexts, Connect(context) PROVE Screened
  BY <1>11, ConnectType
<1>12. ASSUME NEW type \in Types, UNCHANGED <<frameVars, dashboard, helm, crds>>,
              browser' \in ActivatedBrowsers(RetypedBrowser(browser, type), Scope) \cup Given(type)
       PROVE  Screened
  BY <1>0, <1>2, <1>6, <1>12
<1>13. ASSUME UNCHANGED <<frameVars, screenVars>> PROVE Screened
  BY <1>0, <1>13 DEF screenVars
<1>14. Screened
  BY <1>0, <1>6, <1>7, <1>8, <1>9, <1>10, <1>11, <1>12, <1>13, RootStepsAre
<1> QED BY <1>1, <1>14 DEF TypeOK

\* The steps of the browser keep its type.
LEMMA BrowserStepsType == TypeOK /\ BrowserSteps => browser' \in Browsers
<1> SUFFICES ASSUME TypeOK, BrowserSteps PROVE browser' \in Browsers
  OBVIOUS
<1>0. browser \in Browsers /\ Scope \in Scopes
  BY ScopeIsScope DEF TypeOK
<1>1. \A b \in Browsers : \A scope \in Scopes :
        /\ Loads(b, scope) \subseteq Browsers /\ FailedLists(b) \subseteq Browsers /\ Redrawn(b) \in Browsers
        /\ \A type \in Types : RetypedBrowser(b, type) \in Browsers /\ Listed(b, type, scope) \in Browsers
  BY LoadsType, FailedType, RedrawnType, BrowserCallsType
<1>2. ASSUME NEW type \in LiveTypes, BrowserSnapshot(type) PROVE browser' \in Browsers
  <2>1. browser.live[type] \in Scopes /\ type \in Types
    BY <1>0, <1>2 DEF BrowserSnapshot, Browsers, Rows, Types
  <2>2. [browser EXCEPT !.live[type] = Nothing] \in Browsers /\ [browser EXCEPT !.failed = "no"] \in Browsers
    BY <1>0 DEF Browsers, Rows
  <2> QED BY <1>0, <1>1, <1>2, <2>1, <2>2 DEF BrowserSnapshot
<1>3. ASSUME NEW type \in LiveTypes, BrowserSetCloses(type) PROVE browser' \in Browsers
  <2>1. [browser EXCEPT !.live[type] = Nothing] \in Browsers
    BY <1>0 DEF Browsers, Rows
  <2> QED BY <1>0, <1>1, <1>3, <2>1 DEF BrowserSetCloses
<1>4. [browser EXCEPT !.fetch = Nothing] \in Browsers
  BY <1>0 DEF Browsers, Requests
<1>5. CASE FetchAnswered
  <2>1. browser.fetch.reads \subseteq Contexts /\ browser.type \in Types
    BY <1>0, <1>5 DEF FetchAnswered, AcceptsFetch, Current, InFlight, Browsers, Requests, Sent
  <2>2. \A context \in browser.fetch.reads : [context |-> context, namespace |-> namespace] \in Scopes
    BY <2>1 DEF Scopes, TypeOK, FrameTypes
  <2> QED BY <1>0, <1>1, <1>4, <1>5, <2>1, <2>2 DEF FetchAnswered
<1>6. CASE FetchDropped
  BY <1>4, <1>6 DEF FetchDropped
<1>7. CASE RefreshBrowser \/ RedrawBrowser
  BY <1>0, <1>1, <1>7 DEF RefreshBrowser, RedrawBrowser
<1>8. CASE OperationEnds
  <2>1. [browser EXCEPT !.operation = "none"] \in Browsers
    BY <1>0 DEF Browsers
  <2>2. \A b \in Browsers : [b EXCEPT !.loading = FALSE] \in Browsers
    BY DEF Browsers
  <2> QED BY <1>0, <1>1, <1>8, <2>1, <2>2 DEF OperationEnds
<1>9. ASSUME NEW type \in Types, ChangeType(type) PROVE browser' \in Browsers
  BY <1>0, <1>1, <1>9 DEF ChangeType
<1>10. ASSUME NEW kind \in {"read", "change"}, Operate(kind) PROVE browser' \in Browsers
  BY <1>0, <1>10 DEF Operate, Browsers
<1> QED BY <1>2, <1>3, <1>5, <1>6, <1>7, <1>8, <1>9, <1>10 DEF BrowserSteps

\* The steps of the dashboard keep its type.
LEMMA DashboardStepsType == TypeOK /\ DashboardSteps => dashboard' \in Dashboards
<1> SUFFICES ASSUME TypeOK, DashboardSteps PROVE dashboard' \in Dashboards
  OBVIOUS
<1>0. dashboard \in Dashboards /\ Scope \in Scopes /\ namespace \in Namespaces
  BY ScopeIsScope DEF TypeOK, FrameTypes
<1>1. \A d \in Dashboards, loading \in BOOLEAN, failed \in SUBSET Feeds :
        [d EXCEPT !.failed = failed, !.loading = loading] \in Dashboards
  BY DEF Dashboards
<1>2. \A d \in Dashboards : AskedForHealth(d, Scope) \in Dashboards
  BY <1>0, DashboardCallsType
<1>3. ASSUME NEW feed \in Feeds, DashboardSnapshot(feed) PROVE dashboard' \in Dashboards
  <2> DEFINE waits == dashboard.loading /\ feed # Pods
  <2>1. waits \in BOOLEAN /\ dashboard.failed \in SUBSET Feeds /\ dashboard.live[feed] \in Scopes
    BY <1>0, <1>3 DEF Dashboards, DashboardSnapshot
  <2> HIDE DEF waits
  <2>2. [dashboard EXCEPT !.failed = @ \cup {feed}, !.loading = waits] \in Dashboards
    BY <1>0, <2>1 DEF Dashboards
  <2>3. [dashboard EXCEPT !.failed = @ \ {feed}] \in Dashboards
    BY <1>0, <2>1 DEF Dashboards
  <2>4. [[dashboard EXCEPT !.failed = @ \ {feed}] EXCEPT !.rows[feed] = dashboard.live[feed],
                                                         !.loading = waits] \in Dashboards
    BY <2>1, <2>3 DEF Dashboards
  <2>5. [dashboard EXCEPT !.failed = @ \ {feed}].loading = dashboard.loading
    BY <1>0 DEF Dashboards
  <2> QED BY <1>3, <2>2, <2>3, <2>4, <2>5 DEF DashboardSnapshot, waits
<1>4. ASSUME NEW feed \in Feeds, DashboardSetCloses(feed) PROVE dashboard' \in Dashboards
  <2>1. (dashboard.loading /\ feed # Pods) \in BOOLEAN /\ dashboard.failed \cup {feed} \in SUBSET Feeds
    BY <1>0 DEF Dashboards
  <2>2. \A failed \in SUBSET Feeds, loading \in BOOLEAN :
          [dashboard EXCEPT !.live[feed] = Nothing, !.failed = failed, !.loading = loading] \in Dashboards
    BY <1>0 DEF Dashboards
  <2> QED BY <1>4, <2>1, <2>2 DEF DashboardSetCloses
<1>5. CASE MetricsTick
  <2>1. Asked(Nothing, Scope) \in Requests({Nothing})
    BY <1>0, AskedIsSent DEF Requests
  <2>2. dashboard.ticks > 0 => dashboard.ticks - 1 \in Nat
    BY <1>0 DEF Dashboards
  <2>3. \A n \in Nat : [dashboard EXCEPT !.tickPending = FALSE, !.ticks = n] \in Dashboards
    BY <1>0 DEF Dashboards
  <2>4. [dashboard EXCEPT !.tickPending = TRUE, !.fetch = Asked(Nothing, Scope)] \in Dashboards
    BY <1>0, <2>1 DEF Dashboards
  <2> QED BY <1>5, <2>2, <2>3, <2>4 DEF MetricsTick
<1>6. CASE MetricsAnswered
  <2>1. dashboard.fetch.reads \subseteq Contexts
    BY <1>0, <1>6 DEF MetricsAnswered, Current, InFlight, Dashboards, Requests, Sent
  <2>2. [context : dashboard.fetch.reads, namespace : {namespace}] \subseteq Scopes
    BY <1>0, <2>1 DEF Scopes
  <2>3. \A metrics \in {Nothing} \cup Scopes :
          [dashboard EXCEPT !.fetch = Nothing, !.metrics = metrics] \in Dashboards
    BY <1>0 DEF Dashboards, Requests
  <2> QED BY <1>2, <1>6, <2>2, <2>3 DEF MetricsAnswered
<1>7. CASE MetricsDropped
  BY <1>0, <1>7 DEF MetricsDropped, Dashboards, Requests
<1>8. CASE HealthAnswered
  <2>1. dashboard.health.about \in SUBSET Scopes
    BY <1>0, <1>8 DEF HealthAnswered, Current, InFlight, Dashboards, Requests, Sent
  <2>2. \A summary \in {Nothing} \cup SUBSET Scopes :
          [dashboard EXCEPT !.health = Nothing, !.healthLoading = FALSE, !.summary = summary] \in Dashboards
    BY <1>0 DEF Dashboards, Requests
  <2> QED BY <1>8, <2>1, <2>2 DEF HealthAnswered
<1>9. CASE HealthDropped
  BY <1>0, <1>9 DEF HealthDropped, Dashboards, Requests
<1>10. CASE ToggleHealth
  <2>1. \A shown \in BOOLEAN : [dashboard EXCEPT !.showHealth = shown] \in Dashboards
    BY <1>0 DEF Dashboards
  <2>2. (~dashboard.showHealth) \in BOOLEAN
    OBVIOUS
  <2> QED BY <1>2, <1>10, <2>1, <2>2 DEF ToggleHealth
<1>11. CASE HideHealth
  BY <1>0, <1>11 DEF HideHealth, Dashboards
<1>12. CASE RefreshDashboard
  BY <1>0, <1>12, RefreshedType DEF RefreshDashboard
<1> QED BY <1>3, <1>4, <1>5, <1>6, <1>7, <1>8, <1>9, <1>10, <1>11, <1>12 DEF DashboardSteps

\* The steps of the helm screen keep its type.
LEMMA HelmStepsType == TypeOK /\ HelmSteps => helm' \in Helms
<1> SUFFICES ASSUME TypeOK, HelmSteps PROVE helm' \in Helms
  OBVIOUS
<1>0. helm \in Helms /\ Scope \in Scopes /\ namespace \in Namespaces
  BY ScopeIsScope DEF TypeOK, FrameTypes
<1>1. Asked(Nothing, Scope) \in Requests({Nothing})
      /\ \A release \in Releases : Asked(release, Scope) \in Requests(Releases)
  BY <1>0, AskedIsSent DEF Requests
<1>2. CASE ReleasesAnswered
  <2>1. helm.request.reads \subseteq Contexts
    BY <1>0, <1>2 DEF ReleasesAnswered, Current, InFlight, Helms, Requests, Sent
  <2>2. \A context \in helm.request.reads : [context |-> context, namespace |-> namespace] \in Scopes
    BY <1>0, <2>1 DEF Scopes
  <2>3. [helm EXCEPT !.request = Nothing, !.loading = FALSE] \in Helms
    BY <1>0 DEF Helms, Requests
  <2>4. \A h \in Helms, failed \in BOOLEAN, releases \in {Nothing} \cup Scopes :
          [h EXCEPT !.failed = failed, !.releases = releases] \in Helms
    BY DEF Helms
  <2> QED BY <1>2, <2>2, <2>3, <2>4 DEF ReleasesAnswered
<1>3. CASE ReleasesDropped \/ ValuesDropped
  BY <1>0, <1>3 DEF ReleasesDropped, ValuesDropped, Helms, Requests
<1>4. ASSUME NEW release \in Releases, OpenValues(release) PROVE helm' \in Helms
  BY <1>0, <1>1, <1>4 DEF OpenValues, Helms
<1>5. CASE CloseValues
  BY <1>0, <1>5 DEF CloseValues, Helms
<1>6. CASE ValuesAnswered
  <2>1. helm.valuesRequest.reads \subseteq Contexts /\ helm.valuesRequest.about \in Releases
    BY <1>0, <1>6 DEF ValuesAnswered, AcceptsValues, InFlight, Helms, Requests, Sent
  <2>2. [release : {helm.valuesRequest.about}, context : helm.valuesRequest.reads] \subseteq Values
    BY <2>1 DEF Values
  <2>3. \A values \in {Nothing} \cup Values :
          [helm EXCEPT !.valuesRequest = Nothing, !.valuesLoading = FALSE, !.values = values] \in Helms
    BY <1>0 DEF Helms, Requests
  <2> QED BY <1>6, <2>2, <2>3 DEF ValuesAnswered
<1>7. CASE RefreshHelm
  BY <1>0, <1>1, <1>7 DEF RefreshHelm, Helms
<1> QED BY <1>2, <1>3, <1>4, <1>5, <1>6, <1>7 DEF HelmSteps

\* The steps of the custom resources keep their type.
LEMMA CustomResourceStepsType == TypeOK /\ CustomResourceSteps => crds' \in CustomResourceScreens
<1> SUFFICES ASSUME TypeOK, CustomResourceSteps PROVE crds' \in CustomResourceScreens
  OBVIOUS
<1>0. crds \in CustomResourceScreens /\ Scope \in Scopes /\ namespace \in Namespaces
  BY ScopeIsScope DEF TypeOK, FrameTypes
<1>1. CASE ListAnswered
  <2>1. {Nothing} \cup crds.listRequest.reads \subseteq {Nothing} \cup Contexts
    BY <1>0, <1>1 DEF ListAnswered, AcceptsList, Current, InFlight, CustomResourceScreens, Requests, Sent
  <2>2. \A list \in {Nothing} \cup Contexts :
          [crds EXCEPT !.listRequest = Nothing, !.loading = FALSE, !.failed = list = Nothing,
                       !.list = list] \in CustomResourceScreens
    BY <1>0 DEF CustomResourceScreens, Requests
  <2> QED BY <1>1, <2>1, <2>2 DEF ListAnswered
<1>2. CASE ListDropped \/ InstancesDropped
  BY <1>0, <1>2 DEF ListDropped, InstancesDropped, CustomResourceScreens, Requests
<1>3. CASE InstancesAnswered
  <2>1. crds.instanceRequest.reads \subseteq Contexts
    BY <1>0, <1>3
    DEF InstancesAnswered, AcceptsInstances, Current, InFlight, CustomResourceScreens, Requests, Sent
  <2>2. [context : crds.instanceRequest.reads, namespace : {namespace}] \subseteq Scopes
    BY <1>0, <2>1 DEF Scopes
  <2>3. \A instances \in {Nothing} \cup Scopes :
          [crds EXCEPT !.instanceRequest = Nothing, !.loading = FALSE, !.failed = instances = Nothing,
                       !.instances = instances] \in CustomResourceScreens
    BY <1>0 DEF CustomResourceScreens, Requests
  <2>4. PICK instances \in {Nothing} \cup [context : crds.instanceRequest.reads, namespace : {namespace}] :
          crds' = [crds EXCEPT !.instanceRequest = Nothing, !.loading = FALSE, !.failed = instances = Nothing,
                               !.instances = instances]
    BY <1>3 DEF InstancesAnswered
  <2>5. instances \in {Nothing} \cup Scopes
    BY <2>2
  <2> QED BY <2>3, <2>4, <2>5
<1>4. CASE OpenDefinition
  <2>1. Asked(Nothing, Scope) \in Requests({Nothing})
    BY <1>0, AskedIsSent DEF Requests
  <2> QED BY <1>0, <1>4, <2>1 DEF OpenDefinition, CustomResourceScreens
<1>5. CASE BackToList
  <2>1. Outdated(crds.instanceRequest) \in Requests({Nothing})
    BY <1>0, RequestsStay DEF CustomResourceScreens
  <2>2. (IF crds.loading THEN {"early"} ELSE {}) \cup (IF FormerList THEN {"former"} ELSE {})
            \in SUBSET {"early", "former"}
    OBVIOUS
  <2>3. \A left \in SUBSET {"early", "former"} :
          [crds EXCEPT !.view = "list", !.instances = Nothing, !.instanceRequest = Outdated(@),
                       !.left = left] \in CustomResourceScreens
    BY <1>0, <2>1 DEF CustomResourceScreens
  <2> QED BY <1>5, <2>2, <2>3 DEF BackToList
<1>6. CASE RefreshCustomResources
  BY <1>0, <1>6, CustomResourceCallsType, FrameConstants DEF RefreshCustomResources
<1> QED BY <1>1, <1>2, <1>3, <1>4, <1>5, <1>6 DEF CustomResourceSteps

\* A screen moves alone, under a root that stays as it is.
LEMMA ScreensMoveAlone ==
    /\ BrowserSteps => UNCHANGED frameVars
    /\ DashboardSteps => UNCHANGED frameVars
    /\ HelmSteps => UNCHANGED frameVars
    /\ CustomResourceSteps => UNCHANGED frameVars
<1>1. BrowserSteps => UNCHANGED frameVars
  BY DEF BrowserSteps, BrowserSnapshot, BrowserSetCloses, FetchAnswered, FetchDropped, RefreshBrowser,
         RedrawBrowser, OperationEnds, ChangeType, Operate
<1>2. DashboardSteps => UNCHANGED frameVars
  BY DEF DashboardSteps, DashboardSnapshot, DashboardSetCloses, MetricsTick, MetricsAnswered, MetricsDropped,
         HealthAnswered, HealthDropped, ToggleHealth, HideHealth, RefreshDashboard
<1>3. HelmSteps => UNCHANGED frameVars
  BY DEF HelmSteps, ReleasesAnswered, ReleasesDropped, OpenValues, CloseValues, ValuesAnswered, ValuesDropped,
         RefreshHelm
<1>4. CustomResourceSteps => UNCHANGED frameVars
  BY DEF CustomResourceSteps, ListAnswered, ListDropped, InstancesAnswered, InstancesDropped, OpenDefinition,
         BackToList, RefreshCustomResources
<1> QED BY <1>1, <1>2, <1>3, <1>4

\* Every variable of the root and of the screens keeps its type.
THEOREM TypeCorrect == Spec => []TypeOK
<1>1. Init => TypeOK
  <2> SUFFICES ASSUME Init PROVE TypeOK
    OBVIOUS
  <2>1. FrameTypes
    BY DEF Init, FrameInit, FrameTypes, Screens
  <2>2. browser \in Browsers
    <3>1. PICK type \in Types : browser = NewBrowser(type)
      BY DEF Init
    <3>2. [t \in Types |-> Nothing] \in [Types -> Rows] /\ [t \in LiveTypes |-> Nothing] \in [LiveTypes -> Rows]
      BY DEF Rows
    <3> QED BY <3>1, <3>2 DEF NewBrowser, Browsers, Requests
  <2>3. dashboard \in Dashboards
    BY DEF Init, NewDashboard, Dashboards, Requests
  <2>4. helm \in Helms
    BY DEF Init, NewHelm, Helms, Requests
  <2>5. crds \in CustomResourceScreens
    BY DEF Init, NewCustomResources, CustomResourceScreens, Requests
  <2> QED BY <2>1, <2>2, <2>3, <2>4, <2>5 DEF TypeOK
<1>2. TypeOK /\ [Next]_vars => TypeOK'
  <2> SUFFICES ASSUME TypeOK, [Next]_vars PROVE TypeOK'
    OBVIOUS
  <2>1. UNCHANGED frameVars => FrameTypes'
    BY DEF TypeOK, FrameTypes, frameVars
  <2>2. CASE RootSteps
    BY <2>2, RootKeepsTypes
  <2>3. CASE BrowserSteps /\ UNCHANGED <<dashboard, helm, crds>>
    BY <2>1, <2>3, BrowserStepsType, ScreensMoveAlone DEF TypeOK
  <2>4. CASE DashboardSteps /\ UNCHANGED <<browser, helm, crds>>
    BY <2>1, <2>4, DashboardStepsType, ScreensMoveAlone DEF TypeOK
  <2>5. CASE HelmSteps /\ UNCHANGED <<browser, dashboard, crds>>
    BY <2>1, <2>5, HelmStepsType, ScreensMoveAlone DEF TypeOK
  <2>6. CASE CustomResourceSteps /\ UNCHANGED <<browser, dashboard, helm>>
    BY <2>1, <2>6, CustomResourceStepsType, ScreensMoveAlone DEF TypeOK
  <2>7. CASE UNCHANGED vars
    BY <2>1, <2>7 DEF TypeOK, vars, screenVars
  <2> QED BY <2>2, <2>3, <2>4, <2>5, <2>6, <2>7 DEF Next
<1> QED BY <1>1, <1>2, PTL DEF Spec

-----------------------------------------------------------------------------
(* The dashboard                                                           *)

\* A request that was just sent is of its scope; one under an old number is of any.
LEMMA RequestsOfScope ==
    ASSUME NEW abouts, NEW scope \in Scopes, NEW sw
    PROVE  /\ Nothing \notin Sent(abouts) => \A about \in abouts :
                /\ OfScope(Asked(about, scope), sw, scope) /\ CurrentIn(Asked(about, scope), scope)
                /\ InFlight(Asked(about, scope))
           /\ \A request \in Requests(abouts) : OfScope(Outdated(request), sw, scope)
           /\ OfScope(Nothing, sw, scope)
<1>1. ASSUME Nothing \notin Sent(abouts), NEW about \in abouts
      PROVE  /\ OfScope(Asked(about, scope), sw, scope) /\ CurrentIn(Asked(about, scope), scope)
             /\ InFlight(Asked(about, scope))
  BY <1>1, AskedIsSent DEF OfScope, CurrentIn, InFlight
<1> QED BY <1>1, OutdatedIsIdle DEF OfScope, InFlight

\* What a refresh of the dashboard changes.
Refreshes(x, d, scope) ==
    /\ x \in Dashboards
    /\ x.inited = d.inited /\ x.active = d.active /\ x.tickPending = d.tickPending /\ x.ticks = d.ticks
    /\ x.rows = d.rows /\ x.metrics = d.metrics /\ x.summary = d.summary
    /\ x.health = d.health /\ x.healthLoading = d.healthLoading
    /\ x.fetch = Asked(Nothing, scope)
    /\ d.active => /\ \A feed \in Feeds : x.live[feed] \in {Nothing, scope}
                   /\ x.loading => x.live[Pods] = scope
    /\ ~d.active => x.live = d.live

\* A refresh asks again, and opens live sets only on a dashboard that is active.
LEMMA RefreshChanges ==
    ASSUME NEW d \in Dashboards, NEW scope \in Scopes, NEW x \in RefreshedDashboards(d, scope)
    PROVE  Refreshes(x, d, scope)
<1> DEFINE asked == [d EXCEPT !.loading = TRUE, !.fetch = Asked(Nothing, scope)]
<1>1. /\ asked.inited = d.inited /\ asked.active = d.active /\ asked.tickPending = d.tickPending
      /\ asked.ticks = d.ticks /\ asked.rows = d.rows /\ asked.metrics = d.metrics
      /\ asked.summary = d.summary /\ asked.health = d.health /\ asked.healthLoading = d.healthLoading
      /\ asked.fetch = Asked(Nothing, scope) /\ asked.live = d.live
  BY DEF Dashboards
<1>2. asked \in Dashboards
  BY AskedIsSent DEF Dashboards, Requests
<1> HIDE DEF asked
<1>3. ASSUME NEW refused \in SUBSET Feeds,
             x = [asked EXCEPT !.live = [f \in Feeds |-> IF f \in refused THEN Nothing ELSE scope],
                               !.failed = refused, !.loading = @ /\ Pods \notin refused]
      PROVE  /\ x.inited = asked.inited /\ x.active = asked.active /\ x.tickPending = asked.tickPending
             /\ x.ticks = asked.ticks /\ x.rows = asked.rows /\ x.metrics = asked.metrics
             /\ x.summary = asked.summary /\ x.health = asked.health /\ x.healthLoading = asked.healthLoading
             /\ x.fetch = asked.fetch
             /\ \A feed \in Feeds : x.live[feed] \in {Nothing, scope}
             /\ x.loading => x.live[Pods] = scope
  <2>1. /\ x.inited = asked.inited /\ x.active = asked.active /\ x.tickPending = asked.tickPending
        /\ x.ticks = asked.ticks /\ x.rows = asked.rows /\ x.metrics = asked.metrics
        /\ x.summary = asked.summary /\ x.health = asked.health /\ x.healthLoading = asked.healthLoading
        /\ x.fetch = asked.fetch
    BY <1>2, <1>3 DEF Dashboards
  <2>2. /\ x.live = [f \in Feeds |-> IF f \in refused THEN Nothing ELSE scope]
        /\ x.loading => Pods \notin refused
    BY <1>2, <1>3 DEF Dashboards
  <2> QED BY <2>1, <2>2, PodsAreFed
<1>4. x \in Dashboards
  BY RefreshedType
<1>5. CASE d.active
  <2>1. x \in StartedLiveSets(asked, scope)
    BY <1>5 DEF RefreshedDashboards, asked
  <2> QED BY <2>1, <1>1, <1>3, <1>4, <1>5 DEF StartedLiveSets, Refreshes
<1>6. CASE ~d.active
  <2>1. x = asked
    BY <1>6 DEF RefreshedDashboards, asked
  <2> QED BY <2>1, <1>1, <1>4, <1>6 DEF Refreshes
<1> QED BY <1>5, <1>6

\* A dashboard that is activated has its timer, watches what it could, and asks for the metrics.
LEMMA ActivatedDashboardHolds ==
    ASSUME NEW d \in Dashboards, NEW scope \in Scopes, NEW sw, Timed(d), DashboardKeeps(d, sw, scope),
           NEW x \in ActivatedDashboards(d, scope)
    PROVE  DashboardInv(x, "dashboard", sw, scope)
<1> DEFINE ready == InitDashboard(d)
           ticked == [ready EXCEPT !.active = TRUE, !.tickPending = TRUE,
                                   !.ticks = IF ready.tickPending THEN @ ELSE @ + 1]
<1>1. d.ticks \in Nat /\ d.inited \in BOOLEAN /\ d.tickPending \in BOOLEAN /\ d.active \in BOOLEAN
  BY DEF Dashboards
<1>2. /\ ready \in Dashboards /\ ready.inited /\ ready.ticks = (IF d.inited THEN d.ticks ELSE d.ticks + 1)
      /\ ready.tickPending = d.tickPending
      /\ ready.rows = d.rows /\ ready.metrics = d.metrics /\ ready.summary = d.summary
      /\ ready.health = d.health /\ ready.healthLoading = d.healthLoading
  <2>1. CASE d.inited
    BY <1>1, <2>1 DEF InitDashboard
  <2>2. CASE ~d.inited
    <3>1. d.ticks + 1 \in Nat
      BY <1>1
    <3> QED BY <3>1, <2>2 DEF InitDashboard, Dashboards
  <2> QED BY <2>1, <2>2
<1>3. ready.ticks = IF ready.tickPending THEN 1 ELSE 0
  BY <1>1, <1>2 DEF Timed
<1> HIDE DEF ready
<1>4. (IF ready.tickPending THEN ready.ticks ELSE ready.ticks + 1) = 1
  BY <1>2, <1>3
<1>5. /\ ticked \in Dashboards /\ ticked.inited /\ ticked.active /\ ticked.tickPending /\ ticked.ticks = 1
      /\ ticked.rows = d.rows /\ ticked.metrics = d.metrics /\ ticked.summary = d.summary
      /\ ticked.health = d.health /\ ticked.healthLoading = d.healthLoading
  <2>1. ticked = [ready EXCEPT !.active = TRUE, !.tickPending = TRUE, !.ticks = 1]
    BY <1>4
  <2>2. 1 \in Nat
    OBVIOUS
  <2> HIDE DEF ticked
  <2> QED BY <1>2, <2>1, <2>2 DEF Dashboards
<1>6. x \in RefreshedDashboards(ticked, scope)
  BY DEF ActivatedDashboards, ready
<1> HIDE DEF ticked
<1>7. /\ x \in Dashboards /\ x.inited /\ x.active /\ x.tickPending /\ x.ticks = 1
      /\ x.rows = d.rows /\ x.metrics = d.metrics /\ x.summary = d.summary
      /\ x.health = d.health /\ x.healthLoading = d.healthLoading
      /\ x.fetch = Asked(Nothing, scope)
      /\ \A feed \in Feeds : x.live[feed] \in {Nothing, scope}
      /\ x.loading => x.live[Pods] = scope
  BY <1>5, <1>6, RefreshChanges DEF Refreshes
<1>8. Timed(x)
  BY <1>7 DEF Timed
<1>9. OfScope(x.fetch, sw, scope)
  BY <1>7, RequestsOfScope, FrameConstants
<1>10. DashboardKeeps(x, sw, scope)
  BY <1>7, <1>9 DEF DashboardKeeps
<1>11. DashboardWatches(x, "dashboard", sw, scope)
  BY <1>7 DEF DashboardWatches
<1> QED BY <1>8, <1>10, <1>11 DEF DashboardInv

\* One that is deactivated watches nothing, and is of any screen.
LEMMA DeactivatedDashboardHolds ==
    ASSUME NEW d \in Dashboards, NEW scope \in Scopes, NEW sw, Timed(d), DashboardKeeps(d, sw, scope),
           NEW s, s # "dashboard" \/ sw # "no"
    PROVE  DashboardInv(DeactivatedDashboard(d), s, sw, scope)
<1> DEFINE x == DeactivatedDashboard(d)
<1>1. /\ ~x.active /\ x.ticks = d.ticks /\ x.inited = d.inited /\ x.tickPending = d.tickPending
      /\ x.rows = d.rows /\ x.metrics = d.metrics /\ x.summary = d.summary
      /\ x.health = d.health /\ x.healthLoading = d.healthLoading /\ x.fetch = d.fetch
      /\ x.live = [f \in Feeds |-> Nothing]
  BY DEF DeactivatedDashboard, StopDashboardLiveSets, Dashboards
<1> HIDE DEF x
<1>2. Timed(x) /\ DashboardKeeps(x, sw, scope)
  BY <1>1 DEF Timed, DashboardKeeps
<1>3. DashboardWatches(x, s, sw, scope)
  BY <1>1 DEF DashboardWatches
<1> QED BY <1>2, <1>3 DEF DashboardInv, x

\* One that is told the namespace keeps nothing of the scope before.
LEMMA RenamedDashboardHolds ==
    ASSUME NEW d \in Dashboards, NEW scope \in Scopes, NEW sw, Timed(d), ~d.active,
           d.live = [f \in Feeds |-> Nothing]
    PROVE  /\ Timed(RenamedDashboard(d)) /\ DashboardKeeps(RenamedDashboard(d), sw, scope)
           /\ \A s : s # "dashboard" \/ sw # "no" => DashboardWatches(RenamedDashboard(d), s, sw, scope)
<1> DEFINE x == RenamedDashboard(d)
<1>1. /\ x.active = d.active /\ x.ticks = d.ticks /\ x.inited = d.inited /\ x.tickPending = d.tickPending
      /\ x.rows = [f \in Feeds |-> Nothing] /\ x.metrics = Nothing /\ x.summary = Nothing
      /\ x.health = Outdated(d.health) /\ ~x.healthLoading /\ x.fetch = Outdated(d.fetch)
      /\ x.live = d.live
  BY DEF RenamedDashboard, Dashboards
<1>2. /\ OfScope(Outdated(d.fetch), sw, scope) /\ OfScope(Outdated(d.health), sw, scope)
      /\ ~InFlight(Outdated(d.health))
  BY RequestsOfScope, OutdatedIsIdle DEF Dashboards
<1> HIDE DEF x
<1>3. Timed(x)
  BY <1>1 DEF Timed
<1>4. DashboardKeeps(x, sw, scope)
  BY <1>1, <1>2 DEF DashboardKeeps
<1>5. ASSUME NEW s, s # "dashboard" \/ sw # "no" PROVE DashboardWatches(x, s, sw, scope)
  BY <1>1, <1>5 DEF DashboardWatches
<1> QED BY <1>3, <1>4, <1>5 DEF x

\* How far the switch of the context is tells less of a dashboard the further it is.
LEMMA DashboardKeepsOn ==
    ASSUME NEW d, NEW scope, NEW sw, NEW later, DashboardKeeps(d, sw, scope),
           sw = "connected" => later = "connected"
    PROVE  DashboardKeeps(d, later, scope)
BY DEF DashboardKeeps, OfScope

\* A dashboard that asks for a summary asks about the rows it has.
LEMMA AskedForHealthHolds ==
    ASSUME NEW d \in Dashboards, NEW s, NEW sw, NEW scope \in Scopes, DashboardInv(d, s, sw, scope)
    PROVE  DashboardInv(AskedForHealth(d, scope), s, sw, scope)
<1> DEFINE abouts == {d.rows[f] : f \in Feeds} \ {Nothing}
           x == AskedForHealth(d, scope)
<1>1. abouts \in SUBSET Scopes /\ ((\A feed \in Feeds : d.rows[feed] \in {Nothing, scope}) => abouts \subseteq {scope})
  BY DEF Dashboards
<1> HIDE DEF abouts
<1>2. /\ x.health = Asked(abouts, scope)
      /\ x.active = d.active /\ x.loading = d.loading /\ x.ticks = d.ticks /\ x.inited = d.inited
      /\ x.tickPending = d.tickPending /\ x.rows = d.rows /\ x.metrics = d.metrics
      /\ x.summary = d.summary /\ x.fetch = d.fetch /\ x.live = d.live
  BY DEF AskedForHealth, Dashboards, abouts
<1> HIDE DEF x
<1>3. /\ OfScope(Asked(abouts, scope), sw, scope) /\ CurrentIn(Asked(abouts, scope), scope)
      /\ Asked(abouts, scope).about = abouts
  BY <1>1, RequestsOfScope, AskedIsSent, PodsAreFed
<1>4. Timed(x)
  BY <1>2 DEF Timed, DashboardInv
<1>5. DashboardKeeps(x, sw, scope)
  BY <1>1, <1>2, <1>3 DEF DashboardKeeps, DashboardInv
<1>6. DashboardWatches(x, s, sw, scope)
  BY <1>2 DEF DashboardWatches, DashboardInv
<1> QED BY <1>4, <1>5, <1>6 DEF DashboardInv, x

\* The steps of the dashboard.
LEMMA DashboardStepsHold ==
    TypeOK /\ DashboardHolds /\ DashboardSteps =>
        DashboardInv(dashboard', screen, switching, Scope)
<1> DEFINE d == dashboard
           x == dashboard'
           Holds == DashboardInv(x, screen, switching, Scope)
<1> SUFFICES ASSUME TypeOK, DashboardHolds, DashboardSteps PROVE Holds
  OBVIOUS
<1>0. d \in Dashboards /\ Scope \in Scopes /\ Scope.namespace = namespace
  BY ScopeIsScope DEF TypeOK, Scope
<1>1. Timed(d) /\ DashboardKeeps(d, switching, Scope) /\ DashboardWatches(d, screen, switching, Scope)
  BY DEF DashboardHolds, DashboardInv
<1>2. ASSUME x.inited = d.inited, x.ticks = d.ticks, x.active = d.active, x.tickPending = d.tickPending
      PROVE  Timed(x)
  BY <1>1, <1>2 DEF Timed
<1>3. ASSUME NEW feed \in Feeds, DashboardSnapshot(feed) PROVE Holds
  <2>1. d.live[feed] # Nothing /\ d.live \in [Feeds -> {Nothing} \cup Scopes]
    BY <1>0, <1>3 DEF DashboardSnapshot, Dashboards
  <2>2. /\ x.inited = d.inited /\ x.ticks = d.ticks /\ x.active = d.active /\ x.tickPending = d.tickPending
        /\ x.live = d.live /\ x.metrics = d.metrics /\ x.summary = d.summary /\ x.fetch = d.fetch
        /\ x.health = d.health /\ x.healthLoading = d.healthLoading /\ (x.loading => d.loading)
        /\ \A f \in Feeds : x.rows[f] \in {d.rows[f], d.live[feed]}
    <3> DEFINE waits == d.loading /\ feed # Pods
               cleared == [d EXCEPT !.failed = @ \ {feed}]
    <3>1. x \in {[d EXCEPT !.failed = @ \cup {feed}, !.loading = waits], cleared,
                 [cleared EXCEPT !.rows[feed] = d.live[feed], !.loading = cleared.loading /\ feed # Pods]}
      BY <1>3 DEF DashboardSnapshot
    <3>2. /\ cleared.inited = d.inited /\ cleared.ticks = d.ticks /\ cleared.active = d.active
          /\ cleared.tickPending = d.tickPending /\ cleared.live = d.live /\ cleared.metrics = d.metrics
          /\ cleared.summary = d.summary /\ cleared.fetch = d.fetch /\ cleared.health = d.health
          /\ cleared.healthLoading = d.healthLoading /\ (cleared.loading <=> d.loading)
          /\ cleared.rows = d.rows /\ cleared \in Dashboards
      BY <1>0 DEF Dashboards
    <3> HIDE DEF waits, cleared
    <3>3. CASE x = [d EXCEPT !.failed = @ \cup {feed}, !.loading = waits]
      BY <1>0, <3>3 DEF Dashboards, waits
    <3>4. CASE x = cleared
      BY <3>2, <3>4
    <3>5. CASE x = [cleared EXCEPT !.rows[feed] = d.live[feed], !.loading = cleared.loading /\ feed # Pods]
      <4>1. /\ x.inited = cleared.inited /\ x.ticks = cleared.ticks /\ x.active = cleared.active
            /\ x.tickPending = cleared.tickPending /\ x.live = cleared.live /\ x.metrics = cleared.metrics
            /\ x.summary = cleared.summary /\ x.fetch = cleared.fetch /\ x.health = cleared.health
            /\ x.healthLoading = cleared.healthLoading /\ (x.loading => cleared.loading)
            /\ x.rows = [cleared.rows EXCEPT ![feed] = d.live[feed]]
        BY <3>2, <3>5 DEF Dashboards
      <4>2. cleared.rows \in [Feeds -> {Nothing} \cup Scopes]
        BY <3>2 DEF Dashboards
      <4> QED BY <3>2, <4>1, <4>2
    <3> QED BY <3>1, <3>3, <3>4, <3>5
  <2>3. switching # "connected" => d.live[feed] = Scope
    BY <1>1, <2>1 DEF DashboardWatches
  <2>4. DashboardKeeps(x, switching, Scope)
    BY <1>1, <2>2, <2>3 DEF DashboardKeeps
  <2>5. DashboardWatches(x, screen, switching, Scope)
    BY <1>1, <2>2 DEF DashboardWatches
  <2> QED BY <1>2, <2>2, <2>4, <2>5 DEF DashboardInv
<1>4. ASSUME NEW feed \in Feeds, DashboardSetCloses(feed) PROVE Holds
  <2>1. /\ x.inited = d.inited /\ x.ticks = d.ticks /\ x.active = d.active /\ x.tickPending = d.tickPending
        /\ x.live = [d.live EXCEPT ![feed] = Nothing] /\ x.metrics = d.metrics /\ x.summary = d.summary
        /\ x.fetch = d.fetch /\ x.rows = d.rows
        /\ x.health = d.health /\ x.healthLoading = d.healthLoading
        /\ x.loading => d.loading /\ feed # Pods
    BY <1>0, <1>4 DEF DashboardSetCloses, Dashboards
  <2>2. d.live \in [Feeds -> {Nothing} \cup Scopes]
    BY <1>0 DEF Dashboards
  <2>3. DashboardKeeps(x, switching, Scope)
    BY <1>1, <2>1 DEF DashboardKeeps
  <2>4. DashboardWatches(x, screen, switching, Scope)
    BY <1>1, <2>1, <2>2, PodsAreFed DEF DashboardWatches
  <2> QED BY <1>2, <2>1, <2>3, <2>4 DEF DashboardInv
<1>5. ASSUME x.live = d.live, x.active = d.active, x.loading = d.loading
      PROVE  DashboardWatches(x, screen, switching, Scope)
  BY <1>1, <1>5 DEF DashboardWatches
<1>6. CASE MetricsTick
  <2>1. d.ticks = 1 /\ d.inited
    BY <1>0, <1>1, <1>6 DEF MetricsTick, Timed, Dashboards
  <2>2. /\ x.inited = d.inited /\ x.active = d.active /\ x.live = d.live /\ x.loading = d.loading
        /\ x.metrics = d.metrics /\ x.summary = d.summary /\ x.rows = d.rows
        /\ x.health = d.health /\ x.healthLoading = d.healthLoading
        /\ d.active => x.tickPending /\ x.ticks = d.ticks /\ x.fetch = Asked(Nothing, Scope)
        /\ ~d.active => ~x.tickPending /\ x.ticks = d.ticks - 1 /\ x.fetch = d.fetch
    BY <1>0, <1>6 DEF MetricsTick, Dashboards
  <2>3. Timed(x)
    BY <2>1, <2>2 DEF Timed
  <2>4. OfScope(x.fetch, switching, Scope)
    BY <1>0, <1>1, <2>2, RequestsOfScope, FrameConstants DEF DashboardKeeps
  <2>5. DashboardKeeps(x, switching, Scope)
    BY <1>1, <2>2, <2>4 DEF DashboardKeeps
  <2> QED BY <1>5, <2>2, <2>3, <2>5 DEF DashboardInv
<1>7. CASE MetricsAnswered
  <2>1. PICK metrics \in {Nothing} \cup [context : d.fetch.reads, namespace : {namespace}] :
            LET known == [d EXCEPT !.fetch = Nothing, !.metrics = metrics]
            IN  x = IF known.showHealth /\ ~known.healthLoading THEN AskedForHealth(known, Scope) ELSE known
    BY <1>7 DEF MetricsAnswered
  <2> DEFINE known == [d EXCEPT !.fetch = Nothing, !.metrics = metrics]
  <2>2. InFlight(d.fetch) /\ d.fetch.reads \subseteq Contexts
    BY <1>0, <1>7 DEF MetricsAnswered, Current, InFlight, Dashboards, Requests, Sent
  <2>3. metrics \in {Nothing} \cup Scopes
    <3>1. namespace \in Namespaces
      BY DEF TypeOK, FrameTypes
    <3> QED BY <2>2, <3>1 DEF Scopes
  <2>4. switching # "connected" => metrics \in {Nothing, Scope}
    BY <1>0, <1>1, <2>2 DEF DashboardKeeps, OfScope, Scope
  <2>5. /\ known \in Dashboards
        /\ known.inited = d.inited /\ known.active = d.active /\ known.live = d.live
        /\ known.loading = d.loading /\ known.metrics = metrics /\ known.summary = d.summary
        /\ known.rows = d.rows /\ known.health = d.health /\ known.healthLoading = d.healthLoading
        /\ known.tickPending = d.tickPending /\ known.ticks = d.ticks /\ known.fetch = Nothing
    BY <1>0, <2>3 DEF Dashboards, Requests
  <2>6. x = known \/ x = AskedForHealth(known, Scope)
    BY <2>1
  <2> HIDE DEF known
  <2>7. OfScope(Nothing, switching, Scope)
    BY DEF OfScope, InFlight
  <2>8. DashboardKeeps(known, switching, Scope)
    BY <1>1, <2>4, <2>5, <2>7 DEF DashboardKeeps
  <2>9. DashboardInv(known, screen, switching, Scope)
    BY <1>1, <2>5, <2>8 DEF DashboardInv, Timed, DashboardWatches
  <2> QED BY <1>0, <2>5, <2>6, <2>9, AskedForHealthHolds
<1>8. CASE MetricsDropped
  <2>1. /\ x.inited = d.inited /\ x.active = d.active /\ x.live = d.live /\ x.loading = d.loading
        /\ x.metrics = d.metrics /\ x.summary = d.summary /\ x.rows = d.rows
        /\ x.health = d.health /\ x.healthLoading = d.healthLoading
        /\ x.tickPending = d.tickPending /\ x.ticks = d.ticks /\ x.fetch = Nothing
    BY <1>0, <1>8 DEF MetricsDropped, Dashboards
  <2>2. DashboardKeeps(x, switching, Scope)
    BY <1>1, <2>1 DEF DashboardKeeps, OfScope, InFlight
  <2> QED BY <1>2, <1>5, <2>1, <2>2 DEF DashboardInv
<1>9. CASE HealthAnswered
  <2>1. InFlight(d.health)
    BY <1>9 DEF HealthAnswered, Current
  <2>2. /\ x.inited = d.inited /\ x.active = d.active /\ x.live = d.live /\ x.loading = d.loading
        /\ x.metrics = d.metrics /\ x.summary \in {Nothing, d.health.about} /\ x.rows = d.rows
        /\ x.health = Nothing /\ ~x.healthLoading
        /\ x.tickPending = d.tickPending /\ x.ticks = d.ticks /\ x.fetch = d.fetch
    BY <1>0, <1>9 DEF HealthAnswered, Dashboards
  <2>3. DashboardKeeps(x, switching, Scope)
    BY <1>1, <2>1, <2>2 DEF DashboardKeeps, OfScope, InFlight
  <2> QED BY <1>2, <1>5, <2>2, <2>3 DEF DashboardInv
<1>10. CASE HealthDropped
  <2>1. ~CurrentIn(d.health, Scope)
    BY <1>0, <1>10 DEF HealthDropped, Current, CurrentIn
  <2>2. /\ x.inited = d.inited /\ x.active = d.active /\ x.live = d.live /\ x.loading = d.loading
        /\ x.metrics = d.metrics /\ x.summary = d.summary /\ x.rows = d.rows
        /\ x.health = Nothing /\ x.healthLoading = d.healthLoading
        /\ x.tickPending = d.tickPending /\ x.ticks = d.ticks /\ x.fetch = d.fetch
    BY <1>0, <1>10 DEF HealthDropped, Dashboards
  <2>3. DashboardKeeps(x, switching, Scope)
    BY <1>1, <2>1, <2>2 DEF DashboardKeeps, OfScope, InFlight
  <2> QED BY <1>2, <1>5, <2>2, <2>3 DEF DashboardInv
<1>11. CASE ToggleHealth \/ HideHealth
  <2>1. PICK shown \in BOOLEAN :
          LET toggled == [d EXCEPT !.showHealth = shown]
          IN  x = toggled \/ x = AskedForHealth(toggled, Scope)
    <3>1. (~d.showHealth) \in BOOLEAN
      OBVIOUS
    <3> QED BY <1>11, <3>1 DEF ToggleHealth, HideHealth
  <2> DEFINE toggled == [d EXCEPT !.showHealth = shown]
  <2>2. /\ toggled \in Dashboards
        /\ toggled.inited = d.inited /\ toggled.active = d.active /\ toggled.live = d.live
        /\ toggled.loading = d.loading /\ toggled.metrics = d.metrics /\ toggled.summary = d.summary
        /\ toggled.rows = d.rows /\ toggled.health = d.health /\ toggled.healthLoading = d.healthLoading
        /\ toggled.tickPending = d.tickPending /\ toggled.ticks = d.ticks /\ toggled.fetch = d.fetch
    BY <1>0 DEF Dashboards
  <2> HIDE DEF toggled
  <2>3. DashboardInv(toggled, screen, switching, Scope)
    BY <1>1, <2>2 DEF DashboardInv, Timed, DashboardKeeps, DashboardWatches
  <2> QED BY <1>0, <2>1, <2>2, <2>3, AskedForHealthHolds DEF toggled
<1>12. CASE RefreshDashboard
  <2>1. x \in RefreshedDashboards(d, Scope) /\ screen = "dashboard" /\ switching = "no"
    BY <1>12 DEF RefreshDashboard, Heard
  <2>2. d.active
    BY <1>1, <2>1 DEF DashboardWatches
  <2>3. /\ x.inited = d.inited /\ x.active = d.active /\ x.tickPending = d.tickPending /\ x.ticks = d.ticks
        /\ x.rows = d.rows /\ x.metrics = d.metrics /\ x.summary = d.summary
        /\ x.health = d.health /\ x.healthLoading = d.healthLoading
        /\ x.fetch = Asked(Nothing, Scope)
        /\ \A feed \in Feeds : x.live[feed] \in {Nothing, Scope}
        /\ x.loading => x.live[Pods] = Scope
    <3>1. Refreshes(x, d, Scope)
      BY <1>0, <2>1, RefreshChanges
    <3> QED BY <2>2, <3>1 DEF Refreshes
  <2>4. OfScope(x.fetch, switching, Scope)
    BY <1>0, <2>3, RequestsOfScope, FrameConstants
  <2>5. DashboardKeeps(x, switching, Scope)
    BY <1>1, <2>3, <2>4 DEF DashboardKeeps
  <2>6. DashboardWatches(x, screen, switching, Scope)
    BY <2>1, <2>2, <2>3 DEF DashboardWatches
  <2> QED BY <1>2, <2>3, <2>5, <2>6 DEF DashboardInv
<1> QED BY <1>3, <1>4, <1>6, <1>7, <1>8, <1>9, <1>10, <1>11, <1>12 DEF DashboardSteps

\* What the root is given of its frame by a step that leaves the scope alone.
LEMMA ScopeStays == ASSUME UNCHANGED <<namespace, connection>> PROVE Scope' = Scope
BY DEF Scope

\* The steps of the root keep the dashboard as it must be.
LEMMA RootHoldsDashboard ==
    TypeOK /\ DashboardHolds /\ RootSteps => DashboardHolds'
<1> DEFINE d == dashboard
<1> SUFFICES ASSUME TypeOK, DashboardHolds, RootSteps
             PROVE  DashboardInv(dashboard', screen', switching', Scope')
  BY DEF DashboardHolds
<1>0. d \in Dashboards /\ Scope \in Scopes /\ Scope.namespace = namespace
  BY ScopeIsScope DEF TypeOK, Scope
<1>1. Timed(d) /\ DashboardKeeps(d, switching, Scope) /\ DashboardWatches(d, screen, switching, Scope)
  BY DEF DashboardHolds, DashboardInv
<1>2. ASSUME d' = d, Scope' = Scope, switching' = switching, screen' = screen
      PROVE  DashboardInv(dashboard', screen', switching', Scope')
  BY <1>1, <1>2 DEF DashboardInv
<1>3. ASSUME screen # "dashboard", NEW s, s # "dashboard", NEW sw
      PROVE  DashboardWatches(d, s, sw, Scope)
  BY <1>1, <1>3 DEF DashboardWatches
<1>4. ASSUME NEW b, Navigates(b) PROVE DashboardInv(dashboard', screen', switching', Scope')
  <2>1. Scope' = Scope /\ switching' = switching /\ screen' # screen
    BY <1>4, ScopeStays DEF Navigates
  <2>2. CASE screen' = "dashboard"
    BY <1>0, <1>1, <1>4, <2>1, <2>2, ActivatedDashboardHolds DEF Navigates
  <2>3. CASE screen = "dashboard"
    BY <1>0, <1>1, <1>4, <2>1, <2>3, DeactivatedDashboardHolds DEF Navigates
  <2>4. CASE screen # "dashboard" /\ screen' # "dashboard"
    BY <1>1, <1>3, <1>4, <2>1, <2>4 DEF Navigates, DashboardInv
  <2> QED BY <2>2, <2>3, <2>4
<1>5. ASSUME NEW to \in Namespaces, Renames(to) PROVE DashboardInv(dashboard', screen', switching', Scope')
  <2> DEFINE gone == IF screen = "dashboard" THEN DeactivatedDashboard(d) ELSE d
             scope == [context |-> connection, namespace |-> to]
  <2>1. scope \in Scopes /\ Scope' = scope /\ screen' = screen
    BY <1>5 DEF Renames, Scopes, Scope, TypeOK, FrameTypes
  <2>2. gone \in Dashboards /\ Timed(gone) /\ ~gone.active /\ gone.live = [f \in Feeds |-> Nothing]
    <3>1. CASE screen = "dashboard"
      <4>1. DeactivatedDashboard(d) \in Dashboards
        BY <1>0, DashboardCallsType
      <4>2. Timed(DeactivatedDashboard(d))
        BY <1>0, <1>1, DeactivatedDashboardHolds DEF DashboardInv, Elsewhere
      <4> QED BY <1>0, <3>1, <4>1, <4>2 DEF DeactivatedDashboard, StopDashboardLiveSets, Dashboards
    <3>2. CASE screen # "dashboard"
      <4>1. d.live \in [Feeds -> {Nothing} \cup Scopes]
        BY <1>0 DEF Dashboards
      <4>2. \A feed \in Feeds : d.live[feed] = Nothing
        BY <1>1, <3>2 DEF DashboardWatches
      <4>3. d.live = [f \in Feeds |-> Nothing] /\ ~d.active
        BY <1>1, <3>2, <4>1, <4>2 DEF DashboardWatches
      <4> QED BY <1>0, <1>1, <3>2, <4>3
    <3> QED BY <3>1, <3>2
  <2>3. dashboard' \in IF screen = "dashboard" THEN ActivatedDashboards(RenamedDashboard(gone), scope)
                       ELSE {RenamedDashboard(gone)}
    BY <1>5 DEF Renames
  <2> HIDE DEF gone, scope
  <2>4. Timed(RenamedDashboard(gone)) /\ DashboardKeeps(RenamedDashboard(gone), switching', scope)
    BY <2>1, <2>2, RenamedDashboardHolds
  <2>5. RenamedDashboard(gone) \in Dashboards
    BY <2>1, <2>2, DashboardCallsType
  <2>6. CASE screen = "dashboard"
    BY <2>1, <2>3, <2>4, <2>5, <2>6, ActivatedDashboardHolds
  <2>7. CASE screen # "dashboard"
    <3>1. DashboardWatches(RenamedDashboard(gone), screen, switching', scope)
      BY <2>1, <2>2, <2>7, RenamedDashboardHolds
    <3> QED BY <2>1, <2>3, <2>4, <2>7, <3>1 DEF DashboardInv
  <2> QED BY <2>6, <2>7
<1>6. CASE SelectContext
  <2>1. Scope' = Scope /\ screen' = screen /\ switching = "no" /\ switching' = "connecting"
    BY <1>6, ScopeStays DEF SelectContext
  <2>2. DashboardKeeps(d, "connecting", Scope)
    BY <1>1, <2>1, DashboardKeepsOn
  <2>3. CASE screen = "dashboard"
    BY <1>0, <1>1, <1>6, <2>1, <2>2, <2>3, SelectStops, DeactivatedDashboardHolds
  <2>4. CASE screen # "dashboard"
    BY <1>1, <1>3, <1>6, <2>1, <2>2, <2>4, SelectStops DEF DashboardInv
  <2> QED BY <2>3, <2>4
<1>7. CASE ContextSwitchFailed
  <2>1. Scope' = Scope /\ screen' = screen /\ switching = "connecting" /\ switching' = "no"
    BY <1>7, ScopeStays DEF ContextSwitchFailed
  <2>2. DashboardKeeps(d, "no", Scope)
    BY <1>1, <2>1, DashboardKeepsOn
  <2>3. CASE screen = "dashboard"
    BY <1>0, <1>1, <1>7, <2>1, <2>2, <2>3, FailureStarts, ActivatedDashboardHolds
  <2>4. CASE screen # "dashboard"
    BY <1>1, <1>3, <1>7, <2>1, <2>2, <2>4, FailureStarts DEF DashboardInv
  <2> QED BY <2>3, <2>4
<1>8. ASSUME NEW context \in Contexts, Connect(context)
      PROVE  DashboardInv(dashboard', screen', switching', Scope')
  <2> DEFINE x == dashboard'
  <2>1. screen' = screen /\ switching' = "connected" /\ Scope'.namespace = Scope.namespace
    BY <1>8 DEF Connect, Scope
  <2>2. /\ x.inited = d.inited /\ x.active = d.active /\ x.live = d.live /\ x.loading = d.loading
        /\ x.health = d.health /\ x.healthLoading = d.healthLoading
        /\ x.tickPending = d.tickPending /\ x.ticks = d.ticks /\ x.fetch = Rerouted(d.fetch, context)
    BY <1>0, <1>8 DEF Connect, Dashboards
  <2>3. InFlight(x.fetch) => x.fetch.namespace = Scope.namespace
    BY <1>0, <1>1, <2>2, ReroutedOnlyReads DEF DashboardKeeps, OfScope, Dashboards
  <2>4. DashboardKeeps(x, "connected", Scope')
    BY <1>1, <2>1, <2>2, <2>3 DEF DashboardKeeps, OfScope, CurrentIn
  <2>5. DashboardWatches(x, screen, "connected", Scope')
    BY <1>1, <2>2 DEF DashboardWatches
  <2>6. Timed(x)
    BY <1>1, <2>2 DEF Timed
  <2> QED BY <2>1, <2>4, <2>5, <2>6 DEF DashboardInv
<1>9. ASSUME UNCHANGED frameVars, dashboard' = dashboard
      PROVE  DashboardInv(dashboard', screen', switching', Scope')
  BY <1>2, <1>9, ScopeStays DEF frameVars
<1> QED BY <1>4, <1>5, <1>6, <1>7, <1>8, <1>9, RootStepsAre DEF screenVars

\* The dashboard has one timer, watches only on display, and waits for what is on its way.
THEOREM DashboardStaysSound == Spec => []DashboardHolds
<1>1. Init => DashboardHolds
  BY DEF Init, FrameInit, NewDashboard, DashboardHolds, DashboardInv, Timed, DashboardKeeps, DashboardWatches,
         OfScope, InFlight, Elsewhere
<1>2. TypeOK /\ DashboardHolds /\ [Next]_vars => DashboardHolds'
  <2> SUFFICES ASSUME TypeOK, DashboardHolds, [Next]_vars PROVE DashboardHolds'
    OBVIOUS
  <2>1. UNCHANGED frameVars => Scope' = Scope /\ screen' = screen /\ switching' = switching
    BY ScopeStays DEF frameVars
  <2>2. CASE RootSteps
    BY <2>2, RootHoldsDashboard
  <2>3. CASE DashboardSteps
    BY <2>1, <2>3, DashboardStepsHold, ScreensMoveAlone DEF DashboardHolds
  <2>4. CASE UNCHANGED frameVars /\ dashboard' = dashboard
    BY <2>1, <2>4 DEF DashboardHolds
  <2> QED BY <2>2, <2>3, <2>4, ScreensMoveAlone DEF Next, vars, screenVars
<1> QED BY <1>1, <1>2, TypeCorrect, PTL DEF Spec

\* The metrics have one timer, however often the dashboard is left and shown again.
THEOREM TimerIsOne == Spec => []OneTimer
<1>1. DashboardHolds => OneTimer
  BY DEF DashboardHolds, DashboardInv, Timed, OneTimer
<1> QED BY <1>1, DashboardStaysSound, PTL

-----------------------------------------------------------------------------
(* The browser                                                             *)

\* A table that is drawn again is of the rows there are.
LEMMA RedrawnChanges ==
    ASSUME NEW b \in Browsers
    PROVE  LET x == Redrawn(b) IN
           /\ x \in Browsers
           /\ x.active = b.active /\ x.type = b.type /\ x.loading = b.loading /\ x.failed = b.failed
           /\ x.rows = b.rows /\ x.live = b.live /\ x.fetch = b.fetch /\ x.operation = b.operation
           /\ x.sought = b.sought
           /\ x.table # Nothing => b.rows[b.type] # Nothing /\ x.table.scope = b.rows[b.type]
<1>1. Redrawn(b) \in Browsers
  BY RedrawnType
<1>2. CASE b.rows[b.type] = Nothing
  BY <1>1, <1>2 DEF Redrawn, Browsers
<1>3. CASE b.rows[b.type] # Nothing
  BY <1>1, <1>3 DEF Redrawn, Browsers
<1> QED BY <1>2, <1>3

\* So it shows nothing of another scope, outside a switch of the context.
LEMMA RedrawnHolds ==
    ASSUME NEW b \in Browsers, NEW s, NEW sw, NEW scope,
           BrowserKeeps(b, sw, scope), BrowserWatches(b, s, sw, scope),
           s = "browser" /\ sw = "no" /\ b.loading => b.sought \/ b.operation # "none" \/ Fed(b, scope)
    PROVE  BrowserInv(Redrawn(b), s, sw, scope)
<1> DEFINE x == Redrawn(b)
<1>1. /\ x.active = b.active /\ x.type = b.type /\ x.loading = b.loading /\ x.failed = b.failed
      /\ x.rows = b.rows /\ x.live = b.live /\ x.fetch = b.fetch /\ x.operation = b.operation
      /\ x.sought = b.sought
      /\ x.table # Nothing => b.rows[b.type] # Nothing /\ x.table.scope = b.rows[b.type]
  BY RedrawnChanges
<1>2. b.type \in Types
  BY DEF Browsers
<1> HIDE DEF x
<1>3. BrowserKeeps(x, sw, scope) /\ BrowserWatches(x, s, sw, scope)
  BY <1>1 DEF BrowserKeeps, BrowserWatches
<1>4. Fed(b, scope) => Fed(x, scope)
  BY <1>1 DEF Fed
<1>5. sw = "no" => (x.table = Nothing \/ x.table.scope = scope)
  BY <1>1, <1>2 DEF BrowserKeeps
<1>6. s = "browser" /\ sw = "no" => BrowserShows(x, scope)
  BY <1>1, <1>4, <1>5 DEF BrowserShows
<1> QED BY <1>3, <1>6 DEF BrowserInv, x

\* What the browser watched it watches no more ...
LEMMA StoppedChanges ==
    ASSUME NEW b \in Browsers
    PROVE  LET x == StopAllLiveSets(b) IN
           /\ x \in Browsers /\ \A type \in LiveTypes : x.live[type] = Nothing
           /\ x.active = b.active /\ x.type = b.type /\ x.loading = b.loading /\ x.failed = b.failed
           /\ x.rows = b.rows /\ x.table = b.table /\ x.fetch = b.fetch /\ x.operation = b.operation
           /\ x.sought = b.sought
<1>1. StopAllLiveSets(b) \in Browsers
  BY StoppedType
<1> QED BY <1>1 DEF StopAllLiveSets, Browsers

\* ... a load feeds the type on display, unless it failed at once.
LEMMA LoadsHold ==
    ASSUME NEW b \in Browsers, NEW sw, NEW scope \in Scopes, NEW x \in Loads(b, scope),
           BrowserKeeps(b, sw, scope), BrowserWatches(b, "browser", sw, scope)
    PROVE  BrowserInv(x, "browser", sw, scope) /\ x \in Browsers
<1> DEFINE asked == [b EXCEPT !.loading = TRUE, !.sought = FALSE]
<1>0. b.type \in Types /\ x \in Browsers
  BY LoadsType DEF Browsers
<1>1. /\ asked \in Browsers
      /\ asked.active = b.active /\ asked.type = b.type /\ asked.rows = b.rows /\ asked.live = b.live
      /\ asked.fetch = b.fetch
  BY DEF Browsers
<1> HIDE DEF asked
<1>2. x.active = b.active /\ x.type = b.type /\ x.rows = b.rows
      /\ \/ b.type \in LiveTypes /\ x.live = [b.live EXCEPT ![b.type] = scope] /\ x.fetch = b.fetch
         \/ x.live = b.live /\ x.fetch = b.fetch /\ ~x.loading /\ x.failed # "no"
         \/ x.live = b.live /\ x.fetch = Asked(b.type, scope)
  <2>1. CASE b.type \in LiveTypes /\ x = [asked EXCEPT !.live[b.type] = scope]
    BY <1>1, <2>1 DEF Browsers
  <2>2. CASE x \in FailedLists(asked)
    <3>1. PICK why \in {"error", "denied"} : x = [asked EXCEPT !.loading = FALSE, !.failed = why]
      BY <2>2 DEF FailedLists
    <3>2. x.active = asked.active /\ x.type = asked.type /\ x.rows = asked.rows /\ x.live = asked.live
          /\ x.fetch = asked.fetch /\ ~x.loading /\ x.failed = why
      BY <1>1, <3>1 DEF Browsers
    <3> QED BY <1>1, <3>2
  <2>3. CASE x = [asked EXCEPT !.fetch = Asked(b.type, scope)]
    BY <1>1, <2>3 DEF Browsers
  <2> QED BY <2>1, <2>2, <2>3 DEF Loads, asked
<1>3. /\ OfScope(Asked(b.type, scope), sw, scope) /\ CurrentIn(Asked(b.type, scope), scope)
      /\ Asked(b.type, scope).about = b.type
  BY <1>0, RequestsOfScope, AskedIsSent, TypesApart
<1>4. b.live \in [LiveTypes -> Rows]
  BY DEF Browsers
<1>5. BrowserKeeps(x, sw, scope)
  BY <1>2, <1>3 DEF BrowserKeeps
<1>6. BrowserWatches(x, "browser", sw, scope)
  BY <1>2, <1>4 DEF BrowserWatches
<1>7. (x.failed # "no" /\ ~x.loading) \/ Fed(x, scope)
  BY <1>2, <1>3, <1>4 DEF Fed
<1>8. BrowserShows(x, scope)
  BY <1>7 DEF BrowserShows
<1> QED BY <1>0, <1>5, <1>6, <1>8 DEF BrowserInv

\* A browser that is activated loads what it shows.
LEMMA ActivatedBrowserHolds ==
    ASSUME NEW b \in Browsers, NEW sw, NEW scope \in Scopes, NEW x \in ActivatedBrowsers(b, scope),
           BrowserKeeps(b, sw, scope),
           \A type \in LiveTypes : b.live[type] # Nothing =>
                b.type = type /\ (sw # "connected" => b.live[type] = scope)
    PROVE  BrowserInv(x, "browser", sw, scope) /\ x \in Browsers
<1> DEFINE ready == [b EXCEPT !.active = TRUE]
<1>1. /\ ready \in Browsers /\ ready.active /\ ready.type = b.type /\ ready.rows = b.rows
      /\ ready.live = b.live /\ ready.fetch = b.fetch
  BY DEF Browsers
<1>2. x \in Loads(ready, scope)
  BY DEF ActivatedBrowsers
<1> HIDE DEF ready
<1>3. BrowserKeeps(ready, sw, scope) /\ BrowserWatches(ready, "browser", sw, scope)
  BY <1>1 DEF BrowserKeeps, BrowserWatches
<1> QED BY <1>1, <1>2, <1>3, LoadsHold

\* A browser that watches nothing is one of any other screen.
LEMMA HiddenBrowserHolds ==
    ASSUME NEW b, NEW s, NEW sw, NEW scope, BrowserKeeps(b, sw, scope),
           \A type \in LiveTypes : b.live[type] = Nothing, s # "browser" \/ sw # "no"
    PROVE  BrowserInv(b, s, sw, scope)
BY DEF BrowserInv, BrowserWatches

\* One that is deactivated.
LEMMA DeactivatedBrowserChanges ==
    ASSUME NEW b \in Browsers, NEW sw, NEW scope
    PROVE  LET x == DeactivatedBrowser(b) IN
           /\ x \in Browsers /\ \A type \in LiveTypes : x.live[type] = Nothing
           /\ BrowserKeeps(b, sw, scope) => BrowserKeeps(x, sw, scope)
<1> DEFINE stopped == StopAllLiveSets(b)
           x == [stopped EXCEPT !.active = FALSE]
<1>1. /\ stopped \in Browsers /\ \A type \in LiveTypes : stopped.live[type] = Nothing
      /\ stopped.type = b.type /\ stopped.rows = b.rows /\ stopped.fetch = b.fetch
  BY StoppedChanges
<1> HIDE DEF stopped
<1>2. /\ x \in Browsers /\ x.live = stopped.live /\ x.type = b.type /\ x.rows = b.rows /\ x.fetch = b.fetch
  BY <1>1 DEF Browsers
<1> HIDE DEF x
<1>3. BrowserKeeps(b, sw, scope) => BrowserKeeps(x, sw, scope)
  BY <1>2 DEF BrowserKeeps
<1> QED BY <1>1, <1>2, <1>3 DEF DeactivatedBrowser, x, stopped

\* One that is told the namespace keeps nothing of the scope before.
LEMMA RenamedBrowserChanges ==
    ASSUME NEW b \in Browsers, NEW sw, NEW scope
    PROVE  LET x == RenamedBrowser(b) IN
           /\ x \in Browsers /\ \A type \in LiveTypes : x.live[type] = Nothing
           /\ BrowserKeeps(x, sw, scope)
<1> DEFINE stopped == StopAllLiveSets(b)
           x == [stopped EXCEPT !.fetch = Outdated(@), !.rows = [t \in Types |-> Nothing],
                                !.loading = TRUE, !.failed = "no"]
<1>1. stopped \in Browsers /\ \A type \in LiveTypes : stopped.live[type] = Nothing
  BY StoppedChanges
<1>2. stopped.fetch \in Requests(Types)
  BY <1>1 DEF Browsers
<1>3. Outdated(stopped.fetch) \in Requests(Types) /\ ~InFlight(Outdated(stopped.fetch))
  BY <1>2, RequestsStay, OutdatedIsIdle
<1> HIDE DEF stopped
<1>4. /\ x \in Browsers /\ x.live = stopped.live /\ x.fetch = Outdated(stopped.fetch)
      /\ x.rows = [t \in Types |-> Nothing]
  BY <1>1, <1>3 DEF Browsers, Rows
<1> HIDE DEF x
<1>5. BrowserKeeps(x, sw, scope)
  BY <1>3, <1>4 DEF BrowserKeeps, OfScope
<1> QED BY <1>1, <1>4, <1>5 DEF RenamedBrowser, x, stopped

\* One that is given another type watches nothing and waits for nothing.
LEMMA RetypedBrowserChanges ==
    ASSUME NEW b \in Browsers, NEW type \in Types, type # b.type, NEW sw, NEW scope
    PROVE  LET x == RetypedBrowser(b, type) IN
           /\ x \in Browsers /\ \A t \in LiveTypes : x.live[t] = Nothing
           /\ x.active = b.active
           /\ BrowserKeeps(b, sw, scope) =>
                /\ BrowserKeeps(x, sw, scope)
                /\ sw # "connected" => x.table = Nothing \/ x.table.scope = scope
<1> DEFINE stopped == StopAllLiveSets(b)
           typed == [stopped EXCEPT !.type = type, !.loading = TRUE, !.fetch = Outdated(@)]
           x == Redrawn(typed)
<1>1. /\ stopped \in Browsers /\ \A t \in LiveTypes : stopped.live[t] = Nothing
      /\ stopped.rows = b.rows /\ stopped.active = b.active
  BY StoppedChanges
<1>2. stopped.fetch \in Requests(Types)
  BY <1>1 DEF Browsers
<1>3. Outdated(stopped.fetch) \in Requests(Types) /\ ~InFlight(Outdated(stopped.fetch))
  BY <1>2, RequestsStay, OutdatedIsIdle
<1> HIDE DEF stopped
<1>4. /\ typed \in Browsers /\ typed.live = stopped.live /\ typed.fetch = Outdated(stopped.fetch)
      /\ typed.rows = b.rows /\ typed.active = b.active /\ typed.type = type
  BY <1>1, <1>3 DEF Browsers
<1> HIDE DEF typed
<1>5. /\ x \in Browsers /\ x.live = typed.live /\ x.fetch = typed.fetch /\ x.rows = typed.rows
      /\ x.active = typed.active /\ x.type = typed.type
      /\ x.table # Nothing => typed.rows[typed.type] # Nothing /\ x.table.scope = typed.rows[typed.type]
  BY <1>4, RedrawnChanges
<1>6. x = RetypedBrowser(b, type)
  BY DEF RetypedBrowser, typed, stopped
<1> HIDE DEF x
<1>7. BrowserKeeps(b, sw, scope) => BrowserKeeps(x, sw, scope)
  BY <1>3, <1>4, <1>5 DEF BrowserKeeps, OfScope
<1>8. BrowserKeeps(b, sw, scope) /\ sw # "connected" => x.table = Nothing \/ x.table.scope = scope
  BY <1>4, <1>5 DEF BrowserKeeps
<1> QED BY <1>1, <1>4, <1>5, <1>6, <1>7, <1>8

\* A list that failed waits for nothing.
LEMMA FailedHolds ==
    ASSUME NEW b \in Browsers, NEW s, NEW sw, NEW scope, NEW x \in FailedLists(b),
           BrowserKeeps(b, sw, scope), BrowserWatches(b, s, sw, scope)
    PROVE  BrowserInv(x, s, sw, scope)
<1>1. /\ x.active = b.active /\ x.type = b.type /\ x.rows = b.rows /\ x.live = b.live /\ x.fetch = b.fetch
      /\ ~x.loading /\ x.failed # "no"
  BY DEF FailedLists, Browsers
<1>2. BrowserKeeps(x, sw, scope) /\ BrowserWatches(x, s, sw, scope) /\ BrowserShows(x, scope)
  BY <1>1 DEF BrowserKeeps, BrowserWatches, BrowserShows
<1> QED BY <1>2 DEF BrowserInv

\* Rows that have come are of this scope, outside a switch of the context.
LEMMA ListedHolds ==
    ASSUME NEW b \in Browsers, NEW s, NEW sw, NEW scope, NEW from \in Scopes, NEW type \in Types,
           BrowserKeeps(b, sw, scope), BrowserWatches(b, s, sw, scope),
           sw # "connected" => from = scope
    PROVE  BrowserInv(Listed(b, type, from), s, sw, scope)
<1> DEFINE x == [b EXCEPT !.rows[type] = from, !.loading = FALSE, !.failed = "no"]
<1>1. b.rows \in [Types -> Rows]
  BY DEF Browsers
<1>2. /\ x \in Browsers /\ x.active = b.active /\ x.type = b.type /\ x.live = b.live /\ x.fetch = b.fetch
      /\ x.rows = [b.rows EXCEPT ![type] = from] /\ ~x.loading
  BY DEF Browsers, Rows
<1>3. Listed(b, type, from) = Redrawn(x)
  BY DEF Listed
<1> HIDE DEF x
<1>4. BrowserKeeps(x, sw, scope) /\ BrowserWatches(x, s, sw, scope)
  BY <1>1, <1>2 DEF BrowserKeeps, BrowserWatches
<1> QED BY <1>2, <1>3, <1>4, RedrawnHolds

\* The steps of the browser.
LEMMA BrowserStepsHold ==
    TypeOK /\ BrowserHolds /\ BrowserSteps => BrowserInv(browser', screen, switching, Scope)
<1> DEFINE b == browser
           x == browser'
           Holds == BrowserInv(x, screen, switching, Scope)
<1> SUFFICES ASSUME TypeOK, BrowserHolds, BrowserSteps PROVE Holds
  OBVIOUS
<1>0. b \in Browsers /\ Scope \in Scopes /\ Scope.namespace = namespace /\ Scope.context = connection
      /\ b.live \in [LiveTypes -> Rows] /\ b.rows \in [Types -> Rows] /\ b.type \in Types
  BY ScopeIsScope DEF TypeOK, Scope, Browsers
<1>1. BrowserKeeps(b, switching, Scope) /\ BrowserWatches(b, screen, switching, Scope)
      /\ (screen = "browser" /\ switching = "no" => BrowserShows(b, Scope))
  BY DEF BrowserHolds, BrowserInv
<1>2. ASSUME NEW type \in LiveTypes, BrowserSnapshot(type) PROVE Holds
  <2>1. b.live[type] # Nothing /\ b.type = type /\ screen = "browser"
        /\ (switching # "connected" => b.live[type] = Scope) /\ b.live[type] \in Scopes /\ type \in Types
    BY <1>0, <1>1, <1>2 DEF BrowserSnapshot, BrowserWatches, Rows, Types
  <2>2. x \in FailedLists(b) \cup {[b EXCEPT !.failed = "no"], Listed(b, type, b.live[type])}
    BY <1>2, <2>1 DEF BrowserSnapshot
  <2>3. CASE x \in FailedLists(b)
    BY <1>0, <1>1, <2>3, FailedHolds
  <2>4. CASE x = [b EXCEPT !.failed = "no"]
    <3>1. /\ x.active = b.active /\ x.type = b.type /\ x.rows = b.rows /\ x.live = b.live
          /\ x.fetch = b.fetch /\ x.operation = b.operation /\ x.sought = b.sought /\ x.table = b.table
          /\ x.loading = b.loading
      BY <1>0, <2>4 DEF Browsers
    <3>2. BrowserKeeps(x, switching, Scope) /\ BrowserWatches(x, screen, switching, Scope)
      BY <1>1, <3>1 DEF BrowserKeeps, BrowserWatches
    <3>3. switching = "no" => Fed(x, Scope)
      BY <2>1, <3>1 DEF Fed
    <3> QED BY <3>2, <3>3 DEF BrowserInv, BrowserShows
  <2>5. CASE x = Listed(b, type, b.live[type])
    BY <1>0, <1>1, <2>1, <2>5, ListedHolds
  <2> QED BY <2>2, <2>3, <2>4, <2>5
<1>3. ASSUME NEW type \in LiveTypes, BrowserSetCloses(type) PROVE Holds
  <2> DEFINE stopped == [b EXCEPT !.live[type] = Nothing]
  <2>1. b.live[type] # Nothing /\ b.type = type /\ screen = "browser" /\ (switching = "no" => b.active)
    BY <1>1, <1>3 DEF BrowserSetCloses, BrowserWatches
  <2>2. /\ stopped \in Browsers /\ stopped.active = b.active /\ stopped.type = b.type
        /\ stopped.rows = b.rows /\ stopped.live = [b.live EXCEPT ![type] = Nothing] /\ stopped.fetch = b.fetch
    BY <1>0 DEF Browsers, Rows
  <2>3. IF b.active THEN x \in FailedLists(stopped) ELSE x = stopped
    BY <1>3, <2>1 DEF BrowserSetCloses
  <2> HIDE DEF stopped
  <2>4. BrowserKeeps(stopped, switching, Scope) /\ BrowserWatches(stopped, screen, switching, Scope)
    BY <1>0, <1>1, <2>2 DEF BrowserKeeps, BrowserWatches
  <2>5. CASE b.active
    BY <2>2, <2>3, <2>4, <2>5, FailedHolds
  <2>6. CASE ~b.active
    BY <2>1, <2>3, <2>4, <2>6 DEF BrowserInv
  <2> QED BY <2>5, <2>6
<1> DEFINE heard == [b EXCEPT !.fetch = Nothing]
<1>4. /\ heard \in Browsers /\ heard.active = b.active /\ heard.type = b.type /\ heard.rows = b.rows
      /\ heard.live = b.live /\ heard.fetch = Nothing /\ heard.table = b.table /\ heard.loading = b.loading
      /\ heard.failed = b.failed /\ heard.operation = b.operation /\ heard.sought = b.sought
  BY <1>0 DEF Browsers, Requests
<1>5. FetchAnswered => \/ \E context \in b.fetch.reads :
                            x = Listed(heard, b.type, [context |-> context, namespace |-> namespace])
                       \/ x \in FailedLists(heard)
  BY DEF FetchAnswered
<1>6. FetchDropped => x = heard
  BY DEF FetchDropped
<1> HIDE DEF heard
<1>7. BrowserKeeps(heard, switching, Scope) /\ BrowserWatches(heard, screen, switching, Scope)
  BY <1>1, <1>4 DEF BrowserKeeps, BrowserWatches, OfScope, InFlight
<1>8. CASE FetchAnswered
  <2>1. InFlight(b.fetch) /\ b.fetch.reads \subseteq Contexts
    BY <1>0, <1>8 DEF FetchAnswered, AcceptsFetch, Current, InFlight, Browsers, Requests, Sent
  <2>2. ASSUME NEW context \in b.fetch.reads
        PROVE  /\ [context |-> context, namespace |-> namespace] \in Scopes
               /\ switching # "connected" => [context |-> context, namespace |-> namespace] = Scope
    <3>1. namespace \in Namespaces
      BY DEF TypeOK, FrameTypes
    <3>2. switching # "connected" => context = connection
      BY <1>0, <1>1, <2>1 DEF BrowserKeeps, OfScope
    <3> QED BY <2>1, <3>1, <3>2 DEF Scopes, Scope
  <2>3. ASSUME NEW context \in b.fetch.reads,
               x = Listed(heard, b.type, [context |-> context, namespace |-> namespace])
        PROVE  Holds
    BY <1>0, <1>4, <1>7, <2>2, <2>3, ListedHolds
  <2> QED BY <1>4, <1>5, <1>7, <1>8, <2>3, FailedHolds
<1>9. CASE FetchDropped
  <2>1. ~CurrentIn(b.fetch, Scope)
    BY <1>0, <1>1, <1>9 DEF FetchDropped, AcceptsFetch, Current, CurrentIn, BrowserKeeps
  <2>2. Fed(b, Scope) => Fed(heard, Scope)
    BY <1>4, <2>1 DEF Fed
  <2>3. BrowserShows(b, Scope) => BrowserShows(heard, Scope)
    BY <1>4, <2>2 DEF BrowserShows
  <2> QED BY <1>1, <1>6, <1>7, <1>9, <2>3 DEF BrowserInv
<1>10. CASE RefreshBrowser
  BY <1>0, <1>1, <1>10, LoadsHold DEF RefreshBrowser, Heard
<1>11. CASE RedrawBrowser
  <2>1. x = Redrawn(b)
    BY <1>11 DEF RedrawBrowser
  <2> QED BY <1>0, <1>1, <2>1, RedrawnHolds DEF BrowserShows
<1>12. ASSUME NEW type \in Types, ChangeType(type) PROVE Holds
  <2> DEFINE typed == RetypedBrowser(b, type)
  <2>1. screen = "browser" /\ switching = "no" /\ type # b.type /\ x \in Loads(typed, Scope)
    BY <1>12 DEF ChangeType, Heard
  <2>2. /\ typed \in Browsers /\ typed.active = b.active /\ BrowserKeeps(typed, switching, Scope)
        /\ \A t \in LiveTypes : typed.live[t] = Nothing
    BY <1>0, <1>1, <2>1, RetypedBrowserChanges
  <2> HIDE DEF typed
  <2>3. BrowserWatches(typed, "browser", switching, Scope)
    BY <1>1, <2>1, <2>2 DEF BrowserWatches
  <2> QED BY <1>0, <2>1, <2>2, <2>3, LoadsHold
<1>13. ASSUME NEW kind \in {"read", "change"}, Operate(kind) PROVE Holds
  <2>1. /\ x.active = b.active /\ x.type = b.type /\ x.rows = b.rows /\ x.live = b.live /\ x.fetch = b.fetch
        /\ x.table = b.table /\ x.failed = b.failed /\ x.operation # "none"
    BY <1>0, <1>13 DEF Operate, Browsers
  <2>2. BrowserKeeps(x, switching, Scope) /\ BrowserWatches(x, screen, switching, Scope)
    BY <1>1, <2>1 DEF BrowserKeeps, BrowserWatches
  <2>3. BrowserShows(b, Scope) => BrowserShows(x, Scope)
    BY <2>1 DEF BrowserShows, Fed
  <2> QED BY <1>1, <2>2, <2>3 DEF BrowserInv
<1>14. CASE OperationEnds
  <2> DEFINE ended == [b EXCEPT !.operation = "none"]
  <2>1. /\ ended \in Browsers /\ ended.active = b.active /\ ended.type = b.type /\ ended.rows = b.rows
        /\ ended.live = b.live /\ ended.fetch = b.fetch /\ ended.table = b.table /\ ended.failed = b.failed
    BY <1>0 DEF Browsers
  <2>2. IF screen # "browser" THEN x = ended
        ELSE x = [ended EXCEPT !.loading = FALSE] \/ x \in Loads(ended, Scope)
    BY <1>14 DEF OperationEnds
  <2> HIDE DEF ended
  <2>3. BrowserKeeps(ended, switching, Scope) /\ BrowserWatches(ended, screen, switching, Scope)
    BY <1>1, <2>1 DEF BrowserKeeps, BrowserWatches
  <2>4. CASE screen # "browser"
    BY <2>2, <2>3, <2>4 DEF BrowserInv
  <2>5. CASE screen = "browser" /\ x = [ended EXCEPT !.loading = FALSE]
    <3>1. /\ x.active = b.active /\ x.type = b.type /\ x.rows = b.rows /\ x.live = b.live
          /\ x.fetch = b.fetch /\ x.table = b.table /\ x.failed = b.failed /\ ~x.loading
      BY <2>1, <2>5 DEF Browsers
    <3>2. BrowserKeeps(x, switching, Scope) /\ BrowserWatches(x, screen, switching, Scope)
      BY <1>1, <3>1 DEF BrowserKeeps, BrowserWatches
    <3>3. BrowserShows(b, Scope) => BrowserShows(x, Scope)
      BY <3>1 DEF BrowserShows, Fed
    <3> QED BY <1>1, <3>2, <3>3 DEF BrowserInv
  <2>6. CASE screen = "browser" /\ x \in Loads(ended, Scope)
    BY <1>0, <2>1, <2>3, <2>6, LoadsHold
  <2> QED BY <2>2, <2>4, <2>5, <2>6
<1> QED BY <1>2, <1>3, <1>8, <1>9, <1>10, <1>11, <1>12, <1>13, <1>14 DEF BrowserSteps

\* The browsers a search or the palette makes keep what the browser kept.
LEMMA GivenHold ==
    ASSUME TypeOK, BrowserHolds, NEW type \in Types, NEW g \in Given(type)
    PROVE  /\ g \in Browsers /\ g.active = browser.active /\ BrowserKeeps(g, switching, Scope)
           /\ BrowserWatches(g, screen, switching, Scope)
           /\ screen # "browser" => \A t \in LiveTypes : g.live[t] = Nothing
           /\ screen = "browser" /\ switching = "no" /\ g.operation # "none" => BrowserShows(g, Scope)
<1> DEFINE b == browser
           typed == RetypedBrowser(b, type)
<1>0. b \in Browsers
  BY DEF TypeOK
<1>1. BrowserKeeps(b, switching, Scope) /\ BrowserWatches(b, screen, switching, Scope)
      /\ (screen = "browser" /\ switching = "no" => BrowserShows(b, Scope))
  BY DEF BrowserHolds, BrowserInv
<1>2. /\ typed \in Browsers /\ typed.active = b.active /\ BrowserKeeps(typed, switching, Scope)
      /\ BrowserWatches(typed, screen, switching, Scope)
      /\ screen # "browser" => \A t \in LiveTypes : typed.live[t] = Nothing
      /\ screen = "browser" /\ switching = "no" /\ typed.table # Nothing /\ typed.table.scope # Scope =>
            typed.failed # "no" \/ Fed(typed, Scope)
  <2>1. CASE type = b.type
    <3>1. typed = b
      BY <2>1 DEF RetypedBrowser
    <3> QED BY <1>0, <1>1, <3>1 DEF BrowserWatches, BrowserShows
  <2>2. CASE type # b.type
    <3>1. /\ typed \in Browsers /\ \A t \in LiveTypes : typed.live[t] = Nothing
          /\ typed.active = b.active /\ BrowserKeeps(typed, switching, Scope)
          /\ switching # "connected" => typed.table = Nothing \/ typed.table.scope = Scope
      BY <1>0, <1>1, <2>2, RetypedBrowserChanges
    <3>2. BrowserWatches(typed, screen, switching, Scope)
      BY <1>1, <3>1 DEF BrowserWatches
    <3> QED BY <3>1, <3>2
  <2> QED BY <2>1, <2>2
<1>3. g = typed \/ g = [typed EXCEPT !.operation = "read",
                                     !.sought = @ \/ (screen = "browser" /\ browser.type # type)]
  BY DEF Given
<1> HIDE DEF typed
<1>4. /\ g \in Browsers /\ g.active = typed.active /\ g.type = typed.type /\ g.rows = typed.rows
      /\ g.live = typed.live /\ g.fetch = typed.fetch /\ g.table = typed.table /\ g.failed = typed.failed
  <2>1. \A sought \in BOOLEAN : LET read == [typed EXCEPT !.operation = "read", !.sought = sought] IN
          /\ read \in Browsers /\ read.active = typed.active /\ read.type = typed.type
          /\ read.rows = typed.rows /\ read.live = typed.live /\ read.fetch = typed.fetch
          /\ read.table = typed.table /\ read.failed = typed.failed
    BY <1>2 DEF Browsers
  <2>2. (typed.sought \/ (screen = "browser" /\ browser.type # type)) \in BOOLEAN
    OBVIOUS
  <2> QED BY <1>2, <1>3, <2>1, <2>2
<1>5. /\ BrowserKeeps(g, switching, Scope) /\ BrowserWatches(g, screen, switching, Scope)
      /\ Fed(typed, Scope) => Fed(g, Scope)
  BY <1>2, <1>4 DEF BrowserKeeps, BrowserWatches, Fed
<1>6. screen = "browser" /\ switching = "no" /\ g.operation # "none" => BrowserShows(g, Scope)
  BY <1>2, <1>4, <1>5 DEF BrowserShows
<1> QED BY <1>2, <1>4, <1>5, <1>6

\* The steps of the root keep the browser as it must be.
LEMMA RootHoldsBrowser ==
    TypeOK /\ BrowserHolds /\ RootSteps => BrowserHolds'
<1> DEFINE b == browser
           Holds == BrowserInv(browser', screen', switching', Scope')
<1> SUFFICES ASSUME TypeOK, BrowserHolds, RootSteps PROVE Holds
  BY DEF BrowserHolds
<1>0. b \in Browsers /\ Scope \in Scopes
  BY ScopeIsScope DEF TypeOK
<1>1. BrowserKeeps(b, switching, Scope) /\ BrowserWatches(b, screen, switching, Scope)
      /\ (screen # "browser" => \A t \in LiveTypes : b.live[t] = Nothing)
  BY DEF BrowserHolds, BrowserInv, BrowserWatches
<1>2. ASSUME NEW g \in Browsers, BrowserKeeps(g, switching, Scope),
             screen # "browser" => \A t \in LiveTypes : g.live[t] = Nothing, Navigates(g)
      PROVE  Holds
  <2>1. Scope' = Scope /\ switching' = switching /\ screen' # screen
    BY <1>2, ScopeStays DEF Navigates
  <2>2. PICK x \in IF screen' = "browser" THEN ActivatedBrowsers(g, Scope)
                   ELSE IF screen = "browser" THEN {DeactivatedBrowser(g)} ELSE {g} :
            browser' = Redrawn(x)
    BY <1>2 DEF Navigates
  <2>3. x \in Browsers /\ BrowserInv(x, screen', switching, Scope)
    <3>1. CASE screen' = "browser"
      BY <1>0, <1>2, <2>1, <2>2, <3>1, ActivatedBrowserHolds
    <3>2. CASE screen = "browser"
      <4>1. x = DeactivatedBrowser(g)
        BY <2>1, <2>2, <3>2
      <4> QED BY <1>2, <2>1, <3>2, <4>1, DeactivatedBrowserChanges, HiddenBrowserHolds
    <3>3. CASE screen # "browser" /\ screen' # "browser"
      BY <1>2, <2>1, <2>2, <3>3, HiddenBrowserHolds
    <3> QED BY <3>1, <3>2, <3>3
  <2>4. BrowserInv(Redrawn(x), screen', switching, Scope)
    BY <2>3, RedrawnHolds DEF BrowserInv, BrowserShows
  <2> QED BY <2>1, <2>2, <2>4
<1>3. ASSUME NEW type \in Types, screen = "browser", UNCHANGED frameVars,
             \/ switching = "no" /\ browser' \in ActivatedBrowsers(RetypedBrowser(browser, type), Scope)
             \/ browser' \in Given(type) /\ browser'.operation = "read"
      PROVE  Holds
  <2>1. Scope' = Scope /\ switching' = switching /\ screen' = screen
    BY <1>3, ScopeStays DEF frameVars
  <2>2. CASE switching = "no" /\ browser' \in ActivatedBrowsers(RetypedBrowser(browser, type), Scope)
    <3> DEFINE g == RetypedBrowser(browser, type)
    <3>1. g \in Given(type)
      BY DEF Given
    <3>2. g \in Browsers /\ BrowserKeeps(g, switching, Scope) /\ BrowserWatches(g, screen, switching, Scope)
      BY <3>1, GivenHold
    <3>3. browser' \in ActivatedBrowsers(g, Scope)
      BY <2>2
    <3> HIDE DEF g
    <3>4. \A t \in LiveTypes : g.live[t] # Nothing =>
            g.type = t /\ (switching # "connected" => g.live[t] = Scope)
      BY <3>2 DEF BrowserWatches
    <3> QED BY <1>0, <1>3, <2>1, <3>2, <3>3, <3>4, ActivatedBrowserHolds
  <2>3. CASE browser' \in Given(type) /\ browser'.operation = "read"
    <3>1. /\ BrowserKeeps(browser', switching, Scope) /\ BrowserWatches(browser', screen, switching, Scope)
          /\ switching = "no" => BrowserShows(browser', Scope)
      BY <1>3, <2>3, GivenHold
    <3> QED BY <2>1, <3>1 DEF BrowserInv
  <2> QED BY <1>3, <2>2, <2>3
<1>4. ASSUME NEW to \in Namespaces, Renames(to) PROVE Holds
  <2> DEFINE left == IF screen = "browser" THEN DeactivatedBrowser(browser) ELSE browser
             scope == [context |-> connection, namespace |-> to]
  <2>1. scope \in Scopes /\ Scope' = scope /\ screen' = screen
    BY <1>4 DEF Renames, Scopes, Scope, TypeOK, FrameTypes
  <2>2. left \in Browsers
    BY <1>0, DeactivatedBrowserChanges
  <2>3. browser' \in IF screen = "browser" THEN ActivatedBrowsers(RenamedBrowser(left), scope)
                     ELSE {RenamedBrowser(left)}
    BY <1>4 DEF Renames
  <2> HIDE DEF left, scope
  <2>4. /\ RenamedBrowser(left) \in Browsers /\ \A type \in LiveTypes : RenamedBrowser(left).live[type] = Nothing
        /\ BrowserKeeps(RenamedBrowser(left), switching', scope)
    BY <2>2, RenamedBrowserChanges
  <2>5. CASE screen = "browser"
    BY <2>1, <2>3, <2>4, <2>5, ActivatedBrowserHolds
  <2>6. CASE screen # "browser"
    BY <2>1, <2>3, <2>4, <2>6, HiddenBrowserHolds
  <2> QED BY <2>5, <2>6
<1>5. ASSUME SelectContext PROVE Holds
  <2>1. Scope' = Scope /\ screen' = screen /\ switching = "no" /\ switching' = "connecting"
    BY <1>5, ScopeStays DEF SelectContext
  <2>2. BrowserKeeps(b, "connecting", Scope)
    BY <1>1, <2>1 DEF BrowserKeeps, OfScope
  <2>3. CASE screen = "browser"
    BY <1>0, <1>5, <2>1, <2>2, <2>3, SelectStops, DeactivatedBrowserChanges, HiddenBrowserHolds
  <2>4. CASE screen # "browser"
    BY <1>1, <1>5, <2>1, <2>2, <2>4, SelectStops, HiddenBrowserHolds
  <2> QED BY <2>3, <2>4
<1>6. ASSUME ContextSwitchFailed PROVE Holds
  <2>1. Scope' = Scope /\ screen' = screen /\ switching = "connecting" /\ switching' = "no"
    BY <1>6, ScopeStays DEF ContextSwitchFailed
  <2>2. BrowserKeeps(b, "no", Scope)
    BY <1>1, <2>1 DEF BrowserKeeps, OfScope
  <2>3. \A type \in LiveTypes : b.live[type] # Nothing => b.type = type /\ b.live[type] = Scope
    BY <1>1, <2>1 DEF BrowserWatches
  <2>4. CASE screen = "browser"
    BY <1>0, <1>6, <2>1, <2>2, <2>3, <2>4, FailureStarts, ActivatedBrowserHolds
  <2>5. CASE screen # "browser"
    BY <1>1, <1>6, <2>1, <2>2, <2>5, FailureStarts, HiddenBrowserHolds
  <2> QED BY <2>4, <2>5
<1>7. ASSUME NEW context \in Contexts, Connect(context) PROVE Holds
  <2> DEFINE x == browser'
  <2>1. screen' = screen /\ switching' = "connected" /\ Scope'.namespace = Scope.namespace
    BY <1>7 DEF Connect, Scope
  <2>2. x.type = b.type /\ x.live = b.live /\ x.fetch = Rerouted(b.fetch, context)
    BY <1>0, <1>7 DEF Connect, Browsers
  <2>3. InFlight(x.fetch) => x.fetch.namespace = Scope.namespace /\ x.fetch.about = b.type
    <3>1. b.fetch \in Requests(Types)
      BY <1>0 DEF Browsers
    <3> QED BY <1>1, <2>2, <3>1, ReroutedOnlyReads DEF BrowserKeeps, OfScope
  <2>4. BrowserKeeps(x, "connected", Scope')
    BY <1>1, <2>1, <2>2, <2>3 DEF BrowserKeeps, OfScope
  <2>5. BrowserWatches(x, screen, "connected", Scope')
    BY <1>1, <2>2 DEF BrowserWatches
  <2> QED BY <2>1, <2>4, <2>5 DEF BrowserInv
<1>8. ASSUME NEW type \in Types, NEW g \in Given(type), Navigates(g) PROVE Holds
  BY <1>2, <1>8, GivenHold
<1>9. ASSUME UNCHANGED <<frameVars, screenVars>> PROVE Holds
  BY <1>9, ScopeStays DEF frameVars, screenVars, BrowserHolds
<1> QED BY <1>0, <1>1, <1>2, <1>3, <1>4, <1>5, <1>6, <1>7, <1>8, <1>9, RootStepsAre

\* The browser shows, keeps and watches what is of the scope of the root.
THEOREM BrowserStaysSound == Spec => []BrowserHolds
<1>1. Init => BrowserHolds
  BY DEF Init, FrameInit, NewBrowser, BrowserHolds, BrowserInv, BrowserKeeps, BrowserWatches, OfScope,
         InFlight, Elsewhere
<1>2. TypeOK /\ BrowserHolds /\ [Next]_vars => BrowserHolds'
  <2> SUFFICES ASSUME TypeOK, BrowserHolds, [Next]_vars PROVE BrowserHolds'
    OBVIOUS
  <2>1. UNCHANGED frameVars => Scope' = Scope /\ screen' = screen /\ switching' = switching
    BY ScopeStays DEF frameVars
  <2>2. CASE RootSteps
    BY <2>2, RootHoldsBrowser
  <2>3. CASE BrowserSteps
    BY <2>1, <2>3, BrowserStepsHold, ScreensMoveAlone DEF BrowserHolds
  <2>4. CASE UNCHANGED frameVars /\ browser' = browser
    BY <2>1, <2>4 DEF BrowserHolds
  <2> QED BY <2>2, <2>3, <2>4, ScreensMoveAlone DEF Next, vars, screenVars
<1> QED BY <1>1, <1>2, TypeCorrect, PTL DEF Spec

-----------------------------------------------------------------------------
(* The releases of helm                                                    *)

\* The screen asks for the releases of the scope whenever it is activated.
LEMMA ActivatedHelmHolds ==
    ASSUME NEW h \in Helms, NEW sw, NEW scope \in Scopes, ~h.visible
    PROVE  HelmInv(ActivatedHelm(h, scope), "helm", sw, scope)
<1> DEFINE x == ActivatedHelm(h, scope)
<1>1. x.loading /\ x.request = Asked(Nothing, scope) /\ ~x.visible
  BY DEF ActivatedHelm, Helms
<1>2. OfScope(Asked(Nothing, scope), sw, scope) /\ CurrentIn(Asked(Nothing, scope), scope)
  BY RequestsOfScope, FrameConstants
<1> HIDE DEF x
<1>3. HelmInv(x, "helm", sw, scope)
  BY <1>1, <1>2 DEF HelmInv, HelmShows
<1> QED BY <1>3 DEF x

\* The popup is closed when it is left, and stays closed when it is told the namespace.
LEMMA HelmCallsClose ==
    ASSUME NEW h \in Helms, NEW from, NEW to
    PROVE  /\ DeactivatedHelm(h) \in Helms /\ ~DeactivatedHelm(h).visible
           /\ ~h.visible => ~RenamedHelm(h, from, to).visible
<1>1. DeactivatedHelm(h) \in Helms /\ ~DeactivatedHelm(h).visible
  <2>1. Outdated(h.valuesRequest) \in Requests(Releases)
    BY RequestsStay DEF Helms
  <2> QED BY <2>1 DEF DeactivatedHelm, Helms
<1>2. ~h.visible => ~RenamedHelm(h, from, to).visible
  BY DEF RenamedHelm, Helms
<1> QED BY <1>1, <1>2

\* A screen that is not on display and shows no popup promises nothing.
LEMMA HiddenHelmHolds ==
    ASSUME NEW h, NEW s, NEW sw, NEW scope, ~h.visible, s # "helm" \/ sw # "no"
    PROVE  HelmInv(h, s, sw, scope)
BY DEF HelmInv

\* The steps of the helm screen.
LEMMA HelmStepsHold ==
    TypeOK /\ HelmHolds /\ HelmSteps => HelmInv(helm', screen, switching, Scope)
<1> DEFINE h == helm
           x == helm'
           Holds == HelmInv(x, screen, switching, Scope)
           shown == screen = "helm" /\ switching = "no"
<1> SUFFICES ASSUME TypeOK, HelmHolds, HelmSteps PROVE Holds
  OBVIOUS
<1>0. h \in Helms /\ Scope \in Scopes /\ Scope.namespace = namespace /\ Scope.context = connection
  BY ScopeIsScope DEF TypeOK, Scope
<1>1. /\ shown => HelmShows(h, switching, Scope)
      /\ h.visible => shown /\ PopupShows(h, Scope)
  BY DEF HelmHolds, HelmInv
<1> DEFINE ListStays == x.request = h.request /\ x.loading = h.loading /\ x.releases = h.releases
           PopupStays == /\ x.visible = h.visible /\ x.release = h.release /\ x.values = h.values
                         /\ x.valuesLoading = h.valuesLoading /\ x.valuesRequest = h.valuesRequest
<1>2. ListStays => (shown => HelmShows(x, switching, Scope))
  BY <1>1 DEF HelmShows
<1>3. PopupStays => (x.visible => shown /\ PopupShows(x, Scope))
  BY <1>1 DEF PopupShows
<1>4. CASE ReleasesAnswered
  <2>1. Current(h.request)
    BY <1>4 DEF ReleasesAnswered
  <2>2. /\ x.request = Nothing /\ ~x.loading /\ PopupStays
        /\ \/ x.releases = Nothing
           \/ \E context \in h.request.reads : x.releases = [context |-> context, namespace |-> namespace]
    BY <1>0, <1>4 DEF ReleasesAnswered, Helms
  <2>3. shown => h.request.reads = {connection}
    BY <1>0, <1>1, <2>1 DEF HelmShows, OfScope, Current
  <2>4. shown => x.releases \in {Nothing, Scope}
    BY <2>2, <2>3 DEF Scope
  <2>5. shown => HelmShows(x, switching, Scope)
    BY <2>2, <2>4 DEF HelmShows, OfScope, InFlight
  <2> QED BY <1>3, <2>2, <2>5 DEF HelmInv
<1>5. CASE ReleasesDropped
  <2>1. ~CurrentIn(h.request, Scope)
    BY <1>0, <1>5 DEF ReleasesDropped, Current, CurrentIn
  <2>2. x.request = Nothing /\ x.loading = h.loading /\ x.releases = h.releases /\ PopupStays
    BY <1>0, <1>5 DEF ReleasesDropped, Helms
  <2>3. shown => HelmShows(x, switching, Scope)
    BY <1>1, <2>1, <2>2 DEF HelmShows, OfScope, InFlight
  <2> QED BY <1>3, <2>2, <2>3 DEF HelmInv
<1>6. ASSUME NEW release \in Releases, OpenValues(release) PROVE Holds
  <2>1. shown /\ ListStays
    BY <1>0, <1>6 DEF OpenValues, Heard, Helms
  <2>2. x.release = release /\ x.valuesLoading /\ x.valuesRequest = Asked(release, Scope)
    BY <1>0, <1>6 DEF OpenValues, Helms
  <2>3. /\ InFlight(Asked(release, Scope)) /\ Asked(release, Scope).about = release
        /\ Asked(release, Scope).reads = {Scope.context}
    BY <1>0, RequestsOfScope, AskedIsSent, ReleasesAreNamed
  <2>4. PopupShows(x, Scope)
    BY <2>2, <2>3 DEF PopupShows
  <2> QED BY <1>2, <2>1, <2>4 DEF HelmInv
<1>7. CASE CloseValues
  <2>1. ListStays /\ ~x.visible
    BY <1>0, <1>7 DEF CloseValues, Helms
  <2> QED BY <1>2, <2>1 DEF HelmInv
<1>8. CASE ValuesAnswered
  <2>1. InFlight(h.valuesRequest) /\ h.visible
    BY <1>8 DEF ValuesAnswered, AcceptsValues
  <2>2. PICK values \in {Nothing} \cup [release : {h.valuesRequest.about}, context : h.valuesRequest.reads] :
            x = [h EXCEPT !.valuesRequest = Nothing, !.valuesLoading = FALSE, !.values = values]
    BY <1>8 DEF ValuesAnswered
  <2>3. /\ ListStays /\ x.visible = h.visible /\ x.release = h.release /\ x.valuesRequest = Nothing
        /\ ~x.valuesLoading /\ x.values = values
    BY <1>0, <2>2 DEF Helms
  <2>4. shown /\ h.valuesRequest.reads = {connection} /\ h.valuesRequest.about = h.release
    BY <1>0, <1>1, <2>1 DEF PopupShows
  <2>5. values \in {Nothing, [release |-> h.release, context |-> Scope.context]}
    BY <1>0, <2>4
  <2>6. PopupShows(x, Scope)
    BY <2>3, <2>5 DEF PopupShows, InFlight
  <2> QED BY <1>2, <2>3, <2>4, <2>6 DEF HelmInv
<1>9. CASE ValuesDropped
  <2>1. h.visible => ~InFlight(h.valuesRequest)
    BY <1>1, <1>9 DEF ValuesDropped, AcceptsValues, PopupShows
  <2>2. /\ ListStays /\ x.visible = h.visible /\ x.release = h.release /\ x.valuesRequest = Nothing
        /\ x.valuesLoading = h.valuesLoading /\ x.values = h.values
    BY <1>0, <1>9 DEF ValuesDropped, Helms
  <2>3. x.visible => shown /\ PopupShows(x, Scope)
    BY <1>1, <2>1, <2>2 DEF PopupShows, InFlight
  <2> QED BY <1>2, <2>2, <2>3 DEF HelmInv
<1>10. CASE RefreshHelm
  <2>1. x.loading /\ x.request = Asked(Nothing, Scope) /\ ~x.visible
    BY <1>0, <1>10 DEF RefreshHelm, Helms
  <2>2. OfScope(Asked(Nothing, Scope), switching, Scope) /\ CurrentIn(Asked(Nothing, Scope), Scope)
    BY <1>0, RequestsOfScope, FrameConstants
  <2> QED BY <2>1, <2>2 DEF HelmInv, HelmShows
<1> QED BY <1>4, <1>5, <1>6, <1>7, <1>8, <1>9, <1>10 DEF HelmSteps

\* The steps of the root keep the helm screen as it must be.
LEMMA RootHoldsHelm ==
    TypeOK /\ HelmHolds /\ RootSteps => HelmHolds'
<1> DEFINE Holds == HelmInv(helm', screen', switching', Scope')
<1> SUFFICES ASSUME TypeOK, HelmHolds, RootSteps PROVE Holds
  BY DEF HelmHolds
<1>0. helm \in Helms /\ Scope \in Scopes
  BY ScopeIsScope DEF TypeOK
<1>1. helm.visible => screen = "helm" /\ switching = "no"
  BY DEF HelmHolds, HelmInv
<1>2. /\ DeactivatedHelm(helm) \in Helms /\ ~DeactivatedHelm(helm).visible
      /\ \A to : ~helm.visible => ~RenamedHelm(helm, namespace, to).visible
      /\ \A to : ~RenamedHelm(DeactivatedHelm(helm), namespace, to).visible
  BY <1>0, HelmCallsClose
<1>3. ASSUME NEW b, Navigates(b) PROVE Holds
  <2>1. Scope' = Scope /\ switching' = switching /\ screen' # screen
    BY <1>3, ScopeStays DEF Navigates
  <2>2. CASE screen' = "helm"
    BY <1>0, <1>1, <1>3, <2>1, <2>2, ActivatedHelmHolds DEF Navigates
  <2>3. CASE screen' # "helm"
    <3>1. ~helm'.visible
      BY <1>1, <1>2, <1>3, <2>3 DEF Navigates
    <3> QED BY <2>3, <3>1, HiddenHelmHolds
  <2> QED BY <2>2, <2>3
<1>4. ASSUME NEW to \in Namespaces, Renames(to) PROVE Holds
  <2> DEFINE hid == IF screen = "helm" THEN DeactivatedHelm(helm) ELSE helm
             told == RenamedHelm(hid, namespace, to)
             scope == [context |-> connection, namespace |-> to]
  <2>1. scope \in Scopes /\ Scope' = scope /\ screen' = screen
    BY <1>4 DEF Renames, Scopes, Scope, TypeOK, FrameTypes
  <2>2. hid \in Helms /\ ~told.visible
    BY <1>0, <1>1, <1>2
  <2>3. helm' = IF screen = "helm" THEN ActivatedHelm(told, scope) ELSE told
    BY <1>4 DEF Renames
  <2> HIDE DEF hid, scope
  <2>4. told \in Helms
    BY <2>1, <2>2, HelmCallsType
  <2> HIDE DEF told
  <2>5. CASE screen = "helm"
    BY <2>1, <2>2, <2>3, <2>4, <2>5, ActivatedHelmHolds
  <2>6. CASE screen # "helm"
    BY <2>1, <2>2, <2>3, <2>6, HiddenHelmHolds
  <2> QED BY <2>5, <2>6
<1>5. ASSUME SelectContext PROVE Holds
  <2>1. ~helm'.visible
    BY <1>1, <1>2, <1>5, SelectStops
  <2>2. switching' # "no"
    BY <1>5 DEF SelectContext
  <2> QED BY <2>1, <2>2, HiddenHelmHolds
<1>6. ASSUME ContextSwitchFailed PROVE Holds
  <2>1. Scope' = Scope /\ screen' = screen /\ switching = "connecting"
    BY <1>6, ScopeStays DEF ContextSwitchFailed
  <2>2. ~helm.visible
    BY <1>1, <2>1
  <2>3. CASE screen = "helm"
    BY <1>0, <1>6, <2>1, <2>2, <2>3, FailureStarts, ActivatedHelmHolds
  <2>4. CASE screen # "helm"
    BY <1>6, <2>1, <2>2, <2>4, FailureStarts, HiddenHelmHolds
  <2> QED BY <2>3, <2>4
<1>7. ASSUME NEW context \in Contexts, Connect(context) PROVE Holds
  <2>1. switching = "connecting" /\ switching' = "connected" /\ helm'.visible = helm.visible
    BY <1>0, <1>7 DEF Connect, Helms
  <2> QED BY <1>1, <2>1, HiddenHelmHolds
<1>8. ASSUME UNCHANGED frameVars, helm' = helm PROVE Holds
  BY <1>8, ScopeStays DEF frameVars, HelmHolds
<1> QED BY <1>3, <1>4, <1>5, <1>6, <1>7, <1>8, RootStepsAre DEF screenVars

\* The helm screen shows the releases of the scope of the root, and the values of the release it names.
THEOREM HelmStaysSound == Spec => []HelmHolds
<1>1. Init => HelmHolds
  BY DEF Init, FrameInit, NewHelm, HelmHolds, HelmInv, Elsewhere
<1>2. TypeOK /\ HelmHolds /\ [Next]_vars => HelmHolds'
  <2> SUFFICES ASSUME TypeOK, HelmHolds, [Next]_vars PROVE HelmHolds'
    OBVIOUS
  <2>1. UNCHANGED frameVars => Scope' = Scope /\ screen' = screen /\ switching' = switching
    BY ScopeStays DEF frameVars
  <2>2. CASE RootSteps
    BY <2>2, RootHoldsHelm
  <2>3. CASE HelmSteps
    BY <2>1, <2>3, HelmStepsHold, ScreensMoveAlone DEF HelmHolds
  <2>4. CASE UNCHANGED frameVars /\ helm' = helm
    BY <2>1, <2>4 DEF HelmHolds
  <2> QED BY <2>2, <2>3, <2>4, ScreensMoveAlone DEF Next, vars, screenVars
<1> QED BY <1>1, <1>2, TypeCorrect, PTL DEF Spec

-----------------------------------------------------------------------------
(* The custom resources                                                    *)

\* The view on display is asked for, so all it shows is to come.
LEMMA FetchedViewHolds ==
    ASSUME NEW c \in CustomResourceScreens, NEW s, NEW sw, NEW scope \in Scopes, c.loading
    PROVE  CustomResourcesInv(FetchedView(c, scope), s, sw, scope)
<1> DEFINE x == FetchedView(c, scope)
           asked == Asked(Nothing, scope)
<1>1. CurrentIn(asked, scope) /\ asked.reads = {scope.context}
  <2>1. Nothing \notin Sent({Nothing}) /\ Nothing \in {Nothing}
    BY FrameConstants
  <2>2. CurrentIn(asked, scope)
    BY <2>1, RequestsOfScope
  <2> QED BY <2>1, <2>2, AskedIsSent
<1> HIDE DEF asked
<1>2. /\ x.view = c.view /\ x.loading
      /\ c.view = "list" => x.listRequest = asked /\ x.left = {}
      /\ c.view # "list" => x.instanceRequest = asked
  BY DEF FetchedView, CustomResourceScreens, asked
<1> HIDE DEF x
<1>3. CustomResourcesInv(x, s, sw, scope)
  BY <1>1, <1>2 DEF CustomResourcesInv, ListShows, InstancesShow
<1> QED BY <1>3 DEF x

\* So is it when the screen is activated.
LEMMA ActivatedCustomResourcesHold ==
    ASSUME NEW c \in CustomResourceScreens, NEW s, NEW sw, NEW scope \in Scopes
    PROVE  CustomResourcesInv(ActivatedCustomResources(c, scope), s, sw, scope)
<1> DEFINE ready == [c EXCEPT !.inited = TRUE, !.loading = TRUE]
<1>1. ready \in CustomResourceScreens /\ ready.loading
  BY DEF CustomResourceScreens
<1> HIDE DEF ready
<1>2. CustomResourcesInv(FetchedView(ready, scope), s, sw, scope)
  BY <1>1, FetchedViewHolds
<1> QED BY <1>2 DEF ActivatedCustomResources, ready

\* The steps of the custom resources.
LEMMA CustomResourceStepsHold ==
    TypeOK /\ CustomResourcesHold /\ CustomResourceSteps => CustomResourcesInv(crds', screen, switching, Scope)
<1> DEFINE c == crds
           x == crds'
           Holds == CustomResourcesInv(x, screen, switching, Scope)
<1> SUFFICES ASSUME TypeOK, CustomResourcesHold, CustomResourceSteps, screen = "crds", switching = "no"
             PROVE  Holds
  BY DEF CustomResourcesInv
<1>0. c \in CustomResourceScreens /\ Scope \in Scopes /\ Scope.namespace = namespace /\ Scope.context = connection
  BY ScopeIsScope DEF TypeOK, Scope
<1>1. /\ c.view = "list" => ListShows(c, Scope)
      /\ c.view = "instances" => InstancesShow(c, Scope)
  BY DEF CustomResourcesHold, CustomResourcesInv
<1>2. CASE ListAnswered
  <2>1. InFlight(c.listRequest) /\ c.view = "list"
    BY <1>2 DEF ListAnswered, AcceptsList, Current
  <2>2. /\ x.view = "list" /\ x.listRequest = Nothing /\ ~x.loading /\ x.left = c.left
        /\ x.list \in {Nothing} \cup c.listRequest.reads
    BY <1>0, <1>2, <2>1 DEF ListAnswered, CustomResourceScreens
  <2>3. ListShows(x, Scope)
    BY <1>1, <2>1, <2>2 DEF ListShows, InFlight
  <2> QED BY <2>2, <2>3 DEF CustomResourcesInv
<1>3. CASE ListDropped
  <2>1. c.view = "list" => ~CurrentIn(c.listRequest, Scope)
    BY <1>0, <1>3 DEF ListDropped, AcceptsList, Current, CurrentIn
  <2>2. /\ x.view = c.view /\ x.listRequest = Nothing /\ x.loading = c.loading /\ x.left = c.left
        /\ x.list = c.list /\ x.instances = c.instances /\ x.instanceRequest = c.instanceRequest
    BY <1>0, <1>3 DEF ListDropped, CustomResourceScreens
  <2>3. x.view = "list" => ListShows(x, Scope)
    BY <1>1, <2>1, <2>2 DEF ListShows, InFlight
  <2>4. x.view = "instances" => InstancesShow(x, Scope)
    BY <1>1, <2>2 DEF InstancesShow
  <2> QED BY <2>3, <2>4 DEF CustomResourcesInv
<1>4. CASE InstancesAnswered
  <2>1. InFlight(c.instanceRequest) /\ c.view = "instances"
    BY <1>4 DEF InstancesAnswered, AcceptsInstances, Current
  <2>2. PICK instances \in {Nothing} \cup [context : c.instanceRequest.reads, namespace : {namespace}] :
          x = [c EXCEPT !.instanceRequest = Nothing, !.loading = FALSE, !.failed = instances = Nothing,
                        !.instances = instances]
    BY <1>4 DEF InstancesAnswered
  <2>3. x.view = "instances" /\ x.instanceRequest = Nothing /\ ~x.loading /\ x.instances = instances
    BY <1>0, <2>1, <2>2 DEF CustomResourceScreens
  <2>4. c.instanceRequest.reads = {connection}
    BY <1>0, <1>1, <2>1 DEF InstancesShow
  <2>5. instances \in {Nothing, Scope}
    BY <2>4 DEF Scope
  <2>6. InstancesShow(x, Scope)
    BY <2>3, <2>5 DEF InstancesShow, InFlight
  <2> QED BY <2>3, <2>6 DEF CustomResourcesInv
<1>5. CASE InstancesDropped
  <2>1. c.view = "instances" => ~CurrentIn(c.instanceRequest, Scope)
    BY <1>0, <1>5 DEF InstancesDropped, AcceptsInstances, Current, CurrentIn
  <2>2. /\ x.view = c.view /\ x.listRequest = c.listRequest /\ x.loading = c.loading /\ x.left = c.left
        /\ x.list = c.list /\ x.instances = c.instances /\ x.instanceRequest = Nothing
    BY <1>0, <1>5 DEF InstancesDropped, CustomResourceScreens
  <2>3. x.view = "list" => ListShows(x, Scope)
    BY <1>1, <2>2 DEF ListShows
  <2>4. x.view = "instances" => InstancesShow(x, Scope)
    BY <1>1, <2>1, <2>2 DEF InstancesShow, InFlight
  <2> QED BY <2>3, <2>4 DEF CustomResourcesInv
<1>6. CASE OpenDefinition
  <2>1. x.view = "instances" /\ x.loading /\ x.instanceRequest = Asked(Nothing, Scope)
    BY <1>0, <1>6 DEF OpenDefinition, CustomResourceScreens
  <2>2. CurrentIn(Asked(Nothing, Scope), Scope) /\ Asked(Nothing, Scope).reads = {Scope.context}
    BY <1>0, RequestsOfScope, AskedIsSent, FrameConstants
  <2> QED BY <2>1, <2>2 DEF CustomResourcesInv, InstancesShow
<1>7. CASE BackToList
  <2>1. /\ x.view = "list" /\ x.listRequest = c.listRequest /\ x.loading = c.loading /\ x.list = c.list
        /\ x.left = (IF c.loading THEN {"early"} ELSE {}) \cup (IF FormerList THEN {"former"} ELSE {})
    BY <1>0, <1>7 DEF BackToList, CustomResourceScreens
  <2>2. /\ c.loading => "early" \in x.left
        /\ FormerList => "former" \in x.left
    BY <2>1
  <2>3. ListShows(x, Scope)
    BY <1>0, <2>1, <2>2 DEF ListShows, FormerList
  <2> QED BY <2>1, <2>3 DEF CustomResourcesInv
<1>8. CASE RefreshCustomResources
  <2> DEFINE ready == [c EXCEPT !.loading = TRUE]
  <2>1. ready \in CustomResourceScreens /\ ready.loading
    BY <1>0 DEF CustomResourceScreens
  <2>2. x = FetchedView(ready, Scope)
    BY <1>8 DEF RefreshCustomResources
  <2> HIDE DEF ready
  <2> QED BY <1>0, <2>1, <2>2, FetchedViewHolds
<1> QED BY <1>2, <1>3, <1>4, <1>5, <1>6, <1>7, <1>8 DEF CustomResourceSteps

\* The steps of the root keep the custom resources as they must be.
LEMMA RootHoldsCustomResources ==
    TypeOK /\ CustomResourcesHold /\ RootSteps => CustomResourcesHold'
<1> DEFINE Holds == CustomResourcesInv(crds', screen', switching', Scope')
<1> SUFFICES ASSUME TypeOK, CustomResourcesHold, RootSteps PROVE Holds
  BY DEF CustomResourcesHold
<1>0. crds \in CustomResourceScreens /\ Scope \in Scopes
  BY ScopeIsScope DEF TypeOK
<1>1. ASSUME screen' # "crds" \/ switching' # "no" PROVE Holds
  BY <1>1 DEF CustomResourcesInv
<1>2. ASSUME NEW b, Navigates(b) PROVE Holds
  <2>1. Scope' = Scope
    BY <1>2, ScopeStays DEF Navigates
  <2>2. CASE screen' = "crds"
    BY <1>0, <1>2, <2>1, <2>2, ActivatedCustomResourcesHold DEF Navigates
  <2> QED BY <1>1, <2>2
<1>3. ASSUME NEW to \in Namespaces, Renames(to) PROVE Holds
  <2> DEFINE shut == IF screen = "crds" THEN DeactivatedCustomResources(crds) ELSE crds
             told == RenamedCustomResources(shut, namespace, to)
             scope == [context |-> connection, namespace |-> to]
  <2>1. scope \in Scopes /\ Scope' = scope /\ screen' = screen
    BY <1>3 DEF Renames, Scopes, Scope, TypeOK, FrameTypes
  <2>2. crds' = IF screen = "crds" THEN ActivatedCustomResources(told, scope) ELSE told
    BY <1>3 DEF Renames
  <2> HIDE DEF scope
  <2>3. shut \in CustomResourceScreens
    BY <1>0, <2>1, CustomResourceCallsType
  <2> HIDE DEF shut
  <2>4. told \in CustomResourceScreens
    BY <2>1, <2>3, CustomResourceCallsType
  <2> HIDE DEF told
  <2>5. CASE screen = "crds"
    BY <2>1, <2>2, <2>4, <2>5, ActivatedCustomResourcesHold
  <2> QED BY <1>1, <2>1, <2>5
<1>4. ASSUME SelectContext \/ \E context \in Contexts : Connect(context) PROVE Holds
  BY <1>1, <1>4 DEF SelectContext, Connect
<1>5. ASSUME ContextSwitchFailed PROVE Holds
  <2>1. Scope' = Scope /\ screen' = screen
    BY <1>5, ScopeStays DEF ContextSwitchFailed
  <2>2. CASE screen = "crds"
    BY <1>0, <1>5, <2>1, <2>2, FailureStarts, ActivatedCustomResourcesHold
  <2> QED BY <1>1, <2>1, <2>2
<1>6. ASSUME UNCHANGED frameVars, crds' = crds PROVE Holds
  BY <1>6, ScopeStays DEF frameVars, CustomResourcesHold
<1> QED BY <1>2, <1>3, <1>4, <1>5, <1>6, RootStepsAre DEF screenVars

\* What is shown of the custom resources is of the scope of the root, or esc came back to it too early.
THEOREM CustomResourcesStaySound == Spec => []CustomResourcesHold
<1>1. Init => CustomResourcesHold
  BY DEF Init, FrameInit, CustomResourcesHold, CustomResourcesInv, Elsewhere
<1>2. TypeOK /\ CustomResourcesHold /\ [Next]_vars => CustomResourcesHold'
  <2> SUFFICES ASSUME TypeOK, CustomResourcesHold, [Next]_vars PROVE CustomResourcesHold'
    OBVIOUS
  <2>1. UNCHANGED frameVars => Scope' = Scope /\ screen' = screen /\ switching' = switching
    BY ScopeStays DEF frameVars
  <2>2. CASE RootSteps
    BY <2>2, RootHoldsCustomResources
  <2>3. CASE CustomResourceSteps
    BY <2>1, <2>3, CustomResourceStepsHold, ScreensMoveAlone DEF CustomResourcesHold
  <2>4. CASE UNCHANGED frameVars /\ crds' = crds
    BY <2>1, <2>4 DEF CustomResourcesHold
  <2> QED BY <2>2, <2>3, <2>4, ScreensMoveAlone DEF Next, vars, screenVars
<1> QED BY <1>1, <1>2, TypeCorrect, PTL DEF Spec

-----------------------------------------------------------------------------
(* What the screens promise together                                       *)

\* Only the screen on display watches the cluster, and outside a switch of the context in the scope
\* of the root: OnlyShownWatches.
THEOREM OnlyTheShownWatches == Spec => []OnlyShownWatches
<1>1. BrowserHolds /\ DashboardHolds => OnlyShownWatches
  <2> SUFFICES ASSUME BrowserHolds, DashboardHolds PROVE OnlyShownWatches
    OBVIOUS
  <2>1. BrowserWatches(browser, screen, switching, Scope) /\ DashboardWatches(dashboard, screen, switching, Scope)
    BY DEF BrowserHolds, BrowserInv, DashboardHolds, DashboardInv
  <2>2. switching = "no" => switching # "connected"
    OBVIOUS
  <2> QED BY <2>1, <2>2 DEF BrowserWatches, DashboardWatches, OnlyShownWatches
<1> QED BY <1>1, BrowserStaysSound, DashboardStaysSound, PTL

\* What screens that are not on display keep, and the search reads, is of this scope: HeldIsCurrent.
THEOREM WhatIsHeldIsCurrent == Spec => []HeldIsCurrent
<1>1. BrowserHolds /\ DashboardHolds => HeldIsCurrent
  <2> SUFFICES ASSUME BrowserHolds, DashboardHolds, switching = "no" PROVE HeldIsCurrent
    BY DEF HeldIsCurrent
  <2>1. BrowserKeeps(browser, "no", Scope) /\ DashboardKeeps(dashboard, "no", Scope)
    BY DEF BrowserHolds, BrowserInv, DashboardHolds, DashboardInv
  <2> QED BY <2>1 DEF BrowserKeeps, DashboardKeeps, HeldIsCurrent
<1> QED BY <1>1, BrowserStaysSound, DashboardStaysSound, PTL

\* Nothing of another cluster or namespace is shown as loaded: ShownIsCurrent.
THEOREM WhatIsShownIsCurrent == Spec => []ShownIsCurrent
<1>1. TypeOK /\ BrowserHolds /\ HelmHolds /\ CustomResourcesHold => ShownIsCurrent
  <2> SUFFICES ASSUME TypeOK, BrowserHolds, HelmHolds, CustomResourcesHold PROVE ShownIsCurrent
    OBVIOUS
  <2>1. Scope.context = connection /\ Scope.namespace = namespace
    BY DEF Scope
  <2>2. Heard("browser") => BrowserShows(browser, Scope)
    BY DEF Heard, BrowserHolds, BrowserInv
  <2>3. Fed(browser, Scope) => \/ Current(browser.fetch)
                               \/ browser.type \in LiveTypes /\ browser.live[browser.type] = Scope
    BY <2>1 DEF Fed, CurrentIn, Current
  <2>4. Heard("browser") /\ browser.table # Nothing /\ browser.table.scope # Scope =>
            browser.failed # "no" \/ Current(browser.fetch) \/
            (browser.type \in LiveTypes /\ browser.live[browser.type] = Scope)
    BY <2>2, <2>3 DEF BrowserShows
  <2>5. Heard("helm") => HelmShows(helm, switching, Scope)
    BY DEF Heard, HelmHolds, HelmInv
  <2>6. helm.visible => PopupShows(helm, Scope)
    BY DEF HelmHolds, HelmInv
  <2>7. Heard("crds") /\ crds.view = "list" => ListShows(crds, Scope)
    BY DEF Heard, CustomResourcesHold, CustomResourcesInv
  <2>8. Heard("crds") /\ crds.view = "instances" => InstancesShow(crds, Scope)
    BY DEF Heard, CustomResourcesHold, CustomResourcesInv
  <2>9. Heard("helm") /\ ~helm.loading => helm.releases \in {Nothing, Scope}
    BY <2>5 DEF HelmShows
  <2>10. Heard("helm") /\ helm.visible /\ ~helm.valuesLoading =>
            helm.values \in {Nothing, [release |-> helm.release, context |-> connection]}
    BY <2>1, <2>6 DEF PopupShows
  <2>11. Heard("crds") /\ ~crds.loading /\ crds.view = "instances" => crds.instances \in {Nothing, Scope}
    BY <2>8 DEF InstancesShow
  <2>12. Heard("crds") /\ ~crds.loading /\ crds.view = "list" =>
            crds.list \in {Nothing, connection} \/ "former" \in crds.left
    BY <2>1, <2>7 DEF ListShows
  <2> QED BY <2>4, <2>9, <2>10, <2>11, <2>12 DEF ShownIsCurrent
<1> QED BY <1>1, TypeCorrect, BrowserStaysSound, HelmStaysSound, CustomResourcesStaySound, PTL

\* What a screen says it is loading is on its way to it: ShownIsFed.
THEOREM WhatIsShownIsFed == Spec => []ShownIsFed
<1>1. TypeOK /\ BrowserHolds /\ DashboardHolds /\ HelmHolds /\ CustomResourcesHold => ShownIsFed
  <2> SUFFICES ASSUME TypeOK, BrowserHolds, DashboardHolds, HelmHolds, CustomResourcesHold PROVE ShownIsFed
    OBVIOUS
  <2>1. \A request : CurrentIn(request, Scope) <=> Current(request)
    BY DEF Scope, CurrentIn, Current
  <2>2. Heard("browser") /\ browser.loading =>
            browser.sought \/ browser.operation # "none" \/ Current(browser.fetch) \/
            (browser.type \in LiveTypes /\ browser.live[browser.type] = Scope)
    BY <2>1 DEF Heard, BrowserHolds, BrowserInv, BrowserShows, Fed
  <2>3. /\ Heard("dashboard") /\ dashboard.loading => dashboard.live[Pods] = Scope
        /\ dashboard.healthLoading => Current(dashboard.health)
    BY <2>1 DEF Heard, DashboardHolds, DashboardInv, DashboardWatches, DashboardKeeps
  <2>4. Heard("helm") /\ helm.loading => Current(helm.request)
    BY <2>1 DEF Heard, HelmHolds, HelmInv, HelmShows
  <2>5. Heard("helm") /\ helm.visible /\ helm.valuesLoading => AcceptsValues
    BY DEF HelmHolds, HelmInv, PopupShows, AcceptsValues
  <2>6. Heard("crds") /\ crds.loading => AcceptsList \/ AcceptsInstances \/ "early" \in crds.left
    <3> SUFFICES ASSUME Heard("crds"), crds.loading
                 PROVE  AcceptsList \/ AcceptsInstances \/ "early" \in crds.left
      OBVIOUS
    <3>1. crds.view = "list" \/ crds.view = "instances"
      BY DEF TypeOK, CustomResourceScreens
    <3> QED BY <2>1, <3>1 DEF Heard, CustomResourcesHold, CustomResourcesInv, ListShows, InstancesShow,
                              AcceptsList, AcceptsInstances
  <2> QED BY <2>2, <2>3, <2>4, <2>5, <2>6 DEF ShownIsFed
<1> QED BY <1>1, TypeCorrect, BrowserStaysSound, DashboardStaysSound, HelmStaysSound,
           CustomResourcesStaySound, PTL

=============================================================================
