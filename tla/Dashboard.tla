----------------------------- MODULE Dashboard -----------------------------
(***************************************************************************)
(* The dashboard (internal/ui/screen/dashboard): live sets of pods,        *)
(* deployments and events, the metrics of the pods, which a timer asks     *)
(* for, and a summary of the health of what is shown.                      *)
(***************************************************************************)
EXTENDS ScreenFrame

CONSTANTS
    Feeds, Pods             \* what is observed, and which of it the dashboard waits for

ASSUME PodsAreFed == Pods \in Feeds /\ Nothing \notin Sent(SUBSET Scopes)

VARIABLE dashboard

Dashboards ==
    [inited : BOOLEAN,                  \* RootModel.dashboardInited
     active : BOOLEAN, loading : BOOLEAN, failed : SUBSET Feeds,
     live : [Feeds -> {Nothing} \cup Scopes], rows : [Feeds -> {Nothing} \cup Scopes],
     metrics : {Nothing} \cup Scopes, fetch : Requests({Nothing}),
     tickPending : BOOLEAN, ticks : Nat,        \* metricsTickPending, and the ticks scheduled
     showHealth : BOOLEAN, healthLoading : BOOLEAN,
     summary : {Nothing} \cup SUBSET Scopes,    \* the scopes of the rows it was made from
     health : Requests(SUBSET Scopes)]

NewDashboard ==
    [inited |-> FALSE, active |-> FALSE, loading |-> TRUE, failed |-> {},
     live |-> [f \in Feeds |-> Nothing], rows |-> [f \in Feeds |-> Nothing],
     metrics |-> Nothing, fetch |-> Nothing, tickPending |-> TRUE, ticks |-> 0,
     showHealth |-> FALSE, healthLoading |-> FALSE, summary |-> Nothing, health |-> Nothing]

-----------------------------------------------------------------------------
(* The handlers                                                            *)

StopDashboardLiveSets(d) == [d EXCEPT !.live = [f \in Feeds |-> Nothing]]

\* startDashboardLiveSets: any of the sets may not be made.
StartedLiveSets(d, scope) ==
    {[d EXCEPT !.live = [f \in Feeds |-> IF f \in refused THEN Nothing ELSE scope],
               !.failed = refused, !.loading = @ /\ Pods \notin refused] : refused \in SUBSET Feeds}

\* refreshAll.
RefreshedDashboards(d, scope) ==
    LET asked == [d EXCEPT !.loading = TRUE, !.fetch = Asked(Nothing, scope)]
    IN  IF d.active THEN StartedLiveSets(asked, scope) ELSE {asked}

\* The root's first activation runs Init, which schedules the tick that NewDashboardModel promised.
InitDashboard(d) == IF d.inited THEN d ELSE [d EXCEPT !.inited = TRUE, !.ticks = @ + 1]

\* A fault to be told apart: every activation schedules a tick.
ActivatedDashboardsTicking(d, scope) ==
    LET ready == InitDashboard(d)
    IN  RefreshedDashboards([ready EXCEPT !.active = TRUE, !.tickPending = TRUE, !.ticks = @ + 1], scope)

ActivatedDashboards(d, scope) ==
    LET ready == InitDashboard(d)
    IN  RefreshedDashboards([ready EXCEPT !.active = TRUE, !.tickPending = TRUE,
                                          !.ticks = IF ready.tickPending THEN @ ELSE @ + 1], scope)

DeactivatedDashboard(d) == [StopDashboardLiveSets(d) EXCEPT !.active = FALSE]

\* A fault to be told apart: the answer to a summary is dropped and its loading goes on.
RenamedDashboardWaiting(d) ==
    [d EXCEPT !.rows = [f \in Feeds |-> Nothing], !.metrics = Nothing, !.loading = TRUE, !.failed = {},
              !.fetch = Outdated(@), !.health = Outdated(@), !.summary = Nothing]

\* SetNamespace of a dashboard that the root has deactivated, as it always has: the refresh asks for
\* the metrics under a new number, and the root drops the command that would send the request.
RenamedDashboard(d) ==
    [d EXCEPT !.rows = [f \in Feeds |-> Nothing], !.metrics = Nothing, !.loading = TRUE, !.failed = {},
              !.fetch = Outdated(@), !.health = Outdated(@), !.healthLoading = FALSE,
              !.summary = Nothing]

\* fetchHealthSummary, about the rows there are.
AskedForHealth(d, scope) ==
    [d EXCEPT !.healthLoading = TRUE,
              !.health = Asked({d.rows[f] : f \in Feeds} \ {Nothing}, scope)]

-----------------------------------------------------------------------------
(* Messages and keys                                                       *)

\* handlePodLivePayload and its two fellows: the error of the set, or its items once it is ready.
DashboardSnapshot(feed) ==
    LET failed  == [dashboard EXCEPT !.failed = @ \cup {feed}, !.loading = @ /\ feed # Pods]
        cleared == [dashboard EXCEPT !.failed = @ \ {feed}]
    IN  /\ dashboard.live[feed] # Nothing
        /\ dashboard' \in {failed, cleared, [cleared EXCEPT !.rows[feed] = dashboard.live[feed],
                                                            !.loading = @ /\ feed # Pods]}
        /\ UNCHANGED frameVars

\* handleDashboardLiveSetClosed.
DashboardSetCloses(feed) ==
    /\ dashboard.live[feed] # Nothing
    /\ dashboard' = [dashboard EXCEPT !.live[feed] = Nothing, !.failed = @ \cup {feed},
                                      !.loading = @ /\ feed # Pods]
    /\ UNCHANGED frameVars

\* handleDashboardMetricsTick.
MetricsTick ==
    /\ dashboard.ticks > 0
    /\ dashboard' = IF dashboard.active
                    THEN [dashboard EXCEPT !.tickPending = TRUE, !.fetch = Asked(Nothing, Scope)]
                    ELSE [dashboard EXCEPT !.tickPending = FALSE, !.ticks = @ - 1]
    /\ UNCHANGED frameVars

\* applyDashboardMetrics: a health summary on display is asked for again.
MetricsAnswered ==
    /\ Current(dashboard.fetch)
    /\ \E metrics \in {Nothing} \cup [context : dashboard.fetch.reads, namespace : {namespace}] :
        LET known == [dashboard EXCEPT !.fetch = Nothing, !.metrics = metrics]
        IN  dashboard' = IF known.showHealth /\ ~known.healthLoading
                         THEN AskedForHealth(known, Scope) ELSE known
    /\ UNCHANGED frameVars

MetricsDropped ==
    /\ dashboard.fetch # Nothing /\ ~Current(dashboard.fetch)
    /\ dashboard' = [dashboard EXCEPT !.fetch = Nothing]
    /\ UNCHANGED frameVars

\* applyDashboardHealth.
HealthAnswered ==
    /\ Current(dashboard.health)
    /\ \E summary \in {Nothing, dashboard.health.about} :
        dashboard' = [dashboard EXCEPT !.health = Nothing, !.healthLoading = FALSE, !.summary = summary]
    /\ UNCHANGED frameVars

HealthDropped ==
    /\ dashboard.health # Nothing /\ ~Current(dashboard.health)
    /\ dashboard' = [dashboard EXCEPT !.health = Nothing]
    /\ UNCHANGED frameVars

\* toggleDashboardHealth.
ToggleHealth ==
    LET toggled == [dashboard EXCEPT !.showHealth = ~@]
    IN  /\ Heard("dashboard")
        /\ dashboard' = IF toggled.showHealth /\ toggled.summary = Nothing /\ ~toggled.healthLoading
                        THEN AskedForHealth(toggled, Scope) ELSE toggled
        /\ UNCHANGED frameVars

HideHealth ==
    /\ Heard("dashboard") /\ dashboard' = [dashboard EXCEPT !.showHealth = FALSE]
    /\ UNCHANGED frameVars

RefreshDashboard ==
    /\ Heard("dashboard") /\ dashboard' \in RefreshedDashboards(dashboard, Scope)
    /\ UNCHANGED frameVars

DashboardSteps ==
    \/ \E feed \in Feeds : DashboardSnapshot(feed) \/ DashboardSetCloses(feed)
    \/ MetricsTick \/ MetricsAnswered \/ MetricsDropped \/ HealthAnswered \/ HealthDropped
    \/ ToggleHealth \/ HideHealth \/ RefreshDashboard
=============================================================================
