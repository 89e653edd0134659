---------------------------- MODULE HelmReleases ---------------------------
(***************************************************************************)
(* The helm screen (internal/ui/screen/helm): the list of releases and a   *)
(* popup with the values of one of them.                                   *)
(***************************************************************************)
EXTENDS ScreenFrame

CONSTANTS
    Releases                \* the names of releases

ASSUME ReleasesAreNamed == Nothing \notin Sent(Releases)

VARIABLE helm

Values == [release : Releases, context : Contexts]
Helms ==
    [inited : BOOLEAN, loading : BOOLEAN, failed : BOOLEAN,
     releases : {Nothing} \cup Scopes, request : Requests({Nothing}),
     visible : BOOLEAN, release : {Nothing} \cup Releases,      \* valuesPopupVisible, valuesPopupRelease
     valuesLoading : BOOLEAN, values : {Nothing} \cup Values, valuesRequest : Requests(Releases)]

NewHelm ==
    [inited |-> FALSE, loading |-> TRUE, failed |-> FALSE, releases |-> Nothing, request |-> Nothing,
     visible |-> FALSE, release |-> Nothing, valuesLoading |-> FALSE, values |-> Nothing,
     valuesRequest |-> Nothing]

-----------------------------------------------------------------------------
(* The handlers                                                            *)

\* A fault to be told apart: what was listed before is shown until the answer comes.
ActivatedHelmShowing(h, scope) == [h EXCEPT !.inited = TRUE, !.request = Asked(Nothing, scope)]

\* Init, the first time (loading is TRUE then), and Activate.
ActivatedHelm(h, scope) ==
    [h EXCEPT !.inited = TRUE, !.loading = TRUE, !.request = Asked(Nothing, scope)]

DeactivatedHelm(h) ==
    [h EXCEPT !.loading = FALSE, !.visible = FALSE, !.valuesRequest = Outdated(@)]

\* SetNamespace: both numbers are given, and the root drops the command of the request.
RenamedHelm(h, from, to) ==
    IF from = to THEN h
    ELSE [h EXCEPT !.releases = Nothing, !.loading = TRUE,
                   !.request = Outdated(@), !.valuesRequest = Outdated(@)]

-----------------------------------------------------------------------------
(* Messages and keys                                                       *)

\* applyHelmReleases.
ReleasesAnswered ==
    LET heard == [helm EXCEPT !.request = Nothing, !.loading = FALSE]
    IN  /\ Current(helm.request)
        /\ \/ \E context \in helm.request.reads :
                helm' = [heard EXCEPT !.failed = FALSE,
                                      !.releases = [context |-> context, namespace |-> namespace]]
           \/ helm' = [heard EXCEPT !.failed = TRUE, !.releases = Nothing]
        /\ UNCHANGED frameVars

ReleasesDropped ==
    /\ helm.request # Nothing /\ ~Current(helm.request) /\ helm' = [helm EXCEPT !.request = Nothing]
    /\ UNCHANGED frameVars

\* openValuesPopup: of a release there is, on display or behind the spinner.
OpenValues(release) ==
    /\ Heard("helm") /\ ~helm.visible /\ helm.releases # Nothing
    /\ helm' = [helm EXCEPT !.visible = TRUE, !.release = release, !.valuesLoading = TRUE,
                            !.values = Nothing, !.valuesRequest = Asked(release, Scope)]
    /\ UNCHANGED frameVars

\* handleKey, of esc in the popup.  The q it hears too is taken by the root, which quits.
CloseValues == Heard("helm") /\ helm.visible /\ helm' = [helm EXCEPT !.visible = FALSE] /\ UNCHANGED frameVars

\* acceptsResult and the two guards of applyHelmValues.
AcceptsValues == InFlight(helm.valuesRequest) /\ helm.visible /\ helm.valuesRequest.about = helm.release

ValuesAnswered ==
    /\ AcceptsValues
    /\ \E values \in {Nothing} \cup [release : {helm.valuesRequest.about},
                                     context : helm.valuesRequest.reads] :
        helm' = [helm EXCEPT !.valuesRequest = Nothing, !.valuesLoading = FALSE, !.values = values]
    /\ UNCHANGED frameVars

ValuesDropped ==
    /\ helm.valuesRequest # Nothing /\ ~AcceptsValues /\ helm' = [helm EXCEPT !.valuesRequest = Nothing]
    /\ UNCHANGED frameVars

RefreshHelm ==
    /\ Heard("helm") /\ ~helm.visible
    /\ helm' = [helm EXCEPT !.loading = TRUE, !.request = Asked(Nothing, Scope)]
    /\ UNCHANGED frameVars

HelmSteps ==
    \/ ReleasesAnswered \/ ReleasesDropped \/ CloseValues \/ ValuesAnswered \/ ValuesDropped \/ RefreshHelm
    \/ \E release \in Releases : OpenValues(release)
=============================================================================
