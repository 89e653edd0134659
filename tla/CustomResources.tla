-------------------------- MODULE CustomResources --------------------------
(***************************************************************************)
(* The screen of custom resources (internal/ui/screen/crds): the list of   *)
(* their definitions, which belong to a cluster, and the instances of one  *)
(* definition, which belong to a namespace of it.                          *)
(***************************************************************************)
EXTENDS ScreenFrame

VARIABLE crds

CustomResourceScreens ==
    [inited : BOOLEAN, view : {"list", "instances"}, loading : BOOLEAN, failed : BOOLEAN,
     list : {Nothing} \cup Contexts, instances : {Nothing} \cup Scopes,
     listRequest : Requests({Nothing}), instanceRequest : Requests({Nothing}),
     \* history: what was amiss when esc came back to the list, until the list is asked for again:
     \* what was loading has not come, the list or an answer to come is of a former context
     left : SUBSET {"early", "former"}]

NewCustomResources ==
    [inited |-> FALSE, view |-> "list", loading |-> TRUE, failed |-> FALSE, list |-> Nothing,
     instances |-> Nothing, listRequest |-> Nothing, instanceRequest |-> Nothing, left |-> {}]

-----------------------------------------------------------------------------
(* The handlers                                                            *)

\* fetchCurrentView: fetchCRDList or fetchCRDInstances of the definition that was opened.
FetchedView(c, scope) ==
    IF c.view = "list" THEN [c EXCEPT !.listRequest = Asked(Nothing, scope), !.left = {}]
    ELSE [c EXCEPT !.instanceRequest = Asked(Nothing, scope)]

\* Init, the first time (loading is TRUE then and the list on display), and Activate.
ActivatedCustomResources(c, scope) ==
    FetchedView([c EXCEPT !.inited = TRUE, !.loading = TRUE], scope)

DeactivatedCustomResources(c) == [c EXCEPT !.loading = FALSE]

\* SetNamespace: both numbers are given, and the root drops the command of the request.
RenamedCustomResources(c, from, to) ==
    IF from = to THEN c
    ELSE [c EXCEPT !.instances = Nothing, !.loading = TRUE,
                   !.listRequest = Outdated(@), !.instanceRequest = Outdated(@)]

-----------------------------------------------------------------------------
(* Messages and keys                                                       *)

\* acceptsResult.  The definition an answer names is the one that was opened, for its number is.
AcceptsList == Current(crds.listRequest) /\ crds.view = "list"
AcceptsInstances == Current(crds.instanceRequest) /\ crds.view = "instances"

\* applyCRDsResult.
ListAnswered ==
    /\ AcceptsList
    /\ \E list \in {Nothing} \cup crds.listRequest.reads :
        crds' = [crds EXCEPT !.listRequest = Nothing, !.loading = FALSE, !.failed = list = Nothing,
                             !.list = list]
    /\ UNCHANGED frameVars

ListDropped ==
    /\ crds.listRequest # Nothing /\ ~AcceptsList /\ crds' = [crds EXCEPT !.listRequest = Nothing]
    /\ UNCHANGED frameVars

\* applyCRDInstancesResult.
InstancesAnswered ==
    /\ AcceptsInstances
    /\ \E instances \in {Nothing} \cup [context : crds.instanceRequest.reads, namespace : {namespace}] :
        crds' = [crds EXCEPT !.instanceRequest = Nothing, !.loading = FALSE,
                             !.failed = instances = Nothing, !.instances = instances]
    /\ UNCHANGED frameVars

InstancesDropped ==
    /\ crds.instanceRequest # Nothing /\ ~AcceptsInstances
    /\ crds' = [crds EXCEPT !.instanceRequest = Nothing]
    /\ UNCHANGED frameVars

\* drillIntoSelected: a definition of the list there is, on display or behind the spinner.
OpenDefinition ==
    /\ Heard("crds") /\ crds.view = "list" /\ crds.list # Nothing
    /\ crds' = [crds EXCEPT !.view = "instances", !.instances = Nothing, !.loading = TRUE,
                            !.instanceRequest = Asked(Nothing, Scope)]
    /\ UNCHANGED frameVars

FormerList ==
    \/ crds.list \notin {Nothing, connection}
    \/ InFlight(crds.listRequest) /\ crds.listRequest.reads # {connection}

\* backToList: neither the list nor the end of its loading is asked for.
BackToList ==
    /\ Heard("crds") /\ crds.view = "instances"
    /\ crds' = [crds EXCEPT !.view = "list", !.instances = Nothing, !.instanceRequest = Outdated(@),
                            !.left = (IF crds.loading THEN {"early"} ELSE {}) \cup
                                     (IF FormerList THEN {"former"} ELSE {})]
    /\ UNCHANGED frameVars

RefreshCustomResources ==
    /\ Heard("crds") /\ crds' = FetchedView([crds EXCEPT !.loading = TRUE], Scope)
    /\ UNCHANGED frameVars

CustomResourceSteps ==
    \/ ListAnswered \/ ListDropped \/ InstancesAnswered \/ InstancesDropped
    \/ OpenDefinition \/ BackToList \/ RefreshCustomResources
=============================================================================
