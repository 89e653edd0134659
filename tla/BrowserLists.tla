---------------------------- MODULE BrowserLists ---------------------------
(***************************************************************************)
(* The lists of the browser (internal/ui/screen/browser): the rows it      *)
(* keeps of each type of resource, the live sets and requests that feed    *)
(* them, and the table that is drawn from them.  What it does with a row   *)
(* is the module BrowserDialog.                                            *)
(***************************************************************************)
EXTENDS ScreenFrame

CONSTANTS
    LiveTypes,              \* the types that are observed
    FetchedTypes            \* the types that are listed once

Types == LiveTypes \cup FetchedTypes

ASSUME TypesApart == LiveTypes \cap FetchedTypes = {} /\ Nothing \notin Sent(Types)

VARIABLE browser

Rows == {Nothing} \cup Scopes
Browsers ==
    [active : BOOLEAN, type : Types, loading : BOOLEAN, failed : {"no", "error", "denied"},
     rows : [Types -> Rows],            \* the scope the rows of a type are from
     table : {Nothing} \cup [type : Types, scope : Scopes],
     live : [LiveTypes -> Rows],        \* the scope of the live set the supervisor owns
     fetch : Requests(Types),           \* of fetchCurrentResources
     operation : {"none", "read", "change"},    \* of the user, on a row
     sought : BOOLEAN]                  \* history: a search changed the type and loaded nothing

NewBrowser(type) ==
    [active |-> FALSE, type |-> type, loading |-> TRUE, failed |-> "no",
     rows |-> [t \in Types |-> Nothing], table |-> Nothing, live |-> [t \in LiveTypes |-> Nothing],
     fetch |-> Nothing, operation |-> "none", sought |-> FALSE]

-----------------------------------------------------------------------------
(* The handlers                                                            *)

\* rebuildTable, refreshRows: the rows there are of the type it shows.
Redrawn(b) == [b EXCEPT !.table = IF b.rows[b.type] = Nothing THEN Nothing
                                  ELSE [type |-> b.type, scope |-> b.rows[b.type]]]

StopAllLiveSets(b) == [b EXCEPT !.live = [t \in LiveTypes |-> Nothing]]

\* applyListError: the rows that are drawn stay.
FailedLists(b) == {[b EXCEPT !.loading = FALSE, !.failed = why] : why \in {"error", "denied"}}

\* loadCurrentResource: the live set of the type takes the place of the one before, or cannot be
\* made and leaves that one; a type that is not observed is fetched.
Loads(b, scope) ==
    LET asked == [b EXCEPT !.loading = TRUE, !.sought = FALSE]
    IN  IF b.type \in LiveTypes
        THEN {[asked EXCEPT !.live[b.type] = scope]} \cup FailedLists(asked)
        ELSE {[asked EXCEPT !.fetch = Asked(b.type, scope)]}

ActivatedBrowsers(b, scope) == Loads([b EXCEPT !.active = TRUE], scope)

DeactivatedBrowser(b) == [StopAllLiveSets(b) EXCEPT !.active = FALSE]

\* A fault to be told apart: an answer of the old namespace is still expected.
RenamedBrowserExpecting(b) ==
    [StopAllLiveSets(b) EXCEPT !.rows = [t \in Types |-> Nothing], !.loading = TRUE, !.failed = "no"]

\* SetNamespace: the table keeps its rows until it is drawn again.
RenamedBrowser(b) ==
    [StopAllLiveSets(b) EXCEPT !.fetch = Outdated(@), !.rows = [t \in Types |-> Nothing],
                               !.loading = TRUE, !.failed = "no"]

\* A fault to be told apart: the live set of the type before goes on.
RetypedBrowserWatching(b, type) ==
    IF b.type = type THEN b
    ELSE Redrawn([b EXCEPT !.type = type, !.loading = TRUE, !.fetch = Outdated(@)])

\* SetResourceType.
RetypedBrowser(b, type) ==
    IF b.type = type THEN b
    ELSE Redrawn([StopAllLiveSets(b) EXCEPT !.type = type, !.loading = TRUE, !.fetch = Outdated(@)])

\* The rows of a type have come: applyTypedFetchResult, or a live set that is ready.
Listed(b, type, scope) ==
    Redrawn([b EXCEPT !.rows[type] = scope, !.loading = FALSE, !.failed = "no"])

-----------------------------------------------------------------------------
(* Messages and keys                                                       *)

\* applyBrowserLiveState: the state of the set, which may not be ready; the next one is waited for.
BrowserSnapshot(type) ==
    LET set == browser.live[type]
    IN  /\ set # Nothing
        /\ browser' \in IF browser.type # type THEN {[browser EXCEPT !.live[type] = Nothing]}
                        ELSE FailedLists(browser) \cup
                             {[browser EXCEPT !.failed = "no"], Listed(browser, type, set)}
        /\ UNCHANGED frameVars

\* handleLiveSetClosed.
BrowserSetCloses(type) ==
    LET stopped == [browser EXCEPT !.live[type] = Nothing]
    IN  /\ browser.live[type] # Nothing
        /\ browser' \in IF browser.active /\ browser.type = type THEN FailedLists(stopped) ELSE {stopped}
        /\ UNCHANGED frameVars

\* acceptsFetchResult.
AcceptsFetch == Current(browser.fetch) /\ browser.fetch.about = browser.type

FetchAnswered ==
    LET heard == [browser EXCEPT !.fetch = Nothing]
    IN  /\ AcceptsFetch
        /\ \/ \E context \in browser.fetch.reads :
                browser' = Listed(heard, browser.type, [context |-> context, namespace |-> namespace])
           \/ browser' \in FailedLists(heard)
        /\ UNCHANGED frameVars

FetchDropped ==
    /\ browser.fetch # Nothing /\ ~AcceptsFetch /\ browser' = [browser EXCEPT !.fetch = Nothing]
    /\ UNCHANGED frameVars

\* The keys of cycleResourceType and selectResourceTypeShortcut and a click on the title bar.
ChangeType(type) ==
    /\ Heard("browser") /\ type # browser.type
    /\ browser' \in Loads(RetypedBrowser(browser, type), Scope)
    /\ UNCHANGED frameVars

RefreshBrowser == Heard("browser") /\ browser' \in Loads(browser, Scope) /\ UNCHANGED frameVars

\* A key that rebuilds the table (a filter, a mark, the wide columns), and SetSize of every screen.
RedrawBrowser == browser' = Redrawn(browser) /\ UNCHANGED frameVars

\* describeSelectedResource, fetchSelectedResourceEvents and fetchSelectedResourceYAML ("read"),
\* confirmScale and executeConfirmedResourceAction ("change"); bound: one is under way at a time.
Operate(kind) ==
    /\ Heard("browser") /\ browser.table # Nothing /\ browser.operation = "none"
    /\ browser' = [browser EXCEPT !.loading = TRUE, !.operation = kind]
    /\ UNCHANGED frameVars

\* updateActiveScreenValue: the screen on display is given the result, and no other drops it for the
\* browser.  Every result ends the loading that is shown; a change that succeeded loads the list.
OperationEnds ==
    LET ended == [browser EXCEPT !.operation = "none"]
    IN  /\ browser.operation # "none"
        /\ browser' \in IF screen # "browser" THEN {ended}
                        ELSE {[ended EXCEPT !.loading = FALSE]} \cup
                             (IF browser.operation = "change" THEN Loads(ended, Scope) ELSE {})
        /\ UNCHANGED frameVars

BrowserSteps ==
    \/ \E type \in LiveTypes : BrowserSnapshot(type) \/ BrowserSetCloses(type)
    \/ FetchAnswered \/ FetchDropped \/ RefreshBrowser \/ RedrawBrowser \/ OperationEnds
    \/ \E type \in Types : ChangeType(type)
    \/ \E kind \in {"read", "change"} : Operate(kind)
=============================================================================
