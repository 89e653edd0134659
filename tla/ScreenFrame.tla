---------------------------- MODULE ScreenFrame ----------------------------
(***************************************************************************)
(* What the screens of cluster data share: the part of the root model that *)
(* says which one is on display and of which cluster and namespace         *)
(* (internal/ui), and the requests they send.                              *)
(*                                                                         *)
(* A screen is a record, and what the root does to it an operator on that  *)
(* record: SetNamespace after Deactivate is an application of the one to   *)
(* the other.  An operator named in the plural returns the set of records  *)
(* that may result.                                                        *)
(***************************************************************************)
EXTENDS Naturals, FiniteSets

CONSTANTS
    Contexts, Namespaces,   \* all namespaces at once, the empty name, may be one of them
    Tours,                  \* bound: the sets of screens that one behaviour visits
    Nothing

Screens == {"dashboard", "browser", "helm", "crds"}
Elsewhere == "elsewhere"    \* the logs and the analysis: they show nothing of what is modelled here
Scopes == [context : Contexts, namespace : Namespaces]

\* Requests that were sent, of a kind that asks about one of the given things.
Sent(abouts) == [about : abouts, namespace : Namespaces, reads : SUBSET Contexts,
                 step : {"newest", "outdated"}]

ASSUME FrameConstants ==
    /\ Tours \subseteq SUBSET Screens /\ Contexts # {} /\ Namespaces # {}
    /\ Nothing \notin Scopes /\ Nothing \notin Contexts /\ Nothing \notin Sent({Nothing})

VARIABLES
    screen, prevScreen,     \* RootModel.screen, RootModel.prevScreen
    namespace,              \* RootModel.namespace: every screen has been told it
    connection,             \* the context of the runtime's connection, which the readers read from
    switching,              \* "no", or how far a switch of the context is that the root waits for
    tour                    \* the screens this behaviour visits

frameVars == <<screen, prevScreen, namespace, connection, switching, tour>>

FrameTypes ==
    /\ screen \in Screens \cup {Elsewhere} /\ prevScreen \in Screens \cup {Elsewhere}
    /\ namespace \in Namespaces /\ connection \in Contexts
    /\ switching \in {"no", "connecting", "connected"} /\ tour \in Tours

FrameInit ==
    /\ tour \in Tours /\ screen = Elsewhere /\ prevScreen = "dashboard"
    /\ namespace \in Namespaces /\ connection \in Contexts /\ switching = "no"

Scope == [context |-> connection, namespace |-> namespace]

\* handleRootKey and handleMouse drop what is typed and clicked while the context is switched.
Heard(s) == screen = s /\ switching = "no"

-----------------------------------------------------------------------------
(* Requests                                                                *)

\* A request carries the number it was given and what it asks about; it is answered from the
\* connection there is when it is read, any of those since it was sent.  Of each kind the latest is
\* kept: the answers to all before it are dropped for their numbers.
Requests(abouts) == {Nothing} \cup Sent(abouts)

Asked(about, scope) ==
    [about |-> about, namespace |-> scope.namespace, reads |-> {scope.context}, step |-> "newest"]

\* A number is given without a request.
Outdated(request) == IF request = Nothing THEN Nothing ELSE [request EXCEPT !.step = "outdated"]

\* The connection is replaced under a request.
Rerouted(request, context) ==
    IF request = Nothing THEN Nothing ELSE [request EXCEPT !.reads = @ \cup {context}]

InFlight(request) == request # Nothing /\ request.step = "newest"

\* The number and the namespace every answer is compared with.
Current(request) == InFlight(request) /\ request.namespace = namespace
=============================================================================
