--------------------------- MODULE ClientSessions ---------------------------
(***************************************************************************)
(* One call of a command to the cluster manager (internal/kube), from the  *)
(* goroutine of the command (internal/ui/cluster) to its result: the       *)
(* clients it takes while connections come and go, the context it is bound *)
(* to, and the requests it makes, some of them beside each other.          *)
(*                                                                         *)
(* A request acts on the cluster of its connection when the API server     *)
(* serves it; the answer may be lost on its way back.  A request that is   *)
(* served after its client gave up is as one that was served just before.  *)
(***************************************************************************)
EXTENDS Naturals, Sequences, SequencesExt

CONSTANTS
    Calls,              \* bound: the calls that the behaviours are about
    Selections,         \* bound: the sets of rows that may be marked
    Limit,              \* maximumConcurrentMutations
    LastConnection      \* bound on the connections

Writes == {"delete", "restart", "scale", "deleteBatch", "restartBatch"}
Batches == {"deleteBatch", "restartBatch"}
Resolving == {"delete", "deleteBatch", "yaml"}              \* need the mapping of a resource
Unlinked == {"list", "rbac", "snapshot"}                    \* end with their command alone
Openings == {"observe", "shell"}                             \* send nothing before they return
Untimed == {"releases", "values"}                            \* have no limit of time of their own
AllCalls == Writes \cup Unlinked \cup Openings \cup {"yaml", "containers", "logs", "releases", "values"}

Sections == <<"pods", "deployments", "services", "events", "nodes">>
AccessLists == <<"serviceAccounts", "roles", "roleBindings", "clusterRoles", "clusterRoleBindings">>

\* A row: its name, and its place, which is its kind and its namespace.
Rows == [place : Nat, name : Nat]

ASSUME SessionConstants ==
    /\ Calls \subseteq AllCalls /\ Selections \subseteq SUBSET Rows
    /\ \A rows \in Selections : IsFiniteSet(rows) /\ rows # {}
    /\ Limit \in Nat \ {0} /\ LastConnection \in Nat

VARIABLES
    connection,     \* the connection of the manager, 0 before the first
    call,
    marked,         \* the rows that are to be changed
    stage,          \* "asked", "resolving", "calling", or "returned"
    session,        \* the connection whose clients the call took
    ended,          \* "no", or what ended the context of the call
    part,           \* each request: how far it is, of which connection, and its result
    outcome         \* what the call returned

sessionVars == <<connection, call, marked, stage, session, ended, part, outcome>>
asked == <<call, marked>>

-----------------------------------------------------------------------------
(* What is asked for                                                       *)

\* A set of numbers in their order: the place of each is the number of those before it.
Ascending(numbers) ==
    [i \in 1..Cardinality(numbers) |->
        CHOOSE n \in numbers : Cardinality({m \in numbers : m < n}) = i - 1]

\* selectedNames, sorted: a name that is marked in two places is there twice.
Before(a, b) == a.name < b.name \/ (a.name = b.name /\ a.place < b.place)
SelectedNames(rows) ==
    [i \in 1..Cardinality(rows) |->
        (CHOOSE row \in rows : Cardinality({other \in rows : Before(other, row)}) = i - 1).name]

\* A fault to be told apart: only names that clash are refused.
ClashingSelection ==
    call \in Batches /\ \E a, b \in marked : a.place # b.place /\ a.name = b.name

\* selectedBatchIdentity: a batch is of one kind, in one namespace.
MixedSelection == call \in Batches /\ \E a, b \in marked : a.place # b.place

\* The requests that one call makes beside each other, in the order of the code.
Parts ==
    CASE call \in Writes -> SelectedNames(marked)
      [] call = "snapshot" -> Sections
      [] call = "rbac" -> AccessLists
      [] call \in Openings -> <<>>
      [] OTHER -> <<"only">>

\* The row that a request of a write is about.
Target(p) == [place |-> (CHOOSE row \in marked : TRUE).place, name |-> Parts[p]]

\* validateBatch.
ValidBatch == call \in Batches => Parts # <<>> /\ IsInjective(Parts)

NoOutcome == [error |-> "none", succeeded |-> <<>>, failed |-> <<>>]
Results == {"none", "ok", "forbidden", "notFound", "conflict", "unavailable", "canceled", "deadline",
            "noMatch", "noClient", "sensitive", "invalid", "tooLong", "mixed", "badRequest"}

SessionTypes ==
    /\ connection \in 0..LastConnection /\ session \in 0..LastConnection
    /\ call \in Calls /\ marked \in Selections \cup {{}}
    /\ stage \in {"asked", "resolving", "calling", "returned"}
    /\ ended \in {"no", "canceled", "deadline"}
    /\ part \in [DOMAIN Parts -> [step : {"idle", "sent", "served", "done"},
                                on : 0..LastConnection, result : Results]]
    /\ outcome.error \in Results

SessionInit ==
    /\ connection \in 0..LastConnection \cap {0, 1} /\ call \in Calls /\ stage = "asked"
    /\ marked \in CASE call \in Batches -> Selections
                    [] call \in Writes \ Batches -> {rows \in Selections : Cardinality(rows) = 1}
                    [] OTHER -> {{}}
    /\ session = 0 /\ ended = "no" /\ outcome = NoOutcome
    /\ part = [p \in DOMAIN Parts |-> [step |-> "idle", on |-> 0, result |-> "none"]]

-----------------------------------------------------------------------------
(* Failures                                                                *)

InvalidArgumentErrors == {"badRequest"}
InternalErrors == {"invalid"}

\* classifyError, of the errors a call may end with: the program's own before those of the API server.
FailureCode(error) ==
    CASE error = "canceled" -> "canceled"
      [] error = "deadline" -> "deadline_exceeded"
      [] error \in InvalidArgumentErrors -> "invalid_argument"
      [] error \in {"sensitive", "forbidden"} -> "permission_denied"
      [] error \in InternalErrors -> "internal"
      [] error \in {"noClient", "unavailable"} -> "unavailable"
      [] error = "notFound" -> "not_found"
      [] error = "conflict" -> "conflict"
      [] OTHER -> "unknown"

\* CodeOf an error that was joined: errors.As finds the first that has a code, and it stands for all.
Joined(results) ==
    LET failed == {i \in DOMAIN results : results[i] # "ok"}
    IN IF failed = {} THEN "ok" ELSE results[Min(failed)]

\* newError of errors that were joined takes the code of all of them: one of the program's own goes
\* before those of the API server, whichever comes first, and "unavailable" may be of either.
Classified(results) ==
    IF "noClient" \in Range(results) THEN {"noClient"}
    ELSE {Joined(results)} \cup ({"unavailable"} \cap Range(results))

AccessDenied(error) == error # "ok" /\ FailureCode(error) = "permission_denied"

-----------------------------------------------------------------------------
(* The session and its context                                             *)

Return(error, succeeded, failed) ==
    /\ stage' = "returned"
    /\ outcome' = [error |-> error, succeeded |-> succeeded, failed |-> failed]

\* executeConfirmedResourceAction shows what is wrong with the rows, and makes no command.
RefuseSelection ==
    /\ stage = "asked" /\ MixedSelection /\ Return("mixed", <<>>, <<>>)
    /\ UNCHANGED <<connection, asked, session, ended, part>>

\* clientSession, or Clients of the calls that are not linked, once the request is valid.
ClientSession ==
    /\ stage = "asked" /\ call # "snapshot" /\ ~MixedSelection
    /\ session' = connection
    /\ IF ~ValidBatch THEN Return("badRequest", <<>>, <<>>)
       ELSE IF connection = 0 THEN Return("noClient", <<>>, <<>>)
       ELSE stage' = (IF call \in Resolving THEN "resolving" ELSE "calling") /\ UNCHANGED outcome
    /\ UNCHANGED <<connection, asked, ended, part>>

Running == stage \in {"resolving", "calling"}

\* Manager.Connect, for a context the user selected meanwhile.
Connect ==
    /\ connection < LastConnection /\ connection' = connection + 1
    /\ UNCHANGED <<asked, stage, session, ended, part, outcome>>

\* linkedContext: the end of the connection reaches the call in a goroutine of its own.
LinkFires ==
    /\ Running /\ call \notin Unlinked /\ session # connection /\ ended = "no"
    /\ ended' = "canceled"
    /\ UNCHANGED <<connection, asked, stage, session, part, outcome>>

\* The limit of time of the command is over; the commands of the releases set none.
Expire ==
    /\ Running /\ call \notin Openings \cup Untimed /\ ended = "no" /\ ended' = "deadline"
    /\ UNCHANGED <<connection, asked, stage, session, part, outcome>>

-----------------------------------------------------------------------------
(* Requests                                                                *)

Sent(p) == part[p].step \in {"sent", "served"}

\* errgroup starts the names of a batch in order, no more than its limit at once; the goroutines of
\* the other calls start at once.
MayStart(p) ==
    /\ stage = "calling" /\ part[p].step = "idle"
    /\ call \in Batches =>
        /\ Cardinality({q \in DOMAIN Parts : Sent(q)}) < Limit
        /\ \A q \in 1..p - 1 : part[q].step # "idle"

\* A list of a snapshot takes its clients by itself; a request whose context has ended is not sent.
Send(p) ==
    /\ MayStart(p)
    /\ LET on == IF call = "snapshot" THEN connection ELSE session
       IN part' = [part EXCEPT ![p] =
                     IF ended # "no" THEN [step |-> "done", on |-> 0, result |-> ended]
                     ELSE IF on = 0 THEN [step |-> "done", on |-> 0, result |-> "noClient"]
                     ELSE [step |-> "sent", on |-> on, result |-> "none"]]
    /\ UNCHANGED <<connection, asked, stage, session, ended, outcome>>

\* What ends a request: an answer, its loss, or the end of the context.
Answered(p, result) ==
    part' = [part EXCEPT ![p] = [@ EXCEPT !.step = "done", !.result = result]]

\* A fault to be told apart: the storage of the releases is not given the context.
GiveUpWithContext(p) ==
    /\ Sent(p) /\ ended # "no" /\ call # "releases" /\ Answered(p, ended)
    /\ UNCHANGED <<connection, asked, stage, session, ended, outcome>>

\* The client gives a request up when its context ends.
GiveUp(p) ==
    /\ Sent(p) /\ ended # "no" /\ Answered(p, ended)
    /\ UNCHANGED <<connection, asked, stage, session, ended, outcome>>

AllDone == stage = "calling" /\ \A p \in DOMAIN Parts : part[p].step = "done"
ResultsInOrder == [p \in DOMAIN Parts |-> part[p].result]

\* BatchOutcome: the names, in their order.
Reported(numbers) == [i \in DOMAIN Ascending(numbers) |-> Parts[Ascending(numbers)[i]]]
Succeeded == Reported({p \in DOMAIN Parts : part[p].result = "ok"})
Failed == Reported({p \in DOMAIN Parts : part[p].result # "ok"})
=============================================================================
