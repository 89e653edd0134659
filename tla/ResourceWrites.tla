--------------------------- MODULE ResourceWrites ---------------------------
(***************************************************************************)
(* Deleting, restarting and scaling (internal/kube/mutations.go), and the  *)
(* mapping of a resource that deleting and reading need                    *)
(* (internal/kube/resource_resolver.go).                                   *)
(***************************************************************************)
EXTENDS ClientSessions

CONSTANTS
    MaxAttempts,        \* the steps of retry.DefaultRetry
    MaxWrites,          \* bound on what others write to the workload
    MaxChanges          \* bound on the changes of the served types, and on those of the cache by others

VARIABLES
    applied,            \* history: how often the cluster did what a request asked
    version, others,    \* of the workload, and how often others wrote it
    scaleRead,          \* the version that GetScale returned, 0 while it is to be read
    attempt,            \* of updateScaleWithRetry, or of resolveResourceMapping
    served,             \* whether the API server serves the type of the resource
    discovery,          \* what the discovery of the connection has cached: "empty", "with" or "without" it
    changes,
    wasAbsent           \* history: at some moment of this call the type was not served, or a discovery
                        \* missed it

writeVars == <<applied, version, others, scaleRead, attempt, served, discovery, changes, wasAbsent>>
scaleVars == <<version, others, scaleRead>>
typeVars == <<served, discovery, changes, wasAbsent>>

\* The rows that might be changed: those that are marked, and what a batch might take for them.
Targets == [place : {row.place : row \in marked}, name : {row.name : row \in marked}]

ASSUME WriteConstants == MaxAttempts \in Nat \ {0} /\ MaxWrites \in Nat /\ MaxChanges \in Nat

WriteTypes ==
    /\ applied \in [Targets -> 0..MaxAttempts]
    /\ version \in 1..1 + MaxWrites + MaxAttempts /\ others \in 0..MaxWrites
    /\ scaleRead \in 0..1 + MaxWrites + MaxAttempts /\ attempt \in 1..MaxAttempts + 1
    /\ served \in BOOLEAN /\ discovery \in {"empty", "with", "without"} /\ changes \in 0..MaxChanges
    /\ wasAbsent \in BOOLEAN

WriteInit ==
    /\ applied = [row \in Targets |-> 0] /\ version = 1 /\ others = 0 /\ scaleRead = 0 /\ attempt = 1
    /\ served \in (IF call \in Resolving THEN BOOLEAN ELSE {TRUE})
    /\ discovery \in (IF call \in Resolving THEN {"empty", "with", "without"} ELSE {"empty"})
    /\ changes = 0 /\ wasAbsent = ~served

-----------------------------------------------------------------------------
(* The mapping of a resource                                               *)

\* A discovery finds the types that are served, but those of a group that does not answer.
Discovered ==
    \E found \in {"without"} \cup (IF served THEN {"with"} ELSE {}) :
        discovery' = found /\ wasAbsent' = (wasAbsent \/ found = "without")

\* Types come and go, and other calls use the discovery of the same clients.
TypeChanges ==
    /\ call \in Resolving /\ stage \in {"asked", "resolving"} /\ changes < MaxChanges
    /\ changes' = changes + 1
    /\ \/ served' = ~served /\ wasAbsent' = (wasAbsent \/ ~served') /\ UNCHANGED discovery
       \/ discovery # "empty" /\ discovery' = "empty" /\ UNCHANGED <<served, wasAbsent>>
       \/ Discovered /\ discovery' # discovery /\ UNCHANGED served
    /\ UNCHANGED <<sessionVars, applied, scaleVars, attempt>>

\* The mapper asks for what is not cached.  It takes no context: discovery has a time limit of its own.
Discover ==
    /\ stage = "resolving" /\ discovery = "empty"
    /\ \/ Discovered /\ UNCHANGED <<stage, outcome>>
       \/ Return("unavailable", <<>>, <<>>) /\ UNCHANGED <<discovery, wasAbsent>>
    /\ UNCHANGED <<connection, asked, session, ended, part, applied, scaleVars, attempt, served, changes>>

\* A fault to be told apart: what is cached is the last word.
ResolveOnce ==
    /\ stage = "resolving" /\ discovery # "empty"
    /\ IF discovery = "with" THEN stage' = "calling" /\ UNCHANGED outcome
       ELSE Return("noMatch", <<>>, <<>>)
    /\ UNCHANGED <<discovery, attempt>>
    /\ UNCHANGED <<connection, asked, session, ended, part, applied, scaleVars, served, changes, wasAbsent>>

\* resolveResourceMapping: the first time a type has no match, all that is cached is dropped.
Resolve ==
    /\ stage = "resolving" /\ discovery # "empty"
    /\ \/ discovery = "with" /\ stage' = "calling" /\ UNCHANGED <<outcome, discovery, attempt>>
       \/ discovery = "without" /\ attempt = 1 /\ discovery' = "empty" /\ attempt' = 2
          /\ UNCHANGED <<stage, outcome>>
       \/ discovery = "without" /\ attempt = 2 /\ Return("noMatch", <<>>, <<>>)
          /\ UNCHANGED <<discovery, attempt>>
    /\ UNCHANGED <<connection, asked, session, ended, part, applied, scaleVars, served, changes, wasAbsent>>

\* ResourceYAML: the mapping tells that the resource is a secret, whatever it was called.
RefuseSecret ==
    /\ stage = "resolving" /\ discovery = "with" /\ call = "yaml" /\ Return("sensitive", <<>>, <<>>)
    /\ UNCHANGED <<connection, asked, session, ended, part, writeVars>>

-----------------------------------------------------------------------------
(* Deleting and restarting: one request for a name                         *)

\* The cluster does what is asked.
ServeWrite(p) ==
    /\ call \in Writes \ {"scale"} /\ part[p].step = "sent"
    /\ part' = [part EXCEPT ![p].step = "served"]
    /\ applied' = [applied EXCEPT ![Target(p)] = @ + 1]
    /\ UNCHANGED <<connection, asked, stage, session, ended, outcome, scaleVars, attempt, typeVars>>

\* The cluster refuses, or the request does not reach it; or the answer to one that was served is lost.
WriteAnswered(p) ==
    /\ call \in Writes \ {"scale"}
    /\ \/ part[p].step = "sent"
          /\ \E result \in {"forbidden", "notFound", "unavailable"} : Answered(p, result)
       \/ part[p].step = "served" /\ \E result \in {"ok", "unavailable"} : Answered(p, result)
    /\ UNCHANGED <<connection, asked, stage, session, ended, outcome, writeVars>>

-----------------------------------------------------------------------------
(* Scaling: GetScale, then UpdateScale of the version that was read        *)

Scaling == call = "scale" /\ stage = "calling"

\* Another client, or a controller, writes the workload.
OthersWrite ==
    /\ call = "scale" /\ stage # "returned" /\ others < MaxWrites
    /\ others' = others + 1 /\ version' = version + 1
    /\ UNCHANGED <<sessionVars, applied, scaleRead, attempt, typeVars>>

ScaleRead(p) ==
    /\ Scaling /\ part[p].step = "sent" /\ scaleRead = 0
    /\ \/ scaleRead' = version /\ part' = [part EXCEPT ![p].step = "idle"]
       \/ \E result \in {"forbidden", "notFound", "unavailable"} : Answered(p, result) /\ UNCHANGED scaleRead
    /\ UNCHANGED <<connection, asked, stage, session, ended, outcome, applied, version, others, attempt,
                   typeVars>>

\* The update is of the version that was read, or it is a conflict: another write came between.
ScaleUpdated(p) ==
    /\ Scaling /\ part[p].step = "sent" /\ scaleRead = version
    /\ part' = [part EXCEPT ![p].step = "served"]
    /\ applied' = [applied EXCEPT ![Target(p)] = @ + 1] /\ version' = version + 1
    /\ UNCHANGED <<connection, asked, stage, session, ended, outcome, others, scaleRead, attempt, typeVars>>

\* A fault to be told apart: every failure of the network is worth another attempt.
RetriedAfterLoss(result) == result \in {"conflict", "unavailable"} /\ attempt < MaxAttempts

\* retry.OnError with IsConflict.
Retried(result) == result = "conflict" /\ attempt < MaxAttempts

\* updateScaleWithRetry: the answer to an update, and what follows from it.
ScaleAnswered(p) ==
    /\ Scaling /\ scaleRead # 0
    /\ \E result \in Results :
        /\ \/ part[p].step = "served" /\ result \in {"ok", "unavailable"}
           \/ part[p].step = "sent" /\ result \in {"forbidden", "notFound", "unavailable"}
           \/ part[p].step = "sent" /\ result = "conflict" /\ scaleRead # version
        /\ IF Retried(result)
           THEN /\ part' = [part EXCEPT ![p].step = "idle"]
                /\ scaleRead' = 0 /\ attempt' = attempt + 1
           ELSE Answered(p, result) /\ UNCHANGED <<scaleRead, attempt>>
    /\ UNCHANGED <<connection, asked, stage, session, ended, outcome, applied, version, others, typeVars>>

-----------------------------------------------------------------------------
\* What the screen shows of a result: handleBrowserCommandResult.
MutationShown ==
    IF AccessDenied(outcome.error) THEN "notice"
    ELSE IF outcome.error = "ok" THEN "done" ELSE "failure"

\* runBounded, and the single calls, once every request has its result.
WriteReturns ==
    /\ call \in Writes /\ AllDone
    /\ Return(Joined(ResultsInOrder), Succeeded, Failed)
    /\ UNCHANGED <<connection, asked, session, ended, part, writeVars>>

WriteSteps ==
    \/ TypeChanges \/ Discover \/ Resolve \/ RefuseSecret \/ OthersWrite \/ WriteReturns
    \/ \E p \in DOMAIN Parts :
        ServeWrite(p) \/ WriteAnswered(p) \/ ScaleRead(p) \/ ScaleUpdated(p) \/ ScaleAnswered(p)
=============================================================================
