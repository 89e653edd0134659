---------------------------- MODULE ClusterCalls ----------------------------
(***************************************************************************)
(* The calls of the commands to the cluster manager, writes and reads.     *)
(***************************************************************************)
EXTENDS ResourceWrites, ResourceReads

callsVars == <<sessionVars, writeVars, readVars>>

CallsTypeOK == SessionTypes /\ WriteTypes /\ ReadTypes

CallsInit == SessionInit /\ WriteInit /\ ReadInit

SessionSteps ==
    \/ RefuseSelection \/ ClientSession \/ Connect \/ LinkFires \/ Expire
    \/ \E p \in DOMAIN Parts : Send(p) \/ GiveUp(p)

CallsNext ==
    \/ SessionSteps /\ UNCHANGED <<writeVars, readVars>>
    \/ WriteSteps /\ UNCHANGED readVars
    \/ ReadSteps /\ UNCHANGED writeVars

\* What the program does by itself: its goroutines run, that of linkedContext too, its timers expire,
\* and discovery gives up.  Nothing is assumed of the API server.
Progress ==
    \/ /\ \/ RefuseSelection \/ ClientSession \/ LinkFires \/ Expire
          \/ \E p \in DOMAIN Parts : Send(p) \/ GiveUp(p)
       /\ UNCHANGED <<writeVars, readVars>>
    \/ (Discover \/ Resolve \/ RefuseSecret \/ WriteReturns) /\ UNCHANGED readVars
    \/ (BeginSnapshot \/ ObserveResource \/ StartShell \/ ReadReturns \/ SnapshotReturns) /\ UNCHANGED writeVars

CallsSpec == CallsInit /\ [][CallsNext]_callsVars
FairCallsSpec == CallsSpec /\ WF_callsVars(Progress)

-----------------------------------------------------------------------------
(* Properties                                                              *)

Returned == stage = "returned"

Position(name) == CHOOSE i \in DOMAIN Parts : Parts[i] = name
InBatchOrder(list) == \A i, j \in DOMAIN list : i < j => Position(list[i]) < Position(list[j])

\* What a write is reported to have done is what it did, though it was cut short, its answers were
\* lost, its requests went beside each other or over those of others.  A row that is reported as
\* changed was changed once, one that was refused was not, none was changed twice, and none that was
\* not marked was changed.  A batch reports every name in its order, the screen asks for none that is
\* refused before it is sent, and says that all is done only when it is.
OutcomeIsTrue ==
    Returned /\ call \in Writes =>
        /\ \A row \in Targets : applied[row] <= (IF row \in marked THEN 1 ELSE 0)
        /\ \A p \in DOMAIN Parts :
            /\ part[p].result = "ok" => applied[Target(p)] = 1
            /\ part[p].result \in {"forbidden", "notFound", "conflict"} => applied[Target(p)] = 0
        /\ MutationShown = "done" => \A row \in marked : applied[row] = 1
        /\ (\A p \in DOMAIN Parts : part[p].step = "done") =>
            /\ Range(outcome.succeeded) \cup Range(outcome.failed) = Range(Parts)
            /\ InBatchOrder(outcome.succeeded) /\ InBatchOrder(outcome.failed)
        /\ outcome.error # "badRequest"

\* That a type does not exist is said only when it did not at some moment of the call, or when its group
\* did not answer a discovery made since: never because of what was cached before, whoever else fills
\* and drops the cache.
NoMatchIsFresh == Returned /\ outcome.error = "noMatch" => wasAbsent

\* A section of a snapshot has as many objects as fit, and none of those it left out comes before one
\* it shows: the events that are left out are the oldest.
SectionsAreHonest ==
    \A section \in {"pods", "events"}, list \in ObjectLists :
        \A shown \in Projections(section, list) :
            /\ Range(shown) \subseteq Range(list)
            /\ Len(shown) = (IF Len(list) < MaxItems THEN Len(list) ELSE MaxItems)
            /\ \A left \in Range(list) \ Range(shown), kept \in Range(shown) :
                ~Precedes(section, left, kept)

\* What a read hands on is what was there.  Of each release there is one record, none is newer, and
\* they are sorted.  A snapshot has each of its sections or a warning, no section is of an earlier
\* connection than the one it is headed with, and none leaves out what it should show.  A list of
\* access rules is shown when it is whole.
ReadsAreHonest ==
    Returned =>
        /\ call = "releases" /\ outcome.error = "ok" =>
            /\ {r.release : r \in Range(releases)} = {r.release : r \in Range(records)}
            /\ \A i \in DOMAIN releases :
                /\ releases[i] \in Range(records)
                /\ \A r \in Range(records) :
                    r.release = releases[i].release => r.revision <= releases[i].revision
                /\ \A j \in 1..i - 1 : releases[j].release < releases[i].release
        /\ call = "snapshot" /\ outcome.error = "ok" =>
            /\ Range(outcome.succeeded) \cup Range(outcome.failed) = Range(Sections)
            /\ \A p \in DOMAIN Parts : part[p].result = "ok" => part[p].on >= header
            /\ SectionsAreHonest
        /\ call = "rbac" /\ ShownLists # <<>> => ShownLists = AccessLists

\* Whatever the API server does, a call that has a limit of time returns, and so does one whose
\* connection was replaced: the limit, or the end of the connection, reaches each of its requests.
\* The two reads of releases have no limit: while their connection stays and the API server is
\* silent they go on for ever.
MustReturn == call \notin Untimed \/ (Running /\ session # connection)
CallsReturn == MustReturn ~> Returned
=============================================================================
