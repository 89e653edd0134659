--------------------------- MODULE ResourceReads ---------------------------
(***************************************************************************)
(* The lists, the descriptions, the releases and the snapshot that are     *)
(* read from the cluster (internal/kube/resources.go, inspect.go, pods.go, *)
(* helm.go, snapshot.go).                                                  *)
(***************************************************************************)
EXTENDS ClientSessions

CONSTANTS
    MaxRecords,         \* bound on the release records of a cluster
    MaxRevision,        \* bound on the revisions of a release
    MaxItems            \* maximumSnapshotItems, and maximumSnapshotEvents

VARIABLES
    header,             \* the connection that named the context of a snapshot
    records,            \* the release records as the storage returned them
    releases            \* the releases that were made of them

readVars == <<header, records, releases>>

ASSUME ReadConstants == MaxRecords \in Nat /\ MaxRevision \in Nat \ {0} /\ MaxItems \in Nat \ {0}

\* The releases, in the order of their namespaces and names.
Releases == 1..2
Records == [release : Releases, revision : 1..MaxRevision, valid : BOOLEAN]
RecordLists == UNION {[1..n -> Records] : n \in 0..MaxRecords}

ReadTypes == header \in 0..LastConnection /\ records \in RecordLists /\ Range(releases) \subseteq Records

ReadInit == header = 0 /\ records = <<>> /\ releases = <<>>

-----------------------------------------------------------------------------
(* A snapshot                                                              *)

\* The objects of a section: of two namespaces, with the time something last happened to them.
Objects == [namespace : 1..2, name : 1..2, time : 1..2]
ObjectLists ==
    {list \in UNION {[1..n -> Objects] : n \in 0..MaxItems + 1} :
        \A i, j \in DOMAIN list :
            list[i].namespace = list[j].namespace /\ list[i].name = list[j].name => i = j}

\* sortSnapshotObjects, and the order of projectSnapshotEvents: the latest come first.
Precedes(section, a, b) ==
    IF section = "events" THEN a.time > b.time
    ELSE a.namespace < b.namespace \/ (a.namespace = b.namespace /\ a.name < b.name)

\* The orders that a sort may leave: it is not stable.
Sorted(section, list) ==
    {sorted \in {[i \in DOMAIN list |-> list[order[i]]] : order \in Bijection(DOMAIN list, DOMAIN list)} :
        \A i, j \in DOMAIN list : Precedes(section, sorted[i], sorted[j]) => i < j}

\* limitSnapshotItems.
Limited(list) == IF Len(list) <= MaxItems THEN list ELSE SubSeq(list, 1, MaxItems)

\* A fault to be told apart: the items are limited before they are sorted.
LimitedFirst(section, list) == Sorted(section, Limited(list))

\* projectSnapshotPods and its siblings: what a section shows of the objects that were listed.
Projections(section, list) == {Limited(sorted) : sorted \in Sorted(section, list)}

\* SnapshotCollector.Collect begins: the name of the context is read before the lists are.
BeginSnapshot ==
    /\ stage = "asked" /\ call = "snapshot" /\ stage' = "calling"
    /\ header' = connection
    /\ UNCHANGED <<connection, asked, session, ended, part, outcome, records, releases>>

\* Collect ends: nothing once the context has ended or when no list was read, or the lists with a
\* warning for each that failed.
SnapshotReturns ==
    /\ call = "snapshot" /\ AllDone
    /\ IF ended # "no" THEN Return(ended, <<>>, <<>>)
       ELSE IF Succeeded = <<>> THEN \E error \in Classified(ResultsInOrder) : Return(error, <<>>, <<>>)
       ELSE Return("ok", Succeeded, Failed)
    /\ UNCHANGED <<connection, asked, session, ended, part, readVars>>

-----------------------------------------------------------------------------
(* Releases                                                                *)

\* A fault to be told apart: the record that comes last wins.
LastOf(latest, r) == [n \in DOMAIN latest \cup {r.release} |-> IF n = r.release THEN r ELSE latest[n]]

\* A record among the latest of each release: of two with one revision the first stays.
Newer(latest, r) ==
    IF r.release \in DOMAIN latest /\ r.revision <= latest[r.release].revision THEN latest
    ELSE [n \in DOMAIN latest \cup {r.release} |-> IF n = r.release THEN r ELSE latest[n]]

\* latestHelmReleases: of each release the record with the highest revision, sorted by namespace and
\* name.
LatestHelmReleases(list) ==
    LET latest[n \in 0..Len(list)] == IF n = 0 THEN <<>> ELSE Newer(latest[n - 1], list[n])
        order == Ascending(DOMAIN latest[Len(list)])
    IN  [i \in DOMAIN order |-> latest[Len(list)][order[i]]]

\* projectHelmReleases: one record that does not make sense fails the list.
Projectable(list) == \A i \in DOMAIN list : list[i].valid

\* ListHelmReleases: the records that the storage lists, if it can.
ReleasesAnswered ==
    /\ call = "releases" /\ stage = "calling" /\ part[1].step = "sent"
    /\ \/ \E result \in {"forbidden", "unavailable"} : Answered(1, result) /\ UNCHANGED <<records, releases>>
       \/ /\ records' \in RecordLists
          /\ IF Projectable(records')
             THEN Answered(1, "ok") /\ releases' = LatestHelmReleases(records')
             ELSE Answered(1, "invalid") /\ UNCHANGED releases
    /\ UNCHANGED <<connection, asked, stage, session, ended, outcome, header>>

\* HelmReleaseValues: the last record of the release, which may be gone or make no sense.
ValuesAnswered ==
    /\ call = "values" /\ stage = "calling" /\ part[1].step = "sent"
    /\ \E result \in {"ok", "notFound", "forbidden", "unavailable", "invalid"} : Answered(1, result)
    /\ UNCHANGED <<connection, asked, stage, session, ended, outcome, readVars>>

-----------------------------------------------------------------------------
(* The other reads                                                         *)

\* listResources, of one list or of several beside each other.
ListAnswered(p) ==
    /\ call \in Unlinked /\ part[p].step = "sent"
    /\ \E result \in {"ok", "forbidden", "unavailable"} : Answered(p, result)
    /\ UNCHANGED <<connection, asked, stage, session, ended, outcome, readVars>>

\* ResourceYAML, of a resource that is no secret.
DescriptionAnswered ==
    /\ call = "yaml" /\ stage = "calling" /\ part[1].step = "sent"
    /\ \E result \in {"ok", "notFound", "forbidden", "unavailable"} : Answered(1, result)
    /\ UNCHANGED <<connection, asked, stage, session, ended, outcome, readVars>>

\* PodContainers.
ContainersAnswered ==
    /\ call = "containers" /\ stage = "calling" /\ part[1].step = "sent"
    /\ \E result \in {"ok", "notFound", "forbidden", "unavailable"} : Answered(1, result)
    /\ UNCHANGED <<connection, asked, stage, session, ended, outcome, readVars>>

\* OpenPodLogs: the stream lives in the context of the call, which lasts until it is closed.
LogsOpened ==
    /\ call = "logs" /\ stage = "calling" /\ part[1].step = "sent"
    /\ \/ part' = [part EXCEPT ![1].step = "served"]
       \/ \E result \in {"notFound", "forbidden", "unavailable"} : Answered(1, result)
    /\ UNCHANGED <<connection, asked, stage, session, ended, outcome, readVars>>

\* FetchPodLogs: the lines up to the end of the stream, a failure, or a line that is too long.
LogsRead ==
    /\ call = "logs" /\ stage = "calling" /\ part[1].step = "served"
    /\ \E result \in {"ok", "unavailable", "tooLong"} : Answered(1, result)
    /\ UNCHANGED <<connection, asked, stage, session, ended, outcome, readVars>>

\* observeResource: the live set begins by itself.
ObserveResource ==
    /\ call = "observe" /\ stage = "calling" /\ Return("ok", <<>>, <<>>)
    /\ UNCHANGED <<connection, asked, session, ended, part, readVars>>

\* StartShell: the stream is prepared, and begins by itself.
StartShell ==
    /\ call = "shell" /\ stage = "calling" /\ \E error \in {"ok", "unavailable"} : Return(error, <<>>, <<>>)
    /\ UNCHANGED <<connection, asked, session, ended, part, readVars>>

\* Any other call but a snapshot returns what was read, with the errors joined in the order of its parts:
\* ListRBAC returns the lists it has along with the error.
ReadReturns ==
    /\ call \notin Writes \cup Openings \cup {"snapshot"} /\ AllDone
    /\ Return(Joined(ResultsInOrder), Succeeded, Failed)
    /\ UNCHANGED <<connection, asked, session, ended, part, readVars>>

\* FetchRBAC and applyBrowserFetch: the rows a list shows, none of them once one list has failed.
ShownLists == IF outcome.error = "ok" THEN outcome.succeeded ELSE <<>>

ReadSteps ==
    \/ BeginSnapshot \/ SnapshotReturns \/ ReleasesAnswered \/ ValuesAnswered \/ DescriptionAnswered
    \/ ContainersAnswered \/ LogsOpened \/ LogsRead \/ ObserveResource \/ StartShell \/ ReadReturns
    \/ \E p \in DOMAIN Parts : ListAnswered(p)
=============================================================================
