---------------------------- MODULE SavedSession ----------------------------
(***************************************************************************)
(* The saved session (internal/session) and the programs that load it when *)
(* they start and save it while they run and when they exit                *)
(* (internal/app/application.go, internal/ui/root.go).                     *)
(*                                                                         *)
(* Several programs share one state.json.  A save writes a temporary file, *)
(* syncs it, renames it over state.json and syncs the directory; any call  *)
(* may fail, a program may be killed between any two of them, and so may   *)
(* the machine.  The file system keeps a name and a content in memory and  *)
(* on disk: it writes both back when it likes, and a crash leaves of a     *)
(* file that was not synced the whole or a part.                           *)
(***************************************************************************)
EXTENDS Naturals, FiniteSets

CONSTANTS
    Programs,
    Namespaces, All,    \* All: the empty namespace
    Views,              \* screen, resource type and width, taken together
    DefaultView,        \* what a new model shows
    Nothing,            \* no saved session
    MaxFiles            \* bound on the temporary files ever created

ASSUME SessionConstants ==
    /\ All \notin Namespaces /\ DefaultView \in Views /\ MaxFiles \in Nat

Scopes == Namespaces \cup {All}
Settings == [namespace : Scopes, view : Views]

ASSUME NothingIsNoSetting == Nothing \notin Settings

NewSettings == [namespace |-> All, view |-> DefaultView]
Files == 1..MaxFiles
NoFile == 0

VARIABLES
    created,        \* files created so far; a file keeps its number under any name
    data,           \* of each file: "part", "whole" in memory, or "synced"
    holds,          \* the state that was encoded for it
    at, disk,       \* the file state.json names, in memory and on disk
    directory,      \* the directory of the session: "none", "memory" or "disk"
    pc,             \* where each program stands
    settings,       \* namespace and view of its root model
    looked,         \* the file it found under the name, while it loads
    temp,           \* the file of its last save
    goal,           \* where it goes on after the save
    exit,           \* its exit code
    order, renames, \* history: when each file was renamed
    acked,          \* history: the latest rename a save reported as done
    lost            \* history: the directory was lost in a crash

fileVars    == <<created, data, holds>>
nameVars    == <<at, disk, directory, lost>>
programVars == <<settings, looked, exit>>
orderVars   == <<order, renames>>
vars == <<fileVars, nameVars, pc, programVars, temp, goal, orderVars, acked>>

Writing == {"write", "sync", "close", "rename", "settle", "remove"}
Steps == {"off", "look", "open", "read", "running", "prepare", "create",
          "saved", "failed", "stopping"} \cup Writing
FileTypes ==
    /\ created \in 0..MaxFiles
    /\ data \in [Files -> {"none", "part", "whole", "synced"}]
    /\ holds \in [Files -> Settings]
    /\ at \in Files \cup {NoFile} /\ disk \in Files \cup {NoFile}
    /\ directory \in {"none", "memory", "disk"} /\ lost \in BOOLEAN
ProgramTypes ==
    /\ pc \in [Programs -> Steps]
    /\ settings \in [Programs -> Settings]
    /\ looked \in [Programs -> Files \cup {NoFile}]
    /\ temp \in [Programs -> Files \cup {NoFile}]
    /\ goal \in [Programs -> {"running", "stopping"}]
    /\ exit \in [Programs -> {"none", "success", "failure"}]
OrderTypes ==
    /\ order \in [Files \cup {NoFile} -> Nat]
    /\ renames \in Nat /\ acked \in Nat

TypeOK == FileTypes /\ ProgramTypes /\ OrderTypes

Init ==
    /\ created = 0 /\ data = [i \in Files |-> "none"] /\ holds = [i \in Files |-> NewSettings]
    /\ at = NoFile /\ disk = NoFile /\ directory = "none"
    /\ pc = [p \in Programs |-> "off"] /\ settings = [p \in Programs |-> NewSettings]
    /\ looked = [p \in Programs |-> NoFile] /\ temp = [p \in Programs |-> NoFile]
    /\ goal = [p \in Programs |-> "running"] /\ exit = [p \in Programs |-> "none"]
    /\ order = [i \in Files \cup {NoFile} |-> 0] /\ renames = 0
    /\ acked = 0 /\ lost = FALSE

Go(p, from, to) == pc[p] = from /\ pc' = [pc EXCEPT ![p] = to]

-----------------------------------------------------------------------------
(* Start                                                                   *)

Disturb == <<fileVars, nameVars, temp, goal, orderVars, acked>>

\* prepareInteractive: environment, analysis and cluster come before the session.
Start(p) ==
    /\ Go(p, "off", "look")
    /\ exit' = [exit EXCEPT ![p] = "none"]
    /\ temp' = [temp EXCEPT ![p] = NoFile]
    /\ settings' = [settings EXCEPT ![p] = NewSettings] /\ goal' = [goal EXCEPT ![p] = "running"]
    /\ UNCHANGED <<fileVars, nameVars, looked, orderVars, acked>>

\* A step of the start fails; a session that cannot be read is one of them.
StartFails(p) ==
    /\ \E step \in {"look", "open", "read"} : Go(p, step, "off")
    /\ exit' = [exit EXCEPT ![p] = "failure"]
    /\ looked' = [looked EXCEPT ![p] = NoFile]
    /\ UNCHANGED <<Disturb, settings>>

\* resolveStartupNamespace and RestoreSession: what the root model begins with, given the
\* namespace of the command line, the saved session and the namespace of the context.
Initial(argument, saved, contextNamespace) ==
    [namespace |-> IF argument # Nothing THEN argument
                   ELSE IF saved # Nothing THEN saved.namespace ELSE contextNamespace,
     view |-> IF saved # Nothing THEN saved.view ELSE DefaultView]

Restore(p, saved) ==
    /\ pc' = [pc EXCEPT ![p] = "running"]
    /\ \E argument \in Namespaces \cup {Nothing}, contextNamespace \in Scopes :
         settings' = [settings EXCEPT ![p] = Initial(argument, saved, contextNamespace)]
    /\ looked' = [looked EXCEPT ![p] = NoFile]

\* openRegularSessionFile: Lstat, which finds a file or none.
LookNothing(p) ==
    /\ pc[p] = "look" /\ at = NoFile
    /\ Restore(p, Nothing)
    /\ UNCHANGED <<Disturb, exit>>

Look(p) ==
    /\ Go(p, "look", "open") /\ at # NoFile
    /\ looked' = [looked EXCEPT ![p] = at]
    /\ UNCHANGED <<Disturb, settings, exit>>

\* openRegularSessionFile: Open and SameFile.
OpenFile(p) ==
    /\ Go(p, "open", "read") /\ at = looked[p]
    /\ UNCHANGED <<Disturb, programVars>>

\* A save of another program in between is taken for an unsafe path.
FindReplaced(p) ==
    /\ Go(p, "open", "off") /\ at # looked[p]
    /\ exit' = [exit EXCEPT ![p] = "failure"]
    /\ looked' = [looked EXCEPT ![p] = NoFile]
    /\ UNCHANGED <<Disturb, settings>>

\* loadSessionAtPath: a part of a state does not decode.
ReadFile(p) ==
    /\ pc[p] = "read" /\ data[looked[p]] # "part"
    /\ Restore(p, holds[looked[p]])
    /\ UNCHANGED <<Disturb, exit>>

-----------------------------------------------------------------------------
(* Run                                                                     *)

\* Wide columns and resource types of the browser, and going back, are not saved at once.
ChangeView(p) ==
    /\ pc[p] = "running"
    /\ \E v \in Views : settings' = [settings EXCEPT ![p].view = v]
    /\ UNCHANGED <<Disturb, pc, looked, exit>>

\* persistSession after a change: the handler waits for the save.
Persist(p) ==
    /\ Go(p, "running", "prepare")
    /\ \E s \in Settings : settings' = [settings EXCEPT ![p] = s]
    /\ UNCHANGED <<Disturb, looked, exit>>

\* The terminal program returns its final model.
Quit(p) ==
    /\ Go(p, "running", "prepare")
    /\ goal' = [goal EXCEPT ![p] = "stopping"]
    /\ UNCHANGED <<fileVars, nameVars, temp, orderVars, acked, programVars>>

\* The terminal program returns an error, or no root model: nothing is saved.
TerminalFails(p) ==
    /\ Go(p, "running", "stopping")
    /\ exit' = [exit EXCEPT ![p] = "failure"]
    /\ UNCHANGED <<Disturb, settings, looked>>

\* shutdownCluster: the forwards are stopped, in two seconds or not.
StopForwards(p) ==
    /\ Go(p, "stopping", "off")
    /\ \E code \in {exit[p], "failure"} : exit' = [exit EXCEPT ![p] = code]
    /\ UNCHANGED <<Disturb, settings, looked>>

-----------------------------------------------------------------------------
(* Save                                                                    *)

\* prepareSessionDirectory: the entry of a new directory is not synced.
PrepareDirectory(p) ==
    /\ Go(p, "prepare", "create")
    /\ directory' = IF directory = "none" THEN "memory" ELSE directory
    /\ UNCHANGED <<fileVars, at, disk, lost, temp, goal, orderVars, acked, programVars>>

\* saveSessionAtPath and writeSessionTemp: the state is encoded, a new file opened.
CreateFile(p) ==
    /\ Go(p, "create", "write") /\ created < MaxFiles
    /\ created' = created + 1 /\ temp' = [temp EXCEPT ![p] = created + 1]
    /\ data' = [data EXCEPT ![created + 1] = "part"]
    /\ holds' = [holds EXCEPT ![created + 1] = settings[p]]
    /\ UNCHANGED <<nameVars, goal, orderVars, acked, programVars>>

FileOnly == UNCHANGED <<created, holds, nameVars, temp, goal, orderVars, acked, programVars>>

WriteFile(p) ==
    /\ Go(p, "write", "sync")
    /\ data' = [data EXCEPT ![temp[p]] = "whole"]
    /\ FileOnly

\* A fault to be told apart: the file is not synced.
SyncNothing(p) == Go(p, "sync", "close") /\ UNCHANGED data /\ FileOnly

SyncFile(p) ==
    /\ Go(p, "sync", "close")
    /\ data' = [data EXCEPT ![temp[p]] = "synced"]
    /\ FileOnly

CloseFile(p) == Go(p, "close", "rename") /\ UNCHANGED data /\ FileOnly

\* replaceSessionFile: the rename takes the temporary name away.
Rename(p) ==
    /\ Go(p, "rename", "settle")
    /\ at' = temp[p]
    /\ renames' = renames + 1 /\ order' = [order EXCEPT ![temp[p]] = renames + 1]
    /\ UNCHANGED <<fileVars, disk, directory, lost, temp, goal, acked, programVars>>

Later(i, j) == IF i >= j THEN i ELSE j

\* A fault to be told apart: the directory is not synced.
SyncNoDirectory(p) ==
    /\ Go(p, "settle", "saved")
    /\ acked' = Later(acked, order[temp[p]])
    /\ UNCHANGED <<fileVars, nameVars, temp, goal, orderVars, programVars>>

\* syncSessionDirectory.
SyncDirectory(p) ==
    /\ Go(p, "settle", "saved")
    /\ disk' = at /\ acked' = Later(acked, order[temp[p]])
    /\ UNCHANGED <<fileVars, at, directory, lost, temp, goal, orderVars, programVars>>

\* A call fails: before there is a file, or with a file to be removed.
SaveFails(p) ==
    /\ \/ \E step \in {"prepare", "create"} : Go(p, step, "failed")
       \/ \E step \in Writing \ {"remove"} : Go(p, step, "remove")
    /\ UNCHANGED <<Disturb, programVars>>

\* cleanupFailedSessionTemp, and the cleanup of a failed replacement: the file is removed or, when
\* that fails too, left for good.  No program looks at it again, so neither is told apart here.
RemoveFile(p) == Go(p, "remove", "failed") /\ UNCHANGED <<Disturb, programVars>>

\* A fault to be told apart: the exit does not look at the result.
SaveReturnsAnyhow(p) ==
    /\ \E step \in {"saved", "failed"} : Go(p, step, goal[p])
    /\ exit' = IF goal[p] = "running" THEN exit ELSE [exit EXCEPT ![p] = "success"]
    /\ UNCHANGED <<Disturb, settings, looked>>

\* The root is closed, which may fail; a failure is shown, or becomes the exit code.
SaveReturns(p) ==
    /\ \E step \in {"saved", "failed"} :
         /\ Go(p, step, goal[p])
         /\ \E code \in {"failure"} \cup (IF step = "saved" THEN {"success"} ELSE {}) :
              exit' = IF goal[p] = "running" THEN exit ELSE [exit EXCEPT ![p] = code]
    /\ UNCHANGED <<Disturb, settings, looked>>

-----------------------------------------------------------------------------
(* The file system and the machine                                         *)

\* The name is written back.
WriteNameBack ==
    /\ disk' = at /\ disk # at
    /\ UNCHANGED <<fileVars, at, directory, lost, pc, temp, goal, orderVars, acked, programVars>>

WriteDirectoryBack ==
    /\ directory = "memory" /\ directory' = "disk"
    /\ UNCHANGED <<fileVars, at, disk, lost, pc, temp, goal, orderVars, acked, programVars>>

\* A program is killed; its temporary file stays, and no program looks at it again.
Kill(p) ==
    /\ pc[p] # "off" /\ pc' = [pc EXCEPT ![p] = "off"]
    /\ exit' = [exit EXCEPT ![p] = "none"]
    /\ looked' = [looked EXCEPT ![p] = NoFile]
    /\ temp' = [temp EXCEPT ![p] = NoFile] /\ settings' = [settings EXCEPT ![p] = NewSettings]
    /\ goal' = [goal EXCEPT ![p] = "running"]
    /\ UNCHANGED <<fileVars, nameVars, orderVars, acked>>

\* The machine stops: what was not synced is whole or not.
PowerLoss ==
    /\ pc' = [p \in Programs |-> "off"] /\ exit' = [p \in Programs |-> "none"]
    /\ looked' = [p \in Programs |-> NoFile] /\ temp' = [p \in Programs |-> NoFile]
    /\ settings' = [p \in Programs |-> NewSettings] /\ goal' = [p \in Programs |-> "running"]
    /\ directory' = IF directory = "disk" THEN "disk" ELSE "none"
    /\ lost' = (lost \/ directory = "memory")
    /\ at' = IF directory = "disk" THEN disk ELSE NoFile
    /\ disk' = at'
    /\ \E torn \in SUBSET {i \in Files : data[i] = "whole"} :
         data' = [i \in Files |-> IF i \in torn THEN "part" ELSE data[i]]
    /\ UNCHANGED <<created, holds, orderVars, acked>>

-----------------------------------------------------------------------------

Startup(p) ==
    Start(p) \/ StartFails(p) \/ LookNothing(p) \/ Look(p) \/ OpenFile(p) \/ FindReplaced(p) \/ ReadFile(p)
Running(p) == ChangeView(p) \/ Persist(p) \/ Quit(p) \/ TerminalFails(p) \/ StopForwards(p)
Save(p) ==
    \/ PrepareDirectory(p) \/ CreateFile(p) \/ WriteFile(p) \/ SyncFile(p) \/ CloseFile(p)
    \/ Rename(p) \/ SyncDirectory(p) \/ SaveFails(p) \/ RemoveFile(p) \/ SaveReturns(p)

Next ==
    \/ \E p \in Programs : Startup(p) \/ Running(p) \/ Save(p) \/ Kill(p)
    \/ WriteNameBack \/ WriteDirectoryBack \/ PowerLoss

Spec == Init /\ [][Next]_vars

-----------------------------------------------------------------------------
(* Properties                                                              *)

Torn == [namespace |-> "torn", view |-> "torn"]

\* What a program would restore from a file.
Restored(i) ==
    IF i = NoFile THEN Nothing ELSE IF data[i] \in {"whole", "synced"} THEN holds[i] ELSE Torn

Contract == INSTANCE SessionContract WITH
    States <- Settings, value <- Restored(at), stable <- Restored(disk)

\* Whatever fails and whenever the machine stops, the session is nothing or one whole state.
SessionIsWhole == Contract!Spec

\* A save that was reported as done outlives the machine, unless the directory itself was lost.
SavedSurvives == ~lost => acked <= order[disk]

\* A program that exits with success has left the state it ended with on disk.
SuccessMeansSaved ==
    \A p \in Programs : pc[p] = "off" /\ exit[p] = "success" =>
        temp[p] # NoFile /\ holds[temp[p]] = settings[p] /\ order[temp[p]] \in 1..acked
=============================================================================
