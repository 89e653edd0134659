------------------------- MODULE SavedSessionProofs -------------------------
(***************************************************************************)
(* Proofs about SavedSession, for any programs, namespaces and views and   *)
(* any number of temporary files.                                          *)
(***************************************************************************)
EXTENDS SavedSession, TLAPS

USE SessionConstants, NothingIsNoSetting

\* A file that a program found is one there is.
LookedIsFile == \A p \in Programs : pc[p] \in {"open", "read"} => looked[p] # NoFile

\* What a program begins with and changes to is a setting.
LEMMA SettingsTyped ==
    /\ NewSettings \in Settings
    /\ \A s \in Settings, v \in Views : [s EXCEPT !.view = v] \in Settings
    /\ \A argument \in Namespaces \cup {Nothing}, saved \in Settings \cup {Nothing}, ns \in Scopes :
          Initial(argument, saved, ns) \in Settings
  BY DEF NewSettings, Settings, Scopes, Initial

\* Whatever was saved and whatever the argument, a program starts with settings.
LEMMA RestoreTyped ==
    ASSUME ProgramTypes, NEW p \in Programs, NEW saved \in Settings \cup {Nothing}, Restore(p, saved)
    PROVE  settings' \in [Programs -> Settings]
<1>1. PICK argument \in Namespaces \cup {Nothing}, ns \in Scopes :
          settings' = [settings EXCEPT ![p] = Initial(argument, saved, ns)]
  BY DEF Restore
<1>2. Initial(argument, saved, ns) \in Settings
  BY SettingsTyped
<1> QED BY <1>1, <1>2 DEF ProgramTypes

TypedInv == TypeOK /\ LookedIsFile

\* Every variable keeps its type, and a program only reads a file that it found.
THEOREM TypesHold == Spec => []TypedInv
<1>1. Init => TypedInv
  <2>1. Init => lost \in BOOLEAN
    BY DEF Init
  <2>2. NewSettings \in Settings
    BY SettingsTyped
  <2> QED BY <2>1, <2>2 DEF Init, TypedInv, TypeOK, FileTypes, ProgramTypes, OrderTypes, LookedIsFile,
         Files, NoFile, Steps, Writing
<1>2. TypedInv /\ [Next]_vars => TypedInv'
  <2> SUFFICES ASSUME TypedInv, [Next]_vars PROVE TypedInv'
    OBVIOUS
  <2> USE DEF TypedInv, TypeOK, FileTypes, ProgramTypes, OrderTypes, LookedIsFile, Files,
            NoFile, Steps, Writing, fileVars, nameVars, programVars, orderVars, Disturb
  <2>1. ASSUME NEW p \in Programs, Start(p) PROVE TypedInv'
    BY <2>1, SettingsTyped DEF Start, Go
  <2>2. ASSUME NEW p \in Programs, StartFails(p) PROVE TypedInv'
    BY <2>2 DEF StartFails, Go
  <2>3. ASSUME NEW p \in Programs, LookNothing(p) PROVE TypedInv'
    <3>1. settings' \in [Programs -> Settings]
      BY <2>3, RestoreTyped DEF LookNothing
    <3>2. TypedInv'
      BY <2>3, <3>1 DEF LookNothing, Restore
    <3> QED BY <3>1, <3>2
  <2>4. ASSUME NEW p \in Programs, Look(p) PROVE TypedInv'
    BY <2>4 DEF Look, Go
  <2>5. ASSUME NEW p \in Programs, OpenFile(p) PROVE TypedInv'
    BY <2>5 DEF OpenFile, Go
  <2>6. ASSUME NEW p \in Programs, FindReplaced(p) PROVE TypedInv'
    BY <2>6 DEF FindReplaced, Go
  <2>7. ASSUME NEW p \in Programs, ReadFile(p) PROVE TypedInv'
    <3>1. looked[p] \in Files /\ holds[looked[p]] \in Settings
      BY <2>7 DEF ReadFile
    <3>2. settings' \in [Programs -> Settings]
      BY <2>7, <3>1, RestoreTyped DEF ReadFile
    <3>3. TypedInv'
      BY <2>7, <3>2 DEF ReadFile, Restore
    <3> QED BY <2>7, <3>1, <3>2, <3>3 DEF ReadFile, Restore
  <2>8. ASSUME NEW p \in Programs, ChangeView(p) PROVE TypedInv'
    BY <2>8, SettingsTyped, SMTT(30) DEF ChangeView
  <2>9. ASSUME NEW p \in Programs, Persist(p) PROVE TypedInv'
    BY <2>9, SettingsTyped DEF Persist, Go
  <2>10. ASSUME NEW p \in Programs, Quit(p) PROVE TypedInv'
    BY <2>10 DEF Quit, Go
  <2>11. ASSUME NEW p \in Programs, TerminalFails(p) PROVE TypedInv'
    BY <2>11 DEF TerminalFails, Go
  <2>12. ASSUME NEW p \in Programs, StopForwards(p) PROVE TypedInv'
    <3>1. exit[p] \in {"none", "success", "failure"}
      BY <2>12 DEF StopForwards
    <3>2. exit' \in [Programs -> {"none", "success", "failure"}]
      BY <2>12, <3>1 DEF StopForwards
    <3> QED BY <2>12, <3>1, <3>2 DEF StopForwards, Go
  <2>13. ASSUME NEW p \in Programs, PrepareDirectory(p) PROVE TypedInv'
    BY <2>13 DEF PrepareDirectory, Go
  <2>14. ASSUME NEW p \in Programs, CreateFile(p) PROVE TypedInv'
    BY <2>14 DEF CreateFile, Go
  <2>15. ASSUME NEW p \in Programs, WriteFile(p) PROVE TypedInv'
    BY <2>15 DEF WriteFile, Go, FileOnly
  <2>16. ASSUME NEW p \in Programs, SyncFile(p) PROVE TypedInv'
    BY <2>16 DEF SyncFile, Go, FileOnly
  <2>17. ASSUME NEW p \in Programs, CloseFile(p) PROVE TypedInv'
    BY <2>17 DEF CloseFile, Go, FileOnly
  <2>18. ASSUME NEW p \in Programs, Rename(p) PROVE TypedInv'
    <3>1. temp[p] \in Files \cup {NoFile} /\ renames + 1 \in Nat
      BY <2>18 DEF Rename
    <3>2. order' \in [Files \cup {NoFile} -> Nat]
      BY <2>18, <3>1 DEF Rename
    <3> QED BY <2>18, <3>1, <3>2 DEF Rename, Go
  <2>19. ASSUME NEW p \in Programs, SyncDirectory(p) PROVE TypedInv'
    BY <2>19 DEF SyncDirectory, Go, Later
  <2>20. ASSUME NEW p \in Programs, SaveFails(p) PROVE TypedInv'
    BY <2>20 DEF SaveFails, Go
  <2>21. ASSUME NEW p \in Programs, RemoveFile(p) PROVE TypedInv'
    BY <2>21 DEF RemoveFile, Go
  <2>22. ASSUME NEW p \in Programs, SaveReturns(p) PROVE TypedInv'
    BY <2>22 DEF SaveReturns, Go
  <2>23. ASSUME NEW p \in Programs, Kill(p) PROVE TypedInv'
    BY <2>23, SettingsTyped DEF Kill
  <2>24. CASE WriteNameBack
    BY <2>24 DEF WriteNameBack
  <2>25. CASE WriteDirectoryBack
    BY <2>25 DEF WriteDirectoryBack
  <2>26. CASE PowerLoss
    <3>1. lost' \in BOOLEAN
      BY <2>26, SettingsTyped DEF PowerLoss
    <3>2. data' \in [Files -> {"none", "part", "whole", "synced"}]
      BY <2>26, SettingsTyped, <3>1 DEF PowerLoss
    <3>3. TypedInv'
      BY <2>26, <3>1, <3>2, SettingsTyped DEF PowerLoss
    <3> QED BY <2>26, <3>1, <3>2, <3>3 DEF PowerLoss
  <2>27. CASE UNCHANGED vars
    BY <2>27 DEF vars
  <2> QED
    BY <2>1, <2>2, <2>3, <2>4, <2>5, <2>6, <2>7, <2>8, <2>9, <2>10, <2>11, <2>12, <2>13,
       <2>14, <2>15, <2>16, <2>17, <2>18, <2>19, <2>20, <2>21, <2>22, <2>23, <2>24, <2>25,
       <2>26, <2>27
    DEF Next, Startup, Running, Save
<1> QED BY <1>1, <1>2, PTL DEF Spec

Saving(p) == pc[p] \in Writing

\* Every save has a file of its own.
FilesApart ==
    /\ \A p \in Programs : temp[p] <= created /\ (Saving(p) => temp[p] # NoFile)
    /\ \A p, q \in Programs : p # q /\ temp[p] # NoFile => temp[p] # temp[q]

\* What state.json names is whole on disk, and no file is renamed before it is.
NamesAreWhole ==
    /\ at <= created /\ disk <= created
    /\ \A i \in {at, disk} : i # NoFile => data[i] = "synced"
    /\ \A p \in Programs :
        /\ pc[p] \in {"write", "sync", "close", "rename"} => temp[p] \notin {at, disk}
        /\ pc[p] \in {"close", "rename"} => data[temp[p]] = "synced"

\* Two saves never write the same file.
THEOREM SavesAreApart == Spec => []FilesApart
<1>1. Init => FilesApart
  BY DEF Init, FilesApart, Saving, Writing, NoFile
<1>2. TypedInv /\ FilesApart /\ [Next]_vars => FilesApart'
  <2> SUFFICES ASSUME TypedInv, FilesApart, [Next]_vars PROVE FilesApart'
    OBVIOUS
  <2> USE DEF TypedInv, TypeOK, FileTypes, ProgramTypes, OrderTypes, Files, NoFile, Writing,
            Saving, FilesApart, fileVars, nameVars, programVars, orderVars, Disturb
  <2>1. ASSUME NEW p \in Programs, Start(p) PROVE FilesApart'
    BY <2>1 DEF Start, Go
  <2>2. ASSUME NEW p \in Programs, StartFails(p) PROVE FilesApart'
    BY <2>2 DEF StartFails, Go
  <2>3. ASSUME NEW p \in Programs, LookNothing(p) PROVE FilesApart'
    BY <2>3 DEF LookNothing, Restore
  <2>4. ASSUME NEW p \in Programs, Look(p) PROVE FilesApart'
    BY <2>4 DEF Look, Go
  <2>5. ASSUME NEW p \in Programs, OpenFile(p) PROVE FilesApart'
    BY <2>5 DEF OpenFile, Go
  <2>6. ASSUME NEW p \in Programs, FindReplaced(p) PROVE FilesApart'
    BY <2>6 DEF FindReplaced, Go
  <2>7. ASSUME NEW p \in Programs, ReadFile(p) PROVE FilesApart'
    BY <2>7 DEF ReadFile, Restore
  <2>8. ASSUME NEW p \in Programs, ChangeView(p) PROVE FilesApart'
    BY <2>8 DEF ChangeView
  <2>9. ASSUME NEW p \in Programs, Persist(p) PROVE FilesApart'
    BY <2>9 DEF Persist, Go
  <2>10. ASSUME NEW p \in Programs, Quit(p) PROVE FilesApart'
    BY <2>10 DEF Quit, Go
  <2>11. ASSUME NEW p \in Programs, TerminalFails(p) PROVE FilesApart'
    BY <2>11 DEF TerminalFails, Go
  <2>12. ASSUME NEW p \in Programs, StopForwards(p) PROVE FilesApart'
    BY <2>12 DEF StopForwards, Go
  <2>13. ASSUME NEW p \in Programs, PrepareDirectory(p) PROVE FilesApart'
    BY <2>13 DEF PrepareDirectory, Go
  <2>14. ASSUME NEW p \in Programs, CreateFile(p) PROVE FilesApart'
    BY <2>14 DEF CreateFile, Go
  <2>15. ASSUME NEW p \in Programs, WriteFile(p) PROVE FilesApart'
    BY <2>15 DEF WriteFile, Go, FileOnly
  <2>16. ASSUME NEW p \in Programs, SyncFile(p) PROVE FilesApart'
    BY <2>16 DEF SyncFile, Go, FileOnly
  <2>17. ASSUME NEW p \in Programs, CloseFile(p) PROVE FilesApart'
    BY <2>17 DEF CloseFile, Go, FileOnly
  <2>18. ASSUME NEW p \in Programs, Rename(p) PROVE FilesApart'
    BY <2>18 DEF Rename, Go
  <2>19. ASSUME NEW p \in Programs, SyncDirectory(p) PROVE FilesApart'
    BY <2>19 DEF SyncDirectory, Go
  <2>20. ASSUME NEW p \in Programs, SaveFails(p) PROVE FilesApart'
    BY <2>20 DEF SaveFails, Go
  <2>21. ASSUME NEW p \in Programs, RemoveFile(p) PROVE FilesApart'
    BY <2>21 DEF RemoveFile, Go
  <2>22. ASSUME NEW p \in Programs, SaveReturns(p) PROVE FilesApart'
    BY <2>22 DEF SaveReturns, Go
  <2>23. ASSUME NEW p \in Programs, Kill(p) PROVE FilesApart'
    BY <2>23 DEF Kill
  <2>24. CASE WriteNameBack
    BY <2>24 DEF WriteNameBack
  <2>25. CASE WriteDirectoryBack
    BY <2>25 DEF WriteDirectoryBack
  <2>26. CASE PowerLoss
    BY <2>26 DEF PowerLoss
  <2>27. CASE UNCHANGED vars
    BY <2>27 DEF vars
  <2> QED
    BY <2>1, <2>2, <2>3, <2>4, <2>5, <2>6, <2>7, <2>8, <2>9, <2>10, <2>11, <2>12, <2>13,
       <2>14, <2>15, <2>16, <2>17, <2>18, <2>19, <2>20, <2>21, <2>22, <2>23, <2>24, <2>25,
       <2>26, <2>27
    DEF Next, Startup, Running, Save
<1> QED BY <1>1, <1>2, TypesHold, PTL DEF Spec

\* The name of the session only ever leads to a file that was synced whole.
THEOREM NamesWhole == Spec => []NamesAreWhole
<1>1. Init => NamesAreWhole
  BY DEF Init, NamesAreWhole, NoFile
<1>2. TypedInv /\ FilesApart /\ NamesAreWhole /\ [Next]_vars => NamesAreWhole'
  <2> SUFFICES ASSUME TypedInv, FilesApart, NamesAreWhole, [Next]_vars PROVE NamesAreWhole'
    OBVIOUS
  <2> USE DEF TypedInv, TypeOK, FileTypes, ProgramTypes, OrderTypes, Files, NoFile, Writing,
            Saving, FilesApart, NamesAreWhole, fileVars, nameVars, programVars, orderVars,
            Disturb
  <2>1. ASSUME NEW p \in Programs, Start(p) PROVE NamesAreWhole'
    BY <2>1 DEF Start, Go
  <2>2. ASSUME NEW p \in Programs, StartFails(p) PROVE NamesAreWhole'
    BY <2>2 DEF StartFails, Go
  <2>3. ASSUME NEW p \in Programs, LookNothing(p) PROVE NamesAreWhole'
    BY <2>3 DEF LookNothing, Restore
  <2>4. ASSUME NEW p \in Programs, Look(p) PROVE NamesAreWhole'
    BY <2>4 DEF Look, Go
  <2>5. ASSUME NEW p \in Programs, OpenFile(p) PROVE NamesAreWhole'
    BY <2>5 DEF OpenFile, Go
  <2>6. ASSUME NEW p \in Programs, FindReplaced(p) PROVE NamesAreWhole'
    BY <2>6 DEF FindReplaced, Go
  <2>7. ASSUME NEW p \in Programs, ReadFile(p) PROVE NamesAreWhole'
    BY <2>7 DEF ReadFile, Restore
  <2>8. ASSUME NEW p \in Programs, ChangeView(p) PROVE NamesAreWhole'
    BY <2>8 DEF ChangeView
  <2>9. ASSUME NEW p \in Programs, Persist(p) PROVE NamesAreWhole'
    BY <2>9 DEF Persist, Go
  <2>10. ASSUME NEW p \in Programs, Quit(p) PROVE NamesAreWhole'
    BY <2>10 DEF Quit, Go
  <2>11. ASSUME NEW p \in Programs, TerminalFails(p) PROVE NamesAreWhole'
    BY <2>11 DEF TerminalFails, Go
  <2>12. ASSUME NEW p \in Programs, StopForwards(p) PROVE NamesAreWhole'
    BY <2>12 DEF StopForwards, Go
  <2>13. ASSUME NEW p \in Programs, PrepareDirectory(p) PROVE NamesAreWhole'
    BY <2>13 DEF PrepareDirectory, Go
  <2>14. ASSUME NEW p \in Programs, CreateFile(p) PROVE NamesAreWhole'
    BY <2>14 DEF CreateFile, Go
  <2>15. ASSUME NEW p \in Programs, WriteFile(p) PROVE NamesAreWhole'
    BY <2>15 DEF WriteFile, Go, FileOnly
  <2>16. ASSUME NEW p \in Programs, SyncFile(p) PROVE NamesAreWhole'
    BY <2>16 DEF SyncFile, Go, FileOnly
  <2>17. ASSUME NEW p \in Programs, CloseFile(p) PROVE NamesAreWhole'
    BY <2>17 DEF CloseFile, Go, FileOnly
  <2>18. ASSUME NEW p \in Programs, Rename(p) PROVE NamesAreWhole'
    BY <2>18 DEF Rename, Go
  <2>19. ASSUME NEW p \in Programs, SyncDirectory(p) PROVE NamesAreWhole'
    BY <2>19 DEF SyncDirectory, Go
  <2>20. ASSUME NEW p \in Programs, SaveFails(p) PROVE NamesAreWhole'
    BY <2>20 DEF SaveFails, Go
  <2>21. ASSUME NEW p \in Programs, RemoveFile(p) PROVE NamesAreWhole'
    BY <2>21 DEF RemoveFile, Go
  <2>22. ASSUME NEW p \in Programs, SaveReturns(p) PROVE NamesAreWhole'
    BY <2>22 DEF SaveReturns, Go
  <2>23. ASSUME NEW p \in Programs, Kill(p) PROVE NamesAreWhole'
    BY <2>23 DEF Kill
  <2>24. CASE WriteNameBack
    BY <2>24 DEF WriteNameBack
  <2>25. CASE WriteDirectoryBack
    BY <2>25 DEF WriteDirectoryBack
  <2>26. CASE PowerLoss
    BY <2>26 DEF PowerLoss
  <2>27. CASE UNCHANGED vars
    BY <2>27 DEF vars
  <2> QED
    BY <2>1, <2>2, <2>3, <2>4, <2>5, <2>6, <2>7, <2>8, <2>9, <2>10, <2>11, <2>12, <2>13,
       <2>14, <2>15, <2>16, <2>17, <2>18, <2>19, <2>20, <2>21, <2>22, <2>23, <2>24, <2>25,
       <2>26, <2>27
    DEF Next, Startup, Running, Save
<1> QED BY <1>1, <1>2, TypesHold, SavesAreApart, PTL DEF Spec

\* Renames are numbered, and what is on disk is never later than what is in memory.
OrderKept ==
    /\ \A p \in Programs : pc[p] \in Writing \cup {"create"} => directory # "none"
    /\ directory = "none" /\ ~lost => acked = 0
    /\ \A i \in Files \cup {NoFile} : order[i] <= renames
    /\ order[disk] <= order[at]
    /\ \A p \in Programs : pc[p] = "settle" => order[temp[p]] <= order[at]
    /\ SavedSurvives

\* A save reported as done is never lost but with the directory of the session.
THEOREM SavesSurvive == Spec => []SavedSurvives
<1>1. Init => OrderKept
  BY DEF Init, OrderKept, SavedSurvives, NoFile, Writing
<1>2. TypedInv /\ FilesApart /\ NamesAreWhole /\ OrderKept /\ [Next]_vars => OrderKept'
  <2> SUFFICES ASSUME TypedInv, FilesApart, NamesAreWhole, OrderKept, [Next]_vars PROVE OrderKept'
    OBVIOUS
  <2> USE DEF TypedInv, TypeOK, FileTypes, ProgramTypes, OrderTypes, Files, NoFile, Writing,
            Saving, FilesApart, NamesAreWhole, OrderKept, SavedSurvives, fileVars, nameVars,
            programVars, orderVars, Disturb
  <2>1. ASSUME NEW p \in Programs, Start(p) PROVE OrderKept'
    BY <2>1 DEF Start, Go
  <2>2. ASSUME NEW p \in Programs, StartFails(p) PROVE OrderKept'
    BY <2>2 DEF StartFails, Go
  <2>3. ASSUME NEW p \in Programs, LookNothing(p) PROVE OrderKept'
    BY <2>3 DEF LookNothing, Restore
  <2>4. ASSUME NEW p \in Programs, Look(p) PROVE OrderKept'
    BY <2>4 DEF Look, Go
  <2>5. ASSUME NEW p \in Programs, OpenFile(p) PROVE OrderKept'
    BY <2>5 DEF OpenFile, Go
  <2>6. ASSUME NEW p \in Programs, FindReplaced(p) PROVE OrderKept'
    BY <2>6 DEF FindReplaced, Go
  <2>7. ASSUME NEW p \in Programs, ReadFile(p) PROVE OrderKept'
    BY <2>7 DEF ReadFile, Restore
  <2>8. ASSUME NEW p \in Programs, ChangeView(p) PROVE OrderKept'
    BY <2>8 DEF ChangeView
  <2>9. ASSUME NEW p \in Programs, Persist(p) PROVE OrderKept'
    BY <2>9 DEF Persist, Go
  <2>10. ASSUME NEW p \in Programs, Quit(p) PROVE OrderKept'
    BY <2>10 DEF Quit, Go
  <2>11. ASSUME NEW p \in Programs, TerminalFails(p) PROVE OrderKept'
    BY <2>11 DEF TerminalFails, Go
  <2>12. ASSUME NEW p \in Programs, StopForwards(p) PROVE OrderKept'
    BY <2>12 DEF StopForwards, Go
  <2>13. ASSUME NEW p \in Programs, PrepareDirectory(p) PROVE OrderKept'
    BY <2>13 DEF PrepareDirectory, Go
  <2>14. ASSUME NEW p \in Programs, CreateFile(p) PROVE OrderKept'
    BY <2>14 DEF CreateFile, Go
  <2>15. ASSUME NEW p \in Programs, WriteFile(p) PROVE OrderKept'
    BY <2>15 DEF WriteFile, Go, FileOnly
  <2>16. ASSUME NEW p \in Programs, SyncFile(p) PROVE OrderKept'
    BY <2>16 DEF SyncFile, Go, FileOnly
  <2>17. ASSUME NEW p \in Programs, CloseFile(p) PROVE OrderKept'
    BY <2>17 DEF CloseFile, Go, FileOnly
  <2>18. ASSUME NEW p \in Programs, Rename(p) PROVE OrderKept'
    BY <2>18, SMTT(30) DEF Rename, Go
  <2>19. ASSUME NEW p \in Programs, SyncDirectory(p) PROVE OrderKept'
    BY <2>19, SMTT(30) DEF SyncDirectory, Go, Later
  <2>20. ASSUME NEW p \in Programs, SaveFails(p) PROVE OrderKept'
    BY <2>20 DEF SaveFails, Go
  <2>21. ASSUME NEW p \in Programs, RemoveFile(p) PROVE OrderKept'
    BY <2>21 DEF RemoveFile, Go
  <2>22. ASSUME NEW p \in Programs, SaveReturns(p) PROVE OrderKept'
    BY <2>22 DEF SaveReturns, Go
  <2>23. ASSUME NEW p \in Programs, Kill(p) PROVE OrderKept'
    BY <2>23 DEF Kill
  <2>24. CASE WriteNameBack
    BY <2>24 DEF WriteNameBack
  <2>25. CASE WriteDirectoryBack
    BY <2>25 DEF WriteDirectoryBack
  <2>26. CASE PowerLoss
    <3>1. \A q \in Programs : pc'[q] = "off"
      BY <2>26 DEF PowerLoss
    <3>2. CASE directory = "disk"
      BY <2>26, <3>1, <3>2 DEF PowerLoss
    <3>3. CASE directory # "disk" /\ (directory = "memory" \/ lost)
     <4>1. at' = NoFile /\ disk' = NoFile /\ lost' /\ order' = order /\ renames' = renames
       BY <2>26, <3>3 DEF PowerLoss
      <4> QED BY <3>1, <4>1
    <3>4. CASE directory = "none" /\ ~lost
     <4>1. at' = NoFile /\ disk' = NoFile /\ order' = order /\ renames' = renames /\ acked' = 0
       BY <2>26, <3>4 DEF PowerLoss
      <4>2. order[NoFile] \in Nat
       OBVIOUS
      <4> QED BY <3>1, <4>1, <4>2
    <3>5. OrderKept'
      BY <3>2, <3>3, <3>4
    <3> QED BY <3>1, <3>2, <3>3, <3>4, <3>5
  <2>27. CASE UNCHANGED vars
    BY <2>27 DEF vars
  <2> QED
    BY <2>1, <2>2, <2>3, <2>4, <2>5, <2>6, <2>7, <2>8, <2>9, <2>10, <2>11, <2>12, <2>13,
       <2>14, <2>15, <2>16, <2>17, <2>18, <2>19, <2>20, <2>21, <2>22, <2>23, <2>24, <2>25,
       <2>26, <2>27
    DEF Next, Startup, Running, Save
<1>3. TypedInv /\ FilesApart /\ NamesAreWhole /\ OrderKept => SavedSurvives
  BY DEF OrderKept
<1> QED BY <1>1, <1>2, <1>3, TypesHold, SavesAreApart, NamesWhole, PTL DEF Spec

\* What a program has saved, step by step.
HasSaved(p) == holds[temp[p]] = settings[p] /\ temp[p] # NoFile
SuccessInv ==
    \A p \in Programs :
        /\ Saving(p) => HasSaved(p)
        /\ pc[p] = "settle" => order[temp[p]] # 0
        /\ pc[p] = "saved" => HasSaved(p) /\ order[temp[p]] \in 1..acked
        /\ exit[p] = "success" => pc[p] \in {"stopping", "off"} /\ HasSaved(p) /\ order[temp[p]] \in 1..acked

\* A program that ends with success has its last state on disk, and no other save has changed that file.
THEOREM SuccessIsSaved == Spec => []SuccessMeansSaved
<1>1. Init => SuccessInv
  BY DEF Init, SuccessInv, Saving, Writing
<1>2. TypedInv /\ FilesApart /\ SuccessInv /\ [Next]_vars => SuccessInv'
  <2> SUFFICES ASSUME TypedInv, FilesApart, SuccessInv, [Next]_vars PROVE SuccessInv'
    OBVIOUS
  <2> USE DEF TypedInv, TypeOK, FileTypes, ProgramTypes, OrderTypes, Files, NoFile, Writing,
            Saving, FilesApart, SuccessInv, HasSaved, fileVars, nameVars, programVars,
            orderVars, Disturb
  <2>1. ASSUME NEW p \in Programs, Start(p) PROVE SuccessInv'
    BY <2>1 DEF Start, Go
  <2>2. ASSUME NEW p \in Programs, StartFails(p) PROVE SuccessInv'
    BY <2>2 DEF StartFails, Go
  <2>3. ASSUME NEW p \in Programs, LookNothing(p) PROVE SuccessInv'
    BY <2>3 DEF LookNothing, Restore
  <2>4. ASSUME NEW p \in Programs, Look(p) PROVE SuccessInv'
    BY <2>4 DEF Look, Go
  <2>5. ASSUME NEW p \in Programs, OpenFile(p) PROVE SuccessInv'
    BY <2>5 DEF OpenFile, Go
  <2>6. ASSUME NEW p \in Programs, FindReplaced(p) PROVE SuccessInv'
    BY <2>6 DEF FindReplaced, Go
  <2>7. ASSUME NEW p \in Programs, ReadFile(p) PROVE SuccessInv'
    BY <2>7 DEF ReadFile, Restore
  <2>8. ASSUME NEW p \in Programs, ChangeView(p) PROVE SuccessInv'
    BY <2>8 DEF ChangeView
  <2>9. ASSUME NEW p \in Programs, Persist(p) PROVE SuccessInv'
    BY <2>9 DEF Persist, Go
  <2>10. ASSUME NEW p \in Programs, Quit(p) PROVE SuccessInv'
    BY <2>10 DEF Quit, Go
  <2>11. ASSUME NEW p \in Programs, TerminalFails(p) PROVE SuccessInv'
    BY <2>11 DEF TerminalFails, Go
  <2>12. ASSUME NEW p \in Programs, StopForwards(p) PROVE SuccessInv'
    BY <2>12 DEF StopForwards, Go
  <2>13. ASSUME NEW p \in Programs, PrepareDirectory(p) PROVE SuccessInv'
    BY <2>13 DEF PrepareDirectory, Go
  <2>14. ASSUME NEW p \in Programs, CreateFile(p) PROVE SuccessInv'
    BY <2>14 DEF CreateFile, Go
  <2>15. ASSUME NEW p \in Programs, WriteFile(p) PROVE SuccessInv'
    BY <2>15 DEF WriteFile, Go, FileOnly
  <2>16. ASSUME NEW p \in Programs, SyncFile(p) PROVE SuccessInv'
    BY <2>16 DEF SyncFile, Go, FileOnly
  <2>17. ASSUME NEW p \in Programs, CloseFile(p) PROVE SuccessInv'
    BY <2>17 DEF CloseFile, Go, FileOnly
  <2>18. ASSUME NEW p \in Programs, Rename(p) PROVE SuccessInv'
    BY <2>18 DEF Rename, Go
  <2>19. ASSUME NEW p \in Programs, SyncDirectory(p) PROVE SuccessInv'
    BY <2>19 DEF SyncDirectory, Go, Later
  <2>20. ASSUME NEW p \in Programs, SaveFails(p) PROVE SuccessInv'
    BY <2>20 DEF SaveFails, Go
  <2>21. ASSUME NEW p \in Programs, RemoveFile(p) PROVE SuccessInv'
    BY <2>21 DEF RemoveFile, Go
  <2>22. ASSUME NEW p \in Programs, SaveReturns(p) PROVE SuccessInv'
    BY <2>22 DEF SaveReturns, Go
  <2>23. ASSUME NEW p \in Programs, Kill(p) PROVE SuccessInv'
    BY <2>23 DEF Kill
  <2>24. CASE WriteNameBack
    BY <2>24 DEF WriteNameBack
  <2>25. CASE WriteDirectoryBack
    BY <2>25 DEF WriteDirectoryBack
  <2>26. CASE PowerLoss
    BY <2>26 DEF PowerLoss
  <2>27. CASE UNCHANGED vars
    BY <2>27 DEF vars
  <2> QED
    BY <2>1, <2>2, <2>3, <2>4, <2>5, <2>6, <2>7, <2>8, <2>9, <2>10, <2>11, <2>12, <2>13,
       <2>14, <2>15, <2>16, <2>17, <2>18, <2>19, <2>20, <2>21, <2>22, <2>23, <2>24, <2>25,
       <2>26, <2>27
    DEF Next, Startup, Running, Save
<1>3. TypedInv /\ FilesApart /\ SuccessInv => SuccessMeansSaved
  BY DEF SuccessInv, SuccessMeansSaved, HasSaved
<1> QED BY <1>1, <1>2, <1>3, TypesHold, SavesAreApart, PTL DEF Spec

\* Every step is one of the contract: a rename puts the next state in place, a synced or
\* written directory settles it, and a crash goes back to what was settled.
THEOREM SessionKept == Spec => SessionIsWhole
<1>1. Init => Contract!Init
  BY DEF Init, Contract!Init, Restored
<1>2. TypedInv /\ FilesApart /\ NamesAreWhole /\ [Next]_vars => [Contract!Next]_(Contract!contractVars)
  <2> SUFFICES ASSUME TypedInv, FilesApart, NamesAreWhole, [Next]_vars
               PROVE  Contract!Next \/ UNCHANGED <<Restored(at), Restored(disk)>>
    BY DEF Contract!contractVars
  <2> USE DEF TypedInv, TypeOK, FileTypes, ProgramTypes, OrderTypes, Files, NoFile, Writing, Saving, FilesApart,
            NamesAreWhole, fileVars, nameVars, programVars, orderVars, Disturb
  <2>0. ASSUME UNCHANGED <<data, holds, at, disk>> PROVE UNCHANGED <<Restored(at), Restored(disk)>>
    BY <2>0 DEF Restored
  <2>1. ASSUME NEW p \in Programs, Start(p) PROVE Contract!Next \/ UNCHANGED <<Restored(at), Restored(disk)>>
    BY <2>1, <2>0 DEF Start, Go
  <2>2. ASSUME NEW p \in Programs, StartFails(p) PROVE Contract!Next \/ UNCHANGED <<Restored(at), Restored(disk)>>
    BY <2>2, <2>0 DEF StartFails, Go
  <2>3. ASSUME NEW p \in Programs, LookNothing(p) PROVE Contract!Next \/ UNCHANGED <<Restored(at), Restored(disk)>>
    BY <2>3, <2>0 DEF LookNothing, Restore
  <2>4. ASSUME NEW p \in Programs, Look(p) PROVE Contract!Next \/ UNCHANGED <<Restored(at), Restored(disk)>>
    BY <2>4, <2>0 DEF Look, Go
  <2>5. ASSUME NEW p \in Programs, OpenFile(p) PROVE Contract!Next \/ UNCHANGED <<Restored(at), Restored(disk)>>
    BY <2>5, <2>0 DEF OpenFile, Go
  <2>6. ASSUME NEW p \in Programs, FindReplaced(p) PROVE Contract!Next \/ UNCHANGED <<Restored(at), Restored(disk)>>
    BY <2>6, <2>0 DEF FindReplaced, Go
  <2>7. ASSUME NEW p \in Programs, ReadFile(p) PROVE Contract!Next \/ UNCHANGED <<Restored(at), Restored(disk)>>
    BY <2>7, <2>0 DEF ReadFile, Restore
  <2>8. ASSUME NEW p \in Programs, ChangeView(p) PROVE Contract!Next \/ UNCHANGED <<Restored(at), Restored(disk)>>
    BY <2>8, <2>0 DEF ChangeView
  <2>9. ASSUME NEW p \in Programs, Persist(p) PROVE Contract!Next \/ UNCHANGED <<Restored(at), Restored(disk)>>
    BY <2>9, <2>0 DEF Persist, Go
  <2>10. ASSUME NEW p \in Programs, Quit(p) PROVE Contract!Next \/ UNCHANGED <<Restored(at), Restored(disk)>>
    BY <2>10, <2>0 DEF Quit, Go
  <2>11. ASSUME NEW p \in Programs, TerminalFails(p) PROVE Contract!Next \/ UNCHANGED <<Restored(at), Restored(disk)>>
    BY <2>11, <2>0 DEF TerminalFails, Go
  <2>12. ASSUME NEW p \in Programs, StopForwards(p) PROVE Contract!Next \/ UNCHANGED <<Restored(at), Restored(disk)>>
    BY <2>12, <2>0 DEF StopForwards, Go
  <2>13. ASSUME NEW p \in Programs, PrepareDirectory(p) PROVE Contract!Next \/ UNCHANGED <<Restored(at), Restored(disk)>>
    BY <2>13, <2>0 DEF PrepareDirectory, Go
  <2>14. ASSUME NEW p \in Programs, CreateFile(p) PROVE Contract!Next \/ UNCHANGED <<Restored(at), Restored(disk)>>
    <3>1. Restored(at)' = Restored(at)
      BY <2>14 DEF CreateFile, Go, Restored
    <3>2. Restored(disk)' = Restored(disk)
      BY <2>14 DEF CreateFile, Go, Restored
    <3> QED BY <3>1, <3>2
  <2>15. ASSUME NEW p \in Programs, WriteFile(p) PROVE Contract!Next \/ UNCHANGED <<Restored(at), Restored(disk)>>
    <3>1. Restored(at)' = Restored(at)
      BY <2>15 DEF WriteFile, Go, FileOnly, Restored
    <3>2. Restored(disk)' = Restored(disk)
      BY <2>15 DEF WriteFile, Go, FileOnly, Restored
    <3> QED BY <3>1, <3>2
  <2>16. ASSUME NEW p \in Programs, SyncFile(p) PROVE Contract!Next \/ UNCHANGED <<Restored(at), Restored(disk)>>
    <3>1. Restored(at)' = Restored(at)
      BY <2>16 DEF SyncFile, Go, FileOnly, Restored
    <3>2. Restored(disk)' = Restored(disk)
      BY <2>16 DEF SyncFile, Go, FileOnly, Restored
    <3> QED BY <3>1, <3>2
  <2>17. ASSUME NEW p \in Programs, CloseFile(p) PROVE Contract!Next \/ UNCHANGED <<Restored(at), Restored(disk)>>
    BY <2>17, <2>0 DEF CloseFile, Go, FileOnly
  <2>18. ASSUME NEW p \in Programs, Rename(p) PROVE Contract!Next \/ UNCHANGED <<Restored(at), Restored(disk)>>
    <3>1. at' \in Files /\ at' = temp[p]
      BY <2>18 DEF Rename, Go
    <3>2. data'[at'] = "synced" /\ holds'[at'] \in Settings
      BY <2>18, <3>1 DEF Rename, Go
    <3>3. Restored(at)' \in Settings
      BY <3>1, <3>2 DEF Restored
    <3>4. Restored(disk)' = Restored(disk)
      BY <2>18 DEF Rename, Restored
    <3>5. Contract!Next
      BY <3>3, <3>4 DEF Contract!Next, Contract!Put
    <3> QED BY <3>1, <3>2, <3>3, <3>4, <3>5
  <2>19. ASSUME NEW p \in Programs, SyncDirectory(p) PROVE Contract!Next \/ UNCHANGED <<Restored(at), Restored(disk)>>
    <3>1. Restored(at)' = Restored(at) /\ Restored(disk)' = Restored(at)
      BY <2>19 DEF SyncDirectory, Restored
    <3>2. Contract!Next
      BY <3>1 DEF Contract!Next, Contract!Settle
    <3> QED BY <3>1, <3>2
  <2>20. ASSUME NEW p \in Programs, SaveFails(p) PROVE Contract!Next \/ UNCHANGED <<Restored(at), Restored(disk)>>
    BY <2>20, <2>0 DEF SaveFails, Go
  <2>21. ASSUME NEW p \in Programs, RemoveFile(p) PROVE Contract!Next \/ UNCHANGED <<Restored(at), Restored(disk)>>
    BY <2>21, <2>0 DEF RemoveFile, Go
  <2>22. ASSUME NEW p \in Programs, SaveReturns(p) PROVE Contract!Next \/ UNCHANGED <<Restored(at), Restored(disk)>>
    BY <2>22, <2>0 DEF SaveReturns, Go
  <2>23. ASSUME NEW p \in Programs, Kill(p) PROVE Contract!Next \/ UNCHANGED <<Restored(at), Restored(disk)>>
    BY <2>23, <2>0 DEF Kill
  <2>24. CASE WriteNameBack
    <3>1. Restored(at)' = Restored(at) /\ Restored(disk)' = Restored(at)
      BY <2>24 DEF WriteNameBack, Restored
    <3>2. Contract!Next
      BY <3>1 DEF Contract!Next, Contract!Settle
    <3> QED BY <3>1, <3>2
  <2>25. CASE WriteDirectoryBack
    BY <2>25, <2>0 DEF WriteDirectoryBack
  <2>26. CASE PowerLoss
    <3>1. at' \in {disk, NoFile} /\ disk' = at' /\ holds' = holds
      BY <2>26 DEF PowerLoss
    <3>2. disk # NoFile => data[disk] = "synced" /\ data'[disk] = "synced"
      BY <2>26 DEF PowerLoss
    <3>3. Restored(at)' \in {Restored(disk), Nothing} /\ Restored(disk)' = Restored(at)'
      BY <3>1, <3>2 DEF Restored
    <3>4. at' = NoFile => Restored(at)' = Nothing /\ Restored(disk)' = Nothing
      BY <3>1 DEF Restored
    <3>5. at' = disk => Restored(at)' = Restored(disk) /\ Restored(disk)' = Restored(disk)
      BY <3>1, <3>2 DEF Restored
    <3>6. Contract!Next
      BY <3>1, <3>4, <3>5 DEF Contract!Next, Contract!Crash
    <3> QED BY <3>1, <3>2, <3>3, <3>4, <3>5, <3>6
  <2>27. CASE UNCHANGED vars
    BY <2>27, <2>0 DEF vars
  <2> QED
    BY <2>1, <2>2, <2>3, <2>4, <2>5, <2>6, <2>7, <2>8, <2>9, <2>10, <2>11, <2>12, <2>13,
       <2>14, <2>15, <2>16, <2>17, <2>18, <2>19, <2>20, <2>21, <2>22, <2>23, <2>24, <2>25,
       <2>26, <2>27
    DEF Next, Startup, Running, Save
<1> QED BY <1>1, <1>2, TypesHold, SavesAreApart, NamesWhole, PTL DEF Spec, SessionIsWhole, Contract!Spec
=============================================================================
