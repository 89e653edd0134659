------------------------ MODULE BrowserDialogProofs ------------------------
(***************************************************************************)
(* Proofs about BrowserDialog, for any rows, any number of answers on      *)
(* their way and any number of shells.                                     *)
(***************************************************************************)
EXTENDS BrowserDialog, TLAPS

USE DialogConstants

\* No key is taken for the answer to a prompt that is not drawn: handleKey and renderBrowserMainContent.
THEOREM PromptsAreSeen == Spec => []PromptIsSeen
<1>1. Init => PromptIsSeen
  BY DEF Init, PromptIsSeen, Prompts
<1>2. PromptIsSeen /\ [Next]_vars => PromptIsSeen'
  <2> SUFFICES ASSUME PromptIsSeen, [Next]_vars PROVE PromptIsSeen'
    OBVIOUS
  <2> USE DEF PromptIsSeen, Prompts, Press, rootVars, listVars, promptVars, workVars,
            detailVars, shellVars
  <2>1. CASE Mark
    BY <2>1 DEF Mark
  <2>2. CASE Escape
    BY <2>2 DEF Escape
  <2>3. CASE OpenFilter
    BY <2>3 DEF OpenFilter
  <2>4. CASE CloseFilter
    BY <2>4 DEF CloseFilter
  <2>5. CASE AskForRow
    BY <2>5 DEF AskForRow
  <2>6. CASE AskForMarks
    BY <2>6 DEF AskForMarks
  <2>7. CASE OpenScale
    BY <2>7 DEF OpenScale
  <2>8. CASE EnterReplicas
    BY <2>8 DEF EnterReplicas
  <2>9. CASE CancelScale
    BY <2>9 DEF CancelScale
  <2>10. CASE Refuse
    BY <2>10 DEF Refuse
  <2>11. CASE Confirm
    BY <2>11 DEF Confirm
  <2>12. CASE CloseDetail
    BY <2>12 DEF CloseDetail
  <2>13. CASE Analyze
    BY <2>13 DEF Analyze
  <2>14. CASE OpenShell
    BY <2>14 DEF OpenShell
  <2>15. CASE CloseShell
    BY <2>15 DEF CloseShell, DropShell
  <2>16. CASE LeaveBrowser
    BY <2>16 DEF LeaveBrowser, Deactivate, DropShell
  <2>17. CASE OpenBrowser
    BY <2>17 DEF OpenBrowser
  <2>18. CASE SelectContext
    BY <2>18 DEF SelectContext, Deactivate, DropShell
  <2>19. ASSUME NEW t \in Types, ChangeType(t) PROVE PromptIsSeen'
    BY <2>19 DEF ChangeType, SetResourceType
  <2>20. ASSUME NEW t \in Types, Palette(t) PROVE PromptIsSeen'
    BY <2>20 DEF Palette, SetResourceType
  <2>21. ASSUME NEW where \in Types \cup {"leave"}, AskToTravel(where) PROVE PromptIsSeen'
    BY <2>21 DEF AskToTravel
  <2>22. ASSUME NEW kind \in {"describe", "text"}, Read(kind) PROVE PromptIsSeen'
    BY <2>22 DEF Read
  <2>23. ASSUME NEW ns \in NamespaceChoice, ChooseNamespace(ns) PROVE PromptIsSeen'
    BY <2>23 DEF ChooseNamespace, SwitchNamespace, SetNamespace, DropShell
  <2>24. CASE ListChanges
    BY <2>24 DEF ListChanges
  <2>25. CASE DeliverMutation
    BY <2>25 DEF DeliverMutation
  <2>26. CASE GoAway
    BY <2>26 DEF GoAway, Deactivate, DropShell
  <2>27. CASE ContextSwitchFailed
    BY <2>27 DEF ContextSwitchFailed
  <2>28. ASSUME NEW t \in Types, DrillDown(t) PROVE PromptIsSeen'
    BY <2>28 DEF DrillDown, SetResourceType
  <2>29. ASSUME NEW ns \in NamespaceChoice, ContextSwitched(ns) PROVE PromptIsSeen'
    BY <2>29 DEF ContextSwitched, SwitchNamespace, SetNamespace, DropShell
  <2>30. ASSUME NEW answer \in answers, DeliverAnswer(answer) PROVE PromptIsSeen'
    BY <2>30 DEF DeliverAnswer, OpenDetail
  <2>31. ASSUME NEW m \in summaries, DeliverSummary(m) PROVE PromptIsSeen'
    BY <2>31 DEF DeliverSummary
  <2>32. ASSUME NEW s \in Shells, ShellPrints(s) PROVE PromptIsSeen'
    BY <2>32 DEF ShellPrints
  <2>33. ASSUME NEW s \in Shells, DeliverOutput(s) PROVE PromptIsSeen'
    BY <2>33 DEF DeliverOutput
  <2>34. ASSUME NEW s \in Shells, ShellEnds(s) PROVE PromptIsSeen'
    BY <2>34 DEF ShellEnds
  <2>35. ASSUME NEW s \in Shells, ReportExit(s) PROVE PromptIsSeen'
    BY <2>35 DEF ReportExit
  <2>36. ASSUME NEW s \in Shells, DeliverExit(s) PROVE PromptIsSeen'
    BY <2>36 DEF DeliverExit
  <2>37. CASE UNCHANGED vars
    BY <2>37 DEF vars
  <2> QED
    BY <2>1, <2>2, <2>3, <2>4, <2>5, <2>6, <2>7, <2>8, <2>9, <2>10, <2>11, <2>12, <2>13,
       <2>14, <2>15, <2>16, <2>17, <2>18, <2>19, <2>20, <2>21, <2>22, <2>23, <2>24, <2>25,
       <2>26, <2>27, <2>28, <2>29, <2>30, <2>31, <2>32, <2>33, <2>34, <2>35, <2>36, <2>37
    DEF Next, UserActs, MessageArrives
<1> QED BY <1>1, <1>2, PTL DEF Spec

\* What a prompt stands for while it waits: its row, or the marks unless they were cleared under it.
PromptStandsFor ==
    /\ state = "scaleConfirm" => confirm.prompt = "scale" /\ confirm.shows = {scaleIdentity}
    /\ state = "deleteConfirm" =>
         \/ /\ confirm.prompt = "row" /\ selected = {}
            /\ confirm.shows = {confirmIdentity} /\ confirmIdentity # NoRow
         \/ confirm.prompt = "marks" /\ selected \in {{}, confirm.shows}
    /\ PromptIsObeyed

\* A mutation acts on the rows its prompt showed: executeConfirmedResourceAction and confirmScale.
THEOREM PromptsAreObeyed == Spec => []PromptIsObeyed
<1>1. Init => PromptStandsFor
  BY DEF Init, PromptStandsFor, PromptIsObeyed, NoRequest
<1>2. PromptStandsFor /\ [Next]_vars => PromptStandsFor'
  <2> SUFFICES ASSUME PromptStandsFor, [Next]_vars PROVE PromptStandsFor'
    OBVIOUS
  <2> USE DEF PromptStandsFor, PromptIsObeyed, Prompts, Press, rootVars, listVars,
            promptVars, workVars, detailVars, shellVars
  <2>1. CASE Mark
    BY <2>1 DEF Mark
  <2>2. CASE Escape
    BY <2>2 DEF Escape
  <2>3. CASE OpenFilter
    BY <2>3 DEF OpenFilter
  <2>4. CASE CloseFilter
    BY <2>4 DEF CloseFilter
  <2>5. CASE AskForRow
    BY <2>5 DEF AskForRow
  <2>6. CASE AskForMarks
    BY <2>6 DEF AskForMarks
  <2>7. CASE OpenScale
    BY <2>7 DEF OpenScale
  <2>8. CASE EnterReplicas
    BY <2>8 DEF EnterReplicas
  <2>9. CASE CancelScale
    BY <2>9 DEF CancelScale
  <2>10. CASE Refuse
    BY <2>10 DEF Refuse
  <2>11. CASE Confirm
    <3>1. state' = "browsing" /\ confirm' = confirm
      BY <2>11 DEF Confirm, Prompts
    <3>2. ConfirmedRows = confirm.shows \/ (confirm.prompt = "marks" /\ state = "deleteConfirm" /\ selected = {})
      BY <2>11, <3>1 DEF Confirm, ConfirmedRows
    <3>3. PromptIsObeyed'
      BY <2>11, <3>1, <3>2 DEF Confirm, Prompts
    <3> QED BY <2>11, <3>1, <3>2, <3>3 DEF Confirm, ConfirmedRows
  <2>12. CASE CloseDetail
    BY <2>12 DEF CloseDetail
  <2>13. CASE Analyze
    BY <2>13 DEF Analyze
  <2>14. CASE OpenShell
    BY <2>14 DEF OpenShell
  <2>15. CASE CloseShell
    BY <2>15 DEF CloseShell, DropShell
  <2>16. CASE LeaveBrowser
    BY <2>16 DEF LeaveBrowser, Deactivate, DropShell
  <2>17. CASE OpenBrowser
    BY <2>17 DEF OpenBrowser
  <2>18. CASE SelectContext
    BY <2>18 DEF SelectContext, Deactivate, DropShell
  <2>19. ASSUME NEW t \in Types, ChangeType(t) PROVE PromptStandsFor'
    BY <2>19 DEF ChangeType, SetResourceType
  <2>20. ASSUME NEW t \in Types, Palette(t) PROVE PromptStandsFor'
    BY <2>20 DEF Palette, SetResourceType
  <2>21. ASSUME NEW where \in Types \cup {"leave"}, AskToTravel(where) PROVE PromptStandsFor'
    BY <2>21 DEF AskToTravel
  <2>22. ASSUME NEW kind \in {"describe", "text"}, Read(kind) PROVE PromptStandsFor'
    BY <2>22 DEF Read
  <2>23. ASSUME NEW ns \in NamespaceChoice, ChooseNamespace(ns) PROVE PromptStandsFor'
    BY <2>23 DEF ChooseNamespace, SwitchNamespace, SetNamespace, DropShell
  <2>24. CASE ListChanges
    BY <2>24 DEF ListChanges
  <2>25. CASE DeliverMutation
    BY <2>25 DEF DeliverMutation, NoRequest
  <2>26. CASE GoAway
    BY <2>26 DEF GoAway, Deactivate, DropShell
  <2>27. CASE ContextSwitchFailed
    BY <2>27 DEF ContextSwitchFailed
  <2>28. ASSUME NEW t \in Types, DrillDown(t) PROVE PromptStandsFor'
    BY <2>28 DEF DrillDown, SetResourceType
  <2>29. ASSUME NEW ns \in NamespaceChoice, ContextSwitched(ns) PROVE PromptStandsFor'
    BY <2>29 DEF ContextSwitched, SwitchNamespace, SetNamespace, DropShell
  <2>30. ASSUME NEW answer \in answers, DeliverAnswer(answer) PROVE PromptStandsFor'
    BY <2>30 DEF DeliverAnswer, OpenDetail
  <2>31. ASSUME NEW m \in summaries, DeliverSummary(m) PROVE PromptStandsFor'
    BY <2>31 DEF DeliverSummary
  <2>32. ASSUME NEW s \in Shells, ShellPrints(s) PROVE PromptStandsFor'
    BY <2>32 DEF ShellPrints
  <2>33. ASSUME NEW s \in Shells, DeliverOutput(s) PROVE PromptStandsFor'
    BY <2>33 DEF DeliverOutput
  <2>34. ASSUME NEW s \in Shells, ShellEnds(s) PROVE PromptStandsFor'
    BY <2>34 DEF ShellEnds
  <2>35. ASSUME NEW s \in Shells, ReportExit(s) PROVE PromptStandsFor'
    BY <2>35 DEF ReportExit
  <2>36. ASSUME NEW s \in Shells, DeliverExit(s) PROVE PromptStandsFor'
    BY <2>36 DEF DeliverExit
  <2>37. CASE UNCHANGED vars
    BY <2>37 DEF vars
  <2> QED
    BY <2>1, <2>2, <2>3, <2>4, <2>5, <2>6, <2>7, <2>8, <2>9, <2>10, <2>11, <2>12, <2>13,
       <2>14, <2>15, <2>16, <2>17, <2>18, <2>19, <2>20, <2>21, <2>22, <2>23, <2>24, <2>25,
       <2>26, <2>27, <2>28, <2>29, <2>30, <2>31, <2>32, <2>33, <2>34, <2>35, <2>36, <2>37
    DEF Next, UserActs, MessageArrives
<1>3. PromptStandsFor => PromptIsObeyed
  BY DEF PromptStandsFor
<1> QED BY <1>1, <1>2, <1>3, PTL DEF Spec

\* The variables of the root model keep their types.
THEOREM RootTyped == Spec => []RootTypes
<1>1. Init => RootTypes
  <2>1. Init => {active, switching} \subseteq BOOLEAN
    BY DEF Init
  <2> QED BY <2>1 DEF Init, RootTypes
<1>2. RootTypes /\ [Next]_vars => RootTypes'
  <2> SUFFICES ASSUME RootTypes, [Next]_vars PROVE RootTypes'
    OBVIOUS
  <2> USE DEF RootTypes, Types, rootVars, listVars, promptVars, workVars, detailVars,
            shellVars
  <2>1. CASE Mark
    BY <2>1 DEF Mark
  <2>2. CASE Escape
    BY <2>2 DEF Escape
  <2>3. CASE OpenFilter
    BY <2>3 DEF OpenFilter
  <2>4. CASE CloseFilter
    BY <2>4 DEF CloseFilter
  <2>5. CASE AskForRow
    BY <2>5 DEF AskForRow
  <2>6. CASE AskForMarks
    BY <2>6 DEF AskForMarks
  <2>7. CASE OpenScale
    BY <2>7 DEF OpenScale
  <2>8. CASE EnterReplicas
    BY <2>8 DEF EnterReplicas
  <2>9. CASE CancelScale
    BY <2>9 DEF CancelScale
  <2>10. CASE Refuse
    BY <2>10 DEF Refuse
  <2>11. CASE Confirm
    BY <2>11 DEF Confirm
  <2>12. CASE CloseDetail
    BY <2>12 DEF CloseDetail
  <2>13. CASE Analyze
    BY <2>13 DEF Analyze
  <2>14. CASE OpenShell
    BY <2>14 DEF OpenShell
  <2>15. CASE CloseShell
    BY <2>15 DEF CloseShell, DropShell
  <2>16. CASE LeaveBrowser
    BY <2>16 DEF LeaveBrowser, Deactivate, DropShell
  <2>17. CASE OpenBrowser
    BY <2>17 DEF OpenBrowser
  <2>18. CASE SelectContext
    BY <2>18 DEF SelectContext, Deactivate, DropShell
  <2>19. ASSUME NEW t \in Types, ChangeType(t) PROVE RootTypes'
    BY <2>19 DEF ChangeType, SetResourceType
  <2>20. ASSUME NEW t \in Types, Palette(t) PROVE RootTypes'
    BY <2>20 DEF Palette, SetResourceType
  <2>21. ASSUME NEW where \in Types \cup {"leave"}, AskToTravel(where) PROVE RootTypes'
    BY <2>21 DEF AskToTravel
  <2>22. ASSUME NEW kind \in {"describe", "text"}, Read(kind) PROVE RootTypes'
    BY <2>22 DEF Read
  <2>23. ASSUME NEW ns \in NamespaceChoice, ChooseNamespace(ns) PROVE RootTypes'
    BY <2>23 DEF ChooseNamespace, SwitchNamespace, SetNamespace, DropShell
  <2>24. CASE ListChanges
    BY <2>24 DEF ListChanges
  <2>25. CASE DeliverMutation
    BY <2>25 DEF DeliverMutation
  <2>26. CASE GoAway
    BY <2>26 DEF GoAway, Deactivate, DropShell
  <2>27. CASE ContextSwitchFailed
    BY <2>27 DEF ContextSwitchFailed
  <2>28. ASSUME NEW t \in Types, DrillDown(t) PROVE RootTypes'
    BY <2>28 DEF DrillDown, SetResourceType
  <2>29. ASSUME NEW ns \in NamespaceChoice, ContextSwitched(ns) PROVE RootTypes'
    BY <2>29 DEF ContextSwitched, SwitchNamespace, SetNamespace, DropShell
  <2>30. ASSUME NEW answer \in answers, DeliverAnswer(answer) PROVE RootTypes'
    BY <2>30 DEF DeliverAnswer, OpenDetail
  <2>31. ASSUME NEW m \in summaries, DeliverSummary(m) PROVE RootTypes'
    BY <2>31 DEF DeliverSummary
  <2>32. ASSUME NEW s \in Shells, ShellPrints(s) PROVE RootTypes'
    BY <2>32 DEF ShellPrints
  <2>33. ASSUME NEW s \in Shells, DeliverOutput(s) PROVE RootTypes'
    BY <2>33 DEF DeliverOutput
  <2>34. ASSUME NEW s \in Shells, ShellEnds(s) PROVE RootTypes'
    BY <2>34 DEF ShellEnds
  <2>35. ASSUME NEW s \in Shells, ReportExit(s) PROVE RootTypes'
    BY <2>35 DEF ReportExit
  <2>36. ASSUME NEW s \in Shells, DeliverExit(s) PROVE RootTypes'
    BY <2>36 DEF DeliverExit
  <2>37. CASE UNCHANGED vars
    BY <2>37 DEF vars
  <2> QED
    BY <2>1, <2>2, <2>3, <2>4, <2>5, <2>6, <2>7, <2>8, <2>9, <2>10, <2>11, <2>12, <2>13,
       <2>14, <2>15, <2>16, <2>17, <2>18, <2>19, <2>20, <2>21, <2>22, <2>23, <2>24, <2>25,
       <2>26, <2>27, <2>28, <2>29, <2>30, <2>31, <2>32, <2>33, <2>34, <2>35, <2>36, <2>37
    DEF Next, UserActs, MessageArrives
<1> QED BY <1>1, <1>2, PTL DEF Spec

\* A browser that is shown is active but for a switch of context.
ActiveWhenShown == InactiveHoldsNoShell /\ (screen = "browser" /\ ~active => switching)

\* A browser that is not active holds no session: Deactivate, whatever state the browser was left in.
THEOREM InactiveIsClosed == Spec => []InactiveHoldsNoShell
<1>1. Init => ActiveWhenShown
  BY DEF Init, ActiveWhenShown, InactiveHoldsNoShell
<1>2. RootTypes /\ ActiveWhenShown /\ [Next]_vars => ActiveWhenShown'
  <2> SUFFICES ASSUME RootTypes, ActiveWhenShown, [Next]_vars PROVE ActiveWhenShown'
    OBVIOUS
  <2> USE DEF ActiveWhenShown, InactiveHoldsNoShell, Press, RootTypes, rootVars, listVars,
            promptVars, workVars, detailVars, shellVars
  <2>1. CASE Mark
    BY <2>1 DEF Mark
  <2>2. CASE Escape
    BY <2>2 DEF Escape
  <2>3. CASE OpenFilter
    BY <2>3 DEF OpenFilter
  <2>4. CASE CloseFilter
    BY <2>4 DEF CloseFilter
  <2>5. CASE AskForRow
    BY <2>5 DEF AskForRow
  <2>6. CASE AskForMarks
    BY <2>6 DEF AskForMarks
  <2>7. CASE OpenScale
    BY <2>7 DEF OpenScale
  <2>8. CASE EnterReplicas
    BY <2>8 DEF EnterReplicas
  <2>9. CASE CancelScale
    BY <2>9 DEF CancelScale
  <2>10. CASE Refuse
    BY <2>10 DEF Refuse
  <2>11. CASE Confirm
    BY <2>11 DEF Confirm
  <2>12. CASE CloseDetail
    BY <2>12 DEF CloseDetail
  <2>13. CASE Analyze
    BY <2>13 DEF Analyze
  <2>14. CASE OpenShell
    BY <2>14 DEF OpenShell
  <2>15. CASE CloseShell
    BY <2>15 DEF CloseShell, DropShell
  <2>16. CASE LeaveBrowser
    BY <2>16 DEF LeaveBrowser, Deactivate, DropShell
  <2>17. CASE OpenBrowser
    BY <2>17 DEF OpenBrowser
  <2>18. CASE SelectContext
    BY <2>18 DEF SelectContext, Deactivate, DropShell
  <2>19. ASSUME NEW t \in Types, ChangeType(t) PROVE ActiveWhenShown'
    BY <2>19 DEF ChangeType, SetResourceType
  <2>20. ASSUME NEW t \in Types, Palette(t) PROVE ActiveWhenShown'
    BY <2>20 DEF Palette, SetResourceType
  <2>21. ASSUME NEW where \in Types \cup {"leave"}, AskToTravel(where) PROVE ActiveWhenShown'
    BY <2>21 DEF AskToTravel
  <2>22. ASSUME NEW kind \in {"describe", "text"}, Read(kind) PROVE ActiveWhenShown'
    BY <2>22 DEF Read
  <2>23. ASSUME NEW ns \in NamespaceChoice, ChooseNamespace(ns) PROVE ActiveWhenShown'
    BY <2>23 DEF ChooseNamespace, SwitchNamespace, SetNamespace, DropShell
  <2>24. CASE ListChanges
    BY <2>24 DEF ListChanges
  <2>25. CASE DeliverMutation
    BY <2>25 DEF DeliverMutation
  <2>26. CASE GoAway
    <3>1. InactiveHoldsNoShell'
      BY <2>26 DEF GoAway, Deactivate, DropShell
    <3>2. screen' # "browser"
      BY <2>26, <3>1 DEF GoAway
    <3> QED BY <3>1, <3>2
  <2>27. CASE ContextSwitchFailed
    BY <2>27 DEF ContextSwitchFailed
  <2>28. ASSUME NEW t \in Types, DrillDown(t) PROVE ActiveWhenShown'
    BY <2>28 DEF DrillDown, SetResourceType
  <2>29. ASSUME NEW ns \in NamespaceChoice, ContextSwitched(ns) PROVE ActiveWhenShown'
    BY <2>29 DEF ContextSwitched, SwitchNamespace, SetNamespace, DropShell
  <2>30. ASSUME NEW answer \in answers, DeliverAnswer(answer) PROVE ActiveWhenShown'
    BY <2>30 DEF DeliverAnswer, OpenDetail
  <2>31. ASSUME NEW m \in summaries, DeliverSummary(m) PROVE ActiveWhenShown'
    BY <2>31 DEF DeliverSummary
  <2>32. ASSUME NEW s \in Shells, ShellPrints(s) PROVE ActiveWhenShown'
    BY <2>32 DEF ShellPrints
  <2>33. ASSUME NEW s \in Shells, DeliverOutput(s) PROVE ActiveWhenShown'
    BY <2>33 DEF DeliverOutput
  <2>34. ASSUME NEW s \in Shells, ShellEnds(s) PROVE ActiveWhenShown'
    BY <2>34 DEF ShellEnds
  <2>35. ASSUME NEW s \in Shells, ReportExit(s) PROVE ActiveWhenShown'
    BY <2>35 DEF ReportExit
  <2>36. ASSUME NEW s \in Shells, DeliverExit(s) PROVE ActiveWhenShown'
    BY <2>36 DEF DeliverExit
  <2>37. CASE UNCHANGED vars
    BY <2>37 DEF vars
  <2> QED
    BY <2>1, <2>2, <2>3, <2>4, <2>5, <2>6, <2>7, <2>8, <2>9, <2>10, <2>11, <2>12, <2>13,
       <2>14, <2>15, <2>16, <2>17, <2>18, <2>19, <2>20, <2>21, <2>22, <2>23, <2>24, <2>25,
       <2>26, <2>27, <2>28, <2>29, <2>30, <2>31, <2>32, <2>33, <2>34, <2>35, <2>36, <2>37
    DEF Next, UserActs, MessageArrives
<1>3. RootTypes /\ ActiveWhenShown => InactiveHoldsNoShell
  BY DEF ActiveWhenShown
<1> QED BY <1>1, <1>2, <1>3, RootTyped, PTL DEF Spec

\* The cursor stands on a row of the current type.
THEOREM ListTyped == Spec => []ListTypes
<1>1. Init => ListTypes
  BY DEF Init, ListTypes, Types, RowsOf
<1>2. ListTypes /\ [Next]_vars => ListTypes'
  <2> SUFFICES ASSUME ListTypes, [Next]_vars PROVE ListTypes'
    OBVIOUS
  <2> USE DEF ListTypes, Types, RowsOf, NamespaceChoice, rootVars, listVars, promptVars,
            workVars, detailVars, shellVars
  <2>1. CASE Mark
    BY <2>1 DEF Mark
  <2>2. CASE Escape
    BY <2>2 DEF Escape
  <2>3. CASE OpenFilter
    BY <2>3 DEF OpenFilter
  <2>4. CASE CloseFilter
    BY <2>4 DEF CloseFilter
  <2>5. CASE AskForRow
    BY <2>5 DEF AskForRow
  <2>6. CASE AskForMarks
    BY <2>6 DEF AskForMarks
  <2>7. CASE OpenScale
    BY <2>7 DEF OpenScale
  <2>8. CASE EnterReplicas
    BY <2>8 DEF EnterReplicas
  <2>9. CASE CancelScale
    BY <2>9 DEF CancelScale
  <2>10. CASE Refuse
    BY <2>10 DEF Refuse
  <2>11. CASE Confirm
    BY <2>11 DEF Confirm
  <2>12. CASE CloseDetail
    BY <2>12 DEF CloseDetail
  <2>13. CASE Analyze
    BY <2>13 DEF Analyze
  <2>14. CASE OpenShell
    BY <2>14 DEF OpenShell
  <2>15. CASE CloseShell
    BY <2>15 DEF CloseShell, DropShell
  <2>16. CASE LeaveBrowser
    BY <2>16 DEF LeaveBrowser, Deactivate, DropShell
  <2>17. CASE OpenBrowser
    BY <2>17 DEF OpenBrowser
  <2>18. CASE SelectContext
    BY <2>18 DEF SelectContext, Deactivate, DropShell
  <2>19. ASSUME NEW t \in Types, ChangeType(t) PROVE ListTypes'
    BY <2>19 DEF ChangeType, SetResourceType
  <2>20. ASSUME NEW t \in Types, Palette(t) PROVE ListTypes'
    BY <2>20 DEF Palette, SetResourceType
  <2>21. ASSUME NEW where \in Types \cup {"leave"}, AskToTravel(where) PROVE ListTypes'
    BY <2>21 DEF AskToTravel
  <2>22. ASSUME NEW kind \in {"describe", "text"}, Read(kind) PROVE ListTypes'
    BY <2>22 DEF Read
  <2>23. ASSUME NEW ns \in NamespaceChoice, ChooseNamespace(ns) PROVE ListTypes'
    BY <2>23 DEF ChooseNamespace, SwitchNamespace, SetNamespace, DropShell
  <2>24. CASE ListChanges
    BY <2>24 DEF ListChanges
  <2>25. CASE DeliverMutation
    BY <2>25 DEF DeliverMutation
  <2>26. CASE GoAway
    BY <2>26 DEF GoAway, Deactivate, DropShell
  <2>27. CASE ContextSwitchFailed
    BY <2>27 DEF ContextSwitchFailed
  <2>28. ASSUME NEW t \in Types, DrillDown(t) PROVE ListTypes'
    BY <2>28 DEF DrillDown, SetResourceType
  <2>29. ASSUME NEW ns \in NamespaceChoice, ContextSwitched(ns) PROVE ListTypes'
    BY <2>29 DEF ContextSwitched, SwitchNamespace, SetNamespace, DropShell
  <2>30. ASSUME NEW answer \in answers, DeliverAnswer(answer) PROVE ListTypes'
    BY <2>30 DEF DeliverAnswer, OpenDetail
  <2>31. ASSUME NEW m \in summaries, DeliverSummary(m) PROVE ListTypes'
    BY <2>31 DEF DeliverSummary
  <2>32. ASSUME NEW s \in Shells, ShellPrints(s) PROVE ListTypes'
    BY <2>32 DEF ShellPrints
  <2>33. ASSUME NEW s \in Shells, DeliverOutput(s) PROVE ListTypes'
    BY <2>33 DEF DeliverOutput
  <2>34. ASSUME NEW s \in Shells, ShellEnds(s) PROVE ListTypes'
    BY <2>34 DEF ShellEnds
  <2>35. ASSUME NEW s \in Shells, ReportExit(s) PROVE ListTypes'
    BY <2>35 DEF ReportExit
  <2>36. ASSUME NEW s \in Shells, DeliverExit(s) PROVE ListTypes'
    BY <2>36 DEF DeliverExit
  <2>37. CASE UNCHANGED vars
    BY <2>37 DEF vars
  <2> QED
    BY <2>1, <2>2, <2>3, <2>4, <2>5, <2>6, <2>7, <2>8, <2>9, <2>10, <2>11, <2>12, <2>13,
       <2>14, <2>15, <2>16, <2>17, <2>18, <2>19, <2>20, <2>21, <2>22, <2>23, <2>24, <2>25,
       <2>26, <2>27, <2>28, <2>29, <2>30, <2>31, <2>32, <2>33, <2>34, <2>35, <2>36, <2>37
    DEF Next, UserActs, MessageArrives
<1> QED BY <1>1, <1>2, PTL DEF Spec

\* The scale input and its prompt have a row.
ScaleHasRow == state \in {"scaleInput", "scaleConfirm"} => scaleIdentity \in Row

\* The scale input and its prompt are about a row: openScaleInput.
THEOREM ScaleRowKept == Spec => []ScaleHasRow
<1>1. Init => ScaleHasRow
  BY DEF Init, ScaleHasRow
<1>2. ListTypes /\ ScaleHasRow /\ [Next]_vars => ScaleHasRow'
  <2> SUFFICES ASSUME ListTypes, ScaleHasRow, [Next]_vars PROVE ScaleHasRow'
    OBVIOUS
  <2> USE DEF ScaleHasRow, ListTypes, Types, RowsOf, Row, Press, Prompts, rootVars,
            listVars, promptVars, workVars, detailVars, shellVars
  <2>1. CASE Mark
    BY <2>1 DEF Mark
  <2>2. CASE Escape
    BY <2>2 DEF Escape
  <2>3. CASE OpenFilter
    BY <2>3 DEF OpenFilter
  <2>4. CASE CloseFilter
    BY <2>4 DEF CloseFilter
  <2>5. CASE AskForRow
    BY <2>5 DEF AskForRow
  <2>6. CASE AskForMarks
    BY <2>6 DEF AskForMarks
  <2>7. CASE OpenScale
    BY <2>7 DEF OpenScale
  <2>8. CASE EnterReplicas
    BY <2>8 DEF EnterReplicas
  <2>9. CASE CancelScale
    BY <2>9 DEF CancelScale
  <2>10. CASE Refuse
    BY <2>10 DEF Refuse
  <2>11. CASE Confirm
    BY <2>11 DEF Confirm
  <2>12. CASE CloseDetail
    BY <2>12 DEF CloseDetail
  <2>13. CASE Analyze
    BY <2>13 DEF Analyze
  <2>14. CASE OpenShell
    BY <2>14 DEF OpenShell
  <2>15. CASE CloseShell
    BY <2>15 DEF CloseShell, DropShell
  <2>16. CASE LeaveBrowser
    BY <2>16 DEF LeaveBrowser, Deactivate, DropShell
  <2>17. CASE OpenBrowser
    BY <2>17 DEF OpenBrowser
  <2>18. CASE SelectContext
    BY <2>18 DEF SelectContext, Deactivate, DropShell
  <2>19. ASSUME NEW t \in Types, ChangeType(t) PROVE ScaleHasRow'
    BY <2>19 DEF ChangeType, SetResourceType
  <2>20. ASSUME NEW t \in Types, Palette(t) PROVE ScaleHasRow'
    BY <2>20 DEF Palette, SetResourceType
  <2>21. ASSUME NEW where \in Types \cup {"leave"}, AskToTravel(where) PROVE ScaleHasRow'
    BY <2>21 DEF AskToTravel
  <2>22. ASSUME NEW kind \in {"describe", "text"}, Read(kind) PROVE ScaleHasRow'
    BY <2>22 DEF Read
  <2>23. ASSUME NEW ns \in NamespaceChoice, ChooseNamespace(ns) PROVE ScaleHasRow'
    BY <2>23 DEF ChooseNamespace, SwitchNamespace, SetNamespace, DropShell
  <2>24. CASE ListChanges
    BY <2>24 DEF ListChanges
  <2>25. CASE DeliverMutation
    BY <2>25 DEF DeliverMutation
  <2>26. CASE GoAway
    BY <2>26 DEF GoAway, Deactivate, DropShell
  <2>27. CASE ContextSwitchFailed
    BY <2>27 DEF ContextSwitchFailed
  <2>28. ASSUME NEW t \in Types, DrillDown(t) PROVE ScaleHasRow'
    BY <2>28 DEF DrillDown, SetResourceType
  <2>29. ASSUME NEW ns \in NamespaceChoice, ContextSwitched(ns) PROVE ScaleHasRow'
    BY <2>29 DEF ContextSwitched, SwitchNamespace, SetNamespace, DropShell
  <2>30. ASSUME NEW answer \in answers, DeliverAnswer(answer) PROVE ScaleHasRow'
    BY <2>30 DEF DeliverAnswer, OpenDetail
  <2>31. ASSUME NEW m \in summaries, DeliverSummary(m) PROVE ScaleHasRow'
    BY <2>31 DEF DeliverSummary
  <2>32. ASSUME NEW s \in Shells, ShellPrints(s) PROVE ScaleHasRow'
    BY <2>32 DEF ShellPrints
  <2>33. ASSUME NEW s \in Shells, DeliverOutput(s) PROVE ScaleHasRow'
    BY <2>33 DEF DeliverOutput
  <2>34. ASSUME NEW s \in Shells, ShellEnds(s) PROVE ScaleHasRow'
    BY <2>34 DEF ShellEnds
  <2>35. ASSUME NEW s \in Shells, ReportExit(s) PROVE ScaleHasRow'
    BY <2>35 DEF ReportExit
  <2>36. ASSUME NEW s \in Shells, DeliverExit(s) PROVE ScaleHasRow'
    BY <2>36 DEF DeliverExit
  <2>37. CASE UNCHANGED vars
    BY <2>37 DEF vars
  <2> QED
    BY <2>1, <2>2, <2>3, <2>4, <2>5, <2>6, <2>7, <2>8, <2>9, <2>10, <2>11, <2>12, <2>13,
       <2>14, <2>15, <2>16, <2>17, <2>18, <2>19, <2>20, <2>21, <2>22, <2>23, <2>24, <2>25,
       <2>26, <2>27, <2>28, <2>29, <2>30, <2>31, <2>32, <2>33, <2>34, <2>35, <2>36, <2>37
    DEF Next, UserActs, MessageArrives
<1> QED BY <1>1, <1>2, ListTyped, PTL DEF Spec

\* The marks are rows of the current type, whatever the root does to the browser.
THEOREM PromptTyped == Spec => []PromptTypes
<1>1. Init => PromptTypes
  <2>1. Init => showConfirm \in BOOLEAN
    BY DEF Init
  <2> QED BY <2>1 DEF Init, PromptTypes, Types, RowsOf, Row, States
<1>2. ListTypes /\ ScaleHasRow /\ PromptTypes /\ [Next]_vars => PromptTypes'
  <2> SUFFICES ASSUME ListTypes, ScaleHasRow, PromptTypes, [Next]_vars PROVE PromptTypes'
    OBVIOUS
  <2> USE DEF PromptTypes, ListTypes, Types, RowsOf, Row, States, Prompts, Press,
            ScaleHasRow, rootVars, listVars, promptVars, workVars, detailVars, shellVars
  <2>1. CASE Mark
    BY <2>1 DEF Mark
  <2>2. CASE Escape
    BY <2>2 DEF Escape
  <2>3. CASE OpenFilter
    BY <2>3 DEF OpenFilter
  <2>4. CASE CloseFilter
    BY <2>4 DEF CloseFilter
  <2>5. CASE AskForRow
    BY <2>5 DEF AskForRow
  <2>6. CASE AskForMarks
    BY <2>6 DEF AskForMarks
  <2>7. CASE OpenScale
    BY <2>7 DEF OpenScale
  <2>8. CASE EnterReplicas
    BY <2>8 DEF EnterReplicas
  <2>9. CASE CancelScale
    BY <2>9 DEF CancelScale
  <2>10. CASE Refuse
    BY <2>10 DEF Refuse
  <2>11. CASE Confirm
    BY <2>11 DEF Confirm
  <2>12. CASE CloseDetail
    BY <2>12 DEF CloseDetail
  <2>13. CASE Analyze
    BY <2>13 DEF Analyze
  <2>14. CASE OpenShell
    BY <2>14 DEF OpenShell
  <2>15. CASE CloseShell
    BY <2>15 DEF CloseShell, DropShell
  <2>16. CASE LeaveBrowser
    BY <2>16 DEF LeaveBrowser, Deactivate, DropShell
  <2>17. CASE OpenBrowser
    BY <2>17 DEF OpenBrowser
  <2>18. CASE SelectContext
    BY <2>18 DEF SelectContext, Deactivate, DropShell
  <2>19. ASSUME NEW t \in Types, ChangeType(t) PROVE PromptTypes'
    BY <2>19 DEF ChangeType, SetResourceType
  <2>20. ASSUME NEW t \in Types, Palette(t) PROVE PromptTypes'
    BY <2>20 DEF Palette, SetResourceType
  <2>21. ASSUME NEW where \in Types \cup {"leave"}, AskToTravel(where) PROVE PromptTypes'
    BY <2>21 DEF AskToTravel
  <2>22. ASSUME NEW kind \in {"describe", "text"}, Read(kind) PROVE PromptTypes'
    BY <2>22 DEF Read
  <2>23. ASSUME NEW ns \in NamespaceChoice, ChooseNamespace(ns) PROVE PromptTypes'
    BY <2>23 DEF ChooseNamespace, SwitchNamespace, SetNamespace, DropShell
  <2>24. CASE ListChanges
    BY <2>24 DEF ListChanges
  <2>25. CASE DeliverMutation
    BY <2>25 DEF DeliverMutation
  <2>26. CASE GoAway
    BY <2>26 DEF GoAway, Deactivate, DropShell
  <2>27. CASE ContextSwitchFailed
    BY <2>27 DEF ContextSwitchFailed
  <2>28. ASSUME NEW t \in Types, DrillDown(t) PROVE PromptTypes'
    BY <2>28 DEF DrillDown, SetResourceType
  <2>29. ASSUME NEW ns \in NamespaceChoice, ContextSwitched(ns) PROVE PromptTypes'
    BY <2>29 DEF ContextSwitched, SwitchNamespace, SetNamespace, DropShell
  <2>30. ASSUME NEW answer \in answers, DeliverAnswer(answer) PROVE PromptTypes'
    BY <2>30 DEF DeliverAnswer, OpenDetail
  <2>31. ASSUME NEW m \in summaries, DeliverSummary(m) PROVE PromptTypes'
    BY <2>31 DEF DeliverSummary
  <2>32. ASSUME NEW s \in Shells, ShellPrints(s) PROVE PromptTypes'
    BY <2>32 DEF ShellPrints
  <2>33. ASSUME NEW s \in Shells, DeliverOutput(s) PROVE PromptTypes'
    BY <2>33 DEF DeliverOutput
  <2>34. ASSUME NEW s \in Shells, ShellEnds(s) PROVE PromptTypes'
    BY <2>34 DEF ShellEnds
  <2>35. ASSUME NEW s \in Shells, ReportExit(s) PROVE PromptTypes'
    BY <2>35 DEF ReportExit
  <2>36. ASSUME NEW s \in Shells, DeliverExit(s) PROVE PromptTypes'
    BY <2>36 DEF DeliverExit
  <2>37. CASE UNCHANGED vars
    BY <2>37 DEF vars
  <2> QED
    BY <2>1, <2>2, <2>3, <2>4, <2>5, <2>6, <2>7, <2>8, <2>9, <2>10, <2>11, <2>12, <2>13,
       <2>14, <2>15, <2>16, <2>17, <2>18, <2>19, <2>20, <2>21, <2>22, <2>23, <2>24, <2>25,
       <2>26, <2>27, <2>28, <2>29, <2>30, <2>31, <2>32, <2>33, <2>34, <2>35, <2>36, <2>37
    DEF Next, UserActs, MessageArrives
<1> QED BY <1>1, <1>2, ListTyped, ScaleRowKept, PTL DEF Spec

\* The requests on their way are made of rows.
THEOREM WorkTyped == Spec => []WorkTypes
<1>1. Init => WorkTypes
  BY DEF Init, WorkTypes, NoRequest
<1>2. ListTypes /\ PromptTypes /\ ScaleHasRow /\ WorkTypes /\ [Next]_vars => WorkTypes'
  <2> SUFFICES ASSUME ListTypes, PromptTypes, ScaleHasRow, WorkTypes, [Next]_vars PROVE WorkTypes'
    OBVIOUS
  <2> USE DEF WorkTypes, PromptTypes, ListTypes, Row, RowsOf, Types, ScaleHasRow, rootVars,
            listVars, promptVars, workVars, detailVars, shellVars
  <2>1. CASE Mark
    BY <2>1 DEF Mark
  <2>2. CASE Escape
    BY <2>2 DEF Escape
  <2>3. CASE OpenFilter
    BY <2>3 DEF OpenFilter
  <2>4. CASE CloseFilter
    BY <2>4 DEF CloseFilter
  <2>5. CASE AskForRow
    BY <2>5 DEF AskForRow
  <2>6. CASE AskForMarks
    BY <2>6 DEF AskForMarks
  <2>7. CASE OpenScale
    BY <2>7 DEF OpenScale
  <2>8. CASE EnterReplicas
    BY <2>8 DEF EnterReplicas
  <2>9. CASE CancelScale
    BY <2>9 DEF CancelScale
  <2>10. CASE Refuse
    BY <2>10 DEF Refuse
  <2>11. CASE Confirm
    <3>1. ConfirmedRows \subseteq Row
      BY <2>11 DEF Confirm, ConfirmedRows, Press, Prompts
    <3>2. mutating' \in 0..MaxMutations
      BY <2>11, <3>1 DEF Confirm
    <3> QED BY <2>11, <3>1, <3>2 DEF Confirm
  <2>12. CASE CloseDetail
    BY <2>12 DEF CloseDetail
  <2>13. CASE Analyze
    BY <2>13 DEF Analyze
  <2>14. CASE OpenShell
    BY <2>14 DEF OpenShell
  <2>15. CASE CloseShell
    BY <2>15 DEF CloseShell, DropShell
  <2>16. CASE LeaveBrowser
    BY <2>16 DEF LeaveBrowser, Deactivate, DropShell
  <2>17. CASE OpenBrowser
    BY <2>17 DEF OpenBrowser
  <2>18. CASE SelectContext
    BY <2>18 DEF SelectContext, Deactivate, DropShell
  <2>19. ASSUME NEW t \in Types, ChangeType(t) PROVE WorkTypes'
    BY <2>19 DEF ChangeType, SetResourceType
  <2>20. ASSUME NEW t \in Types, Palette(t) PROVE WorkTypes'
    BY <2>20 DEF Palette, SetResourceType
  <2>21. ASSUME NEW where \in Types \cup {"leave"}, AskToTravel(where) PROVE WorkTypes'
    BY <2>21 DEF AskToTravel
  <2>22. ASSUME NEW kind \in {"describe", "text"}, Read(kind) PROVE WorkTypes'
    BY <2>22 DEF Read
  <2>23. ASSUME NEW ns \in NamespaceChoice, ChooseNamespace(ns) PROVE WorkTypes'
    BY <2>23 DEF ChooseNamespace, SwitchNamespace, SetNamespace, DropShell
  <2>24. CASE ListChanges
    BY <2>24 DEF ListChanges
  <2>25. CASE DeliverMutation
    BY <2>25 DEF DeliverMutation, NoRequest
  <2>26. CASE GoAway
    BY <2>26 DEF GoAway, Deactivate, DropShell
  <2>27. CASE ContextSwitchFailed
    BY <2>27 DEF ContextSwitchFailed
  <2>28. ASSUME NEW t \in Types, DrillDown(t) PROVE WorkTypes'
    BY <2>28 DEF DrillDown, SetResourceType
  <2>29. ASSUME NEW ns \in NamespaceChoice, ContextSwitched(ns) PROVE WorkTypes'
    BY <2>29 DEF ContextSwitched, SwitchNamespace, SetNamespace, DropShell
  <2>30. ASSUME NEW answer \in answers, DeliverAnswer(answer) PROVE WorkTypes'
    BY <2>30 DEF DeliverAnswer, OpenDetail
  <2>31. ASSUME NEW m \in summaries, DeliverSummary(m) PROVE WorkTypes'
    BY <2>31 DEF DeliverSummary
  <2>32. ASSUME NEW s \in Shells, ShellPrints(s) PROVE WorkTypes'
    BY <2>32 DEF ShellPrints
  <2>33. ASSUME NEW s \in Shells, DeliverOutput(s) PROVE WorkTypes'
    BY <2>33 DEF DeliverOutput
  <2>34. ASSUME NEW s \in Shells, ShellEnds(s) PROVE WorkTypes'
    BY <2>34 DEF ShellEnds
  <2>35. ASSUME NEW s \in Shells, ReportExit(s) PROVE WorkTypes'
    BY <2>35 DEF ReportExit
  <2>36. ASSUME NEW s \in Shells, DeliverExit(s) PROVE WorkTypes'
    BY <2>36 DEF DeliverExit
  <2>37. CASE UNCHANGED vars
    BY <2>37 DEF vars
  <2> QED
    BY <2>1, <2>2, <2>3, <2>4, <2>5, <2>6, <2>7, <2>8, <2>9, <2>10, <2>11, <2>12, <2>13,
       <2>14, <2>15, <2>16, <2>17, <2>18, <2>19, <2>20, <2>21, <2>22, <2>23, <2>24, <2>25,
       <2>26, <2>27, <2>28, <2>29, <2>30, <2>31, <2>32, <2>33, <2>34, <2>35, <2>36, <2>37
    DEF Next, UserActs, MessageArrives
<1> QED BY <1>1, <1>2, ListTyped, PromptTyped, ScaleRowKept, PTL DEF Spec

\* Outdating the summaries on their way keeps what they are about.
LEMMA StaleTyped ==
    ASSUME summaries \subseteq [latest : {"yes", "no"}, identity : Row, content : Row]
    PROVE  Stale(summaries) \subseteq [latest : {"yes", "no"}, identity : Row, content : Row]
BY DEF Stale

\* What is shown and on its way for the detail pane has its type.
THEOREM DetailTyped == Spec => []DetailTypes
<1>1. Init => DetailTypes
  <2>1. Init => {showDetail, analyzing} \subseteq BOOLEAN
    BY DEF Init
  <2> QED BY <2>1 DEF Init, DetailTypes
<1>2. ListTypes /\ DetailTypes /\ [Next]_vars => DetailTypes'
  <2> SUFFICES ASSUME ListTypes, DetailTypes, [Next]_vars PROVE DetailTypes'
    OBVIOUS
  <2> USE DEF DetailTypes, ListTypes, Row, RowsOf, Types, rootVars, listVars, promptVars,
            workVars, detailVars, shellVars
  <2>1. CASE Mark
    BY <2>1 DEF Mark
  <2>2. CASE Escape
    BY <2>2 DEF Escape
  <2>3. CASE OpenFilter
    BY <2>3 DEF OpenFilter
  <2>4. CASE CloseFilter
    BY <2>4 DEF CloseFilter
  <2>5. CASE AskForRow
    BY <2>5 DEF AskForRow
  <2>6. CASE AskForMarks
    BY <2>6 DEF AskForMarks
  <2>7. CASE OpenScale
    BY <2>7 DEF OpenScale
  <2>8. CASE EnterReplicas
    BY <2>8 DEF EnterReplicas
  <2>9. CASE CancelScale
    BY <2>9 DEF CancelScale
  <2>10. CASE Refuse
    BY <2>10 DEF Refuse
  <2>11. CASE Confirm
    BY <2>11 DEF Confirm
  <2>12. CASE CloseDetail
    BY <2>12, StaleTyped DEF CloseDetail
  <2>13. CASE Analyze
    <3>1. [latest |-> "yes", identity |-> cursor, content |-> detail.of] \in [latest : {"yes", "no"}, identity : Row, content : Row]
      BY <2>13, StaleTyped DEF Analyze
    <3>2. summaries' \subseteq [latest : {"yes", "no"}, identity : Row, content : Row]
      BY <2>13, StaleTyped, <3>1 DEF Analyze
    <3> QED BY <2>13, <3>1, <3>2 DEF Analyze
  <2>14. CASE OpenShell
    BY <2>14 DEF OpenShell
  <2>15. CASE CloseShell
    BY <2>15 DEF CloseShell, DropShell
  <2>16. CASE LeaveBrowser
    BY <2>16 DEF LeaveBrowser, Deactivate, DropShell
  <2>17. CASE OpenBrowser
    BY <2>17 DEF OpenBrowser
  <2>18. CASE SelectContext
    BY <2>18 DEF SelectContext, Deactivate, DropShell
  <2>19. ASSUME NEW t \in Types, ChangeType(t) PROVE DetailTypes'
    BY <2>19, StaleTyped DEF ChangeType, SetResourceType
  <2>20. ASSUME NEW t \in Types, Palette(t) PROVE DetailTypes'
    BY <2>20, StaleTyped DEF Palette, SetResourceType
  <2>21. ASSUME NEW where \in Types \cup {"leave"}, AskToTravel(where) PROVE DetailTypes'
    BY <2>21 DEF AskToTravel
  <2>22. ASSUME NEW kind \in {"describe", "text"}, Read(kind) PROVE DetailTypes'
    BY <2>22 DEF Read
  <2>23. ASSUME NEW ns \in NamespaceChoice, ChooseNamespace(ns) PROVE DetailTypes'
    BY <2>23, StaleTyped DEF ChooseNamespace, SwitchNamespace, SetNamespace, DropShell
  <2>24. CASE ListChanges
    BY <2>24 DEF ListChanges
  <2>25. CASE DeliverMutation
    BY <2>25 DEF DeliverMutation
  <2>26. CASE GoAway
    BY <2>26 DEF GoAway, Deactivate, DropShell
  <2>27. CASE ContextSwitchFailed
    BY <2>27 DEF ContextSwitchFailed
  <2>28. ASSUME NEW t \in Types, DrillDown(t) PROVE DetailTypes'
    BY <2>28, StaleTyped DEF DrillDown, SetResourceType
  <2>29. ASSUME NEW ns \in NamespaceChoice, ContextSwitched(ns) PROVE DetailTypes'
    BY <2>29, StaleTyped DEF ContextSwitched, SwitchNamespace, SetNamespace, DropShell
  <2>30. ASSUME NEW answer \in answers, DeliverAnswer(answer) PROVE DetailTypes'
    BY <2>30, StaleTyped DEF DeliverAnswer, OpenDetail
  <2>31. ASSUME NEW m \in summaries, DeliverSummary(m) PROVE DetailTypes'
    BY <2>31 DEF DeliverSummary
  <2>32. ASSUME NEW s \in Shells, ShellPrints(s) PROVE DetailTypes'
    BY <2>32 DEF ShellPrints
  <2>33. ASSUME NEW s \in Shells, DeliverOutput(s) PROVE DetailTypes'
    BY <2>33 DEF DeliverOutput
  <2>34. ASSUME NEW s \in Shells, ShellEnds(s) PROVE DetailTypes'
    BY <2>34 DEF ShellEnds
  <2>35. ASSUME NEW s \in Shells, ReportExit(s) PROVE DetailTypes'
    BY <2>35 DEF ReportExit
  <2>36. ASSUME NEW s \in Shells, DeliverExit(s) PROVE DetailTypes'
    BY <2>36 DEF DeliverExit
  <2>37. CASE UNCHANGED vars
    BY <2>37 DEF vars
  <2> QED
    BY <2>1, <2>2, <2>3, <2>4, <2>5, <2>6, <2>7, <2>8, <2>9, <2>10, <2>11, <2>12, <2>13,
       <2>14, <2>15, <2>16, <2>17, <2>18, <2>19, <2>20, <2>21, <2>22, <2>23, <2>24, <2>25,
       <2>26, <2>27, <2>28, <2>29, <2>30, <2>31, <2>32, <2>33, <2>34, <2>35, <2>36, <2>37
    DEF Next, UserActs, MessageArrives
<1> QED BY <1>1, <1>2, ListTyped, PTL DEF Spec

\* What is known of each shell has its type.
THEOREM ShellTyped == Spec => []ShellTypes
<1>1. Init => ShellTypes
  BY DEF Init, ShellTypes, Shells, NoShell
<1>2. ShellTypes /\ [Next]_vars => ShellTypes'
  <2> SUFFICES ASSUME ShellTypes, [Next]_vars PROVE ShellTypes'
    OBVIOUS
  <2> USE DEF ShellTypes, Shells, NoShell, rootVars, listVars, promptVars, workVars,
            detailVars, shellVars
  <2>1. CASE Mark
    BY <2>1 DEF Mark
  <2>2. CASE Escape
    BY <2>2 DEF Escape
  <2>3. CASE OpenFilter
    BY <2>3 DEF OpenFilter
  <2>4. CASE CloseFilter
    BY <2>4 DEF CloseFilter
  <2>5. CASE AskForRow
    BY <2>5 DEF AskForRow
  <2>6. CASE AskForMarks
    BY <2>6 DEF AskForMarks
  <2>7. CASE OpenScale
    BY <2>7 DEF OpenScale
  <2>8. CASE EnterReplicas
    BY <2>8 DEF EnterReplicas
  <2>9. CASE CancelScale
    BY <2>9 DEF CancelScale
  <2>10. CASE Refuse
    BY <2>10 DEF Refuse
  <2>11. CASE Confirm
    BY <2>11 DEF Confirm
  <2>12. CASE CloseDetail
    BY <2>12 DEF CloseDetail
  <2>13. CASE Analyze
    BY <2>13 DEF Analyze
  <2>14. CASE OpenShell
    BY <2>14 DEF OpenShell
  <2>15. CASE CloseShell
    BY <2>15 DEF CloseShell, DropShell, Closed
  <2>16. CASE LeaveBrowser
    BY <2>16 DEF LeaveBrowser, Deactivate, DropShell, Closed
  <2>17. CASE OpenBrowser
    BY <2>17 DEF OpenBrowser
  <2>18. CASE SelectContext
    BY <2>18 DEF SelectContext, Deactivate, DropShell, Closed
  <2>19. ASSUME NEW t \in Types, ChangeType(t) PROVE ShellTypes'
    BY <2>19 DEF ChangeType, SetResourceType
  <2>20. ASSUME NEW t \in Types, Palette(t) PROVE ShellTypes'
    BY <2>20 DEF Palette, SetResourceType
  <2>21. ASSUME NEW where \in Types \cup {"leave"}, AskToTravel(where) PROVE ShellTypes'
    BY <2>21 DEF AskToTravel
  <2>22. ASSUME NEW kind \in {"describe", "text"}, Read(kind) PROVE ShellTypes'
    BY <2>22 DEF Read
  <2>23. ASSUME NEW ns \in NamespaceChoice, ChooseNamespace(ns) PROVE ShellTypes'
    BY <2>23 DEF ChooseNamespace, SwitchNamespace, SetNamespace, DropShell, Closed
  <2>24. CASE ListChanges
    BY <2>24 DEF ListChanges
  <2>25. CASE DeliverMutation
    BY <2>25 DEF DeliverMutation
  <2>26. CASE GoAway
    BY <2>26 DEF GoAway, Deactivate, DropShell, Closed
  <2>27. CASE ContextSwitchFailed
    BY <2>27 DEF ContextSwitchFailed
  <2>28. ASSUME NEW t \in Types, DrillDown(t) PROVE ShellTypes'
    BY <2>28 DEF DrillDown, SetResourceType
  <2>29. ASSUME NEW ns \in NamespaceChoice, ContextSwitched(ns) PROVE ShellTypes'
    BY <2>29 DEF ContextSwitched, SwitchNamespace, SetNamespace, DropShell, Closed
  <2>30. ASSUME NEW answer \in answers, DeliverAnswer(answer) PROVE ShellTypes'
    BY <2>30 DEF DeliverAnswer, OpenDetail
  <2>31. ASSUME NEW m \in summaries, DeliverSummary(m) PROVE ShellTypes'
    BY <2>31 DEF DeliverSummary
  <2>32. ASSUME NEW s \in Shells, ShellPrints(s) PROVE ShellTypes'
    BY <2>32 DEF ShellPrints
  <2>33. ASSUME NEW s \in Shells, DeliverOutput(s) PROVE ShellTypes'
    <3>1. outputs' \in [Shells -> {"none", "waiting", "line", "closed"}]
      BY <2>33 DEF DeliverOutput
    <3>2. shellLines' = shellLines \/ shellLines' = shellLines \cup {s}
      BY <2>33 DEF DeliverOutput
    <3>3. shellLines' \subseteq Shells
      BY <3>2
    <3> QED BY <2>33, <3>1, <3>2, <3>3 DEF DeliverOutput
  <2>34. ASSUME NEW s \in Shells, ShellEnds(s) PROVE ShellTypes'
    BY <2>34 DEF ShellEnds
  <2>35. ASSUME NEW s \in Shells, ReportExit(s) PROVE ShellTypes'
    BY <2>35 DEF ReportExit
  <2>36. ASSUME NEW s \in Shells, DeliverExit(s) PROVE ShellTypes'
    BY <2>36 DEF DeliverExit, Closed
  <2>37. CASE UNCHANGED vars
    BY <2>37 DEF vars
  <2> QED
    BY <2>1, <2>2, <2>3, <2>4, <2>5, <2>6, <2>7, <2>8, <2>9, <2>10, <2>11, <2>12, <2>13,
       <2>14, <2>15, <2>16, <2>17, <2>18, <2>19, <2>20, <2>21, <2>22, <2>23, <2>24, <2>25,
       <2>26, <2>27, <2>28, <2>29, <2>30, <2>31, <2>32, <2>33, <2>34, <2>35, <2>36, <2>37
    DEF Next, UserActs, MessageArrives
<1> QED BY <1>1, <1>2, PTL DEF Spec

\* Every variable keeps its type.
THEOREM TypeCorrect == Spec => []TypeOK
<1> QED BY RootTyped, ListTyped, PromptTyped, WorkTyped, DetailTyped, ShellTyped, PTL DEF TypeOK

\* A summary on the screen was made from the description under it: acceptsDetailSummary and openBrowserDetail.
THEOREM SummaryIsOfContent == Spec => []SummaryOfContent
<1>1. Init => SummaryOfContent
  BY DEF Init, SummaryOfContent
<1>2. DetailTypes /\ SummaryOfContent /\ [Next]_vars => SummaryOfContent'
  <2> SUFFICES ASSUME DetailTypes, SummaryOfContent, [Next]_vars PROVE SummaryOfContent'
    OBVIOUS
  <2> USE DEF SummaryOfContent, DetailTypes, rootVars, listVars, promptVars, workVars,
            detailVars, shellVars
  <2>1. CASE Mark
    BY <2>1 DEF Mark
  <2>2. CASE Escape
    BY <2>2 DEF Escape
  <2>3. CASE OpenFilter
    BY <2>3 DEF OpenFilter
  <2>4. CASE CloseFilter
    BY <2>4 DEF CloseFilter
  <2>5. CASE AskForRow
    BY <2>5 DEF AskForRow
  <2>6. CASE AskForMarks
    BY <2>6 DEF AskForMarks
  <2>7. CASE OpenScale
    BY <2>7 DEF OpenScale
  <2>8. CASE EnterReplicas
    BY <2>8 DEF EnterReplicas
  <2>9. CASE CancelScale
    BY <2>9 DEF CancelScale
  <2>10. CASE Refuse
    BY <2>10 DEF Refuse
  <2>11. CASE Confirm
    BY <2>11 DEF Confirm
  <2>12. CASE CloseDetail
    BY <2>12 DEF CloseDetail
  <2>13. CASE Analyze
    BY <2>13 DEF Analyze
  <2>14. CASE OpenShell
    BY <2>14 DEF OpenShell
  <2>15. CASE CloseShell
    BY <2>15 DEF CloseShell, DropShell
  <2>16. CASE LeaveBrowser
    BY <2>16 DEF LeaveBrowser, Deactivate, DropShell
  <2>17. CASE OpenBrowser
    BY <2>17 DEF OpenBrowser
  <2>18. CASE SelectContext
    BY <2>18 DEF SelectContext, Deactivate, DropShell
  <2>19. ASSUME NEW t \in Types, ChangeType(t) PROVE SummaryOfContent'
    BY <2>19 DEF ChangeType, SetResourceType
  <2>20. ASSUME NEW t \in Types, Palette(t) PROVE SummaryOfContent'
    BY <2>20 DEF Palette, SetResourceType
  <2>21. ASSUME NEW where \in Types \cup {"leave"}, AskToTravel(where) PROVE SummaryOfContent'
    BY <2>21 DEF AskToTravel
  <2>22. ASSUME NEW kind \in {"describe", "text"}, Read(kind) PROVE SummaryOfContent'
    BY <2>22 DEF Read
  <2>23. ASSUME NEW ns \in NamespaceChoice, ChooseNamespace(ns) PROVE SummaryOfContent'
    BY <2>23 DEF ChooseNamespace, SwitchNamespace, SetNamespace, DropShell
  <2>24. CASE ListChanges
    BY <2>24 DEF ListChanges
  <2>25. CASE DeliverMutation
    BY <2>25 DEF DeliverMutation
  <2>26. CASE GoAway
    BY <2>26 DEF GoAway, Deactivate, DropShell
  <2>27. CASE ContextSwitchFailed
    BY <2>27 DEF ContextSwitchFailed
  <2>28. ASSUME NEW t \in Types, DrillDown(t) PROVE SummaryOfContent'
    BY <2>28 DEF DrillDown, SetResourceType
  <2>29. ASSUME NEW ns \in NamespaceChoice, ContextSwitched(ns) PROVE SummaryOfContent'
    BY <2>29 DEF ContextSwitched, SwitchNamespace, SetNamespace, DropShell
  <2>30. ASSUME NEW answer \in answers, DeliverAnswer(answer) PROVE SummaryOfContent'
    BY <2>30 DEF DeliverAnswer, OpenDetail
  <2>31. ASSUME NEW m \in summaries, DeliverSummary(m) PROVE SummaryOfContent'
    BY <2>31 DEF DeliverSummary, AcceptsSummary
  <2>32. ASSUME NEW s \in Shells, ShellPrints(s) PROVE SummaryOfContent'
    BY <2>32 DEF ShellPrints
  <2>33. ASSUME NEW s \in Shells, DeliverOutput(s) PROVE SummaryOfContent'
    BY <2>33 DEF DeliverOutput
  <2>34. ASSUME NEW s \in Shells, ShellEnds(s) PROVE SummaryOfContent'
    BY <2>34 DEF ShellEnds
  <2>35. ASSUME NEW s \in Shells, ReportExit(s) PROVE SummaryOfContent'
    BY <2>35 DEF ReportExit
  <2>36. ASSUME NEW s \in Shells, DeliverExit(s) PROVE SummaryOfContent'
    BY <2>36 DEF DeliverExit
  <2>37. CASE UNCHANGED vars
    BY <2>37 DEF vars
  <2> QED
    BY <2>1, <2>2, <2>3, <2>4, <2>5, <2>6, <2>7, <2>8, <2>9, <2>10, <2>11, <2>12, <2>13,
       <2>14, <2>15, <2>16, <2>17, <2>18, <2>19, <2>20, <2>21, <2>22, <2>23, <2>24, <2>25,
       <2>26, <2>27, <2>28, <2>29, <2>30, <2>31, <2>32, <2>33, <2>34, <2>35, <2>36, <2>37
    DEF Next, UserActs, MessageArrives
<1> QED BY <1>1, <1>2, DetailTyped, PTL DEF Spec

\* The shell pane shows its own session only, and a command waits for more of its output: handleShellOutput.
THEOREM PaneHearsItsShell == Spec => []PaneListens
<1>1. Init => PaneListens
  BY DEF Init, PaneListens
<1>2. ShellTypes /\ PaneListens /\ [Next]_vars => PaneListens'
  <2> SUFFICES ASSUME ShellTypes, PaneListens, [Next]_vars PROVE PaneListens'
    OBVIOUS
  <2> USE DEF PaneListens, ShellTypes, Shells, NoShell, Press, States, rootVars, listVars,
            promptVars, workVars, detailVars, shellVars
  <2>1. CASE Mark
    BY <2>1 DEF Mark
  <2>2. CASE Escape
    BY <2>2 DEF Escape
  <2>3. CASE OpenFilter
    BY <2>3 DEF OpenFilter
  <2>4. CASE CloseFilter
    BY <2>4 DEF CloseFilter
  <2>5. CASE AskForRow
    BY <2>5 DEF AskForRow
  <2>6. CASE AskForMarks
    BY <2>6 DEF AskForMarks
  <2>7. CASE OpenScale
    BY <2>7 DEF OpenScale
  <2>8. CASE EnterReplicas
    BY <2>8 DEF EnterReplicas
  <2>9. CASE CancelScale
    BY <2>9 DEF CancelScale
  <2>10. CASE Refuse
    BY <2>10 DEF Refuse
  <2>11. CASE Confirm
    BY <2>11 DEF Confirm
  <2>12. CASE CloseDetail
    BY <2>12 DEF CloseDetail
  <2>13. CASE Analyze
    BY <2>13 DEF Analyze
  <2>14. CASE OpenShell
    BY <2>14 DEF OpenShell
  <2>15. CASE CloseShell
    BY <2>15 DEF CloseShell, DropShell
  <2>16. CASE LeaveBrowser
    BY <2>16 DEF LeaveBrowser, Deactivate, DropShell
  <2>17. CASE OpenBrowser
    BY <2>17 DEF OpenBrowser
  <2>18. CASE SelectContext
    BY <2>18 DEF SelectContext, Deactivate, DropShell
  <2>19. ASSUME NEW t \in Types, ChangeType(t) PROVE PaneListens'
    BY <2>19 DEF ChangeType, SetResourceType
  <2>20. ASSUME NEW t \in Types, Palette(t) PROVE PaneListens'
    BY <2>20 DEF Palette, SetResourceType
  <2>21. ASSUME NEW where \in Types \cup {"leave"}, AskToTravel(where) PROVE PaneListens'
    BY <2>21 DEF AskToTravel
  <2>22. ASSUME NEW kind \in {"describe", "text"}, Read(kind) PROVE PaneListens'
    BY <2>22 DEF Read
  <2>23. ASSUME NEW ns \in NamespaceChoice, ChooseNamespace(ns) PROVE PaneListens'
    BY <2>23 DEF ChooseNamespace, SwitchNamespace, SetNamespace, DropShell
  <2>24. CASE ListChanges
    BY <2>24 DEF ListChanges
  <2>25. CASE DeliverMutation
    BY <2>25 DEF DeliverMutation
  <2>26. CASE GoAway
    BY <2>26 DEF GoAway, Deactivate, DropShell
  <2>27. CASE ContextSwitchFailed
    BY <2>27 DEF ContextSwitchFailed
  <2>28. ASSUME NEW t \in Types, DrillDown(t) PROVE PaneListens'
    BY <2>28 DEF DrillDown, SetResourceType
  <2>29. ASSUME NEW ns \in NamespaceChoice, ContextSwitched(ns) PROVE PaneListens'
    BY <2>29 DEF ContextSwitched, SwitchNamespace, SetNamespace, DropShell
  <2>30. ASSUME NEW answer \in answers, DeliverAnswer(answer) PROVE PaneListens'
    BY <2>30 DEF DeliverAnswer, OpenDetail
  <2>31. ASSUME NEW m \in summaries, DeliverSummary(m) PROVE PaneListens'
    BY <2>31 DEF DeliverSummary
  <2>32. ASSUME NEW s \in Shells, ShellPrints(s) PROVE PaneListens'
    BY <2>32 DEF ShellPrints
  <2>33. ASSUME NEW s \in Shells, DeliverOutput(s) PROVE PaneListens'
    BY <2>33 DEF DeliverOutput
  <2>34. ASSUME NEW s \in Shells, ShellEnds(s) PROVE PaneListens'
    BY <2>34 DEF ShellEnds
  <2>35. ASSUME NEW s \in Shells, ReportExit(s) PROVE PaneListens'
    BY <2>35 DEF ReportExit
  <2>36. ASSUME NEW s \in Shells, DeliverExit(s) PROVE PaneListens'
    BY <2>36 DEF DeliverExit
  <2>37. CASE UNCHANGED vars
    BY <2>37 DEF vars
  <2> QED
    BY <2>1, <2>2, <2>3, <2>4, <2>5, <2>6, <2>7, <2>8, <2>9, <2>10, <2>11, <2>12, <2>13,
       <2>14, <2>15, <2>16, <2>17, <2>18, <2>19, <2>20, <2>21, <2>22, <2>23, <2>24, <2>25,
       <2>26, <2>27, <2>28, <2>29, <2>30, <2>31, <2>32, <2>33, <2>34, <2>35, <2>36, <2>37
    DEF Next, UserActs, MessageArrives
<1> QED BY <1>1, <1>2, ShellTyped, PTL DEF Spec

=============================================================================
