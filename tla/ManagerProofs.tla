---------------------------- MODULE ManagerProofs ---------------------------
(***************************************************************************)
(* Proofs about the cluster manager: ClusterScope, how its connection and  *)
(* the root come to agree, for any contexts, any number of fetches and of  *)
(* connections, and ClusterCalls, the calls that are made of it, for any   *)
(* rows, attempts and connections.                                         *)
(***************************************************************************)
EXTENDS ClusterScope, ClusterCalls, TLAPS, FiniteSetTheorems, SequenceTheorems, WellFoundedInduction

-----------------------------------------------------------------------------
(* The connection, and what the root knows of it                           *)

USE ScopeConstants

\* A fetch that starts takes a free slot: its type, its kind, and every other fetch stay.
LEMMA StartTakesFreeSlot ==
    ASSUME FetchTypes, NEW kind \in Kinds, Start(kind)
    PROVE  /\ FetchTypes'
           /\ \E i \in Slots : fetches'[i].kind = kind
           /\ \A i \in Slots : fetches[i].kind # "none" => fetches'[i] = fetches[i]
           /\ \A i \in Slots : fetches'[i] \in {fetches[i], Asked(kind)}
<1> DEFINE i == CHOOSE k \in FreeSlots : TRUE
<1>1. i \in FreeSlots
  BY DEF Start
<1>2. i \in Slots /\ fetches[i] = NoFetch
  BY <1>1 DEF FreeSlots
<1>3. fetches' = [fetches EXCEPT ![i] = Asked(kind)]
  BY DEF Start
<1> HIDE DEF i
<1>4. Asked(kind) \in [kind : Kinds \cup {"none"}, of : Contexts \cup {None},
                       step : {"none", "asked", "answer", "denied", "error"}]
  BY DEF Asked
<1> QED BY <1>2, <1>3, <1>4 DEF FetchTypes, NoFetch, Asked

\* The same of two fetches.
LEMMA StartTakesTwoSlots ==
    ASSUME FetchTypes, NEW a \in Kinds, NEW b \in Kinds, StartBoth(a, b)
    PROVE  /\ FetchTypes'
           /\ \A i \in Slots : fetches[i].kind # "none" => fetches'[i] = fetches[i]
           /\ \A i \in Slots : fetches'[i] \in {fetches[i], Asked(a), Asked(b)}
<1>0. PICK i \in FreeSlots : \E j \in FreeSlots \ {i} :
          fetches' = [fetches EXCEPT ![i] = Asked(a), ![j] = Asked(b)]
  BY DEF StartBoth
<1>1. PICK j \in FreeSlots \ {i} :
          fetches' = [fetches EXCEPT ![i] = Asked(a), ![j] = Asked(b)]
  BY <1>0
<1>2. {Asked(a), Asked(b)} \subseteq
          [kind : Kinds \cup {"none"}, of : Contexts \cup {None},
           step : {"none", "asked", "answer", "denied", "error"}]
  BY DEF Asked
<1>3. i \in Slots /\ j \in Slots /\ i # j /\ fetches[i] = NoFetch /\ fetches[j] = NoFetch
  BY DEF FreeSlots
<1> QED BY <1>1, <1>2, <1>3 DEF FetchTypes, NoFetch

\* The connection that is made is the one that was chosen, and there is room for it.
ConnectOrder ==
    /\ ManagerTypes
    /\ connect.step # "idle" => connect.to \in Contexts
    /\ connect.step \in {"set", "install"} => lifetime < MaxConnections
    /\ connect.step = "cancel" => lifetime > 1
    /\ connect.step \in {"cancel", "done"} => connected = connect.to
    /\ connect.step \in {"check", "set", "install"} => connect.previous \in Contexts

\* The manager keeps its types, and the connection installed last is the one that was asked for.
THEOREM ConnectOrdered == Spec => []ConnectOrder
<1>1. Init => ConnectOrder
  <2>1. Init => edited \in BOOLEAN
    BY DEF Init
  <2> QED BY <2>1 DEF Init, ConnectOrder, ManagerTypes, Lifetimes, NotConnecting
<1>2. ConnectOrder /\ [Next]_vars => ConnectOrder'
  <2> SUFFICES ASSUME ConnectOrder, [Next]_vars PROVE ConnectOrder'
    OBVIOUS
  <2> USE DEF ConnectOrder, ManagerTypes, Lifetimes, configVars, managerVars, listVars,
            viewVars, screenVars
  <2>1. CASE OpenNamespacePicker
    BY <2>1 DEF OpenNamespacePicker
  <2>2. CASE OpenContextPicker
    BY <2>2 DEF OpenContextPicker
  <2>3. CASE ClosePicker
    BY <2>3 DEF ClosePicker
  <2>4. CASE PaletteNamespace
    BY <2>4 DEF PaletteNamespace, SwitchNamespace
  <2>5. ASSUME NEW ns \in {"one", "all"}, ChooseNamespace(ns) PROVE ConnectOrder'
    BY <2>5 DEF ChooseNamespace, SwitchNamespace
  <2>6. ASSUME NEW c \in Contexts, SelectContext(c) PROVE ConnectOrder'
    BY <2>6 DEF SelectContext, NotConnecting
  <2>7. ASSUME NEW c \in Contexts, Edit(c) PROVE ConnectOrder'
    <3>1. edited' \in BOOLEAN
      BY <2>7 DEF Edit
    <3> QED BY <2>7, <3>1 DEF Edit
  <2>8. CASE Prepare
    BY <2>8 DEF Prepare, ConnectStep
  <2>9. CASE ConnectFails
    BY <2>9 DEF ConnectFails, Reach
  <2>10. CASE Check
    BY <2>10 DEF Check, ConnectStep, Reach
  <2>11. CASE Set
    BY <2>11 DEF Set, ConnectStep, Reach
  <2>12. CASE Install
    <3>1. edited' \in BOOLEAN
      BY <2>12 DEF Install
    <3> QED BY <2>12, <3>1 DEF Install, ConnectStep, Reach
  <2>13. CASE CancelPrevious
    BY <2>13 DEF CancelPrevious, ConnectStep, Reach
  <2>14. CASE ContextSwitched
    BY <2>14 DEF ContextSwitched, ConnectStep, SwitchNamespace, NamespaceForContext, NotConnecting
  <2>15. CASE ContextSwitchFailed
    BY <2>15 DEF ContextSwitchFailed, ConnectStep, NotConnecting
  <2>16. ASSUME NEW i \in Slots, Answer(i) PROVE ConnectOrder'
    BY <2>16 DEF Answer
  <2>17. ASSUME NEW i \in Slots, ApplyNamespaces(i) PROVE ConnectOrder'
    BY <2>17 DEF ApplyNamespaces, Handle, LeaveClusterScope, SwitchNamespace
  <2>18. ASSUME NEW i \in Slots, ApplyContexts(i) PROVE ConnectOrder'
    BY <2>18 DEF ApplyContexts, Handle, LeaveClusterScope, SwitchNamespace
  <2>19. ASSUME NEW i \in Slots, ApplyCurrentContext(i) PROVE ConnectOrder'
    BY <2>19 DEF ApplyCurrentContext, Handle
  <2>20. CASE UNCHANGED vars
    BY <2>20 DEF vars
  <2> QED
    BY <2>1, <2>2, <2>3, <2>4, <2>5, <2>6, <2>7, <2>8, <2>9, <2>10, <2>11, <2>12, <2>13,
       <2>14, <2>15, <2>16, <2>17, <2>18, <2>19, <2>20
    DEF Next, ConnectRuns, Switched, Apply
<1> QED BY <1>1, <1>2, PTL DEF Spec

\* A fetch on its way is of one kind and about one connection.
THEOREM FetchTyped == Spec => []FetchTypes
<1>1. Init => FetchTypes
  BY DEF Init, FetchTypes, Asked, NoFetch, Kinds
<1>2. ConnectOrder /\ FetchTypes /\ [Next]_vars => FetchTypes'
  <2> SUFFICES ASSUME ConnectOrder, FetchTypes, [Next]_vars PROVE FetchTypes'
    OBVIOUS
  <2> USE DEF FetchTypes, Kinds, ConnectOrder, ManagerTypes, configVars, managerVars,
            listVars, viewVars, screenVars
  <2>1. CASE OpenNamespacePicker
    BY <2>1, StartTakesFreeSlot DEF OpenNamespacePicker
  <2>2. CASE OpenContextPicker
    BY <2>2, StartTakesFreeSlot DEF OpenContextPicker
  <2>3. CASE ClosePicker
    BY <2>3 DEF ClosePicker
  <2>4. CASE PaletteNamespace
    BY <2>4 DEF PaletteNamespace, SwitchNamespace
  <2>5. ASSUME NEW ns \in {"one", "all"}, ChooseNamespace(ns) PROVE FetchTypes'
    BY <2>5 DEF ChooseNamespace, SwitchNamespace
  <2>6. ASSUME NEW c \in Contexts, SelectContext(c) PROVE FetchTypes'
    BY <2>6 DEF SelectContext, NotConnecting
  <2>7. ASSUME NEW c \in Contexts, Edit(c) PROVE FetchTypes'
    BY <2>7 DEF Edit
  <2>8. CASE Prepare
    BY <2>8 DEF Prepare, ConnectStep
  <2>9. CASE ConnectFails
    BY <2>9 DEF ConnectFails, Reach
  <2>10. CASE Check
    BY <2>10 DEF Check, ConnectStep, Reach
  <2>11. CASE Set
    BY <2>11 DEF Set, ConnectStep, Reach
  <2>12. CASE Install
    BY <2>12 DEF Install, ConnectStep, Reach
  <2>13. CASE CancelPrevious
    BY <2>13 DEF CancelPrevious, ConnectStep, Reach
  <2>14. CASE ContextSwitched
    BY <2>14, StartTakesTwoSlots DEF ContextSwitched, ConnectStep, SwitchNamespace, NamespaceForContext,
       NotConnecting
  <2>15. CASE ContextSwitchFailed
    BY <2>15 DEF ContextSwitchFailed, ConnectStep, NotConnecting
  <2>16. ASSUME NEW i \in Slots, Answer(i) PROVE FetchTypes'
    <3>1. connected \in Contexts
      BY <2>16 DEF Answer
    <3>2. fetches[i].kind \in Kinds \cup {"none"}
      BY <2>16, <3>1 DEF Answer
    <3>3. \A s \in {"answer", "denied", "error"} : [fetches[i] EXCEPT !.step = s, !.of = connected] \in
            [kind : Kinds \cup {"none"}, of : Contexts \cup {None},
             step : {"none", "asked", "answer", "denied", "error"}]
      BY <2>16, <3>1, <3>2 DEF Answer
    <3>4. \E s \in {"answer", "denied", "error"} : fetches' = [fetches EXCEPT ![i] = [fetches[i] EXCEPT !.step = s, !.of = connected]]
      BY <2>16, <3>1, <3>2, <3>3 DEF Answer
    <3>5. \E r \in [kind : Kinds \cup {"none"}, of : Contexts \cup {None},
            step : {"none", "asked", "answer", "denied", "error"}] : fetches' = [fetches EXCEPT ![i] = r]
      BY <3>1, <3>2, <3>3, <3>4
    <3> QED BY <3>1, <3>2, <3>3, <3>4, <3>5
  <2>17. ASSUME NEW i \in Slots, ApplyNamespaces(i) PROVE FetchTypes'
    BY <2>17 DEF ApplyNamespaces, Handle, LeaveClusterScope, SwitchNamespace, NoFetch
  <2>18. ASSUME NEW i \in Slots, ApplyContexts(i) PROVE FetchTypes'
    BY <2>18 DEF ApplyContexts, Handle, LeaveClusterScope, SwitchNamespace, NoFetch
  <2>19. ASSUME NEW i \in Slots, ApplyCurrentContext(i) PROVE FetchTypes'
    BY <2>19 DEF ApplyCurrentContext, Handle, NoFetch
  <2>20. CASE UNCHANGED vars
    BY <2>20 DEF vars
  <2> QED
    BY <2>1, <2>2, <2>3, <2>4, <2>5, <2>6, <2>7, <2>8, <2>9, <2>10, <2>11, <2>12, <2>13,
       <2>14, <2>15, <2>16, <2>17, <2>18, <2>19, <2>20
    DEF Next, ConnectRuns, Switched, Apply
<1> QED BY <1>1, <1>2, ConnectOrdered, PTL DEF Spec

\* What an answer says of the permission to list is true of its connection.
AnswersAreTrue ==
    \A i \in Slots : fetches[i].kind = "namespaces" =>
        /\ fetches[i].step = "answer" => fetches[i].of \in Contexts \ Restricted
        /\ fetches[i].step = "denied" => fetches[i].of \in Restricted

\* An answer to the fetch of the namespaces is about the permission of the connection it read.
THEOREM AnswersTrue == Spec => []AnswersAreTrue
<1>1. Init => AnswersAreTrue
  BY DEF Init, AnswersAreTrue, Asked, NoFetch
<1>2. FetchTypes /\ ConnectOrder /\ AnswersAreTrue /\ [Next]_vars => AnswersAreTrue'
  <2> SUFFICES ASSUME FetchTypes, ConnectOrder, AnswersAreTrue, [Next]_vars PROVE AnswersAreTrue'
    OBVIOUS
  <2> USE DEF AnswersAreTrue, FetchTypes, ConnectOrder, ManagerTypes, Kinds, configVars,
            managerVars, listVars, viewVars, screenVars
  <2>1. CASE OpenNamespacePicker
    BY <2>1, StartTakesFreeSlot DEF OpenNamespacePicker, Asked
  <2>2. CASE OpenContextPicker
    BY <2>2, StartTakesFreeSlot DEF OpenContextPicker, Asked
  <2>3. CASE ClosePicker
    BY <2>3 DEF ClosePicker
  <2>4. CASE PaletteNamespace
    BY <2>4 DEF PaletteNamespace, SwitchNamespace
  <2>5. ASSUME NEW ns \in {"one", "all"}, ChooseNamespace(ns) PROVE AnswersAreTrue'
    BY <2>5 DEF ChooseNamespace, SwitchNamespace
  <2>6. ASSUME NEW c \in Contexts, SelectContext(c) PROVE AnswersAreTrue'
    BY <2>6 DEF SelectContext, NotConnecting
  <2>7. ASSUME NEW c \in Contexts, Edit(c) PROVE AnswersAreTrue'
    BY <2>7 DEF Edit
  <2>8. CASE Prepare
    BY <2>8 DEF Prepare, ConnectStep
  <2>9. CASE ConnectFails
    BY <2>9 DEF ConnectFails, Reach
  <2>10. CASE Check
    BY <2>10 DEF Check, ConnectStep, Reach
  <2>11. CASE Set
    BY <2>11 DEF Set, ConnectStep, Reach
  <2>12. CASE Install
    BY <2>12 DEF Install, ConnectStep, Reach
  <2>13. CASE CancelPrevious
    BY <2>13 DEF CancelPrevious, ConnectStep, Reach
  <2>14. CASE ContextSwitched
    BY <2>14, StartTakesTwoSlots DEF ContextSwitched, ConnectStep, SwitchNamespace, NamespaceForContext,
       NotConnecting, Asked
  <2>15. CASE ContextSwitchFailed
    BY <2>15 DEF ContextSwitchFailed, ConnectStep, NotConnecting
  <2>16. ASSUME NEW i \in Slots, Answer(i) PROVE AnswersAreTrue'
    BY <2>16 DEF Answer
  <2>17. ASSUME NEW i \in Slots, ApplyNamespaces(i) PROVE AnswersAreTrue'
    BY <2>17 DEF ApplyNamespaces, Handle, LeaveClusterScope, SwitchNamespace, NoFetch
  <2>18. ASSUME NEW i \in Slots, ApplyContexts(i) PROVE AnswersAreTrue'
    BY <2>18 DEF ApplyContexts, Handle, LeaveClusterScope, SwitchNamespace, NoFetch
  <2>19. ASSUME NEW i \in Slots, ApplyCurrentContext(i) PROVE AnswersAreTrue'
    BY <2>19 DEF ApplyCurrentContext, Handle, NoFetch
  <2>20. CASE UNCHANGED vars
    BY <2>20 DEF vars
  <2> QED
    BY <2>1, <2>2, <2>3, <2>4, <2>5, <2>6, <2>7, <2>8, <2>9, <2>10, <2>11, <2>12, <2>13,
       <2>14, <2>15, <2>16, <2>17, <2>18, <2>19, <2>20
    DEF Next, ConnectRuns, Switched, Apply
<1> QED BY <1>1, <1>2, FetchTyped, ConnectOrdered, PTL DEF Spec

\* The variables of the root keep their types: no list of namespaces is one of a restricted context.
THEOREM RootTyped == Spec => []RootTypes
<1>1. Init => RootTypes
  <2>1. Init => {contextsLoaded, namespaceListDenied, nsLoading, ctxLoading, switching, active, late} \subseteq BOOLEAN
    BY DEF Init
  <2> QED BY <2>1 DEF Init, RootTypes
<1>2. FetchTypes /\ ConnectOrder /\ AnswersAreTrue /\ RootTypes /\ [Next]_vars => RootTypes'
  <2> SUFFICES ASSUME FetchTypes, ConnectOrder, AnswersAreTrue, RootTypes, [Next]_vars PROVE RootTypes'
    OBVIOUS
  <2> USE DEF RootTypes, FetchTypes, ConnectOrder, ManagerTypes, AnswersAreTrue, configVars,
            managerVars, listVars, viewVars, screenVars
  <2>1. CASE OpenNamespacePicker
    BY <2>1 DEF OpenNamespacePicker
  <2>2. CASE OpenContextPicker
    BY <2>2 DEF OpenContextPicker
  <2>3. CASE ClosePicker
    BY <2>3 DEF ClosePicker
  <2>4. CASE PaletteNamespace
    BY <2>4 DEF PaletteNamespace, SwitchNamespace
  <2>5. ASSUME NEW ns \in {"one", "all"}, ChooseNamespace(ns) PROVE RootTypes'
    BY <2>5 DEF ChooseNamespace, SwitchNamespace
  <2>6. ASSUME NEW c \in Contexts, SelectContext(c) PROVE RootTypes'
    BY <2>6 DEF SelectContext, NotConnecting
  <2>7. ASSUME NEW c \in Contexts, Edit(c) PROVE RootTypes'
    BY <2>7 DEF Edit
  <2>8. CASE Prepare
    BY <2>8 DEF Prepare, ConnectStep
  <2>9. CASE ConnectFails
    BY <2>9 DEF ConnectFails, Reach
  <2>10. CASE Check
    BY <2>10 DEF Check, ConnectStep, Reach
  <2>11. CASE Set
    BY <2>11 DEF Set, ConnectStep, Reach
  <2>12. CASE Install
    BY <2>12 DEF Install, ConnectStep, Reach
  <2>13. CASE CancelPrevious
    BY <2>13 DEF CancelPrevious, ConnectStep, Reach
  <2>14. CASE ContextSwitched
    BY <2>14 DEF ContextSwitched, ConnectStep, SwitchNamespace, NamespaceForContext, NotConnecting
  <2>15. CASE ContextSwitchFailed
    BY <2>15, ZenonT(60) DEF ContextSwitchFailed, ConnectStep, NotConnecting
  <2>16. ASSUME NEW i \in Slots, Answer(i) PROVE RootTypes'
    BY <2>16 DEF Answer
  <2>17. ASSUME NEW i \in Slots, ApplyNamespaces(i) PROVE RootTypes'
    BY <2>17, ZenonT(60) DEF ApplyNamespaces, Handle, LeaveClusterScope, SwitchNamespace
  <2>18. ASSUME NEW i \in Slots, ApplyContexts(i) PROVE RootTypes'
    BY <2>18, ZenonT(60) DEF ApplyContexts, Handle, LeaveClusterScope, SwitchNamespace
  <2>19. ASSUME NEW i \in Slots, ApplyCurrentContext(i) PROVE RootTypes'
    BY <2>19 DEF ApplyCurrentContext, Handle
  <2>20. CASE UNCHANGED vars
    BY <2>20 DEF vars
  <2> QED
    BY <2>1, <2>2, <2>3, <2>4, <2>5, <2>6, <2>7, <2>8, <2>9, <2>10, <2>11, <2>12, <2>13,
       <2>14, <2>15, <2>16, <2>17, <2>18, <2>19, <2>20
    DEF Next, ConnectRuns, Switched, Apply
<1> QED BY <1>1, <1>2, FetchTyped, ConnectOrdered, AnswersTrue, PTL DEF Spec

\* No picker is open while a context switch is on its way.
PickersWait == (switching <=> connect.step # "idle") /\ (switching => picker = "none")

\* No picker is open while a context switch is on its way: updatePickerKey, handleContextSwitched.
THEOREM PickersWaited == Spec => []PickersWait
<1>1. Init => PickersWait
  BY DEF Init, PickersWait, NotConnecting
<1>2. RootTypes /\ ConnectOrder /\ PickersWait /\ [Next]_vars => PickersWait'
  <2> SUFFICES ASSUME RootTypes, ConnectOrder, PickersWait, [Next]_vars PROVE PickersWait'
    OBVIOUS
  <2> USE DEF PickersWait, RootTypes, ConnectOrder, ManagerTypes, configVars, managerVars,
            listVars, viewVars, screenVars
  <2>1. CASE OpenNamespacePicker
    BY <2>1 DEF OpenNamespacePicker
  <2>2. CASE OpenContextPicker
    BY <2>2 DEF OpenContextPicker
  <2>3. CASE ClosePicker
    BY <2>3 DEF ClosePicker
  <2>4. CASE PaletteNamespace
    BY <2>4 DEF PaletteNamespace, SwitchNamespace
  <2>5. ASSUME NEW ns \in {"one", "all"}, ChooseNamespace(ns) PROVE PickersWait'
    BY <2>5 DEF ChooseNamespace, SwitchNamespace
  <2>6. ASSUME NEW c \in Contexts, SelectContext(c) PROVE PickersWait'
    BY <2>6 DEF SelectContext, NotConnecting
  <2>7. ASSUME NEW c \in Contexts, Edit(c) PROVE PickersWait'
    BY <2>7 DEF Edit
  <2>8. CASE Prepare
    BY <2>8 DEF Prepare, ConnectStep
  <2>9. CASE ConnectFails
    BY <2>9 DEF ConnectFails, Reach
  <2>10. CASE Check
    BY <2>10 DEF Check, ConnectStep, Reach
  <2>11. CASE Set
    BY <2>11 DEF Set, ConnectStep, Reach
  <2>12. CASE Install
    BY <2>12 DEF Install, ConnectStep, Reach
  <2>13. CASE CancelPrevious
    BY <2>13 DEF CancelPrevious, ConnectStep, Reach
  <2>14. CASE ContextSwitched
    BY <2>14 DEF ContextSwitched, ConnectStep, SwitchNamespace, NamespaceForContext, NotConnecting
  <2>15. CASE ContextSwitchFailed
    BY <2>15 DEF ContextSwitchFailed, ConnectStep, NotConnecting
  <2>16. ASSUME NEW i \in Slots, Answer(i) PROVE PickersWait'
    BY <2>16 DEF Answer
  <2>17. ASSUME NEW i \in Slots, ApplyNamespaces(i) PROVE PickersWait'
    BY <2>17 DEF ApplyNamespaces, Handle, LeaveClusterScope, SwitchNamespace
  <2>18. ASSUME NEW i \in Slots, ApplyContexts(i) PROVE PickersWait'
    BY <2>18 DEF ApplyContexts, Handle, LeaveClusterScope, SwitchNamespace
  <2>19. ASSUME NEW i \in Slots, ApplyCurrentContext(i) PROVE PickersWait'
    BY <2>19 DEF ApplyCurrentContext, Handle
  <2>20. CASE UNCHANGED vars
    BY <2>20 DEF vars
  <2> QED
    BY <2>1, <2>2, <2>3, <2>4, <2>5, <2>6, <2>7, <2>8, <2>9, <2>10, <2>11, <2>12, <2>13,
       <2>14, <2>15, <2>16, <2>17, <2>18, <2>19, <2>20
    DEF Next, ConnectRuns, Switched, Apply
<1> QED BY <1>1, <1>2, RootTyped, ConnectOrdered, PTL DEF Spec

\* Every variable keeps its type.
THEOREM TypeCorrect == Spec => []TypeOK
<1>1. ConnectOrder => ManagerTypes
  BY DEF ConnectOrder
<1> QED BY <1>1, FetchTyped, ConnectOrdered, RootTyped, PTL DEF TypeOK

\* Sessions of the connection in use are alive and those of every older one were canceled: installConnection.
THEOREM OneConnectionLives == Spec => []OneLiveConnection
<1>1. Init => OneLiveConnection
  BY DEF Init, OneLiveConnection, NotConnecting
<1>2. ConnectOrder /\ PickersWait /\ OneLiveConnection /\ [Next]_vars => OneLiveConnection'
  <2> SUFFICES ASSUME ConnectOrder, PickersWait, OneLiveConnection, [Next]_vars PROVE OneLiveConnection'
    OBVIOUS
  <2> USE DEF OneLiveConnection, ConnectOrder, ManagerTypes, Lifetimes, PickersWait,
            configVars, managerVars, listVars, viewVars, screenVars
  <2>1. CASE OpenNamespacePicker
    BY <2>1 DEF OpenNamespacePicker
  <2>2. CASE OpenContextPicker
    BY <2>2 DEF OpenContextPicker
  <2>3. CASE ClosePicker
    BY <2>3 DEF ClosePicker
  <2>4. CASE PaletteNamespace
    BY <2>4 DEF PaletteNamespace, SwitchNamespace
  <2>5. ASSUME NEW ns \in {"one", "all"}, ChooseNamespace(ns) PROVE OneLiveConnection'
    BY <2>5 DEF ChooseNamespace, SwitchNamespace
  <2>6. ASSUME NEW c \in Contexts, SelectContext(c) PROVE OneLiveConnection'
    BY <2>6 DEF SelectContext, NotConnecting
  <2>7. ASSUME NEW c \in Contexts, Edit(c) PROVE OneLiveConnection'
    BY <2>7 DEF Edit
  <2>8. CASE Prepare
    BY <2>8 DEF Prepare, ConnectStep
  <2>9. CASE ConnectFails
    BY <2>9 DEF ConnectFails, Reach
  <2>10. CASE Check
    BY <2>10 DEF Check, ConnectStep, Reach
  <2>11. CASE Set
    BY <2>11 DEF Set, ConnectStep, Reach
  <2>12. CASE Install
    BY <2>12 DEF Install, ConnectStep, Reach
  <2>13. CASE CancelPrevious
    BY <2>13 DEF CancelPrevious, ConnectStep, Reach
  <2>14. CASE ContextSwitched
    BY <2>14 DEF ContextSwitched, ConnectStep, SwitchNamespace, NamespaceForContext, NotConnecting
  <2>15. CASE ContextSwitchFailed
    BY <2>15 DEF ContextSwitchFailed, ConnectStep, NotConnecting
  <2>16. ASSUME NEW i \in Slots, Answer(i) PROVE OneLiveConnection'
    BY <2>16 DEF Answer
  <2>17. ASSUME NEW i \in Slots, ApplyNamespaces(i) PROVE OneLiveConnection'
    BY <2>17 DEF ApplyNamespaces, Handle, LeaveClusterScope, SwitchNamespace
  <2>18. ASSUME NEW i \in Slots, ApplyContexts(i) PROVE OneLiveConnection'
    BY <2>18 DEF ApplyContexts, Handle, LeaveClusterScope, SwitchNamespace
  <2>19. ASSUME NEW i \in Slots, ApplyCurrentContext(i) PROVE OneLiveConnection'
    BY <2>19 DEF ApplyCurrentContext, Handle
  <2>20. CASE UNCHANGED vars
    BY <2>20 DEF vars
  <2> QED
    BY <2>1, <2>2, <2>3, <2>4, <2>5, <2>6, <2>7, <2>8, <2>9, <2>10, <2>11, <2>12, <2>13,
       <2>14, <2>15, <2>16, <2>17, <2>18, <2>19, <2>20
    DEF Next, ConnectRuns, Switched, Apply
<1> QED BY <1>1, <1>2, ConnectOrdered, PickersWaited, PTL DEF Spec

\* The kubeconfig as the connection that is being made found it, and as it left it.
ConfigKept ==
    /\ ConfigNamesConnection
    /\ connect.step \in {"check", "set"} /\ connect.found = "fresh" => connect.previous = kubeconfig
    /\ connect.step = "install" /\ connect.found = "fresh" => kubeconfig = connect.to
    /\ connect.step \in {"idle", "prepare"} => connect.found = "fresh" \/ edited
    /\ connect.step # "idle" /\ connect.found = "stale" => edited

\* The kubeconfig names the context the program is connected to, whatever step of Connect failed.
THEOREM ConfigFollows == Spec => []ConfigNamesConnection
<1>1. Init => ConfigKept
  BY DEF Init, ConfigKept, ConfigNamesConnection, NotConnecting
<1>2. ConnectOrder /\ PickersWait /\ ConfigKept /\ [Next]_vars => ConfigKept'
  <2> SUFFICES ASSUME ConnectOrder, PickersWait, ConfigKept, [Next]_vars PROVE ConfigKept'
    OBVIOUS
  <2> USE DEF ConfigKept, ConfigNamesConnection, ConnectOrder, ManagerTypes, PickersWait,
            configVars, managerVars, listVars, viewVars, screenVars
  <2>1. CASE OpenNamespacePicker
    BY <2>1 DEF OpenNamespacePicker
  <2>2. CASE OpenContextPicker
    BY <2>2 DEF OpenContextPicker
  <2>3. CASE ClosePicker
    BY <2>3 DEF ClosePicker
  <2>4. CASE PaletteNamespace
    BY <2>4 DEF PaletteNamespace, SwitchNamespace
  <2>5. ASSUME NEW ns \in {"one", "all"}, ChooseNamespace(ns) PROVE ConfigKept'
    BY <2>5 DEF ChooseNamespace, SwitchNamespace
  <2>6. ASSUME NEW c \in Contexts, SelectContext(c) PROVE ConfigKept'
    BY <2>6 DEF SelectContext, NotConnecting
  <2>7. ASSUME NEW c \in Contexts, Edit(c) PROVE ConfigKept'
    BY <2>7 DEF Edit
  <2>8. CASE Prepare
    BY <2>8 DEF Prepare, ConnectStep
  <2>9. CASE ConnectFails
    BY <2>9 DEF ConnectFails, Reach
  <2>10. CASE Check
    BY <2>10 DEF Check, ConnectStep, Reach
  <2>11. CASE Set
    BY <2>11 DEF Set, ConnectStep, Reach
  <2>12. CASE Install
    BY <2>12 DEF Install, ConnectStep, Reach
  <2>13. CASE CancelPrevious
    BY <2>13 DEF CancelPrevious, ConnectStep, Reach
  <2>14. CASE ContextSwitched
    BY <2>14 DEF ContextSwitched, ConnectStep, SwitchNamespace, NamespaceForContext, NotConnecting
  <2>15. CASE ContextSwitchFailed
    BY <2>15 DEF ContextSwitchFailed, ConnectStep, NotConnecting
  <2>16. ASSUME NEW i \in Slots, Answer(i) PROVE ConfigKept'
    BY <2>16 DEF Answer
  <2>17. ASSUME NEW i \in Slots, ApplyNamespaces(i) PROVE ConfigKept'
    BY <2>17 DEF ApplyNamespaces, Handle, LeaveClusterScope, SwitchNamespace
  <2>18. ASSUME NEW i \in Slots, ApplyContexts(i) PROVE ConfigKept'
    BY <2>18 DEF ApplyContexts, Handle, LeaveClusterScope, SwitchNamespace
  <2>19. ASSUME NEW i \in Slots, ApplyCurrentContext(i) PROVE ConfigKept'
    BY <2>19 DEF ApplyCurrentContext, Handle
  <2>20. CASE UNCHANGED vars
    BY <2>20 DEF vars
  <2> QED
    BY <2>1, <2>2, <2>3, <2>4, <2>5, <2>6, <2>7, <2>8, <2>9, <2>10, <2>11, <2>12, <2>13,
       <2>14, <2>15, <2>16, <2>17, <2>18, <2>19, <2>20
    DEF Next, ConnectRuns, Switched, Apply
<1>3. ConnectOrder /\ PickersWait /\ ConfigKept => ConfigNamesConnection
  BY DEF ConfigKept
<1> QED BY <1>1, <1>2, <1>3, ConnectOrdered, PickersWaited, PTL DEF Spec

\* A root that knows it may not list the namespaces has left the scope of the whole cluster: leaveClusterScope.
THEOREM DeniedLeaves == Spec => []DeniedScopeIsLeft
<1>1. Init => DeniedScopeIsLeft
  BY DEF Init, DeniedScopeIsLeft
<1>2. RootTypes /\ DeniedScopeIsLeft /\ [Next]_vars => DeniedScopeIsLeft'
  <2> SUFFICES ASSUME RootTypes, DeniedScopeIsLeft, [Next]_vars PROVE DeniedScopeIsLeft'
    OBVIOUS
  <2> USE DEF DeniedScopeIsLeft, RootTypes, configVars, managerVars, listVars, viewVars,
            screenVars
  <2>1. CASE OpenNamespacePicker
    BY <2>1 DEF OpenNamespacePicker
  <2>2. CASE OpenContextPicker
    BY <2>2 DEF OpenContextPicker
  <2>3. CASE ClosePicker
    BY <2>3 DEF ClosePicker
  <2>4. CASE PaletteNamespace
    BY <2>4 DEF PaletteNamespace, SwitchNamespace
  <2>5. ASSUME NEW ns \in {"one", "all"}, ChooseNamespace(ns) PROVE DeniedScopeIsLeft'
    BY <2>5 DEF ChooseNamespace, SwitchNamespace
  <2>6. ASSUME NEW c \in Contexts, SelectContext(c) PROVE DeniedScopeIsLeft'
    BY <2>6 DEF SelectContext, NotConnecting
  <2>7. ASSUME NEW c \in Contexts, Edit(c) PROVE DeniedScopeIsLeft'
    BY <2>7 DEF Edit
  <2>8. CASE Prepare
    BY <2>8 DEF Prepare, ConnectStep
  <2>9. CASE ConnectFails
    BY <2>9 DEF ConnectFails, Reach
  <2>10. CASE Check
    BY <2>10 DEF Check, ConnectStep, Reach
  <2>11. CASE Set
    BY <2>11 DEF Set, ConnectStep, Reach
  <2>12. CASE Install
    BY <2>12 DEF Install, ConnectStep, Reach
  <2>13. CASE CancelPrevious
    BY <2>13 DEF CancelPrevious, ConnectStep, Reach
  <2>14. CASE ContextSwitched
    BY <2>14 DEF ContextSwitched, ConnectStep, SwitchNamespace, NamespaceForContext, NotConnecting
  <2>15. CASE ContextSwitchFailed
    BY <2>15 DEF ContextSwitchFailed, ConnectStep, NotConnecting
  <2>16. ASSUME NEW i \in Slots, Answer(i) PROVE DeniedScopeIsLeft'
    BY <2>16 DEF Answer
  <2>17. ASSUME NEW i \in Slots, ApplyNamespaces(i) PROVE DeniedScopeIsLeft'
    BY <2>17 DEF ApplyNamespaces, Handle, LeaveClusterScope, SwitchNamespace
  <2>18. ASSUME NEW i \in Slots, ApplyContexts(i) PROVE DeniedScopeIsLeft'
    BY <2>18 DEF ApplyContexts, Handle, LeaveClusterScope, SwitchNamespace
  <2>19. ASSUME NEW i \in Slots, ApplyCurrentContext(i) PROVE DeniedScopeIsLeft'
    BY <2>19 DEF ApplyCurrentContext, Handle
  <2>20. CASE UNCHANGED vars
    BY <2>20 DEF vars
  <2> QED
    BY <2>1, <2>2, <2>3, <2>4, <2>5, <2>6, <2>7, <2>8, <2>9, <2>10, <2>11, <2>12, <2>13,
       <2>14, <2>15, <2>16, <2>17, <2>18, <2>19, <2>20
    DEF Next, ConnectRuns, Switched, Apply
<1> QED BY <1>1, <1>2, RootTyped, PTL DEF Spec

\* The screen is active again after every switch: handleContextSwitched.
THEOREM ScreenIsBack == Spec => []ScreenComesBack
<1>1. Init => ScreenComesBack
  BY DEF Init, ScreenComesBack
<1>2. RootTypes /\ ScreenComesBack /\ [Next]_vars => ScreenComesBack'
  <2> SUFFICES ASSUME RootTypes, ScreenComesBack, [Next]_vars PROVE ScreenComesBack'
    OBVIOUS
  <2> USE DEF ScreenComesBack, RootTypes, configVars, managerVars, listVars, viewVars,
            screenVars
  <2>1. CASE OpenNamespacePicker
    BY <2>1 DEF OpenNamespacePicker
  <2>2. CASE OpenContextPicker
    BY <2>2 DEF OpenContextPicker
  <2>3. CASE ClosePicker
    BY <2>3 DEF ClosePicker
  <2>4. CASE PaletteNamespace
    BY <2>4 DEF PaletteNamespace, SwitchNamespace
  <2>5. ASSUME NEW ns \in {"one", "all"}, ChooseNamespace(ns) PROVE ScreenComesBack'
    BY <2>5 DEF ChooseNamespace, SwitchNamespace
  <2>6. ASSUME NEW c \in Contexts, SelectContext(c) PROVE ScreenComesBack'
    BY <2>6 DEF SelectContext, NotConnecting
  <2>7. ASSUME NEW c \in Contexts, Edit(c) PROVE ScreenComesBack'
    BY <2>7 DEF Edit
  <2>8. CASE Prepare
    BY <2>8 DEF Prepare, ConnectStep
  <2>9. CASE ConnectFails
    BY <2>9 DEF ConnectFails, Reach
  <2>10. CASE Check
    BY <2>10 DEF Check, ConnectStep, Reach
  <2>11. CASE Set
    BY <2>11 DEF Set, ConnectStep, Reach
  <2>12. CASE Install
    BY <2>12 DEF Install, ConnectStep, Reach
  <2>13. CASE CancelPrevious
    BY <2>13 DEF CancelPrevious, ConnectStep, Reach
  <2>14. CASE ContextSwitched
    BY <2>14 DEF ContextSwitched, ConnectStep, SwitchNamespace, NamespaceForContext, NotConnecting
  <2>15. CASE ContextSwitchFailed
    BY <2>15 DEF ContextSwitchFailed, ConnectStep, NotConnecting
  <2>16. ASSUME NEW i \in Slots, Answer(i) PROVE ScreenComesBack'
    BY <2>16 DEF Answer
  <2>17. ASSUME NEW i \in Slots, ApplyNamespaces(i) PROVE ScreenComesBack'
    <3>1. UNCHANGED switching
      BY <2>17 DEF ApplyNamespaces
    <3>2. active => active'
      BY <2>17, <3>1 DEF ApplyNamespaces, Handle, LeaveClusterScope, SwitchNamespace
    <3> QED BY <2>17, <3>1, <3>2 DEF ApplyNamespaces, Handle, LeaveClusterScope, SwitchNamespace
  <2>18. ASSUME NEW i \in Slots, ApplyContexts(i) PROVE ScreenComesBack'
    BY <2>18 DEF ApplyContexts, Handle, LeaveClusterScope, SwitchNamespace
  <2>19. ASSUME NEW i \in Slots, ApplyCurrentContext(i) PROVE ScreenComesBack'
    BY <2>19 DEF ApplyCurrentContext, Handle
  <2>20. CASE UNCHANGED vars
    BY <2>20 DEF vars
  <2> QED
    BY <2>1, <2>2, <2>3, <2>4, <2>5, <2>6, <2>7, <2>8, <2>9, <2>10, <2>11, <2>12, <2>13,
       <2>14, <2>15, <2>16, <2>17, <2>18, <2>19, <2>20
    DEF Next, ConnectRuns, Switched, Apply
<1> QED BY <1>1, <1>2, RootTyped, PTL DEF Spec

\* What the root knows is of the connection in use, but for late answers and between the moment a
\* connection is replaced and the moment the root hears of it.
KnowsUnlessReplaced ==
    connect.step \notin {"cancel", "done"} /\ ~late =>
        /\ currentContext \in {connected, None}
        /\ namespaces \in {connected, None}
        /\ namespaceListDenied => connected \in Restricted

\* Without late answers the root names the context in use, lists its namespaces and knows whether it may: handleContextSwitched and the answers after it.
THEOREM RootKnows == Spec => []KnowsUnlessReplaced
<1>1. Init => KnowsUnlessReplaced
  BY DEF Init, KnowsUnlessReplaced
<1>2. ConnectOrder /\ AnswersAreTrue /\ FetchTypes /\ RootTypes /\ PickersWait /\ KnowsUnlessReplaced /\ [Next]_vars => KnowsUnlessReplaced'
  <2> SUFFICES ASSUME ConnectOrder, AnswersAreTrue, FetchTypes, RootTypes, PickersWait,
                      KnowsUnlessReplaced, [Next]_vars
               PROVE  KnowsUnlessReplaced'
    OBVIOUS
  <2> USE DEF KnowsUnlessReplaced, RootTypes, AnswersAreTrue, FetchTypes, ConnectOrder,
            ManagerTypes, PickersWait, configVars, managerVars, listVars, viewVars,
            screenVars
  <2>1. CASE OpenNamespacePicker
    BY <2>1 DEF OpenNamespacePicker
  <2>2. CASE OpenContextPicker
    BY <2>2 DEF OpenContextPicker
  <2>3. CASE ClosePicker
    BY <2>3 DEF ClosePicker
  <2>4. CASE PaletteNamespace
    BY <2>4 DEF PaletteNamespace, SwitchNamespace
  <2>5. ASSUME NEW ns \in {"one", "all"}, ChooseNamespace(ns) PROVE KnowsUnlessReplaced'
    BY <2>5 DEF ChooseNamespace, SwitchNamespace
  <2>6. ASSUME NEW c \in Contexts, SelectContext(c) PROVE KnowsUnlessReplaced'
    BY <2>6 DEF SelectContext, NotConnecting
  <2>7. ASSUME NEW c \in Contexts, Edit(c) PROVE KnowsUnlessReplaced'
    BY <2>7 DEF Edit
  <2>8. CASE Prepare
    BY <2>8 DEF Prepare, ConnectStep
  <2>9. CASE ConnectFails
    BY <2>9 DEF ConnectFails, Reach
  <2>10. CASE Check
    BY <2>10 DEF Check, ConnectStep, Reach
  <2>11. CASE Set
    BY <2>11 DEF Set, ConnectStep, Reach
  <2>12. CASE Install
    BY <2>12 DEF Install, ConnectStep, Reach
  <2>13. CASE CancelPrevious
    BY <2>13 DEF CancelPrevious, ConnectStep, Reach
  <2>14. CASE ContextSwitched
    BY <2>14 DEF ContextSwitched, ConnectStep, SwitchNamespace, NamespaceForContext, NotConnecting
  <2>15. CASE ContextSwitchFailed
    BY <2>15 DEF ContextSwitchFailed, ConnectStep, NotConnecting
  <2>16. ASSUME NEW i \in Slots, Answer(i) PROVE KnowsUnlessReplaced'
    BY <2>16 DEF Answer
  <2>17. ASSUME NEW i \in Slots, ApplyNamespaces(i) PROVE KnowsUnlessReplaced'
    BY <2>17 DEF ApplyNamespaces, Handle, LeaveClusterScope, SwitchNamespace
  <2>18. ASSUME NEW i \in Slots, ApplyContexts(i) PROVE KnowsUnlessReplaced'
    BY <2>18 DEF ApplyContexts, Handle, LeaveClusterScope, SwitchNamespace
  <2>19. ASSUME NEW i \in Slots, ApplyCurrentContext(i) PROVE KnowsUnlessReplaced'
    BY <2>19 DEF ApplyCurrentContext, Handle
  <2>20. CASE UNCHANGED vars
    BY <2>20 DEF vars
  <2> QED
    BY <2>1, <2>2, <2>3, <2>4, <2>5, <2>6, <2>7, <2>8, <2>9, <2>10, <2>11, <2>12, <2>13,
       <2>14, <2>15, <2>16, <2>17, <2>18, <2>19, <2>20
    DEF Next, ConnectRuns, Switched, Apply
<1> QED BY <1>1, <1>2, ConnectOrdered, AnswersTrue, FetchTyped, RootTyped, PickersWaited, PTL DEF Spec

\* The root knows its connection once it is quiet.
THEOREM QuietRootKnows == Spec => []RootKnowsConnection
<1>1. KnowsUnlessReplaced => RootKnowsConnection
  BY DEF KnowsUnlessReplaced, RootKnowsConnection, Quiet
<1> QED BY <1>1, RootKnows, PTL

\* A loading flag stands only while its fetch is on its way.
THEOREM LoadingAsked == Spec => []LoadingIsAskedFor
<1>1. Init => LoadingIsAskedFor
  BY DEF Init, LoadingIsAskedFor, NotConnecting
<1>2. FetchTypes /\ RootTypes /\ ConnectOrder /\ LoadingIsAskedFor /\ [Next]_vars => LoadingIsAskedFor'
  <2> SUFFICES ASSUME FetchTypes, RootTypes, ConnectOrder, LoadingIsAskedFor, [Next]_vars
               PROVE  LoadingIsAskedFor'
    OBVIOUS
  <2> USE DEF LoadingIsAskedFor, FetchTypes, RootTypes, Kinds, ConnectOrder, ManagerTypes,
            configVars, managerVars, listVars, viewVars, screenVars
  <2>1. CASE OpenNamespacePicker
    BY <2>1, StartTakesFreeSlot DEF OpenNamespacePicker
  <2>2. CASE OpenContextPicker
    BY <2>2, StartTakesFreeSlot DEF OpenContextPicker
  <2>3. CASE ClosePicker
    BY <2>3 DEF ClosePicker
  <2>4. CASE PaletteNamespace
    BY <2>4 DEF PaletteNamespace, SwitchNamespace
  <2>5. ASSUME NEW ns \in {"one", "all"}, ChooseNamespace(ns) PROVE LoadingIsAskedFor'
    BY <2>5 DEF ChooseNamespace, SwitchNamespace
  <2>6. ASSUME NEW c \in Contexts, SelectContext(c) PROVE LoadingIsAskedFor'
    BY <2>6 DEF SelectContext, NotConnecting
  <2>7. ASSUME NEW c \in Contexts, Edit(c) PROVE LoadingIsAskedFor'
    BY <2>7 DEF Edit
  <2>8. CASE Prepare
    BY <2>8 DEF Prepare, ConnectStep
  <2>9. CASE ConnectFails
    BY <2>9 DEF ConnectFails, Reach
  <2>10. CASE Check
    BY <2>10 DEF Check, ConnectStep, Reach
  <2>11. CASE Set
    BY <2>11 DEF Set, ConnectStep, Reach
  <2>12. CASE Install
    BY <2>12 DEF Install, ConnectStep, Reach
  <2>13. CASE CancelPrevious
    BY <2>13 DEF CancelPrevious, ConnectStep, Reach
  <2>14. CASE ContextSwitched
    BY <2>14, StartTakesTwoSlots DEF ContextSwitched, ConnectStep, SwitchNamespace, NamespaceForContext,
       NotConnecting
  <2>15. CASE ContextSwitchFailed
    BY <2>15 DEF ContextSwitchFailed, ConnectStep, NotConnecting
  <2>16. ASSUME NEW i \in Slots, Answer(i) PROVE LoadingIsAskedFor'
    BY <2>16 DEF Answer
  <2>17. ASSUME NEW i \in Slots, ApplyNamespaces(i) PROVE LoadingIsAskedFor'
    BY <2>17 DEF ApplyNamespaces, Handle, LeaveClusterScope, SwitchNamespace, NoFetch
  <2>18. ASSUME NEW i \in Slots, ApplyContexts(i) PROVE LoadingIsAskedFor'
    BY <2>18 DEF ApplyContexts, Handle, LeaveClusterScope, SwitchNamespace, NoFetch
  <2>19. ASSUME NEW i \in Slots, ApplyCurrentContext(i) PROVE LoadingIsAskedFor'
    BY <2>19 DEF ApplyCurrentContext, Handle, NoFetch
  <2>20. CASE UNCHANGED vars
    BY <2>20 DEF vars
  <2> QED
    BY <2>1, <2>2, <2>3, <2>4, <2>5, <2>6, <2>7, <2>8, <2>9, <2>10, <2>11, <2>12, <2>13,
       <2>14, <2>15, <2>16, <2>17, <2>18, <2>19, <2>20
    DEF Next, ConnectRuns, Switched, Apply
<1> QED BY <1>1, <1>2, FetchTyped, RootTyped, ConnectOrdered, PTL DEF Spec

-----------------------------------------------------------------------------
(* Lists in order                                                          *)

HIDE ScopeConstants

\* In a strict order of a finite set each number up to the size of the set is the place of one element.
LEMMA PlaceOfEach ==
    ASSUME NEW S, IsFiniteSet(S), NEW below \in [S -> SUBSET S],
           \A x \in S : x \notin below[x],
           \A x, y \in S : x # y => x \in below[y] \/ y \in below[x],
           \A x, y \in S : x \in below[y] => below[x] \subseteq below[y]
    PROVE  /\ Cardinality(S) \in Nat
           /\ \A x \in S : Cardinality(below[x]) \in 0..Cardinality(S) - 1
           /\ \A x, y \in S : x \in below[y] => Cardinality(below[x]) < Cardinality(below[y])
           /\ \A i \in 1..Cardinality(S) : \E x \in S : Cardinality(below[x]) = i - 1
<1> DEFINE n == Cardinality(S)
           place == [x \in S |-> Cardinality(below[x])]
<1>1. n \in Nat
  BY FS_CardinalityType
<1>2. ASSUME NEW x \in S PROVE IsFiniteSet(below[x]) /\ Cardinality(below[x]) \in 0..n - 1
  <2>1. below[x] \in SUBSET S /\ below[x] # S
    OBVIOUS
  <2>2. IsFiniteSet(below[x]) /\ Cardinality(below[x]) <= n /\ Cardinality(below[x]) # n
    BY <2>1, FS_Subset
  <2>3. Cardinality(below[x]) \in Nat
    BY <2>2, FS_CardinalityType
  <2> QED BY <1>1, <2>2, <2>3
<1>3. ASSUME NEW x \in S, NEW y \in S, x \in below[y]
      PROVE  Cardinality(below[x]) < Cardinality(below[y])
  <2>1. below[x] \in SUBSET below[y] /\ below[x] # below[y]
    BY <1>3
  <2>2. IsFiniteSet(below[y])
    BY <1>2
  <2>3. Cardinality(below[x]) <= Cardinality(below[y]) /\ Cardinality(below[x]) # Cardinality(below[y])
    BY <2>1, <2>2, FS_Subset
  <2> QED BY <1>1, <1>2, <2>3
<1>4. place \in Injection(S, 0..n - 1)
  <2>1. place \in [S -> 0..n - 1]
    BY <1>2
  <2>2. ASSUME NEW x \in S, NEW y \in S, place[x] = place[y] PROVE x = y
    <3>1. Cardinality(below[x]) \in Int /\ Cardinality(below[y]) \in Int
      BY <1>2
    <3> QED BY <1>3, <2>2, <3>1
  <2> QED BY <2>1, <2>2 DEF Injection, IsInjective
<1>5. IsFiniteSet(0..n - 1) /\ Cardinality(0..n - 1) = n
  <2>1. 0 \in Int /\ n - 1 \in Int
    BY <1>1
  <2>2. IsFiniteSet(0..n - 1) /\ Cardinality(0..n - 1) = IF 0 > n - 1 THEN 0 ELSE n - 1 - 0 + 1
    <3> HIDE DEF n
    <3> QED BY <2>1, FS_Interval
  <2> QED BY <1>1, <2>2
<1>6. place \in Surjection(S, 0..n - 1)
  BY <1>4, <1>5, FS_Injection
<1>7. ASSUME NEW i \in 1..n PROVE \E x \in S : Cardinality(below[x]) = i - 1
  <2>1. i - 1 \in 0..n - 1
    BY <1>1
  <2> QED BY <1>6, <2>1 DEF Surjection
<1> QED BY <1>1, <1>2, <1>3, <1>7

\* A set of numbers in their order has each of them once.
LEMMA AscendingLists ==
    ASSUME NEW S, S \subseteq Nat, IsFiniteSet(S)
    PROVE  /\ Cardinality(S) \in Nat
           /\ Ascending(S) \in [1..Cardinality(S) -> S]
           /\ \A i, j \in 1..Cardinality(S) : i < j => Ascending(S)[i] < Ascending(S)[j]
           /\ \A x \in S : \E i \in 1..Cardinality(S) : Ascending(S)[i] = x
<1> DEFINE n == Cardinality(S)
           below == [x \in S |-> {m \in S : m < x}]
<1>1. below \in [S -> SUBSET S]
  OBVIOUS
<1>2. \A x \in S : x \notin below[x]
  OBVIOUS
<1>3. \A x, y \in S : x # y => x \in below[y] \/ y \in below[x]
  OBVIOUS
<1>4. \A x, y \in S : x \in below[y] => below[x] \subseteq below[y]
  <2> SUFFICES ASSUME NEW x \in S, NEW y \in S, x < y, NEW m \in S, m < x PROVE m < y
    OBVIOUS
  <2> QED OBVIOUS
<1>5. /\ n \in Nat
      /\ \A x \in S : Cardinality(below[x]) \in 0..n - 1
      /\ \A x, y \in S : x \in below[y] => Cardinality(below[x]) < Cardinality(below[y])
      /\ \A i \in 1..n : \E x \in S : Cardinality(below[x]) = i - 1
  <2> HIDE DEF below
  <2> QED BY <1>1, <1>2, <1>3, <1>4, PlaceOfEach
<1>6. \A i \in 1..n : Ascending(S)[i] \in S /\ Cardinality(below[Ascending(S)[i]]) = i - 1
  <2> SUFFICES ASSUME NEW i \in 1..n
               PROVE  Ascending(S)[i] \in S /\ Cardinality(below[Ascending(S)[i]]) = i - 1
    OBVIOUS
  <2> DEFINE chosen == CHOOSE x \in S : Cardinality({m \in S : m < x}) = i - 1
  <2>1. PICK x \in S : Cardinality(below[x]) = i - 1
    BY <1>5
  <2>2. chosen \in S /\ Cardinality({m \in S : m < chosen}) = i - 1
    <3>1. Cardinality({m \in S : m < x}) = i - 1
      BY <2>1
    <3> QED BY <3>1
  <2>3. Ascending(S)[i] = chosen
    BY DEF Ascending
  <2> QED BY <2>2, <2>3
<1>7. ASSUME NEW i \in 1..n, NEW j \in 1..n, i < j PROVE Ascending(S)[i] < Ascending(S)[j]
  <2> DEFINE x == Ascending(S)[i]
             y == Ascending(S)[j]
  <2>1. x \in S /\ y \in S /\ Cardinality(below[x]) = i - 1 /\ Cardinality(below[y]) = j - 1
    BY <1>6
  <2>2. x # y /\ y \notin below[x]
    <3>1. i - 1 < j - 1 /\ i - 1 \in Int /\ j - 1 \in Int
      BY <1>5, <1>7
    <3>2. y \in below[x] => Cardinality(below[y]) < Cardinality(below[x])
      BY <1>5, <2>1
    <3> QED BY <2>1, <3>1, <3>2
  <2>3. x \in below[y]
    BY <1>3, <2>1, <2>2
  <2> QED BY <2>1, <2>3
<1>8. ASSUME NEW x \in S PROVE \E i \in 1..n : Ascending(S)[i] = x
  <2> DEFINE i == Cardinality(below[x]) + 1
             y == Ascending(S)[i]
  <2>1. Cardinality(below[x]) \in 0..n - 1
    BY <1>5
  <2>2. i \in 1..n
    BY <1>5, <2>1
  <2>3. y \in S /\ Cardinality(below[y]) = Cardinality(below[x])
    BY <1>6, <2>1, <2>2
  <2>4. y = x
    <3>1. /\ x \in below[y] => Cardinality(below[x]) < Cardinality(below[y])
          /\ y \in below[x] => Cardinality(below[y]) < Cardinality(below[x])
      BY <1>5, <2>3
    <3>2. Cardinality(below[x]) \in Int /\ Cardinality(below[y]) \in Int
      BY <1>5, <2>3
    <3>3. x \notin below[y] /\ y \notin below[x]
      BY <2>3, <3>1, <3>2
    <3> QED BY <1>3, <2>3, <3>3
  <2> QED BY <2>2, <2>4
<1>9. Ascending(S) \in [1..n -> S]
  BY <1>6 DEF Ascending
<1> QED BY <1>5, <1>7, <1>8, <1>9

\* The names of a selection, sorted: each row has one place in the list.
LEMMA NamesOfRows ==
    ASSUME NEW rows, rows \subseteq Rows, IsFiniteSet(rows)
    PROVE  /\ Cardinality(rows) \in Nat
           /\ DOMAIN SelectedNames(rows) = 1..Cardinality(rows)
           /\ \E order \in [1..Cardinality(rows) -> rows] :
                /\ \A i, j \in 1..Cardinality(rows) : order[i] = order[j] => i = j
                /\ \A row \in rows : \E i \in 1..Cardinality(rows) : order[i] = row
                /\ \A i \in 1..Cardinality(rows) : SelectedNames(rows)[i] = order[i].name
<1> DEFINE n == Cardinality(rows)
           below == [x \in rows |-> {other \in rows : Before(other, x)}]
           placed(i) == CHOOSE row \in rows : Cardinality({other \in rows : Before(other, row)}) = i - 1
           order == [i \in 1..n |-> placed(i)]
<1>0. \A x \in rows : x = [place |-> x.place, name |-> x.name] /\ x.place \in Nat /\ x.name \in Nat
  BY DEF Rows
<1>1. below \in [rows -> SUBSET rows]
  OBVIOUS
<1>2. \A x \in rows : x \notin below[x]
  BY <1>0 DEF Before
<1>3. \A x, y \in rows : x # y => x \in below[y] \/ y \in below[x]
  <2> SUFFICES ASSUME NEW x \in rows, NEW y \in rows, ~Before(x, y), ~Before(y, x) PROVE x = y
    OBVIOUS
  <2>1. x.name = y.name /\ x.place = y.place
    BY <1>0 DEF Before
  <2> QED BY <1>0, <2>1
<1>4. \A x, y \in rows : x \in below[y] => below[x] \subseteq below[y]
  <2> SUFFICES ASSUME NEW x \in rows, NEW y \in rows, Before(x, y), NEW m \in rows, Before(m, x)
               PROVE  Before(m, y)
    OBVIOUS
  <2> QED BY <1>0 DEF Before
<1>5. /\ n \in Nat
      /\ \A x \in rows : Cardinality(below[x]) \in 0..n - 1
      /\ \A x, y \in rows : x \in below[y] => Cardinality(below[x]) < Cardinality(below[y])
      /\ \A i \in 1..n : \E x \in rows : Cardinality(below[x]) = i - 1
  <2> HIDE DEF below
  <2> QED BY <1>1, <1>2, <1>3, <1>4, PlaceOfEach
<1>6. ASSUME NEW i \in 1..n PROVE placed(i) \in rows /\ Cardinality(below[placed(i)]) = i - 1
  <2>1. PICK x \in rows : Cardinality(below[x]) = i - 1
    BY <1>5
  <2>2. Cardinality({other \in rows : Before(other, x)}) = i - 1
    BY <2>1
  <2>3. placed(i) \in rows /\ Cardinality({other \in rows : Before(other, placed(i))}) = i - 1
    BY <2>2
  <2> QED BY <2>3
<1>9. \A i \in 1..n : SelectedNames(rows)[i] = placed(i).name
  BY DEF SelectedNames
<1> HIDE DEF placed
<1>11. order \in [1..n -> rows] /\ \A i \in 1..n : Cardinality(below[order[i]]) = i - 1
  BY <1>6
<1>12. \A i \in 1..n : SelectedNames(rows)[i] = order[i].name
  BY <1>9
<1> HIDE DEF order
<1>7. ASSUME NEW i \in 1..n, NEW j \in 1..n, order[i] = order[j] PROVE i = j
  <2>1. i - 1 = j - 1
    BY <1>7, <1>11
  <2> QED BY <1>5, <2>1
<1>8. ASSUME NEW x \in rows PROVE \E i \in 1..n : order[i] = x
  <2> DEFINE i == Cardinality(below[x]) + 1
             y == order[i]
  <2>1. Cardinality(below[x]) \in 0..n - 1
    BY <1>5
  <2>2. i \in 1..n
    BY <1>5, <2>1
  <2>3. y \in rows /\ Cardinality(below[y]) = Cardinality(below[x])
    <3>1. y \in rows /\ Cardinality(below[y]) = i - 1
      BY <1>11, <2>2
    <3> QED BY <2>1, <3>1
  <2>4. y = x
    <3>1. /\ x \in below[y] => Cardinality(below[x]) < Cardinality(below[y])
          /\ y \in below[x] => Cardinality(below[y]) < Cardinality(below[x])
      BY <1>5, <2>3
    <3>2. Cardinality(below[x]) \in Int /\ Cardinality(below[y]) \in Int
      BY <1>5, <2>3
    <3>3. x \notin below[y] /\ y \notin below[x]
      BY <2>3, <3>1, <3>2
    <3> QED BY <1>3, <2>3, <3>3
  <2> QED BY <2>2, <2>4
<1>10. DOMAIN SelectedNames(rows) = 1..n
  BY DEF SelectedNames
<1> QED BY <1>5, <1>7, <1>8, <1>10, <1>11, <1>12

\* Every set of numbers that is not empty has a least one.
LEMMA LeastNumber == ASSUME NEW T, T \subseteq Nat, T # {} PROVE \E n \in T : \A m \in T : n <= m
<1> DEFINE less == OpToRel(<, Nat)
<1>1. \A m, n \in Nat : <<m, n>> \in less <=> m < n
  BY DEF OpToRel
<1>2. IsWellFoundedOn(less, Nat)
  BY NatLessThanWellFounded
<1> HIDE DEF less
<1>3. \E n \in T : \A m \in T : <<m, n>> \notin less
  BY <1>2, WFMin, ZenonT(30)
<1>4. PICK n \in T : \A m \in T : <<m, n>> \notin less
  BY <1>3
<1>5. ASSUME NEW m \in T PROVE n <= m
  <2>1. m \in Nat /\ n \in Nat /\ <<m, n>> \notin less
    BY <1>4
  <2>2. ~(m < n)
    BY <1>1, <2>1
  <2> QED BY <2>1, <2>2
<1> QED BY <1>5

\* The errors that were joined: there is none, or the first of them stands for all.
LEMMA JoinedErrors ==
    ASSUME NEW n \in Nat, NEW results, DOMAIN results = 1..n
    PROVE  \/ Joined(results) = "ok" /\ \A i \in 1..n : results[i] = "ok"
           \/ Joined(results) # "ok" /\ \E i \in 1..n : results[i] = Joined(results)
<1> DEFINE failed == {i \in 1..n : results[i] # "ok"}
<1>1. Joined(results) = IF failed = {} THEN "ok" ELSE results[Min(failed)]
  BY DEF Joined
<1>2. CASE failed = {}
  BY <1>1, <1>2
<1>3. CASE failed # {}
  <2>1. failed \subseteq Nat
    OBVIOUS
  <2>2. \E i \in failed : \A j \in failed : i <= j
    <3> HIDE DEF failed
    <3> QED BY <1>3, <2>1, LeastNumber
  <2>3. Min(failed) \in failed
    <3> HIDE DEF failed
    <3> QED BY <2>2 DEF Min
  <2>4. Joined(results) = results[Min(failed)]
    BY <1>1, <1>3
  <2> QED BY <2>3, <2>4
<1> QED BY <1>2, <1>3

\* The errors that were joined and given a code again: one of them stands for all.
LEMMA ClassifiedErrors ==
    ASSUME NEW results, NEW error \in Classified(results)
    PROVE  error = Joined(results) \/ error \in {"noClient", "unavailable"}
  BY DEF Classified

-----------------------------------------------------------------------------
(* What is asked for                                                       *)

\* What a call was asked does not change, and so neither do its requests and the rows they are about.
AskedTypes ==
    /\ call \in Calls
    /\ call \in Writes => marked \in Selections
    /\ call \in Writes \ Batches => Cardinality(marked) = 1

\* While the same is asked, nothing that is defined by it changes.
LEMMA AskedStays ==
    ASSUME asked' = asked
    PROVE  /\ call' = call /\ marked' = marked /\ Parts' = Parts /\ Targets' = Targets
           /\ (MixedSelection' <=> MixedSelection) /\ (AskedTypes' <=> AskedTypes)
           /\ \A p : Target(p)' = Target(p)
<1>1. call' = call /\ marked' = marked
  BY DEF asked
<1>2. Parts' = Parts /\ (MixedSelection' <=> MixedSelection)
  BY <1>1 DEF Parts, MixedSelection
<1>3. \A p : Target(p)' = Target(p)
  BY <1>1, <1>2 DEF Target
<1> QED BY <1>1, <1>2, <1>3 DEF Targets, AskedTypes

\* No step of a call changes what was asked for.
LEMMA StepsAskNothing == [CallsNext]_callsVars => asked' = asked
<1> SUFFICES ASSUME [CallsNext]_callsVars PROVE asked' = asked
  OBVIOUS
<1>1. CASE UNCHANGED callsVars
  BY <1>1 DEF callsVars, sessionVars, asked
<1>2. CASE SessionSteps
  BY <1>2 DEF SessionSteps, RefuseSelection, ClientSession, Connect, LinkFires, Expire, Send,
     GiveUp
<1>3. CASE WriteSteps
  BY <1>3 DEF WriteSteps, sessionVars, asked, TypeChanges, Discover, Resolve, RefuseSecret,
     OthersWrite, WriteReturns, ServeWrite, WriteAnswered, ScaleRead, ScaleUpdated,
     ScaleAnswered
<1>4. CASE ReadSteps
  BY <1>4 DEF ReadSteps, BeginSnapshot, SnapshotReturns, ReleasesAnswered, ValuesAnswered,
     DescriptionAnswered, ContainersAnswered, LogsOpened, LogsRead, ObserveResource,
     StartShell, ReadReturns, ListAnswered
<1> QED BY <1>1, <1>2, <1>3, <1>4 DEF CallsNext

\* No step asks for something else.
THEOREM AskedForGood == CallsSpec => []AskedTypes
<1>1. CallsInit => AskedTypes
  BY DEF CallsInit, SessionInit, AskedTypes, Writes, Batches
<1>2. AskedTypes /\ [CallsNext]_callsVars => AskedTypes'
  BY StepsAskNothing, AskedStays
<1> QED BY <1>1, <1>2, PTL DEF CallsSpec

\* The requests of a call are numbered.
LEMMA PartsAreNumbered ==
    ASSUME AskedTypes
    PROVE  \E n \in Nat : DOMAIN Parts = 1..n
<1>1. CASE call \in Writes
  <2>1. marked \subseteq Rows /\ IsFiniteSet(marked)
    BY <1>1, SessionConstants DEF AskedTypes
  <2>2. Parts = SelectedNames(marked)
    BY <1>1 DEF Parts, Writes, Openings
  <2> QED BY <2>1, <2>2, NamesOfRows
<1>2. CASE call \notin Writes
  <2>1. Parts \in {Sections, AccessLists, <<>>, <<"only">>}
    BY <1>2 DEF Parts
  <2>2. /\ DOMAIN Sections = 1..5 /\ DOMAIN AccessLists = 1..5 /\ DOMAIN <<>> = 1..0
        /\ DOMAIN <<"only">> = 1..1
    BY DEF Sections, AccessLists
  <2> QED BY <2>1, <2>2
<1> QED BY <1>1, <1>2

\* Each request of a write is about one of the marked rows, and each of them has one request.
LEMMA RowsHaveRequests ==
    ASSUME AskedTypes, call \in Writes
    PROVE  /\ DOMAIN Parts # {}
           /\ \A p \in DOMAIN Parts : Target(p) \in Targets
           /\ ~MixedSelection =>
                /\ \A p \in DOMAIN Parts : Target(p) \in marked
                /\ \A row \in marked : \E p \in DOMAIN Parts : Target(p) = row
                /\ \A p, q \in DOMAIN Parts : Parts[p] = Parts[q] => p = q
<1> DEFINE n == Cardinality(marked)
           one == CHOOSE row \in marked : TRUE
<1>1. marked \subseteq Rows /\ IsFiniteSet(marked) /\ marked # {}
  BY SessionConstants DEF AskedTypes
<1>2. Parts = SelectedNames(marked)
  BY DEF Parts, Writes, Openings
<1>3. n \in Nat /\ DOMAIN Parts = 1..n
  BY <1>1, <1>2, NamesOfRows
<1>4. PICK order \in [1..n -> marked] :
        /\ \A i, j \in 1..n : order[i] = order[j] => i = j
        /\ \A row \in marked : \E i \in 1..n : order[i] = row
        /\ \A i \in 1..n : Parts[i] = order[i].name
  BY <1>1, <1>2, NamesOfRows
<1>5. one \in marked
  BY <1>1
<1> HIDE DEF one
<1>6. \A p \in DOMAIN Parts : Target(p) = [place |-> one.place, name |-> order[p].name]
  BY <1>3, <1>4 DEF Target, one
<1>7. \A p \in DOMAIN Parts : Target(p) \in Targets
  BY <1>3, <1>4, <1>5, <1>6 DEF Targets
<1>8. DOMAIN Parts # {}
  BY <1>3, <1>4, <1>5
<1>9. ASSUME ~MixedSelection
      PROVE  /\ \A p \in DOMAIN Parts : Target(p) \in marked
             /\ \A row \in marked : \E p \in DOMAIN Parts : Target(p) = row
             /\ \A p, q \in DOMAIN Parts : Parts[p] = Parts[q] => p = q
  <2>1. \A row \in marked : row.place = one.place
    <3>1. CASE call \in Batches
      BY <1>5, <1>9, <3>1 DEF MixedSelection
    <3>2. CASE call \notin Batches
      <4>1. n = 1
        BY <3>2 DEF AskedTypes
      <4>2. \E row : marked = {row}
        BY <1>1, <4>1, FS_Singleton
      <4> QED BY <1>5, <4>2
    <3> QED BY <3>1, <3>2
  <2>2. \A row \in marked : row = [place |-> one.place, name |-> row.name]
    BY <1>1, <2>1 DEF Rows
  <2>3. \A p \in DOMAIN Parts : Target(p) = order[p]
    BY <1>3, <1>4, <1>6, <2>2
  <2>4. \A p, q \in DOMAIN Parts : Parts[p] = Parts[q] => p = q
    <3> SUFFICES ASSUME NEW p \in DOMAIN Parts, NEW q \in DOMAIN Parts, Parts[p] = Parts[q]
                 PROVE  p = q
      OBVIOUS
    <3>1. order[p].name = order[q].name /\ order[p] \in marked /\ order[q] \in marked
      BY <1>3, <1>4
    <3>2. order[p] = order[q]
      BY <2>2, <3>1
    <3> QED BY <1>3, <1>4, <3>2
  <2> QED BY <1>3, <1>4, <2>3, <2>4
<1> QED BY <1>7, <1>8, <1>9

-----------------------------------------------------------------------------
(* The types of a call                                                     *)

\* What a call may end with when each of its requests has its result.
LEMMA JoinedIsResult ==
    ASSUME AskedTypes, NEW S, "ok" \in S, \A p \in DOMAIN Parts : part[p].result \in S
    PROVE  Joined(ResultsInOrder) \in S
<1>1. PICK n \in Nat : DOMAIN Parts = 1..n
  BY PartsAreNumbered
<1>2. DOMAIN ResultsInOrder = 1..n /\ \A p \in 1..n : ResultsInOrder[p] \in S
  BY <1>1 DEF ResultsInOrder
<1> HIDE DEF ResultsInOrder
<1> QED BY <1>1, <1>2, JoinedErrors

\* A request that is answered has its result, and the others are as they were.
RequestTypes ==
    [step : {"idle", "sent", "served", "done"}, on : 0..LastConnection, result : Results]

\* A request that is answered is done with that result, and no other changes.
LEMMA AnswerOfRequest ==
    ASSUME part \in [DOMAIN Parts -> RequestTypes], NEW p, NEW result \in Results, Answered(p, result)
    PROVE  /\ part' \in [DOMAIN Parts -> RequestTypes]
           /\ \A q \in DOMAIN Parts :
                /\ q # p => part'[q] = part[q]
                /\ q = p => part'[q].step = "done" /\ part'[q].on = part[q].on /\ part'[q].result = result
<1>1. part' = [part EXCEPT ![p] = [@ EXCEPT !.step = "done", !.result = result]]
  BY DEF Answered
<1>2. \A r \in RequestTypes :
        LET done == [r EXCEPT !.step = "done", !.result = result]
        IN  done \in RequestTypes /\ done.step = "done" /\ done.on = r.on /\ done.result = result
  BY DEF RequestTypes
<1> HIDE DEF RequestTypes
<1> QED BY <1>1, <1>2

\* The state of a call has its types.
THEOREM SessionTypeCorrect == CallsSpec => []SessionTypes
<1>1. CallsInit => SessionTypes
  <2> SUFFICES ASSUME CallsInit PROVE SessionTypes
    OBVIOUS
  <2>1. 0 \in 0..LastConnection /\ connection \in 0..LastConnection
    BY SessionConstants DEF CallsInit, SessionInit
  <2>2. marked \in Selections \cup {{}}
    BY DEF CallsInit, SessionInit
  <2>3. part \in [DOMAIN Parts -> [step : {"idle", "sent", "served", "done"},
                                   on : 0..LastConnection, result : Results]]
    BY <2>1 DEF CallsInit, SessionInit, Results
  <2>4. outcome.error \in Results
    BY DEF CallsInit, SessionInit, NoOutcome, Results
  <2> QED BY <2>1, <2>2, <2>3, <2>4 DEF CallsInit, SessionInit, SessionTypes
<1>2. AskedTypes /\ SessionTypes /\ [CallsNext]_callsVars => SessionTypes'
  <2> SUFFICES ASSUME AskedTypes, SessionTypes, [CallsNext]_callsVars PROVE SessionTypes'
    OBVIOUS
  <2>0. call' = call /\ marked' = marked /\ Parts' = Parts
    BY StepsAskNothing, AskedStays
  <2>5. Joined(ResultsInOrder) \in Results
    BY JoinedIsResult DEF SessionTypes, Results
  <2>6. part \in [DOMAIN Parts -> RequestTypes]
    BY DEF SessionTypes, RequestTypes
  <2>7. \A p, result : result \in Results /\ Answered(p, result) => part' \in [DOMAIN Parts -> RequestTypes]
    BY <2>6, AnswerOfRequest
  <2>8. ASSUME part' \in [DOMAIN Parts -> RequestTypes],
               UNCHANGED <<connection, asked, stage, session, ended, outcome>>
        PROVE  SessionTypes'
    BY <2>0, <2>8 DEF SessionTypes, RequestTypes
  <2>1. CASE SessionSteps /\ UNCHANGED <<writeVars, readVars>>
    <3>1. CASE RefuseSelection
      BY <3>1, <2>0, SessionConstants DEF RefuseSelection, Return, SessionTypes, Results
    <3>2. CASE ClientSession
      BY <3>2, <2>0, SessionConstants DEF ClientSession, Return, SessionTypes, Results
    <3>3. CASE Connect
      BY <3>3, <2>0, SessionConstants DEF Connect, SessionTypes, Results
    <3>4. CASE LinkFires
      BY <3>4, <2>0, SessionConstants DEF LinkFires, SessionTypes, Results
    <3>5. CASE Expire
      BY <3>5, <2>0, SessionConstants DEF Expire, SessionTypes, Results
    <3>6. ASSUME NEW p \in DOMAIN Parts, Send(p) PROVE SessionTypes'
      BY <3>6, <2>0, SessionConstants DEF Send, SessionTypes, Results
    <3>7. ASSUME NEW p \in DOMAIN Parts, GiveUp(p) PROVE SessionTypes'
      BY <3>7, <2>7, <2>8 DEF GiveUp, SessionTypes, Results
    <3> QED
      BY <2>1, <3>1, <3>2, <3>3, <3>4, <3>5, <3>6, <3>7 DEF SessionSteps
  <2>2. CASE WriteSteps /\ UNCHANGED readVars
    <3>1. CASE TypeChanges
      BY <3>1, <2>0, SessionConstants DEF TypeChanges, SessionTypes, Results, sessionVars
    <3>2. CASE Discover
      BY <3>2, <2>0, SessionConstants DEF Discover, Return, SessionTypes, Results
    <3>3. CASE Resolve
      BY <3>3, <2>0, SessionConstants DEF Resolve, Return, SessionTypes, Results
    <3>4. CASE RefuseSecret
      BY <3>4, <2>0, SessionConstants DEF RefuseSecret, Return, SessionTypes, Results
    <3>5. CASE OthersWrite
      BY <3>5, <2>0, SessionConstants DEF OthersWrite, SessionTypes, Results, sessionVars
    <3>6. CASE WriteReturns
      BY <3>6, <2>0, SessionConstants, <2>5
      DEF WriteReturns, Return, SessionTypes, Results
    <3>7. ASSUME NEW p \in DOMAIN Parts, ServeWrite(p) PROVE SessionTypes'
      BY <3>7, <2>0, SessionConstants DEF ServeWrite, SessionTypes, Results
    <3>8. ASSUME NEW p \in DOMAIN Parts, WriteAnswered(p) PROVE SessionTypes'
      BY <3>8, <2>7, <2>8 DEF WriteAnswered, Results
    <3>9. ASSUME NEW p \in DOMAIN Parts, ScaleRead(p) PROVE SessionTypes'
      <4>1. CASE part' = [part EXCEPT ![p].step = "idle"]
        <5>1. part' \in [DOMAIN Parts -> RequestTypes]
          BY <2>6, <4>1 DEF RequestTypes
        <5> QED BY <2>8, <5>1, <3>9 DEF ScaleRead
      <4>2. CASE \E result \in Results : Answered(p, result)
        <5>1. part' \in [DOMAIN Parts -> RequestTypes]
          BY <2>7, <4>2
        <5> QED BY <2>8, <5>1, <3>9 DEF ScaleRead
      <4> QED BY <3>9, <4>1, <4>2 DEF ScaleRead, Results
    <3>10. ASSUME NEW p \in DOMAIN Parts, ScaleUpdated(p) PROVE SessionTypes'
      BY <3>10, <2>0, SessionConstants DEF ScaleUpdated, SessionTypes, Results
    <3>11. ASSUME NEW p \in DOMAIN Parts, ScaleAnswered(p) PROVE SessionTypes'
      <4>1. CASE part' = [part EXCEPT ![p].step = "idle"]
        <5>1. part' \in [DOMAIN Parts -> RequestTypes]
          BY <2>6, <4>1 DEF RequestTypes
        <5> QED BY <2>8, <5>1, <3>11 DEF ScaleAnswered
      <4>2. CASE \E result \in Results : Answered(p, result)
        <5>1. part' \in [DOMAIN Parts -> RequestTypes]
          BY <2>7, <4>2
        <5> QED BY <2>8, <5>1, <3>11 DEF ScaleAnswered
      <4> QED BY <3>11, <4>1, <4>2 DEF ScaleAnswered, Results
    <3> QED
      BY <2>2, <3>1, <3>2, <3>3, <3>4, <3>5, <3>6, <3>7, <3>8, <3>9, <3>10, <3>11 DEF WriteSteps
  <2>3. CASE ReadSteps /\ UNCHANGED writeVars
    <3>1. CASE BeginSnapshot
      BY <3>1, <2>0, SessionConstants DEF BeginSnapshot, SessionTypes, Results
    <3>2. CASE SnapshotReturns
      <4>1. \A error \in Classified(ResultsInOrder) : error \in Results
        BY <2>5, ClassifiedErrors DEF Results
      <4>2. outcome'.error \in Results
        BY <3>2, <4>1 DEF SnapshotReturns, Return, SessionTypes, Results
      <4> QED BY <3>2, <2>0, <4>2 DEF SnapshotReturns, Return, SessionTypes
    <3>3. CASE ReleasesAnswered
      BY <3>3, <2>7, <2>8 DEF ReleasesAnswered, Results
    <3>4. CASE ValuesAnswered
      BY <3>4, <2>7, <2>8 DEF ValuesAnswered, Results
    <3>5. CASE DescriptionAnswered
      BY <3>5, <2>7, <2>8 DEF DescriptionAnswered, Results
    <3>6. CASE ContainersAnswered
      BY <3>6, <2>7, <2>8 DEF ContainersAnswered, Results
    <3>7. CASE LogsOpened
      <4>1. CASE part' = [part EXCEPT ![1].step = "served"]
        <5>1. part' \in [DOMAIN Parts -> RequestTypes]
          BY <2>6, <4>1 DEF RequestTypes
        <5> QED BY <2>8, <5>1, <3>7 DEF LogsOpened
      <4>2. CASE \E result \in Results : Answered(1, result)
        <5>1. part' \in [DOMAIN Parts -> RequestTypes]
          BY <2>7, <4>2
        <5> QED BY <2>8, <5>1, <3>7 DEF LogsOpened
      <4> QED BY <3>7, <4>1, <4>2 DEF LogsOpened, Results
    <3>8. CASE LogsRead
      BY <3>8, <2>7, <2>8 DEF LogsRead, Results
    <3>9. CASE ObserveResource
      BY <3>9, <2>0, SessionConstants DEF ObserveResource, Return, SessionTypes, Results
    <3>10. CASE StartShell
      BY <3>10, <2>0, SessionConstants DEF StartShell, Return, SessionTypes, Results
    <3>11. CASE ReadReturns
      BY <3>11, <2>0, SessionConstants, <2>5
      DEF ReadReturns, Return, SessionTypes, Results
    <3>12. ASSUME NEW p \in DOMAIN Parts, ListAnswered(p) PROVE SessionTypes'
      BY <3>12, <2>7, <2>8 DEF ListAnswered, Results
    <3> QED
      BY <2>3, <3>1, <3>2, <3>3, <3>4, <3>5, <3>6, <3>7, <3>8, <3>9, <3>10, <3>11, <3>12 DEF ReadSteps
  <2>4. CASE UNCHANGED callsVars
    BY <2>4, <2>0
    DEF callsVars, sessionVars, SessionTypes
  <2> QED BY <2>1, <2>2, <2>3, <2>4 DEF CallsNext
<1> QED BY <1>1, <1>2, AskedForGood, PTL DEF CallsSpec

-----------------------------------------------------------------------------
(* The steps of a request                                                  *)

\* What a request may end with: the other errors are of the call.
RequestResults == Results \ {"none", "noMatch", "sensitive", "mixed", "badRequest"}

\* A request is idle until its call makes requests, has no result before it is done, and is not under
\* way when its call has returned.
RequestSteps ==
    \A p \in DOMAIN Parts :
        /\ stage \in {"asked", "resolving"} => part[p].step = "idle"
        /\ stage = "returned" => part[p].step \in {"idle", "done"}
        /\ part[p].step # "done" => part[p].result = "none"
        /\ part[p].step = "done" => part[p].result \in RequestResults

\* A request that is sent, served or made again is as it was but for its step.
LEMMA StepOfRequest ==
    ASSUME part \in [DOMAIN Parts -> RequestTypes], NEW p, NEW step \in {"idle", "sent", "served"},
           part' = [part EXCEPT ![p].step = step]
    PROVE  /\ part' \in [DOMAIN Parts -> RequestTypes]
           /\ \A q \in DOMAIN Parts :
                /\ q # p => part'[q] = part[q]
                /\ q = p => part'[q].step = step /\ part'[q].on = part[q].on /\ part'[q].result = part[q].result
<1>1. \A r \in RequestTypes :
        LET next == [r EXCEPT !.step = step]
        IN  next \in RequestTypes /\ next.step = step /\ next.on = r.on /\ next.result = r.result
  BY DEF RequestTypes
<1>2. part' = [part EXCEPT ![p] = [@ EXCEPT !.step = step]]
  OBVIOUS
<1> HIDE DEF RequestTypes
<1>3. CASE p \in DOMAIN Parts
  <2> DEFINE next == [part[p] EXCEPT !.step = step]
  <2>1. part' = [part EXCEPT ![p] = next]
    BY <1>2
  <2>2. /\ next \in RequestTypes /\ next.step = step /\ next.on = part[p].on
        /\ next.result = part[p].result
    BY <1>1, <1>3
  <2> HIDE DEF next
  <2> QED BY <1>3, <2>1, <2>2
<1>4. CASE p \notin DOMAIN Parts
  <2>1. part' = part
    BY <1>2, <1>4
  <2> QED BY <1>4, <2>1
<1> QED BY <1>3, <1>4

\* A call that only opens something makes no request.
LEMMA OpeningsAskNothing == call \in Openings => DOMAIN Parts = {} /\ call \notin Writes
<1> SUFFICES ASSUME call \in Openings PROVE DOMAIN Parts = {} /\ call \notin Writes
  OBVIOUS
<1>1. Parts = <<>>
  BY DEF Parts, Openings, Writes
<1> QED BY <1>1 DEF Openings, Writes

\* Requests take their steps in order.
THEOREM RequestsTakeTheirSteps == CallsSpec => []RequestSteps
<1>1. CallsInit => RequestSteps
  BY DEF CallsInit, SessionInit, RequestSteps
<1>2. AskedTypes /\ SessionTypes /\ RequestSteps /\ [CallsNext]_callsVars => RequestSteps'
  <2> SUFFICES ASSUME AskedTypes, SessionTypes, RequestSteps, [CallsNext]_callsVars PROVE RequestSteps'
    OBVIOUS
  <2>0. call' = call /\ marked' = marked /\ Parts' = Parts
    BY StepsAskNothing, AskedStays
  <2>5. part \in [DOMAIN Parts -> RequestTypes]
    BY DEF SessionTypes, RequestTypes
  <2>6. \A p, result : result \in Results /\ Answered(p, result) =>
            \A q \in DOMAIN Parts :
                /\ q # p => part'[q] = part[q]
                /\ q = p => part'[q].step = "done" /\ part'[q].on = part[q].on /\ part'[q].result = result
    BY <2>5, AnswerOfRequest
  <2>7. \A p, step : step \in {"idle", "sent", "served"} /\ part' = [part EXCEPT ![p].step = step] =>
            \A q \in DOMAIN Parts :
                /\ q # p => part'[q] = part[q]
                /\ q = p => part'[q].step = step /\ part'[q].on = part[q].on /\ part'[q].result = part[q].result
    BY <2>5, StepOfRequest
  <2>8. RequestResults \subseteq Results
    BY DEF RequestResults
  <2>9. {"ok", "forbidden", "notFound", "unavailable", "tooLong", "invalid", "canceled", "deadline", "noClient"}
            \subseteq RequestResults
    BY DEF RequestResults, Results
  <2>10. ASSUME NEW p, NEW result \in RequestResults, Answered(p, result), stage' = stage,
                p \in DOMAIN Parts => part[p].step \in {"sent", "served"}
         PROVE  RequestSteps'
    BY <2>0, <2>6, <2>8, <2>10 DEF RequestSteps
  <2>11. ASSUME NEW p, NEW step \in {"idle", "sent", "served"}, part' = [part EXCEPT ![p].step = step],
                stage' = stage, p \in DOMAIN Parts => part[p].step \in {"sent", "served"}
         PROVE  RequestSteps'
    BY <2>0, <2>7, <2>11 DEF RequestSteps
  <2>1. CASE SessionSteps /\ UNCHANGED <<writeVars, readVars>>
    <3>1. CASE RefuseSelection
      BY <3>1, <2>0 DEF RefuseSelection, Return, RequestSteps
    <3>2. CASE ClientSession
      BY <3>2, <2>0 DEF ClientSession, Return, RequestSteps
    <3>3. CASE Connect
      BY <3>3, <2>0 DEF Connect, RequestSteps
    <3>4. CASE LinkFires
      BY <3>4, <2>0 DEF LinkFires, RequestSteps
    <3>5. CASE Expire
      BY <3>5, <2>0 DEF Expire, RequestSteps
    <3>6. ASSUME NEW p \in DOMAIN Parts, Send(p) PROVE RequestSteps'
      <4>1. \A q \in DOMAIN Parts : q # p => part'[q] = part[q]
        BY <3>6, <2>5 DEF Send
      <4>2. \/ part'[p].step = "done" /\ part'[p].result \in {ended, "noClient"}
            \/ part'[p].step = "sent" /\ part'[p].result = "none"
        BY <3>6, <2>5 DEF Send
      <4>3. ended # "no" => ended \in RequestResults
        BY <2>9 DEF SessionTypes
      <4>4. part'[p].step = "done" => part'[p].result \in RequestResults
        BY <3>6, <2>5, <2>9, <4>3 DEF Send
      <4>5. stage = "calling" /\ stage' = stage
        BY <3>6 DEF Send, MayStart
      <4> QED BY <2>0, <4>1, <4>2, <4>4, <4>5 DEF RequestSteps
    <3>7. ASSUME NEW p \in DOMAIN Parts, GiveUp(p) PROVE RequestSteps'
      <4>1. ended \in RequestResults
        BY <3>7, <2>9 DEF GiveUp, SessionTypes
      <4> QED BY <3>7, <4>1, <2>10 DEF GiveUp, Sent
    <3> QED
      BY <2>1, <3>1, <3>2, <3>3, <3>4, <3>5, <3>6, <3>7 DEF SessionSteps
  <2>2. CASE WriteSteps /\ UNCHANGED readVars
    <3>1. CASE TypeChanges
      BY <3>1, <2>0 DEF TypeChanges, RequestSteps, sessionVars
    <3>2. CASE Discover
      BY <3>2, <2>0 DEF Discover, Return, RequestSteps
    <3>3. CASE Resolve
      BY <3>3, <2>0 DEF Resolve, Return, RequestSteps
    <3>4. CASE RefuseSecret
      BY <3>4, <2>0 DEF RefuseSecret, Return, RequestSteps
    <3>5. CASE OthersWrite
      BY <3>5, <2>0 DEF OthersWrite, RequestSteps, sessionVars
    <3>6. CASE WriteReturns
      BY <3>6, <2>0 DEF WriteReturns, Return, RequestSteps, AllDone
    <3>7. ASSUME NEW p \in DOMAIN Parts, ServeWrite(p) PROVE RequestSteps'
      BY <3>7, <2>11 DEF ServeWrite
    <3>8. ASSUME NEW p \in DOMAIN Parts, WriteAnswered(p) PROVE RequestSteps'
      BY <3>8, <2>9, <2>10 DEF WriteAnswered
    <3>9. ASSUME NEW p \in DOMAIN Parts, ScaleRead(p) PROVE RequestSteps'
      BY <3>9, <2>9, <2>10, <2>11 DEF ScaleRead
    <3>10. ASSUME NEW p \in DOMAIN Parts, ScaleUpdated(p) PROVE RequestSteps'
      BY <3>10, <2>11 DEF ScaleUpdated
    <3>11. ASSUME NEW p \in DOMAIN Parts, ScaleAnswered(p) PROVE RequestSteps'
      <4>1. PICK result \in Results :
                /\ \/ part[p].step = "served" /\ result \in {"ok", "unavailable"}
                   \/ part[p].step = "sent" /\ result \in {"forbidden", "notFound", "unavailable"}
                   \/ part[p].step = "sent" /\ result = "conflict"
                /\ part' = [part EXCEPT ![p].step = "idle"] \/ Answered(p, result)
        BY <3>11 DEF ScaleAnswered
      <4>2. result \in RequestResults
        BY <4>1 DEF RequestResults
      <4>3. stage' = stage
        BY <3>11 DEF ScaleAnswered
      <4> QED BY <4>1, <4>2, <4>3, <2>10, <2>11
    <3> QED
      BY <2>2, <3>1, <3>2, <3>3, <3>4, <3>5, <3>6, <3>7, <3>8, <3>9, <3>10, <3>11 DEF WriteSteps
  <2>3. CASE ReadSteps /\ UNCHANGED writeVars
    <3>1. CASE BeginSnapshot
      BY <3>1, <2>0 DEF BeginSnapshot, RequestSteps
    <3>2. CASE SnapshotReturns
      BY <3>2, <2>0 DEF SnapshotReturns, Return, RequestSteps, AllDone
    <3>3. CASE ReleasesAnswered
      BY <3>3, <2>9, <2>10 DEF ReleasesAnswered
    <3>4. CASE ValuesAnswered
      BY <3>4, <2>9, <2>10 DEF ValuesAnswered
    <3>5. CASE DescriptionAnswered
      BY <3>5, <2>9, <2>10 DEF DescriptionAnswered
    <3>6. CASE ContainersAnswered
      BY <3>6, <2>9, <2>10 DEF ContainersAnswered
    <3>7. CASE LogsOpened
      BY <3>7, <2>9, <2>10, <2>11 DEF LogsOpened
    <3>8. CASE LogsRead
      BY <3>8, <2>9, <2>10 DEF LogsRead
    <3>9. CASE ObserveResource
      BY <3>9, <2>0, OpeningsAskNothing
      DEF ObserveResource, Return, RequestSteps, Openings
    <3>10. CASE StartShell
      BY <3>10, <2>0, OpeningsAskNothing DEF StartShell, Return, RequestSteps, Openings
    <3>11. CASE ReadReturns
      BY <3>11, <2>0 DEF ReadReturns, Return, RequestSteps, AllDone
    <3>12. ASSUME NEW p \in DOMAIN Parts, ListAnswered(p) PROVE RequestSteps'
      BY <3>12, <2>9, <2>10 DEF ListAnswered
    <3> QED
      BY <2>3, <3>1, <3>2, <3>3, <3>4, <3>5, <3>6, <3>7, <3>8, <3>9, <3>10, <3>11, <3>12 DEF ReadSteps
  <2>4. CASE UNCHANGED callsVars
    BY <2>4, <2>0
    DEF callsVars, sessionVars, RequestSteps
  <2> QED BY <2>1, <2>2, <2>3, <2>4 DEF CallsNext
<1> QED BY <1>1, <1>2, AskedForGood, SessionTypeCorrect, PTL DEF CallsSpec

-----------------------------------------------------------------------------
(* What a write does to the cluster                                        *)

\* What the cluster did of a request, by how far it is and by its result.  Requests are made of a
\* selection of one place, so no two are about one row, and a row without a request stays as it was.
AppliedOnce ==
    /\ applied \in [Targets -> {0, 1}]
    /\ call \in Writes =>
        /\ stage \in {"resolving", "calling"} => ~MixedSelection
        /\ \A p \in DOMAIN Parts :
            /\ part[p].step # "idle" => ~MixedSelection
            /\ part[p].step \in {"idle", "sent"} => applied[Target(p)] = 0
            /\ part[p].step = "served" => applied[Target(p)] = 1
            /\ part[p].result = "ok" => applied[Target(p)] = 1
            /\ part[p].result \in {"forbidden", "notFound", "conflict"} => applied[Target(p)] = 0
        /\ \A row \in Targets : (\A p \in DOMAIN Parts : Target(p) # row) => applied[row] = 0

\* The reads are no writes.
LEMMA ReadsWriteNothing == ReadSteps => call \notin Writes
<1> USE DEF Writes, Unlinked, Openings
<1> QED BY DEF ReadSteps, BeginSnapshot, SnapshotReturns, ReleasesAnswered, ValuesAnswered,
       DescriptionAnswered, ContainersAnswered, LogsOpened, LogsRead, ObserveResource, StartShell,
       ReadReturns, ListAnswered

\* Nothing is done to a row twice, and what a result says was done to it.
THEOREM WritesAreAppliedOnce == CallsSpec => []AppliedOnce
<1>1. CallsInit => AppliedOnce
  <2> SUFFICES ASSUME CallsInit PROVE AppliedOnce
    OBVIOUS
  <2>1. AskedTypes
    BY DEF CallsInit, SessionInit, AskedTypes, Writes, Batches
  <2>2. applied = [row \in Targets |-> 0] /\ stage = "asked"
    BY DEF CallsInit, SessionInit, WriteInit
  <2>3. \A p \in DOMAIN Parts : part[p].step = "idle" /\ part[p].result = "none"
    BY DEF CallsInit, SessionInit
  <2>4. call \in Writes => \A p \in DOMAIN Parts : Target(p) \in Targets
    BY <2>1, RowsHaveRequests
  <2> QED BY <2>2, <2>3, <2>4 DEF AppliedOnce
<1>2. AskedTypes /\ SessionTypes /\ RequestSteps /\ AppliedOnce /\ [CallsNext]_callsVars => AppliedOnce'
  <2> SUFFICES ASSUME AskedTypes, SessionTypes, RequestSteps, AppliedOnce, [CallsNext]_callsVars
               PROVE  AppliedOnce'
    OBVIOUS
  <2>0. /\ call' = call /\ Parts' = Parts /\ Targets' = Targets /\ (MixedSelection' <=> MixedSelection)
        /\ \A p : Target(p)' = Target(p)
    BY StepsAskNothing, AskedStays
  <2>5. part \in [DOMAIN Parts -> RequestTypes]
    BY DEF SessionTypes, RequestTypes
  <2>6. \A p, result : result \in Results /\ Answered(p, result) =>
            \A q \in DOMAIN Parts :
                /\ q # p => part'[q] = part[q]
                /\ q = p => part'[q].step = "done" /\ part'[q].on = part[q].on /\ part'[q].result = result
    BY <2>5, AnswerOfRequest
  <2>7. \A p, step : step \in {"idle", "sent", "served"} /\ part' = [part EXCEPT ![p].step = step] =>
            \A q \in DOMAIN Parts :
                /\ q # p => part'[q] = part[q]
                /\ q = p => part'[q].step = step /\ part'[q].on = part[q].on /\ part'[q].result = part[q].result
    BY <2>5, StepOfRequest
  <2>8. ASSUME call \in Writes
        PROVE  /\ \A p \in DOMAIN Parts : Target(p) \in Targets
               /\ ~MixedSelection => \A p, q \in DOMAIN Parts : Target(p) = Target(q) => p = q
    <3>1. \A p, q \in DOMAIN Parts : Target(p) = Target(q) => Parts[p] = Parts[q]
      BY DEF Target
    <3> QED BY <2>8, <3>1, RowsHaveRequests
  <2>9. ASSUME NEW p \in DOMAIN Parts, NEW result \in Results, Answered(p, result),
               part[p].step \in {"sent", "served"},
               result = "ok" => part[p].step = "served",
               result \in {"forbidden", "notFound", "conflict"} => part[p].step = "sent",
               UNCHANGED <<stage, applied>>
        PROVE  AppliedOnce'
    BY <2>0, <2>6, <2>9 DEF AppliedOnce
  <2>10. ASSUME NEW p \in DOMAIN Parts, part' = [part EXCEPT ![p].step = "idle"], part[p].step = "sent",
                UNCHANGED <<stage, applied>>
         PROVE  AppliedOnce'
    BY <2>0, <2>7, <2>10 DEF AppliedOnce, RequestSteps
  <2>11. ASSUME NEW p \in DOMAIN Parts, part' = [part EXCEPT ![p].step = "served"], part[p].step = "sent",
                applied' = [applied EXCEPT ![Target(p)] = @ + 1], stage' = stage, call \in Writes
         PROVE  AppliedOnce'
    <3>1. ~MixedSelection /\ applied[Target(p)] = 0 /\ part[p].result = "none" /\ Target(p) \in Targets
      BY <2>8, <2>11 DEF AppliedOnce, RequestSteps
    <3>2. /\ applied' \in [Targets -> {0, 1}] /\ applied'[Target(p)] = 1
          /\ \A row \in Targets : row # Target(p) => applied'[row] = applied[row]
      BY <2>11, <3>1 DEF AppliedOnce
    <3>3. \A q \in DOMAIN Parts : q # p => part'[q] = part[q] /\ applied'[Target(q)] = applied[Target(q)]
      BY <2>7, <2>8, <2>11, <3>1, <3>2
    <3>4. part'[p].step = "served" /\ part'[p].result = "none"
      <4>1. "served" \in {"idle", "sent", "served"}
        OBVIOUS
      <4>2. part'[p].step = "served" /\ part'[p].result = part[p].result
        BY <2>7, <2>11, <4>1
      <4> QED BY <3>1, <4>2
    <3> QED BY <2>0, <2>11, <3>1, <3>2, <3>3, <3>4 DEF AppliedOnce
  <2>1. CASE SessionSteps /\ UNCHANGED <<writeVars, readVars>>
    <3>1. CASE RefuseSelection
      BY <3>1, <2>1, <2>0
      DEF RefuseSelection, Return, AppliedOnce, writeVars, RequestSteps
    <3>2. CASE ClientSession
      <4>1. ~MixedSelection /\ stage = "asked" /\ part' = part /\ applied' = applied
        BY <3>2, <2>1 DEF ClientSession, writeVars
      <4> QED BY <2>0, <4>1 DEF AppliedOnce
    <3>3. CASE Connect
      BY <3>3, <2>1, <2>0 DEF Connect, AppliedOnce, writeVars, RequestSteps
    <3>4. CASE LinkFires
      BY <3>4, <2>1, <2>0 DEF LinkFires, AppliedOnce, writeVars, RequestSteps
    <3>5. CASE Expire
      BY <3>5, <2>1, <2>0 DEF Expire, AppliedOnce, writeVars, RequestSteps
    <3>6. ASSUME NEW p \in DOMAIN Parts, Send(p) PROVE AppliedOnce'
      <4>1. \A q \in DOMAIN Parts : q # p => part'[q] = part[q]
        BY <3>6, <2>5 DEF Send
      <4>2. \/ part'[p].step = "done" /\ part'[p].result \in {"canceled", "deadline", "noClient"}
            \/ part'[p].step = "sent" /\ part'[p].result = "none"
        BY <3>6, <2>5 DEF Send, SessionTypes
      <4>3. stage = "calling" /\ stage' = stage /\ part[p].step = "idle" /\ applied' = applied
        BY <3>6, <2>1 DEF Send, MayStart, writeVars
      <4> QED BY <2>0, <4>1, <4>2, <4>3 DEF AppliedOnce
    <3>7. ASSUME NEW p \in DOMAIN Parts, GiveUp(p) PROVE AppliedOnce'
      <4>1. ended \in {"canceled", "deadline"} /\ ended \in Results
        BY <3>7 DEF GiveUp, SessionTypes, Results
      <4> QED BY <3>7, <2>1, <4>1, <2>9 DEF GiveUp, Sent, writeVars
    <3> QED
      BY <2>1, <3>1, <3>2, <3>3, <3>4, <3>5, <3>6, <3>7 DEF SessionSteps
  <2>2. CASE WriteSteps /\ UNCHANGED readVars
    <3>1. CASE TypeChanges
      BY <3>1, <2>2, <2>0 DEF TypeChanges, AppliedOnce, sessionVars
    <3>2. CASE Discover
      BY <3>2, <2>2, <2>0 DEF Discover, Return, AppliedOnce
    <3>3. CASE Resolve
      BY <3>3, <2>2, <2>0 DEF Resolve, Return, AppliedOnce
    <3>4. CASE RefuseSecret
      BY <3>4, <2>2, <2>0 DEF RefuseSecret, Return, AppliedOnce, writeVars
    <3>5. CASE OthersWrite
      BY <3>5, <2>2, <2>0 DEF OthersWrite, AppliedOnce, sessionVars
    <3>6. CASE WriteReturns
      BY <3>6, <2>2, <2>0 DEF WriteReturns, Return, AppliedOnce, writeVars, AllDone
    <3>7. ASSUME NEW p \in DOMAIN Parts, ServeWrite(p) PROVE AppliedOnce'
      BY <3>7, <2>11 DEF ServeWrite
    <3>8. ASSUME NEW p \in DOMAIN Parts, WriteAnswered(p) PROVE AppliedOnce'
      BY <3>8, <2>9 DEF WriteAnswered, writeVars, Results
    <3>9. ASSUME NEW p \in DOMAIN Parts, ScaleRead(p) PROVE AppliedOnce'
      BY <3>9, <2>9, <2>10 DEF ScaleRead, Results
    <3>10. ASSUME NEW p \in DOMAIN Parts, ScaleUpdated(p) PROVE AppliedOnce'
      BY <3>10, <2>11 DEF ScaleUpdated, Scaling, Writes
    <3>11. ASSUME NEW p \in DOMAIN Parts, ScaleAnswered(p) PROVE AppliedOnce'
      <4>1. PICK result \in Results :
                /\ \/ part[p].step = "served" /\ result \in {"ok", "unavailable"}
                   \/ part[p].step = "sent" /\ result \in {"forbidden", "notFound", "unavailable"}
                   \/ part[p].step = "sent" /\ result = "conflict"
                /\ \/ result = "conflict" /\ part' = [part EXCEPT ![p].step = "idle"]
                   \/ Answered(p, result)
        BY <3>11 DEF ScaleAnswered, Retried
      <4>2. UNCHANGED <<stage, applied>>
        BY <3>11 DEF ScaleAnswered
      <4> QED BY <4>1, <4>2, <2>9, <2>10
    <3> QED
      BY <2>2, <3>1, <3>2, <3>3, <3>4, <3>5, <3>6, <3>7, <3>8, <3>9, <3>10, <3>11 DEF WriteSteps
  <2>3. CASE ReadSteps /\ UNCHANGED writeVars
    <3>1. call \notin Writes /\ applied' = applied
      BY <2>3, ReadsWriteNothing DEF writeVars
    <3> QED BY <2>0, <3>1 DEF AppliedOnce
  <2>4. CASE UNCHANGED callsVars
    BY <2>4, <2>0
    DEF callsVars, sessionVars, AppliedOnce, writeVars
  <2> QED BY <2>1, <2>2, <2>3, <2>4 DEF CallsNext
<1> QED BY <1>1, <1>2, AskedForGood, SessionTypeCorrect, RequestsTakeTheirSteps, PTL DEF CallsSpec

-----------------------------------------------------------------------------
(* What a call returns                                                     *)

\* The names that are reported: those of the numbers, in their order.
ReportsInOrder(numbers, n, order) ==
    /\ order \in [1..n -> numbers]
    /\ Reported(numbers) = [i \in 1..n |-> Parts[order[i]]]
    /\ \A i, j \in 1..n : i < j => order[i] < order[j]
    /\ \A p \in numbers : \E i \in 1..n : order[i] = p

\* Any requests of a call can be listed in the order of their numbers.
LEMMA ReportedNumbers ==
    ASSUME AskedTypes, NEW numbers, numbers \subseteq DOMAIN Parts
    PROVE  \E n \in Nat : \E order : ReportsInOrder(numbers, n, order)
<1>1. PICK m \in Nat : DOMAIN Parts = 1..m
  BY PartsAreNumbered
<1>2. IsFiniteSet(numbers) /\ numbers \subseteq Nat
  <2>1. IsFiniteSet(1..m)
    BY FS_Interval
  <2> QED BY <1>1, <2>1, FS_Subset
<1> DEFINE n == Cardinality(numbers)
           order == Ascending(numbers)
<1>3. /\ n \in Nat /\ order \in [1..n -> numbers]
      /\ \A i, j \in 1..n : i < j => order[i] < order[j]
      /\ \A p \in numbers : \E i \in 1..n : order[i] = p
  BY <1>2, AscendingLists
<1>4. Reported(numbers) = [i \in 1..n |-> Parts[order[i]]]
  BY <1>3 DEF Reported
<1> HIDE DEF n, order
<1> QED BY <1>3, <1>4 DEF ReportsInOrder

\* A call that has returned makes no more steps.
LEMMA ReturnedForGood ==
    ASSUME SessionTypes, RequestSteps, stage = "returned", [CallsNext]_callsVars
    PROVE  UNCHANGED <<stage, part, outcome, ended, header, applied, wasAbsent, records, releases>>
<1> USE DEF writeVars, scaleVars, typeVars, readVars
<1>1. \A p \in DOMAIN Parts : part[p].step \notin {"sent", "served"}
  BY DEF RequestSteps
<1>5. stage # "asked" /\ stage # "resolving" /\ stage # "calling"
  OBVIOUS
<1>2. CASE SessionSteps /\ UNCHANGED <<writeVars, readVars>>
  BY <1>1, <1>2, <1>5
  DEF SessionSteps, RefuseSelection, ClientSession, Connect, LinkFires, Expire, Send, GiveUp, Sent,
      MayStart, Running
<1>3. CASE WriteSteps /\ UNCHANGED readVars
  BY <1>1, <1>3, <1>5
  DEF WriteSteps, TypeChanges, Discover, Resolve, RefuseSecret, OthersWrite, WriteReturns, ServeWrite,
      WriteAnswered, ScaleRead, ScaleUpdated, ScaleAnswered, AllDone, Scaling
<1>4. CASE ReadSteps /\ UNCHANGED writeVars
  BY <1>1, <1>4, <1>5
  DEF ReadSteps, BeginSnapshot, SnapshotReturns, ReleasesAnswered, ValuesAnswered, DescriptionAnswered,
      ContainersAnswered, LogsOpened, LogsRead, ObserveResource, StartShell, ReadReturns, ListAnswered,
      AllDone
<1>6. CASE UNCHANGED callsVars
  BY <1>6 DEF callsVars, sessionVars
<1> QED BY <1>2, <1>3, <1>4, <1>6 DEF CallsNext

\* That a type has no match is remembered of a moment at which it was not served: what was cached
\* before the call is dropped once.
AbsenceSeen ==
    /\ ~served => wasAbsent
    /\ stage = "resolving" => call \in Resolving
    /\ call \in Resolving /\ attempt = 2 /\ discovery = "without" => wasAbsent

\* A cache that was dropped once tells of this call.
THEOREM AbsenceIsSeen == CallsSpec => []AbsenceSeen
<1>1. CallsInit => AbsenceSeen
  <2> SUFFICES ASSUME CallsInit PROVE AbsenceSeen
    OBVIOUS
  <2>1. ~served => wasAbsent
    BY Zenon DEF CallsInit, WriteInit
  <2>2. attempt # 2
    BY DEF CallsInit, WriteInit
  <2>3. stage = "asked"
    BY DEF CallsInit, SessionInit
  <2> QED BY <2>1, <2>2, <2>3 DEF AbsenceSeen
<1>2. AbsenceSeen /\ [CallsNext]_callsVars => AbsenceSeen'
  <2> SUFFICES ASSUME AbsenceSeen, [CallsNext]_callsVars PROVE AbsenceSeen'
    OBVIOUS
  <2>0. call' = call
    BY StepsAskNothing, AskedStays
  <2>5. ASSUME UNCHANGED <<attempt, served, discovery, wasAbsent>>, stage' # "resolving" \/ stage' = stage
        PROVE  AbsenceSeen'
    BY <2>0, <2>5 DEF AbsenceSeen
  <2>6. ASSUME call \notin Resolving, UNCHANGED <<stage, served, wasAbsent>> PROVE AbsenceSeen'
    BY <2>0, <2>6 DEF AbsenceSeen
  <2>1. CASE SessionSteps /\ UNCHANGED <<writeVars, readVars>>
    <3>1. CASE RefuseSelection
      BY <3>1, <2>1, <2>5 DEF RefuseSelection, Return, writeVars, typeVars
    <3>2. CASE ClientSession
      BY <3>2, <2>1, <2>0 DEF ClientSession, Return, AbsenceSeen, writeVars, typeVars
    <3>3. CASE Connect
      BY <3>3, <2>1, <2>5 DEF Connect, Return, writeVars, typeVars
    <3>4. CASE LinkFires
      BY <3>4, <2>1, <2>5 DEF LinkFires, Return, writeVars, typeVars
    <3>5. CASE Expire
      BY <3>5, <2>1, <2>5 DEF Expire, Return, writeVars, typeVars
    <3>6. ASSUME NEW p \in DOMAIN Parts, Send(p) PROVE AbsenceSeen'
      BY <3>6, <2>1, <2>5 DEF Send, Return, writeVars, typeVars
    <3>7. ASSUME NEW p \in DOMAIN Parts, GiveUp(p) PROVE AbsenceSeen'
      BY <3>7, <2>1, <2>5 DEF GiveUp, Return, writeVars, typeVars
    <3> QED
      BY <2>1, <3>1, <3>2, <3>3, <3>4, <3>5, <3>6, <3>7 DEF SessionSteps
  <2>2. CASE WriteSteps /\ UNCHANGED readVars
    <3>1. CASE TypeChanges
      <4>1. CASE served' = ~served /\ wasAbsent' = (wasAbsent \/ ~served') /\ UNCHANGED discovery
        BY <3>1, <2>0, <4>1 DEF TypeChanges, AbsenceSeen, sessionVars
      <4>2. CASE discovery' = "empty" /\ UNCHANGED <<served, wasAbsent>>
        BY <3>1, <2>0, <4>2 DEF TypeChanges, AbsenceSeen, sessionVars
      <4>3. CASE Discovered /\ UNCHANGED served
        BY <3>1, <2>0, <4>3 DEF TypeChanges, Discovered, AbsenceSeen, sessionVars
      <4> QED BY <3>1, <4>1, <4>2, <4>3 DEF TypeChanges
    <3>2. CASE Discover
      <4>1. CASE Discovered /\ UNCHANGED <<stage, outcome>>
        BY <3>2, <2>2, <2>0, <4>1 DEF Discover, Discovered, AbsenceSeen
      <4>2. CASE Return("unavailable", <<>>, <<>>) /\ UNCHANGED <<discovery, wasAbsent>>
        BY <3>2, <2>2, <2>0, <4>2 DEF Discover, Return, AbsenceSeen
      <4> QED BY <3>2, <4>1, <4>2 DEF Discover
    <3>3. CASE Resolve
      BY <3>3, <2>2, <2>0 DEF Resolve, Return, AbsenceSeen
    <3>4. CASE RefuseSecret
      BY <3>4, <2>5 DEF RefuseSecret, Return, writeVars, typeVars, sessionVars
    <3>5. CASE OthersWrite
      BY <3>5, <2>5 DEF OthersWrite, Return, writeVars, typeVars, sessionVars
    <3>6. CASE WriteReturns
      BY <3>6, <2>5 DEF WriteReturns, Return, writeVars, typeVars, sessionVars
    <3>7. ASSUME NEW p \in DOMAIN Parts, ServeWrite(p) PROVE AbsenceSeen'
      BY <3>7, <2>5 DEF ServeWrite, Return, writeVars, typeVars, sessionVars
    <3>8. ASSUME NEW p \in DOMAIN Parts, WriteAnswered(p) PROVE AbsenceSeen'
      BY <3>8, <2>5 DEF WriteAnswered, Return, writeVars, typeVars, sessionVars
    <3>9. ASSUME NEW p \in DOMAIN Parts, ScaleRead(p) PROVE AbsenceSeen'
      BY <3>9, <2>5 DEF ScaleRead, Return, writeVars, typeVars, sessionVars
    <3>10. ASSUME NEW p \in DOMAIN Parts, ScaleUpdated(p) PROVE AbsenceSeen'
      BY <3>10, <2>5 DEF ScaleUpdated, Return, writeVars, typeVars, sessionVars
    <3>11. ASSUME NEW p \in DOMAIN Parts, ScaleAnswered(p) PROVE AbsenceSeen'
      BY <3>11, <2>6 DEF ScaleAnswered, Scaling, Resolving, typeVars
    <3> QED
      BY <2>2, <3>1, <3>2, <3>3, <3>4, <3>5, <3>6, <3>7, <3>8, <3>9, <3>10, <3>11 DEF WriteSteps
  <2>3. CASE ReadSteps /\ UNCHANGED writeVars
    <3>1. stage' # "resolving" \/ stage' = stage
      BY <2>3
      DEF ReadSteps, BeginSnapshot, SnapshotReturns, ReleasesAnswered, ValuesAnswered,
          DescriptionAnswered, ContainersAnswered, LogsOpened, LogsRead, ObserveResource, StartShell,
          ReadReturns, ListAnswered, Return
    <3> QED BY <2>3, <2>5, <3>1 DEF writeVars, typeVars
  <2>4. CASE UNCHANGED callsVars
    BY <2>4, <2>0, <2>5
    DEF callsVars, sessionVars, writeVars, typeVars
  <2> QED BY <2>1, <2>2, <2>3, <2>4 DEF CallsNext
<1> QED BY <1>1, <1>2, PTL DEF CallsSpec

\* A call returns before its requests are made, or when each of them has its result, and what it
\* returns is made of those.
EarlyErrors == {"mixed", "noClient", "unavailable", "noMatch", "sensitive"}
EarlyReturn ==
    /\ \A p \in DOMAIN Parts : part[p].step = "idle"
    /\ call \in Openings \/ outcome.error \in EarlyErrors
    /\ outcome.error = "noMatch" => wasAbsent

LateReturn ==
    /\ call \notin Openings
    /\ \A p \in DOMAIN Parts : part[p].step = "done"
    /\ outcome.error \in RequestResults
    /\ call # "snapshot" =>
        outcome = [error |-> Joined(ResultsInOrder), succeeded |-> Succeeded, failed |-> Failed]
    /\ call = "snapshot" /\ outcome.error = "ok" => outcome.succeeded = Succeeded /\ outcome.failed = Failed

WaysToReturn == Returned => EarlyReturn \/ LateReturn

\* What is made of the results stays as long as they do.
LEMMA ResultsStay ==
    ASSUME Parts' = Parts, part' = part
    PROVE  ResultsInOrder' = ResultsInOrder /\ Succeeded' = Succeeded /\ Failed' = Failed
<1>1. ResultsInOrder' = ResultsInOrder
  BY DEF ResultsInOrder
<1>2. Succeeded' = Succeeded
  BY DEF Succeeded, Reported
<1>3. Failed' = Failed
  BY DEF Failed, Reported
<1> QED BY <1>1, <1>2, <1>3

\* A snapshot that has read no list has an error.
LEMMA NoListNoSnapshot ==
    ASSUME AskedTypes, call = "snapshot", Succeeded = <<>>
    PROVE  Joined(ResultsInOrder) # "ok"
<1>1. DOMAIN Parts = 1..5
  <2>1. Parts = Sections
    BY DEF Parts, Writes, Openings
  <2> QED BY <2>1 DEF Sections
<1> DEFINE numbers == {p \in DOMAIN Parts : part[p].result = "ok"}
<1>2. PICK n \in Nat : \E order : ReportsInOrder(numbers, n, order)
  <2>1. numbers \subseteq DOMAIN Parts
    OBVIOUS
  <2> HIDE DEF numbers
  <2> QED BY <2>1, ReportedNumbers
<1>3. n = 0
  <2>1. DOMAIN Reported(numbers) = 1..n
    BY <1>2 DEF ReportsInOrder
  <2>2. DOMAIN Reported(numbers) = 1..0
    BY DEF Succeeded
  <2> QED BY <1>2, <2>1, <2>2
<1>4. 1 \notin numbers
  <2>1. \A p \in numbers : \E i \in 1..n : TRUE
    BY <1>2 DEF ReportsInOrder
  <2> QED BY <1>3, <2>1
<1>5. ResultsInOrder[1] # "ok" /\ DOMAIN ResultsInOrder = 1..5
  BY <1>1, <1>4 DEF ResultsInOrder
<1>6. 5 \in Nat /\ 1 \in 1..5
  OBVIOUS
<1> HIDE DEF ResultsInOrder
<1> QED BY <1>5, <1>6, JoinedErrors

\* A batch that the screen lets pass is valid.
LEMMA LetPassIsValid == ASSUME AskedTypes, ~MixedSelection PROVE ValidBatch
<1>1. CASE call \in Batches
  <2>1. call \in Writes
    BY <1>1 DEF Batches, Writes
  <2>2. DOMAIN Parts # {} /\ \A p, q \in DOMAIN Parts : Parts[p] = Parts[q] => p = q
    BY <2>1, RowsHaveRequests
  <2>3. Parts # <<>>
    BY <2>2
  <2> QED BY <2>2, <2>3 DEF ValidBatch, IsInjective
<1> QED BY <1>1 DEF ValidBatch

\* The step with which a call returns.
LEMMA ReturnsInTwoWays ==
    ASSUME AskedTypes, SessionTypes, RequestSteps, AbsenceSeen, [CallsNext]_callsVars,
           stage # "returned", stage' = "returned"
    PROVE  EarlyReturn' \/ LateReturn'
<1>0. call' = call /\ Parts' = Parts
  BY StepsAskNothing, AskedStays
<1>5. stage' # stage
  OBVIOUS
<1>6. ASSUME stage \in {"asked", "resolving"}, part' = part, wasAbsent' = wasAbsent,
             outcome.error' \in EarlyErrors,
             outcome.error' = "noMatch" => wasAbsent
      PROVE  EarlyReturn'
  BY <1>0, <1>6 DEF EarlyReturn, RequestSteps
<1>7. ASSUME call \in Openings, outcome.error' \in {"ok", "unavailable"} PROVE EarlyReturn'
  BY <1>0, <1>7, OpeningsAskNothing DEF EarlyReturn
<1>10. ASSUME AllDone PROVE Joined(ResultsInOrder) \in RequestResults
  <2>1. \A p \in DOMAIN Parts : part[p].result \in RequestResults
    BY <1>10 DEF AllDone, RequestSteps
  <2>2. "ok" \in RequestResults
    BY DEF RequestResults, Results
  <2> QED BY <2>1, <2>2, JoinedIsResult
<1>8. ASSUME call \notin Openings \cup {"snapshot"}, AllDone, part' = part,
             outcome' = [error |-> Joined(ResultsInOrder), succeeded |-> Succeeded, failed |-> Failed]
      PROVE  LateReturn'
  <2>1. ResultsInOrder' = ResultsInOrder /\ Succeeded' = Succeeded /\ Failed' = Failed
    BY <1>0, <1>8, ResultsStay
  <2> QED BY <1>0, <1>8, <1>10, <2>1 DEF LateReturn, AllDone
<1>9. ASSUME call = "snapshot", AllDone, part' = part,
             \/ outcome.error' \in {"canceled", "deadline", "noClient", "unavailable"}
             \/ outcome.error' = Joined(ResultsInOrder) /\ Joined(ResultsInOrder) # "ok"
             \/ outcome' = [error |-> "ok", succeeded |-> Succeeded, failed |-> Failed]
      PROVE  LateReturn'
  <2>1. Succeeded' = Succeeded /\ Failed' = Failed
    BY <1>0, <1>9, ResultsStay
  <2>2. {"ok", "canceled", "deadline", "noClient", "unavailable"} \subseteq RequestResults
    BY DEF RequestResults, Results
  <2> QED BY <1>0, <1>9, <1>10, <2>1, <2>2 DEF LateReturn, AllDone, Openings
<1>1. CASE SessionSteps /\ UNCHANGED <<writeVars, readVars>>
  <2>1. CASE RefuseSelection
    BY <2>1, <1>1, <1>0, <1>5, <1>6 DEF RefuseSelection, Return, EarlyErrors, writeVars
  <2>2. CASE ClientSession
    BY <2>2, <1>1, <1>0, <1>5, <1>6, LetPassIsValid
    DEF ClientSession, Return, EarlyErrors, writeVars
  <2>3. CASE Connect
    BY <2>3, <1>1, <1>0, <1>5 DEF Connect, sessionVars, Running
  <2>4. CASE LinkFires
    BY <2>4, <1>1, <1>0, <1>5 DEF LinkFires, sessionVars, Running
  <2>5. CASE Expire
    BY <2>5, <1>1, <1>0, <1>5 DEF Expire, sessionVars, Running
  <2>6. ASSUME NEW p \in DOMAIN Parts, Send(p) PROVE (EarlyReturn \/ LateReturn)'
    BY <2>6, <1>1, <1>0, <1>5 DEF Send
  <2>7. ASSUME NEW p \in DOMAIN Parts, GiveUp(p) PROVE (EarlyReturn \/ LateReturn)'
    BY <2>7, <1>1, <1>0, <1>5 DEF GiveUp, Answered
  <2> QED
    BY <1>1, <2>1, <2>2, <2>3, <2>4, <2>5, <2>6, <2>7 DEF SessionSteps
<1>2. CASE WriteSteps /\ UNCHANGED readVars
  <2>1. CASE TypeChanges
    BY <2>1, <1>2, <1>0, <1>5 DEF TypeChanges, sessionVars, Running
  <2>2. CASE Discover
    BY <2>2, <1>2, <1>0, <1>5, <1>6 DEF Discover, Return, EarlyErrors, writeVars
  <2>3. CASE Resolve
    BY <2>3, <1>2, <1>0, <1>5, <1>6
    DEF Resolve, Return, EarlyErrors, writeVars, AbsenceSeen
  <2>4. CASE RefuseSecret
    BY <2>4, <1>2, <1>0, <1>5, <1>6 DEF RefuseSecret, Return, EarlyErrors, writeVars
  <2>5. CASE OthersWrite
    BY <2>5, <1>2, <1>0, <1>5 DEF OthersWrite, sessionVars, Running
  <2>6. CASE WriteReturns
    BY <2>6, <1>2, <1>0, <1>5, <1>8 DEF WriteReturns, Return, AllDone, Writes, Openings
  <2>7. ASSUME NEW p \in DOMAIN Parts, ServeWrite(p) PROVE (EarlyReturn \/ LateReturn)'
    BY <2>7, <1>2, <1>0, <1>5 DEF ServeWrite
  <2>8. ASSUME NEW p \in DOMAIN Parts, WriteAnswered(p) PROVE (EarlyReturn \/ LateReturn)'
    BY <2>8, <1>2, <1>0, <1>5 DEF WriteAnswered, Answered
  <2>9. ASSUME NEW p \in DOMAIN Parts, ScaleRead(p) PROVE (EarlyReturn \/ LateReturn)'
    BY <2>9, <1>2, <1>0, <1>5 DEF ScaleRead, Answered
  <2>10. ASSUME NEW p \in DOMAIN Parts, ScaleUpdated(p) PROVE (EarlyReturn \/ LateReturn)'
    BY <2>10, <1>2, <1>0, <1>5 DEF ScaleUpdated
  <2>11. ASSUME NEW p \in DOMAIN Parts, ScaleAnswered(p) PROVE (EarlyReturn \/ LateReturn)'
    BY <2>11, <1>2, <1>0, <1>5 DEF ScaleAnswered, Answered
  <2> QED
    BY <1>2, <2>1, <2>2, <2>3, <2>4, <2>5, <2>6, <2>7, <2>8, <2>9, <2>10, <2>11 DEF WriteSteps
<1>3. CASE ReadSteps /\ UNCHANGED writeVars
  <2>1. CASE BeginSnapshot
    BY <2>1, <1>3, <1>0, <1>5 DEF BeginSnapshot
  <2>2. CASE SnapshotReturns
    <3>1. part' = part /\ AllDone /\ call = "snapshot"
      BY <2>2 DEF SnapshotReturns
    <3>2. \/ outcome.error' \in {"canceled", "deadline", "noClient", "unavailable"}
          \/ outcome.error' = Joined(ResultsInOrder) /\ Joined(ResultsInOrder) # "ok"
          \/ outcome' = [error |-> "ok", succeeded |-> Succeeded, failed |-> Failed]
      <4>1. CASE ended # "no"
        BY <2>2, <4>1 DEF SnapshotReturns, Return, SessionTypes
      <4>2. CASE ended = "no" /\ Succeeded = <<>>
        <5>1. PICK error \in Classified(ResultsInOrder) : outcome.error' = error
          BY <2>2, <4>2 DEF SnapshotReturns, Return
        <5>2. Joined(ResultsInOrder) # "ok"
          BY <3>1, <4>2, NoListNoSnapshot
        <5> QED BY <5>1, <5>2, ClassifiedErrors
      <4>3. CASE ended = "no" /\ Succeeded # <<>>
        BY <2>2, <4>3 DEF SnapshotReturns, Return
      <4> QED BY <4>1, <4>2, <4>3
    <3> QED BY <3>1, <3>2, <1>9
  <2>3. CASE ReleasesAnswered
    BY <2>3, <1>3, <1>0, <1>5 DEF ReleasesAnswered, Answered
  <2>4. CASE ValuesAnswered
    BY <2>4, <1>3, <1>0, <1>5 DEF ValuesAnswered, Answered
  <2>5. CASE DescriptionAnswered
    BY <2>5, <1>3, <1>0, <1>5 DEF DescriptionAnswered, Answered
  <2>6. CASE ContainersAnswered
    BY <2>6, <1>3, <1>0, <1>5 DEF ContainersAnswered, Answered
  <2>7. CASE LogsOpened
    BY <2>7, <1>3, <1>0, <1>5 DEF LogsOpened, Answered
  <2>8. CASE LogsRead
    BY <2>8, <1>3, <1>0, <1>5 DEF LogsRead, Answered
  <2>9. CASE ObserveResource
    BY <2>9, <1>3, <1>0, <1>5, <1>7 DEF ObserveResource, Return, Openings
  <2>10. CASE StartShell
    BY <2>10, <1>3, <1>0, <1>5, <1>7 DEF StartShell, Return, Openings
  <2>11. CASE ReadReturns
    BY <2>11, <1>3, <1>0, <1>5, <1>8 DEF ReadReturns, Return, AllDone
  <2>12. ASSUME NEW p \in DOMAIN Parts, ListAnswered(p) PROVE (EarlyReturn \/ LateReturn)'
    BY <2>12, <1>3, <1>0, <1>5 DEF ListAnswered, Answered
  <2> QED
    BY <1>3, <2>1, <2>2, <2>3, <2>4, <2>5, <2>6, <2>7, <2>8, <2>9, <2>10, <2>11, <2>12 DEF ReadSteps
<1>4. CASE UNCHANGED callsVars
  BY <1>4, <1>0, <1>5
  DEF callsVars, sessionVars
<1> QED BY <1>1, <1>2, <1>3, <1>4 DEF CallsNext

\* A call returns early or late, and what it returned stays as it is.
THEOREM CallsReturnInTwoWays == CallsSpec => []WaysToReturn
<1>1. CallsInit => WaysToReturn
  BY DEF CallsInit, SessionInit, WaysToReturn, Returned
<1>2. AskedTypes /\ SessionTypes /\ RequestSteps /\ AbsenceSeen /\ WaysToReturn /\ [CallsNext]_callsVars
        => WaysToReturn'
  <2> SUFFICES ASSUME AskedTypes, SessionTypes, RequestSteps, AbsenceSeen, WaysToReturn,
                      [CallsNext]_callsVars, stage' = "returned"
               PROVE  EarlyReturn' \/ LateReturn'
    BY DEF WaysToReturn, Returned
  <2>0. call' = call /\ Parts' = Parts
    BY StepsAskNothing, AskedStays
  <2>1. CASE stage = "returned"
    <3>1. UNCHANGED <<part, outcome, wasAbsent>>
      BY <2>1, ReturnedForGood
    <3>2. ResultsInOrder' = ResultsInOrder /\ Succeeded' = Succeeded /\ Failed' = Failed
      BY <2>0, <3>1, ResultsStay
    <3>3. EarlyReturn \/ LateReturn
      BY <2>1 DEF WaysToReturn, Returned
    <3>4. EarlyReturn => EarlyReturn'
      BY <2>0, <3>1 DEF EarlyReturn
    <3>5. LateReturn => LateReturn'
      BY <2>0, <3>1, <3>2 DEF LateReturn
    <3> QED BY <3>3, <3>4, <3>5
  <2>2. CASE stage # "returned"
    BY <2>2, ReturnsInTwoWays
  <2> QED BY <2>1, <2>2
<1> QED BY <1>1, <1>2, AskedForGood, SessionTypeCorrect, RequestsTakeTheirSteps, AbsenceIsSeen, PTL
       DEF CallsSpec

\* A call returns once: after that it is neither answered nor does anything to the cluster.
THEOREM CallsReturnOnce == CallsSpec => [][Returned => UNCHANGED <<stage, part, outcome, applied>>]_callsVars
<1>1. SessionTypes /\ RequestSteps /\ [CallsNext]_callsVars =>
          (Returned => UNCHANGED <<stage, part, outcome, applied>>)
  BY ReturnedForGood DEF Returned
<1> QED BY <1>1, SessionTypeCorrect, RequestsTakeTheirSteps, PTL DEF CallsSpec

\* That a type does not exist is said only when it did not: NoMatchIsFresh.
THEOREM NoMatchIsOfThisCall == CallsSpec => []NoMatchIsFresh
<1>1. RequestSteps /\ WaysToReturn => NoMatchIsFresh
  BY DEF RequestResults, WaysToReturn, EarlyReturn, LateReturn, NoMatchIsFresh, Returned
<1> QED BY <1>1, RequestsTakeTheirSteps, CallsReturnInTwoWays, PTL

\* What is reported are the names of the numbers.
LEMMA NumbersAreReported ==
    ASSUME AskedTypes, NEW numbers, numbers \subseteq DOMAIN Parts
    PROVE  Range(Reported(numbers)) = {Parts[p] : p \in numbers}
<1>1. PICK n \in Nat : \E order : ReportsInOrder(numbers, n, order)
  BY ReportedNumbers
<1>2. PICK order :
           /\ order \in [1..n -> numbers]
           /\ Reported(numbers) = [i \in 1..n |-> Parts[order[i]]]
           /\ \A p \in numbers : \E i \in 1..n : order[i] = p
  BY <1>1 DEF ReportsInOrder
<1>3. Range(Reported(numbers)) = {Parts[order[i]] : i \in 1..n}
  BY <1>2 DEF Range
<1> QED BY <1>2, <1>3

\* The names of a batch, and so the numbers of its requests, are in its order where they are reported.
LEMMA ReportsAreInOrder ==
    ASSUME AskedTypes, call \in Writes, ~MixedSelection,
           NEW numbers, numbers \subseteq DOMAIN Parts
    PROVE  /\ InBatchOrder(Reported(numbers))
           /\ Range(Reported(numbers)) = {Parts[p] : p \in numbers}
<1>1. PICK n \in Nat : \E order : ReportsInOrder(numbers, n, order)
  BY ReportedNumbers
<1>2. PICK order :
           /\ order \in [1..n -> numbers]
           /\ Reported(numbers) = [i \in 1..n |-> Parts[order[i]]]
           /\ \A i, j \in 1..n : i < j => order[i] < order[j]
           /\ \A p \in numbers : \E i \in 1..n : order[i] = p
  BY <1>1 DEF ReportsInOrder
<1>3. \A p \in DOMAIN Parts : Position(Parts[p]) = p
  <2> SUFFICES ASSUME NEW p \in DOMAIN Parts PROVE Position(Parts[p]) = p
    OBVIOUS
  <2>1. \A q \in DOMAIN Parts : Parts[q] = Parts[p] => q = p
    BY RowsHaveRequests
  <2>2. Position(Parts[p]) \in DOMAIN Parts /\ Parts[Position(Parts[p])] = Parts[p]
    BY DEF Position
  <2> QED BY <2>1, <2>2
<1>4. InBatchOrder(Reported(numbers))
  <2> SUFFICES ASSUME NEW i \in 1..n, NEW j \in 1..n, i < j
               PROVE  Position(Reported(numbers)[i]) < Position(Reported(numbers)[j])
    BY <1>2 DEF InBatchOrder
  <2>1. Reported(numbers)[i] = Parts[order[i]] /\ Reported(numbers)[j] = Parts[order[j]]
    BY <1>2
  <2>2. order[i] \in DOMAIN Parts /\ order[j] \in DOMAIN Parts /\ order[i] < order[j]
    BY <1>2
  <2> QED BY <1>3, <2>1, <2>2
<1> QED BY <1>4, NumbersAreReported

\* A call whose requests all succeeded is the one that is said to have.
LEMMA JoinedOkIsAll ==
    ASSUME AskedTypes, Joined(ResultsInOrder) = "ok"
    PROVE  \A p \in DOMAIN Parts : part[p].result = "ok"
<1>1. PICK n \in Nat : DOMAIN Parts = 1..n
  BY PartsAreNumbered
<1>2. DOMAIN ResultsInOrder = 1..n /\ \A p \in 1..n : ResultsInOrder[p] = part[p].result
  BY <1>1 DEF ResultsInOrder
<1> HIDE DEF ResultsInOrder
<1> QED BY <1>1, <1>2, JoinedErrors

\* What a write is reported to have done is what it did: OutcomeIsTrue.
THEOREM WritesReportWhatTheyDid == CallsSpec => []OutcomeIsTrue
<1>1. AskedTypes /\ RequestSteps /\ AppliedOnce /\ WaysToReturn => OutcomeIsTrue
  <2> SUFFICES ASSUME AskedTypes, RequestSteps, AppliedOnce, EarlyReturn \/ LateReturn, call \in Writes
               PROVE  OutcomeIsTrue
    BY DEF WaysToReturn, OutcomeIsTrue
  <2>1. /\ DOMAIN Parts # {}
        /\ \A p \in DOMAIN Parts : Target(p) \in Targets
        /\ ~MixedSelection =>
              /\ \A p \in DOMAIN Parts : Target(p) \in marked
              /\ \A row \in marked : \E p \in DOMAIN Parts : Target(p) = row
    BY RowsHaveRequests
  <2>2. /\ \A p \in DOMAIN Parts : part[p].step # "idle" => ~MixedSelection
        /\ \A p \in DOMAIN Parts : part[p].step = "idle" => applied[Target(p)] = 0
        /\ \A row \in Targets : applied[row] \in {0, 1}
        /\ \A row \in Targets : (\A p \in DOMAIN Parts : Target(p) # row) => applied[row] = 0
    BY DEF AppliedOnce
  <2>3. \A row \in Targets : applied[row] <= (IF row \in marked THEN 1 ELSE 0)
    <3>1. CASE \A p \in DOMAIN Parts : part[p].step = "idle"
      <4>1. \A row \in Targets : applied[row] = 0
        BY <2>2, <3>1
      <4> QED BY <4>1
    <3>2. CASE ~MixedSelection
      <4>1. \A row \in Targets : row \notin marked => applied[row] = 0
        BY <2>1, <2>2, <3>2
      <4> QED BY <2>2, <4>1
    <3> QED BY <2>1, <2>2, <3>1, <3>2 DEF EarlyReturn, LateReturn
  <2>4. \A p \in DOMAIN Parts :
            /\ part[p].result = "ok" => applied[Target(p)] = 1
            /\ part[p].result \in {"forbidden", "notFound", "conflict"} => applied[Target(p)] = 0
    BY DEF AppliedOnce
  <2>5. ASSUME LateReturn
        PROVE  /\ ~MixedSelection
               /\ outcome = [error |-> Joined(ResultsInOrder), succeeded |-> Succeeded, failed |-> Failed]
    BY <2>1, <2>2, <2>5 DEF LateReturn, Writes
  <2>6. ASSUME MutationShown = "done" PROVE \A row \in marked : applied[row] = 1
    <3>1. outcome.error = "ok"
      BY <2>6 DEF MutationShown
    <3>2. LateReturn
      BY <3>1, OpeningsAskNothing DEF EarlyReturn, EarlyErrors
    <3>3. \A p \in DOMAIN Parts : part[p].result = "ok"
      BY <2>5, <3>1, <3>2, JoinedOkIsAll
    <3> QED BY <2>1, <2>4, <2>5, <3>2, <3>3
  <2>7. ASSUME \A p \in DOMAIN Parts : part[p].step = "done"
        PROVE  /\ Range(outcome.succeeded) \cup Range(outcome.failed) = Range(Parts)
               /\ InBatchOrder(outcome.succeeded) /\ InBatchOrder(outcome.failed)
    <3>1. LateReturn
      BY <2>1, <2>7 DEF EarlyReturn
    <3> DEFINE done == {p \in DOMAIN Parts : part[p].result = "ok"}
               undone == {p \in DOMAIN Parts : part[p].result # "ok"}
    <3>2. outcome.succeeded = Reported(done) /\ outcome.failed = Reported(undone)
      BY <2>5, <3>1 DEF Succeeded, Failed
    <3>3. done \subseteq DOMAIN Parts /\ undone \subseteq DOMAIN Parts /\ done \cup undone = DOMAIN Parts
      OBVIOUS
    <3> HIDE DEF done, undone
    <3>4. /\ InBatchOrder(Reported(done)) /\ Range(Reported(done)) = {Parts[p] : p \in done}
          /\ InBatchOrder(Reported(undone)) /\ Range(Reported(undone)) = {Parts[p] : p \in undone}
      BY <2>5, <3>1, <3>3, ReportsAreInOrder
    <3>5. Range(Parts) = {Parts[p] : p \in DOMAIN Parts}
      BY DEF Range
    <3> QED BY <3>2, <3>3, <3>4, <3>5
  <2>8. outcome.error # "badRequest"
    <3>1. CASE EarlyReturn
      BY <3>1, OpeningsAskNothing DEF EarlyReturn, EarlyErrors
    <3>2. CASE LateReturn
      BY <3>2 DEF LateReturn, RequestResults
    <3> QED BY <3>1, <3>2
  <2> QED BY <2>3, <2>4, <2>6, <2>7, <2>8 DEF OutcomeIsTrue
<1> QED BY <1>1, AskedForGood, RequestsTakeTheirSteps, WritesAreAppliedOnce, CallsReturnInTwoWays, PTL

-----------------------------------------------------------------------------
(* What is made of what was read                                           *)

\* A section of a snapshot has as many of its objects as fit, and none it leaves out comes before one
\* it shows, in any order that a sort may leave: SectionsAreHonest.
LEMMA SectionsLeaveOutTheLast == SectionsAreHonest
<1> SUFFICES ASSUME NEW section \in {"pods", "events"}, NEW list \in ObjectLists,
                    NEW shown \in Projections(section, list)
             PROVE  /\ Range(shown) \subseteq Range(list)
                    /\ Len(shown) = (IF Len(list) < MaxItems THEN Len(list) ELSE MaxItems)
                    /\ \A left \in Range(list) \ Range(shown), kept \in Range(shown) :
                         ~Precedes(section, left, kept)
  BY DEF SectionsAreHonest
<1>1. PICK n \in Nat : list \in [1..n -> Objects]
  BY ReadConstants DEF ObjectLists
<1>2. PICK sorted \in Sorted(section, list) : shown = Limited(sorted)
  BY DEF Projections
<1>3. /\ \E order \in Bijection(DOMAIN list, DOMAIN list) : sorted = [i \in DOMAIN list |-> list[order[i]]]
      /\ \A i, j \in DOMAIN list : Precedes(section, sorted[i], sorted[j]) => i < j
  BY DEF Sorted
<1>4. PICK order \in Bijection(DOMAIN list, DOMAIN list) : sorted = [i \in DOMAIN list |-> list[order[i]]]
  BY <1>3
<1>5. order \in [1..n -> 1..n] /\ \A i \in 1..n : \E j \in 1..n : order[j] = i
  <2>1. DOMAIN list = 1..n
    BY <1>1
  <2> QED BY <1>4, <2>1 DEF Bijection, Surjection
<1>6. sorted \in [1..n -> Objects] /\ \A i \in 1..n : \E j \in 1..n : sorted[j] = list[i]
  BY <1>1, <1>4, <1>5
<1>7. Len(list) = n /\ Len(sorted) = n /\ MaxItems \in Nat
  BY <1>1, <1>6, ReadConstants
<1> DEFINE k == IF n < MaxItems THEN n ELSE MaxItems
<1>8. k \in 0..n
  BY <1>7
<1>9. Len(shown) = k /\ DOMAIN shown = 1..k /\ \A i \in 1..k : shown[i] = sorted[i]
  <2>1. CASE n <= MaxItems
    BY <1>2, <1>6, <1>7, <2>1 DEF Limited
  <2>2. CASE ~(n <= MaxItems)
    <3>1. shown = SubSeq(sorted, 1, MaxItems) /\ k = MaxItems
      BY <1>2, <1>7, <2>2 DEF Limited
    <3>2. \A i \in 1..MaxItems : sorted[i] \in Objects
      BY <1>6, <1>7, <2>2
    <3>3. /\ shown \in Seq(Objects) /\ Len(shown) = IF 1 <= MaxItems THEN MaxItems - 1 + 1 ELSE 0
          /\ \A i \in 1..MaxItems - 1 + 1 : shown[i] = sorted[1 + i - 1]
      BY <1>7, <3>1, <3>2, SubSeqProperties
    <3>4. Len(shown) = MaxItems
      BY <1>7, <3>3
    <3>5. DOMAIN shown = 1..MaxItems
      BY <3>3, <3>4, LenProperties
    <3>6. ASSUME NEW i \in 1..MaxItems PROVE shown[i] = sorted[i]
      <4>1. i \in 1..MaxItems - 1 + 1 /\ 1 + i - 1 = i
        BY <1>7
      <4> QED BY <3>3, <4>1
    <3> QED BY <3>1, <3>4, <3>5, <3>6
  <2> QED BY <2>1, <2>2
<1> HIDE DEF k
<1>10. Range(shown) \subseteq Range(list)
  <2>1. \A i \in 1..n : sorted[i] \in Range(list)
    BY <1>1, <1>4, <1>5 DEF Range
  <2> QED BY <1>8, <1>9, <2>1 DEF Range
<1>11. ASSUME NEW left \in Range(list) \ Range(shown), NEW kept \in Range(shown),
              Precedes(section, left, kept)
       PROVE  FALSE
  <2>1. PICK i \in 1..n : sorted[i] = left
    BY <1>1, <1>6 DEF Range
  <2>2. PICK j \in 1..k : sorted[j] = kept
    BY <1>9 DEF Range
  <2>3. i \notin 1..k
    BY <1>9, <2>1 DEF Range
  <2>4. i < j
    BY <1>1, <1>3, <1>8, <1>11, <2>1, <2>2
  <2> QED BY <1>8, <2>3, <2>4
<1> QED BY <1>7, <1>9, <1>10, <1>11 DEF k

\* The latest records of the first of a list, of the first two, and so on, are well defined.
LEMMA LatestIsDefined ==
    ASSUME NEW N \in Nat, NEW list
    PROVE  \E f : f = [n \in 0..N |-> IF n = 0 THEN <<>> ELSE Newer(f[n - 1], list[n])]
<1> DEFINE Defined(k) == \E f : f = [n \in 0..k |-> IF n = 0 THEN <<>> ELSE Newer(f[n - 1], list[n])]
           undefined == {k \in Nat : ~Defined(k)}
<1>1. SUFFICES ASSUME undefined # {} PROVE FALSE
  OBVIOUS
<1>2. \E k \in undefined : \A m \in undefined : k <= m
  <2>1. undefined \subseteq Nat
    OBVIOUS
  <2> HIDE DEF undefined
  <2> QED BY <1>1, <2>1, LeastNumber
<1>3. PICK k \in undefined : \A m \in undefined : k <= m
  BY <1>2
<1>4. CASE k = 0
  <2> DEFINE f == [n \in 0..0 |-> <<>>]
  <2>1. f = [n \in 0..0 |-> IF n = 0 THEN <<>> ELSE Newer(f[n - 1], list[n])]
    OBVIOUS
  <2>2. Defined(0)
    BY <2>1
  <2> QED BY <1>3, <1>4, <2>2
<1>5. CASE k # 0
  <2>1. k - 1 \in Nat /\ k \in Nat /\ ~(k <= k - 1)
    BY <1>3, <1>5
  <2>2. Defined(k - 1)
    BY <1>3, <2>1
  <2>3. PICK f : f = [n \in 0..k - 1 |-> IF n = 0 THEN <<>> ELSE Newer(f[n - 1], list[n])]
    BY <2>2
  <2> DEFINE g == [n \in 0..k |-> IF n = k THEN Newer(f[k - 1], list[k]) ELSE f[n]]
  <2>4. \A n \in 0..k - 1 : g[n] = f[n]
    BY <2>1
  <2>5. ASSUME NEW n \in 0..k
        PROVE  g[n] = IF n = 0 THEN <<>> ELSE Newer(g[n - 1], list[n])
    <3>1. CASE n = k
      <4>1. k - 1 \in 0..k - 1
        BY <2>1
      <4>2. g[k] = Newer(f[k - 1], list[k]) /\ g[k - 1] = f[k - 1]
        BY <2>1, <2>4, <4>1
      <4> QED BY <1>5, <3>1, <4>2
    <3>2. CASE n # k
      <4>1. n \in 0..k - 1 /\ (n # 0 => n - 1 \in 0..k - 1)
        BY <2>1, <3>2
      <4>2. g[n] = IF n = 0 THEN <<>> ELSE Newer(f[n - 1], list[n])
        BY <2>3, <2>4, <4>1
      <4> QED BY <2>4, <4>1, <4>2
    <3> QED BY <3>1, <3>2
  <2>6. DOMAIN g = 0..k /\ g = [n \in DOMAIN g |-> g[n]]
    OBVIOUS
  <2> HIDE DEF g
  <2>7. g = [n \in 0..k |-> IF n = 0 THEN <<>> ELSE Newer(g[n - 1], list[n])]
    BY <2>5, <2>6
  <2>8. Defined(k)
    BY <2>7
  <2> QED BY <1>3, <2>8
<1> QED BY <1>4, <1>5

\* Of the first n records of a list: the latest record of each release they are of.
LatestOfFirst(list, n, latest) ==
    /\ DOMAIN latest \subseteq Releases
    /\ \A r \in DOMAIN latest : \E i \in 1..n : latest[r] = list[i] /\ list[i].release = r
    /\ \A i \in 1..n :
        list[i].release \in DOMAIN latest /\ list[i].revision <= latest[list[i].release].revision

\* One more record.
LEMMA OneMoreRecord ==
    ASSUME NEW N \in Nat, NEW list \in [1..N -> Records], NEW n \in 1..N, NEW latest,
           LatestOfFirst(list, n - 1, latest)
    PROVE  LatestOfFirst(list, n, Newer(latest, list[n]))
<1> DEFINE r == list[n].release
           next == Newer(latest, list[n])
<1>1. \A i \in 1..N : list[i].release \in Releases /\ list[i].revision \in Nat
  BY ReadConstants DEF Records
<1>2. r \in Releases
  BY <1>1
<1>3. /\ DOMAIN latest \subseteq Releases
      /\ \A s \in DOMAIN latest : \E i \in 1..n - 1 : latest[s] = list[i] /\ list[i].release = s
      /\ \A i \in 1..n - 1 :
          list[i].release \in DOMAIN latest /\ list[i].revision <= latest[list[i].release].revision
  BY DEF LatestOfFirst
<1>4. 1..n - 1 \subseteq 1..n /\ n \in 1..n /\ \A i \in 1..n : i = n \/ i \in 1..n - 1
  OBVIOUS
<1>5. CASE r \in DOMAIN latest /\ list[n].revision <= latest[r].revision
  <2>1. next = latest
    BY <1>5 DEF Newer
  <2>2. \A i \in 1..n : list[i].release \in DOMAIN latest /\ list[i].revision <= latest[list[i].release].revision
    BY <1>3, <1>4, <1>5
  <2>3. \A s \in DOMAIN latest : \E i \in 1..n : latest[s] = list[i] /\ list[i].release = s
    BY <1>3, <1>4
  <2> QED BY <1>3, <2>1, <2>2, <2>3 DEF LatestOfFirst
<1>6. CASE ~(r \in DOMAIN latest /\ list[n].revision <= latest[r].revision)
  <2>1. next = [m \in DOMAIN latest \cup {r} |-> IF m = r THEN list[n] ELSE latest[m]]
    BY <1>6 DEF Newer
  <2>2. /\ DOMAIN next = DOMAIN latest \cup {r} /\ next[r] = list[n]
        /\ \A m \in DOMAIN latest : m # r => next[m] = latest[m]
    BY <2>1
  <2> HIDE DEF next
  <2>3. \A s \in DOMAIN next : \E i \in 1..n : next[s] = list[i] /\ list[i].release = s
    BY <1>3, <1>4, <2>2
  <2>4. ASSUME NEW i \in 1..n
        PROVE  list[i].release \in DOMAIN next /\ list[i].revision <= next[list[i].release].revision
    <3>1. CASE list[i].release = r /\ i \in 1..n - 1
      <4>1. r \in DOMAIN latest /\ list[i].revision <= latest[r].revision
        BY <1>3, <3>1
      <4>2. PICK j \in 1..n - 1 : latest[r] = list[j]
        BY <1>3, <4>1
      <4>3. latest[r].revision \in Nat /\ list[n].revision \in Nat /\ list[i].revision \in Nat
        BY <1>1, <4>2
      <4>4. latest[r].revision < list[n].revision
        BY <1>6, <4>1, <4>3
      <4> QED BY <2>2, <3>1, <4>1, <4>3, <4>4
    <3>2. CASE i = n
      <4>1. list[n].revision \in Nat
        BY <1>1
      <4> QED BY <2>2, <3>2, <4>1
    <3>3. CASE list[i].release # r
      BY <1>3, <1>4, <2>2, <3>3
    <3> QED BY <1>4, <3>1, <3>2, <3>3
  <2> QED BY <1>2, <1>3, <2>2, <2>3, <2>4 DEF LatestOfFirst, next
<1> QED BY <1>5, <1>6

\* The releases that are listed: one record of each, the latest, in the order of the releases.
LEMMA LatestReleases ==
    ASSUME NEW list \in RecordLists, NEW latest, latest = LatestHelmReleases(list)
    PROVE  /\ {r.release : r \in Range(latest)} = {r.release : r \in Range(list)}
           /\ \A i \in DOMAIN latest :
                /\ latest[i] \in Range(list)
                /\ \A r \in Range(list) : r.release = latest[i].release => r.revision <= latest[i].revision
                /\ \A j \in 1..i - 1 : latest[j].release < latest[i].release
<1>1. PICK N \in Nat : list \in [1..N -> Records]
  BY ReadConstants DEF RecordLists
<1>2. Len(list) = N
  BY <1>1
<1> DEFINE of == CHOOSE f : f = [n \in 0..N |-> IF n = 0 THEN <<>> ELSE Newer(f[n - 1], list[n])]
           order == Ascending(DOMAIN of[N])
<1>3. latest = [i \in DOMAIN order |-> of[N][order[i]]]
  BY <1>2 DEF LatestHelmReleases
<1>4. of = [n \in 0..N |-> IF n = 0 THEN <<>> ELSE Newer(of[n - 1], list[n])]
  BY LatestIsDefined
<1> HIDE DEF of
<1>5. \A n \in 0..N : LatestOfFirst(list, n, of[n])
  <2> DEFINE wrong == {n \in 0..N : ~LatestOfFirst(list, n, of[n])}
  <2>1. SUFFICES ASSUME wrong # {} PROVE FALSE
    OBVIOUS
  <2>2. \E n \in wrong : \A m \in wrong : n <= m
    <3>1. wrong \subseteq Nat
      OBVIOUS
    <3> HIDE DEF wrong
    <3> QED BY <2>1, <3>1, LeastNumber
  <2>3. PICK n \in wrong : \A m \in wrong : n <= m
    BY <2>2
  <2>4. CASE n = 0
    <3>1. of[0] = <<>>
      BY <1>4
    <3>2. LatestOfFirst(list, 0, <<>>)
      BY DEF LatestOfFirst
    <3> QED BY <2>3, <2>4, <3>1, <3>2
  <2>5. CASE n # 0
    <3>1. n \in 1..N /\ n - 1 \in 0..N /\ ~(n <= n - 1)
      BY <2>3, <2>5
    <3>2. of[n] = Newer(of[n - 1], list[n])
      BY <1>4, <3>1
    <3>3. LatestOfFirst(list, n - 1, of[n - 1])
      BY <2>3, <3>1
    <3>4. LatestOfFirst(list, n, of[n])
      BY <1>1, <3>1, <3>2, <3>3, OneMoreRecord
    <3> QED BY <2>3, <3>4
  <2> QED BY <2>4, <2>5
<1> DEFINE last == of[N]
           names == DOMAIN last
<1>6. /\ names \subseteq Releases
      /\ \A r \in names : \E i \in 1..N : last[r] = list[i] /\ list[i].release = r
      /\ \A i \in 1..N : list[i].release \in names /\ list[i].revision <= last[list[i].release].revision
  BY <1>5 DEF LatestOfFirst
<1>7. names \subseteq Nat /\ IsFiniteSet(names)
  <2>1. IsFiniteSet(Releases) /\ Releases \subseteq Nat
    <3>1. 1 \in Int /\ 2 \in Int /\ Releases = 1..2
      BY DEF Releases
    <3>2. \A a, b \in Int : IsFiniteSet(a..b)
      BY FS_Interval
    <3>3. IsFiniteSet(Releases)
      BY <3>1, <3>2, Zenon
    <3>4. Releases \subseteq Nat
      BY <3>1
    <3> QED BY <3>3, <3>4
  <2> QED BY <1>6, <2>1, FS_Subset
<1> DEFINE k == Cardinality(names)
<1>8. /\ k \in Nat /\ order \in [1..k -> names]
      /\ \A i, j \in 1..k : i < j => order[i] < order[j]
      /\ \A r \in names : \E i \in 1..k : order[i] = r
  <2> HIDE DEF names
  <2>1. order = Ascending(names)
    BY DEF names
  <2> HIDE DEF order
  <2>2. /\ k \in Nat /\ Ascending(names) \in [1..k -> names]
        /\ \A i, j \in 1..k : i < j => Ascending(names)[i] < Ascending(names)[j]
        /\ \A r \in names : \E i \in 1..k : Ascending(names)[i] = r
    BY <1>7, AscendingLists
  <2> QED BY <2>1, <2>2
<1>9. DOMAIN latest = 1..k /\ \A i \in 1..k : latest[i] = last[order[i]]
  BY <1>3, <1>8
<1> HIDE DEF order, last, names, k
<1>10. DOMAIN last = names
  BY DEF names
<1>11. \A i \in 1..k : latest[i] \in Range(list) /\ latest[i].release = order[i]
  <2> SUFFICES ASSUME NEW i \in 1..k PROVE latest[i] \in Range(list) /\ latest[i].release = order[i]
    OBVIOUS
  <2>1. order[i] \in names /\ latest[i] = last[order[i]]
    BY <1>8, <1>9
  <2>2. PICK m \in 1..N : last[order[i]] = list[m] /\ list[m].release = order[i]
    BY <1>6, <2>1
  <2> QED BY <1>1, <2>1, <2>2 DEF Range
<1>12. \A r \in Range(list) : r.release \in names /\ r.revision <= last[r.release].revision
  BY <1>1, <1>6 DEF Range
<1>13. {r.release : r \in Range(latest)} = {r.release : r \in Range(list)}
  <2>1. \A r \in Range(latest) : r \in Range(list)
    BY <1>9, <1>11 DEF Range
  <2>2. ASSUME NEW r \in Range(list) PROVE \E s \in Range(latest) : s.release = r.release
    <3>1. PICK i \in 1..k : order[i] = r.release
      BY <1>8, <1>12
    <3>2. latest[i] \in Range(latest) /\ latest[i].release = r.release
      BY <1>9, <1>11, <3>1 DEF Range
    <3> QED BY <3>2
  <2> QED BY <2>1, <2>2
<1>14. ASSUME NEW i \in 1..k
       PROVE  /\ \A r \in Range(list) : r.release = latest[i].release => r.revision <= latest[i].revision
              /\ \A j \in 1..i - 1 : latest[j].release < latest[i].release
  <2>1. latest[i] = last[order[i]] /\ latest[i].release = order[i]
    BY <1>9, <1>11
  <2>2. \A j \in 1..i - 1 : j \in 1..k /\ j < i
    BY <1>8
  <2> QED BY <1>8, <1>11, <1>12, <2>1, <2>2
<1> QED BY <1>9, <1>11, <1>13, <1>14

\* No list of a snapshot is of a connection before the one that named its context, and the releases
\* are made of the records that the storage returned.
ReadsMade ==
    /\ header \in 0..LastConnection
    /\ call = "snapshot" =>
        /\ stage # "asked" => header <= connection
        /\ \A p \in DOMAIN Parts :
            part[p].step \in {"sent", "served"} \/ part[p].result = "ok" => header <= part[p].on
    /\ call = "releases" /\ part[1].result = "ok" =>
        records \in RecordLists /\ releases = LatestHelmReleases(records)

\* What was read is of the answers, and of the connections they came from.
THEOREM ReadsAreMadeOfAnswers == CallsSpec => []ReadsMade
<1>1. CallsInit => ReadsMade
  <2> SUFFICES ASSUME CallsInit PROVE ReadsMade
    OBVIOUS
  <2>1. header \in 0..LastConnection /\ stage = "asked"
    BY SessionConstants DEF CallsInit, SessionInit, ReadInit
  <2>2. \A p \in DOMAIN Parts : part[p].step = "idle" /\ part[p].result = "none"
    BY DEF CallsInit, SessionInit
  <2>3. call = "releases" => 1 \in DOMAIN Parts
    BY DEF Parts, Writes, Openings
  <2> QED BY <2>1, <2>2, <2>3 DEF ReadsMade
<1>2. AskedTypes /\ SessionTypes /\ RequestSteps /\ ReadsMade /\ [CallsNext]_callsVars => ReadsMade'
  <2> SUFFICES ASSUME AskedTypes, SessionTypes, RequestSteps, ReadsMade, [CallsNext]_callsVars
               PROVE  ReadsMade'
    OBVIOUS
  <2>0. call' = call /\ Parts' = Parts
    BY StepsAskNothing, AskedStays
  <2>5. /\ part \in [DOMAIN Parts -> RequestTypes] /\ connection \in 0..LastConnection
        /\ header \in 0..LastConnection /\ LastConnection \in Nat
    BY SessionConstants DEF SessionTypes, RequestTypes, ReadsMade
  <2>6. \A p, result : result \in Results /\ Answered(p, result) =>
            \A q \in DOMAIN Parts :
                /\ q # p => part'[q] = part[q]
                /\ q = p => part'[q].step = "done" /\ part'[q].on = part[q].on /\ part'[q].result = result
    BY <2>5, AnswerOfRequest
  <2>7. ASSUME UNCHANGED <<connection, part, header, records, releases>>,
               call = "snapshot" /\ stage = "asked" => stage' = "asked"
        PROVE  ReadsMade'
    BY <2>0, <2>7 DEF ReadsMade
  <2>8. ASSUME call \notin {"snapshot", "releases"}, UNCHANGED header PROVE ReadsMade'
    BY <2>0, <2>8 DEF ReadsMade
  <2>9. ASSUME NEW p, NEW result \in Results, Answered(p, result), result # "ok",
               UNCHANGED <<connection, stage, header, records, releases>>
        PROVE  ReadsMade'
    <3>1. call = "releases" => 1 \in DOMAIN Parts
      BY DEF Parts, Writes, Openings
    <3> QED BY <2>0, <2>6, <2>9, <3>1 DEF ReadsMade
  <2>1. CASE SessionSteps /\ UNCHANGED <<writeVars, readVars>>
    <3>1. CASE RefuseSelection
      BY <3>1, <2>1, <2>7 DEF RefuseSelection, MixedSelection, Batches, readVars
    <3>2. CASE ClientSession
      BY <3>2, <2>1, <2>7 DEF ClientSession, readVars
    <3>3. CASE Connect
      <4>1. connection' = connection + 1 /\ UNCHANGED <<stage, part, header, records, releases>>
        BY <3>3, <2>1 DEF Connect, readVars
      <4>2. header <= connection => header <= connection'
        BY <2>5, <4>1
      <4> QED BY <2>0, <4>1, <4>2 DEF ReadsMade
    <3>4. CASE LinkFires
      BY <3>4, <2>1, <2>7 DEF LinkFires, readVars
    <3>5. CASE Expire
      BY <3>5, <2>1, <2>7 DEF Expire, readVars
    <3>6. ASSUME NEW p \in DOMAIN Parts, Send(p) PROVE ReadsMade'
      <4>1. /\ \A q \in DOMAIN Parts : q # p => part'[q] = part[q]
            /\ \/ part'[p].step = "done" /\ part'[p].result # "ok"
               \/ part'[p].step = "sent" /\ part'[p].result = "none"
                  /\ (call = "snapshot" => part'[p].on = connection)
        BY <3>6, <2>5 DEF Send, SessionTypes
      <4>2. stage = "calling" /\ UNCHANGED <<connection, stage, header, records, releases>>
        BY <3>6, <2>1 DEF Send, MayStart, readVars
      <4>3. call = "releases" => 1 \in DOMAIN Parts
        BY DEF Parts, Writes, Openings
      <4> QED BY <2>0, <4>1, <4>2, <4>3 DEF ReadsMade
    <3>7. ASSUME NEW p \in DOMAIN Parts, GiveUp(p) PROVE ReadsMade'
      <4>1. ended \in Results /\ ended # "ok"
        BY <3>7 DEF GiveUp, SessionTypes, Results
      <4> QED BY <3>7, <2>1, <4>1, <2>9 DEF GiveUp, readVars
    <3> QED
      BY <2>1, <3>1, <3>2, <3>3, <3>4, <3>5, <3>6, <3>7 DEF SessionSteps
  <2>2. CASE WriteSteps /\ UNCHANGED readVars
    <3>1. /\ UNCHANGED <<connection, header, records, releases>>
          /\ stage = "asked" => stage' = "asked"
          /\ call \notin Writes => part' = part
      BY <2>2
      DEF WriteSteps, TypeChanges, Discover, Resolve, RefuseSecret, OthersWrite, WriteReturns, ServeWrite,
          WriteAnswered, ScaleRead, ScaleUpdated, ScaleAnswered, Scaling, AllDone, Return, Writes,
          sessionVars, readVars
    <3> QED BY <2>7, <2>8, <3>1 DEF Writes
  <2>3. CASE ReadSteps /\ UNCHANGED writeVars
    <3>1. CASE BeginSnapshot
      <4>1. \A p \in DOMAIN Parts : part[p].step = "idle" /\ part[p].result = "none"
        BY <3>1 DEF BeginSnapshot, RequestSteps
      <4>2. header' = connection /\ UNCHANGED <<connection, part, records, releases>> /\ call = "snapshot"
        BY <3>1 DEF BeginSnapshot
      <4> QED BY <2>0, <2>5, <4>1, <4>2 DEF ReadsMade
    <3>2. CASE SnapshotReturns
      BY <3>2, <2>7 DEF SnapshotReturns, AllDone, readVars
    <3>3. CASE ReleasesAnswered
      <4>1. UNCHANGED header /\ call = "releases"
        BY <3>3 DEF ReleasesAnswered
      <4>2. CASE Answered(1, "ok") /\ records' \in RecordLists /\ releases' = LatestHelmReleases(records')
        BY <2>0, <2>5, <4>1, <4>2 DEF ReadsMade
      <4>3. CASE \E result \in Results : result # "ok" /\ Answered(1, result)
        <5>1. 1 \in DOMAIN Parts
          BY <4>1 DEF Parts, Writes, Openings
        <5> QED BY <2>0, <2>5, <2>6, <4>1, <4>3, <5>1 DEF ReadsMade
      <4> QED BY <3>3, <4>2, <4>3 DEF ReleasesAnswered, Results
    <3>4. CASE ValuesAnswered
      BY <3>4, <2>8 DEF ValuesAnswered, readVars
    <3>5. CASE DescriptionAnswered
      BY <3>5, <2>8 DEF DescriptionAnswered, readVars
    <3>6. CASE ContainersAnswered
      BY <3>6, <2>8 DEF ContainersAnswered, readVars
    <3>7. CASE LogsOpened
      BY <3>7, <2>8 DEF LogsOpened, readVars
    <3>8. CASE LogsRead
      BY <3>8, <2>8 DEF LogsRead, readVars
    <3>9. CASE ObserveResource
      BY <3>9, <2>8 DEF ObserveResource, readVars
    <3>10. CASE StartShell
      BY <3>10, <2>8 DEF StartShell, readVars
    <3>11. CASE ReadReturns
      BY <3>11, <2>7 DEF ReadReturns, AllDone, readVars
    <3>12. ASSUME NEW p \in DOMAIN Parts, ListAnswered(p) PROVE ReadsMade'
      <4>1. PICK result \in Results : Answered(p, result)
        BY <3>12 DEF ListAnswered, Results
      <4>2. /\ part[p].step = "sent" /\ call # "releases"
            /\ UNCHANGED <<connection, stage, header, records, releases>>
        BY <3>12 DEF ListAnswered, Unlinked, readVars
      <4> QED BY <2>0, <2>6, <4>1, <4>2 DEF ReadsMade
    <3> QED
      BY <2>3, <3>1, <3>2, <3>3, <3>4, <3>5, <3>6, <3>7, <3>8, <3>9, <3>10, <3>11, <3>12 DEF ReadSteps
  <2>4. CASE UNCHANGED callsVars
    BY <2>4, <2>0, <2>7
    DEF callsVars, sessionVars, readVars
  <2> QED BY <2>1, <2>2, <2>3, <2>4 DEF CallsNext
<1> QED BY <1>1, <1>2, AskedForGood, SessionTypeCorrect, RequestsTakeTheirSteps, PTL DEF CallsSpec

\* Lists that have all been read are in their order.
LEMMA WholeListsStay ==
    ASSUME AskedTypes, \A p \in DOMAIN Parts : part[p].result = "ok"
    PROVE  Succeeded = Parts
<1>1. PICK n \in Nat : DOMAIN Parts = 1..n
  BY PartsAreNumbered
<1>2. Succeeded = Reported(1..n)
  <2>1. {p \in DOMAIN Parts : part[p].result = "ok"} = 1..n
    BY <1>1
  <2> QED BY <2>1 DEF Succeeded
<1>3. Cardinality(1..n) = n
  <2>1. \A a, b \in Int : Cardinality(a..b) = IF a > b THEN 0 ELSE b - a + 1
    BY FS_Interval
  <2>2. Cardinality(1..n) = IF 1 > n THEN 0 ELSE n - 1 + 1
    BY <2>1
  <2> QED BY <2>2
<1>4. \A x \in 1..n : Cardinality({m \in 1..n : m < x}) = x - 1
  <2> SUFFICES ASSUME NEW x \in 1..n PROVE Cardinality({m \in 1..n : m < x}) = x - 1
    OBVIOUS
  <2>1. {m \in 1..n : m < x} = 1..x - 1
    OBVIOUS
  <2>2. \A a, b \in Int : Cardinality(a..b) = IF a > b THEN 0 ELSE b - a + 1
    BY FS_Interval
  <2>3. Cardinality(1..x - 1) = x - 1
    BY <2>2
  <2> QED BY <2>1, <2>3
<1>5. \A i \in 1..n : Ascending(1..n)[i] = i
  <2> SUFFICES ASSUME NEW i \in 1..n PROVE Ascending(1..n)[i] = i
    OBVIOUS
  <2> DEFINE chosen == CHOOSE x \in 1..n : Cardinality({m \in 1..n : m < x}) = i - 1
  <2>1. Ascending(1..n)[i] = chosen
    BY <1>3 DEF Ascending
  <2>2. \E x \in 1..n : Cardinality({m \in 1..n : m < x}) = i - 1
    BY <1>4
  <2>3. chosen \in 1..n /\ Cardinality({m \in 1..n : m < chosen}) = i - 1
    BY <2>2
  <2>4. chosen - 1 = i - 1
    <3> HIDE DEF chosen
    <3> QED BY <1>4, <2>3
  <2> HIDE DEF chosen
  <2> QED BY <2>1, <2>3, <2>4
<1>6. DOMAIN Ascending(1..n) = 1..n
  BY <1>3 DEF Ascending
<1>7. Succeeded = [i \in 1..n |-> Parts[i]]
  BY <1>2, <1>5, <1>6 DEF Reported
<1>8. Parts = [i \in 1..n |-> Parts[i]]
  <2>1. Parts = [i \in DOMAIN Parts |-> Parts[i]]
    <3>1. CASE call \in Writes
      <4>1. Parts = SelectedNames(marked)
        BY <3>1 DEF Parts, Writes, Openings
      <4> QED BY <4>1 DEF SelectedNames
    <3>2. CASE call \notin Writes
      <4>1. Parts \in {Sections, AccessLists, <<>>, <<"only">>}
        BY <3>2 DEF Parts
      <4>2. Sections = [i \in DOMAIN Sections |-> Sections[i]]
        BY DEF Sections
      <4>3. AccessLists = [i \in DOMAIN AccessLists |-> AccessLists[i]]
        BY DEF AccessLists
      <4>4. <<>> = [i \in DOMAIN <<>> |-> <<>>[i]] /\ <<"only">> = [i \in DOMAIN <<"only">> |-> <<"only">>[i]]
        OBVIOUS
      <4> QED BY <4>1, <4>2, <4>3, <4>4
    <3> QED BY <3>1, <3>2
  <2> QED BY <1>1, <2>1
<1> QED BY <1>7, <1>8

\* What is read is handed on as it was: ReadsAreHonest.
THEOREM ReadsHandOnWhatWasThere == CallsSpec => []ReadsAreHonest
<1>1. AskedTypes /\ RequestSteps /\ WaysToReturn /\ ReadsMade => ReadsAreHonest
  <2> SUFFICES ASSUME AskedTypes, RequestSteps, EarlyReturn \/ LateReturn, ReadsMade PROVE ReadsAreHonest
    BY DEF WaysToReturn, ReadsAreHonest
  <2>1. ASSUME LateReturn, call # "snapshot"
        PROVE  /\ outcome.error = Joined(ResultsInOrder) /\ outcome.succeeded = Succeeded
               /\ outcome.error = "ok" => \A p \in DOMAIN Parts : part[p].result = "ok"
    BY <2>1, JoinedOkIsAll DEF LateReturn
  <2>2. ASSUME outcome.error = "ok", call \notin Openings PROVE LateReturn
    BY <2>2 DEF EarlyReturn, EarlyErrors
  <2>3. ASSUME call = "releases", outcome.error = "ok"
        PROVE  /\ {r.release : r \in Range(releases)} = {r.release : r \in Range(records)}
               /\ \A i \in DOMAIN releases :
                    /\ releases[i] \in Range(records)
                    /\ \A r \in Range(records) :
                        r.release = releases[i].release => r.revision <= releases[i].revision
                    /\ \A j \in 1..i - 1 : releases[j].release < releases[i].release
    <3>1. 1 \in DOMAIN Parts /\ call \notin Openings
      BY <2>3 DEF Parts, Writes, Openings
    <3>2. part[1].result = "ok"
      BY <2>1, <2>2, <2>3, <3>1
    <3>3. records \in RecordLists /\ releases = LatestHelmReleases(records)
      BY <2>3, <3>2 DEF ReadsMade
    <3> QED BY <3>3, LatestReleases
  <2>4. ASSUME call = "snapshot", outcome.error = "ok"
        PROVE  /\ Range(outcome.succeeded) \cup Range(outcome.failed) = Range(Sections)
               /\ \A p \in DOMAIN Parts : part[p].result = "ok" => part[p].on >= header
               /\ SectionsAreHonest
    <3> DEFINE done == {p \in DOMAIN Parts : part[p].result = "ok"}
               undone == {p \in DOMAIN Parts : part[p].result # "ok"}
    <3>1. outcome.succeeded = Reported(done) /\ outcome.failed = Reported(undone)
      BY <2>2, <2>4 DEF LateReturn, Openings, Succeeded, Failed
    <3>2. done \subseteq DOMAIN Parts /\ undone \subseteq DOMAIN Parts /\ done \cup undone = DOMAIN Parts
      OBVIOUS
    <3> HIDE DEF done, undone
    <3>3. \A numbers : numbers \subseteq DOMAIN Parts => Range(Reported(numbers)) = {Parts[p] : p \in numbers}
      BY NumbersAreReported
    <3>4. Range(Parts) = {Parts[p] : p \in DOMAIN Parts} /\ Parts = Sections
      BY <2>4 DEF Range, Parts, Writes, Openings
    <3>5. Range(outcome.succeeded) \cup Range(outcome.failed) = Range(Sections)
      BY <3>1, <3>2, <3>3, <3>4
    <3>6. \A p \in DOMAIN Parts : part[p].result = "ok" => header <= part[p].on
      BY <2>4 DEF ReadsMade
    <3> QED BY <3>5, <3>6, SectionsLeaveOutTheLast
  <2>5. ASSUME call = "rbac", ShownLists # <<>> PROVE ShownLists = AccessLists
    <3>1. outcome.error = "ok" /\ ShownLists = outcome.succeeded
      BY <2>5 DEF ShownLists
    <3>2. LateReturn /\ ShownLists = Succeeded /\ \A p \in DOMAIN Parts : part[p].result = "ok"
      BY <2>1, <2>2, <2>5, <3>1 DEF Openings
    <3>3. Parts = AccessLists
      BY <2>5 DEF Parts, Writes, Openings
    <3>4. Succeeded = Parts
      BY <3>2, WholeListsStay
    <3> QED BY <3>2, <3>3, <3>4
  <2> QED BY <2>3, <2>4, <2>5 DEF ReadsAreHonest
<1> QED BY <1>1, AskedForGood, RequestsTakeTheirSteps, CallsReturnInTwoWays, ReadsAreMadeOfAnswers, PTL

-----------------------------------------------------------------------------
(* The types of what a call writes and reads                               *)

\* A workload that is scaled has a version more for each time others wrote it, and one for the scaling.
WriteNumbers ==
    /\ others \in 0..MaxWrites /\ changes \in 0..MaxChanges /\ attempt \in 1..MaxAttempts + 1
    /\ discovery \in {"empty", "with", "without"}
    /\ version \in Nat \ {0} /\ scaleRead \in 0..version
    /\ call = "scale" => \A p \in DOMAIN Parts : version <= 1 + others + applied[Target(p)]
    /\ call # "scale" => version = 1

\* A workload is scaled by one request.
LEMMA ScalingIsOneRequest == ASSUME AskedTypes, call = "scale" PROVE DOMAIN Parts = {1}
<1>1. Parts = SelectedNames(marked) /\ marked \in Selections /\ Cardinality(marked) = 1
  BY DEF Parts, Writes, Openings, Batches, AskedTypes
<1>2. DOMAIN Parts = 1..1
  BY <1>1 DEF SelectedNames
<1> QED BY <1>2

\* The versions of a workload are counted by the writes of it.
THEOREM WritesAreCounted == CallsSpec => []WriteNumbers
<1>1. CallsInit => WriteNumbers
  <2> SUFFICES ASSUME CallsInit PROVE WriteNumbers
    OBVIOUS
  <2>1. /\ others = 0 /\ changes = 0 /\ attempt = 1 /\ version = 1 /\ scaleRead = 0
        /\ discovery \in {"empty", "with", "without"} /\ applied = [row \in Targets |-> 0]
    BY DEF CallsInit, WriteInit
  <2>2. AskedTypes
    BY DEF CallsInit, SessionInit, AskedTypes, Writes, Batches
  <2>3. call = "scale" => \A p \in DOMAIN Parts : Target(p) \in Targets
    BY <2>2, RowsHaveRequests DEF Writes
  <2> QED BY <2>1, <2>3, WriteConstants DEF WriteNumbers
<1>2. AskedTypes /\ AppliedOnce /\ WriteNumbers /\ [CallsNext]_callsVars => WriteNumbers'
  <2> SUFFICES ASSUME AskedTypes, AppliedOnce, WriteNumbers, [CallsNext]_callsVars PROVE WriteNumbers'
    OBVIOUS
  <2>0. call' = call /\ Parts' = Parts /\ \A p : Target(p)' = Target(p)
    BY StepsAskNothing, AskedStays
  <2>5. ASSUME UNCHANGED <<applied, scaleVars>>, changes' \in 0..MaxChanges, attempt' \in 1..MaxAttempts + 1,
               discovery' \in {"empty", "with", "without"}
        PROVE  WriteNumbers'
    BY <2>0, <2>5 DEF WriteNumbers, scaleVars
  <2>6. /\ changes \in 0..MaxChanges /\ attempt \in 1..MaxAttempts + 1
        /\ discovery \in {"empty", "with", "without"} /\ MaxAttempts \in Nat \ {0} /\ MaxChanges \in Nat
        /\ others \in 0..MaxWrites /\ MaxWrites \in Nat /\ version \in Nat \ {0} /\ scaleRead \in 0..version
    BY WriteConstants DEF WriteNumbers
  <2>7. ASSUME UNCHANGED writeVars PROVE WriteNumbers'
    BY <2>5, <2>6, <2>7 DEF writeVars, scaleVars
  <2>8. ASSUME call = "scale" PROVE DOMAIN Parts = {1} /\ applied[Target(1)] \in {0, 1}
    <3>1. DOMAIN Parts = {1}
      BY <2>8, ScalingIsOneRequest
    <3>2. Target(1) \in Targets
      BY <2>8, <3>1, RowsHaveRequests DEF Writes
    <3> QED BY <3>1, <3>2 DEF AppliedOnce
  <2>1. CASE SessionSteps /\ UNCHANGED <<writeVars, readVars>>
    BY <2>1, <2>7
  <2>2. CASE WriteSteps /\ UNCHANGED readVars
    <3>0. Discovered => discovery' \in {"with", "without"}
      BY DEF Discovered
    <3>1. CASE TypeChanges
      BY <3>0, <3>1, <2>5, <2>6 DEF TypeChanges
    <3>2. CASE Discover
      BY <3>0, <3>2, <2>5, <2>6 DEF Discover
    <3>3. CASE Resolve
      BY <3>3, <2>5, <2>6 DEF Resolve
    <3>4. CASE RefuseSecret
      BY <3>4, <2>7 DEF RefuseSecret
    <3>5. CASE OthersWrite
      <4>1. /\ others' = others + 1 /\ version' = version + 1 /\ others < MaxWrites
            /\ UNCHANGED <<applied, scaleRead, attempt, changes, discovery>> /\ call = "scale"
        BY <3>5 DEF OthersWrite, typeVars
      <4>2. \A p \in DOMAIN Parts : version <= 1 + others + applied[Target(p)] /\ applied[Target(p)] \in Nat
        BY <2>8, <4>1 DEF WriteNumbers
      <4>3. \A p \in DOMAIN Parts : version' <= 1 + others' + applied'[Target(p)]
        BY <2>6, <4>1, <4>2
      <4> QED BY <2>0, <2>6, <4>1, <4>3 DEF WriteNumbers
    <3>6. CASE WriteReturns
      BY <3>6, <2>7 DEF WriteReturns
    <3>7. ASSUME NEW p \in DOMAIN Parts, ServeWrite(p) PROVE WriteNumbers'
      <4>1. call # "scale" /\ UNCHANGED <<scaleVars, attempt, changes, discovery>>
        BY <3>7 DEF ServeWrite, typeVars
      <4> QED BY <2>0, <4>1 DEF WriteNumbers, scaleVars
    <3>8. ASSUME NEW p \in DOMAIN Parts, WriteAnswered(p) PROVE WriteNumbers'
      BY <3>8, <2>7 DEF WriteAnswered
    <3>9. ASSUME NEW p \in DOMAIN Parts, ScaleRead(p) PROVE WriteNumbers'
      <4>1. /\ scaleRead' \in {scaleRead, version}
            /\ UNCHANGED <<applied, version, others, attempt, changes, discovery>>
        BY <3>9 DEF ScaleRead, typeVars
      <4> QED BY <2>0, <4>1 DEF WriteNumbers
    <3>10. ASSUME NEW p \in DOMAIN Parts, ScaleUpdated(p) PROVE WriteNumbers'
      <4>1. /\ version' = version + 1 /\ applied' = [applied EXCEPT ![Target(p)] = @ + 1] /\ call = "scale"
            /\ UNCHANGED <<others, scaleRead, attempt, changes, discovery>>
        BY <3>10 DEF ScaleUpdated, Scaling, typeVars
      <4>2. p = 1 /\ DOMAIN Parts = {1} /\ applied[Target(1)] \in {0, 1} /\ Target(1) \in DOMAIN applied
        <5>1. DOMAIN Parts = {1} /\ applied[Target(1)] \in {0, 1}
          BY <2>8, <4>1
        <5>2. Target(1) \in Targets
          BY <4>1, <5>1, RowsHaveRequests DEF Writes
        <5> QED BY <5>1, <5>2 DEF AppliedOnce
      <4>3. applied'[Target(1)] = applied[Target(1)] + 1 /\ version <= 1 + others + applied[Target(1)]
        BY <4>1, <4>2 DEF WriteNumbers
      <4>4. version' <= 1 + others' + applied'[Target(1)]
        BY <2>6, <4>1, <4>2, <4>3
      <4> QED BY <2>0, <2>6, <4>1, <4>2, <4>4 DEF WriteNumbers
    <3>11. ASSUME NEW p \in DOMAIN Parts, ScaleAnswered(p) PROVE WriteNumbers'
      <4>1. /\ \/ scaleRead' = 0 /\ attempt < MaxAttempts /\ attempt' = attempt + 1
               \/ UNCHANGED <<scaleRead, attempt>>
            /\ UNCHANGED <<applied, version, others, changes, discovery>>
        BY <3>11 DEF ScaleAnswered, Retried, typeVars
      <4> QED BY <2>0, <2>6, <4>1 DEF WriteNumbers
    <3> QED
      BY <2>2, <3>1, <3>2, <3>3, <3>4, <3>5, <3>6, <3>7, <3>8, <3>9, <3>10, <3>11 DEF WriteSteps
  <2>3. CASE ReadSteps /\ UNCHANGED writeVars
    BY <2>3, <2>7
  <2>4. CASE UNCHANGED callsVars
    BY <2>4, <2>0, <2>7
    DEF callsVars, sessionVars
  <2> QED BY <2>1, <2>2, <2>3, <2>4 DEF CallsNext
<1> QED BY <1>1, <1>2, AskedForGood, WritesAreAppliedOnce, PTL DEF CallsSpec

\* Whether a type is served is known or not.
TypeFacts == served \in BOOLEAN /\ wasAbsent \in BOOLEAN

\* No step leaves it open.
THEOREM TypesAreServedOrNot == CallsSpec => []TypeFacts
<1>1. CallsInit => TypeFacts
  BY Zenon DEF CallsInit, WriteInit, TypeFacts
<1>2. TypeFacts /\ [CallsNext]_callsVars => TypeFacts'
  <2> SUFFICES ASSUME TypeFacts, [CallsNext]_callsVars PROVE TypeFacts'
    OBVIOUS
  <2>5. ASSUME UNCHANGED <<served, wasAbsent>> PROVE TypeFacts'
    BY <2>5 DEF TypeFacts
  <2>7. ASSUME Discovered, UNCHANGED served PROVE TypeFacts'
    <3>1. \E b \in BOOLEAN : wasAbsent' = b
      BY <2>7, Zenon DEF Discovered
    <3> QED BY <2>7, <3>1 DEF TypeFacts
  <2>1. CASE SessionSteps /\ UNCHANGED <<writeVars, readVars>>
    BY <2>1, <2>5 DEF writeVars, typeVars
  <2>2. CASE WriteSteps /\ UNCHANGED readVars
    <3>1. CASE TypeChanges
      <4>1. CASE served' = ~served /\ wasAbsent' = (wasAbsent \/ ~served')
        BY <4>1, Zenon DEF TypeFacts
      <4>2. CASE UNCHANGED <<served, wasAbsent>>
        BY <2>5, <4>2
      <4>3. CASE Discovered /\ UNCHANGED served
        BY <2>7, <4>3
      <4> QED BY <3>1, <4>1, <4>2, <4>3 DEF TypeChanges
    <3>2. CASE Discover
      BY <3>2, <2>5, <2>7 DEF Discover
    <3>3. CASE Resolve
      BY <3>3, <2>5 DEF Resolve, writeVars, typeVars
    <3>4. CASE RefuseSecret
      BY <3>4, <2>5 DEF RefuseSecret, writeVars, typeVars
    <3>5. CASE OthersWrite
      BY <3>5, <2>5 DEF OthersWrite, writeVars, typeVars
    <3>6. CASE WriteReturns
      BY <3>6, <2>5 DEF WriteReturns, writeVars, typeVars
    <3>7. ASSUME NEW p \in DOMAIN Parts, ServeWrite(p) PROVE TypeFacts'
      BY <3>7, <2>5 DEF ServeWrite, writeVars, typeVars
    <3>8. ASSUME NEW p \in DOMAIN Parts, WriteAnswered(p) PROVE TypeFacts'
      BY <3>8, <2>5 DEF WriteAnswered, writeVars, typeVars
    <3>9. ASSUME NEW p \in DOMAIN Parts, ScaleRead(p) PROVE TypeFacts'
      BY <3>9, <2>5 DEF ScaleRead, writeVars, typeVars
    <3>10. ASSUME NEW p \in DOMAIN Parts, ScaleUpdated(p) PROVE TypeFacts'
      BY <3>10, <2>5 DEF ScaleUpdated, writeVars, typeVars
    <3>11. ASSUME NEW p \in DOMAIN Parts, ScaleAnswered(p) PROVE TypeFacts'
      BY <3>11, <2>5 DEF ScaleAnswered, writeVars, typeVars
    <3> QED
      BY <2>2, <3>1, <3>2, <3>3, <3>4, <3>5, <3>6, <3>7, <3>8, <3>9, <3>10, <3>11 DEF WriteSteps
  <2>3. CASE ReadSteps /\ UNCHANGED writeVars
    BY <2>3, <2>5 DEF writeVars, typeVars
  <2>4. CASE UNCHANGED callsVars
    BY <2>4, <2>5
    DEF callsVars, sessionVars, writeVars, typeVars
  <2> QED BY <2>1, <2>2, <2>3, <2>4 DEF CallsNext
<1> QED BY <1>1, <1>2, PTL DEF CallsSpec

\* What was read has its types.
THEOREM ReadTypeCorrect == CallsSpec => []ReadTypes
<1>1. CallsInit => ReadTypes
  <2> SUFFICES ASSUME CallsInit PROVE ReadTypes
    OBVIOUS
  <2>1. header = 0 /\ records = <<>> /\ releases = <<>>
    BY DEF CallsInit, ReadInit
  <2>2. <<>> \in [1..0 -> Records] /\ 0 \in 0..MaxRecords
    BY ReadConstants
  <2>3. <<>> \in RecordLists
    BY <2>2 DEF RecordLists
  <2>4. Range(releases) = {}
    BY <2>1 DEF Range
  <2> QED BY <2>1, <2>3, <2>4, SessionConstants DEF ReadTypes
<1>2. SessionTypes /\ ReadTypes /\ [CallsNext]_callsVars => ReadTypes'
  <2> SUFFICES ASSUME SessionTypes, ReadTypes, [CallsNext]_callsVars PROVE ReadTypes'
    OBVIOUS
  <2>5. ASSUME UNCHANGED readVars PROVE ReadTypes'
    BY <2>5 DEF ReadTypes, readVars
  <2>1. CASE SessionSteps /\ UNCHANGED <<writeVars, readVars>>
    BY <2>1, <2>5
  <2>2. CASE WriteSteps /\ UNCHANGED readVars
    BY <2>2, <2>5
  <2>3. CASE ReadSteps /\ UNCHANGED writeVars
    <3>1. CASE BeginSnapshot
      BY <3>1 DEF BeginSnapshot, ReadTypes, SessionTypes
    <3>2. CASE SnapshotReturns
      BY <3>2, <2>5 DEF SnapshotReturns
    <3>3. CASE ReleasesAnswered
      <4>1. header' = header
        BY <3>3 DEF ReleasesAnswered
      <4>2. \/ UNCHANGED <<records, releases>>
            \/ records' \in RecordLists /\ releases' \in {releases, LatestHelmReleases(records')}
        BY <3>3 DEF ReleasesAnswered
      <4>3. ASSUME NEW list \in RecordLists PROVE Range(LatestHelmReleases(list)) \subseteq Records
        <5>1. \A i \in DOMAIN LatestHelmReleases(list) : LatestHelmReleases(list)[i] \in Range(list)
          BY LatestReleases
        <5>2. PICK n \in 0..MaxRecords : list \in [1..n -> Records]
          BY DEF RecordLists
        <5> QED BY <5>1, <5>2 DEF Range
      <4>4. Range(releases') \subseteq Records /\ records' \in RecordLists
        BY <4>2, <4>3 DEF ReadTypes
      <4> QED BY <4>1, <4>4 DEF ReadTypes
    <3>4. CASE ValuesAnswered
      BY <3>4, <2>5 DEF ValuesAnswered
    <3>5. CASE DescriptionAnswered
      BY <3>5, <2>5 DEF DescriptionAnswered
    <3>6. CASE ContainersAnswered
      BY <3>6, <2>5 DEF ContainersAnswered
    <3>7. CASE LogsOpened
      BY <3>7, <2>5 DEF LogsOpened
    <3>8. CASE LogsRead
      BY <3>8, <2>5 DEF LogsRead
    <3>9. CASE ObserveResource
      BY <3>9, <2>5 DEF ObserveResource
    <3>10. CASE StartShell
      BY <3>10, <2>5 DEF StartShell
    <3>11. CASE ReadReturns
      BY <3>11, <2>5 DEF ReadReturns
    <3>12. ASSUME NEW p \in DOMAIN Parts, ListAnswered(p) PROVE ReadTypes'
      BY <3>12, <2>5 DEF ListAnswered
    <3> QED
      BY <2>3, <3>1, <3>2, <3>3, <3>4, <3>5, <3>6, <3>7, <3>8, <3>9, <3>10, <3>11, <3>12 DEF ReadSteps
  <2>4. CASE UNCHANGED callsVars
    BY <2>4, <2>5
    DEF callsVars, sessionVars
  <2> QED BY <2>1, <2>2, <2>3, <2>4 DEF CallsNext
<1> QED BY <1>1, <1>2, SessionTypeCorrect, PTL DEF CallsSpec

\* The state of the calls has its types: CallsTypeOK.
THEOREM CallsTypeCorrect == CallsSpec => []CallsTypeOK
<1>1. AskedTypes /\ AppliedOnce /\ WriteNumbers /\ TypeFacts => WriteTypes
  <2> SUFFICES ASSUME AskedTypes, AppliedOnce, WriteNumbers, TypeFacts PROVE WriteTypes
    OBVIOUS
  <2>1. applied \in [Targets -> 0..MaxAttempts]
    BY WriteConstants DEF AppliedOnce
  <2>2. version \in 1..1 + MaxWrites + MaxAttempts
    <3>1. CASE call = "scale"
      <4>1. 1 \in DOMAIN Parts /\ Target(1) \in Targets
        BY <3>1, ScalingIsOneRequest, RowsHaveRequests DEF Writes
      <4>2. applied[Target(1)] \in {0, 1} /\ version <= 1 + others + applied[Target(1)]
        BY <3>1, <4>1 DEF AppliedOnce, WriteNumbers
      <4> QED BY <4>2, WriteConstants DEF WriteNumbers
    <3>2. CASE call # "scale"
      BY <3>2, WriteConstants DEF WriteNumbers
    <3> QED BY <3>1, <3>2
  <2>3. scaleRead \in 0..1 + MaxWrites + MaxAttempts
    BY <2>2, WriteConstants DEF WriteNumbers
  <2>4. served \in BOOLEAN /\ wasAbsent \in BOOLEAN
    BY DEF TypeFacts
  <2> QED BY <2>1, <2>2, <2>3, <2>4 DEF WriteNumbers, WriteTypes
<1>2. CallsTypeOK <=> SessionTypes /\ WriteTypes /\ ReadTypes
  BY DEF CallsTypeOK
<1> QED BY <1>1, <1>2, AskedForGood, SessionTypeCorrect, WritesAreAppliedOnce, WritesAreCounted,
       TypesAreServedOrNot, ReadTypeCorrect, PTL
=============================================================================
