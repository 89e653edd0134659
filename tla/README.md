# Verification of OpsMate

OpsMate is a terminal program for Kubernetes: one bubbletea event loop, a cluster manager that owns
client-go connections, and a dozen kinds of goroutine that outlive the message that started them.
This directory models that concurrent and stateful core in TLA+. Every definition is translated from
the Go source under `internal/`; TLC checks the modules on small instances, and TLAPS proves every
safety property of the passing runs, two refinements among them, for every value of the constants.
Liveness is checked by TLC alone. `PROJECT.json` maps each definition to its lines.

Run a check with `tlc -config LiveSet.cfg MCLiveSet` and a proof with `tlapm LiveSetProofs.tla`.

## 1. Inventory

| Part of the system | State it keeps | Operations | What is hard about it |
| --- | --- | --- | --- |
| Port forwards, `kube/portforward.go` | the registry of sessions; of each a stop flag, an exit error, `ready`, `done`, `exit` | start, list, stop, stop all | four kinds of goroutine per forward, a readiness timer, contexts linked to the connection |
| Live sets, `kube/live.go`, `screen/live.go` | informer store, status and error, a one-token change channel | open, callbacks, read the state, stop | coalesced wake-ups, close of a channel that callbacks send on, errors cleared from three places |
| Pod shells, `kube/shell.go` | input and output channels, pipes, `closeOnce`, dropped lines | send, interrupt, close | five goroutines, full channels, who ended the context first |
| Connection manager and kubeconfig, `kube/manager.go`, `kube/config.go` | clients, their lifetime, the current context | connect, contexts, namespaces, current context | a check of up to 30 s between the read and the write of a file that others write too |
| Scope of the root, `ui/root_access.go`, `root_picker.go`, `root_update.go`, `cluster_context.go` | lists of contexts and namespaces, denial, loading flags, pickers | switch context, choose a namespace, fetch | answers carry no context and arrive in any order |
| Browser: prompts, details, shells, `screen/browser` | dialog state, marks, cursor, prompt and its row, detail, summary, shell session | about thirty keys, nine messages, calls of the root | answers without an owner, a list that changes under the cursor |
| Browser: lists, `browser_live.go`, `browser_events.go` | rows of each type, table, list request, live set of the type on display | fetch, observe, drill down, switch | answers of another type, namespace or connection |
| Logs screen, `screen/logs` | selected pod and container, lines, three request numbers, timers | refresh, select, pause, inspect, drill down | a timer that only an accepted answer starts again |
| Dashboard, `screen/dashboard` | a live set for each section, metrics and their timer, health request | activate, refresh, explain | several sources that end and restart separately; a timer that must not be doubled |
| Helm and custom resources, `screen/helm`, `screen/crds` | two lists each with a request number, the view | fetch, open, back | late answers of a view that was left |
| Analysis panel and service, `ui/analysispanel`, `analysis/` | history, request number, the stream held, loading and streaming flags | ask, close, clear, take an answer | goroutines that send into a bounded channel nobody may read any more |
| Session file and application, `session`, `app` | one JSON file; order of start and exit | load, save, stop everything | crash between temporary file, sync and rename; two programs; a bounded exit |
| Calls of the manager, `kube/` (resources, mutations, pods, inspect, helm, snapshot), `ui/cluster` | the discovery cache of a connection | reads, descriptions, logs, releases, snapshot, deletes, restarts, scales, batches | requests beside each other, lost answers, a connection replaced under a call, partial failure, limits |
| Root: navigation, `ui/root_navigation.go`, `root_palette.go` | the screen on display, the one before, whether a context is being switched | show, go back, drill down, palette, switch | screens are told of a namespace while hidden, and read again when shown |
| Policy of generated commands, environment file | none | pure functions | boundaries |
| Rendering, widgets, themes, projections | none that outlives a key | formatting | none a model checker would reach |

**How they interact.** `RootModel.Update` handles one message at a time. A handler returns commands,
each of which runs in a goroutine of its own and becomes one message; messages of different commands
arrive in any order. The root delivers a message to the screen it names, or, when it names none, to
the screen that is visible when it arrives. The manager is called from commands and is guarded by a
mutex; whatever it opens (a live set, a shell, a forward, a log stream) is linked to the lifetime of
the connection, so that a new connection ends it. Screens hold what was opened through a supervisor
or a session and release it when they are deactivated.

**What makes each part correct** is stated by its properties, section 3; the places where it could go
wrong, each at its line, are the `hazards` of `PROJECT.json`.

## 2. Plan

Done, in this order: `PortForward` with the abstract `ForwardContract`, `LiveSet`, `ShellSession`,
`BrowserDialog`, `ClusterScope`, `LogFollow`, `AnalysisChat`, and `SavedSession` with the abstract
`SessionContract`. Then two compositions: `Screens`, of the browser's lists, the dashboard, helm and
the custom resources under the root, over the frame they share; and `ClusterCalls`, of every call that
the commands make to the manager. Each has an MC module, and its proofs stand in a module of proofs;
the compositions were proved last.

What is left would be, in this order:

1. The safety half of what TLC checks as liveness: that each step of a shell session, and of a call,
   leaves less to do than before it, and that what `RefreshGoesOn` says of the logs has a counterpart
   for the streams of the chat. With that, only the fairness would be left to TLC.
2. The logs screen and the analysis panel under `Screens`, instead of on their own: their calls from
   the root are the same four (activate, deactivate, set the namespace, a drill-down), so the lemmas
   of `ScreensProofs` have a place for them.

## 3. The modules

### PortForward, ForwardContract

Actions are the statements of `StartPortForward`, `awaitPortForwardStart`, `runPortForward`,
`cancelFromContext`, `complete`, `StopPortForward` and `StopAllPortForwards` between two points where
another goroutine can see a difference. `call` and `run` are the program counters of a start and its
runner, `watch` that of the `AfterFunc` callback, `stopPc` that of a stop call. `requestStop` is one
step because `sync.Once` makes it one. `ForwardPorts` of client-go is external: it becomes ready, and
returns with or without an error, at any time, and must return once its stop channel is closed.

`ForwardContract` says what a user of forwards sees: listed only between a successful start and the
end, the port released before it leaves the list, at most one exit, reported afterwards.
`KeepsContract` is the refinement, with `phaseBar` as the mapping of phases.

* `PortForward.cfg`, one forward, a stop call, a stop-all call and a second connection, with fairness:
  `StoppedMeansReleased` (a stop that returned left no port held, even for a session already out of
  the registry), `StopReportsExit` (the error that stop returns is the one the exit carries),
  `KeepsContract`, `RequestedStopIsClean` (a stop that was requested is never reported as a failure);
  starts return, a stopped or orphaned forward ends. Several forwards at once share nothing but the
  registry; what is said of any number of them is proved.

### LiveSet

`reflector`, `handler`, `run` and `pull` are the program counters of the reflector, of the informer's
handler goroutine, of `liveSet.run` and of the pull command of the screen. The cluster is a version
that grows; store and screen each hold one. `recordChange`, `markReady` and `handleWatchError` are
split where their lock is released. External: the reflector lists, watches and fails as client-go
does, and its callbacks have ended when `RunWithContext` returns.

* `LiveSet.cfg`: `NoSendAfterClose`; `QuietMeansCurrent` (no wake-up is lost to the one-token
  channel: when nothing is under way the screen shows the store, or the error); `ChangeIsShown`;
  `StopReleases`.

A denied watch stops the set and records why. `markReady` or `recordChange`, past their check, may
then clear the error, and the screen shows "cluster resource updates stopped" where the repository's
README promises "Not permitted": the module has these steps, and a note of the hazards records them.

### ShellSession

`writer`, `reader[s]` and `run` are the program counters of `writeInput`, of the two `readOutput` and
of `run`; lines are counted. External: the remote stream reads and writes at will and returns once its
context is done. `ShellSession.cfg` has room for one line in each channel, so both overflow:
`CleanExitLosesNothing` (an exit without error lost no line in silence),
`OnlyRealFailures` (a close is no failure and a failure no close), `SessionEnds` (every goroutine ends,
though the screen may read nothing any more).

### BrowserDialog

One action per key and per message that changes the state of the dialogs, and one per call of the
root (`Activate`, `Deactivate`, `SetNamespace`, `SetResourceType`, delivery). The rows are abstract:
at any moment the list may be replaced and leave the cursor on any row of the type, because the cursor
is an index. Requests carry whether their number is still the newest, which is all the code asks of a
number. `keys` is the set of keys that one behaviour uses, one of `Habits`: keys of all kinds meet in
one run, though not all of them in one behaviour, and what belongs together (a prompt and the changes
of scope under it, a shell and the late messages that hide it) is in one habit.

* `BrowserDialog.cfg`: `PromptIsObeyed` (what is mutated is what the prompt showed, wherever the
  cursor went since), `PromptIsSeen` (no key answers a prompt that is not drawn), `SummaryOfContent`,
  `PaneListens`.
* `BrowserStalePrompt.cfg` finds a violation. A prompt drawn for marked rows survives a change of the
  type from another screen, which clears the marks; `y` then acts on the row of an older prompt.

### ClusterScope

`connect` is the step of `Manager.Connect`; `fetches` are the reads of contexts, namespaces and the
current context on their way, in a few slots. `Edit` is another program changing the kubeconfig. A
context of `Restricted` may not list namespaces; one of `Scoped` names a namespace of its own.
`ClusterScope.cfg`: `ConfigNamesConnection`, `DeniedScopeIsLeft`, and `RootKnowsConnection`, which excludes late answers: the
history variable `late` marks an answer that was asked of a replaced connection, which the code cannot
tell from one of the new connection.

### LogFollow

The selected pod and container, the three requests (only the newest of each kind matters, with a step
`newest` or `outdated`), the timers, pause and inspection, and what the root does: namespace changes,
drill-down, leaving and coming back. `LogFollow.cfg`: `RefreshGoesOn` (a pod that is followed has a
timer or an answer to come, unless its lines are denied or `lost` says an answer was dropped),
`LoadingIsAnswered`, `LinesOfSelection` (the lines on the screen are of the pod and container in its
title).

### AnalysisChat

A question is answered by one message or by a stream. `stage`, `queue` and `closed` are the goroutine
of a stream and its channel; `reader` is the command that waits for the next event, and then its
message; `raw` and `history` are the text of the panel, as pieces that name the question they answer.
External: the provider sends, ends and breaks at will, and a request ends with its context.
`AnalysisChat.cfg`: `AnswersItsQuestion`; `FinishedIsWhole` (an answer that ended like a whole one has
every chunk, unless its time was over: then the `select` of `runProviderStream` may drop the failure
and the end of the channel looks like the end of the answer); `LoadingEnds`, `StreamsEnd`.

### SavedSession, SessionContract

`pc` says where each program stands: in its start, running, in one of the calls of a save
(`prepareSessionDirectory`, `OpenFile`, `Write`, `Sync`, `Close`, `Rename`, `syncSessionDirectory`),
or in its exit. A file is a number; `at` and `disk` are what `state.json` names in memory and on disk.
Any call may fail, a program may be killed (`Kill`) and the machine may stop (`PowerLoss`) between any
two. External: the file system writes contents and names back when it likes, a synced file and a
synced directory survive, and a file that was not synced survives whole or in part. The encoded state
is a namespace and a view; what does not decode is `Torn`.

`SessionContract` says what whoever starts the program may rely on: nothing, or one whole state, and
after a crash that of an earlier moment.

* `SavedSession.cfg`, two programs on one directory: `SessionIsWhole` (the refinement),
  `SavedSurvives`, `SuccessMeansSaved` (a program that exits with success has
  its last state in a file that reached the disk, whatever the other one did since).

Three limits of the code show in the module. The entry of a new directory is never synced in its
parent: `lost` marks a crash that takes the directory away, and `SavedSurvives` excludes it. A save of
another program between the `Lstat` and the `Open` of a start is taken for an unsafe path
(`FindReplaced`) and the start fails. On Windows the directory is not synced at all; the module is that
of Unix. Whether a temporary file is still there is not modelled: a program that was killed, or that
could not remove the file of a failed save, leaves it for good, and no program looks at it again.

### Screens, ScreenFrame, BrowserLists, Dashboard, HelmReleases, CustomResources

`ScreenFrame` holds what the root knows (the screen on display, the namespace, the connection, whether
a context is being switched) and what a request is: a number that is `newest` or `outdated`, what it
asks about, and `reads`, the contexts it may be answered from, since the connection can be replaced
under it. Each screen is a record in a module of its own: an operator for every call of the root
(`ActivatedBrowsers`, `RenamedDashboard`, ...) and an action for every message and key of its own.
`Screens` composes them as the root does: `TransitionTo`, `DrillDown`, `Palette`, `SwitchNamespace`,
`SelectContext`, `Connect`, `ContextSwitched`. A row is the scope it was read from, so that a row of
another scope can be told apart. A live set is the scope it watches; its snapshots, its denial and its
end are the steps that `LiveSet` shows it to take.

`Tours` bounds the screens of one behaviour. One screen and "elsewhere" are enough: a screen is
touched by its own messages and by the root, and the root does the same to it whichever other screen
is on display.

* `Screens.cfg`: `ShownIsFed` (what says that it is loading has an answer or a live set to come),
  `ShownIsCurrent` (what is shown as loaded is of the cluster and namespace in its title),
  `HeldIsCurrent` (hidden screens, which the search and the analysis read, hold nothing of another
  scope), `OnlyShownWatches` (a live set is open only for what is on display), `OneTimer`.
* `ScreensDenied.cfg` finds a violation. The repository's README.md:47 promises a notice in place of
  data that may not be read; after a switch to a namespace whose list is denied, the table keeps the
  rows of the namespace that was left.

Three ways out of these properties are in the code, are marked by history variables (`sought`, and
`early` and `former` of `left`), and are notes of the hazards: a drill-down to the browser on display
changes its type and loads nothing; esc from the instances of a definition does not load the list
again; and the result of a change that arrives during a switch of the context starts a live set on a
browser that was deactivated.

### ClusterCalls, ClientSessions, ResourceWrites, ResourceReads

One call of a command to the manager, from `clientSession` to the message. `ClientSessions` has the
connection, the context of the call (`ended`, by its time limit if it has one or, where `linkedContext`
is used, by a new connection), and its requests: `part` is one record for each, in the order of the code.
`ResourceWrites` adds the mapping of types with the discovery cache, deletes and restarts, batches,
and the scale with its retries; `ResourceReads` the lists, descriptions, logs, releases, values and
the snapshot; `observe` and `shell` return before they send anything. The cluster does what is asked
(`applied`) and answers in two steps, so an answer may be lost on its way. Marked rows have a place,
the kind and namespace, and a name: `RefuseSelection` and `Target` are `selectedBatchIdentity`.

* `ClusterCalls.cfg`: `OutcomeIsTrue` (what a write reports is what it did to each row: once, in
  order, and nothing that was not marked), `NoMatchIsFresh` (a type is called missing only if it was
  missing during the call, or its group did not answer a discovery made during the call), `ReadsAreHonest` (the latest record of each release; a snapshot with a
  section or a warning for each kind, none older than its head, and limits that leave out the last;
  access rules shown when whole), `CallsReturn`.

`CallsReturn` says that a call with a limit of time returns, and any linked call whose connection was
replaced. The two reads of releases have no limit (`Untimed`): `ListReleases` and `GetValues` of
`ui/cluster/cluster_helm.go` pass the context of the program without a timeout, where every other
command that sends a request sets one, and none is set for the REST client. While the API server is
silent and the connection stays, they never return. The module has these behaviours, no property
forbids them, and a note of the hazards records them.

The order and limits of a snapshot are an operator, `Projections`, which `ReadsAreHonest` compares
with what a section should show for every short list of objects. A snapshot whose connection is
replaced while it is collected has sections of a later cluster than its head: the module has these
behaviours, and the property asks only that none is of an earlier one.

## 4. Bounds

| Run | Bounds | Why they are enough |
| --- | --- | --- |
| `port_forward` | 1 forward, 2 callers, 2 connections | each way of ending a forward, both stop functions, one replacement; proved for any number |
| `live_set` | `MaxVersion` 2, `MaxFailures` 1 | one change beyond the first list collapses with it; an error may precede and follow success |
| `shell_session` | 2 lines per stream, 2 sends, channels of 1 | each channel fills, overflows and drains |
| `browser_dialog`, `browser_stale_prompt` | 2 pods, 1 workload, 1 answer and 1 summary late, 2 shells, nine habits | two rows for a cursor or mark to be wrong, an answer to overtake, two sessions to be confused; pods are alike (symmetry) |
| `cluster_scope` | 2 contexts, 3 fetches, 2 connections, 1 edit | one of each kind of fetch, or two of one; the connections that would come later fail, as they may anyway |
| `log_follow` | 2 pods of one name in 2 namespaces, 2 containers, 2 timers | a list that changes the namespace of a name or the container under a request; a second chain of timers |
| `analysis_chat` | 2 questions, 2 chunks, channel of 1 | an old stream beside a new one; the channel is full while a chunk is in hand |
| `saved_session` | 2 programs, 2 files, 2 views | a save beside a save, a start beside a save, a second save over the first; a crash at every point |
| `screens`, `screens_denied` | 2 contexts, 2 namespaces, 2 observed types and 1 fetched, 2 sections, 2 releases, tours of one screen | one scope on display and one that was left; a type to change to that is watched or is not; scopes are alike (symmetry) |
| `cluster_calls` | 2 connections, 3 names with 2 at once, 4 selections, 3 attempts, 3 writes of others, 2 changes of types, 3 records, 2 items in a section | a name waits for another; a connection is replaced once; each attempt can meet a conflict; a list is longer than its limit |

A bound is a conjunct of the action it stops (`MaxGeneration`, `MaxConnections`, `MaxVersion`,
`MaxTicks`, ...); where nothing can go on once bounds are reached, or a session has ended for good,
the configuration says `CHECK_DEADLOCK FALSE` (a call that has returned is at its end, too); the others
are checked for deadlock. The proofs have no bounds: the constants are any values that meet the named assumptions.

## 5. Fairness

Weak fairness, and only of what the runtime does by itself: a goroutine that can take its next step
takes it; a timer that runs expires; a message that is queued is handled; client-go returns once its
stop channel is closed or its context is done. `LiveSet` adds that the reflector, which retries by
itself, connects once the `MaxFailures` failures are behind it: `ChangeIsShown` needs an API server
that answers in the end. Nothing is assumed of the user, of the provider, of other programs, or of
the order of messages. `LoadingEnds` and `StreamsEnd` say that rest is reached again and again; they
need no more than that the time limit of a request passes. `ClusterCalls` assumes of the API server
nothing at all: `CallsReturn` follows from goroutines that run (that of `linkedContext` among them),
timers that expire for the calls that have one, and a discovery that gives up after its own time limit. `ShellSession` and `ClusterCalls`
need no fairness between goroutines, only that some step goes on while one can: each goroutine has only
so much to do. The runs `browser_dialog`, `cluster_scope`, `log_follow`, `saved_session` and `screens`
check safety only: what must go on there is stated as an invariant that a
step to come is under way (`ShownIsFed`, `RefreshGoesOn`); a save is a sequence of calls that return.

## 6. Proofs

The assumptions are those of the modules: bounds are naturals, capacities positive, the special values
are not in the sets they are added to. No property is assumed.

* `PortForwardProofs`: the inductive invariant is `TypeOK` with `RegistryInv` (a runner that may hold
  a port is in the registry, or its failed start has told it to stop), `ContextInv`, `ExitInv` and
  `StopInv` (a stop call tracks every target that may hold a port). The safety properties follow from
  it, `StopReportsExit` as an action property, and `KeepsForwardContract` step by step.
  `RequestedStopIsClean`, which speaks of all that follows a request, is proved from a predicate that
  no step ends (`StaysClean`).
* `LiveSetProofs`: `ShutdownInv` orders the end of informer, handler and run; `WakeInv` says where
  the wake-up for a change that is not shown yet stands, `token`, `pull` or a callback.
* `PodStreamProofs`, of the two streams a pod has on the screen. `ShellSession`: `RunOrder` ties each
  step of `run` to what has ended; `Accounting` adds up every line that was written. `LogFollow`: a
  screen that is not shown asks nothing, and an answer that is newest has not been lost; with them
  each of the four invariants.
* `BrowserDialogProofs`: `PromptIsSeen`, `InactiveHoldsNoShell`, `SummaryOfContent` and `PaneListens`
  are strengthened until inductive; `PromptIsObeyed` from what a waiting prompt stands for.
* `AnalysisChatProofs`: questions not asked yet have touched nothing (`Fresh`), a question has a
  message or a stream and not both (`OnceOnly`), and the question whose answer is awaited is the
  latest of the history (`Awaited`); from these `StreamIsHeld` and `AnswersItsQuestion`.
  `FinishedIsWhole` needs to know where every chunk is: a channel is closed at the end of its stream
  and that is read last (`Closing`); of the stream that is held, what was sent is written, in the
  channel or in the message on its way, unless a failure follows it there (`Lossless`); an end that the
  panel took left nothing under way (`FinishedEnded`); and each question has one entry, so that no
  later one rewrites it (`Ordered`).
* `SavedSessionProofs`: temporary files are never shared (`FilesApart`), `state.json` only names files
  synced before (`NamesAreWhole`), and renames are numbered in order (`OrderKept`); from these the
  three invariants and, step by step, the contract (`SessionKept`).
* `ManagerProofs`, of the cluster manager. `ClusterScope`: an order on the steps of `Connect`, that
  answers tell the truth about the connection they were asked of, and `KnowsUnlessReplaced`, the form
  of `RootKnowsConnection` that holds in states that are not quiet. `ClusterCalls`: what was asked
  stays what it was (`AskedTypes`); a request has a result exactly when it is done, and none is under
  way when its call returned (`RequestSteps`); what the cluster did of a request follows from its step
  and its result (`AppliedOnce`); a type called missing after the cache was dropped was missing, or
  missed by a discovery, during this call (`AbsenceSeen`); a call returns before its requests or after all of them
  (`WaysToReturn`). From these `OutcomeIsTrue` and `NoMatchIsFresh`. `ReadsAreHonest` needs `ReadsMade`
  (no list of a snapshot is of a connection before that of its head, and the releases are made of
  the records returned), and lemmas on what the operators compute: the latest revision of a release,
  the order and the limits of a section. Where those would need an induction, the least number with a
  property (`LeastNumber`, from the theorem that the naturals are well founded) takes its place.
* `ScreensProofs`: the root changes a screen in several calls, between which its own state is half
  old. The invariants are therefore predicates on the record of a screen, the screen on display, how
  far a switch of the context is, and the scope (TLC found them to hold on the instance of
  `Screens.cfg` before they were proved): what a screen keeps while hidden (`BrowserKeeps`,
  `DashboardKeeps`), what it watches (`BrowserWatches`, `DashboardWatches`) and what it shows
  (`BrowserShows`, `HelmShows`, ...). Each call of the root and each message is a lemma about any
  record, and every step of the root is one of a few compositions of calls (`RootStepsAre`). Between
  `Connect` and the message that tells the root of it, what was read may be of either connection: there the
  invariants ask only what survives it, and `ContextSwitched`, which renames and activates, restores
  the rest. `OneTimer` is inductive once a pending tick and the timer are tied together (`Timed`).

Each module also has its type invariant, proved part by part (`TypeCorrect`, `ShellTypeCorrect`,
`CallsTypeCorrect`, `TypesHold`); the type invariants are no property of the runs, since the theorems
cover every instance.

The modules of the screens assume that the special value `Nothing` is no request, no scope and no
context: a record of a request is never nil in the code, and TLA+ does not say by itself that a record
differs from a constant.

Proved and not checked by a run any more, since the proof covers every instance: `FailedStartLeavesNothing`
(a failed start leaves no session, context or runner without a stop request), `OneLiveConnection`
(every older connection was canceled), `LostToLists` (an answer of the logs is lost only to a list that
changed the selection), `StreamIsHeld` (every stream that runs is one the panel can cancel) and
`CallsReturnOnce` (a call that returned changes neither its outcome nor, by a late answer, what it made of it).

Only model-checked, because liveness under fairness is out of the prover's reach: `StartReturns`,
`RequestedStopEnds`, `ReplacedConnectionEnds`, `ChangeIsShown`, `StopReleases`, `SessionEnds`,
`LoadingEnds`, `StreamsEnd` and `CallsReturn`. `BrowserStalePrompt.cfg` and `ScreensDenied.cfg` show
violations.

## 7. What is not modelled

* Rendering, widgets, tables, the projections of API objects, prompts and formatting: pure functions
  of a state, with no step that anything could interleave with.
* The policy of generated commands, the arguments and the environment file: one sequential pass over
  text. What they decide is tables of words, which a model would only repeat.
* The list of port forwards in the root, and the search over the rows of all screens: they read what
  the modules keep, and change nothing of it.
* Client-go, the API server, the provider and the terminal: external. What the code takes from them
  is modelled as nondeterministic steps, named above.
* In `LiveSet`, `ReadItems` always decodes: `liveSet.State` also ends with an error when an object of the
  store has no key or another type than the set's, which the informer of that type does not put there.
* Within the modelled parts: the search of the pickers, the filter and the explanation of log lines,
  text selection, focus and scrolling, and the wording of notices. They read the modelled state and
  do not change it.
* A few behaviours of the code that no property calls wrong are modelled and recorded as notes of
  their hazards: several chains of log timers, a session of a shell that a late message hides and the
  next one overwrites, the partial answer of a stream that failed after its first chunk, a summary
  flag that stays set when the cursor moves, the pods of the previous namespace.
