# A TLA+ model of js-debug

This directory holds TLA+ models of the JavaScript debugger in `src/`, the
configurations that check them with TLC, and proofs that TLAPS checks. The
program is a debug adapter: it sits between an editor, which speaks the Debug
Adapter Protocol (DAP), and V8, which speaks the Chrome DevTools Protocol (CDP).
It is one JavaScript process, so nothing runs in parallel; but nearly every
operation is an `async` function, and between any two of its awaits other DAP
requests, CDP events and answers run. Almost everything that is hard in this
code comes from there, and it is what the models are about.

Paths below are relative to `src/src/`.

## 1. Inventory

    editor --DAP--> dap/connection -> DebugAdapter -> BreakpointManager -> Breakpoint --+
                                          |   \-> ExceptionPauseService ----------------+-> CDPSession -> V8
                                          |   \-> ScriptSkipper ------------------------+
                                          +-> Thread (pause, step, scripts, console) ---+
    Binder: targets of the launchers <-> debug sessions of the editor

| Component | State it keeps | Operations | Where it is hard | What makes it correct |
|---|---|---|---|---|
| **Breakpoint** `adapter/breakpoints/breakpointBase.ts` and its subclasses | `isEnabled`, `cdpBreakpoints` (pending and applied references with deadletter bits), UI locations | `enable`, `disable`, `updateForNewLocations`, `executionContextWasCleared`, answers of CDP | set requests in flight when disabled; source maps that arrive late; reloads | what lives in V8 is owned by the list; nothing leaks after disable; no place is set twice |
| **BreakpointManager** `adapter/breakpoints.ts` | `_byPath`, `_byRef`, `_byDapId`, the running total, the source map handler, the enabled filter, entry breakpoints | `setBreakpoints`, `setThread`, `applyEnabledFilter`, `reapply`, `moveBreakpoints`, `launchBlocker`, `updateEntryBreakpointMode` | three awaits inside `setBreakpoints`; two requests for one source; profile filters | removed breakpoints stay removed, listed ones are enabled, the handler is there when needed |
| **CDP connection** `cdp/connection.ts` | sessions, disposed sessions, callbacks by id, the queue of a paused session | `send`, `_onMessage`, `pause`/`resume`, `createSession`, `disposeSession`, `close` | answers that arrive while paused, after disposal, after close | every request settles, events keep their order, none is lost |
| **Binder** `binder.ts` | the tree of targets, their states, one thread per target, pending ends | `attach`, `_attachToNewTargets`, `_terminateTarget`, `_disconnectTarget`, `_markTargetAsTerminated`, restart | targets that vanish while being attached, terminate and disconnect racing | every session ends, children before parents, none twice |
| **ExceptionPauseService** `adapter/exceptionPauseService.ts` | pause state, the blocker of the launch, the CDP session | `setBreakpoints`, `apply`, `shouldPauseAt` | configuration before the target, after it, or both | the launch is let through, V8 has the last state asked for |
| **BreakpointsPredictor** `adapter/breakpointPredictor.ts` | predicted locations by path, search in progress | `predictBreakpoints`, `predictedResolvedLocations` | two requests for one file at a time | a request resolves when its locations are known |
| **ScriptSkipper** `adapter/scriptSkipper/implementation.ts` | skipped URLs, scripts with skipped ranges, regexes | `initializeSkippingValueForSource`, `toggleSkippingFile`, `setIsUrlBlackboxSkipped` | ranges computed over awaits, several targets, source maps loading | a toggle is undone by the next |
| **Thread** `adapter/threads.ts` | paused details, execution contexts, script maps, expected pause reason, console queue, debuggerReady | `pause`, `resume`, steps, `evaluate`, `_onPaused`, `_executionContextsCleared`, `setScriptSourceMapHandler` | paused event processed with awaits while the user resumes | stopped and continued events alternate as V8 does |
| **SourceContainer** `adapter/sourceContainer.ts`, `source.ts` | sources by reference, path and URL; source maps being loaded | `addSource`, `removeSource`, `_addSourceMapSources`, `clear` | a compiled source removed while its map loads; files that several bundles share; a reloaded or hot-updated URL | one source per file, links that agree on both sides, nothing left of a context |
| **Console** `adapter/console/*` | reservation queue, whether the console is dirty | `enqueue`, `dispatch` | messages that resolve asynchronously | output in order, all of it before the thread exits |
| **ShutdownParticipants** `ui/shutdownParticipants.ts` | participants by stage, the stage of the shutdown | `register`, `shutdownContext`, `shutdownAll` | registrations during shutdown, participants that reject | contexts and threads go only after what they still have to say |
| **DebugAdapter** `adapter/debugAdapter.ts` | the configuration-done latch, the thread, the skipper | `configurationDone`, `launchBlocker`, DAP handlers | requests before there is a thread | nothing runs before its breakpoints |
| **Cancellation, promises** `common/cancellation.ts`, `promiseUtil.ts` | tokens, deferreds, timeouts | `cancel`, `Cancellers`, `timeoutPromise` | late cancel | listeners fire once |
| **DAP connection** `dap/connection.ts`, `transport.ts` | sequence numbers, pending requests | request, response, event | unknown commands, answers after stop | each request has one answer |
| **SessionManager** `sessionManager.ts`, `serverSessionManager.ts`, `flatSessionLauncher.ts` | sessions by id, pending target ids | `createNewRootSession`, `getOrLaunchSession`, `terminate` | a child connects before or after it is expected | one session per target |
| **SmartStepper** `adapter/smartStepping.ts` | step direction, counts | `getSmartStepDirection`, `resetSmartStepCount` | long runs of steps | stops where there is source, gives up after a bound |
| **CdpProxy** `adapter/cdpProxy.ts` | replayed domain events, subscriptions, clients | `proxy`, `subscribe`, replays | domains disabled by one client of several | each client sees what it enabled |
| **ProfileController** `adapter/profileController.ts`, `adapter/profiling` | the profile in progress | `startProfile`, `stopProfiling` | a profile that ends itself | breakpoints come back |
| **VariableStore** `adapter/variableStore.ts`, `objectPreview`, `templates` | objects by reference | `getVariables`, `setVariable` | cleared on resume | references of another pause are refused |
| **StackTrace** `adapter/stackTrace.ts` | frames, async parents | `loadFrames` | lazy loading | frame ids unique |
| **Evaluator, completions** `adapter/evaluator.ts`, `completions.ts` | hoisted return values | `evaluate`, `prepare` | - | - |
| **Node targets** `targets/node/*` | the run and its server, the program, connections, restart policy, watchdogs, lease files | `launch`, `attach`, `restart`, `stop`, `terminate` | crash, restart and terminate crossing each other, a delay before a relaunch, processes that cannot be killed | one program at a time, its end ends the run or starts the next |
| **Browser targets** `targets/browser/*` | attached targets, service workers, frames | `attachedToTarget`, `_detachedFromTarget`, `terminate` | attach answered after detach | the last page gone ends the session |
| **Source maps** `common/sourceMaps/*`, `common/positions.ts` | cached maps | `loadSourceMap`, position lookups | conversion between bases | round trips |
| **Utilities** `common/*` | events, disposables, hashes, URL and path functions | - | listener errors | - |
| **Extension UI** `ui/*`, `extension.ts`, `configuration.ts` | editor state, settings | commands, pickers, configuration resolvers | - | - |
| **Hosts** `debugServer.ts`, `dapDebugServer.ts`, `vsDebugServer.ts`, `ioc.ts` | wiring of the above | start, stop | - | - |
| **DWARF** `adapter/dwarf/*` | wasm symbol worker | symbol lookups | - | - |
| **Telemetry, build, diagnostics** `telemetry/*`, `build/*`, `diagnosticTool/*`, `statistics/*` | counters, generated code, a web page | reports | - | - |

## 2. How the models are made

An `async` function becomes one action for each stretch between two awaits; what
it remembers across an await is a variable. An await whose outcome depends on
code that is modelled (an answer of CDP, a state of another node, a promise that
another action resolves) is a guard; one that depends on something else (the
predictor, a source map, the editor) may end at any later time. Continuations
that run in the same task as what settled their promise are kept ahead of
everything else where a property depends on it (`Continuation` and `Runnable` in
BreakpointManager, `MicrotaskPending` in ThreadPause).

| Module | Models | Code |
|---|---|---|
| `Breakpoint` | one breakpoint and the requests it makes of V8 | `adapter/breakpoints/breakpointBase.ts`, contexts cleared in `adapter/threads.ts` |
| `BreakpointProps` | its properties | |
| `BreakpointProofs` | their proofs | |
| `BreakpointManager` | the lists of breakpoints of a session | `adapter/breakpoints.ts`, `setScriptSourceMapHandler` of `adapter/threads.ts`, the filter of `adapter/profileController.ts` |
| `BreakpointManagerProps` | its properties | |
| `BreakpointManagerProofs` | their proofs | |
| `SessionLifecycle` | abstract: the phases of a tree of sessions | what `binder.ts` says of the order of loading and unloading |
| `SessionTree` | the binder | `binder.ts` |
| `SessionTreeProps` | its properties, with the mapping to `SessionLifecycle` | |
| `SessionTreeProofs` | the proof that it implements `SessionLifecycle` | |
| `CdpChannel` | abstract: an ordered channel for each session | what users of `cdp/connection.ts` rely on |
| `CdpSession` | connection and sessions | `cdp/connection.ts` |
| `CdpSessionProps` | its properties, with the mapping to `CdpChannel` | |
| `CdpSessionProofs` | the proofs of its invariants, and that it implements `CdpChannel` | |
| `ThreadPause` | how a thread stops and goes on | `adapter/threads.ts` |
| `ThreadPauseProps` | its properties | |
| `ThreadPauseProofs` | their proofs | |
| `NodeLauncher` | a run of a Node program and its restarts | `targets/node/nodeLauncherBase.ts`, `nodeLauncher.ts`, `program.ts`, `restartPolicy.ts` |
| `SessionOutput` | what a session prints and how it ends | `adapter/console/*`, `ui/shutdownParticipants.ts`, console profiles of `adapter/profileController.ts`, contexts and disposal in `adapter/threads.ts`, closing in `dap/connection.ts` |
| `SourceContainer` | the sources a session knows | `adapter/sourceContainer.ts`, `adapter/source.ts`, `_onScriptParsed` and `ExecutionContext` of `adapter/threads.ts` |
| `ScriptSkipper` | which files are skipped | `adapter/scriptSkipper/implementation.ts` |
| `NodeLauncherProps`, `SessionOutputProps`, `SourceContainerProps`, `ScriptSkipperProps` | their properties | |
| `NodeLauncherProofs`, `SessionOutputProofs`, `SourceContainerProofs` | the proofs of the first three | |
| `MC*` | the instances TLC checks | |

The modules do not share variables; where one component uses another, the user
has the interface of the other as an external step. `BreakpointManager` turns
`isEnabled` of a breakpoint at once and lets `enable()` end at any later time,
which is what `Breakpoint` does in detail; `Breakpoint` and `SessionTree` speak
CDP as `CdpChannel` offers it. `NodeLauncher` is one of the launchers of
`SessionTree`: its connections are the targets which that module has listed, and its
`run` the launcher that is over in the end. `SessionOutput` is what `SessionTree`
awaits as `thread.dispose()`, and the removal of scripts in `SessionOutput` is
`ScriptsRemoved` of `SourceContainer`. An operator whose comment starts with *Mutant* is
a variant of the operation after it with a bug that could have been written. In
its place TLC finds the property violated that `PROJECT.json` names beside it:
this is how we know that each property depends on the code.

### Breakpoint

`cdpBreakpoints` is a list of references. The model has a pool `Refs` of
identities; `status`, `args`, `listed` and `deadletter` hold what the code keeps in
the objects of the list, and `runtime` what V8 has made of each. `Enable`,
`SetNext`, `SetSiblings` and `EnableDone` are `enable()` between its awaits,
`Disable` is `disable()`, `UpdateForNewLocations` is the arrival of a source map,
`SetFailed`, `SetApplied` and `Removed` are the continuations of `_setAny` and
`removeCdpBreakpoint`. `HasSetOnLocationByUrl` is translated with the precedence
of `&&` over `?:` as JavaScript has it, not as its layout suggests.

### BreakpointManager

A breakpoint is the request that made it and its place. Each `setBreakpoints`
request has a program counter over the awaits of the function (entry breakpoint,
predictor, `debuggerReady`, disabling what was removed, enabling what is new);
`Merge` is the synchronous part between them. The source map handler is
installed with a promise of its own (`entryBpSet`) whose three steps are
`SetInstrumentation`, `InstrumentationSet` and `HandlerKept`. `StartProfile` and
`StopProfile` change the filter; `Reapply` and `ReapplyEnables` are `reapply()`
before and after its await.

### SessionTree

`known` is `TreeNode.targetNodes`, `tree` the sets of children, `state` the four
states of a node. `attach`, `mark`, `terminate` and `disconnect` say how far the
asynchronous functions of that name are for each node and which children they
await: `waitUntilChildrenAre` collects the children when it is called, and so does
`AwaitChildren`. `targetList`, `leaving` and `launcher` belong to the launchers, which
may list new targets until they have stopped. `late` is a history variable: the
targets that were listed when the disconnect request of the root had collected its
children. A launcher whose `terminate()` is rejected is not modelled.

### CdpSession

`sessions` unites `_sessions` and `_disposedSessions`; `queue`, `callbacks` and
`paused` are the fields of each session; `tasks` are the functions given to
`waitWrapper`, each of which takes one message off the queue of its session.
`needsReordering` is chosen in `Init` and never changes. `CdpChannel` has one
sequence of messages for a session and knows nothing of queues and tasks; the
mapping concatenates the queue of a session with what is in transit for it.

### ThreadPause

`ops` is the `StateQueue`: the operation that runs and those chained to it, each
with the pauses that its callers want to leave. `flushing` are calls of `enqueue`
that wait for a task because their operation is already last in the queue.
`handler[k]` is how far `_onPaused` has come for the k-th pause; the pause number
stands for the identity of `_pausedDetails`. `wire` are messages of V8 that the
adapter has not read. What V8 does is external: it pauses when it likes and obeys
commands in order, the response before the event. `stepOver` stands for every kind
of step.

### NodeLauncher

A program is numbered as its launch begins: `stage` is how far `launchProgram` has
come with it, `life` and `conn` what its process and its connection do, and `pid`
what is known of the process: a child of the debugger, or in a terminal its own
process, its shell, or nothing until its bootloader reports. A child process that
cannot be created is a program all the same (`life` is "failing"), until its error
event rejects `stopped` (`SpawnError`); a launch that is rejected itself is
`LaunchFails`. `asked` is `killed` of a
subprocess and `didStop` of a terminal; `stopped` is the promise. The handler of
`program.stopped` (`WhenStopped`) compares the program with `this.program` and runs
in the step in which the promise settles. `restart[c]` is how far a restart request
has come, with the connections it waits for; `RestartLaunches` covers both ends of
`Promise.race`. Requests come at any time; whether one came early, while a launch or
(for a restart) another restart was in progress, is kept with it as history, which no
action reads.

### SessionOutput

`q` is the queue of the console and `value` the value of each reservation; `Emit` is
`process()` up to its next await. `registered` is the set of participants.
`clears[g]` and `shutdown` are the functions that await participants, each with
those it still waits for; `Settled` and `Rejected` are `Promise.all`. `page`
counts the times the contexts were cleared, and `origin` says from which page a
message came: its locations are looked up in the scripts of that page.

### SourceContainer

The source of a script is `<<script, self>>`; one that a map names is
`<<script, url>>`, by the script whose map created it. `container` holds the four
maps that matter (`byRef`, `byUrl`, `byMapUrl` and the links `sourceByUrl` and
`compiledTo`) in one record, because `removeSource` and `addSource` call each other:
they are operators from one record to the next, and an action applies them
between two awaits. `RemoveSource` forgets a source and, if a script is gone, every
file that was compiled to nothing else (`Unlink`, `RemoveSourceMapSources`). The
calls of `removeSource` for these files change only what belongs to the file, so
that they are one step for the set of them; those for the scripts of a context,
whose maps may share files, are the recursive function `RemoveSourcesOf`, one
script after the other. References are modelled as what `getSourceReference`
computes: a number fixed by the URL, or the first free one after it.

### ScriptSkipper

`updates` are the computations of skipped ranges under way, each at the file whose
location it awaits; `blackboxed` is what the runtime was told last.
`authoredGlobs` is the set of URLs the globs match.

## 3. Runs

| Run | Instance | What it shows |
|---|---|---|
| `breakpoint` | 2 references, 1 `enable()` at a time, 2 scripts of one URL (one renamed), 1 position, with fairness; 195,308 states | nothing set by URL leaks, nothing is set twice, nothing is forgotten, a disabled breakpoint is gone from V8 in the end |
| `manager` | 3 requests, 2 sources, 1 place, 3 installations of the handler, 1 crash; 755,220 states | nothing removed is enabled, except by `reapply()`; all that is listed ends up enabled; the handler is there exactly when needed |
| `tree` | a process and its worker, which cannot be stopped; attaching may fail; launchers list targets while they stop; with fairness; 80,044 states | implements `SessionLifecycle`; every session ends and each disconnect request is answered, unless a target could not be attached |
| `cdp` | the root session and one attached, 2 requests, 2 events each, with fairness; 133,314 states | implements `CdpChannel`; every request is settled, every event heard, no queue is left standing |
| `pause` | 3 pauses, 3 requests of the editor, with fairness; 214,001 states | no pause is skipped by a command meant for an earlier one, each is handled, the editor ends up right, every request is answered |
| `launcher` | one relaunch after a crash, one restart request, terminate, subprocesses and terminals that do not know their process, launches that fail, processes that cannot be created, with fairness; 2,830,096 states | one program at a time; nothing of the run is left when it is over; a restart begins afresh; but for what early requests leave; every end of a program leads on, every request is answered or rejected |
| `output` | 3 messages, 1 profile which may fail to be saved, 2 reloads, with fairness; 148,414 states | messages in order, all of them before the thread exits and before their scripts go; the thread exits, unless a save failed |
| `sources` | 3 scripts of 2 contexts at a page and a hot update, maps that name one file, with fairness; 409,420 states | one source per file, links that agree on both sides, nothing left of destroyed contexts, every wait for a map ends |
| `launcher_terminate` | a terminate request, no restart and no relaunch | finding: a program starts after it was terminated |
| `output_failed_save` | 1 message, 1 profile, 1 reload | finding: a profile that cannot be saved keeps the thread from exiting |
| `sources_reference` | 1 context, 1 URL parsed 3 times | finding: two sources have one reference |
| `skipper_stays` | 1 script of 2 files, 2 toggles | finding: what is toggled twice stays skipped |

**Bounds.** All counters are bounded by constants that the modules name. Two
references are the least for which one can be a duplicate of, or removed beside,
another; three requests are needed for a request to interleave with two others on
two sources; a process and a worker are the least tree with a parent that has to
wait. Two events and two requests make every order of an answer and two events.
Three pauses make it possible that a command given for the first is shared by a
caller of the second and met by the third. With one relaunch and one restart there
are four programs: each way in which a program is replaced may happen after each
other. Three messages are needed for one to become ready between two others. Of
three scripts, two can be compiled from one file while the third replaces one of
them. Larger instances were checked once, with the same result: `breakpoint` with
two positions, without liveness (963,687 states); `manager` with two places and two
installations (17,331,447); `tree` with a worker of the worker (1,081,771); `cdp` with
three events (989,000); `tree` with two targets of the root (159,398); `launcher` with
all kinds of processes (4,740,745), and, without liveness, with two restart requests
and no relaunch (5.8 million). Deadlock is not checked: each of these systems may come to
rest (no request, no pause, everything disconnected).

**One disturbance.** In `pause`, at most one thing out of the ordinary happens in a
run: a *hasty* request (the editor continues or steps again before it was
answered), a refresh of the stack trace once the handler of its pause has ended,
or a reload of the page. `TypeOK` and
`RequestsAreAnswered` hold throughout; the other properties speak of runs
in which nothing of that kind has happened, because they do not all survive it
(section 5).

**Early requests.** Nothing in the code keeps a request out of a launch, of the delay
before a relaunch or of a restart, and nothing in `NodeLauncher` does. A request that
comes while a launch is in progress goes wrong: the launch goes on, with nobody left
to stop its program. The properties say how wrong it may go. `OneProgram` and
`NothingOutlivesTheRun` allow for one program for each early request and no more;
without such requests they allow for none.

**What the instances leave out.** In `sources`, a URL has at most two scripts with a
source of their own: with a third, references may be used twice
(`sources_reference`). No file is transpiled in place (a map that names the URL of
its own script). The theorems of section 4 have neither bound; what they need,
`Apart`, was checked with three scripts of one URL and with files that have the URL
of a script (1,065,800 states): `RemovesItself`, `OneSourcePerFile` and
`LinksAreMutual` hold until `Apart` does not.

**Fairness.** Weak fairness, and only of what the event loop or the other side
guarantees. A continuation of a settled promise runs. CDP answers each request of
an open session in turn. A task given to `setTimeout` or `setInterval` runs. V8 obeys
commands. A target told to leave leaves, a launcher told to stop stops, the editor
starts and configures the sessions it was asked for and disconnects one that it was
told is over. A session is resumed when the requests made of it in order to attach
have been answered, as `target.afterBind()` does. A process that was killed exits,
if it is known which one; the text of a message is there at some time or its promise
rejects; files and source maps are read and written, or not. Nothing is assumed of
the user, the page or the program: requests need not come, V8 need not pause,
programs need not exit, targets need not go.

## 4. Proofs

Every safety property that a passing run checks is a theorem: for every number of
references, requests, sessions, pauses, programs and messages, and not only for the
instance. Each proof has the same shape. `Inv`
is an inductive invariant of which the property is a part or a consequence; one
lemma says that the initial states satisfy it, one lemma or step for each action
that the action keeps it, and what several actions share is a lemma of its own.
`Invariance` puts them together, and the theorems follow. What is assumed are the
named assumptions of the modules, which type the constants; four theorems about
`SourceContainer` have a hypothesis on the behaviour, which the table shows. TLC checked the invariants on the
instances of section 3 before they were proved.

### Breakpoint

`BreakpointProofs`, from `BreakpointAssumption`:

| Theorem | Statement |
|---|---|
| `TypeCorrect` | `Spec => []TypeOK` |
| `Tracked` | `Spec => []UrlBreakpointsAreTracked` |
| `NothingLeaks` | `Spec => []DisabledMeansRemoved` |
| `Deduplicated` | `Spec => []NoDuplicateRequest` |
| `NothingForgotten` | `Spec => ListedUntilCondemned` |

None of these is inductive. That a live breakpoint is listed
or condemned depends on what is still in the queue to V8: an answer may come for a
request whose reference has left the list, or a place be set again while its
removal is in the queue. `Inv` therefore adds

- `FreeIsUnused`: an identity that was not used yet occurs nowhere;
- `ListedIsWanted`: what is listed is not marked for removal;
- `InFlight`: a request to set is in the queue only while its reference is pending
  and V8 has not seen it, a request to remove only while it is being deleted, and
  no reference is in two of them: this is what makes "each answer is the answer to
  the request I think it is" a fact;
- `LiveIsKnown`: V8 has only what the adapter asked for and has not seen removed;
- `KeptOrCondemned`: the property itself, of pending references too;
- `DisabledIsEmpty`: the list of a disabled breakpoint is empty, which holds
  because `_setAny` checks `isEnabled` in the same synchronous stretch in which it
  adds to the list.

### BreakpointManager

`BreakpointManagerProofs`, from the assumption of the module:

| Theorem | Statement |
|---|---|
| `TypeCorrect` | `Spec => []TypeOK` |
| `RemovedStayRemoved` | `Spec => []NoZombies` |
| `SettledAreEnabled` | `Spec => []ListedAreEnabled` |
| `HandlerIsRight` | `Spec => []HandlerFollowsBreakpoints` |

Two of the properties speak of a system that has settled, so the invariant must say
what is still due before. `EnabledOrDue`: what is listed and passes the filter is
enabled, or the request that made it or `reapply()` is about to. `HandlerOrDue`: the
handler follows the breakpoints, except that a request may have installed it before
it lists any. Both rest on `CountIsDue`: `_totalBreakpointsCount` lags
behind the lists by exactly the breakpoints of requests that await the disabling of
what they removed (`Pending`), which is why the handler is not taken away when one
request removes the last breakpoint and another has just listed one.
`ListsAgree`, `RequestsAreSound` and `QueueIsReady` say whose breakpoints are where;
`NothingWithoutThread` that nothing was enabled before there is a thread.

### SessionTree

`SessionTreeProofs`, from the assumption of the module and for any tree:

| Theorem | Statement |
|---|---|
| `TypeCorrect` | `Spec => []TypeOK` |
| `Invariance` | `Spec => []Inv` |
| `LoadAndUnloadInOrder` | `Spec => InOrder` |

`InOrder` is the refinement of `SessionLifecycle`: every action of the binder is
a step of the abstract specification or leaves the phases of all nodes alone, and
the one that marks the root is `Terminate` of all nodes at once. It needs that a
function which awaits the children of a node misses none (`ChildrenAreAwaited`),
which holds because nobody lists a child of a node that has begun to end
(`ParentsAreRunning`), and that what is no longer in the tree is disconnected
(`GoneAreDisconnected`). The root is different: launchers list targets of it while they
are stopping, and the root is Terminating by then. It is not Terminated before its
launchers are closed and list no more (`RootInOrder`), so that nobody awaits its
termination in vain; but its disconnect request may collect its children before that
(`AwaitsInTime`). Hence `AppearLate` of `SessionLifecycle`: a target that is listed after
that is not among those whose end the end of the root waits for, and this is the
only exception.

### CdpSession

`CdpSessionProofs`, from `CdpSessionAssumption` (the root is not an attached
session, and the bounds are numbers):

| Theorem | Statement |
|---|---|
| `TypeCorrect` | `Spec => []TypeOK` |
| `Settled` | `Spec => []AllSettled` |
| `Drained` | `Spec => []QueueIsDrained` |
| `KeepsOrder` | `Spec => InOrder` |

`AllSettled` speaks of a closed connection only, and
closing must find every request that was not settled yet: `Inv` adds `Accounted`
(every request made is settled or waits, and it waits in a session that is open)
and `ClosedIsGone` (a closed connection has no open session). `QueueIsDrained` is
inductive with the types. Handing on messages is the step that several actions
share: `Processed` says that it moves some requests of the session from
waiting to answered, and `StillAccounted` that this keeps the books.

`InOrder` is the refinement of `CdpChannel`, whose channel is the queue of a session
followed by the messages in transit to it. A message that arrives is `Deliver` if
nothing is before it, `Overtake` if it is an answer and the session is paused, and
otherwise no step: it goes from one half of the channel to the other. `Resume` takes
the first half at once, a task takes one message; for a session that has gone both
are `Late`. The abstract step must hand on the *next* events, so the refinement
needs `Ordered`: the events of a channel ascend and are later than what the
user has heard, and those of an open session are exactly the numbers from there to
the last event that was sent; nothing is in transit to a session that was not
created. The lemmas are about sequences: `MessagesToAppend` and `MessagesToTail`
(what sending and arriving do to the messages in transit to one session),
`EventsTaken` (what is heard of the first k messages), `AnswerTakenOut` (an
answer that overtakes leaves the events as they are).

### ThreadPause

`ThreadPauseProofs`, without any assumption but that of the module:

| Theorem | Statement |
|---|---|
| `TypeCorrect` | `Spec => []TypeOK` |
| `EditorShowsV8` | `Spec => []EditorAgrees` |
| `PausesAreLeftOnRequest` | `Spec => NoPauseIsSkipped` |

The invariant is `TypeOK`, `OneResponse` (V8 is asked one thing at a time, and
answers once) and, for runs in which nothing out of the ordinary happens, `CalmInv`;
the two properties speak of those runs only. Its heart is `OneMove`: of all
operations that wait, run or have not been obeyed and all calls that wait for a
task, at most one makes V8 leave a pause, and whoever asked for it knows of the
pause V8 is in. So an operation meant for one pause cannot meet a later one.
`HeardInOrder` orders the events of the current pause on the wire; `Shown` says what
the editor shows and who will see to a pause it does not show.

### NodeLauncher

`NodeLauncherProofs`, from the assumption of the module:

| Theorem | Statement |
|---|---|
| `TypeCorrect` | `Spec => []TypeOK` |
| `Invariance` | `Spec => []Inv` |
| `AtMostOneProgram` | `Spec => []OneProgram` |
| `OverMeansOver` | `Spec => []NothingOutlivesTheRun` |
| `RestartIsFresh` | `Spec => RestartsAfresh` |

The types need that launches are numbered without gaps (`Numbered`) and that what is
due to be relaunched has attempts left (`Launched`). The other three count what an
early request may leave: the invariant bounds the programs that are neither told to
stop nor given up, together with the launches and the restarts in progress, by one
more than the early requests. A relaunch, a launch that begins and a restart that has
awaited its program hand that one on. What makes the bound exact is that no process
which was not told to stop is forgotten, except by an early request, and that a
program the launcher has given up has stopped or is awaited by a restart.
That a restart begins afresh needs the same of programs that
have not stopped (`UnstoppedAreFew`), and that connections of earlier programs are closed
before a launch, except those of a process that nobody could kill
(`NoOldConnections`).

### SessionOutput

`SessionOutputProofs`, from the assumption of the module:

| Theorem | Statement |
|---|---|
| `TypeCorrect` | `Spec => []TypeOK` |
| `MessagesKeepOrder` | `Spec => []PrintedInOrder` |
| `ExitComesLast` | `Spec => []NothingIsLost` |
| `ScriptsStayForMessages` | `Spec => ScriptsOutliveMessages` |

The queue ascends, and all of it is later than what was printed (`QueueInOrder`);
a message is printed, rejected or in the queue (`NoneIsLost`). That nothing comes
after the exit needs `NothingToPrint`: a thread that has awaited its console found
it disposed and its queue empty, and a disposed console accepts nothing. That a page
keeps its scripts needs `PagesArePrinted`: who no longer waits for the console has
no message of the page in the queue. What is sent of the queue
(`WithoutRejected`) is a recursive function; its proof is an induction over the
positions of a sequence with `InductionUpTo`, as are those of `MessagesTo` in
CdpSession.

### SourceContainer

`SourceContainerProofs`, from the assumption of the module:

| Theorem | Statement |
|---|---|
| `Types` | `Spec => []TypeOK` |
| `LeftPagesAreForgotten` | `Spec => []GoneWithTheirContexts` |
| `FilesAreShared` | `Spec /\ []RemovesItself => []OneSourcePerFile` |
| `LinksAgree` | `Spec /\ []RemovesItself => []LinksAreMutual` |
| `ReferencesLeadToTheirSources` | `Spec /\ []Apart => []RemovesItself` |
| `MapsAgreeWhereApart` | `Spec /\ []Apart => [](OneSourcePerFile /\ LinksAreMutual)` |

The proof has three layers, each an inductive invariant that needs the one below.

`TypeInv` holds in every run, the ones in which references collide included: a
source in the container is there under the reference it holds (`RefsAgree`), was
added as the source of its script (`ScriptsAreAdded`), and a script of it is not yet
removed (`ScriptsAreKept`), which is why nothing is left of a page.

`Inv` adds that the maps agree (`Fine`): what is listed by URL is in the container,
an original under its own URL, and each link is there on both sides. It is kept
only while `removeSource` removes the source it is called with. That is the
assertion of `sourceContainer.ts:812`, so it is the hypothesis `[]RemovesItself`
of these theorems. Between two sources of one map the maps do not agree yet:
`Fine(k, Y)` is what holds of a container `k` when the sources `Y` are linked and
about to be added, and the lemmas on `Forget`, `Unlink`, `RemoveSource`, `AddSource`
and `Link` say which `Y` each of them leaves.

`FoundInv` replaces that hypothesis by one that says when references collide. `Apart` is
a predicate of a state: no source is to be added (a script awaits its source, or a map
its file) under the URL of a source that was replaced and still has scripts which
were not removed. Since these are safety properties, the theorems say that references
lead to their sources, and the maps agree, at least until `Apart` is false for the
first time. A page may be reloaded any number of times, hot updates may replace each
other and a map may name the URL of a script, even of its own: as long as
the scripts of a replaced source are removed before the next source of its URL is on
its way, nothing goes wrong. That is exactly what `sources_reference` does not wait for.
A reference is free when it is taken, since there are more numbers than sources (a
pigeonhole over `GetSourceReference`), and it is one of its URL (`UrlsAreTheirs`). So the
source that is replaced held another one, which leads to nothing afterwards, and it
stays so while only sources of other URLs are added (`GoneIsRemoved`). What
`RemoveSourcesOf` does to the sources of a context is an induction over the scripts.

### What stays with TLC

- Liveness: `DisableTakesEffect`, `EverySessionEnds`, `DisconnectIsAnswered`,
  `RequestsAreSettled`, `EventsAreHeard`, `EveryPauseIsHandled`,
  `RequestsAreAnswered`, `EveryEndIsHandled`, `ThreadExits`, `EveryMapIsReady`. The
  prover does not reason about weak fairness.
- What becomes of the maps of `SourceContainer` after two sources of a URL were taken
  for each other: only `TypeOK` and `GoneWithTheirContexts` are known to survive it.
- What is true of a thread after a disturbance: the theorems do not speak of it, and
  the properties are violated there.

## 5. Where the code does not do what it says

Shown by a run:

- `targets/node/nodeLauncherBase.ts:176`: `terminate()` during a launch, or between a
  crash and the relaunch that is already under way, is answered, and the program
  starts afterwards with nobody left to stop it (`launcher_terminate`).
- `adapter/profileController.ts:76`: a console profile that cannot be written stays a
  shutdown participant, rejected for good. Contexts are then cleared without their
  scripts being removed, and a thread that is disposed never exits
  (`output_failed_save`).
- `adapter/sourceContainer.ts:812`: a source takes its reference before the source it
  replaces gives its own back. The third source of a URL is given the reference of
  the first; when the scripts of the first are removed, the assertion fails and
  the third is taken out of the container instead, while it stays reachable by
  its URL together with what is mapped to it (`sources_reference`).
- `adapter/scriptSkipper/implementation.ts:248`: `_scriptsWithSkipping` is never added
  to, so that the runtime is not told when a script has no skipped range left
  (`skipper_stays`).

Kept as an exception in a property that holds otherwise:

- `adapter/breakpoints.ts:852`: `reapply()` enables breakpoints that were removed while
  it waited (`Reapplied` in `NoZombies`).
- `adapter/threads.ts:918`, `150`, `1083`: after a refresh of the stack trace, a hasty
  request or a reload the editor may be told of a stop that is over, or a pause may
  be skipped (`Disturb` in ThreadPause).
- `targets/node/nodeLauncher.ts:196`: a child process that cannot be created (its `cwd`
  does not exist, say) rejects `program.stopped` (`program.ts:65`) after the launch has
  succeeded. Nobody handles that: the launcher keeps a program without a process, the
  run never ends, and terminate and restart requests are rejected
  (`EveryEndIsHandled`).
- `binder.ts:517`: a target that vanishes while it is being attached never gets its
  thread data; its end waits for them forever, and with it the disconnect request of
  the root (`Hangs` in `EverySessionEnds` and `DisconnectIsAnswered`).
- `binder.ts:673`: a target that is listed while the launchers stop is attached to the
  root; a disconnect request of the root that already awaits the other targets is
  answered without it (`late` in `InOrder`).
- `targets/node/nodeLauncher.ts:216`: a relaunch after a crash that fails is awaited by
  nobody; the run goes on without a program (`EveryEndIsHandled`).
- `targets/node/program.ts:182`: a terminal whose process is not known pretends to have
  stopped; until its bootloader reports, its process may still connect
  (`RestartsAfresh`).

Seen in the models, or met while reading:

- `adapter/breakpoints.ts:542`: a `setBreakpoints` request merges its list after it has
  waited for the predictor. A later request for the source that clears it need not
  wait; then the earlier one sets what was cleared. Two requests for one source in
  `BreakpointManager` do that; without a predictor they do not.
- `breakpointBase.ts:556` compares URLs whatever the positions: a breakpoint set by
  script ID elsewhere in a script keeps a breakpoint by URL from being set. The
  instance of `breakpoint` has one position.
- `binder.ts:510`: once a session that cannot be stopped by itself has asked for the
  end of everything, the root is Terminating and nobody sends it the terminated
  event.
- `binder.ts:519`: the terminated event of a parent is sent before its children
  have terminated.
- `threads.ts:969`: clearing contexts awaits the shutdown participants, and then
  drops breakpoints set by script ID of the new contexts; while the thread shuts
  down it awaits nothing.
- `breakpoints.ts:463`: `launchBlocker` neither awaits nor returns what it logs.
- `cdp/connection.ts:209`, `332`: a listener that throws loses the rest of the
  queue, or stops the chain of tasks that empties it.
- `sourceContainer.ts:860`: a compiled source that is removed while the files of its map
  are being added leaves authored sources compiled from nothing that is there; they
  go when the container is cleared.
- `sourceContainer.ts:830`: the entry by absolute path is deleted whichever source it
  leads to.
- `sourceContainer.ts:705`: symbols of WebAssembly that cannot be loaded leave the
  promise of the map unsettled.
- `scriptSkipper/implementation.ts:220`: a file is added to the ranges when it differs
  from the one before, so the first file after a skipped one that is not skipped is
  sent as a range, too; updates that overlap are sent in the order in which they
  end, not in which they began.
- `ui/shutdownParticipants.ts:44`: a profile that ends during the shutdown is saved
  without being awaited.
- `breakpointPredictor.ts:359`: `return` where the next breakpoint was due.
- `sessionManager.ts:268`: a released target stays pending.

## 6. What is not modelled, and why

`PROJECT.json` lists every component with its status. Left out for good: text in
and out (evaluator, completions, previews of values, formatting of messages),
lookups in source maps, code generators, telemetry, the user interface of the
editor, the wiring of the hosts. Left out of components that are modelled: the
locations a breakpoint reports to the user, `moveBreakpoints`, entry breakpoints,
conditions and hit counts; options of a launch as a whole; listeners by prefix;
evaluation of a thread, stepping into targets. Of the Node targets: the legacy attach
mode and its combined program, `killBehavior` "none", the attacher and the terminal
launchers, the tree of workers. Of the sources: `clear`, absolute paths,
announcements to the editor, WebAssembly, maps of files that have a map themselves.
Of the skipper: node internals, toggles passed on to other targets. `ScriptSkipper`
is only in a run that shows a finding: what it promises does not hold.

Not modelled yet, with a hazard listed: the predictor, the session manager, the
start and stop of profiles, the combination of exception filters.

## 7. Plan

In this order, the most consequential first:

1. What remains true of a thread with a disturbance: `NoPauseIsSkipped` of the pauses
   before it.
2. Modules: `Predictor` (a request resolves only when its locations are known),
   `DapConnection` (one answer for each request), `SessionManager`, `CdpProxy`,
   `ProfileController`; the combination of exception filters as a pure algorithm
   against a reference definition. Their runs replace those which a theorem has
   made redundant.
