-------------------------- MODULE BreakpointManager --------------------------
(***************************************************************************)
(* The breakpoints of one debug session (src/adapter/breakpoints.ts).      *)
(*                                                                         *)
(* Every setBreakpoints request replaces the list of one source.  It runs  *)
(* as an asynchronous function whose awaits let other requests, setThread, *)
(* a profile and a reload after a crash run in between:                    *)
(*                                                                         *)
(*   idle -> entry -> predict -> ready -> (merge) -> unbind -> enable -> done *)
(*                                                                         *)
(* The source map handler is installed in the thread while there are       *)
(* breakpoints.  With PauseForSourceMap it also sets an instrumentation    *)
(* breakpoint in the debuggee, in steps of its own.                        *)
(*                                                                         *)
(* Module Breakpoint has what enabling and disabling one breakpoint does;  *)
(* here it flips isEnabled at once and completes at any later time.        *)
(* Not modelled here: sources named by reference only, conditions, entry   *)
(* breakpoints, perScriptSourcemaps, moveBreakpoints, and requests that    *)
(* repeat a breakpoint.                                                    *)
(***************************************************************************)
EXTENDS Naturals, Integers, Sequences, FiniteSets

CONSTANTS
  Sources,           \* paths of sources
  Places,            \* the parameters of a breakpoint in its source
  NCalls,            \* bounds the setBreakpoints requests; issued 1, 2, ...
  NInstalls,         \* bounds the installations of the source map handler
  HasPredictor,      \* the session predicts breakpoints from files on disk
  PauseForSourceMap  \* scripts with source maps pause before they run

Calls == 1 .. NCalls
Installs == 1 .. NInstalls

(* A breakpoint is identified by the request that created it: its DAP ID.  *)
Bps == Calls \X Places

ASSUME ManagerAssumption ==
  /\ IsFiniteSet(Places)  \* a request names finitely many
  /\ NCalls \in Nat
  /\ NInstalls \in Nat
  /\ HasPredictor \in BOOLEAN
  /\ PauseForSourceMap \in BOOLEAN

VARIABLES
  thread,       \* setThread() was called
  ready,        \* Thread.debuggerReady has settled
  byPath,       \* the list of breakpoints of each source
  byDapId,      \* the breakpoints of _byDapId
  count,        \* _totalBreakpointsCount
  enabled,      \* breakpoints with isEnabled
  passing,      \* the breakpoints _enabledFilter lets pass
  calls,        \* the setBreakpoints requests
  readyQueue,   \* those that await debuggerReady, in the order they came to it
  handler,      \* the installation in _sourceMapHandlerInstalled, 0 if none
  entryBpSet,   \* the promise each installation made
  smHandler,    \* the thread has a script source map handler
  ids,          \* the thread knows an instrumentation breakpoint it has set
  instrumented, \* the debuggee has an instrumentation breakpoint
  launched,     \* binder let the target run
  reapply       \* reapply(), and the breakpoints it goes on to enable

listVars == <<byPath, byDapId, count>>
requestVars == <<calls, readyQueue>>
handlerVars == <<handler, entryBpSet, smHandler, ids, instrumented>>
vars == <<thread, ready, byPath, byDapId, count, enabled, passing, calls,
          readyQueue, handler, entryBpSet, smHandler, ids, instrumented, launched, reapply>>

Idle == [pc |-> "idle", src |-> "none", want |-> {}, wait |-> 0, new |-> {},
         slow |-> FALSE, thread |-> FALSE]

PC == {"idle", "entry", "predict", "ready", "unbind", "enable", "done"}

TypeOK ==
  /\ thread \in BOOLEAN
  /\ ready \in BOOLEAN
  /\ byPath \in [Sources -> SUBSET Bps]
  /\ byDapId \subseteq Bps
  /\ count \in Int
  /\ enabled \subseteq Bps
  /\ enabled # {} => thread
  /\ passing \subseteq Bps
  /\ calls \in [Calls -> [pc : PC, src : Sources \union {"none"}, want : SUBSET Places,
                          wait : {0} \union Installs, new : SUBSET Bps,
                          slow : BOOLEAN, thread : BOOLEAN]]
  /\ readyQueue \in Seq(Calls)
  /\ handler \in {0} \union Installs
  /\ entryBpSet \in [Installs -> {"unused", "waiting", "sent", "kept", "set", "unset"}]
  /\ smHandler \in BOOLEAN
  /\ ids \in BOOLEAN
  /\ instrumented \in BOOLEAN
  /\ launched \in BOOLEAN
  /\ reapply \in [pc : {"idle", "disabling", "done"}, bps : SUBSET Bps]

Init ==
  /\ thread = FALSE
  /\ ready = FALSE
  /\ byPath = [s \in Sources |-> {}]
  /\ byDapId = {}
  /\ count = 0
  /\ enabled = {}
  /\ passing = Bps
  /\ calls = [c \in Calls |-> Idle]
  /\ readyQueue = <<>>
  /\ handler = 0
  /\ entryBpSet = [i \in Installs |-> "unused"]
  /\ smHandler = FALSE
  /\ ids = FALSE
  /\ instrumented = FALSE
  /\ launched = FALSE
  /\ reapply = [pc |-> "idle", bps |-> {}]

-----------------------------------------------------------------------------
(* The source map handler.                                                 *)

(* _installSourceMapHandler: the promise is answered at once if an         *)
(* instrumentation breakpoint is there or none is needed.                  *)
Install ==
  \E i \in Installs :
    /\ entryBpSet[i] = "unused"
    /\ \A j \in Installs : j < i => entryBpSet[j] # "unused"
    /\ handler' = i
    /\ smHandler' = TRUE
    /\ entryBpSet' = [entryBpSet EXCEPT
         ![i] = IF PauseForSourceMap /\ ~ids THEN "waiting" ELSE "kept"]
    /\ UNCHANGED <<ids, instrumented>>

Uninstall ==
  /\ handler' = 0
  /\ smHandler' = FALSE
  /\ ids' = FALSE
  /\ instrumented' = (instrumented /\ ~ids)
  /\ UNCHANGED entryBpSet

(* setScriptSourceMapHandler waited for debuggerReady.                     *)
SetInstrumentation(i) ==
  /\ entryBpSet[i] = "waiting"
  /\ ready
  /\ entryBpSet' = [entryBpSet EXCEPT ![i] = "sent"]
  /\ UNCHANGED <<thread, ready, listVars, enabled, passing, requestVars, handler,
                 smHandler, ids, instrumented, launched, reapply>>

(* The debuggee sets one instrumentation breakpoint and refuses a second.  *)
InstrumentationSet(i) ==
  /\ entryBpSet[i] = "sent"
  /\ \E ok \in BOOLEAN :
       /\ ok => ~instrumented
       /\ ids' = ok
       /\ instrumented' = (instrumented \/ ok)
       /\ entryBpSet' = [entryBpSet EXCEPT ![i] = IF ok THEN "set" ELSE "unset"]
  /\ UNCHANGED <<thread, ready, listVars, enabled, passing, requestVars, handler,
                 smHandler, launched, reapply>>

HandlerKept(i) ==
  /\ entryBpSet[i] = "kept"
  /\ entryBpSet' = [entryBpSet EXCEPT ![i] = IF ids THEN "set" ELSE "unset"]
  /\ UNCHANGED <<thread, ready, listVars, enabled, passing, requestVars, handler,
                 smHandler, ids, instrumented, launched, reapply>>

-----------------------------------------------------------------------------
(* setBreakpoints.                                                         *)

(* Synchronous beginning of the request.                                   *)
SetBreakpoints(c, s, want) ==
  /\ calls[c].pc = "idle"
  /\ \A d \in Calls : d < c => calls[d].pc # "idle"
  /\ IF handler = 0 /\ thread /\ want # {} THEN Install ELSE UNCHANGED handlerVars
  /\ calls' = [calls EXCEPT ![c] = [Idle EXCEPT !.pc = "entry", !.src = s,
                                                !.want = want, !.wait = handler']]
  /\ UNCHANGED <<thread, ready, listVars, enabled, passing, readyQueue, launched, reapply>>

(* The breakpoints of the source the request names again, those it names  *)
(* no more, and those it creates.                                          *)
Kept(c) == {b \in byPath[calls[c].src] : b[2] \in calls[c].want}
Dropped(c) == byPath[calls[c].src] \ Kept(c)
Created(c) == {c} \X (calls[c].want \ {b[2] : b \in Kept(c)})

Indexed(c) == (byDapId \ Dropped(c)) \union Created(c)
Remaining(c) == count - Cardinality(Dropped(c))

(* mergeInto and the disabling of what the request no longer names, which  *)
(* is slow if it has to be removed from the debuggee.  The thread is the   *)
(* one the request has seen.                                               *)
Merge(c) ==
  /\ byPath' = [byPath EXCEPT ![calls[c].src] = Kept(c) \union Created(c)]
  /\ byDapId' = Indexed(c)
  /\ count' = Remaining(c)
  /\ enabled' = enabled \ Dropped(c)
  /\ calls' = [calls EXCEPT
       ![c].pc = IF Dropped(c) = {} /\ Created(c) = {} THEN "done" ELSE "unbind",
       ![c].new = Created(c),
       ![c].slow = Dropped(c) \intersect enabled # {},
       ![c].thread = thread]
  /\ UNCHANGED <<thread, ready, passing, handlerVars, launched, reapply>>

(* The request goes on unless it has to wait for the debugger.             *)
Proceed(c) ==
  IF thread /\ ~ready
    THEN /\ calls' = [calls EXCEPT ![c].pc = "ready"]
         /\ readyQueue' = Append(readyQueue, c)
         /\ UNCHANGED <<thread, ready, listVars, enabled, passing, handlerVars,
                        launched, reapply>>
    ELSE Merge(c) /\ UNCHANGED readyQueue

(* Requests that await the same installation go on in their order.         *)
AtEntry(c) ==
  /\ calls[c].pc = "entry"
  /\ calls[c].wait # 0 => entryBpSet[calls[c].wait] \in {"set", "unset"}
  /\ \A d \in Calls : (d < c /\ calls[d].wait = calls[c].wait) => calls[d].pc # "entry"

(* The source may or may not be loaded already; if it is, the request does *)
(* not wait for the predictor, which has nothing to do for an empty list.  *)
EntryBpSet(c) ==
  /\ AtEntry(c)
  /\ \/ /\ HasPredictor
        /\ calls[c].want # {}
        /\ calls[c].wait # 0 => entryBpSet[calls[c].wait] = "unset"
        /\ calls' = [calls EXCEPT ![c].pc = "predict"]
        /\ UNCHANGED <<thread, ready, listVars, enabled, passing, readyQueue, handlerVars,
                       launched, reapply>>
     \/ Proceed(c)

Predicted(c) == calls[c].pc = "predict" /\ Proceed(c)

DebuggerIsReady(c) ==
  /\ ready
  /\ readyQueue # <<>>
  /\ c = Head(readyQueue)
  /\ readyQueue' = Tail(readyQueue)
  /\ Merge(c)

(* Mutant: the total is looked at before the new breakpoints are added.    *)
UpdateHandlerEarly ==
  IF thread /\ count = 0 /\ handler # 0 THEN Uninstall
  ELSE IF thread /\ count > 0 /\ handler = 0 THEN Install
  ELSE UNCHANGED handlerVars

(* The handler is installed or uninstalled to suit the new count.          *)
UpdateHandler ==
  IF thread /\ count' = 0 /\ handler # 0 THEN Uninstall
  ELSE IF thread /\ count' > 0 /\ handler = 0 THEN Install
  ELSE UNCHANGED handlerVars

(* Mutant: the list is not checked again after the await (issue 679).      *)
EnablesCreated(c) == {b \in calls[c].new : calls[c].thread /\ b \in passing}

(* Mutant: the breakpoints are enabled although there is no thread.        *)
EnablesAnyway(c) == {b \in calls[c].new : b \in passing /\ b \in byPath[calls[c].src]}

(* "Double-checking the current list" keeps out what another request       *)
(* removed meanwhile.                                                      *)
Enables(c) ==
  {b \in calls[c].new : calls[c].thread /\ b \in passing /\ b \in byPath[calls[c].src]}

(* The old ones are disabled.                                              *)
Unbound(c) ==
  /\ calls[c].pc = "unbind"
  /\ count' = count + Cardinality(calls[c].new)
  /\ UpdateHandler
  /\ enabled' = enabled \union Enables(c)
  /\ calls' = [calls EXCEPT ![c].pc = "enable"]
  /\ UNCHANGED <<thread, ready, byPath, byDapId, passing, readyQueue, launched, reapply>>

Answer(c) ==
  /\ calls[c].pc = "enable"
  /\ calls' = [calls EXCEPT ![c].pc = "done"]
  /\ UNCHANGED <<thread, ready, listVars, enabled, passing, readyQueue, handlerVars, launched, reapply>>

-----------------------------------------------------------------------------
(* The rest of the session.                                                *)

SetThread ==
  /\ ~thread
  /\ thread' = TRUE
  /\ enabled' = enabled \union (passing \intersect UNION {byPath[s] : s \in Sources})
  /\ IF byDapId # {} THEN Install ELSE UNCHANGED handlerVars
  /\ UNCHANGED <<ready, listVars, passing, requestVars, launched, reapply>>

DebuggerReady ==
  /\ thread
  /\ ~ready
  /\ ready' = TRUE
  /\ UNCHANGED <<thread, listVars, enabled, passing, requestVars, handlerVars, launched, reapply>>

(* Mutant: the filter only disables.                                       *)
FilterDisables(filter) ==
  /\ passing' = filter
  /\ enabled' = enabled \ (byDapId \ filter)
  /\ UNCHANGED <<thread, ready, listVars, requestVars, handlerVars, launched, reapply>>

(* applyEnabledFilter, for a profile that starts and stops.                *)
ApplyEnabledFilter(filter) ==
  /\ passing' = filter
  /\ enabled' = IF thread THEN (enabled \ byDapId) \union (byDapId \intersect filter)
                          ELSE enabled
  /\ UNCHANGED <<thread, ready, listVars, requestVars, handlerVars, launched, reapply>>

StartProfile == thread /\ passing = Bps /\ \E filter \in SUBSET byDapId : ApplyEnabledFilter(filter)

StopProfile == passing # Bps /\ ApplyEnabledFilter(Bps)

(* DebugAdapter.launchBlocker waits for debuggerReady, then calls the one  *)
(* of the manager, which resolves at once.                                 *)
Launch ==
  /\ thread
  /\ ready
  /\ ~launched
  /\ launched' = TRUE
  /\ UNCHANGED <<thread, ready, listVars, enabled, passing, requestVars, handlerVars, reapply>>

(* reapply(), when the target was reloaded after a crash: everything is    *)
(* disabled, and enabled once that was acknowledged.  It happens once.     *)
Reapply ==
  /\ thread
  /\ reapply.pc = "idle"
  /\ reapply' = [pc |-> "disabling", bps |-> byDapId]
  /\ enabled' = enabled \ byDapId
  /\ UNCHANGED <<thread, ready, listVars, passing, requestVars, handlerVars, launched>>

ReapplyEnables ==
  /\ reapply.pc = "disabling"
  /\ reapply' = [reapply EXCEPT !.pc = "done"]
  /\ enabled' = enabled \union reapply.bps
  /\ UNCHANGED <<thread, ready, listVars, passing, requestVars, handlerVars, launched>>

-----------------------------------------------------------------------------
(* A continuation whose promise has settled runs before anything else.     *)
Continuation ==
  \/ \E c \in Calls :
       \/ EntryBpSet(c)
       \/ DebuggerIsReady(c)
       \/ ~calls[c].slow /\ Unbound(c)
  \/ \E i \in Installs : SetInstrumentation(i)

Runnable ==
  \/ \E c \in Calls : AtEntry(c) \/ (calls[c].pc = "unbind" /\ ~calls[c].slow)
  \/ ready /\ (readyQueue # <<>> \/ \E i \in Installs : entryBpSet[i] = "waiting")

Request(c) ==
  \/ \E s \in Sources, want \in SUBSET Places : SetBreakpoints(c, s, want)
  \/ Predicted(c)
  \/ calls[c].slow /\ Unbound(c)
  \/ Answer(c)

Turn ==
  \/ \E c \in Calls : Request(c)
  \/ \E i \in Installs : InstrumentationSet(i) \/ HandlerKept(i)
  \/ SetThread
  \/ DebuggerReady
  \/ StartProfile
  \/ StopProfile
  \/ Launch
  \/ Reapply
  \/ ReapplyEnables

Next == Continuation \/ (~Runnable /\ Turn)

Spec == Init /\ [][Next]_vars
=============================================================================
