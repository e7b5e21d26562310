---------------------------- MODULE ThreadPause ----------------------------
(***************************************************************************)
(* How a Thread stops and goes on (src/adapter/threads.ts).                *)
(*                                                                         *)
(* V8 says that it has paused.  An asynchronous handler decides whether    *)
(* the user wants that: if not it resumes or steps, if so it tells the     *)
(* editor.  Everything that makes V8 run or pause goes through the         *)
(* StateQueue, one operation at a time, which drops an operation that is   *)
(* already at the end of the queue.  Several messages of V8 may be read    *)
(* before the continuations of the first of them have run, which is why    *)
(* the code waits for a task now and then: a settled operation that has    *)
(* not been completed is such a pending continuation.                      *)
(*                                                                         *)
(* External: V8, which pauses at will and obeys commands in order, and the *)
(* editor, which asks to pause a thread it believes to run and to continue *)
(* one it believes to be stopped.                                          *)
(*                                                                         *)
(* Not modelled here: reasons and descriptions of a pause, instrumentation *)
(* pauses, stepping into a target.  stepInto and stepOut are operations    *)
(* like stepOver, which stands for them.                                   *)
(***************************************************************************)
EXTENDS Naturals, Sequences, FiniteSets

CONSTANTS
  MaxPauses,    \* bound on pauses of V8
  MaxRequests   \* bound on requests of the editor

Pauses == 1 .. MaxPauses
Operations == {"resume", "stepOver", "pause"}

ASSUME ThreadPauseAssumption ==
  /\ MaxPauses \in Nat
  /\ MaxRequests \in Nat

VARIABLES
  pausedDetails,  \* Thread._pausedDetails: the pause it is of, or 0
  handler,        \* _onPaused for each pause
  ops,            \* the StateQueue: operations that have not completed
  flushing,       \* calls of enqueue that wait for a task
  refreshing,     \* the pause refreshStackTrace() has begun to refresh, or 0
  clearing,       \* _executionContextsCleared: what it remembers of pausedDetails
  \* V8
  v8,             \* the pause V8 is in, or 0
  paused,         \* pauses so far
  wire,           \* messages of V8
  \* the editor
  view,           \* the pause it was told of, or 0
  requests,       \* requests so far
  disturbance     \* a hasty request, a reload or a refresh: at most one happens

queueVars == <<ops, flushing>>
v8Vars == <<v8, paused, wire>>
editorVars == <<view, requests, disturbance>>
vars == <<pausedDetails, handler, ops, flushing, refreshing, clearing, v8, paused, wire,
          view, requests, disturbance>>

(* An operation, the pauses its callers want to leave, and whether one of  *)
(* them is the editor.                                                     *)
Operation == [operation : Operations, on : SUBSET Pauses, editor : BOOLEAN]
Call(operation, on, editor) == [operation |-> operation, on |-> on, editor |-> editor]

OpState == {"chained", "starting", "sent", "done", "failed"}

TypeOK ==
  /\ pausedDetails \in 0 .. MaxPauses
  /\ handler \in [Pauses -> {"idle", "deciding", "details", "smart", "telling", "over"}]
  /\ ops \in Seq([call : Operation, state : OpState])
  /\ \A i \in DOMAIN ops : i # 1 => ops[i].state = "chained"
  /\ flushing \subseteq Operation
  /\ refreshing \in 0 .. MaxPauses
  /\ clearing \subseteq 0 .. MaxPauses
  /\ v8 \in 0 .. MaxPauses
  /\ paused \in 0 .. MaxPauses
  /\ wire \in Seq([kind : {"done", "failed", "resumed", "cleared"}, of : {0}]
                  \union [kind : {"paused"}, of : Pauses])
  /\ view \in 0 .. MaxPauses
  /\ requests \in 0 .. MaxRequests
  /\ disturbance \in {"none", "hasty", "refresh", "reload"}

Init ==
  /\ pausedDetails = 0
  /\ handler = [k \in Pauses |-> "idle"]
  /\ ops = <<>>
  /\ flushing = {}
  /\ refreshing = 0
  /\ clearing = {}
  /\ v8 = 0
  /\ paused = 0
  /\ wire = <<>>
  /\ view = 0
  /\ requests = 0
  /\ disturbance = "none"

(* One thing out of the ordinary happens in a run, at most.                *)
Disturb(what) == disturbance = "none" /\ disturbance' = what

-----------------------------------------------------------------------------
(* StateQueue.                                                             *)

(* The first operation runs at once, the next ones when those before them  *)
(* have completed.  A step finds out what to skip before it is sent.       *)
Started(call) ==
  [call |-> call, state |-> IF call.operation = "stepOver" THEN "starting" ELSE "sent"]

(* Mutant: an operation does not wait for those before it.                 *)
ChainStarted(call) == Append(ops, Started(call))

Chain(call) ==
  IF ops = <<>> THEN <<Started(call)>>
  ELSE Append(ops, [call |-> call, state |-> "chained"])

IsQueued(call) == ops # <<>> /\ ops[Len(ops)].call.operation = call.operation

(* The operation is on its way already: the caller shares its result.      *)
Shared(call) ==
  [ops EXCEPT ![Len(ops)].call =
                Call(@.operation, @.on \union call.on, @.editor \/ call.editor)]

(* Mutant: no task is awaited first.                                       *)
EnqueueAtOnce(call) ==
  /\ ops' = IF IsQueued(call) THEN Shared(call) ELSE Chain(call)
  /\ UNCHANGED flushing

Enqueue(call) ==
  IF IsQueued(call)
    THEN flushing' = flushing \union {call} /\ UNCHANGED ops
    ELSE ops' = Chain(call) /\ UNCHANGED flushing

(* A continuation that runs before any further task.                       *)
MicrotaskPending == ops # <<>> /\ Head(ops).state \in {"done", "failed"}

(* The task after which enqueue() looks again.                             *)
Flushed(call) ==
  /\ call \in flushing
  /\ ~MicrotaskPending
  /\ flushing' = flushing \ {call}
  /\ ops' = IF IsQueued(call) THEN Shared(call) ELSE Chain(call)
  /\ UNCHANGED <<pausedDetails, handler, refreshing, clearing, v8Vars, editorVars>>

SendStep ==
  /\ ops # <<>>
  /\ Head(ops).state = "starting"
  /\ ops' = [ops EXCEPT ![1].state = "sent"]
  /\ UNCHANGED <<pausedDetails, handler, flushing, refreshing, clearing, v8Vars, editorVars>>

(* Mutant: an operation that has failed is never completed.                *)
CompleteDone ==
  /\ MicrotaskPending
  /\ Head(ops).state = "done"
  /\ LET op == Head(ops).call IN
     view' = IF op.editor /\ op.operation # "pause" THEN 0 ELSE view
  /\ ops' = LET rest == Tail(ops) IN
            IF rest = <<>> THEN rest ELSE [rest EXCEPT ![1] = Started(@.call)]
  /\ UNCHANGED <<pausedDetails, handler, flushing, refreshing, clearing, v8Vars, requests, disturbance>>

(* An operation completes, the editor gets its response and shows a thread *)
(* that runs, and the next operation starts.                               *)
Complete ==
  /\ MicrotaskPending
  /\ LET op == Head(ops).call
         failed == /\ Head(ops).state = "failed"
                   /\ op.operation = "resume" => pausedDetails # 0
     IN view' = IF op.editor /\ op.operation # "pause" /\ ~failed THEN 0 ELSE view
  /\ ops' = LET rest == Tail(ops) IN
            IF rest = <<>> THEN rest ELSE [rest EXCEPT ![1] = Started(@.call)]
  /\ UNCHANGED <<pausedDetails, handler, flushing, refreshing, clearing, v8Vars, requests, disturbance>>

-----------------------------------------------------------------------------
(* V8.                                                                     *)

Message(kind) == [kind |-> kind, of |-> 0]

(* V8 stops: a breakpoint, a step that ends, an exception, a request.      *)
V8Pauses ==
  /\ v8 = 0
  /\ paused < MaxPauses
  /\ paused' = paused + 1
  /\ v8' = paused'
  /\ wire' = Append(wire, [kind |-> "paused", of |-> paused'])
  /\ UNCHANGED <<pausedDetails, handler, queueVars, refreshing, clearing, editorVars>>

(* V8 obeys: the response comes before the event that it goes on.          *)
V8Obeys ==
  /\ ops # <<>>
  /\ Head(ops).state = "sent"
  /\ \A i \in DOMAIN wire : wire[i].kind \notin {"done", "failed"}
  /\ \/ /\ Head(ops).call.operation = "pause"
        /\ wire' = Append(wire, Message("done"))
        /\ UNCHANGED v8
     \/ /\ Head(ops).call.operation # "pause"
        /\ v8 # 0
        /\ v8' = 0
        /\ wire' = wire \o <<Message("done"), Message("resumed")>>
     \/ /\ Head(ops).call.operation # "pause"
        /\ v8 = 0
        /\ wire' = Append(wire, Message("failed"))
        /\ UNCHANGED v8
  /\ UNCHANGED <<pausedDetails, handler, queueVars, refreshing, clearing, paused, editorVars>>

(* The page is reloaded: what was paused is gone.                          *)
V8Reloads ==
  /\ Disturb("reload")
  /\ v8' = 0
  /\ \A i \in DOMAIN wire : wire[i].kind # "cleared"
  /\ wire' = Append(wire, Message("cleared"))
  /\ UNCHANGED <<pausedDetails, handler, queueVars, refreshing, clearing, paused, view, requests>>

-----------------------------------------------------------------------------
(* The adapter hears of V8.                                                *)

Hears(kind) ==
  /\ wire # <<>>
  /\ Head(wire).kind = kind
  /\ wire' = Tail(wire)

Responded ==
  /\ \/ Hears("done") /\ ops' = [ops EXCEPT ![1].state = "done"]
     \/ Hears("failed") /\ ops' = [ops EXCEPT ![1].state = "failed"]
  /\ UNCHANGED <<pausedDetails, handler, flushing, refreshing, clearing, v8, paused, editorVars>>

OnResumed ==
  /\ Hears("resumed")
  /\ pausedDetails' = 0
  /\ view' = 0
  /\ UNCHANGED <<handler, queueVars, refreshing, clearing, v8, paused, requests, disturbance>>

OnPaused ==
  /\ Hears("paused")
  /\ handler' = [handler EXCEPT ![Head(wire).of] = "deciding"]
  /\ UNCHANGED <<pausedDetails, queueVars, refreshing, clearing, v8, paused, editorVars>>

(* _executionContextsCleared up to its await, and after it.                *)
ContextsCleared ==
  /\ clearing = {}
  /\ Hears("cleared")
  /\ clearing' = {pausedDetails}
  /\ UNCHANGED <<pausedDetails, handler, queueVars, refreshing, v8, paused, editorVars>>

ContextsShutDown ==
  /\ clearing # {}
  /\ clearing' = {}
  /\ IF pausedDetails \in clearing \ {0}
       THEN pausedDetails' = 0 /\ view' = 0
       ELSE UNCHANGED <<pausedDetails, view>>
  /\ UNCHANGED <<handler, queueVars, refreshing, v8Vars, requests, disturbance>>

-----------------------------------------------------------------------------
(* _onPaused.                                                              *)

(* Mutant: an unwanted pause is not the end of it.                         *)
DecideFallsThrough(k) ==
  /\ handler[k] = "deciding"
  /\ handler' = [handler EXCEPT ![k] = "details"]
  /\ Enqueue(Call("resume", {k}, FALSE)) \/ UNCHANGED queueVars
  /\ UNCHANGED <<pausedDetails, refreshing, clearing, v8Vars, editorVars>>

(* A breakpoint whose condition does not hold, an exception in a skipped   *)
(* file: the thread goes on.                                               *)
Decide(k) ==
  /\ handler[k] = "deciding"
  /\ \/ /\ handler' = [handler EXCEPT ![k] = "over"]
        /\ Enqueue(Call("resume", {k}, FALSE))
     \/ /\ handler' = [handler EXCEPT ![k] = "details"]
        /\ UNCHANGED queueVars
  /\ UNCHANGED <<pausedDetails, refreshing, clearing, v8Vars, editorVars>>

CreatePausedDetails(k) ==
  /\ handler[k] = "details"
  /\ pausedDetails' = k
  /\ handler' = [handler EXCEPT ![k] = "smart"]
  /\ UNCHANGED <<queueVars, refreshing, clearing, v8Vars, editorVars>>

(* An excluded caller: resume.  Otherwise, unless another pause came in    *)
(* between, a smart step or a stop.                                        *)
SmartStep(k) ==
  /\ handler[k] = "smart"
  /\ \/ /\ handler' = [handler EXCEPT ![k] = "over"]
        /\ Enqueue(Call("resume", {k}, FALSE))
     \/ /\ handler' = [handler EXCEPT ![k] = "over"]
        /\ pausedDetails = k
        /\ Enqueue(Call("stepOver", {k}, FALSE))
     \/ /\ handler' = [handler EXCEPT ![k] = IF pausedDetails = k THEN "telling" ELSE "over"]
        /\ UNCHANGED queueVars
  /\ UNCHANGED <<pausedDetails, refreshing, clearing, v8Vars, editorVars>>

(* Mutant: there is no delay before the stopped event.                     *)
TellAtOnce(k) ==
  /\ handler[k] = "telling"
  /\ handler' = [handler EXCEPT ![k] = "over"]
  /\ view' = k
  /\ UNCHANGED <<pausedDetails, queueVars, refreshing, clearing, v8Vars, requests, disturbance>>

(* _onThreadPaused after its delays: the editor is told.                   *)
Tell(k) ==
  /\ handler[k] = "telling"
  /\ ~MicrotaskPending
  /\ handler' = [handler EXCEPT ![k] = "over"]
  /\ view' = k
  /\ UNCHANGED <<pausedDetails, queueVars, refreshing, clearing, v8Vars, requests, disturbance>>

(* refreshStackTrace: the editor is told again.  Only of a pause whose     *)
(* handler has ended, which it would otherwise supersede.                  *)
Refresh ==
  /\ Disturb("refresh")
  /\ pausedDetails # 0
  /\ handler[pausedDetails] = "over"
  /\ refreshing = 0
  /\ refreshing' = pausedDetails
  /\ UNCHANGED <<pausedDetails, handler, queueVars, clearing, v8Vars, view, requests>>

Refreshed ==
  /\ refreshing # 0
  /\ refreshing' = 0
  /\ pausedDetails' = refreshing
  /\ handler' = [handler EXCEPT ![refreshing] = "telling"]
  /\ view' = 0
  /\ UNCHANGED <<queueVars, clearing, v8Vars, requests, disturbance>>

-----------------------------------------------------------------------------
(* The editor.                                                             *)

Awaits ==
  \/ \E i \in DOMAIN ops : ops[i].call.editor
  \/ \E call \in flushing : call.editor

EditorRequests(operation) ==
  /\ IF operation = "pause" \/ ~Awaits THEN UNCHANGED disturbance ELSE Disturb("hasty")
  /\ requests < MaxRequests
  /\ requests' = requests + 1
  /\ IF operation = "pause" THEN view = 0 ELSE view # 0
  /\ Enqueue(Call(operation, {view} \ {0}, TRUE))
  /\ UNCHANGED <<pausedDetails, handler, refreshing, clearing, v8Vars, view>>

-----------------------------------------------------------------------------
Adapter ==
  \/ SendStep \/ Complete
  \/ Responded \/ OnResumed \/ OnPaused
  \/ ContextsCleared \/ ContextsShutDown
  \/ Refreshed
  \/ \E call \in flushing : Flushed(call)

Handle(k) == Decide(k) \/ CreatePausedDetails(k) \/ SmartStep(k) \/ Tell(k)

Next ==
  \/ Adapter
  \/ \E k \in Pauses : Handle(k)
  \/ V8Pauses \/ V8Obeys \/ V8Reloads
  \/ Refresh
  \/ \E operation \in Operations : EditorRequests(operation)

Spec == Init /\ [][Next]_vars

(* The event loop of the adapter runs and V8 obeys; V8 need not pause and   *)
(* the editor need not ask.                                                 *)
Fairness ==
  /\ WF_vars(Adapter)
  /\ WF_vars(V8Obeys)
  /\ \A k \in Pauses : WF_vars(Handle(k))

FairSpec == Spec /\ Fairness
=============================================================================
