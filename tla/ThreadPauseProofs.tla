-------------------------- MODULE ThreadPauseProofs --------------------------
(***************************************************************************)
(* Proofs, for any number of pauses and requests, of the safety properties *)
(* of ThreadPauseProps.                                                    *)
(***************************************************************************)
EXTENDS ThreadPauseProps, TLAPS

-----------------------------------------------------------------------------
(* The inductive invariant.                                                *)

InWire(kind) == \E i \in DOMAIN wire : wire[i].kind = kind

(* V8 is asked one thing at a time, and answers once.                      *)
OneResponse ==
  /\ InWire("done") \/ InWire("failed") => ops # <<>> /\ ops[1].state = "sent"
  /\ \A i, j \in DOMAIN wire :
       {wire[i].kind, wire[j].kind} \subseteq {"done", "failed"} => i = j

(* Operations that make V8 leave a pause: whether V8 has obeyed the first  *)
(* one, the others, and calls that wait for a task.                        *)
Moves(call) == call.operation # "pause"
Obeyed == ops # <<>> /\ (ops[1].state = "done" \/ InWire("done"))
Pending == {i \in DOMAIN ops : Moves(ops[i].call) /\ ~(i = 1 /\ Obeyed)}
Waiting == {call \in flushing : Moves(call)}

(* What a calm run never sees.                                             *)
NothingFails ==
  /\ \A i \in DOMAIN wire : wire[i].kind \notin {"failed", "cleared"}
  /\ \A i \in DOMAIN ops : ops[i].state # "failed"
  /\ refreshing = 0 /\ clearing = {}

(* The pause V8 is in is its last one, and heard of last.                  *)
HeardInOrder ==
  /\ v8 \in {0, paused}
  /\ \A k \in Pauses : k > paused => handler[k] = "idle"
  /\ \A k \in Pauses : handler[k] \in {"idle", "over"} \/ k = v8
  /\ v8 # 0 /\ handler[v8] = "idle" => InWire("paused")
  /\ v8 # 0 /\ handler[v8] # "idle" =>
       /\ ~InWire("paused") /\ ~InWire("resumed")
       /\ InWire("done") => ~Moves(ops[1].call)
  /\ \A i \in DOMAIN wire : wire[i].kind = "paused" =>
       /\ wire[i].of = v8
       /\ \A j \in DOMAIN wire : wire[j].kind = "paused" => i = j
       /\ \A j \in DOMAIN wire : wire[j].kind = "resumed" => j < i
       /\ \A j \in DOMAIN wire : wire[j].kind = "done" /\ Moves(ops[1].call) => j < i

(* One operation at most makes V8 leave its pause, and whoever has asked   *)
(* for it knows of the pause.                                              *)
MeantForThePause(call) ==
  v8 \in call.on /\ handler[v8] = "over" /\ (view = v8 => call.editor)

OneMove ==
  /\ \A i, j \in Pending : i = j
  /\ \A c, d \in Waiting : c = d
  /\ Pending = {} \/ Waiting = {}
  /\ \A i \in Pending : MeantForThePause(ops[i].call)
  /\ \A call \in Waiting : MeantForThePause(call)

(* What the editor shows, and who sees to a pause.                         *)
Shown ==
  /\ view # 0 => handler[view] = "over"
  /\ view # 0 /\ view = v8 => ~(Obeyed /\ Moves(ops[1].call))
  /\ view # 0 /\ view # v8 => Obeyed /\ Moves(ops[1].call) /\ ops[1].call.editor
  /\ v8 # 0 /\ handler[v8] = "over" => view = v8 \/ Pending # {} \/ Waiting # {}
  /\ \A k \in Pauses : handler[k] \in {"smart"} => pausedDetails = k

CalmInv == NothingFails /\ HeardInOrder /\ OneMove /\ Shown

Inv == TypeOK /\ OneResponse /\ (Calm => CalmInv)

-----------------------------------------------------------------------------
(* Types.                                                                  *)

OpRecord == [call : Operation, state : OpState]
V8Message == [kind : {"done", "failed", "resumed", "cleared"}, of : {0}]
             \union [kind : {"paused"}, of : Pauses]
IsOps(s) == s \in Seq(OpRecord) /\ \A i \in DOMAIN s : i # 1 => s[i].state = "chained"

(* An operation keeps its call when its state changes.                     *)
LEMMA RecordTypes ==
  /\ \A r \in OpRecord : r.call \in Operation
  /\ \A r \in OpRecord, st \in OpState :
       [r EXCEPT !.state = st] \in OpRecord /\ [r EXCEPT !.state = st].call = r.call
  /\ \A r \in OpRecord : \A c : [r EXCEPT !.call = c] = [call |-> c, state |-> r.state]
  BY DEF OpRecord

(* An operation that is started or chained.                                *)
LEMMA ChainType ==
  ASSUME TypeOK, NEW call \in Operation
  PROVE  /\ IsOps(Chain(call))
         /\ Len(Chain(call)) = Len(ops) + 1
         /\ \A i \in DOMAIN ops : Chain(call)[i] = ops[i]
         /\ Chain(call)[Len(ops) + 1].call = call
         /\ Chain(call)[Len(ops) + 1].state \in {"chained", "starting", "sent"}
<1>0. IsOps(ops)
  BY DEF TypeOK, IsOps, OpRecord
<1>1. CASE ops = <<>>
  <2>1. Started(call) \in OpRecord /\ Started(call).call = call
        /\ Started(call).state \in {"starting", "sent"}
    BY DEF Started, OpRecord, OpState
  <2>2. Chain(call) = <<Started(call)>> /\ Len(ops) = 0 /\ DOMAIN ops = {}
    BY <1>1 DEF Chain
  <2> QED BY <2>1, <2>2 DEF IsOps
<1>2. CASE ops # <<>>
  <2> DEFINE r == [call |-> call, state |-> "chained"]
  <2>1. r \in OpRecord /\ r.call = call /\ r.state = "chained"
    BY DEF OpRecord, OpState
  <2>2. Chain(call) = Append(ops, r)
    BY <1>2 DEF Chain
  <2> HIDE DEF r
  <2> QED BY <1>0, <2>1, <2>2 DEF IsOps
<1> QED BY <1>1, <1>2

(* An operation that another caller shares.                                *)
LEMMA SharedType ==
  ASSUME TypeOK, NEW call \in Operation, IsQueued(call)
  PROVE  /\ IsOps(Shared(call))
         /\ DOMAIN Shared(call) = DOMAIN ops
         /\ \A i \in DOMAIN ops :
              /\ Shared(call)[i].state = ops[i].state
              /\ Shared(call)[i].call.operation = ops[i].call.operation
              /\ ops[i].call.on \subseteq Shared(call)[i].call.on
              /\ ops[i].call.editor => Shared(call)[i].call.editor
<1>0. ops \in Seq(OpRecord) /\ IsOps(ops) /\ Len(ops) \in DOMAIN ops
  BY DEF TypeOK, IsOps, OpRecord, IsQueued
<1> DEFINE n == Len(ops)
           c == ops[n].call
           c2 == [operation |-> c.operation, on |-> c.on \union call.on,
                  editor |-> c.editor \/ call.editor]
           r == [call |-> c2, state |-> ops[n].state]
<1>1. \A i \in DOMAIN ops : ops[i] \in OpRecord /\ ops[i].call \in Operation
  <2>1. \A i \in DOMAIN ops : ops[i] \in OpRecord
    BY <1>0
  <2> QED BY <2>1, RecordTypes
<1>2. c2 \in Operation
  BY <1>0, <1>1 DEF Operation
<1>3. r \in OpRecord
  BY <1>0, <1>1, <1>2 DEF OpRecord
<1>4. Shared(call) = [ops EXCEPT ![n] = r]
  <2>1. Shared(call) = [ops EXCEPT ![n] = [ops[n] EXCEPT !.call = c2]]
    BY <1>0 DEF Shared, Call
  <2>2. ops[n] \in OpRecord
    BY <1>0
  <2>3. [ops[n] EXCEPT !.call = c2] = r
    BY <2>2, RecordTypes
  <2> QED BY <2>1, <2>3
<1>5. r.state = ops[n].state /\ r.call.operation = c.operation /\ c.on \subseteq r.call.on
      /\ (c.editor => r.call.editor)
  OBVIOUS
<1> HIDE DEF r
<1> QED BY <1>0, <1>3, <1>4, <1>5 DEF IsOps

(* Enqueueing an operation keeps the types of the queue.                   *)
LEMMA EnqueueType ==
  ASSUME TypeOK, NEW call \in Operation, Enqueue(call)
  PROVE  IsOps(ops') /\ flushing' \subseteq Operation
<1>1. IsOps(ops)
  BY DEF TypeOK, IsOps, OpRecord
<1> QED BY <1>1, ChainType DEF Enqueue, TypeOK

(* The calls the editor and the handlers make are operations.              *)
LEMMA CallTypes ==
  /\ \A k \in Pauses, o \in Operations : Call(o, {k}, FALSE) \in Operation
  /\ TypeOK => \A o \in Operations : Call(o, {view} \ {0}, TRUE) \in Operation
  BY DEF Call, Operation, TypeOK, Pauses

(* The type invariant, conjunct by conjunct.                               *)
LEMMA TypeIs ==
  TypeOK <=> /\ pausedDetails \in 0 .. MaxPauses
             /\ handler \in [Pauses -> {"idle", "deciding", "details", "smart", "telling", "over"}]
             /\ IsOps(ops)
             /\ flushing \subseteq Operation
             /\ refreshing \in 0 .. MaxPauses
             /\ clearing \subseteq 0 .. MaxPauses
             /\ v8 \in 0 .. MaxPauses
             /\ paused \in 0 .. MaxPauses
             /\ wire \in Seq(V8Message)
             /\ view \in 0 .. MaxPauses
             /\ requests \in 0 .. MaxRequests
             /\ disturbance \in {"none", "hasty", "refresh", "reload"}
  BY DEF TypeOK, IsOps, OpRecord, V8Message

(* The types hold at the start.                                            *)
LEMMA TypeInit == Init => TypeOK
  BY ThreadPauseAssumption, TypeIs DEF Init, IsOps

(* Every step keeps the types.                                             *)
LEMMA TypeNext ==
  ASSUME TypeOK, OneResponse, [Next]_vars
  PROVE  TypeOK'
<1> USE DEF queueVars, v8Vars, editorVars
<1>0. /\ IsOps(ops) /\ flushing \subseteq Operation /\ wire \in Seq(V8Message)
      /\ handler \in [Pauses -> {"idle", "deciding", "details", "smart", "telling", "over"}]
      /\ pausedDetails \in 0 .. MaxPauses /\ view \in 0 .. MaxPauses
      /\ refreshing \in 0 .. MaxPauses /\ clearing \subseteq 0 .. MaxPauses
      /\ v8 \in 0 .. MaxPauses /\ paused \in 0 .. MaxPauses /\ requests \in 0 .. MaxRequests
  BY TypeIs
<1>t. /\ IsOps(ops') /\ flushing' \subseteq Operation /\ wire' \in Seq(V8Message)
      /\ handler' \in [Pauses -> {"idle", "deciding", "details", "smart", "telling", "over"}]
      /\ pausedDetails' \in 0 .. MaxPauses /\ view' \in 0 .. MaxPauses
      /\ refreshing' \in 0 .. MaxPauses /\ clearing' \subseteq 0 .. MaxPauses
      /\ v8' \in 0 .. MaxPauses /\ paused' \in 0 .. MaxPauses /\ requests' \in 0 .. MaxRequests
      /\ disturbance' \in {"none", "hasty", "refresh", "reload"}
      => TypeOK'
  BY DEF TypeOK, IsOps, OpRecord, V8Message
<1>u. UNCHANGED ops => IsOps(ops')
  BY <1>0
<1>d. UNCHANGED disturbance => disturbance' \in {"none", "hasty", "refresh", "reload"}
  BY DEF TypeOK
<1>w. wire # <<>> => wire[1] \in V8Message /\ Tail(wire) \in Seq(V8Message)
  BY <1>0
<1>p. 0 \in 0 .. MaxPauses /\ \A k \in Pauses : k \in 0 .. MaxPauses
  BY ThreadPauseAssumption DEF Pauses
<1>1. ASSUME SendStep PROVE TypeOK'
  <2>1. ops' = [ops EXCEPT ![1].state = "sent"] /\ ops # <<>>
    BY <1>1 DEF SendStep
  <2>2. IsOps(ops')
    <3> DEFINE r == [ops[1] EXCEPT !.state = "sent"]
    <3>1. ops[1] \in OpRecord /\ ops' = [ops EXCEPT ![1] = r]
      BY <1>0, <2>1 DEF IsOps
    <3>2. r \in OpRecord
      BY <3>1, RecordTypes DEF OpState
    <3> HIDE DEF r
    <3>3. ops # <<>>
      BY <2>1
    <3> QED BY <1>0, <3>1, <3>2, <3>3 DEF IsOps
  <2> QED BY <1>0, <1>1, <1>t, <1>d, <2>2 DEF SendStep
<1>2. ASSUME Complete PROVE TypeOK'
  <2> DEFINE rest == Tail(ops)
  <2>1. ops # <<>>
    BY <1>2 DEF Complete, MicrotaskPending
  <2>2. rest \in Seq(OpRecord) /\ \A i \in DOMAIN rest : rest[i].state = "chained"
    BY <1>0, <2>1 DEF IsOps
  <2>3. ops' = IF rest = <<>> THEN rest ELSE [rest EXCEPT ![1] = Started(rest[1].call)]
    BY <1>2 DEF Complete
  <2>4. \A call \in Operation : Started(call) \in OpRecord
    BY DEF Started, OpRecord, OpState
  <2> HIDE DEF rest
  <2>5. rest # <<>> => rest[1].call \in Operation
    <3>1. rest # <<>> => rest[1] \in OpRecord
      BY <2>2
    <3> QED BY <3>1, RecordTypes
  <2>6. IsOps(ops')
    BY <2>2, <2>3, <2>4, <2>5 DEF IsOps
  <2>7. view' \in 0 .. MaxPauses
    <3>1. view' \in {0, view}
      BY <1>2 DEF Complete
    <3> QED BY <1>0, <1>p, <3>1
  <2> QED BY <1>0, <1>2, <1>t, <1>d, <2>6, <2>7 DEF Complete
<1>3. ASSUME Responded PROVE TypeOK'
  <2>1. /\ wire' = Tail(wire) /\ wire # <<>>
        /\ \E s \in {"done", "failed"} : ops' = [ops EXCEPT ![1].state = s]
    BY <1>3 DEF Responded, Hears
  <2>2. PICK s \in {"done", "failed"} : ops' = [ops EXCEPT ![1].state = s]
    BY <2>1
  <2>3. IsOps(ops')
    <3> DEFINE r == [ops[1] EXCEPT !.state = s]
    <3>1. ops # <<>>
      <4>1. wire # <<>> /\ Head(wire).kind \in {"done", "failed"}
        BY <1>3 DEF Responded, Hears
      <4>2. 1 \in DOMAIN wire /\ Head(wire) = wire[1]
        BY <1>0, <4>1
      <4> QED BY <4>1, <4>2 DEF OneResponse, InWire
    <3>2. ops[1] \in OpRecord /\ ops' = [ops EXCEPT ![1] = r]
      BY <1>0, <2>2, <3>1 DEF IsOps
    <3>3. r \in OpRecord
      BY <3>2, RecordTypes DEF OpState
    <3> HIDE DEF r
    <3> QED BY <1>0, <3>1, <3>2, <3>3 DEF IsOps
  <2> QED BY <1>0, <1>3, <1>t, <1>d, <1>w, <2>1, <2>3 DEF Responded
<1>4. ASSUME OnResumed PROVE TypeOK'
  BY <1>0, <1>4, <1>t, <1>d, <1>u, <1>w, <1>p DEF OnResumed, Hears
<1>5. ASSUME OnPaused PROVE TypeOK'
  <2>1. wire # <<>> /\ wire' = Tail(wire) /\ wire[1].kind = "paused"
    BY <1>5 DEF OnPaused, Hears
  <2>2. wire[1].of \in Pauses
    BY <1>w, <2>1 DEF V8Message
  <2>3. handler' \in [Pauses -> {"idle", "deciding", "details", "smart", "telling", "over"}]
    BY <1>0, <1>5 DEF OnPaused
  <2> QED BY <1>0, <1>5, <1>t, <1>d, <1>u, <1>w, <2>1, <2>3 DEF OnPaused
<1>6. ASSUME ContextsCleared PROVE TypeOK'
  BY <1>0, <1>6, <1>t, <1>d, <1>u, <1>w, <1>p DEF ContextsCleared, Hears
<1>7. ASSUME ContextsShutDown PROVE TypeOK'
  BY <1>0, <1>7, <1>t, <1>d, <1>u, <1>p DEF ContextsShutDown
<1>8. ASSUME Refreshed PROVE TypeOK'
  BY <1>0, <1>8, <1>t, <1>d, <1>u, <1>p DEF Refreshed
<1>9. ASSUME NEW call \in flushing, Flushed(call) PROVE TypeOK'
  <2>1. call \in Operation
    BY <1>0
  <2>2. IsOps(ops')
    BY <1>9, <2>1, ChainType, SharedType DEF Flushed
  <2> QED BY <1>0, <1>9, <1>t, <1>d, <2>2 DEF Flushed
<1>10. ASSUME NEW k \in Pauses, Decide(k) PROVE TypeOK'
  <2>1. handler' \in [Pauses -> {"idle", "deciding", "details", "smart", "telling", "over"}]
    BY <1>0, <1>10 DEF Decide
  <2>2. IsOps(ops') /\ flushing' \subseteq Operation
    BY <1>0, <1>u, <1>10, EnqueueType, CallTypes DEF Decide, Operations
  <2> QED BY <1>0, <1>10, <1>t, <1>d, <2>1, <2>2 DEF Decide
<1>11. ASSUME NEW k \in Pauses, CreatePausedDetails(k) PROVE TypeOK'
  BY <1>0, <1>11, <1>t, <1>d, <1>u, <1>p DEF CreatePausedDetails
<1>12. ASSUME NEW k \in Pauses, SmartStep(k) PROVE TypeOK'
  <2>1. handler' \in [Pauses -> {"idle", "deciding", "details", "smart", "telling", "over"}]
    BY <1>0, <1>12 DEF SmartStep
  <2>2. IsOps(ops') /\ flushing' \subseteq Operation
    BY <1>0, <1>u, <1>12, EnqueueType, CallTypes DEF SmartStep, Operations
  <2> QED BY <1>0, <1>12, <1>t, <1>d, <2>1, <2>2 DEF SmartStep
<1>13. ASSUME NEW k \in Pauses, Tell(k) PROVE TypeOK'
  BY <1>0, <1>13, <1>t, <1>d, <1>u, <1>p DEF Tell
<1>14. ASSUME V8Pauses PROVE TypeOK'
  <2>1. paused' = paused + 1 /\ v8' = paused' /\ paused < MaxPauses
        /\ wire' = Append(wire, [kind |-> "paused", of |-> paused'])
    BY <1>14 DEF V8Pauses
  <2>2. paused' \in Pauses
    BY <1>0, <2>1, ThreadPauseAssumption DEF Pauses
  <2>3. [kind |-> "paused", of |-> paused'] \in V8Message
    BY <2>2 DEF V8Message
  <2>4. wire' \in Seq(V8Message)
    BY <1>0, <2>1, <2>3
  <2> QED BY <1>0, <1>14, <1>t, <1>d, <1>u, <1>p, <2>1, <2>2, <2>4 DEF V8Pauses
<1>15. ASSUME V8Obeys PROVE TypeOK'
  <2>1. \A kind \in {"done", "failed", "resumed", "cleared"} : Message(kind) \in V8Message
    BY DEF Message, V8Message
  <2>2. wire' \in Seq(V8Message)
    <3>1. \A m \in V8Message : Append(wire, m) \in Seq(V8Message)
      BY <1>0
    <3>2. \A m, n \in V8Message : wire \o <<m, n>> \in Seq(V8Message)
      BY <1>0
    <3>3. \/ wire' = Append(wire, Message("done"))
          \/ wire' = wire \o <<Message("done"), Message("resumed")>>
          \/ wire' = Append(wire, Message("failed"))
      BY <1>15 DEF V8Obeys
    <3> QED BY <2>1, <3>1, <3>2, <3>3
  <2>3. v8' \in 0 .. MaxPauses
    BY <1>0, <1>15, <1>p DEF V8Obeys
  <2> QED BY <1>0, <1>15, <1>t, <1>d, <1>u, <2>2, <2>3 DEF V8Obeys
<1>16. ASSUME V8Reloads PROVE TypeOK'
  <2>1. Message("cleared") \in V8Message
    BY DEF Message, V8Message
  <2>2. wire' \in Seq(V8Message)
    BY <1>0, <1>16, <2>1 DEF V8Reloads
  <2>3. disturbance' \in {"none", "hasty", "refresh", "reload"}
    BY <1>16 DEF V8Reloads, Disturb
  <2> QED BY <1>0, <1>16, <1>t, <1>u, <1>p, <2>2, <2>3 DEF V8Reloads
<1>17. ASSUME Refresh PROVE TypeOK'
  <2>3. disturbance' \in {"none", "hasty", "refresh", "reload"}
    BY <1>17 DEF Refresh, Disturb
  <2> QED BY <1>0, <1>17, <1>t, <1>u, <1>p, <2>3 DEF Refresh
<1>18. ASSUME NEW operation \in Operations, EditorRequests(operation) PROVE TypeOK'
  <2>1. IsOps(ops') /\ flushing' \subseteq Operation
    BY <1>0, <1>18, EnqueueType, CallTypes DEF EditorRequests
  <2>2. disturbance' \in {"none", "hasty", "refresh", "reload"}
    BY <1>18, <1>d DEF EditorRequests, Disturb
  <2>3. requests' \in 0 .. MaxRequests
    BY <1>0, <1>18, ThreadPauseAssumption DEF EditorRequests
  <2> QED BY <1>0, <1>18, <1>t, <2>1, <2>2, <2>3 DEF EditorRequests
<1>19. CASE UNCHANGED vars
  BY <1>0, <1>19, <1>t, <1>u, <1>d DEF vars
<1> QED
  BY <1>1, <1>2, <1>3, <1>4, <1>5, <1>6, <1>7, <1>8, <1>9, <1>10, <1>11, <1>12, <1>13, <1>14,
     <1>15, <1>16, <1>17, <1>18, <1>19 DEF Next, Adapter, Handle

-----------------------------------------------------------------------------
(* What the steps do to the operations and to the wire.                    *)

LEMMA StateOfFirst ==
  ASSUME TypeOK, NEW st \in OpState, ops # <<>>, ops' = [ops EXCEPT ![1].state = st]
  PROVE  /\ ops' # <<>> /\ DOMAIN ops' = DOMAIN ops /\ 1 \in DOMAIN ops
         /\ ops'[1].state = st
         /\ \A i \in DOMAIN ops : ops'[i].call = ops[i].call
         /\ \A i \in DOMAIN ops : i # 1 => ops'[i] = ops[i]
<1> DEFINE r == [ops[1] EXCEPT !.state = st]
<1>0. ops \in Seq(OpRecord) /\ 1 \in DOMAIN ops
  BY DEF TypeOK, OpRecord
<1>1. ops[1] \in OpRecord /\ ops' = [ops EXCEPT ![1] = r]
  BY <1>0
<1>2. r.state = st /\ r.call = ops[1].call
  BY <1>1 DEF OpRecord
<1> HIDE DEF r
<1>3. ops' # <<>>
  BY <1>0, <1>1
<1> QED BY <1>0, <1>1, <1>2, <1>3

(* Sending a request changes the state of the first operation only.        *)
LEMMA SendStepOps ==
  ASSUME TypeOK, SendStep
  PROVE  /\ ops # <<>> /\ ops[1].state = "starting"
         /\ ops' # <<>> /\ DOMAIN ops' = DOMAIN ops /\ 1 \in DOMAIN ops
         /\ ops'[1].state = "sent"
         /\ \A i \in DOMAIN ops : ops'[i].call = ops[i].call
         /\ \A i \in DOMAIN ops : i # 1 => ops'[i] = ops[i]
<1>1. ops # <<>> /\ ops[1].state = "starting"
  BY DEF SendStep
<1>2. ops' = [ops EXCEPT ![1].state = "sent"]
  BY DEF SendStep
<1> QED BY <1>1, <1>2, StateOfFirst DEF OpState

(* A response changes the state of the first operation only.               *)
LEMMA RespondedOps ==
  ASSUME TypeOK, OneResponse, Responded
  PROVE  /\ wire # <<>> /\ wire' = Tail(wire)
         /\ ops # <<>> /\ ops[1].state = "sent"
         /\ ops' # <<>> /\ DOMAIN ops' = DOMAIN ops /\ 1 \in DOMAIN ops
         /\ wire[1].kind \in {"done", "failed"} /\ ops'[1].state = wire[1].kind
         /\ \A i \in DOMAIN ops : ops'[i].call = ops[i].call
         /\ \A i \in DOMAIN ops : i # 1 => ops'[i] = ops[i]
<1>1. /\ wire # <<>> /\ wire' = Tail(wire)
      /\ wire[1].kind \in {"done", "failed"}
  BY DEF Responded, Hears
<1>2. ops' = [ops EXCEPT ![1].state = wire[1].kind]
  BY DEF Responded, Hears
<1>3. 1 \in DOMAIN wire
  BY <1>1 DEF TypeOK
<1>4. ops # <<>> /\ ops[1].state = "sent"
  BY <1>1, <1>3 DEF OneResponse, InWire
<1>5. wire[1].kind \in OpState
  BY <1>1 DEF OpState
<1> QED BY <1>1, <1>2, <1>4, <1>5, StateOfFirst

(* A completed operation leaves the queue; the others move up by one.      *)
LEMMA CompleteOps ==
  ASSUME TypeOK, Complete
  PROVE  /\ ops # <<>> /\ ops[1].state \in {"done", "failed"} /\ 1 \in DOMAIN ops
         /\ \A i \in DOMAIN ops' :
              /\ i + 1 \in DOMAIN ops /\ i + 1 # 1
              /\ ops'[i].call = ops[i + 1].call
              /\ ops'[i].state \in {"chained", "starting", "sent"}
         /\ \A i \in DOMAIN ops : i # 1 => i - 1 \in DOMAIN ops' /\ (i - 1) + 1 = i
         /\ \A i, j \in DOMAIN ops' : i + 1 = j + 1 => i = j
<1> DEFINE rest == Tail(ops)
<1>0. ops \in Seq(OpRecord) /\ \A i \in DOMAIN ops : i # 1 => ops[i].state = "chained"
  BY DEF TypeOK, OpRecord
<1>1. ops # <<>> /\ ops[1].state \in {"done", "failed"}
  BY DEF Complete, MicrotaskPending
<1>2. /\ rest \in Seq(OpRecord) /\ DOMAIN rest = 1 .. Len(ops) - 1 /\ DOMAIN ops = 1 .. Len(ops)
      /\ Len(ops) \in Nat /\ \A i \in DOMAIN rest : rest[i] = ops[i + 1]
  BY <1>0, <1>1
<1>3. ops' = IF rest = <<>> THEN rest ELSE [rest EXCEPT ![1] = Started(rest[1].call)]
  BY DEF Complete
<1> HIDE DEF rest
<1>4. /\ Started(rest[1].call).call = rest[1].call
      /\ Started(rest[1].call).state \in {"starting", "sent"}
  BY DEF Started
<1>5. DOMAIN ops' = DOMAIN rest
  BY <1>2, <1>3
<1>6. ASSUME NEW i \in DOMAIN rest
      PROVE  ops'[i].call = rest[i].call /\ ops'[i].state \in {"chained", "starting", "sent"}
  <2>1. rest # <<>>
    BY <1>2
  <2>2. rest[i].state = "chained"
    BY <1>0, <1>2
  <2> QED BY <1>2, <1>3, <1>4, <2>1, <2>2
<1>7. \A i \in DOMAIN ops' :
        /\ i + 1 \in DOMAIN ops /\ i + 1 # 1
        /\ ops'[i].call = ops[i + 1].call
        /\ ops'[i].state \in {"chained", "starting", "sent"}
  BY <1>2, <1>5, <1>6
<1>8. \A i \in DOMAIN ops : i # 1 => i - 1 \in DOMAIN ops' /\ (i - 1) + 1 = i
  BY <1>2, <1>5
<1>9. 1 \in DOMAIN ops /\ \A i, j \in DOMAIN ops' : i + 1 = j + 1 => i = j
  BY <1>0, <1>1, <1>2, <1>5
<1> QED BY <1>1, <1>7, <1>8, <1>9

(* The first message is read.                                              *)
LEMMA WireTail ==
  ASSUME TypeOK, wire # <<>>, wire' = Tail(wire)
  PROVE  /\ 1 \in DOMAIN wire
         /\ \A i \in DOMAIN wire' : i + 1 \in DOMAIN wire /\ i + 1 > 1 /\ wire'[i] = wire[i + 1]
         /\ \A i, j \in DOMAIN wire' : (i + 1 = j + 1 <=> i = j) /\ (i + 1 < j + 1 <=> i < j)
         /\ \A i \in DOMAIN wire : i # 1 => i - 1 \in DOMAIN wire' /\ wire'[i - 1] = wire[i]
         /\ \A kind : InWire(kind)' => InWire(kind)
         /\ \A kind : InWire(kind) /\ wire[1].kind # kind => InWire(kind)'
<1>0. wire \in Seq(V8Message)
  BY DEF TypeOK, V8Message
<1>1. /\ 1 \in DOMAIN wire /\ DOMAIN wire = 1 .. Len(wire) /\ DOMAIN wire' = 1 .. Len(wire) - 1
      /\ Len(wire) \in Nat
      /\ \A i \in 1 .. Len(wire) - 1 : wire'[i] = wire[i + 1]
  BY <1>0
<1>2. \A i \in DOMAIN wire' : i + 1 \in DOMAIN wire /\ i + 1 > 1 /\ wire'[i] = wire[i + 1]
  BY <1>1
<1>3. \A i, j \in DOMAIN wire' : (i + 1 = j + 1 <=> i = j) /\ (i + 1 < j + 1 <=> i < j)
  BY <1>1
<1>4. \A i \in DOMAIN wire : i # 1 => i - 1 \in DOMAIN wire' /\ wire'[i - 1] = wire[i]
  <2> SUFFICES ASSUME NEW i \in 1 .. Len(wire), i # 1
               PROVE  i - 1 \in 1 .. Len(wire) - 1 /\ wire'[i - 1] = wire[i]
    BY <1>1
  <2>1. i - 1 \in 1 .. Len(wire) - 1 /\ (i - 1) + 1 = i
    BY <1>1
  <2> QED BY <1>1, <2>1
<1>5. \A kind : InWire(kind)' => InWire(kind)
  BY <1>2 DEF InWire
<1>6. \A kind : InWire(kind) /\ wire[1].kind # kind => InWire(kind)'
  BY <1>4 DEF InWire
<1> QED BY <1>1, <1>2, <1>3, <1>4, <1>5, <1>6

(* V8 sends a message.                                                     *)
LEMMA WireAppend ==
  ASSUME TypeOK, NEW m \in V8Message, wire' = Append(wire, m)
  PROVE  \E n :
           /\ DOMAIN wire' = DOMAIN wire \union {n}
           /\ n \notin DOMAIN wire /\ wire'[n] = m
           /\ \A i \in DOMAIN wire : wire'[i] = wire[i] /\ i < n /\ ~(n < i)
<1>0. wire \in Seq(V8Message)
  BY DEF TypeOK, V8Message
<1> DEFINE n == Len(wire) + 1
<1>1. /\ DOMAIN wire = 1 .. Len(wire) /\ Len(wire) \in Nat /\ DOMAIN wire' = 1 .. n
      /\ wire'[n] = m /\ \A i \in DOMAIN wire : wire'[i] = wire[i]
  BY <1>0
<1>2. 1 .. n = (1 .. Len(wire)) \union {n} /\ n \notin 1 .. Len(wire)
  BY <1>1
<1>3. \A i \in DOMAIN wire : i < n /\ ~(n < i)
  BY <1>1
<1> QED BY <1>1, <1>2, <1>3

(* V8 leaves a pause.                                                      *)
LEMMA WireAppendTwo ==
  ASSUME TypeOK, NEW m1 \in V8Message, NEW m2 \in V8Message, wire' = wire \o <<m1, m2>>
  PROVE  \E n1, n2 :
           /\ DOMAIN wire' = DOMAIN wire \union {n1, n2}
           /\ n1 \notin DOMAIN wire /\ n2 \notin DOMAIN wire /\ n1 # n2
           /\ wire'[n1] = m1 /\ wire'[n2] = m2
           /\ \A i \in DOMAIN wire : wire'[i] = wire[i]
<1>0. wire \in Seq(V8Message)
  BY DEF TypeOK, V8Message
<1> DEFINE n1 == Len(wire) + 1
           n2 == Len(wire) + 2
<1>1. /\ DOMAIN wire = 1 .. Len(wire) /\ Len(wire) \in Nat /\ DOMAIN wire' = 1 .. n2
      /\ wire'[n1] = m1 /\ wire'[n2] = m2 /\ \A i \in DOMAIN wire : wire'[i] = wire[i]
  BY <1>0
<1>2. /\ 1 .. n2 = (1 .. Len(wire)) \union {n1, n2} /\ n1 # n2
      /\ n1 \notin 1 .. Len(wire) /\ n2 \notin 1 .. Len(wire)
  BY <1>1
<1> QED BY <1>1, <1>2

(* The messages without details are messages of V8.                        *)
LEMMA MessageTypes ==
  \A kind \in {"done", "failed", "resumed", "cleared"} :
    Message(kind) \in V8Message /\ Message(kind).kind = kind
  BY DEF Message, V8Message

-----------------------------------------------------------------------------
(* V8 answers once.                                                        *)

LEMMA OneResponseNext ==
  ASSUME TypeOK, OneResponse, [Next]_vars
  PROVE  OneResponse'
<1> USE DEF queueVars, v8Vars, editorVars
<1>u. UNCHANGED <<ops, wire>> => OneResponse'
  BY DEF OneResponse, InWire
<1>e. ASSUME NEW call \in Operation, wire' = wire, ops' = ops \/ ops' = Chain(call)
      PROVE  OneResponse'
  <2>1. CASE ops' = Chain(call)
    <3>1. ops # <<>> => 1 \in DOMAIN ops
      BY DEF TypeOK
    <3>2. ops # <<>> => ops' # <<>> /\ ops'[1] = ops[1]
      BY <2>1, <3>1, ChainType DEF TypeOK, IsOps
    <3> QED BY <1>e, <3>2 DEF OneResponse, InWire
  <2> QED BY <1>e, <1>u, <2>1
<1>h. ASSUME wire # <<>>, wire' = Tail(wire), ops' = ops
      PROVE  OneResponse'
  BY <1>h, WireTail DEF OneResponse
<1>1. ASSUME SendStep PROVE OneResponse'
  <2>1. wire' = wire
    BY <1>1 DEF SendStep
  <2> QED BY <1>1, <2>1, SendStepOps DEF OneResponse, InWire
<1>2. ASSUME Complete PROVE OneResponse'
  <2>1. wire' = wire
    BY <1>2 DEF Complete
  <2> QED BY <1>2, <2>1, CompleteOps DEF OneResponse, InWire
<1>3. ASSUME Responded PROVE OneResponse'
  <2>1. ~InWire("done")' /\ ~InWire("failed")'
    BY <1>3, RespondedOps, WireTail DEF OneResponse, InWire
  <2> QED BY <1>3, <2>1, RespondedOps, WireTail DEF OneResponse
<1>4. ASSUME OnResumed \/ OnPaused \/ ContextsCleared PROVE OneResponse'
  BY <1>4, <1>h DEF OnResumed, OnPaused, ContextsCleared, Hears
<1>5. ASSUME ContextsShutDown \/ Refreshed \/ Refresh PROVE OneResponse'
  BY <1>5, <1>u DEF ContextsShutDown, Refreshed, Refresh
<1>6. ASSUME NEW call \in flushing, Flushed(call) PROVE OneResponse'
  <2>1. call \in Operation /\ wire' = wire
    BY <1>6 DEF TypeOK, Flushed
  <2>2. CASE ops' = Chain(call)
    BY <1>e, <2>1, <2>2
  <2>3. CASE IsQueued(call) /\ ops' = Shared(call)
    <3>1. DOMAIN ops' = DOMAIN ops /\ \A i \in DOMAIN ops : ops'[i].state = ops[i].state
      BY <2>1, <2>3, SharedType
    <3>2. 1 \in DOMAIN ops
      BY <2>3 DEF IsQueued, TypeOK
    <3> QED BY <2>1, <3>1, <3>2 DEF OneResponse, InWire
  <2> QED BY <1>6, <2>2, <2>3 DEF Flushed
<1>7. ASSUME NEW k \in Pauses, Handle(k) PROVE OneResponse'
  <2>1. \E call \in Operation : ops' = ops \/ ops' = Chain(call)
    BY <1>7, CallTypes
       DEF Handle, Decide, CreatePausedDetails, SmartStep, Tell, Enqueue, Operations
  <2>2. wire' = wire
    BY <1>7 DEF Handle, Decide, CreatePausedDetails, SmartStep, Tell
  <2> QED BY <1>e, <2>1, <2>2
<1>8. ASSUME V8Pauses PROVE OneResponse'
  <2>1. wire' = Append(wire, [kind |-> "paused", of |-> paused']) /\ ops' = ops
    BY <1>8 DEF V8Pauses
  <2>2. [kind |-> "paused", of |-> paused'] \in V8Message
    BY <1>8, ThreadPauseAssumption DEF V8Message, V8Pauses, TypeOK, Pauses
  <2>3. [kind |-> "paused", of |-> paused'].kind = "paused"
    OBVIOUS
  <2> QED BY <2>1, <2>2, <2>3, WireAppend DEF OneResponse, InWire
<1>9. ASSUME V8Obeys PROVE OneResponse'
  <2>1. /\ ops # <<>> /\ ops[1].state = "sent" /\ ops' = ops
        /\ \A i \in DOMAIN wire : wire[i].kind \notin {"done", "failed"}
        /\ \/ wire' = Append(wire, Message("done"))
           \/ wire' = wire \o <<Message("done"), Message("resumed")>>
           \/ wire' = Append(wire, Message("failed"))
    BY <1>9 DEF V8Obeys
  <2>2. ASSUME NEW kind \in {"done", "failed"}, wire' = Append(wire, Message(kind))
        PROVE  OneResponse'
    <3>1. Message(kind) \in V8Message
      BY MessageTypes
    <3>2. PICK n : /\ DOMAIN wire' = DOMAIN wire \union {n}
                   /\ \A i \in DOMAIN wire : wire'[i] = wire[i]
      BY <2>2, <3>1, WireAppend
    <3> QED BY <2>1, <3>2 DEF OneResponse
  <2>3. CASE wire' = wire \o <<Message("done"), Message("resumed")>>
    <3>0. Message("done") \in V8Message /\ Message("resumed") \in V8Message
      BY MessageTypes
    <3>1. PICK n1, n2 : /\ DOMAIN wire' = DOMAIN wire \union {n1, n2}
                        /\ n1 \notin DOMAIN wire /\ n2 \notin DOMAIN wire /\ n1 # n2
                        /\ wire'[n1] = Message("done") /\ wire'[n2] = Message("resumed")
                        /\ \A i \in DOMAIN wire : wire'[i] = wire[i]
      BY <2>3, <3>0, WireAppendTwo
    <3> QED BY <2>1, <3>1, MessageTypes DEF OneResponse
  <2> QED BY <2>1, <2>2, <2>3
<1>10. ASSUME V8Reloads PROVE OneResponse'
  <2>1. wire' = Append(wire, Message("cleared")) /\ ops' = ops
    BY <1>10 DEF V8Reloads
  <2> QED BY <2>1, MessageTypes, WireAppend DEF OneResponse, InWire
<1>11. ASSUME NEW operation \in Operations, EditorRequests(operation) PROVE OneResponse'
  <2>1. \E call \in Operation : ops' = ops \/ ops' = Chain(call)
    BY <1>11, CallTypes DEF EditorRequests, Enqueue
  <2>2. wire' = wire
    BY <1>11 DEF EditorRequests
  <2> QED BY <1>e, <2>1, <2>2
<1>12. CASE UNCHANGED vars
  BY <1>12, <1>u DEF vars
<1> QED
  BY <1>1, <1>2, <1>3, <1>4, <1>5, <1>6, <1>7, <1>8, <1>9, <1>10, <1>11, <1>12
     DEF Next, Adapter

-----------------------------------------------------------------------------
(* A calm run.                                                             *)

(* An operation that starts or is chained.                                 *)
LEMMA ChainAdds ==
  ASSUME TypeOK, OneResponse, NEW call \in Operation, wire' = wire, ops' = Chain(call)
  PROVE  /\ Obeyed' <=> Obeyed
         /\ Obeyed => ops'[1] = ops[1]
         /\ \A i \in DOMAIN ops : ops'[i] = ops[i]
         /\ \E n : /\ n \notin Pending /\ DOMAIN ops' = DOMAIN ops \union {n}
                   /\ ops'[n].call = call /\ ops'[n].state # "failed"
                   /\ Pending' = IF Moves(call) THEN Pending \union {n} ELSE Pending
<1> DEFINE n == Len(ops) + 1
<1>0. ops \in Seq(OpRecord) /\ ops' \in Seq(OpRecord) /\ Len(ops') = n
  BY ChainType DEF TypeOK, OpRecord, IsOps
<1>1. /\ DOMAIN ops' = DOMAIN ops \union {n} /\ n \notin DOMAIN ops
      /\ ops # <<>> <=> 1 \in DOMAIN ops
      /\ ops # <<>> => n # 1
      /\ ops = <<>> => n = 1
      /\ ops' # <<>>
  BY <1>0
<1>2. /\ \A i \in DOMAIN ops : ops'[i] = ops[i]
      /\ ops'[n].call = call /\ ops'[n].state \in {"chained", "starting", "sent"}
  BY ChainType
<1> HIDE DEF n
<1>3. ops = <<>> => ~Obeyed /\ ~Obeyed'
  BY <1>1, <1>2 DEF Obeyed, OneResponse, InWire
<1>4. ops # <<>> => (Obeyed' <=> Obeyed) /\ ops'[1] = ops[1]
  BY <1>1, <1>2 DEF Obeyed, InWire
<1>5. Pending' = IF Moves(call) THEN Pending \union {n} ELSE Pending
  <2>1. \A i \in DOMAIN ops : i \in Pending' <=> i \in Pending
    BY <1>1, <1>2, <1>3, <1>4 DEF Pending
  <2>2. n \in Pending' <=> Moves(call)
    BY <1>1, <1>2, <1>3, <1>4 DEF Pending
  <2>3. Pending \subseteq DOMAIN ops /\ Pending' \subseteq DOMAIN ops \union {n}
    BY <1>1 DEF Pending
  <2>4. \A i : i \in Pending' <=> i \in Pending \/ (i = n /\ Moves(call))
    BY <1>1, <2>1, <2>2, <2>3
  <2> QED BY <2>4
<1>6. n \notin Pending
  BY <1>1 DEF Pending
<1> QED BY <1>1, <1>2, <1>3, <1>4, <1>5, <1>6

(* A request to go on, when there is none.                                 *)
LEMMA EnqueueMove ==
  ASSUME TypeOK, OneResponse, NothingFails, NEW call \in Operation, Moves(call),
         Enqueue(call), wire' = wire, UNCHANGED <<refreshing, clearing>>,
         Pending = {}, Waiting = {}, MeantForThePause(call)'
  PROVE  /\ OneMove' /\ NothingFails'
         /\ Pending' # {} \/ Waiting' # {}
         /\ Obeyed' <=> Obeyed
         /\ Obeyed => ops'[1] = ops[1]
<1>1. CASE flushing' = flushing \union {call} /\ UNCHANGED ops
  <2>1. Waiting' = {call}
    BY <1>1 DEF Waiting
  <2>2. (Obeyed' <=> Obeyed) /\ Pending' = {}
    BY <1>1 DEF Obeyed, Pending, InWire
  <2> QED BY <1>1, <2>1, <2>2 DEF OneMove, NothingFails
<1>2. CASE ops' = Chain(call) /\ UNCHANGED flushing
  <2>1. PICK n : /\ DOMAIN ops' = DOMAIN ops \union {n}
                 /\ ops'[n].call = call /\ ops'[n].state # "failed"
                 /\ Pending' = IF Moves(call) THEN Pending \union {n} ELSE Pending
    BY <1>2, ChainAdds
  <2>5. Pending' = {n}
    BY <2>1
  <2>2. Waiting' = {}
    BY <1>2 DEF Waiting
  <2>3. OneMove'
    BY <2>1, <2>2, <2>5 DEF OneMove, MeantForThePause
  <2>4. NothingFails'
    BY <1>2, <2>1, ChainAdds DEF NothingFails
  <2> QED BY <1>2, <2>3, <2>4, <2>5, ChainAdds
<1> QED BY <1>1, <1>2 DEF Enqueue

(* A request to pause.                                                     *)
LEMMA EnqueuePause ==
  ASSUME TypeOK, OneResponse, NothingFails, NEW call \in Operation, ~Moves(call),
         Enqueue(call), wire' = wire, UNCHANGED <<refreshing, clearing>>
  PROVE  /\ NothingFails'
         /\ Pending' = Pending /\ Waiting' = Waiting
         /\ \A i \in Pending : ops'[i] = ops[i]
         /\ Obeyed' <=> Obeyed
         /\ Obeyed => ops'[1] = ops[1]
<1>1. CASE flushing' = flushing \union {call} /\ UNCHANGED ops
  BY <1>1 DEF Waiting, Obeyed, Pending, InWire, NothingFails
<1>2. CASE ops' = Chain(call) /\ UNCHANGED flushing
  <2>1. Waiting' = Waiting
    BY <1>2 DEF Waiting
  <2>2. Pending' = Pending
    BY <1>2, ChainAdds
  <2>3. NothingFails'
    BY <1>2, ChainAdds DEF NothingFails
  <2>4. \A i \in Pending : i \in DOMAIN ops
    BY DEF Pending
  <2> QED BY <1>2, <2>1, <2>2, <2>3, <2>4, ChainAdds
<1> QED BY <1>1, <1>2 DEF Enqueue

(* Who hears nothing keeps the order of what is heard.                     *)
LEMMA HeardFrame ==
  ASSUME TypeOK, OneResponse, HeardInOrder, UNCHANGED <<v8, paused, wire>>,
         Obeyed => ops'[1].call.operation = ops[1].call.operation,
         \A k \in Pauses : \/ handler'[k] = handler[k]
                           \/ handler[k] \notin {"idle", "over"} /\ handler'[k] # "idle"
  PROVE  HeardInOrder'
<1>1. InWire("done") => Obeyed
  BY DEF OneResponse, Obeyed
<1>2. \A i \in DOMAIN wire : wire[i].kind = "done" => InWire("done")
  BY DEF InWire
<1>3. \A kind : InWire(kind)' <=> InWire(kind)
  BY DEF InWire
<1>4. v8 # 0 => v8 \in Pauses
  BY ThreadPauseAssumption DEF TypeOK, Pauses
<1>5. \A k \in Pauses : k > paused => k # v8
  BY ThreadPauseAssumption DEF HeardInOrder, TypeOK, Pauses
<1>6. /\ v8' \in {0, paused'}
      /\ \A k \in Pauses : k > paused => handler'[k] = "idle"
      /\ \A k \in Pauses : handler'[k] \in {"idle", "over"} \/ k = v8
  BY <1>5 DEF HeardInOrder
<1>7. v8 # 0 /\ handler'[v8] = "idle" => InWire("paused")
  BY <1>4 DEF HeardInOrder
<1>8. v8 # 0 /\ handler'[v8] # "idle" =>
       /\ ~InWire("paused") /\ ~InWire("resumed")
       /\ InWire("done") => ~Moves(ops'[1].call)
  BY <1>1, <1>4 DEF HeardInOrder, Moves
<1>9. \A i \in DOMAIN wire : wire[i].kind = "paused" =>
       /\ wire[i].of = v8
       /\ \A j \in DOMAIN wire : wire[j].kind = "paused" => i = j
       /\ \A j \in DOMAIN wire : wire[j].kind = "resumed" => j < i
       /\ \A j \in DOMAIN wire : wire[j].kind = "done" /\ Moves(ops'[1].call) => j < i
  BY <1>1, <1>2 DEF HeardInOrder, Moves
<1> QED BY <1>3, <1>6, <1>7, <1>8, <1>9 DEF HeardInOrder

(* Nothing of what matters has changed.                                    *)
LEMMA CalmFrame ==
  ASSUME TypeOK, OneResponse, CalmInv,
         UNCHANGED <<v8, paused, wire, view, handler, pausedDetails, refreshing, clearing>>,
         NothingFails', Pending' = Pending, Waiting' = Waiting, Obeyed' <=> Obeyed,
         \A i \in Pending : /\ ops[i].call.on \subseteq ops'[i].call.on
                            /\ ops[i].call.editor => ops'[i].call.editor,
         Obeyed => /\ ops'[1].call.operation = ops[1].call.operation
                   /\ ops[1].call.editor => ops'[1].call.editor
  PROVE  CalmInv'
<1>1. HeardInOrder'
  BY HeardFrame DEF CalmInv
<1>2. OneMove'
  BY DEF CalmInv, OneMove, MeantForThePause
<1>3. Shown'
  BY DEF CalmInv, Shown, Moves
<1> QED BY <1>1, <1>2, <1>3 DEF CalmInv

-----------------------------------------------------------------------------
(* The adapter hears of V8.                                                *)

LEMMA CallsAreOperations ==
  ASSUME TypeOK
  PROVE  /\ \A i \in DOMAIN ops : ops[i].call \in Operation
         /\ \A call \in Waiting : call \in Operation
<1>1. ops \in Seq(OpRecord)
  BY DEF TypeOK, OpRecord
<1>2. \A i \in DOMAIN ops : ops[i] \in OpRecord
  BY <1>1
<1> QED BY <1>2, RecordTypes DEF Waiting, TypeOK

(* What a message that is read leaves of the order.                        *)
LEMMA HeardTail ==
  ASSUME TypeOK, OneResponse, HeardInOrder, UNCHANGED <<v8, paused, handler>>,
         wire # <<>>, wire' = Tail(wire), wire[1].kind # "paused",
         Obeyed => ops'[1].call = ops[1].call
  PROVE  HeardInOrder'
<1>1. InWire("done") => Obeyed
  BY DEF OneResponse, Obeyed
<1>2. \A i \in DOMAIN wire' : wire'[i].kind = "done" => Obeyed
  BY <1>1, WireTail DEF InWire
<1>3. InWire("paused")' <=> InWire("paused")
  BY WireTail
<1>4. v8 # 0 /\ handler[v8] # "idle" =>
       /\ ~InWire("paused")' /\ ~InWire("resumed")'
       /\ InWire("done")' => ~Moves(ops'[1].call)
  BY <1>1, WireTail DEF HeardInOrder
<1>5. ASSUME NEW i \in DOMAIN wire', wire'[i].kind = "paused"
      PROVE  /\ wire'[i].of = v8
             /\ \A j \in DOMAIN wire' : wire'[j].kind = "paused" => i = j
             /\ \A j \in DOMAIN wire' : wire'[j].kind = "resumed" => j < i
             /\ \A j \in DOMAIN wire' : wire'[j].kind = "done" /\ Moves(ops'[1].call) => j < i
  <2>1. /\ i + 1 \in DOMAIN wire /\ wire[i + 1].kind = "paused" /\ wire'[i] = wire[i + 1]
    BY <1>5, WireTail
  <2>2. /\ wire[i + 1].of = v8
        /\ \A j \in DOMAIN wire : wire[j].kind = "paused" => i + 1 = j
        /\ \A j \in DOMAIN wire : wire[j].kind = "resumed" => j < i + 1
        /\ \A j \in DOMAIN wire : wire[j].kind = "done" /\ Moves(ops[1].call) => j < i + 1
    BY <2>1 DEF HeardInOrder
  <2> QED BY <1>2, <2>1, <2>2, WireTail
<1> QED BY <1>3, <1>4, <1>5 DEF HeardInOrder

(* The invariant of a calm run survives the sending of a request.          *)
LEMMA SendStepCalm ==
  ASSUME TypeOK, OneResponse, CalmInv, SendStep
  PROVE  CalmInv'
<1>1. UNCHANGED <<v8, paused, wire, view, handler, pausedDetails, refreshing, clearing, flushing>>
  BY DEF SendStep, v8Vars, editorVars
<1>2. ~Obeyed /\ ~Obeyed'
  BY <1>1, SendStepOps DEF Obeyed, OneResponse, InWire
<1>3. Pending' = Pending /\ Waiting' = Waiting
  BY <1>1, <1>2, SendStepOps DEF Pending, Waiting
<1>4. NothingFails'
  BY <1>1, SendStepOps DEF NothingFails, CalmInv
<1>5. \A i \in Pending : i \in DOMAIN ops
  BY DEF Pending
<1> QED BY <1>1, <1>2, <1>3, <1>4, <1>5, SendStepOps, CalmFrame

(* The invariant of a calm run survives the response.                      *)
LEMMA RespondedCalm ==
  ASSUME TypeOK, OneResponse, CalmInv, Responded
  PROVE  CalmInv'
<1>1. UNCHANGED <<v8, paused, view, handler, pausedDetails, refreshing, clearing, flushing>>
  BY DEF Responded, editorVars
<1>2. /\ wire # <<>> /\ wire' = Tail(wire) /\ wire[1].kind = "done" /\ 1 \in DOMAIN wire
      /\ ops'[1].state = "done" /\ ops' # <<>> /\ ops # <<>>
      /\ DOMAIN ops' = DOMAIN ops /\ 1 \in DOMAIN ops
      /\ \A i \in DOMAIN ops : ops'[i].call = ops[i].call
      /\ \A i \in DOMAIN ops : i # 1 => ops'[i] = ops[i]
  BY RespondedOps, WireTail DEF CalmInv, NothingFails
<1>3. Obeyed /\ Obeyed'
  BY <1>2 DEF Obeyed, InWire
<1>4. Pending' = Pending /\ Waiting' = Waiting
  BY <1>1, <1>2, <1>3 DEF Pending, Waiting
<1>5. NothingFails'
  BY <1>1, <1>2, WireTail DEF NothingFails, CalmInv
<1>6. \A i \in Pending : i \in DOMAIN ops
  BY DEF Pending
<1>7. HeardInOrder'
  BY <1>1, <1>2, HeardTail DEF CalmInv
<1>8. OneMove'
  BY <1>1, <1>2, <1>4, <1>6 DEF CalmInv, OneMove, MeantForThePause
<1>9. Shown'
  BY <1>1, <1>2, <1>3, <1>4 DEF CalmInv, Shown
<1> QED BY <1>5, <1>7, <1>8, <1>9 DEF CalmInv

(* The invariant of a calm run survives the completion of an operation.    *)
LEMMA CompleteCalm ==
  ASSUME TypeOK, OneResponse, CalmInv, Complete
  PROVE  CalmInv'
<1>1. UNCHANGED <<v8, paused, wire, handler, pausedDetails, refreshing, clearing, flushing>>
  BY DEF Complete, v8Vars
<1>2. ops # <<>> /\ ops[1].state = "done" /\ 1 \in DOMAIN ops
  BY CompleteOps DEF CalmInv, NothingFails
<1>3. ~InWire("done") /\ Obeyed
  BY <1>2 DEF OneResponse, Obeyed
<1>4. ~Obeyed'
  <2>1. \A s : IsOps(s) /\ s # <<>> => 1 \in DOMAIN s
    BY DEF IsOps
  <2>2. IsOps(ops')
    <3>1. TypeOK'
      BY TypeNext DEF Next, Adapter
    <3> QED BY <3>1 DEF TypeOK, IsOps, OpRecord
  <2> QED BY <1>1, <1>3, <2>1, <2>2, CompleteOps DEF Obeyed, InWire
<1>5. \A i \in DOMAIN ops' : i \in Pending' <=> i + 1 \in Pending
  BY <1>4, CompleteOps DEF Pending
<1>6. Pending' \subseteq DOMAIN ops' /\ \A i \in Pending : i \in DOMAIN ops /\ i # 1
  BY <1>2, <1>3 DEF Pending
<1>7. \A i \in Pending : i - 1 \in Pending'
  BY <1>5, <1>6, CompleteOps
<1>8. Waiting' = Waiting
  BY <1>1 DEF Waiting
<1>9. NothingFails'
  BY <1>1, CompleteOps DEF NothingFails, CalmInv
<1>10. HeardInOrder'
  <2>1. \A i \in DOMAIN wire : wire[i].kind # "done"
    BY <1>3 DEF InWire
  <2> QED BY <1>1, <1>3, <2>1 DEF CalmInv, HeardInOrder, InWire
<1>11. view' = IF ops[1].call.editor /\ Moves(ops[1].call) THEN 0 ELSE view
  BY <1>2 DEF Complete, Moves
<1>12. OneMove'
  <2>1. \A call : v8 \in call.on /\ call \in Operation => v8 # 0
    BY ThreadPauseAssumption DEF Operation, Pauses
  <2>2. \A i \in DOMAIN ops : ops[i].call \in Operation
    BY CallsAreOperations
  <2>3. \A call \in Operation : MeantForThePause(call) => MeantForThePause(call)'
    BY <1>1, <1>11, <2>1 DEF MeantForThePause
  <2>4. ASSUME NEW i \in Pending' PROVE MeantForThePause(ops[i].call)'
    <3>1. i \in DOMAIN ops' /\ i + 1 \in Pending /\ i + 1 \in DOMAIN ops
      BY <1>5, <1>6
    <3>2. ops'[i].call = ops[i + 1].call
      BY <3>1, CompleteOps
    <3>3. MeantForThePause(ops[i + 1].call)
      BY <3>1 DEF CalmInv, OneMove
    <3> QED BY <1>1, <1>11, <2>1, <2>2, <3>1, <3>2, <3>3 DEF MeantForThePause
  <2>5. \A i, j \in Pending' : i = j
    BY <1>5, <1>6, CompleteOps DEF CalmInv, OneMove
  <2>6. Pending = {} => Pending' = {}
    BY <1>5, <1>6
  <2>7. \A call \in Waiting : call \in Operation
    BY CallsAreOperations
  <2>8. \A call \in Waiting' : MeantForThePause(call)'
    BY <1>8, <2>3, <2>7 DEF CalmInv, OneMove
  <2> QED BY <1>8, <2>4, <2>5, <2>6, <2>8 DEF CalmInv, OneMove
<1>13. Shown'
  <2>1. Pending # {} => Pending' # {}
    BY <1>7
  <2> QED BY <1>1, <1>3, <1>4, <1>8, <1>11, <2>1 DEF CalmInv, Shown
<1> QED BY <1>9, <1>10, <1>12, <1>13 DEF CalmInv

(* The invariant of a calm run survives the resumed event.                 *)
LEMMA OnResumedCalm ==
  ASSUME TypeOK, OneResponse, CalmInv, OnResumed
  PROVE  CalmInv'
<1>1. /\ UNCHANGED <<v8, paused, handler, refreshing, clearing, ops, flushing>>
      /\ view' = 0 /\ pausedDetails' = 0
      /\ wire # <<>> /\ wire' = Tail(wire) /\ wire[1].kind = "resumed"
  BY DEF OnResumed, Hears, queueVars
<1>2. InWire("resumed")
  BY <1>1, WireTail DEF InWire
<1>3. Obeyed' <=> Obeyed
  BY <1>1, WireTail DEF Obeyed
<1>4. Pending' = Pending /\ Waiting' = Waiting
  BY <1>1, <1>3 DEF Pending, Waiting
<1>5. NothingFails'
  BY <1>1, WireTail DEF NothingFails, CalmInv
<1>6. HeardInOrder'
  BY <1>1, HeardTail DEF CalmInv
<1>7. v8 = 0 \/ handler[v8] = "idle"
  BY <1>2 DEF CalmInv, HeardInOrder
<1>8. \A k \in Pauses : k # 0
  BY DEF Pauses
<1>9. Pending = {} /\ Waiting = {}
  <2>1. \A call \in Operation : ~MeantForThePause(call)
    BY <1>7, <1>8 DEF MeantForThePause, Operation
  <2>2. \A i \in DOMAIN ops : ops[i].call \in Operation
    BY CallsAreOperations
  <2>3. \A call \in Waiting : call \in Operation
    BY CallsAreOperations
  <2>4. \A i \in Pending : i \in DOMAIN ops
    BY DEF Pending
  <2> QED BY <2>1, <2>2, <2>3, <2>4 DEF CalmInv, OneMove
<1>10. OneMove'
  BY <1>4, <1>9 DEF OneMove
<1>11. Shown'
  BY <1>1, <1>7, <1>8 DEF CalmInv, Shown, HeardInOrder
<1> QED BY <1>5, <1>6, <1>10, <1>11 DEF CalmInv

(* The invariant of a calm run survives the paused event.                  *)
LEMMA OnPausedCalm ==
  ASSUME TypeOK, OneResponse, CalmInv, OnPaused
  PROVE  CalmInv'
<1>1. /\ UNCHANGED <<v8, paused, view, pausedDetails, refreshing, clearing, ops, flushing>>
      /\ handler' = [handler EXCEPT ![wire[1].of] = "deciding"]
      /\ wire # <<>> /\ wire' = Tail(wire) /\ wire[1].kind = "paused"
  <2>1. wire # <<>> /\ wire' = Tail(wire) /\ wire[1].kind = "paused"
    BY DEF OnPaused, Hears
  <2>2. handler' = [handler EXCEPT ![Head(wire).of] = "deciding"] /\ Head(wire) = wire[1]
    BY <2>1 DEF OnPaused
  <2>3. UNCHANGED <<v8, paused, view, pausedDetails, refreshing, clearing, ops, flushing>>
    BY DEF OnPaused, queueVars, editorVars
  <2> QED BY <2>1, <2>2, <2>3
<1>2. /\ InWire("paused") /\ 1 \in DOMAIN wire /\ wire[1].of = v8
      /\ \A j \in DOMAIN wire : wire[j].kind = "paused" => 1 = j
      /\ \A j \in DOMAIN wire : wire[j].kind = "resumed" => j < 1
      /\ \A j \in DOMAIN wire : wire[j].kind = "done" /\ Moves(ops[1].call) => j < 1
  BY <1>1, WireTail DEF InWire, CalmInv, HeardInOrder
<1>3. v8 \in Pauses /\ v8 # 0
  <2>1. wire[1] \in V8Message
    BY <1>2 DEF TypeOK, V8Message
  <2> QED BY <1>1, <1>2, <2>1 DEF V8Message, Pauses
<1>4. handler[v8] = "idle"
  BY <1>2, <1>3 DEF CalmInv, HeardInOrder
<1>5. handler'[v8] = "deciding" /\ \A k \in Pauses \ {v8} : handler'[k] = handler[k]
  BY <1>1, <1>2, <1>3 DEF TypeOK
<1>6. Obeyed' <=> Obeyed
  BY <1>1, WireTail DEF Obeyed
<1>7. Pending' = Pending /\ Waiting' = Waiting
  BY <1>1, <1>6 DEF Pending, Waiting
<1>8. Pending = {} /\ Waiting = {}
  BY <1>4 DEF CalmInv, OneMove, MeantForThePause
<1>9. NothingFails'
  BY <1>1, WireTail DEF NothingFails, CalmInv
<1>10. ~InWire("paused")' /\ ~InWire("resumed")' /\ (InWire("done")' => ~Moves(ops[1].call))
  <2>1. \A i \in DOMAIN wire' :
          i + 1 \in DOMAIN wire /\ ~(i + 1 < 1) /\ i + 1 # 1 /\ wire'[i] = wire[i + 1]
    BY <1>1, WireTail DEF TypeOK
  <2> QED BY <1>2, <2>1 DEF InWire
<1>11. HeardInOrder'
  <2>1. \A i \in DOMAIN wire' : wire'[i].kind # "paused"
    BY <1>10 DEF InWire
  <2>2. ~(v8 > paused)
    BY <1>3, ThreadPauseAssumption DEF CalmInv, HeardInOrder, TypeOK
  <2> QED BY <1>1, <1>3, <1>5, <1>10, <2>1, <2>2 DEF CalmInv, HeardInOrder
<1>12. OneMove'
  BY <1>7, <1>8 DEF OneMove
<1>13. Shown'
  <2>1. view # 0 => view \in Pauses
    BY ThreadPauseAssumption DEF TypeOK, Pauses
  <2>2. view # v8
    BY <1>3, <1>4 DEF CalmInv, Shown
  <2> QED BY <1>1, <1>3, <1>5, <1>6, <2>1, <2>2 DEF CalmInv, Shown
<1> QED BY <1>9, <1>11, <1>12, <1>13 DEF CalmInv

-----------------------------------------------------------------------------
(* The queue looks again, the handler of a pause, V8, the editor.          *)

LEMMA SharedKeeps ==
  ASSUME TypeOK, OneResponse, NEW call \in Operation, IsQueued(call),
         wire' = wire, ops' = Shared(call)
  PROVE  /\ Obeyed' <=> Obeyed
         /\ Pending' = Pending
         /\ ops # <<>> => ops' # <<>>
         /\ DOMAIN ops' = DOMAIN ops
         /\ \A i \in DOMAIN ops :
              /\ ops'[i].state = ops[i].state
              /\ ops'[i].call.operation = ops[i].call.operation
              /\ ops[i].call.on \subseteq ops'[i].call.on
              /\ ops[i].call.editor => ops'[i].call.editor
<1>0. ops \in Seq(OpRecord) /\ ops' \in Seq(OpRecord)
  BY SharedType DEF TypeOK, OpRecord, IsOps
<1>1. /\ DOMAIN ops' = DOMAIN ops
      /\ \A i \in DOMAIN ops :
              /\ ops'[i].state = ops[i].state
              /\ ops'[i].call.operation = ops[i].call.operation
              /\ ops[i].call.on \subseteq ops'[i].call.on
              /\ ops[i].call.editor => ops'[i].call.editor
  BY SharedType
<1>2. (ops # <<>> <=> 1 \in DOMAIN ops) /\ (ops' # <<>> <=> 1 \in DOMAIN ops')
  BY <1>0
<1>3. Obeyed' <=> Obeyed
  BY <1>1, <1>2 DEF Obeyed, InWire
<1>4. Pending' = Pending
  BY <1>1, <1>3 DEF Pending, Moves
<1> QED BY <1>1, <1>2, <1>3, <1>4

(* The invariant of a calm run survives the flush of the queue.            *)
LEMMA FlushedCalm ==
  ASSUME TypeOK, OneResponse, CalmInv, NEW call \in flushing, Flushed(call)
  PROVE  CalmInv'
<1>0. call \in Operation /\ ~MicrotaskPending
  BY DEF TypeOK, Flushed
<1>1. /\ UNCHANGED <<v8, paused, wire, view, handler, pausedDetails, refreshing, clearing>>
      /\ flushing' = flushing \ {call}
  BY DEF Flushed, v8Vars, editorVars
<1>2. ops' = IF IsQueued(call) THEN Shared(call) ELSE Chain(call)
  BY DEF Flushed
<1>3. \A i \in Pending : i \in DOMAIN ops
  BY DEF Pending
<1>4. Obeyed => 1 \in DOMAIN ops
  BY DEF Obeyed, TypeOK
<1>5. CASE ~Moves(call)
  <2>1. Waiting' = Waiting
    BY <1>1, <1>5 DEF Waiting
  <2>2. CASE IsQueued(call)
    <3>1. NothingFails'
      BY <1>0, <1>1, <1>2, <2>2, SharedKeeps DEF CalmInv, NothingFails
    <3> QED BY <1>0, <1>1, <1>2, <1>3, <1>4, <2>1, <2>2, <3>1, SharedKeeps, CalmFrame
  <2>3. CASE ~IsQueued(call)
    <3>1. NothingFails'
      BY <1>0, <1>1, <1>2, <2>3, ChainAdds DEF CalmInv, NothingFails
    <3>2. Pending' = Pending
      BY <1>0, <1>1, <1>2, <1>5, <2>3, ChainAdds
    <3> QED BY <1>0, <1>1, <1>2, <1>3, <1>4, <2>1, <2>3, <3>1, <3>2, ChainAdds, CalmFrame
  <2> QED BY <2>2, <2>3
<1>6. CASE Moves(call)
  <2>1. call \in Waiting /\ Waiting = {call} /\ Pending = {} /\ MeantForThePause(call)
    BY <1>6 DEF Waiting, CalmInv, OneMove
  <2>2. v8 # 0 /\ handler[v8] = "over"
    BY <1>0, <2>1 DEF MeantForThePause, Operation, Pauses
  <2>3. Obeyed => ~Moves(ops[1].call)
    BY <1>0, <2>2 DEF Obeyed, MicrotaskPending, CalmInv, HeardInOrder
  <2>4. ~IsQueued(call)
    <3>1. ops # <<>> => Len(ops) \in DOMAIN ops
      BY DEF TypeOK
    <3> QED BY <1>6, <2>1, <2>3, <3>1 DEF IsQueued, Pending, Moves
  <2>5. PICK n : /\ DOMAIN ops' = DOMAIN ops \union {n}
                 /\ ops'[n].call = call /\ ops'[n].state # "failed"
                 /\ Pending' = IF Moves(call) THEN Pending \union {n} ELSE Pending
    BY <1>0, <1>1, <1>2, <2>4, ChainAdds
  <2>6. Pending' = {n} /\ Waiting' = {}
    BY <1>1, <1>6, <2>1, <2>5 DEF Waiting
  <2>7. (Obeyed' <=> Obeyed) /\ (Obeyed => ops'[1] = ops[1])
        /\ \A i \in DOMAIN ops : ops'[i] = ops[i]
    BY <1>0, <1>1, <1>2, <2>4, ChainAdds
  <2>8. MeantForThePause(ops'[n].call)
    BY <2>1, <2>5
  <2>9. OneMove'
    BY <1>1, <2>6, <2>8 DEF OneMove, MeantForThePause
  <2>10. NothingFails'
    BY <1>1, <2>5, <2>7 DEF NothingFails, CalmInv
  <2>11. HeardInOrder'
    BY <1>1, <2>7, HeardFrame DEF CalmInv
  <2>12. Shown'
    BY <1>1, <2>6, <2>7 DEF CalmInv, Shown
  <2> QED BY <2>9, <2>10, <2>11, <2>12 DEF CalmInv
<1> QED BY <1>5, <1>6

(* A handler at work is that of the pause V8 is in, which nobody else has  *)
(* asked to leave and the editor does not show.                            *)
LEMMA AtWork ==
  ASSUME TypeOK, CalmInv, NEW k \in Pauses, handler[k] \notin {"idle", "over"}
  PROVE  /\ k = v8 /\ v8 # 0 /\ Pending = {} /\ Waiting = {} /\ view # v8
         /\ \A j \in Pauses : j # k => handler[j] \in {"idle", "over"}
         /\ InWire("done") => ~Moves(ops[1].call)
<1>1. k = v8 /\ v8 # 0
  BY ThreadPauseAssumption DEF CalmInv, HeardInOrder, Pauses
<1>2. Pending = {} /\ Waiting = {}
  BY <1>1 DEF CalmInv, OneMove, MeantForThePause
<1> QED BY <1>1, <1>2 DEF CalmInv, HeardInOrder, Shown

(* It gets on with its work.                                               *)
LEMMA GetsOn ==
  ASSUME TypeOK, OneResponse, CalmInv, NEW k \in Pauses, handler[k] \notin {"idle", "over"},
         NEW h \in {"details", "smart", "telling"}, handler' = [handler EXCEPT ![k] = h],
         UNCHANGED <<v8, paused, wire, view, ops, flushing, refreshing, clearing>>,
         h = "smart" => pausedDetails' = k
  PROVE  CalmInv'
<1>1. handler'[k] = h /\ \A j \in Pauses : j # k => handler'[j] = handler[j]
  BY DEF TypeOK
<1>2. (Obeyed' <=> Obeyed) /\ Pending' = Pending /\ Waiting' = Waiting /\ NothingFails'
  BY DEF Obeyed, InWire, Pending, Waiting, NothingFails, CalmInv
<1>3. HeardInOrder'
  BY <1>1, <1>2, HeardFrame DEF CalmInv
<1>4. OneMove'
  BY <1>2, AtWork DEF OneMove
<1>5. view # 0 => view \in Pauses
  BY ThreadPauseAssumption DEF TypeOK, Pauses
<1>6. Shown'
  BY <1>1, <1>2, <1>5, AtWork DEF CalmInv, Shown
<1> QED BY <1>2, <1>3, <1>4, <1>6 DEF CalmInv

(* It wants V8 to go on.                                                   *)
LEMMA WantsToGoOn ==
  ASSUME TypeOK, OneResponse, CalmInv, NEW k \in Pauses, handler[k] \notin {"idle", "over"},
         handler' = [handler EXCEPT ![k] = "over"],
         NEW operation \in {"resume", "stepOver"}, Enqueue(Call(operation, {k}, FALSE)),
         UNCHANGED <<v8, paused, wire, view, pausedDetails, refreshing, clearing>>
  PROVE  CalmInv'
<1> DEFINE call == Call(operation, {k}, FALSE)
<1>1. handler'[k] = "over" /\ \A j \in Pauses : j # k => handler'[j] = handler[j]
  BY DEF TypeOK
<1>2. call \in Operation /\ Moves(call) /\ call.on = {k} /\ Enqueue(call)
  BY CallTypes DEF Operations, Moves, Call
<1> HIDE DEF call
<1>3. MeantForThePause(call)'
  BY <1>1, <1>2, AtWork DEF MeantForThePause
<1>4. /\ OneMove' /\ NothingFails'
      /\ Pending' # {} \/ Waiting' # {}
      /\ Obeyed' <=> Obeyed
      /\ Obeyed => ops'[1] = ops[1]
  BY <1>2, <1>3, AtWork, EnqueueMove DEF CalmInv
<1>5. HeardInOrder'
  BY <1>1, <1>4, HeardFrame DEF CalmInv
<1>6. view # 0 => view \in Pauses
  BY ThreadPauseAssumption DEF TypeOK, Pauses
<1>7. Shown'
  BY <1>1, <1>4, <1>6, AtWork DEF CalmInv, Shown
<1> QED BY <1>4, <1>5, <1>7 DEF CalmInv

(* The invariant of a calm run survives the step of the handler of a pause.*)
LEMMA HandleCalm ==
  ASSUME TypeOK, OneResponse, CalmInv, NEW k \in Pauses, Handle(k)
  PROVE  CalmInv'
<1> USE DEF queueVars, v8Vars, editorVars
<1>1. ASSUME Decide(k) PROVE CalmInv'
  <2>1. handler[k] \notin {"idle", "over"}
    BY <1>1 DEF Decide
  <2>2. UNCHANGED <<v8, paused, wire, view, pausedDetails, refreshing, clearing>>
    BY <1>1 DEF Decide
  <2>3. CASE handler' = [handler EXCEPT ![k] = "over"] /\ Enqueue(Call("resume", {k}, FALSE))
    BY <2>1, <2>2, <2>3, WantsToGoOn
  <2>4. CASE handler' = [handler EXCEPT ![k] = "details"] /\ UNCHANGED queueVars
    BY <2>1, <2>2, <2>4, GetsOn
  <2> QED BY <1>1, <2>3, <2>4 DEF Decide
<1>2. ASSUME CreatePausedDetails(k) PROVE CalmInv'
  <2>1. handler[k] \notin {"idle", "over"}
    BY <1>2 DEF CreatePausedDetails
  <2> QED BY <1>2, <2>1, GetsOn DEF CreatePausedDetails
<1>3. ASSUME SmartStep(k) PROVE CalmInv'
  <2>1. handler[k] \notin {"idle", "over"} /\ pausedDetails = k
    BY <1>3 DEF SmartStep, CalmInv, Shown
  <2>2. UNCHANGED <<v8, paused, wire, view, pausedDetails, refreshing, clearing>>
    BY <1>3 DEF SmartStep
  <2>3. CASE handler' = [handler EXCEPT ![k] = "over"] /\ Enqueue(Call("resume", {k}, FALSE))
    BY <2>1, <2>2, <2>3, WantsToGoOn
  <2>4. CASE handler' = [handler EXCEPT ![k] = "over"] /\ Enqueue(Call("stepOver", {k}, FALSE))
    BY <2>1, <2>2, <2>4, WantsToGoOn
  <2>5. CASE handler' = [handler EXCEPT ![k] = "telling"] /\ UNCHANGED queueVars
    BY <2>1, <2>2, <2>5, GetsOn
  <2> QED BY <1>3, <2>1, <2>3, <2>4, <2>5 DEF SmartStep
<1>4. ASSUME Tell(k) PROVE CalmInv'
  <2>1. /\ UNCHANGED <<v8, paused, wire, ops, flushing, pausedDetails, refreshing, clearing>>
        /\ view' = k /\ handler' = [handler EXCEPT ![k] = "over"]
        /\ handler[k] \notin {"idle", "over"} /\ ~MicrotaskPending
    BY <1>4 DEF Tell
  <2>2. handler'[k] = "over" /\ \A j \in Pauses : j # k => handler'[j] = handler[j]
    BY <2>1 DEF TypeOK
  <2>3. (Obeyed' <=> Obeyed) /\ Pending' = Pending /\ Waiting' = Waiting /\ NothingFails'
    BY <2>1 DEF Obeyed, InWire, Pending, Waiting, NothingFails, CalmInv
  <2>4. HeardInOrder'
    BY <2>1, <2>2, <2>3, HeardFrame DEF CalmInv
  <2>5. OneMove'
    BY <2>1, <2>3, AtWork DEF OneMove
  <2>6. ~(Obeyed /\ Moves(ops[1].call))
    BY <2>1, AtWork DEF Obeyed, MicrotaskPending, CalmInv, NothingFails
  <2>7. Shown'
    BY <2>1, <2>2, <2>3, <2>6, AtWork DEF CalmInv, Shown
  <2> QED BY <2>3, <2>4, <2>5, <2>7 DEF CalmInv
<1> QED BY <1>1, <1>2, <1>3, <1>4 DEF Handle
-----------------------------------------------------------------------------
(* V8 and the editor.                                                      *)

LEMMA NothingAsked ==
  ASSUME TypeOK, CalmInv, v8 = 0
  PROVE  Pending = {} /\ Waiting = {}
<1>1. \A call \in Operation : ~MeantForThePause(call)
  BY DEF MeantForThePause, Operation, Pauses
<1>2. \A i \in Pending : i \in DOMAIN ops
  BY DEF Pending
<1> QED BY <1>1, <1>2, CallsAreOperations DEF CalmInv, OneMove

(* The invariant of a calm run survives the pause of V8.                   *)
LEMMA V8PausesCalm ==
  ASSUME TypeOK, OneResponse, CalmInv, V8Pauses
  PROVE  CalmInv'
<1> DEFINE m == [kind |-> "paused", of |-> paused + 1]
<1>1. /\ UNCHANGED <<pausedDetails, handler, ops, flushing, refreshing, clearing, view>>
      /\ v8 = 0 /\ paused < MaxPauses /\ paused' = paused + 1 /\ v8' = paused + 1
      /\ wire' = Append(wire, m)
  BY DEF V8Pauses, queueVars, editorVars
<1>2. v8' \in Pauses /\ v8' # 0 /\ v8' > paused /\ \A k \in Pauses : k > v8' => k > paused
  BY <1>1, ThreadPauseAssumption DEF Pauses, TypeOK
<1>3. m \in V8Message /\ m.kind = "paused" /\ m.of = v8'
  BY <1>1, <1>2 DEF V8Message
<1> HIDE DEF m
<1>4. PICK n : /\ DOMAIN wire' = DOMAIN wire \union {n}
               /\ n \notin DOMAIN wire /\ wire'[n] = m
               /\ \A i \in DOMAIN wire : wire'[i] = wire[i] /\ i < n /\ ~(n < i)
  BY <1>1, <1>3, WireAppend
<1>5. InWire("paused")' /\ \A kind : kind # "paused" => (InWire(kind)' <=> InWire(kind))
  BY <1>3, <1>4 DEF InWire
<1>6. (Obeyed' <=> Obeyed) /\ Pending' = {} /\ Waiting' = {}
  BY <1>1, <1>5, NothingAsked DEF Obeyed, Pending, Waiting
<1>7. NothingFails'
  BY <1>1, <1>3, <1>4 DEF NothingFails, CalmInv
<1>8. \A k \in Pauses : handler[k] \in {"idle", "over"}
  BY <1>1 DEF CalmInv, HeardInOrder, Pauses
<1>9. handler[v8'] = "idle"
  BY <1>2 DEF CalmInv, HeardInOrder
<1>10. \A i \in DOMAIN wire : wire[i].kind # "paused"
  <2>1. wire \in Seq(V8Message)
    BY DEF TypeOK, V8Message
  <2>2. \A i \in DOMAIN wire : wire[i] \in V8Message
    BY <2>1
  <2>3. \A i \in DOMAIN wire : wire[i].kind = "paused" => wire[i].of \in Pauses
    BY <2>2 DEF V8Message
  <2> QED BY <1>1, <2>3 DEF CalmInv, HeardInOrder, Pauses
<1>11. HeardInOrder'
  <2>1. ASSUME NEW i \in DOMAIN wire', wire'[i].kind = "paused"
        PROVE  /\ wire'[i].of = v8'
               /\ \A j \in DOMAIN wire' : wire'[j].kind = "paused" => i = j
               /\ \A j \in DOMAIN wire' : wire'[j].kind = "resumed" => j < i
               /\ \A j \in DOMAIN wire' : wire'[j].kind = "done" /\ Moves(ops[1].call) => j < i
    BY <1>3, <1>4, <1>10, <2>1
  <2>2. \A k \in Pauses : k > paused' => handler[k] = "idle"
    BY <1>1, <1>2 DEF CalmInv, HeardInOrder
  <2> QED BY <1>1, <1>2, <1>5, <1>8, <1>9, <2>1, <2>2 DEF HeardInOrder
<1>12. OneMove'
  BY <1>6 DEF OneMove
<1>13. Shown'
  BY <1>1, <1>2, <1>6, <1>8, <1>9 DEF CalmInv, Shown
<1> QED BY <1>7, <1>11, <1>12, <1>13 DEF CalmInv

(* What V8 is asked while it obeys.                                        *)
LEMMA Obeying ==
  ASSUME TypeOK, OneResponse, CalmInv, V8Obeys
  PROVE  /\ ~InWire("done") /\ ~Obeyed /\ 1 \in DOMAIN ops /\ ops[1].state = "sent"
         /\ UNCHANGED <<pausedDetails, handler, ops, flushing, refreshing, clearing, view, paused>>
         /\ Moves(ops[1].call) =>
              /\ Pending = {1} /\ Waiting = {} /\ v8 # 0
              /\ v8 \in ops[1].call.on /\ handler[v8] = "over" /\ (view = v8 => ops[1].call.editor)
<1>1. /\ ~InWire("done") /\ ops # <<>> /\ ops[1].state = "sent"
      /\ UNCHANGED <<pausedDetails, handler, ops, flushing, refreshing, clearing, view, paused>>
  BY DEF V8Obeys, queueVars, editorVars, InWire
<1>2. ~Obeyed /\ 1 \in DOMAIN ops
  BY <1>1 DEF Obeyed, TypeOK
<1>3. ASSUME Moves(ops[1].call)
      PROVE  Pending = {1} /\ Waiting = {} /\ v8 # 0 /\ MeantForThePause(ops[1].call)
  <2>1. 1 \in Pending
    BY <1>2, <1>3 DEF Pending
  <2> QED BY <2>1, NothingAsked DEF CalmInv, OneMove
<1> QED BY <1>1, <1>2, <1>3 DEF MeantForThePause

(* The invariant of a calm run survives the request V8 obeys.              *)
LEMMA V8ObeysCalm ==
  ASSUME TypeOK, OneResponse, CalmInv, V8Obeys
  PROVE  CalmInv'
<1>1. /\ ~InWire("done") /\ ~Obeyed /\ 1 \in DOMAIN ops /\ ops[1].state = "sent"
      /\ UNCHANGED <<pausedDetails, handler, ops, flushing, refreshing, clearing, view, paused>>
      /\ Moves(ops[1].call) =>
           /\ Pending = {1} /\ Waiting = {} /\ v8 # 0
           /\ v8 \in ops[1].call.on /\ handler[v8] = "over" /\ (view = v8 => ops[1].call.editor)
  BY Obeying
<1>2. Waiting' = Waiting
  BY <1>1 DEF Waiting
<1>3. CASE ~Moves(ops[1].call) /\ wire' = Append(wire, Message("done")) /\ UNCHANGED v8
  <2>1. PICK n : /\ DOMAIN wire' = DOMAIN wire \union {n}
                 /\ n \notin DOMAIN wire /\ wire'[n] = Message("done")
                 /\ \A i \in DOMAIN wire : wire'[i] = wire[i] /\ i < n /\ ~(n < i)
    BY <1>3, WireAppend, MessageTypes
  <2>2. wire'[n].kind = "done"
    BY <2>1, MessageTypes
  <2>3. \A kind : kind # "done" => (InWire(kind)' <=> InWire(kind))
    BY <2>1, <2>2 DEF InWire
  <2>4. Pending' = Pending
    BY <1>1, <1>3 DEF Pending
  <2>5. NothingFails'
    BY <1>1, <2>1, <2>2 DEF NothingFails, CalmInv
  <2>6. HeardInOrder'
    BY <1>1, <1>3, <2>1, <2>2, <2>3 DEF CalmInv, HeardInOrder
  <2>7. OneMove'
    BY <1>1, <1>2, <1>3, <2>4 DEF CalmInv, OneMove, MeantForThePause
  <2>8. Shown'
    BY <1>1, <1>2, <1>3, <2>4 DEF CalmInv, Shown
  <2> QED BY <2>5, <2>6, <2>7, <2>8 DEF CalmInv
<1>4. CASE Moves(ops[1].call) /\ wire' = wire \o <<Message("done"), Message("resumed")>> /\ v8' = 0
  <2>0. Message("done") \in V8Message /\ Message("resumed") \in V8Message
    BY MessageTypes
  <2> DEFINE m1 == Message("done")
             m2 == Message("resumed")
  <2>m. m1 \in V8Message /\ m2 \in V8Message /\ wire' = wire \o <<m1, m2>>
    BY <1>4, <2>0
  <2> HIDE DEF m1, m2
  <2>1. PICK n1, n2 : /\ DOMAIN wire' = DOMAIN wire \union {n1, n2}
                      /\ n1 \notin DOMAIN wire /\ n2 \notin DOMAIN wire /\ n1 # n2
                      /\ wire'[n1] = m1 /\ wire'[n2] = m2
                      /\ \A i \in DOMAIN wire : wire'[i] = wire[i]
    BY <2>m, WireAppendTwo
  <2>2. wire'[n1].kind = "done" /\ wire'[n2].kind = "resumed"
    BY <2>1, MessageTypes DEF m1, m2
  <2>3. Obeyed'
    BY <1>1, <2>1, <2>2 DEF Obeyed, InWire
  <2>4. Pending' = {}
    <3>1. \A i \in DOMAIN ops : Moves(ops[i].call) => i = 1
      BY <1>1, <1>4 DEF Pending
    <3> QED BY <1>1, <2>3, <3>1 DEF Pending
  <2>5. NothingFails'
    BY <1>1, <2>1, <2>2 DEF NothingFails, CalmInv
  <2>6. HeardInOrder'
    <3>0. \A i \in DOMAIN wire : wire[i].kind # "paused"
      BY <1>1, <1>4 DEF CalmInv, HeardInOrder, InWire
    <3>1. \A i \in DOMAIN wire' : wire'[i].kind # "paused"
      BY <2>1, <2>2, <3>0
    <3> QED BY <1>1, <1>4, <3>1 DEF CalmInv, HeardInOrder
  <2>7. OneMove'
    BY <1>1, <1>2, <1>4, <2>4 DEF OneMove
  <2>8. Shown'
    BY <1>1, <1>4, <2>3 DEF CalmInv, Shown
  <2> QED BY <2>5, <2>6, <2>7, <2>8 DEF CalmInv
<1>5. \/ ~Moves(ops[1].call) /\ wire' = Append(wire, Message("done")) /\ UNCHANGED v8
      \/ Moves(ops[1].call) /\ wire' = wire \o <<Message("done"), Message("resumed")>> /\ v8' = 0
      \/ Moves(ops[1].call) /\ v8 = 0
  BY DEF V8Obeys, Moves
<1> QED BY <1>1, <1>3, <1>4, <1>5

(* The invariant of a calm run survives the request of the editor.         *)
LEMMA EditorRequestsCalm ==
  ASSUME TypeOK, OneResponse, CalmInv, Calm, Calm',
         NEW operation \in Operations, EditorRequests(operation)
  PROVE  CalmInv'
<1>0. PICK call \in Operation : call = Call(operation, {view} \ {0}, TRUE)
  BY CallTypes
<1>1. /\ UNCHANGED <<pausedDetails, handler, refreshing, clearing, v8, paused, wire, view>>
      /\ Enqueue(call)
  BY <1>0 DEF EditorRequests, v8Vars
<1>2. call \in Operation /\ call.editor /\ call.on = {view} \ {0}
      /\ (Moves(call) <=> operation # "pause")
  BY <1>0 DEF Moves, Call
<1>3. \A i \in Pending : i \in DOMAIN ops
  BY DEF Pending
<1>4. Obeyed => 1 \in DOMAIN ops
  BY DEF Obeyed, TypeOK
<1>5. CASE operation = "pause"
  BY <1>1, <1>2, <1>3, <1>4, <1>5, EnqueuePause, CalmFrame DEF CalmInv
<1>6. CASE operation # "pause"
  <2>1. ~Awaits /\ view # 0
    BY <1>6 DEF EditorRequests, Disturb, Calm
  <2>2. view = v8 /\ handler[v8] = "over"
    BY <1>4, <2>1 DEF Awaits, CalmInv, Shown
  <2>3. Pending = {} /\ Waiting = {}
    BY <1>3, <2>1, <2>2 DEF Awaits, CalmInv, OneMove, MeantForThePause, Waiting
  <2>4. MeantForThePause(call)'
    BY <1>1, <1>2, <2>1, <2>2 DEF MeantForThePause
  <2>5. /\ OneMove' /\ NothingFails'
        /\ Pending' # {} \/ Waiting' # {}
        /\ Obeyed' <=> Obeyed
        /\ Obeyed => ops'[1] = ops[1]
    BY <1>1, <1>2, <1>6, <2>3, <2>4, EnqueueMove DEF CalmInv
  <2>6. HeardInOrder'
    BY <1>1, <2>5, HeardFrame DEF CalmInv
  <2>7. Shown'
    BY <1>1, <2>2, <2>5 DEF CalmInv, Shown
  <2> QED BY <2>5, <2>6, <2>7 DEF CalmInv
<1> QED BY <1>5, <1>6

-----------------------------------------------------------------------------
(* The invariant.                                                          *)

LEMMA InitInv == Init => Inv
<1> SUFFICES ASSUME Init PROVE Inv
  OBVIOUS
<1>1. /\ ops = <<>> /\ wire = <<>> /\ DOMAIN ops = {} /\ DOMAIN wire = {} /\ flushing = {}
      /\ v8 = 0 /\ view = 0 /\ paused = 0 /\ refreshing = 0 /\ clearing = {}
      /\ \A k \in Pauses : handler[k] = "idle"
  BY DEF Init
<1>2. Pending = {} /\ Waiting = {} /\ OneResponse
  BY <1>1 DEF Pending, Waiting, OneResponse, InWire
<1>3. NothingFails /\ HeardInOrder /\ OneMove /\ Shown
  BY <1>1, <1>2 DEF NothingFails, HeardInOrder, OneMove, Shown
<1> QED BY <1>2, <1>3, TypeInit DEF Inv, CalmInv

(* Every step keeps the invariant, calm or not.                            *)
LEMMA NextInv ==
  ASSUME Inv, [Next]_vars
  PROVE  Inv'
<1>1. TypeOK /\ OneResponse /\ TypeOK' /\ OneResponse'
  BY TypeNext, OneResponseNext DEF Inv
<1>2. ASSUME Calm' PROVE CalmInv'
  <2>1. Calm /\ CalmInv
    <3>1. Calm' => Calm
      BY DEF Calm, Next, Adapter, Handle, SendStep, Complete, Responded, OnResumed, OnPaused,
        ContextsCleared, ContextsShutDown, Refreshed, Flushed, Decide, CreatePausedDetails,
        SmartStep, Tell, V8Pauses, V8Obeys, V8Reloads, Refresh, EditorRequests, Disturb,
        editorVars, vars
    <3> QED BY <1>2, <3>1 DEF Inv
  <2>2. ~V8Reloads /\ ~Refresh
    BY <1>2 DEF V8Reloads, Refresh, Disturb, Calm
  <2>3. ~ContextsCleared /\ ~ContextsShutDown /\ ~Refreshed
    <3>1. wire # <<>> => 1 \in DOMAIN wire /\ Head(wire) = wire[1]
      BY <1>1 DEF TypeOK
    <3>2. ~ContextsCleared
      <4>1. ContextsCleared => wire # <<>> /\ Head(wire).kind = "cleared"
        BY DEF ContextsCleared, Hears
      <4>2. \A i \in DOMAIN wire : wire[i].kind # "cleared"
        BY <2>1 DEF CalmInv, NothingFails
      <4> QED BY <3>1, <4>1, <4>2
    <3>3. ~ContextsShutDown
      BY <2>1 DEF CalmInv, NothingFails, ContextsShutDown
    <3>4. ~Refreshed
      BY <2>1 DEF CalmInv, NothingFails, Refreshed
    <3> QED BY <3>2, <3>3, <3>4
  <2>4. CASE Adapter
    BY <1>1, <2>1, <2>3, <2>4, SendStepCalm, CompleteCalm, RespondedCalm, OnResumedCalm,
       OnPausedCalm, FlushedCalm DEF Adapter
  <2>5. CASE UNCHANGED vars
    BY <2>1, <2>5 DEF vars, CalmInv, NothingFails, HeardInOrder, OneMove, Shown, Pending, Waiting,
      MeantForThePause, Obeyed, InWire
  <2> QED BY <1>1, <1>2, <2>1, <2>2, <2>4, <2>5, HandleCalm, V8PausesCalm, V8ObeysCalm,
           EditorRequestsCalm DEF Next
<1> QED BY <1>1, <1>2 DEF Inv

(* Of any number of pauses, operations, messages and requests, those that  *)
(* the thread keeps are of their types in every state; the first operation *)
(* alone has started, and V8 answers only that one.                        *)
THEOREM TypeCorrect == Spec => []TypeOK
<1>1. Inv /\ [Next]_vars => Inv'
  BY NextInv
<1>2. Inv => TypeOK
  BY DEF Inv
<1> QED BY <1>1, <1>2, InitInv, PTL DEF Spec

(* The invariant holds in every state.                                     *)
LEMMA Invariance == Spec => []Inv
<1>1. Inv /\ [Next]_vars => Inv'
  BY NextInv
<1> QED BY <1>1, InitInv, PTL DEF Spec

(* Once everything has settled, after any number of pauses and requests,   *)
(* the editor shows what V8 does.                                          *)
THEOREM EditorShowsV8 == Spec => []EditorAgrees
<1>1. Inv => EditorAgrees
  <2> SUFFICES ASSUME Inv, Quiet, Calm PROVE view = v8
    BY DEF EditorAgrees
  <2>1. CalmInv /\ TypeOK
    BY DEF Inv
  <2>2. ~Obeyed /\ Pending = {} /\ Waiting = {}
    BY DEF Quiet, Obeyed, Pending, Waiting
  <2>3. ~InWire("paused")
    BY DEF Quiet, InWire
  <2>4. v8 # 0 => v8 \in Pauses
    BY <2>1, ThreadPauseAssumption DEF TypeOK, Pauses
  <2>5. v8 # 0 => handler[v8] = "over"
    BY <2>1, <2>3, <2>4 DEF Quiet, CalmInv, HeardInOrder
  <2> QED BY <2>1, <2>2, <2>5 DEF CalmInv, Shown
<1> QED BY <1>1, Invariance, PTL

(* V8 leaves a pause because its handler or the editor asked it to leave   *)
(* that very pause: no operation skips a later one.                        *)
THEOREM PausesAreLeftOnRequest == Spec => NoPauseIsSkipped
<1>1. Inv /\ [Next]_vars => LeavesOnRequest \/ UNCHANGED vars
  <2> SUFFICES ASSUME Inv, Next, v8 # 0, v8' = 0, Calm'
               PROVE  \E i \in DOMAIN ops : i = 1 /\ v8 \in ops[i].call.on
    BY DEF LeavesOnRequest
  <2>1. V8Obeys \/ V8Reloads
    <3>1. UNCHANGED v8 => FALSE
      OBVIOUS
    <3>2. V8Pauses => FALSE
      BY DEF V8Pauses
    <3> QED BY <3>1, <3>2 DEF Next, Adapter, Handle, SendStep, Complete, Responded, OnResumed,
          OnPaused, ContextsCleared, ContextsShutDown, Refreshed, Flushed, Decide,
          CreatePausedDetails, SmartStep, Tell, Refresh, EditorRequests, v8Vars
  <2>2. V8Obeys /\ Calm
    BY <2>1 DEF V8Reloads, Disturb, Calm, V8Obeys, editorVars
  <2>3. Moves(ops[1].call)
    BY <2>2 DEF V8Obeys, Moves
  <2>4. 1 \in DOMAIN ops /\ v8 \in ops[1].call.on
    BY <2>2, <2>3, Obeying DEF Inv
  <2> QED BY <2>4
<1>2. NoPauseIsSkipped <=> [][LeavesOnRequest]_vars
  BY DEF NoPauseIsSkipped
<1> QED BY <1>1, <1>2, Invariance, PTL DEF Spec

=============================================================================
