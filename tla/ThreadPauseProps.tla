-------------------------- MODULE ThreadPauseProps --------------------------
(* What a Thread promises about pauses: properties of module ThreadPause.   *)
EXTENDS ThreadPause

Calm == disturbance = "none"

Quiet ==
  /\ wire = <<>> /\ ops = <<>> /\ flushing = {}
  /\ refreshing = 0 /\ clearing = {}
  /\ \A k \in Pauses : handler[k] \in {"idle", "over"}

(* V8 is made to leave a pause only by those who mean it: the handler that  *)
(* found nobody wants this pause, or an editor that was told of it.  No     *)
(* operation that was queued or shared for an earlier pause skips a later   *)
(* one.                                                                     *)
LeavesOnRequest ==
  v8 # 0 /\ v8' = 0 /\ Calm' => \E i \in DOMAIN ops : i = 1 /\ v8 \in ops[i].call.on
NoPauseIsSkipped == [][LeavesOnRequest]_vars

(* Every pause is seen to: in the end V8 has gone on or the editor knows.   *)
(* The request to go on is not lost among those in flight (issue 204581).   *)
EveryPauseIsHandled == \A k \in Pauses : v8 = k ~> (v8 # k \/ view = k \/ ~Calm)

(* Once everything has settled the editor shows what V8 does: no late       *)
(* stopped, continued or response has undone what came after it.            *)
EditorAgrees == Quiet /\ Calm => view = v8

(* Every request of the editor is answered, whatever V8, the page and the   *)
(* user do meanwhile: no operation waits for one that is gone.              *)
RequestsAreAnswered == Awaits /\ requests = MaxRequests ~> ~Awaits
=============================================================================
