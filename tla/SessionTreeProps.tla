-------------------------- MODULE SessionTreeProps --------------------------
(* What the Binder promises about the sessions of a run: properties of      *)
(* module SessionTree.                                                      *)
EXTENDS SessionTree

Phase(n) ==
  IF n # Root /\ n \notin known THEN "absent"
  ELSE CASE state[n] = Running -> "running"
         [] state[n] = Terminating -> "terminating"
         [] state[n] = Terminated -> "terminated"
         [] state[n] = Disconnected -> "disconnected"

Lifecycle == INSTANCE SessionLifecycle WITH phase <- [n \in Nodes |-> Phase(n)]

(* "Load and unload order is correct": no session terminates or is         *)
(* disconnected before all its children have, whoever ends them and in     *)
(* which order; but the root does not wait for a target that was listed    *)
(* when its own disconnect request had looked for children.                *)
InOrder == Lifecycle!Spec

(* A target that vanished while it was being attached: its thread data     *)
(* never comes, and those who wait for its session wait forever.           *)
Hangs == \E t \in known : attach[t] = "failed"

(* When the run is over the session of every target comes to its end: it   *)
(* is told, and the disconnect request the editor then makes is answered.  *)
EverySessionEnds ==
  launcher = "over" ~> Hangs \/ \A t \in known : disconnect[t].pc = "done"

(* "Disconnects all running targets. Resolves when all have disconnected": *)
(* it does, unless a target vanished while it was being attached.          *)
DisconnectIsAnswered ==
  disconnect[Root].pc # "idle" ~> Hangs \/ disconnect[Root].pc = "done"
=============================================================================
