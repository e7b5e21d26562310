-------------------------- MODULE SessionLifecycle --------------------------
(***************************************************************************)
(* What the Binder promises of the sessions of one run (binder.ts): "load  *)
(* and unload order is correct", a session has terminated, and is          *)
(* disconnected, only after all its children have.  What it cannot promise *)
(* is that of targets that come when the root has begun to disconnect.     *)
(***************************************************************************)
CONSTANTS
  Targets,  \* what can be debugged: processes, workers, pages
  Root,     \* the session the user started, not in Targets
  Parent    \* the parent of each target, in Targets or the root

Nodes == Targets \union {Root}

VARIABLES
  phase,
  late      \* targets that came when the root had begun to disconnect

vars == <<phase, late>>

Phase == {"absent", "running", "terminating", "terminated", "disconnected"}

ChildrenIn(S, n, phases) == \A t \in S : Parent[t] = n => phase[t] \in phases

Init ==
  /\ phase = [n \in Nodes |-> IF n = Root THEN "running" ELSE "absent"]
  /\ late = {}

(* A target appears under a parent that is not on its way out; the root    *)
(* may still be waiting for its launchers to stop.                         *)
Appear(t) ==
  /\ phase[t] = "absent"
  /\ phase[Parent[t]] \in IF Parent[t] = Root THEN {"running", "terminating"} ELSE {"running"}
  /\ phase' = [phase EXCEPT ![t] = "running"]
  /\ UNCHANGED late

(* Or it comes too late for the root, which will not wait for it.          *)
AppearLate(t) ==
  /\ phase[t] = "absent"
  /\ Parent[t] = Root
  /\ phase[Root] # "running"
  /\ phase' = [phase EXCEPT ![t] = "running"]
  /\ late' = late \union {t}

Terminate(S) ==
  /\ \A n \in S : phase[n] = "running"
  /\ phase' = [n \in Nodes |-> IF n \in S THEN "terminating" ELSE phase[n]]
  /\ UNCHANGED late

Terminated(n) ==
  /\ phase[n] = "terminating"
  /\ ChildrenIn(Targets, n, {"absent", "terminated", "disconnected"})
  /\ phase' = [phase EXCEPT ![n] = "terminated"]
  /\ UNCHANGED late

Disconnected(n) ==
  /\ phase[n] \in {"terminating", "terminated"}
  /\ ChildrenIn(Targets \ late, n, {"absent", "disconnected"})
  /\ phase' = [phase EXCEPT ![n] = "disconnected"]
  /\ UNCHANGED late

Next ==
  \/ \E t \in Targets : Appear(t) \/ AppearLate(t)
  \/ \E S \in SUBSET Nodes : Terminate(S)
  \/ \E n \in Nodes : Terminated(n) \/ Disconnected(n)

Spec == Init /\ [][Next]_vars
=============================================================================
