-------------------------- MODULE NodeLauncherProps --------------------------
(* What the Node launcher promises: properties of module NodeLauncher.      *)
EXTENDS NodeLauncher

Alive == {p \in Programs : life[p] = "alive"}

(* Programs that run and were not told to stop.                            *)
Free == {p \in Alive : ~asked[p]}

(* The restart requests that came early.                                   *)
Early == {c \in Calls : restart[c].early}

(* At most one program runs that was not told to stop, however crashes,    *)
(* restarts and the end of the run follow each other; a restart that comes *)
(* early, while a launch is in progress, leaves at most one more running.  *)
OneProgram == Cardinality(Free) <= 1 + Cardinality(Early)

(* When onTerminated has fired no target is listed, and nothing is left of *)
(* the run: its programs were stopped and none is being launched.  Of each *)
(* early restart one may be left, and one of an early terminate().         *)
NothingOutlivesTheRun ==
  ~run =>
    /\ Open = {}
    /\ Cardinality(Free \union Launching)
         <= Cardinality(Early) + (IF terminate.early THEN 1 ELSE 0)

(* A restart by the user begins with nothing of the program before it: it  *)
(* has stopped, and its connections are closed, in time or by force; only  *)
(* a process that could not be killed may connect once more meanwhile.     *)
(* Each early restart may have left one program, with its connections, and *)
(* a restart that was rejected the connections of a crashed program.       *)
RestartsAfresh ==
  [][\A p \in Programs :
       stage[p] = "none" /\ stage'[p] = "preparing" =>
         /\ Cardinality({q \in Programs : stage[q] = "assigned" /\ stopped[q] = "pending"})
              <= Cardinality(Early')
         /\ Early' = {} /\ (\A c \in Calls : restart[c].pc # "rejected") =>
              \A q \in Programs : conn'[q] \in {"greeting", "listed"} => pid[q] = "none"]_vars

(* Nothing waits for the launcher: its program has not ended, unless the   *)
(* relaunch failed, which nobody is told; and no request to restart or to  *)
(* terminate is being answered, but for one of a process nobody can kill.  *)
Handled ==
  /\ \A p \in Programs :
       program = p /\ stopped[p] \in {"killed", "clean", "crashed"}
         => \E q \in Programs : q > p /\ stage[q] = "failed"
  /\ \A c \in Calls : restart[c].pc = "stopping" => pid[restart[c].of] = "none"
  /\ terminate.pc # "stopping"

(* The end of the launcher's program leads to the end of the run or to     *)
(* another program, and requests to restart and to terminate are answered  *)
(* or rejected.  A process that could not be created does not end in this  *)
(* sense: its rejected promise has no handler, its program stays, and the  *)
(* run never ends (nodeLauncher.ts:196, program.ts:65).                    *)
EveryEndIsHandled == []<>Handled

(* Violated while a launch is in progress or due.  "Terminates the         *)
(* debugged process": when terminate() is answered, no program runs that   *)
(* was not told to stop, and none ever will.                               *)
TerminateIsFinal ==
  terminate.pc = "done" => \A p \in Alive : asked[p]
=============================================================================
