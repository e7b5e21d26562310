--------------------------- MODULE MCSessionTree ---------------------------
(* Instances of SessionTree for TLC: a process and a worker of it, which    *)
(* cannot be stopped.                                                       *)
EXTENDS SessionTreeProps

CONSTANTS process, worker

ProcessAndWorker == {process, worker}
Processes == {process}
Nested == [t \in Targets |-> IF t = worker THEN process ELSE Root]
=============================================================================
