-------------------------- MODULE SessionOutputProps --------------------------
(* What a session promises about what it prints: properties of module       *)
(* SessionOutput.                                                           *)
EXTENDS SessionOutput

Printed == ToSet(output) \intersect Messages

(* What there is of a message: printed, or rejected and left out.          *)
Accounted(m) == m \in Printed \/ value[m] = "rejected"

(* "Preserving insertion order": messages are printed in the order the     *)
(* page reported them, though their texts become ready in any order, and   *)
(* none that is still to be printed is overtaken.                          *)
PrintedInOrder ==
  /\ \A i, j \in DOMAIN output :
       i < j /\ {output[i], output[j]} \subseteq Messages => output[i] < output[j]
  /\ \A m \in ToSet(q), n \in Printed : n < m

(* "Send 'exited' after all other thread-related events": the thread exits *)
(* when every message it accepted was printed, and prints nothing then.    *)
NothingIsLost ==
  \A i \in DOMAIN output : output[i] = exited =>
    /\ \A m \in Messages : value[m] # "none" => Accounted(m)
    /\ \A j \in i + 1 .. Len(output) : output[j] \in Saves

(* Participants are "awaited before loaded scripts are cleared in an       *)
(* execution context": a message is printed before the scripts are removed *)
(* that its locations are looked up in.  A thread that shuts down removes  *)
(* them at once.                                                           *)
PrintedBeforeRemoval ==
  \A g \in removed' \ removed, m \in ToSet(q) :
    shutdown.pc = "idle" => origin[m] # g

ScriptsOutliveMessages == [][PrintedBeforeRemoval]_vars

(* A thread that is disposed exits, whatever its messages, its profiles    *)
(* and its pages do meanwhile, unless a profile could not be saved.        *)
ThreadExits ==
  shutdown.pc # "idle" ~>
    exited \in ToSet(output) \/ \E s \in Saves : save[s] = "failed"

(* "Runs all shutdown participants": a thread that is disposed exits.      *)
(* Violated: a profile that cannot be saved stays a participant, and all   *)
(* who await the participants are rejected.                                *)
FailedSavesAreSurvived == shutdown.pc # "idle" ~> exited \in ToSet(output)
=============================================================================
