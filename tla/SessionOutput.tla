---------------------------- MODULE SessionOutput ----------------------------
(***************************************************************************)
(* What a session prints, and how it ends: the console and its queue       *)
(* (src/adapter/console), the shutdown participants                        *)
(* (src/ui/shutdownParticipants.ts), console profiles                      *)
(* (src/adapter/profileController.ts), and Thread where it clears contexts *)
(* and is disposed.                                                        *)
(*                                                                         *)
(* A message takes its place in the queue when it is reported; its text is *)
(* there at once or after awaits.  Before the scripts of a context are     *)
(* removed, and before the thread exits, the participants are awaited: the *)
(* console until its queue is empty, and the profiles being saved.         *)
(*                                                                         *)
(* External: the page, which logs, profiles and navigates also while the   *)
(* thread shuts down, and the editor, which disconnects in the end.        *)
(*                                                                         *)
(* Bounds: MaxMessages, Saves, MaxClears.                                  *)
(***************************************************************************)
EXTENDS Naturals, Sequences, SequencesExt

CONSTANTS
  MaxMessages, \* messages the page reports
  Saves,       \* console profiles the page finishes
  MaxClears,   \* times the contexts of the page are cleared
  SaveFails    \* a profile cannot be written

ASSUME SessionOutputAssumption ==
  /\ MaxMessages \in Nat
  /\ MaxClears \in Nat
  /\ SaveFails \in BOOLEAN

Messages == 1 .. MaxMessages
Pages == 0 .. MaxClears

CONSTANTS console, exited
ASSUME ParticipantAssumption ==  \* they are told apart
  /\ console \notin Saves
  /\ exited \notin Messages \union Saves
  /\ Saves \intersect Messages = {}
Participants == Saves \union {console}

VARIABLES
  page,       \* how often the contexts were cleared
  reported,   \* the number of messages so far
  origin,     \* the contexts a message comes from
  value,      \* Reservation.value
  q,          \* the queue
  waiting,    \* process() awaits its first reservation
  disposed,   \* the queue is disposed
  isDirty,    \* something was printed since the console was cleared
  output,     \* the events sent to the editor
  registered, \* participants of stage ExecutionContexts
  save,       \* saveConsoleProfile
  clears,     \* _executionContextsCleared, by the page it is about
  shutdown,   \* Thread.dispose
  removed,    \* pages whose scripts have left the source container
  closed      \* the DAP connection was closed after the disconnect response

pageVars == <<page, reported, origin>>
queueVars == <<value, q, waiting, disposed, isDirty>>
vars == <<page, reported, origin, value, q, waiting, disposed, isDirty, output,
          registered, save, clears, shutdown, removed, closed>>

(* A function that awaits participants.                                    *)
Await(pc, wait) == [pc |-> pc, wait |-> wait]
Awaits == [pc : {"idle", "waiting", "done", "rejected"}, wait : SUBSET Participants]

TypeOK ==
  /\ page \in Pages
  /\ reported \in 0 .. MaxMessages
  /\ origin \in [Messages -> Pages]
  /\ value \in [Messages -> {"none", "unsettled", "ready", "rejected"}]
  /\ q \in Seq(Messages)
  /\ waiting \in BOOLEAN
  /\ q # <<>> => waiting  \* a queue that is not empty is being processed
  /\ disposed \in BOOLEAN
  /\ isDirty \in BOOLEAN
  /\ output \in Seq(Messages \union {exited} \union Saves)
  /\ registered \subseteq Participants
  /\ save \in [Saves -> {"none", "saving", "saved", "failed"}]
  /\ clears \in [Pages -> Awaits]
  /\ shutdown \in Awaits
  /\ removed \subseteq Pages
  /\ closed \in BOOLEAN

Init ==
  /\ page = 0
  /\ reported = 0
  /\ origin = [m \in Messages |-> 0]
  /\ value = [m \in Messages |-> "none"]
  /\ q = <<>>
  /\ waiting = FALSE
  /\ disposed = FALSE
  /\ isDirty = FALSE
  /\ output = <<>>
  /\ registered = {console}
  /\ save = [s \in Saves |-> "none"]
  /\ clears = [g \in Pages |-> Await("idle", {})]
  /\ shutdown = Await("idle", {})
  /\ removed = {}
  /\ closed = FALSE

-----------------------------------------------------------------------------
(* The DAP connection: once it has closed nothing is sent.                 *)
Send(events) == output' = IF closed THEN output ELSE output \o events

(* Participants that are still running when they are called.               *)
Busy ==
  {p \in registered : IF p = console THEN q # <<>> ELSE save[p] = "saving"}

(* A saved profile that could not be written stays registered.             *)
SomeRejected == \E s \in Saves \intersect registered : save[s] = "failed"

(* Promise.all of the participants.                                        *)
CallParticipants == Await(IF SomeRejected THEN "rejected" ELSE "waiting", Busy)

Settled(a, p) == [a EXCEPT !.wait = @ \ {p}]
Rejected(a, p) == IF p \in a.wait THEN Await("rejected", a.wait \ {p}) ELSE a

(* A participant is done, for all who wait for it.                         *)
ParticipantDone(p) ==
  /\ clears' = [g \in Pages |-> Settled(clears[g], p)]
  /\ shutdown' = Settled(shutdown, p)

ParticipantFails(p) ==
  /\ clears' = [g \in Pages |-> Rejected(clears[g], p)]
  /\ shutdown' = Rejected(shutdown, p)

-----------------------------------------------------------------------------
(* The queue.                                                              *)

SettledPrefix(s, val) ==
  LET unsettled == {i \in DOMAIN s : val[s[i]] = "unsettled"}
  IN IF unsettled = {} THEN s ELSE SubSeq(s, 1, Min(unsettled) - 1)

(* A message whose text was rejected prints nothing.                       *)
WithoutRejected(s, val) ==
  LET upTo[i \in 0 .. Len(s)] ==
        IF i = 0 THEN <<>>
        ELSE IF val[s[i]] = "rejected" THEN upTo[i - 1]
        ELSE Append(upTo[i - 1], s[i])
  IN upTo[Len(s)]

(* Mutant: whatever is ready is printed.                                   *)
EmitReady(s, val) ==
  LET printed == SelectSeq(s, LAMBDA m : val[m] # "unsettled")
      rest == SelectSeq(s, LAMBDA m : val[m] = "unsettled")
  IN /\ Send(WithoutRejected(printed, val))
     /\ q' = rest
     /\ waiting' = (rest # <<>>)

(* process() until it awaits again: what has settled at the head of the    *)
(* queue is printed, the rest waits for its first.                         *)
Emit(s, val) ==
  LET settled == SettledPrefix(s, val)
      rest == SubSeq(s, Len(settled) + 1, Len(s))
  IN /\ Send(WithoutRejected(settled, val))
     /\ q' = rest
     /\ waiting' = (rest # <<>>)

(* Mutant: only the queue's first message ever starts process().           *)
ReportOnly ==
  /\ reported < MaxMessages
  /\ reported' = reported + 1
  /\ ~disposed
  /\ value' = [value EXCEPT ![reported'] = "unsettled"]
  /\ q' = Append(q, reported')
  /\ waiting' = (waiting \/ reported = 0)
  /\ isDirty' = TRUE
  /\ UNCHANGED <<page, origin, output, disposed, registered, save, clears, shutdown, removed, closed>>

(* Console.enqueue: a message, or the clear message, which has its text    *)
(* and which a clean console ignores.                                      *)
Report ==
  /\ reported < MaxMessages
  /\ reported' = reported + 1
  /\ origin' = [origin EXCEPT ![reported'] = page]
  /\ \E v \in {"unsettled", "ready"}, dirty \in BOOLEAN :
       /\ v = "unsettled" => dirty
       /\ isDirty' = dirty
       /\ IF disposed \/ (~dirty /\ ~isDirty)
            THEN UNCHANGED <<value, q, waiting, output>>
            ELSE /\ value' = [value EXCEPT ![reported'] = v]
                 /\ IF q = <<>>
                      THEN Emit(<<reported'>>, value')
                      ELSE /\ q' = Append(q, reported')
                           /\ UNCHANGED <<waiting, output>>
  /\ UNCHANGED <<page, disposed, registered, save, clears, shutdown, removed, closed>>

(* The promise of toDap() settles.                                         *)
Settle(m) ==
  /\ value[m] = "unsettled"
  /\ \E v \in {"ready", "rejected"} : value' = [value EXCEPT ![m] = v]
  /\ UNCHANGED <<pageVars, q, waiting, disposed, isDirty, output, registered, save,
                 clears, shutdown, removed, closed>>

(* Mutant: nobody is told that the queue has drained.                      *)
ProcessSilently ==
  /\ waiting
  /\ q # <<>> => value[Head(q)] # "unsettled"
  /\ Emit(q, value)
  /\ UNCHANGED <<pageVars, value, disposed, isDirty, registered, save, clears, shutdown,
                 removed, closed>>

(* process() continues when its reservation has settled.  When the queue   *)
(* is drained the console's participants are done, and the final one has   *)
(* it disposed.                                                            *)
Process ==
  /\ waiting
  /\ q # <<>> => value[Head(q)] # "unsettled"
  /\ Emit(q, value)
  /\ IF q' = <<>>
       THEN /\ ParticipantDone(console)
            /\ disposed' = (disposed \/ console \in shutdown.wait)
       ELSE UNCHANGED <<clears, shutdown, disposed>>
  /\ UNCHANGED <<pageVars, value, isDirty, registered, save, removed, closed>>

-----------------------------------------------------------------------------
(* Console profiles.                                                       *)

(* consoleProfileFinished: a participant until it is saved; if the thread  *)
(* shuts down already it is called at once, and not awaited.               *)
SaveProfile(s) ==
  /\ save[s] = "none"
  /\ save' = [save EXCEPT ![s] = "saving"]
  /\ registered' = IF shutdown.pc = "idle" THEN registered \union {s} ELSE registered
  /\ UNCHANGED <<pageVars, queueVars, output, clears, shutdown, removed, closed>>

ProfileSaved(s) ==
  /\ save[s] = "saving"
  /\ save' = [save EXCEPT ![s] = "saved"]
  /\ Send(<<s>>)
  /\ registered' = registered \ {s}
  /\ ParticipantDone(s)
  /\ UNCHANGED <<pageVars, queueVars, removed, closed>>

(* Its promise rejects, and so does whoever awaits it.                     *)
SavingFails(s) ==
  /\ SaveFails
  /\ save[s] = "saving"
  /\ save' = [save EXCEPT ![s] = "failed"]
  /\ ParticipantFails(s)
  /\ UNCHANGED <<pageVars, queueVars, output, registered, removed, closed>>

-----------------------------------------------------------------------------
(* Contexts.                                                               *)

(* Mutant: the contexts do not wait for the participants.                  *)
ClearAtOnce ==
  /\ page < MaxClears
  /\ shutdown.pc # "done"
  /\ page' = page + 1
  /\ clears' = [clears EXCEPT ![page] = Await("waiting", {})]
  /\ UNCHANGED <<reported, origin, queueVars, output, registered, save, shutdown, removed, closed>>

(* _executionContextsCleared up to shutdownContext, which awaits the       *)
(* participants unless the thread is shutting down.                        *)
ContextsCleared ==
  /\ page < MaxClears
  /\ shutdown.pc # "done"
  /\ page' = page + 1
  /\ clears' = [clears EXCEPT ![page] =
                  IF shutdown.pc = "idle" THEN CallParticipants ELSE Await("waiting", {})]
  /\ UNCHANGED <<reported, origin, queueVars, output, registered, save, shutdown, removed, closed>>

(* The scripts of the contexts are removed.                                *)
RemoveContexts(g) ==
  /\ clears[g].pc = "waiting"
  /\ clears[g].wait = {}
  /\ clears' = [clears EXCEPT ![g].pc = "done"]
  /\ removed' = removed \union {g}
  /\ UNCHANGED <<pageVars, queueVars, output, registered, save, shutdown, closed>>

(* Mutant: the console is disposed without waiting for its queue.          *)
DisposeAtOnce ==
  /\ shutdown.pc = "idle"
  /\ shutdown' = Await("waiting", Busy \ {console})
  /\ disposed' = TRUE
  /\ q' = <<>>
  /\ UNCHANGED <<pageVars, value, waiting, isDirty, output, registered, save, clears, removed, closed>>

(* Thread.dispose up to shutdownAll: the participants are called for good, *)
(* and a console with nothing to print is disposed.                        *)
Dispose ==
  /\ shutdown.pc = "idle"
  /\ shutdown' = CallParticipants
  /\ disposed' = (q = <<>>)
  /\ UNCHANGED <<pageVars, value, q, waiting, isDirty, output, registered, save, clears,
                 removed, closed>>

(* The rest of Thread.dispose: all scripts are removed, the editor is told *)
(* that the thread has exited and, by the binder, that the session has     *)
(* terminated; the services of the session are disposed.                   *)
Exit ==
  /\ shutdown.pc = "waiting"
  /\ shutdown.wait = {}
  /\ shutdown' = Await("done", {})
  /\ removed' = Pages
  /\ disposed' = TRUE
  /\ q' = <<>>
  /\ Send(<<exited>>)
  /\ UNCHANGED <<pageVars, value, waiting, isDirty, registered, save, clears, closed>>

(* The editor disconnects; the connection is closed after the response.    *)
Disconnect ==
  /\ shutdown.pc = "done"
  /\ ~closed
  /\ closed' = TRUE
  /\ UNCHANGED <<pageVars, queueVars, output, registered, save, clears, shutdown, removed>>

-----------------------------------------------------------------------------
Next ==
  \/ Report
  \/ \E m \in Messages : Settle(m)
  \/ Process
  \/ \E s \in Saves : SaveProfile(s) \/ ProfileSaved(s) \/ SavingFails(s)
  \/ ContextsCleared
  \/ \E g \in Pages : RemoveContexts(g)
  \/ Dispose
  \/ Exit
  \/ Disconnect

Spec == Init /\ [][Next]_vars

(* Promises settle: the requests a message makes of its target are         *)
(* answered or rejected, and files are written or not.                     *)
Fairness ==
  /\ \A m \in Messages : WF_vars(Settle(m))
  /\ WF_vars(Process)
  /\ \A s \in Saves : WF_vars(ProfileSaved(s) \/ SavingFails(s))
  /\ \A g \in Pages : WF_vars(RemoveContexts(g))
  /\ WF_vars(Exit)

FairSpec == Spec /\ Fairness
=============================================================================
