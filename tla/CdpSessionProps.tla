-------------------------- MODULE CdpSessionProps --------------------------
(* What a CDP session promises: properties of module CdpSession.            *)
EXTENDS CdpSession

(* The messages to session s among those in transit, in order.              *)
MessagesTo(s, transits) ==
  LET upTo[i \in 0 .. Len(transits)] ==
        IF i = 0 THEN <<>>
        ELSE IF transits[i].to = s THEN Append(upTo[i - 1], transits[i].msg)
        ELSE upTo[i - 1]
  IN upTo[Len(transits)]

InTransit(s) == MessagesTo(s, wire)

(* What a user sees of the sessions.                                        *)
phases ==
  [s \in Sessions |->
     CASE sessions[s] = "none" -> "none"
       [] sessions[s] = "gone" -> "gone"
       [] OTHER -> IF paused[s] = "paused" THEN "paused" ELSE "open"]

channels ==
  [s \in Sessions |-> IF sessions[s] = "open" THEN queue[s] \o InTransit(s) ELSE queue[s]]

Channel == INSTANCE CdpChannel WITH
  phase <- phases, channel <- channels, pending <- callbacks

(* Whatever waits in the queue, whichever Node runs the adapter, and        *)
(* whenever a session is paused, resumed or lost: events come in order and  *)
(* none is skipped, an answer overtakes events only while the session is    *)
(* paused, and a request is settled once.                                   *)
InOrder == Channel!Spec

(* No request is left waiting on a session that has gone: it was rejected   *)
(* when the session went, or when it was made.                              *)
AllSettled == closed => answered \union rejected = 1 .. lastId

(* There is a task for every queue that is not paused: nothing waits for    *)
(* the next message to arrive.                                              *)
QueueIsDrained ==
  \A s \in Sessions :
    sessions[s] = "open" /\ paused[s] # "paused" /\ queue[s] # <<>>
      => s \in Range(tasks)

(* A request of a session is settled, also while the session is paused:     *)
(* what its target asks in order to attach is answered.                     *)
RequestsAreSettled ==
  \A id \in Requests : lastId >= id ~> id \in answered \union rejected

(* A paused session comes to life when its target has attached, and every   *)
(* event is seen in the end unless the session goes.                        *)
EventsAreHeard ==
  \A s \in Sessions, n \in 1 .. MaxEvents :
    emitted[s] >= n ~> heard[s] >= n \/ sessions[s] = "gone"
=============================================================================
