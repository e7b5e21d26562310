----------------------------- MODULE CdpSession -----------------------------
(***************************************************************************)
(* Connection and CDPSession (src/cdp/connection.ts): requests, answers    *)
(* and events of the sessions multiplexed over one transport.              *)
(*                                                                         *)
(* A target pauses its session when it is created and resumes it when the  *)
(* binder has bound it: in between events are queued.  Where the version   *)
(* of Node does not order tasks well (needsReordering) every message goes  *)
(* through the queue, one per task.                                        *)
(*                                                                         *)
(* External: the debuggee, which answers requests in any order and sends   *)
(* events on sessions that have been asked something, and the targets that *)
(* own the sessions.                                                       *)
(*                                                                         *)
(* Not modelled: the content of messages, listeners that throw, telemetry. *)
(***************************************************************************)
EXTENDS Naturals, Sequences, FiniteSets, SequencesExt

CONSTANTS
  Root,         \* the session of the connection itself
  Attached,     \* sessions of attached targets
  MaxRequests,  \* bound on requests
  MaxEvents     \* bound on events of one session

Sessions == Attached \union {Root}
Requests == 1 .. MaxRequests

ASSUME CdpSessionAssumption ==
  /\ Root \notin Attached
  /\ MaxRequests \in Nat
  /\ MaxEvents \in Nat

VARIABLES
  needsReordering,  \* of the Node version, it never changes
  closed,           \* Connection._closed
  sessions,         \* Connection._sessions and ._disposedSessions
  paused,           \* CDPSession.paused: not yet, paused, or resumed
  queue,            \* CDPSession._queue
  callbacks,        \* CDPSession._callbacks
  tasks,            \* the tasks given to waitWrapper, by session
  lastId,           \* Connection._lastId
  \* what the user of the sessions has seen
  heard,            \* the last event
  answered,
  rejected,
  \* the debuggee and the transport
  asked,            \* requests the debuggee has received and not answered
  emitted,          \* the last event it has sent
  wire              \* messages in transit

settled == <<answered, rejected>>
world == <<asked, emitted, wire>>
vars == <<needsReordering, closed, sessions, paused, queue, callbacks, tasks, lastId,
          heard, answered, rejected, asked, emitted, wire>>

Event(n) == [kind |-> "event", n |-> n]
Answer(id) == [kind |-> "answer", n |-> id]
Message == {Event(n) : n \in 1 .. MaxEvents} \union {Answer(id) : id \in Requests}

TypeOK ==
  /\ needsReordering \in BOOLEAN
  /\ closed \in BOOLEAN
  /\ sessions \in [Sessions -> {"none", "open", "gone"}]
  /\ paused \in [Sessions -> {"not_yet", "paused", "resumed"}]
  /\ queue \in [Sessions -> Seq(Message)]
  /\ callbacks \in [Sessions -> SUBSET Requests]
  /\ tasks \in Seq(Sessions)
  /\ lastId \in 0 .. MaxRequests
  /\ heard \in [Sessions -> 0 .. MaxEvents]
  /\ answered \subseteq Requests
  /\ rejected \subseteq Requests
  /\ asked \subseteq Requests \X Sessions
  /\ emitted \in [Sessions -> 0 .. MaxEvents]
  /\ wire \in Seq([to : Sessions, msg : Message])

Init ==
  /\ needsReordering \in BOOLEAN
  /\ closed = FALSE
  /\ sessions = [s \in Sessions |-> IF s = Root THEN "open" ELSE "none"]
  /\ paused = [s \in Sessions |-> "not_yet"]
  /\ queue = [s \in Sessions |-> <<>>]
  /\ callbacks = [s \in Sessions |-> {}]
  /\ tasks = <<>>
  /\ lastId = 0
  /\ heard = [s \in Sessions |-> 0]
  /\ answered = {}
  /\ rejected = {}
  /\ asked = {}
  /\ emitted = [s \in Sessions |-> 0]
  /\ wire = <<>>

-----------------------------------------------------------------------------
(* What the user of session s sees when messages are handed on, in order.  *)
ProcessResponses(s, msgs) ==
  LET answers == {m.n : m \in {msg \in Range(msgs) : msg.kind = "answer"}}
      events == {m.n : m \in {msg \in Range(msgs) : msg.kind = "event"}}
  IN /\ heard' = [heard EXCEPT ![s] = IF events = {} THEN @ ELSE Max(events)]
     /\ callbacks' = [callbacks EXCEPT ![s] = @ \ answers]
     /\ answered' = answered \union (answers \intersect callbacks[s])

(* Mutant: answers are always handed on at once.                           *)
AnswersFirst(s, msg) ==
  msg.kind = "answer" \/ (paused[s] # "paused" /\ queue[s] = <<>> /\ ~needsReordering)

(* Mutant: a paused session queues answers, too.                           *)
PausedQueuesAll(s, msg) ==
  paused[s] # "paused" /\ queue[s] = <<>> /\ ~needsReordering

(* Whether _onMessage hands the message on at once.                        *)
Immediately(s, msg) ==
  IF paused[s] = "paused" THEN msg.kind = "answer"
  ELSE queue[s] = <<>> /\ ~needsReordering

(* Whether it schedules a task for the message it queues.                  *)
Schedules(s) == queue[s] = <<>> /\ paused[s] # "paused"

(* Connection._onMessage: a message for a session that has gone is ignored.*)
OnMessage ==
  /\ wire # <<>>
  /\ wire' = Tail(wire)
  /\ LET s == Head(wire).to
         msg == Head(wire).msg
     IN \/ /\ sessions[s] # "open"
           /\ UNCHANGED <<queue, callbacks, tasks, heard, answered>>
        \/ /\ sessions[s] = "open"
           /\ Immediately(s, msg)
           /\ ProcessResponses(s, <<msg>>)
           /\ UNCHANGED <<queue, tasks>>
        \/ /\ sessions[s] = "open"
           /\ ~Immediately(s, msg)
           /\ queue' = [queue EXCEPT ![s] = Append(@, msg)]
           /\ tasks' = IF Schedules(s) THEN Append(tasks, s) ELSE tasks
           /\ UNCHANGED <<callbacks, heard, answered>>
  /\ UNCHANGED <<needsReordering, closed, sessions, paused, lastId, rejected, asked, emitted>>

(* Mutant: a task does not schedule the next one.                          *)
ProcessQueueOnce ==
  /\ tasks # <<>>
  /\ tasks' = Tail(tasks)
  /\ LET s == Head(tasks) IN
     IF paused[s] = "paused" \/ queue[s] = <<>>
       THEN UNCHANGED <<queue, callbacks, heard, answered>>
       ELSE /\ queue' = [queue EXCEPT ![s] = Tail(@)]
            /\ ProcessResponses(s, <<Head(queue[s])>>)
  /\ UNCHANGED <<needsReordering, closed, sessions, paused, lastId, rejected, world>>

(* A task of _processQueue.                                                *)
ProcessQueue ==
  /\ tasks # <<>>
  /\ LET s == Head(tasks) IN
     IF paused[s] = "paused" \/ queue[s] = <<>>
       THEN /\ tasks' = Tail(tasks)
            /\ UNCHANGED <<queue, callbacks, heard, answered>>
       ELSE /\ queue' = [queue EXCEPT ![s] = Tail(@)]
            /\ ProcessResponses(s, <<Head(queue[s])>>)
            /\ tasks' = IF Tail(queue[s]) # <<>> /\ sessions[s] = "open"
                          THEN Append(Tail(tasks), s) ELSE Tail(tasks)
  /\ UNCHANGED <<needsReordering, closed, sessions, paused, lastId, rejected, world>>

-----------------------------------------------------------------------------
(* The targets that own the sessions.                                      *)

(* The target of a new session pauses it in its constructor.               *)
CreateSession(s) ==
  /\ ~closed
  /\ paused[Root] = "not_yet"
  /\ sessions[s] = "none"
  /\ sessions' = [sessions EXCEPT ![s] = "open"]
  /\ paused' = [paused EXCEPT ![s] = "paused"]
  /\ UNCHANGED <<needsReordering, closed, queue, callbacks, tasks, lastId, heard, settled, world>>

(* A Node target owns the root session and pauses it when it has been told *)
(* what to attach to, before it asks anything.                             *)
Pause ==
  /\ paused[Root] = "not_yet"
  /\ lastId = 0
  /\ \A s \in Attached : sessions[s] = "none"
  /\ paused' = [paused EXCEPT ![Root] = "paused"]
  /\ UNCHANGED <<needsReordering, closed, sessions, queue, callbacks, tasks, lastId, heard,
                 settled, world>>

(* Mutant: the first id is 0.                                              *)
SendPostIncrement(s) ==
  /\ sessions[s] = "open"
  /\ lastId < MaxRequests
  /\ lastId' = lastId + 1
  /\ callbacks' = [callbacks EXCEPT ![s] = @ \union {lastId}]
  /\ asked' = asked \union {<<lastId, s>>}
  /\ UNCHANGED <<needsReordering, closed, sessions, paused, queue, tasks, heard, settled,
                 emitted, wire>>

(* sendOrDie.                                                              *)
Send(s) ==
  /\ sessions[s] # "none"
  /\ lastId < MaxRequests
  /\ lastId' = lastId + 1
  /\ IF sessions[s] = "gone"
       THEN /\ rejected' = rejected \union {lastId'}
            /\ UNCHANGED <<callbacks, asked>>
       ELSE /\ callbacks' = [callbacks EXCEPT ![s] = @ \union {lastId'}]
            /\ asked' = asked \union {<<lastId', s>>}
            /\ UNCHANGED rejected
  /\ UNCHANGED <<needsReordering, closed, sessions, paused, queue, tasks, heard, answered,
                 emitted, wire>>

(* Mutant: the queue waits for the next message.                           *)
ResumeLater(s) ==
  /\ paused[s] = "paused"
  /\ paused' = [paused EXCEPT ![s] = "resumed"]
  /\ UNCHANGED <<needsReordering, closed, sessions, queue, callbacks, tasks, lastId, heard,
                 settled, world>>

(* resume(): the queue is replayed at once.                                *)
Resume(s) ==
  /\ paused[s] = "paused"
  /\ paused' = [paused EXCEPT ![s] = "resumed"]
  /\ queue' = [queue EXCEPT ![s] = <<>>]
  /\ ProcessResponses(s, queue[s])
  /\ UNCHANGED <<needsReordering, closed, sessions, tasks, lastId, rejected, world>>

(* Mutant: requests in flight are forgotten.                               *)
ClosingSilently(S) ==
  /\ sessions' = [s \in Sessions |-> IF s \in S THEN "gone" ELSE sessions[s]]
  /\ callbacks' = [s \in Sessions |-> IF s \in S THEN {} ELSE callbacks[s]]
  /\ UNCHANGED <<needsReordering, paused, queue, tasks, lastId, heard, settled, asked, emitted>>

(* _onClose() of some sessions.                                            *)
Closing(S) ==
  /\ sessions' = [s \in Sessions |-> IF s \in S THEN "gone" ELSE sessions[s]]
  /\ callbacks' = [s \in Sessions |-> IF s \in S THEN {} ELSE callbacks[s]]
  /\ rejected' = rejected \union UNION {callbacks[s] : s \in S}
  /\ UNCHANGED <<needsReordering, paused, queue, tasks, lastId, heard, answered, asked, emitted>>

DisposeSession(s) ==
  /\ sessions[s] = "open"
  /\ Closing({s})
  /\ UNCHANGED <<closed, wire>>

OnTransportClose ==
  /\ ~closed
  /\ closed' = TRUE
  /\ Closing({s \in Sessions : sessions[s] = "open"})
  /\ wire' = <<>>

-----------------------------------------------------------------------------
(* The debuggee.                                                           *)

SendAnswer(id, s) ==
  /\ <<id, s>> \in asked
  /\ asked' = asked \ {<<id, s>>}
  /\ wire' = IF closed THEN wire ELSE Append(wire, [to |-> s, msg |-> Answer(id)])
  /\ UNCHANGED <<needsReordering, closed, sessions, paused, queue, callbacks, tasks, lastId,
                 heard, settled, emitted>>

SendEvent(s) ==
  /\ sessions[s] # "none"
  /\ ~closed
  /\ emitted[s] < MaxEvents
  /\ emitted' = [emitted EXCEPT ![s] = @ + 1]
  /\ wire' = Append(wire, [to |-> s, msg |-> Event(emitted'[s])])
  /\ UNCHANGED <<needsReordering, closed, sessions, paused, queue, callbacks, tasks, lastId,
                 heard, settled, asked>>

-----------------------------------------------------------------------------
Next ==
  \/ OnMessage
  \/ ProcessQueue
  \/ \E s \in Attached : CreateSession(s)
  \/ Pause
  \/ \E s \in Sessions : Send(s) \/ Resume(s)
  \/ \E s \in Attached : DisposeSession(s)
  \/ OnTransportClose
  \/ \E id \in Requests, s \in Sessions : SendAnswer(id, s)
  \/ \E s \in Sessions : SendEvent(s)

Spec == Init /\ [][Next]_vars

(* The event loop runs, the debuggee answers, and the binder has bound a    *)
(* target, which resumes its session, some time after the requests made to  *)
(* attach to it were answered.                                              *)
Fairness ==
  /\ WF_vars(OnMessage)
  /\ WF_vars(ProcessQueue)
  /\ \A s \in Sessions : WF_vars(callbacks[s] = {} /\ Resume(s))
  /\ \A id \in Requests, s \in Sessions : WF_vars(SendAnswer(id, s))

FairSpec == Spec /\ Fairness
=============================================================================
