-------------------------- MODULE CdpSessionProofs --------------------------
(***************************************************************************)
(* Proofs, for any number of sessions, requests and events, of the safety  *)
(* properties of CdpSessionProps that are invariants, and that CdpSession  *)
(* implements CdpChannel.                                                  *)
(***************************************************************************)
EXTENDS CdpSessionProps, FiniteSetTheorems, SequenceTheorems, NaturalsInduction,
        WellFoundedInduction, TLAPS

-----------------------------------------------------------------------------
(* Numbers and sequences.                                                  *)

(* A set of numbers has a smallest one.                                    *)
LEMMA SmallestNumber ==
  ASSUME NEW T \in SUBSET Nat, T # {}
  PROVE  \E m \in T : \A y \in T : m <= y
<1>1. PICK m \in T : \A y \in T : ~(<<y, m>> \in OpToRel(<, Nat))
  BY WFMin, NatLessThanWellFounded
<1>2. \A y \in T : ~(y < m)
  BY <1>1 DEF OpToRel
<1> QED BY <1>2

(* The last of a set of numbers that has a bound is one of them.           *)
LEMMA MaxIsLargest ==
  ASSUME NEW N \in Nat, NEW S \in SUBSET (0 .. N), S # {}
  PROVE  Max(S) \in S /\ \A y \in S : Max(S) >= y
<1>1. {N - x : x \in S} # {} /\ {N - x : x \in S} \in SUBSET Nat
  <2>1. \A x \in S : N - x \in Nat
    OBVIOUS
  <2> QED BY <2>1
<1>2. PICK x \in S : \A y \in {N - z : z \in S} : N - x <= y
  BY <1>1, SmallestNumber
<1>3. \A y \in S : x >= y
  BY <1>2
<1> QED BY <1>3 DEF Max

(* Induction, for a set of numbers.                                        *)
LEMMA InductionUpTo ==
  ASSUME NEW N \in Nat, NEW G, 0 \in G, \A i \in 0 .. N : i \in G /\ i < N => i + 1 \in G
  PROVE  \A i \in 0 .. N : i \in G
<1> SUFFICES ASSUME {i \in 0 .. N : i \notin G} # {}
             PROVE  FALSE
  OBVIOUS
<1>1. {i \in 0 .. N : i \notin G} \in SUBSET Nat
  OBVIOUS
<1>2. PICK m \in {i \in 0 .. N : i \notin G} : \A y \in {i \in 0 .. N : i \notin G} : m <= y
  BY <1>1, SmallestNumber
<1>3. m # 0 /\ m \in Nat /\ m <= N
  BY <1>2
<1>4. m - 1 \in G
  BY <1>2, <1>3
<1> QED BY <1>2, <1>3, <1>4

(* A queue whose first element is taken, and one that is added to.         *)
LEMMA RangeOfTail ==
  ASSUME NEW S, NEW q \in Seq(S), q # <<>>
  PROVE  /\ Head(q) \in S /\ Tail(q) \in Seq(S)
         /\ \A x \in Range(q) : x = Head(q) \/ x \in Range(Tail(q))
<1>1. Head(q) \in S /\ Tail(q) \in Seq(S) /\ Len(Tail(q)) = Len(q) - 1
  OBVIOUS
<1>2. \A i \in 1 .. Len(q) - 1 : Tail(q)[i] = q[i + 1]
  OBVIOUS
<1>3. ASSUME NEW i \in 1 .. Len(q), i # 1
      PROVE  i - 1 \in DOMAIN Tail(q) /\ Tail(q)[i - 1] = q[i]
  <2>1. i - 1 \in 1 .. Len(q) - 1 /\ (i - 1) + 1 = i
    BY <1>3
  <2>2. DOMAIN Tail(q) = 1 .. Len(q) - 1
    OBVIOUS
  <2>3. Tail(q)[i - 1] = q[(i - 1) + 1]
    BY <1>2, <2>1
  <2> QED
    BY <2>1, <2>2, <2>3
<1>4. q[1] = Head(q)
  OBVIOUS
<1>5. ASSUME NEW x \in Range(q) PROVE x = Head(q) \/ x \in Range(Tail(q))
  <2>1. PICK i \in 1 .. Len(q) : x = q[i]
    BY DEF Range
  <2> QED
    BY <2>1, <1>3, <1>4 DEF Range
<1> QED
  BY <1>1, <1>5

(* The range of a sequence grows by the element appended.                  *)
LEMMA RangeOfAppend ==
  ASSUME NEW S, NEW q \in Seq(S), NEW e \in S
  PROVE  /\ Append(q, e) \in Seq(S)
         /\ e \in Range(Append(q, e))
         /\ Range(q) \subseteq Range(Append(q, e))
<1>1. Append(q, e) \in Seq(S) /\ Len(Append(q, e)) = Len(q) + 1
  OBVIOUS
<1>2. Append(q, e)[Len(q) + 1] = e /\ \A i \in 1 .. Len(q) : Append(q, e)[i] = q[i]
  OBVIOUS
<1>3. Len(q) + 1 \in DOMAIN Append(q, e) /\ 1 .. Len(q) \subseteq DOMAIN Append(q, e)
  BY <1>1
<1>4. DOMAIN q = 1 .. Len(q)
  OBVIOUS
<1> QED
  BY <1>1, <1>2, <1>3, <1>4 DEF Range

-----------------------------------------------------------------------------
(* Lemmas about the operators.                                             *)

(* The number of a message is that of its event or of its request.         *)
LEMMA NumberOfMessage ==
  ASSUME NEW m \in Message
  PROVE  /\ m.kind = "event" => m.n \in 1 .. MaxEvents
         /\ m.kind = "answer" => m.n \in Requests
BY DEF Message, Event, Answer

(* Handing on messages keeps the types, and moves some requests of the     *)
(* session from those that wait to those that were answered.               *)
LEMMA Processed ==
  ASSUME TypeOK, NEW s \in Sessions, NEW msgs \in Seq(Message), ProcessResponses(s, msgs)
  PROVE  /\ heard' \in [Sessions -> 0 .. MaxEvents]
         /\ \E A \in SUBSET callbacks[s] :
              /\ callbacks' = [callbacks EXCEPT ![s] = @ \ A]
              /\ answered' = answered \union A
<1> DEFINE answers == {m.n : m \in {msg \in Range(msgs) : msg.kind = "answer"}}
           events == {m.n : m \in {msg \in Range(msgs) : msg.kind = "event"}}
<1>1. /\ heard' = [heard EXCEPT ![s] = IF events = {} THEN @ ELSE Max(events)]
      /\ callbacks' = [callbacks EXCEPT ![s] = @ \ answers]
      /\ answered' = answered \union (answers \intersect callbacks[s])
  BY DEF ProcessResponses
<1>2. Range(msgs) \subseteq Message
  BY DEF Range
<1>3. \A m \in {msg \in Range(msgs) : msg.kind = "event"} : m.n \in 1 .. MaxEvents
  BY <1>2, NumberOfMessage
<1>4. events \in SUBSET (0 .. MaxEvents)
  BY <1>3
<1> HIDE DEF answers, events
<1>5. events # {} => Max(events) \in 0 .. MaxEvents
  BY <1>4, MaxIsLargest, CdpSessionAssumption
<1>6. heard' \in [Sessions -> 0 .. MaxEvents]
  BY <1>1, <1>5 DEF TypeOK
<1>7. /\ callbacks' = [callbacks EXCEPT ![s] = @ \ (answers \intersect callbacks[s])]
      /\ answers \intersect callbacks[s] \in SUBSET callbacks[s]
  BY <1>1 DEF TypeOK
<1> QED
  BY <1>1, <1>6, <1>7

-----------------------------------------------------------------------------
(* The inductive invariant.                                                *)

(* Every request made is settled, or waits in an open session.             *)
Accounted ==
  /\ answered \union rejected \subseteq 1 .. lastId
  /\ \A s \in Sessions : callbacks[s] \subseteq 1 .. lastId
  /\ \A s \in Sessions : sessions[s] # "open" => callbacks[s] = {}
  /\ \A id \in 1 .. lastId :
       id \in answered \union rejected \/ \E s \in Sessions : id \in callbacks[s]

(* Nothing is open once the connection has closed.                         *)
ClosedIsGone == closed => \A s \in Sessions : sessions[s] # "open"

Inv == TypeOK /\ Accounted /\ ClosedIsGone /\ QueueIsDrained

(* Answering requests of one open session leaves every request accounted.  *)
LEMMA StillAccounted ==
  ASSUME TypeOK, Accounted, NEW s \in Sessions, NEW A \in SUBSET callbacks[s],
         callbacks' = [callbacks EXCEPT ![s] = @ \ A],
         answered' = answered \union A,
         UNCHANGED <<sessions, lastId, rejected>>
  PROVE  /\ callbacks' \in [Sessions -> SUBSET Requests]
         /\ answered' \subseteq Requests
         /\ Accounted'
<1>1. callbacks \in [Sessions -> SUBSET Requests] /\ answered \subseteq Requests
  BY DEF TypeOK
<1>2. \A t \in Sessions : callbacks'[t] = IF t = s THEN callbacks[s] \ A ELSE callbacks[t]
  BY <1>1
<1> QED
  BY <1>1, <1>2 DEF Accounted

(* The invariant holds of a new connection.                                *)
LEMMA InitInv == Init => Inv
<1> SUFFICES ASSUME Init PROVE Inv
  OBVIOUS
<1>1. TypeOK
  <2>1. /\ queue \in [Sessions -> Seq(Message)] /\ tasks \in Seq(Sessions)
        /\ wire \in Seq([to : Sessions, msg : Message])
    BY DEF Init
  <2>2. sessions \in [Sessions -> {"none", "open", "gone"}]
        /\ paused \in [Sessions -> {"not_yet", "paused", "resumed"}]
    BY DEF Init
  <2>3. /\ lastId \in 0 .. MaxRequests
        /\ heard \in [Sessions -> 0 .. MaxEvents] /\ emitted \in [Sessions -> 0 .. MaxEvents]
    BY CdpSessionAssumption DEF Init
  <2> QED
    BY <2>1, <2>2, <2>3 DEF Init, TypeOK
<1>2. Accounted /\ ClosedIsGone /\ QueueIsDrained
  BY DEF Init, Accounted, ClosedIsGone, QueueIsDrained
<1> QED
  BY <1>1, <1>2 DEF Inv

(* A message that arrives is handed on, ignored, or queued; in the last    *)
(* case there is a task for the queue already or one is added.             *)
LEMMA OnMessageInv == Inv /\ OnMessage => Inv'
<1> SUFFICES ASSUME Inv, OnMessage PROVE Inv'
  OBVIOUS
<1> DEFINE s == Head(wire).to
           msg == Head(wire).msg
<1>1. s \in Sessions /\ msg \in Message /\ wire' \in Seq([to : Sessions, msg : Message])
  <2>1. wire \in Seq([to : Sessions, msg : Message]) /\ wire # <<>> /\ wire' = Tail(wire)
    BY DEF Inv, TypeOK, OnMessage
  <2>2. /\ Head(wire) \in [to : Sessions, msg : Message]
        /\ wire' \in Seq([to : Sessions, msg : Message])
    BY <2>1, RangeOfTail
  <2> QED
    BY <2>2
<1>2. UNCHANGED <<needsReordering, closed, sessions, paused, lastId, rejected, asked, emitted>>
  BY DEF OnMessage
<1>3. \/ UNCHANGED <<queue, callbacks, tasks, heard, answered>>
      \/ ProcessResponses(s, <<msg>>) /\ UNCHANGED <<queue, tasks>>
      \/ /\ queue' = [queue EXCEPT ![s] = Append(@, msg)]
         /\ tasks' = IF Schedules(s) THEN Append(tasks, s) ELSE tasks
         /\ UNCHANGED <<callbacks, heard, answered>>
  BY DEF OnMessage
<1> HIDE DEF s, msg
<1>4. CASE UNCHANGED <<queue, callbacks, tasks, heard, answered>>
  BY <1>1, <1>2, <1>4 DEF Inv, TypeOK, Accounted, ClosedIsGone, QueueIsDrained
<1>5. CASE ProcessResponses(s, <<msg>>) /\ UNCHANGED <<queue, tasks>>
  <2>1. <<msg>> \in Seq(Message)
    BY <1>1
  <2>2. /\ heard' \in [Sessions -> 0 .. MaxEvents]
        /\ \E A \in SUBSET callbacks[s] :
             /\ callbacks' = [callbacks EXCEPT ![s] = @ \ A]
             /\ answered' = answered \union A
    BY <1>1, <1>5, <2>1, Processed DEF Inv
  <2>3. /\ callbacks' \in [Sessions -> SUBSET Requests]
        /\ answered' \subseteq Requests
        /\ Accounted'
    BY <1>1, <1>2, <2>2, StillAccounted DEF Inv
  <2>4. TypeOK'
    BY <1>1, <1>2, <1>5, <2>2, <2>3 DEF Inv, TypeOK
  <2>5. ClosedIsGone' /\ QueueIsDrained'
    BY <1>2, <1>5 DEF Inv, ClosedIsGone, QueueIsDrained
  <2> QED
    BY <2>3, <2>4, <2>5 DEF Inv
<1>6. CASE /\ queue' = [queue EXCEPT ![s] = Append(@, msg)]
           /\ tasks' = IF Schedules(s) THEN Append(tasks, s) ELSE tasks
           /\ UNCHANGED <<callbacks, heard, answered>>
  <2>1. queue \in [Sessions -> Seq(Message)] /\ tasks \in Seq(Sessions)
    BY DEF Inv, TypeOK
  <2>2. Append(queue[s], msg) \in Seq(Message)
    BY <1>1, <2>1
  <2>3. queue' \in [Sessions -> Seq(Message)]
    BY <1>1, <1>6, <2>1, <2>2
  <2>4. tasks' \in Seq(Sessions) /\ Range(tasks) \subseteq Range(tasks')
        /\ (Schedules(s) => s \in Range(tasks'))
    BY <1>1, <1>6, <2>1, RangeOfAppend
  <2>5. TypeOK'
    BY <1>1, <1>2, <1>6, <2>3, <2>4 DEF Inv, TypeOK
  <2>6. Accounted' /\ ClosedIsGone'
    BY <1>2, <1>6 DEF Inv, Accounted, ClosedIsGone
  <2>7. \A t \in Sessions : t # s => queue'[t] = queue[t]
    BY <1>6, <2>1
  <2>8. QueueIsDrained'
    BY <1>2, <2>4, <2>7 DEF Inv, QueueIsDrained, Schedules
  <2> QED
    BY <2>5, <2>6, <2>8 DEF Inv
<1> QED
  BY <1>3, <1>4, <1>5, <1>6

(* A task hands on the first message of a queue and schedules the next.    *)
LEMMA ProcessQueueInv == Inv /\ ProcessQueue => Inv'
<1> SUFFICES ASSUME Inv, ProcessQueue PROVE Inv'
  OBVIOUS
<1> DEFINE s == Head(tasks)
<1>1. queue \in [Sessions -> Seq(Message)] /\ tasks \in Seq(Sessions) /\ tasks # <<>>
  BY DEF Inv, TypeOK, ProcessQueue
<1>2. /\ s \in Sessions /\ Tail(tasks) \in Seq(Sessions)
      /\ \A t \in Range(tasks) : t = s \/ t \in Range(Tail(tasks))
  BY <1>1, RangeOfTail
<1>3. UNCHANGED <<needsReordering, closed, sessions, paused, lastId, rejected,
                  asked, emitted, wire>>
  BY DEF ProcessQueue, world
<1>4. \/ /\ paused[s] = "paused" \/ queue[s] = <<>>
         /\ tasks' = Tail(tasks)
         /\ UNCHANGED <<queue, callbacks, heard, answered>>
      \/ /\ queue[s] # <<>>
         /\ queue' = [queue EXCEPT ![s] = Tail(@)]
         /\ ProcessResponses(s, <<Head(queue[s])>>)
         /\ tasks' = IF Tail(queue[s]) # <<>> /\ sessions[s] = "open"
                       THEN Append(Tail(tasks), s) ELSE Tail(tasks)
  BY DEF ProcessQueue
<1> HIDE DEF s
<1>5. CASE /\ paused[s] = "paused" \/ queue[s] = <<>>
           /\ tasks' = Tail(tasks)
           /\ UNCHANGED <<queue, callbacks, heard, answered>>
  <2>1. TypeOK'
    BY <1>2, <1>3, <1>5 DEF Inv, TypeOK
  <2>2. Accounted' /\ ClosedIsGone'
    BY <1>3, <1>5 DEF Inv, Accounted, ClosedIsGone
  <2>3. QueueIsDrained'
    BY <1>2, <1>3, <1>5 DEF Inv, QueueIsDrained
  <2> QED
    BY <2>1, <2>2, <2>3 DEF Inv
<1>6. CASE /\ queue[s] # <<>>
           /\ queue' = [queue EXCEPT ![s] = Tail(@)]
           /\ ProcessResponses(s, <<Head(queue[s])>>)
           /\ tasks' = IF Tail(queue[s]) # <<>> /\ sessions[s] = "open"
                         THEN Append(Tail(tasks), s) ELSE Tail(tasks)
  <2>1. Head(queue[s]) \in Message /\ Tail(queue[s]) \in Seq(Message)
    <3>1. queue[s] \in Seq(Message)
      BY <1>1, <1>2
    <3> QED
      BY <3>1, <1>6, RangeOfTail
  <2>2. queue' \in [Sessions -> Seq(Message)]
        /\ queue'[s] = Tail(queue[s]) /\ \A t \in Sessions : t # s => queue'[t] = queue[t]
    BY <1>1, <1>2, <1>6, <2>1
  <2>3. <<Head(queue[s])>> \in Seq(Message)
    BY <2>1
  <2>4. /\ heard' \in [Sessions -> 0 .. MaxEvents]
        /\ \E A \in SUBSET callbacks[s] :
             /\ callbacks' = [callbacks EXCEPT ![s] = @ \ A]
             /\ answered' = answered \union A
    BY <1>2, <1>6, <2>3, Processed DEF Inv
  <2>5. /\ callbacks' \in [Sessions -> SUBSET Requests]
        /\ answered' \subseteq Requests
        /\ Accounted'
    BY <1>2, <1>3, <2>4, StillAccounted DEF Inv
  <2>6. /\ tasks' \in Seq(Sessions) /\ Range(Tail(tasks)) \subseteq Range(tasks')
        /\ Tail(queue[s]) # <<>> /\ sessions[s] = "open" => s \in Range(tasks')
    BY <1>2, <1>6, RangeOfAppend
  <2>7. TypeOK'
    BY <1>3, <2>2, <2>4, <2>5, <2>6 DEF Inv, TypeOK
  <2>8. ClosedIsGone'
    BY <1>3 DEF Inv, ClosedIsGone
  <2>9. QueueIsDrained'
    BY <1>2, <1>3, <2>2, <2>6 DEF Inv, QueueIsDrained
  <2> QED
    BY <2>5, <2>7, <2>8, <2>9 DEF Inv
<1> QED
  BY <1>4, <1>5, <1>6

(* Resuming hands on the whole queue.                                      *)
LEMMA ResumeInv == ASSUME NEW s \in Sessions PROVE Inv /\ Resume(s) => Inv'
<1> SUFFICES ASSUME Inv, Resume(s) PROVE Inv'
  OBVIOUS
<1>1. /\ UNCHANGED <<needsReordering, closed, sessions, tasks, lastId, rejected,
                     asked, emitted, wire>>
      /\ paused' = [paused EXCEPT ![s] = "resumed"]
      /\ queue' = [queue EXCEPT ![s] = <<>>]
      /\ ProcessResponses(s, queue[s])
  BY DEF Resume, world
<1>2. queue \in [Sessions -> Seq(Message)]
      /\ paused \in [Sessions -> {"not_yet", "paused", "resumed"}]
  BY DEF Inv, TypeOK
<1>3. /\ heard' \in [Sessions -> 0 .. MaxEvents]
      /\ \E A \in SUBSET callbacks[s] :
           /\ callbacks' = [callbacks EXCEPT ![s] = @ \ A]
           /\ answered' = answered \union A
  BY <1>1, <1>2, Processed DEF Inv
<1>4. /\ callbacks' \in [Sessions -> SUBSET Requests]
      /\ answered' \subseteq Requests
      /\ Accounted'
  BY <1>1, <1>3, StillAccounted DEF Inv
<1>5. /\ queue' \in [Sessions -> Seq(Message)]
      /\ paused' \in [Sessions -> {"not_yet", "paused", "resumed"}]
      /\ queue'[s] = <<>>
      /\ \A t \in Sessions : t # s => queue'[t] = queue[t] /\ paused'[t] = paused[t]
  BY <1>1, <1>2
<1>6. TypeOK'
  BY <1>1, <1>3, <1>4, <1>5 DEF Inv, TypeOK
<1>7. ClosedIsGone' /\ QueueIsDrained'
  BY <1>1, <1>5 DEF Inv, ClosedIsGone, QueueIsDrained
<1> QED
  BY <1>4, <1>6, <1>7 DEF Inv

(* A new request waits for its answer, or is rejected at once.             *)
LEMMA SendInv == ASSUME NEW s \in Sessions PROVE Inv /\ Send(s) => Inv'
<1> SUFFICES ASSUME Inv, Send(s) PROVE Inv'
  OBVIOUS
<1>1. /\ UNCHANGED <<needsReordering, closed, sessions, paused, queue, tasks, heard, answered,
                     emitted, wire>>
      /\ lastId < MaxRequests /\ lastId' = lastId + 1
      /\ \/ /\ sessions[s] = "gone"
            /\ rejected' = rejected \union {lastId'}
            /\ UNCHANGED <<callbacks, asked>>
         \/ /\ sessions[s] = "open"
            /\ callbacks' = [callbacks EXCEPT ![s] = @ \union {lastId'}]
            /\ asked' = asked \union {<<lastId', s>>}
            /\ UNCHANGED rejected
  BY DEF Inv, TypeOK, Send
<1>2. /\ callbacks \in [Sessions -> SUBSET Requests] /\ lastId \in 0 .. MaxRequests
      /\ rejected \subseteq Requests /\ asked \subseteq Requests \X Sessions
  BY DEF Inv, TypeOK
<1>3. /\ lastId' \in Requests /\ lastId' \in 0 .. MaxRequests
      /\ 1 .. lastId' = 1 .. lastId \union {lastId'}
  BY <1>1, <1>2, CdpSessionAssumption DEF Requests
<1>4. CASE /\ sessions[s] = "gone"
           /\ rejected' = rejected \union {lastId'}
           /\ UNCHANGED <<callbacks, asked>>
  <2>1. TypeOK'
    BY <1>1, <1>2, <1>3, <1>4 DEF Inv, TypeOK
  <2>2. Accounted'
    BY <1>1, <1>3, <1>4 DEF Inv, Accounted
  <2> QED
    BY <1>1, <2>1, <2>2 DEF Inv, ClosedIsGone, QueueIsDrained
<1>5. CASE /\ sessions[s] = "open"
           /\ callbacks' = [callbacks EXCEPT ![s] = @ \union {lastId'}]
           /\ asked' = asked \union {<<lastId', s>>}
           /\ UNCHANGED rejected
  <2>1. /\ callbacks' \in [Sessions -> SUBSET Requests]
        /\ \A t \in Sessions :
             callbacks'[t] = IF t = s THEN callbacks[s] \union {lastId'} ELSE callbacks[t]
    BY <1>2, <1>3, <1>5
  <2>2. asked' \subseteq Requests \X Sessions
    BY <1>2, <1>3, <1>5
  <2>3. TypeOK'
    BY <1>1, <1>2, <1>3, <1>5, <2>1, <2>2 DEF Inv, TypeOK
  <2>4. Accounted'
    BY <1>1, <1>3, <1>5, <2>1 DEF Inv, Accounted
  <2> QED
    BY <1>1, <2>3, <2>4 DEF Inv, ClosedIsGone, QueueIsDrained
<1> QED
  BY <1>1, <1>4, <1>5

(* Sessions that go reject what waits in them, whichever they are.         *)
LEMMA ClosingInv ==
  ASSUME Inv, NEW S \in SUBSET Sessions, Closing(S)
  PROVE  /\ sessions' \in [Sessions -> {"none", "open", "gone"}]
         /\ callbacks' \in [Sessions -> SUBSET Requests]
         /\ rejected' \subseteq Requests
         /\ Accounted'
         /\ QueueIsDrained'
         /\ \A s \in Sessions : sessions'[s] = IF s \in S THEN "gone" ELSE sessions[s]
<1>1. /\ sessions' = [s \in Sessions |-> IF s \in S THEN "gone" ELSE sessions[s]]
      /\ callbacks' = [s \in Sessions |-> IF s \in S THEN {} ELSE callbacks[s]]
      /\ rejected' = rejected \union UNION {callbacks[s] : s \in S}
      /\ UNCHANGED <<paused, queue, tasks, lastId, answered>>
  BY DEF Closing
<1>2. /\ sessions \in [Sessions -> {"none", "open", "gone"}]
      /\ callbacks \in [Sessions -> SUBSET Requests]
      /\ rejected \subseteq Requests
  BY DEF Inv, TypeOK
<1>3. /\ sessions' \in [Sessions -> {"none", "open", "gone"}]
      /\ callbacks' \in [Sessions -> SUBSET Requests]
      /\ \A s \in Sessions : sessions'[s] = IF s \in S THEN "gone" ELSE sessions[s]
      /\ \A s \in Sessions : callbacks'[s] = IF s \in S THEN {} ELSE callbacks[s]
  BY <1>1, <1>2
<1>4. \A id : id \in rejected' <=> id \in rejected \/ \E s \in S : id \in callbacks[s]
  BY <1>1
<1>5. rejected' \subseteq Requests
  BY <1>2, <1>4
<1>6. Accounted'
  <2>1. (answered \union rejected)' \subseteq 1 .. lastId'
    BY <1>1, <1>4 DEF Inv, Accounted
  <2>2. \A s \in Sessions : callbacks'[s] \subseteq 1 .. lastId'
    BY <1>1, <1>3 DEF Inv, Accounted
  <2>3. \A s \in Sessions : sessions'[s] # "open" => callbacks'[s] = {}
    BY <1>3 DEF Inv, Accounted
  <2>4. \A id \in 1 .. lastId' :
          id \in (answered \union rejected)' \/ \E s \in Sessions : id \in callbacks'[s]
    BY <1>1, <1>3, <1>4 DEF Inv, Accounted
  <2> QED
    BY <2>1, <2>2, <2>3, <2>4 DEF Accounted
<1>7. QueueIsDrained'
  BY <1>1, <1>3 DEF Inv, QueueIsDrained
<1> QED
  BY <1>3, <1>5, <1>6, <1>7

(* A message is put on the wire.                                           *)
LEMMA OnTheWire ==
  ASSUME TypeOK, NEW s \in Sessions, NEW m \in Message
  PROVE  Append(wire, [to |-> s, msg |-> m]) \in Seq([to : Sessions, msg : Message])
<1>1. [to |-> s, msg |-> m] \in [to : Sessions, msg : Message]
  OBVIOUS
<1> QED
  BY <1>1, RangeOfAppend DEF TypeOK

-----------------------------------------------------------------------------
(* Every step keeps the invariant.                                         *)
LEMMA NextInv == Inv /\ [Next]_vars => Inv'
<1> SUFFICES ASSUME Inv, [Next]_vars PROVE Inv'
  OBVIOUS
<1>1. CASE OnMessage
  BY <1>1, OnMessageInv
<1>2. CASE ProcessQueue
  BY <1>2, ProcessQueueInv
<1>3. ASSUME NEW s \in Attached, CreateSession(s) PROVE Inv'
  <2>1. /\ s \in Sessions
        /\ sessions \in [Sessions -> {"none", "open", "gone"}]
        /\ paused \in [Sessions -> {"not_yet", "paused", "resumed"}]
    BY DEF Inv, TypeOK, Sessions
  <2>2. /\ ~closed
        /\ sessions' = [sessions EXCEPT ![s] = "open"]
        /\ paused' = [paused EXCEPT ![s] = "paused"]
        /\ UNCHANGED <<needsReordering, closed, queue, callbacks, tasks, lastId, heard,
                       answered, rejected, asked, emitted, wire>>
    BY <1>3 DEF CreateSession, settled, world
  <2>3. /\ sessions' \in [Sessions -> {"none", "open", "gone"}]
        /\ paused' \in [Sessions -> {"not_yet", "paused", "resumed"}]
        /\ \A t \in Sessions : sessions'[t] = IF t = s THEN "open" ELSE sessions[t]
        /\ \A t \in Sessions : paused'[t] = IF t = s THEN "paused" ELSE paused[t]
    BY <2>1, <2>2
  <2>4. TypeOK'
    BY <2>2, <2>3 DEF Inv, TypeOK
  <2>5. Accounted'
    BY <2>2, <2>3 DEF Inv, Accounted
  <2>6. ClosedIsGone' /\ QueueIsDrained'
    BY <2>2, <2>3 DEF Inv, ClosedIsGone, QueueIsDrained
  <2> QED
    BY <2>4, <2>5, <2>6 DEF Inv
<1>4. CASE Pause
  <2>1. /\ paused \in [Sessions -> {"not_yet", "paused", "resumed"}]
        /\ paused' = [paused EXCEPT ![Root] = "paused"]
        /\ UNCHANGED <<needsReordering, closed, sessions, queue, callbacks, tasks, lastId, heard,
                       answered, rejected, asked, emitted, wire>>
    BY <1>4 DEF Inv, TypeOK, Pause, settled, world
  <2>2. /\ paused' \in [Sessions -> {"not_yet", "paused", "resumed"}]
        /\ \A t \in Sessions : paused'[t] = IF t = Root THEN "paused" ELSE paused[t]
    BY <2>1
  <2>3. TypeOK'
    BY <2>1, <2>2 DEF Inv, TypeOK
  <2>4. Accounted' /\ ClosedIsGone'
    BY <2>1 DEF Inv, Accounted, ClosedIsGone
  <2>5. QueueIsDrained'
    BY <2>1, <2>2 DEF Inv, QueueIsDrained
  <2> QED
    BY <2>3, <2>4, <2>5 DEF Inv
<1>5. ASSUME NEW s \in Sessions, Send(s) PROVE Inv'
  BY <1>5, SendInv
<1>6. ASSUME NEW s \in Sessions, Resume(s) PROVE Inv'
  BY <1>6, ResumeInv
<1>7. ASSUME NEW s \in Attached, DisposeSession(s) PROVE Inv'
  <2>1. {s} \in SUBSET Sessions
    BY DEF Sessions
  <2>2. /\ Closing({s})
        /\ UNCHANGED <<needsReordering, closed, paused, queue, tasks, lastId, heard, answered,
                       asked, emitted, wire>>
    BY <1>7 DEF DisposeSession, Closing
  <2>3. /\ sessions' \in [Sessions -> {"none", "open", "gone"}]
        /\ callbacks' \in [Sessions -> SUBSET Requests]
        /\ rejected' \subseteq Requests
        /\ Accounted'
        /\ QueueIsDrained'
        /\ \A t \in Sessions : sessions'[t] = IF t \in {s} THEN "gone" ELSE sessions[t]
    BY <2>1, <2>2, ClosingInv
  <2>4. TypeOK'
    BY <2>2, <2>3 DEF Inv, TypeOK
  <2>5. ClosedIsGone'
    BY <2>2, <2>3 DEF Inv, ClosedIsGone
  <2> QED
    BY <2>3, <2>4, <2>5 DEF Inv
<1>8. CASE OnTransportClose
  <2> DEFINE S == {s \in Sessions : sessions[s] = "open"}
  <2>1. S \in SUBSET Sessions
    OBVIOUS
  <2>2. /\ Closing(S)
        /\ closed' = TRUE /\ wire' = <<>>
        /\ UNCHANGED <<needsReordering, paused, queue, tasks, lastId, heard, answered,
                       asked, emitted>>
    BY <1>8 DEF OnTransportClose, Closing
  <2>3. /\ sessions' \in [Sessions -> {"none", "open", "gone"}]
        /\ callbacks' \in [Sessions -> SUBSET Requests]
        /\ rejected' \subseteq Requests
        /\ Accounted'
        /\ QueueIsDrained'
        /\ \A t \in Sessions : sessions'[t] = IF t \in S THEN "gone" ELSE sessions[t]
    BY <2>1, <2>2, ClosingInv
  <2>4. TypeOK'
    BY <2>2, <2>3 DEF Inv, TypeOK
  <2>5. ClosedIsGone'
    BY <2>3 DEF ClosedIsGone
  <2> QED
    BY <2>3, <2>4, <2>5 DEF Inv
<1>9. ASSUME NEW id \in Requests, NEW s \in Sessions, SendAnswer(id, s) PROVE Inv'
  <2>1. Answer(id) \in Message
    BY DEF Message
  <2>2. wire' \in Seq([to : Sessions, msg : Message])
    BY <1>9, <2>1, OnTheWire DEF Inv, TypeOK, SendAnswer
  <2>3. /\ asked' \subseteq asked
        /\ UNCHANGED <<needsReordering, closed, sessions, paused, queue, callbacks, tasks, lastId,
                       heard, answered, rejected, emitted>>
    BY <1>9 DEF SendAnswer, settled
  <2>4. TypeOK'
    BY <2>2, <2>3 DEF Inv, TypeOK
  <2> QED
    BY <2>3, <2>4 DEF Inv, Accounted, ClosedIsGone, QueueIsDrained
<1>10. ASSUME NEW s \in Sessions, SendEvent(s) PROVE Inv'
  <2>1. /\ emitted \in [Sessions -> 0 .. MaxEvents] /\ emitted[s] < MaxEvents
        /\ emitted' = [emitted EXCEPT ![s] = @ + 1]
        /\ wire' = Append(wire, [to |-> s, msg |-> Event(emitted'[s])])
        /\ UNCHANGED <<needsReordering, closed, sessions, paused, queue, callbacks, tasks, lastId,
                       heard, answered, rejected, asked>>
    BY <1>10 DEF Inv, TypeOK, SendEvent, settled
  <2>2. emitted' \in [Sessions -> 0 .. MaxEvents] /\ emitted'[s] \in 1 .. MaxEvents
    BY <2>1, CdpSessionAssumption
  <2>3. Event(emitted'[s]) \in Message
    BY <2>2 DEF Message
  <2>4. wire' \in Seq([to : Sessions, msg : Message])
    BY <2>1, <2>3, OnTheWire DEF Inv
  <2>5. TypeOK'
    BY <2>1, <2>2, <2>4 DEF Inv, TypeOK
  <2> QED
    BY <2>1, <2>5 DEF Inv, Accounted, ClosedIsGone, QueueIsDrained
<1>11. CASE UNCHANGED vars
  BY <1>11 DEF vars, Inv, TypeOK, Accounted, ClosedIsGone, QueueIsDrained
<1> QED
  BY <1>1, <1>2, <1>3, <1>4, <1>5, <1>6, <1>7, <1>8, <1>9, <1>10, <1>11 DEF Next

(* The invariant holds in every reachable state.                           *)
LEMMA Invariance == Spec => []Inv
<1>1. Init => Inv
  BY InitInv
<1>2. Inv /\ [Next]_vars => Inv'
  BY NextInv
<1> QED
  BY <1>1, <1>2, PTL DEF Spec

-----------------------------------------------------------------------------
(* The variables of a connection and its sessions keep their types.        *)
THEOREM TypeCorrect == Spec => []TypeOK
<1>1. Inv => TypeOK
  BY DEF Inv
<1> QED
  BY <1>1, Invariance, PTL

(* Once the connection has closed, every request that was ever made on any *)
(* of its sessions was answered or rejected, in whatever order answers,    *)
(* the loss of sessions and late requests came (_onClose and sendOrDie).   *)
THEOREM Settled == Spec => []AllSettled
<1>1. Inv => AllSettled
  BY DEF Inv, Accounted, ClosedIsGone, AllSettled
<1> QED
  BY <1>1, Invariance, PTL

(* A queue that is not paused never waits without a task that empties it   *)
(* (_onMessage and _processQueue schedule one another without a gap).      *)
THEOREM Drained == Spec => []QueueIsDrained
<1>1. Inv => QueueIsDrained
  BY DEF Inv
<1> QED
  BY <1>1, Invariance, PTL

-----------------------------------------------------------------------------
(* The messages in transit to a session, in the order they were sent.      *)

(* A message in transit.                                                   *)
Transit == [to : Sessions, msg : Message]

(* A sequence that is appended to is what comes first of two, still.       *)
LEMMA AppendToConcat ==
  \A p, q \in Seq(Message), e \in Message :
    Append(p \o q, e) = p \o Append(q, e) /\ Append(q, e) \in Seq(Message)
  OBVIOUS

(* The recursive function in MessagesTo.                                   *)
LEMMA MessagesToRecursion ==
  ASSUME NEW s, NEW w \in Seq(Transit)
  PROVE  \E upTo : /\ MessagesTo(s, w) = upTo[Len(w)]
                   /\ upTo[0] = <<>>
                   /\ \A i \in 1 .. Len(w) :
                        upTo[i] = IF w[i].to = s THEN Append(upTo[i - 1], w[i].msg)
                                  ELSE upTo[i - 1]
<1> DEFINE Body(f, i) == IF i = 0 THEN <<>>
                         ELSE IF w[i].to = s THEN Append(f[i - 1], w[i].msg)
                         ELSE f[i - 1]
           G == {n \in 0 .. Len(w) : \E f : f = [i \in 0 .. n |-> Body(f, i)]}
<1>0. Len(w) \in Nat
  OBVIOUS
<1>1. 0 \in G
  <2> DEFINE f == [i \in 0 .. 0 |-> <<>>]
  <2>1. f = [i \in 0 .. 0 |-> Body(f, i)]
    OBVIOUS
  <2> HIDE DEF f
  <2>2. \E h : h = [i \in 0 .. 0 |-> Body(h, i)]
    BY <2>1
  <2> QED BY <1>0, <2>2
<1>2. ASSUME NEW n \in 0 .. Len(w), n \in G, n < Len(w)
      PROVE  n + 1 \in G
  <2>1. PICK f : f = [i \in 0 .. n |-> Body(f, i)]
    BY <1>2
  <2> DEFINE g == [i \in 0 .. n + 1 |-> IF i <= n THEN f[i] ELSE Body(f, n + 1)]
  <2>2. ASSUME NEW i \in 0 .. n + 1
        PROVE  g[i] = Body(g, i)
    <3>1. CASE i = 0
      BY <2>1, <3>1
    <3>2. CASE i # 0
      <4>1. i - 1 \in 0 .. n /\ g[i - 1] = f[i - 1]
        BY <3>2
      <4>2. g[i] = Body(f, i)
        <5>1. CASE i <= n
          <6>1. i \in 0 .. n
            BY <5>1
          <6> QED BY <2>1, <5>1, <6>1
        <5>2. CASE i = n + 1
          BY <5>2
        <5> QED BY <5>1, <5>2
      <4> QED BY <3>2, <4>1, <4>2
    <3> QED BY <3>1, <3>2
  <2>3. g = [i \in 0 .. n + 1 |-> Body(g, i)]
    BY <2>2
  <2>4. n + 1 \in 0 .. Len(w)
    BY <1>0, <1>2
  <2> QED BY <2>3, <2>4
<1>3. Len(w) \in G
  <2> HIDE DEF G
  <2>1. \A i \in 0 .. Len(w) : i \in G
    BY <1>0, <1>1, <1>2, InductionUpTo
  <2> QED BY <1>0, <2>1
<1>4. PICK f : f = [i \in 0 .. Len(w) |-> Body(f, i)]
  BY <1>3
<1> DEFINE upTo == CHOOSE g : g = [i \in 0 .. Len(w) |-> Body(g, i)]
<1>5. upTo = [i \in 0 .. Len(w) |-> Body(upTo, i)]
  BY <1>4
<1>6. MessagesTo(s, w) = upTo[Len(w)]
  BY DEF MessagesTo
<1>7. \A i \in 0 .. Len(w) : upTo[i] = Body(upTo, i)
  BY <1>5
<1> HIDE DEF upTo
<1> QED BY <1>0, <1>6, <1>7

(* The messages to a session are messages; there are none without some in  *)
(* transit to it.                                                          *)
LEMMA MessagesToType ==
  ASSUME NEW s, NEW w \in Seq(Transit)
  PROVE  /\ MessagesTo(s, w) \in Seq(Message)
         /\ (\A i \in DOMAIN w : w[i].to # s) => MessagesTo(s, w) = <<>>
<1>1. PICK upTo : /\ MessagesTo(s, w) = upTo[Len(w)]
                  /\ upTo[0] = <<>>
                  /\ \A i \in 1 .. Len(w) :
                       upTo[i] = IF w[i].to = s THEN Append(upTo[i - 1], w[i].msg)
                                 ELSE upTo[i - 1]
  BY MessagesToRecursion
<1>2. Len(w) \in Nat /\ DOMAIN w = 1 .. Len(w) /\ \A i \in 1 .. Len(w) : w[i].msg \in Message
  <2>1. \A i \in 1 .. Len(w) : w[i] \in Transit
    OBVIOUS
  <2> QED BY <2>1 DEF Transit
<1> DEFINE G == {i \in 0 .. Len(w) : upTo[i] \in Seq(Message)}
           H == {i \in 0 .. Len(w) : upTo[i] = <<>>}
<1>3. \A i \in 0 .. Len(w) : i \in G /\ i < Len(w) => i + 1 \in G
  <2> SUFFICES ASSUME NEW i \in 0 .. Len(w), i \in G, i < Len(w)
               PROVE  i + 1 \in G
    OBVIOUS
  <2>1. i + 1 \in 1 .. Len(w) /\ (i + 1) - 1 = i
    BY <1>2
  <2>2. upTo[i + 1] \in {upTo[i], Append(upTo[i], w[i + 1].msg)} /\ w[i + 1].msg \in Message
    BY <1>1, <1>2, <2>1
  <2>3. upTo[i] \in Seq(Message)
    OBVIOUS
  <2>4. Append(upTo[i], w[i + 1].msg) \in Seq(Message)
    BY <2>2, <2>3
  <2>5. upTo[i + 1] \in Seq(Message)
    BY <2>2, <2>3, <2>4
  <2>6. i + 1 \in 0 .. Len(w)
    BY <1>2, <2>1
  <2> QED BY <2>5, <2>6
<1>4. 0 \in G /\ 0 \in H /\ Len(w) \in 0 .. Len(w)
  <2>1. upTo[0] = <<>> /\ <<>> \in Seq(Message)
    BY <1>1
  <2>2. 0 \in 0 .. Len(w) /\ Len(w) \in 0 .. Len(w)
    BY <1>2
  <2> QED BY <2>1, <2>2
<1>5. Len(w) \in G
  <2> HIDE DEF G
  <2> QED BY <1>2, <1>3, <1>4, InductionUpTo
<1>6. ASSUME \A i \in DOMAIN w : w[i].to # s
      PROVE  Len(w) \in H
  <2>1. \A i \in 0 .. Len(w) : i \in H /\ i < Len(w) => i + 1 \in H
    <3> SUFFICES ASSUME NEW i \in 0 .. Len(w), i \in H, i < Len(w)
                 PROVE  i + 1 \in H
      OBVIOUS
    <3>1. i + 1 \in 1 .. Len(w) /\ (i + 1) - 1 = i
      BY <1>2
    <3> QED BY <1>1, <1>2, <1>6, <3>1
  <2> HIDE DEF H
  <2> QED BY <1>2, <1>4, <2>1, InductionUpTo
<1> QED BY <1>1, <1>5, <1>6

(* What is sent last arrives last.                                         *)
LEMMA MessagesToAppend ==
  ASSUME NEW s, NEW w \in Seq(Transit), NEW m \in Transit
  PROVE  MessagesTo(s, Append(w, m)) = IF m.to = s THEN Append(MessagesTo(s, w), m.msg)
                                       ELSE MessagesTo(s, w)
<1> DEFINE z == Append(w, m)
<1>0. /\ z \in Seq(Transit) /\ Len(w) \in Nat /\ Len(z) = Len(w) + 1 /\ z[Len(z)] = m
      /\ \A i \in 1 .. Len(w) : z[i] = w[i]
  OBVIOUS
<1> HIDE DEF z
<1>1. PICK f : /\ MessagesTo(s, w) = f[Len(w)]
               /\ f[0] = <<>>
               /\ \A i \in 1 .. Len(w) :
                    f[i] = IF w[i].to = s THEN Append(f[i - 1], w[i].msg) ELSE f[i - 1]
  BY MessagesToRecursion
<1>2. PICK g : /\ MessagesTo(s, z) = g[Len(z)]
               /\ g[0] = <<>>
               /\ \A i \in 1 .. Len(z) :
                    g[i] = IF z[i].to = s THEN Append(g[i - 1], z[i].msg) ELSE g[i - 1]
  <2>1. z \in Seq(Transit)
    BY <1>0
  <2> QED BY <2>1, MessagesToRecursion
<1> DEFINE G == {i \in 0 .. Len(w) : f[i] = g[i]}
<1>3. \A i \in 0 .. Len(w) : i \in G /\ i < Len(w) => i + 1 \in G
  <2> SUFFICES ASSUME NEW i \in 0 .. Len(w), i \in G, i < Len(w)
               PROVE  i + 1 \in G
    OBVIOUS
  <2>1. i + 1 \in 1 .. Len(w) /\ i + 1 \in 1 .. Len(z) /\ (i + 1) - 1 = i
    BY <1>0
  <2> QED BY <1>0, <1>1, <1>2, <2>1
<1>4. 0 \in G /\ Len(w) \in 0 .. Len(w)
  BY <1>0, <1>1, <1>2
<1>5. Len(w) \in G
  <2> HIDE DEF G
  <2> QED BY <1>0, <1>3, <1>4, InductionUpTo
<1>6. Len(z) \in 1 .. Len(z) /\ Len(z) - 1 = Len(w)
  BY <1>0
<1>7. g[Len(z)] = IF m.to = s THEN Append(g[Len(w)], m.msg) ELSE g[Len(w)]
  BY <1>0, <1>2, <1>6
<1>8. f[Len(w)] = g[Len(w)]
  BY <1>5
<1> QED BY <1>1, <1>2, <1>7, <1>8 DEF z

(* What was sent first arrives first.                                      *)
LEMMA MessagesToTail ==
  ASSUME NEW s, NEW w \in Seq(Transit), w # <<>>
  PROVE  MessagesTo(s, w) = IF Head(w).to = s THEN <<Head(w).msg>> \o MessagesTo(s, Tail(w))
                            ELSE MessagesTo(s, Tail(w))
<1> DEFINE z == Tail(w)
           first == IF Head(w).to = s THEN <<Head(w).msg>> ELSE <<>>
<1>0. /\ z \in Seq(Transit) /\ Len(w) \in Nat /\ Len(z) \in Nat /\ Len(w) = Len(z) + 1
      /\ \A i \in 1 .. Len(z) : z[i] = w[i + 1] /\ w[i + 1].msg \in Message
      /\ w[1] = Head(w) /\ Head(w).msg \in Message
  <2>1. \A i \in 1 .. Len(w) : w[i] \in Transit
    OBVIOUS
  <2>2. /\ z \in Seq(Transit) /\ Len(w) \in Nat /\ Len(z) \in Nat /\ Len(w) = Len(z) + 1
        /\ \A i \in 1 .. Len(z) : z[i] = w[i + 1]
        /\ w[1] = Head(w)
    OBVIOUS
  <2>3. 1 \in 1 .. Len(w) /\ \A i \in 1 .. Len(z) : i + 1 \in 1 .. Len(w)
    BY <2>2
  <2> HIDE DEF z
  <2> QED BY <2>1, <2>2, <2>3 DEF Transit
<1> HIDE DEF z
<1>1. PICK f : /\ MessagesTo(s, w) = f[Len(w)]
               /\ f[0] = <<>>
               /\ \A i \in 1 .. Len(w) :
                    f[i] = IF w[i].to = s THEN Append(f[i - 1], w[i].msg) ELSE f[i - 1]
  BY MessagesToRecursion
<1>2. PICK g : /\ MessagesTo(s, z) = g[Len(z)]
               /\ g[0] = <<>>
               /\ \A i \in 1 .. Len(z) :
                    g[i] = IF z[i].to = s THEN Append(g[i - 1], z[i].msg) ELSE g[i - 1]
  <2>1. z \in Seq(Transit)
    BY <1>0
  <2> QED BY <2>1, MessagesToRecursion
<1>3. first \in Seq(Message) /\ f[1] = first
  <2>1. 1 \in 1 .. Len(w) /\ 1 - 1 = 0
    BY <1>0
  <2>2. f[1] = IF w[1].to = s THEN Append(f[0], w[1].msg) ELSE f[0]
    BY <1>1, <2>1
  <2>3. Append(<<>>, w[1].msg) = <<w[1].msg>>
    OBVIOUS
  <2> QED BY <1>0, <1>1, <2>2, <2>3
<1> HIDE DEF first
<1> DEFINE G == {i \in 0 .. Len(z) : g[i] \in Seq(Message) /\ f[i + 1] = first \o g[i]}
<1>4. 0 \in G
  <2>1. first \o <<>> = first
    BY <1>3, ConcatEmptySeq
  <2>2. g[0] \in Seq(Message) /\ f[0 + 1] = first \o g[0]
    BY <1>2, <1>3, <2>1
  <2> QED BY <1>0, <2>2
<1>5. \A i \in 0 .. Len(z) : i \in G /\ i < Len(z) => i + 1 \in G
  <2> SUFFICES ASSUME NEW i \in 0 .. Len(z), i \in G, i < Len(z)
               PROVE  i + 1 \in G
    OBVIOUS
  <2>1. /\ i + 1 \in 1 .. Len(z) /\ i + 2 \in 1 .. Len(w)
        /\ (i + 1) - 1 = i /\ (i + 2) - 1 = i + 1 /\ (i + 1) + 1 = i + 2
    BY <1>0
  <2>2. w[i + 2] = z[i + 1] /\ z[i + 1].msg \in Message
    BY <1>0, <2>1
  <2>3. g[i + 1] = IF z[i + 1].to = s THEN Append(g[i], z[i + 1].msg) ELSE g[i]
    BY <1>2, <2>1
  <2>4. f[i + 2] = IF z[i + 1].to = s THEN Append(f[i + 1], z[i + 1].msg) ELSE f[i + 1]
    BY <1>1, <2>1, <2>2
  <2>5. g[i] \in Seq(Message) /\ f[i + 1] = first \o g[i]
    OBVIOUS
  <2>6. f[i + 2] = first \o g[i + 1] /\ g[i + 1] \in Seq(Message)
    <3>1. CASE z[i + 1].to = s
      <4>3. PICK q : q = g[i]
        OBVIOUS
      <4>4. PICK e : e = z[i + 1].msg
        OBVIOUS
      <4>6. first \in Seq(Message) /\ q \in Seq(Message) /\ e \in Message
        BY <1>3, <2>2, <2>5, <4>3, <4>4
      <4>5. Append(first \o q, e) = first \o Append(q, e) /\ Append(q, e) \in Seq(Message)
        BY <4>6, AppendToConcat
      <4>1. Append(f[i + 1], z[i + 1].msg) = first \o Append(g[i], z[i + 1].msg)
            /\ Append(g[i], z[i + 1].msg) \in Seq(Message)
        BY <2>5, <4>3, <4>4, <4>5
      <4>2. g[i + 1] = Append(g[i], z[i + 1].msg) /\ f[i + 2] = Append(f[i + 1], z[i + 1].msg)
        BY <2>3, <2>4, <3>1
      <4> QED BY <4>1, <4>2
    <3>2. CASE z[i + 1].to # s
      <4>1. g[i + 1] = g[i] /\ f[i + 2] = f[i + 1]
        BY <2>3, <2>4, <3>2
      <4> QED BY <2>5, <4>1
    <3> QED BY <3>1, <3>2
  <2>7. i + 1 \in 0 .. Len(z) /\ f[(i + 1) + 1] = first \o g[i + 1]
    BY <2>1, <2>6
  <2> QED BY <2>6, <2>7
<1>6. Len(z) \in G
  <2>1. Len(z) \in 0 .. Len(z)
    BY <1>0
  <2> HIDE DEF G
  <2> QED BY <1>0, <1>4, <1>5, <2>1, InductionUpTo
<1>7. f[Len(w)] = first \o g[Len(z)] /\ g[Len(z)] \in Seq(Message)
  BY <1>0, <1>6
<1>8. <<>> \o g[Len(z)] = g[Len(z)]
  BY <1>7, ConcatEmptySeq
<1> QED BY <1>1, <1>2, <1>7, <1>8 DEF first, z

-----------------------------------------------------------------------------
(* The events among the messages on their way.                             *)

(* The numbers of the events of a channel, which ascend.                   *)
EventsIn(msgs) == {msgs[i].n : i \in {j \in DOMAIN msgs : msgs[j].kind = "event"}}
Ascends(msgs) ==
  \A i, j \in DOMAIN msgs :
    i < j /\ msgs[i].kind = "event" /\ msgs[j].kind = "event" => msgs[i].n < msgs[j].n

(* Parts of two sequences.                                                 *)
LEMMA PartsOfConcat ==
  \A q, t \in Seq(Message) :
    /\ q \o t \in Seq(Message)
    /\ Len(q \o t) = Len(q) + Len(t)
    /\ SubSeq(q \o t, 1, Len(q)) = q
    /\ SubSeq(q \o t, Len(q) + 1, Len(q \o t)) = t
    /\ q # <<>> => /\ SubSeq(q \o t, 1, 1) = <<Head(q)>>
                   /\ SubSeq(q \o t, 2, Len(q \o t)) = Tail(q) \o t
<1> SUFFICES ASSUME NEW q \in Seq(Message), NEW t \in Seq(Message)
             PROVE  /\ q \o t \in Seq(Message)
                    /\ Len(q \o t) = Len(q) + Len(t)
                    /\ SubSeq(q \o t, 1, Len(q)) = q
                    /\ SubSeq(q \o t, Len(q) + 1, Len(q \o t)) = t
                    /\ q # <<>> => /\ SubSeq(q \o t, 1, 1) = <<Head(q)>>
                                   /\ SubSeq(q \o t, 2, Len(q \o t)) = Tail(q) \o t
  OBVIOUS
<1>1. q \o t \in Seq(Message) /\ Len(q \o t) = Len(q) + Len(t)
  OBVIOUS
<1>2. SubSeq(q \o t, 1, Len(q)) = q
  OBVIOUS
<1>3. SubSeq(q \o t, Len(q) + 1, Len(q \o t)) = t
  OBVIOUS
<1>4. ASSUME q # <<>>
      PROVE  SubSeq(q \o t, 1, 1) = <<Head(q)>>
  <2> DEFINE z == q \o t
  <2>1. z[1] = Head(q) /\ Len(z) >= 1 /\ z \in Seq(Message)
    BY <1>4
  <2> HIDE DEF z
  <2>2. /\ SubSeq(z, 1, 1) \in Seq(Message) /\ Len(SubSeq(z, 1, 1)) = 1
        /\ SubSeq(z, 1, 1)[1] = z[1] /\ z[1] \in Message
    BY <2>1
  <2>3. \A m \in Message : <<m>> \in Seq(Message) /\ Len(<<m>>) = 1 /\ <<m>>[1] = m
    OBVIOUS
  <2>4. \A a, b \in Seq(Message) : Len(a) = 1 /\ Len(b) = 1 /\ a[1] = b[1] => a = b
    OBVIOUS
  <2>5. SubSeq(z, 1, 1) = <<z[1]>>
    BY <2>2, <2>3, <2>4
  <2> QED BY <2>1, <2>5 DEF z
<1>5. ASSUME q # <<>>
      PROVE  SubSeq(q \o t, 2, Len(q \o t)) = Tail(q) \o t
  <2> DEFINE u == SubSeq(q \o t, 2, Len(q \o t))
             v == Tail(q) \o t
  <2>1. /\ u \in Seq(Message) /\ Len(u) = Len(q) + Len(t) - 1
        /\ \A i \in 1 .. Len(q) + Len(t) - 1 : u[i] = (q \o t)[i + 1]
    BY <1>5
  <2>2. /\ Tail(q) \in Seq(Message) /\ Len(Tail(q)) = Len(q) - 1
        /\ \A i \in 1 .. Len(q) - 1 : Tail(q)[i] = q[i + 1]
        /\ Len(q) \in Nat /\ Len(t) \in Nat /\ Len(q) > 0
    BY <1>5
  <2>3. v \in Seq(Message) /\ Len(v) = Len(q) + Len(t) - 1
    BY <2>2
  <2>4. ASSUME NEW i \in 1 .. Len(q) + Len(t) - 1
        PROVE  u[i] = v[i]
    <3>1. CASE i <= Len(q) - 1
      <4>1. v[i] = Tail(q)[i]
        BY <2>2, <3>1
      <4>2. (q \o t)[i + 1] = q[i + 1]
        BY <2>2, <3>1
      <4> QED BY <2>1, <2>2, <3>1, <4>1, <4>2
    <3>2. CASE i > Len(q) - 1
      <4>1. v[i] = t[i - (Len(q) - 1)]
        BY <2>2, <3>2
      <4>2. (q \o t)[i + 1] = t[(i + 1) - Len(q)]
        BY <2>2, <3>2
      <4>3. (i + 1) - Len(q) = i - (Len(q) - 1)
        BY <2>2
      <4> QED BY <2>1, <4>1, <4>2, <4>3
    <3> QED BY <2>2, <3>1, <3>2
  <2> HIDE DEF u, v
  <2>5. u = v
    BY <2>1, <2>2, <2>3, <2>4
  <2> QED BY <2>5 DEF u, v
<1> QED BY <1>1, <1>2, <1>3, <1>4, <1>5

(* The first of two sequences is a prefix of both.                         *)
LEMMA FirstIsPrefix ==
  ASSUME NEW q \in Seq(Message), NEW t \in Seq(Message)
  PROVE  /\ Channel!IsPrefix(q, q \o t)
         /\ Channel!IsPrefix(q, q)
         /\ EventsIn(q) \subseteq EventsIn(q \o t)
         /\ Ascends(q \o t) => Ascends(q)
<1>1. /\ DOMAIN q \subseteq DOMAIN (q \o t) /\ \A i \in DOMAIN q : (q \o t)[i] = q[i]
      /\ Len(q) <= Len(q \o t)
  OBVIOUS
<1>2. SubSeq(q, 1, Len(q)) = q
  OBVIOUS
<1>3. SubSeq(q \o t, 1, Len(q)) = q
  BY PartsOfConcat
<1>4. Channel!IsPrefix(q, q \o t) /\ Channel!IsPrefix(q, q)
  BY <1>1, <1>2, <1>3 DEF Channel!IsPrefix
<1>5. EventsIn(q) \subseteq EventsIn(q \o t)
  BY <1>1 DEF EventsIn
<1>6. Ascends(q \o t) => Ascends(q)
  BY <1>1 DEF Ascends
<1> QED BY <1>4, <1>5, <1>6

(* A message that is sent.                                                 *)
LEMMA EventsOfAppend ==
  ASSUME NEW ch \in Seq(Message), NEW m \in Message, Ascends(ch)
  PROVE  /\ EventsIn(Append(ch, m)) = IF m.kind = "event" THEN EventsIn(ch) \union {m.n}
                                      ELSE EventsIn(ch)
         /\ (m.kind = "event" => \A n \in EventsIn(ch) : n < m.n) => Ascends(Append(ch, m))
<1> DEFINE z == Append(ch, m)
<1>1. /\ DOMAIN z = DOMAIN ch \union {Len(ch) + 1} /\ z[Len(ch) + 1] = m
      /\ \A i \in DOMAIN ch : z[i] = ch[i] /\ i < Len(ch) + 1 /\ i \in Nat
      /\ Len(ch) \in Nat
  OBVIOUS
<1> HIDE DEF z
<1>2. EventsIn(z) = IF m.kind = "event" THEN EventsIn(ch) \union {m.n} ELSE EventsIn(ch)
  BY <1>1 DEF EventsIn
<1>3. ASSUME m.kind = "event" => \A n \in EventsIn(ch) : n < m.n
      PROVE  Ascends(z)
  <2>1. \A i \in DOMAIN ch : ch[i].kind = "event" => ch[i].n \in EventsIn(ch)
    BY DEF EventsIn
  <2> QED BY <1>1, <1>3, <2>1 DEF Ascends
<1> QED BY <1>2, <1>3 DEF z

(* The events of one sequence are those of another.                        *)
LEMMA SameEvents ==
  ASSUME NEW z \in Seq(Message), NEW ch \in Seq(Message), NEW f,
         \A i \in DOMAIN z : f[i] \in DOMAIN ch /\ z[i] = ch[f[i]],
         \A i, j \in DOMAIN z : i < j => f[i] < f[j],
         \A j \in DOMAIN ch : ch[j].kind = "event" => \E i \in DOMAIN z : f[i] = j
  PROVE  EventsIn(z) = EventsIn(ch) /\ (Ascends(ch) => Ascends(z))
<1>1. EventsIn(z) \subseteq EventsIn(ch)
  BY DEF EventsIn
<1>2. EventsIn(ch) \subseteq EventsIn(z)
  <2> SUFFICES ASSUME NEW n, n \in EventsIn(ch)
               PROVE  n \in EventsIn(z)
    OBVIOUS
  <2>1. PICK j \in DOMAIN ch : ch[j].kind = "event" /\ n = ch[j].n
    BY DEF EventsIn
  <2>2. PICK i \in DOMAIN z : f[i] = j
    BY <2>1
  <2> QED BY <2>1, <2>2 DEF EventsIn
<1>3. Ascends(ch) => Ascends(z)
  BY DEF Ascends
<1> QED BY <1>1, <1>2, <1>3

(* A sequence is split into two.                                           *)
LEMMA EventsSplit ==
  ASSUME NEW ch \in Seq(Message), NEW msgs \in Seq(Message), NEW rest \in Seq(Message),
         NEW k \in 0 .. Len(ch), Ascends(ch),
         DOMAIN msgs = 1 .. k, DOMAIN rest = 1 .. Len(ch) - k,
         \A i \in 1 .. k : msgs[i] = ch[i],
         \A i \in 1 .. Len(ch) - k : rest[i] = ch[k + i]
  PROVE  /\ EventsIn(ch) = EventsIn(msgs) \union EventsIn(rest)
         /\ \A a \in EventsIn(msgs), b \in EventsIn(rest) : a < b
         /\ Ascends(rest)
<1>1. /\ Len(ch) \in Nat /\ DOMAIN ch = 1 .. Len(ch)
      /\ \A i \in 1 .. k : i \in 1 .. Len(ch)
      /\ \A i \in 1 .. Len(ch) - k : k + i \in 1 .. Len(ch)
  OBVIOUS
<1>2. EventsIn(ch) = EventsIn(msgs) \union EventsIn(rest)
  <2>1. ASSUME NEW n, n \in EventsIn(msgs) \union EventsIn(rest)
        PROVE  n \in EventsIn(ch)
    <3>1. CASE n \in EventsIn(msgs)
      <4>1. PICK i \in 1 .. k : msgs[i].kind = "event" /\ n = msgs[i].n
        BY <3>1 DEF EventsIn
      <4>2. i \in DOMAIN ch /\ msgs[i] = ch[i]
        BY <1>1
      <4> QED BY <4>1, <4>2 DEF EventsIn
    <3>2. CASE n \in EventsIn(rest)
      <4>1. PICK i \in 1 .. Len(ch) - k : rest[i].kind = "event" /\ n = rest[i].n
        BY <3>2 DEF EventsIn
      <4>2. k + i \in DOMAIN ch /\ rest[i] = ch[k + i]
        BY <1>1
      <4> QED BY <4>1, <4>2 DEF EventsIn
    <3> QED BY <2>1, <3>1, <3>2
  <2>2. ASSUME NEW n, n \in EventsIn(ch)
        PROVE  n \in EventsIn(msgs) \union EventsIn(rest)
    <3>0. PICK j \in 1 .. Len(ch) : ch[j].kind = "event" /\ n = ch[j].n
      BY <1>1, <2>2 DEF EventsIn
    <3>1. CASE j <= k
      <4>1. j \in DOMAIN msgs /\ msgs[j] = ch[j]
        BY <1>1, <3>1
      <4> QED BY <3>0, <4>1 DEF EventsIn
    <3>2. CASE j > k
      <4>1. j - k \in DOMAIN rest /\ k + (j - k) = j
        BY <1>1, <3>2
      <4>2. rest[j - k] = ch[j]
        BY <1>1, <4>1
      <4> QED BY <3>0, <4>1, <4>2 DEF EventsIn
    <3> QED BY <1>1, <3>1, <3>2
  <2> QED BY <2>1, <2>2
<1>3. ASSUME NEW a \in EventsIn(msgs), NEW b \in EventsIn(rest)
      PROVE  a < b
  <2>1. PICK i \in 1 .. k : msgs[i].kind = "event" /\ a = msgs[i].n
    BY DEF EventsIn
  <2>2. PICK j \in 1 .. Len(ch) - k : rest[j].kind = "event" /\ b = rest[j].n
    BY DEF EventsIn
  <2>3. i < k + j
    BY <1>1
  <2>4. msgs[i] = ch[i] /\ rest[j] = ch[k + j] /\ i \in DOMAIN ch /\ k + j \in DOMAIN ch
    BY <1>1
  <2> QED BY <2>1, <2>2, <2>3, <2>4 DEF Ascends
<1>4. Ascends(rest)
  <2> SUFFICES ASSUME NEW i \in 1 .. Len(ch) - k, NEW j \in 1 .. Len(ch) - k, i < j,
                      rest[i].kind = "event", rest[j].kind = "event"
               PROVE  rest[i].n < rest[j].n
    BY <1>1 DEF Ascends
  <2>1. k + i < k + j
    BY <1>1
  <2>2. rest[i] = ch[k + i] /\ rest[j] = ch[k + j] /\ k + i \in DOMAIN ch /\ k + j \in DOMAIN ch
    BY <1>1
  <2> QED BY <2>1, <2>2 DEF Ascends
<1> QED BY <1>2, <1>3, <1>4

(* An answer between other messages.                                       *)
AnswerBetween(ch, q, a, t) ==
  /\ q \in Seq(Message) /\ t \in Seq(Message) /\ a \in Message /\ a.kind = "answer"
  /\ ch = q \o (<<a>> \o t)

(* An answer that is taken out of its turn leaves the events as they are.  *)
LEMMA AnswerTakenOut ==
  ASSUME NEW ch, NEW q, NEW a, NEW t, AnswerBetween(ch, q, a, t)
  PROVE  /\ Len(q) + 1 \in DOMAIN ch /\ ch[Len(q) + 1] = a
         /\ q \o t = SubSeq(ch, 1, (Len(q) + 1) - 1) \o SubSeq(ch, (Len(q) + 1) + 1, Len(ch))
         /\ EventsIn(q \o t) = EventsIn(ch)
         /\ Ascends(ch) => Ascends(q \o t)
<1> USE DEF AnswerBetween
<1> DEFINE z == q \o t
           f == [i \in DOMAIN z |-> IF i <= Len(q) THEN i ELSE i + 1]
<1>1. /\ Len(q) \in Nat /\ Len(t) \in Nat /\ Len(ch) = Len(q) + Len(t) + 1
      /\ DOMAIN ch = 1 .. Len(ch) /\ DOMAIN z = 1 .. Len(q) + Len(t) /\ ch \in Seq(Message)
  OBVIOUS
<1>2. /\ \A i \in 1 .. Len(q) : ch[i] = q[i] /\ z[i] = q[i]
      /\ ch[Len(q) + 1] = a
      /\ \A i \in 1 .. Len(t) : ch[Len(q) + 1 + i] = t[i] /\ z[Len(q) + i] = t[i]
  OBVIOUS
<1>3. SubSeq(ch, 1, Len(q)) = q /\ SubSeq(ch, Len(q) + 2, Len(ch)) = t
  OBVIOUS
<1>4. (Len(q) + 1) - 1 = Len(q) /\ (Len(q) + 1) + 1 = Len(q) + 2
  BY <1>1
<1>5. \A i \in DOMAIN z : f[i] \in DOMAIN ch /\ z[i] = ch[f[i]]
  <2> SUFFICES ASSUME NEW i \in 1 .. Len(q) + Len(t)
               PROVE  f[i] \in DOMAIN ch /\ z[i] = ch[f[i]]
    BY <1>1
  <2>1. CASE i <= Len(q)
    BY <1>1, <1>2, <2>1
  <2>2. CASE i > Len(q)
    <3>1. i - Len(q) \in 1 .. Len(t) /\ Len(q) + (i - Len(q)) = i
          /\ Len(q) + 1 + (i - Len(q)) = i + 1
      BY <1>1, <2>2
    <3>2. f[i] = i + 1
      BY <1>1, <2>2
    <3>3. z[i] = t[i - Len(q)] /\ ch[i + 1] = t[i - Len(q)]
      BY <1>2, <3>1
    <3> QED BY <1>1, <3>2, <3>3
  <2> QED BY <1>1, <2>1, <2>2
<1>6. \A j \in DOMAIN ch : j = Len(q) + 1 \/ \E i \in DOMAIN z : f[i] = j
  <2> SUFFICES ASSUME NEW j \in 1 .. Len(ch), j # Len(q) + 1
               PROVE  \E i \in DOMAIN z : f[i] = j
    BY <1>1
  <2>1. CASE j <= Len(q)
    <3>1. j \in DOMAIN z /\ f[j] = j
      BY <1>1, <2>1
    <3> QED BY <3>1
  <2>2. CASE j > Len(q)
    <3>1. j - 1 \in DOMAIN z /\ f[j - 1] = j
      BY <1>1, <2>2
    <3> QED BY <3>1
  <2> QED BY <1>1, <2>1, <2>2
<1>7. \A i, j \in DOMAIN z : i < j => f[i] < f[j]
  BY <1>1
<1>8. \A j \in DOMAIN ch : ch[j].kind = "event" => \E i \in DOMAIN z : f[i] = j
  BY <1>2, <1>6
<1>9. EventsIn(z) = EventsIn(ch) /\ (Ascends(ch) => Ascends(z))
  <2>1. z \in Seq(Message) /\ ch \in Seq(Message)
    BY <1>1
  <2> HIDE DEF f, z
  <2> QED BY <1>5, <1>7, <1>8, <2>1, SameEvents
<1>10. Len(q) + 1 \in DOMAIN ch
  BY <1>1
<1> QED BY <1>2, <1>3, <1>4, <1>9, <1>10 DEF z

(* A user who has heard h sees what is on its way in order, and nothing is *)
(* missing up to event e.                                                  *)
InStep(ch, h) == Ascends(ch) /\ \A n \in EventsIn(ch) : n > h
Gapless(ch, h, e) == h <= e /\ EventsIn(ch) = h + 1 .. e

(* The first k messages of a channel and the others.                       *)
SplitAt(ch, k, msgs, rest) ==
  /\ ch \in Seq(Message) /\ msgs \in Seq(Message) /\ rest \in Seq(Message)
  /\ k \in 0 .. Len(ch)
  /\ DOMAIN msgs = 1 .. k /\ DOMAIN rest = 1 .. Len(ch) - k
  /\ \A i \in 1 .. k : msgs[i] = ch[i]
  /\ \A i \in 1 .. Len(ch) - k : rest[i] = ch[k + i]

(* The last event the user has heard after some messages.                  *)
HeardAfter(msgs, h) == IF EventsIn(msgs) = {} THEN h ELSE Max(EventsIn(msgs))

(* What is seen of a channel when its first messages are taken.            *)
LEMMA EventsTaken ==
  ASSUME NEW ch, NEW k, NEW msgs, NEW rest, SplitAt(ch, k, msgs, rest),
         NEW h \in Nat, InStep(ch, h)
  PROVE  /\ HeardAfter(msgs, h) = Channel!LastEvent(msgs, h)
         /\ HeardAfter(msgs, h) \in Nat
         /\ InStep(rest, HeardAfter(msgs, h))
         /\ \A e \in Nat : Gapless(ch, h, e) => Gapless(rest, HeardAfter(msgs, h), e)
<1> DEFINE h2 == HeardAfter(msgs, h)
<1>1. Ascends(ch) /\ \A n \in EventsIn(ch) : n > h
  BY DEF InStep
<1>2. /\ EventsIn(ch) = EventsIn(msgs) \union EventsIn(rest)
      /\ \A a \in EventsIn(msgs), b \in EventsIn(rest) : a < b
      /\ Ascends(rest)
  BY <1>1, EventsSplit DEF SplitAt
<1>3. EventsIn(ch) \in SUBSET (0 .. MaxEvents)
  <2>1. \A i \in DOMAIN ch : ch[i] \in Message
    BY DEF SplitAt
  <2> QED BY <2>1, NumberOfMessage, CdpSessionAssumption DEF EventsIn
<1> DEFINE E == EventsIn(msgs)
<1>4. Channel!LastEvent(msgs, h) = Max(E \union {h})
  BY DEF Channel!LastEvent, Channel!Events, EventsIn, Channel!Max, Max
<1>5. E \in SUBSET (0 .. MaxEvents) /\ \A n \in E : n > h /\ n \in Nat
  BY <1>1, <1>2, <1>3
<1>6. MaxEvents + h \in Nat /\ E \union {h} \in SUBSET (0 .. MaxEvents + h)
  BY <1>5, CdpSessionAssumption
<1> HIDE DEF E
<1>7. /\ Max(E \union {h}) \in E \union {h}
      /\ \A y \in E \union {h} : Max(E \union {h}) >= y
  BY <1>6, MaxIsLargest
<1>8. h2 = IF E = {} THEN h ELSE Max(E)
  BY DEF E, HeardAfter
<1> HIDE DEF h2
<1>9. E # {} => h2 \in E /\ \A y \in E : h2 >= y
  BY <1>5, <1>8, CdpSessionAssumption, MaxIsLargest
<1>10. h2 = Max(E \union {h}) /\ h2 \in Nat
  <2>1. CASE E = {}
    <3>1. E \union {h} = {h}
      BY <2>1
    <3> QED BY <1>7, <1>8, <2>1, <3>1
  <2>2. CASE E # {}
    <3>1. h2 \in E
      BY <1>9, <2>2
    <3>2. h2 \in Nat /\ h2 > h
      BY <1>5, <3>1
    <3>3. Max(E \union {h}) >= h2
      BY <1>7, <3>1
    <3>4. h2 \in Nat /\ h2 > h /\ Max(E \union {h}) >= h2 /\ h2 >= h
      BY <3>2, <3>3
    <3>5. \A x \in E \union {h} : x \in Nat /\ h2 >= x
      BY <1>5, <1>9, <2>2, <3>4
    <3>6. Max(E \union {h}) \in Nat /\ h2 >= Max(E \union {h})
      BY <1>7, <3>5
    <3> QED BY <3>4, <3>6
  <2> QED BY <2>1, <2>2
<1>11. \A n \in EventsIn(rest) : n > h2
  BY <1>1, <1>2, <1>8, <1>9 DEF E
<1>12. ASSUME NEW e \in Nat, h <= e, EventsIn(ch) = h + 1 .. e
       PROVE  h2 <= e /\ EventsIn(rest) = h2 + 1 .. e
  <2>1. E \union EventsIn(rest) = h + 1 .. e
    BY <1>2, <1>12 DEF E
  <2>2. h2 <= e /\ h2 >= h
    BY <1>5, <1>8, <1>9, <1>12, <2>1
  <2>3. EventsIn(rest) \subseteq h2 + 1 .. e
    BY <1>10, <1>11, <2>1
  <2>4. \A n \in h2 + 1 .. e : n \in EventsIn(rest)
    <3> SUFFICES ASSUME NEW n \in h2 + 1 .. e
                 PROVE  n \in EventsIn(rest)
      OBVIOUS
    <3>1. n \in h + 1 .. e
      BY <1>10, <2>2
    <3>2. n \notin E
      BY <1>8, <1>9, <1>10
    <3> QED BY <2>1, <3>1, <3>2
  <2> QED BY <2>2, <2>3, <2>4
<1> QED BY <1>2, <1>4, <1>10, <1>11, <1>12 DEF InStep, Gapless, h2

-----------------------------------------------------------------------------
(* What is on its way to a user, and what the user has heard.              *)

(* Nothing is on its way to a session that has not been created, every     *)
(* user sees events in order, and an open session misses none up to the    *)
(* last one sent.                                                          *)
Ordered ==
  /\ sessions[Root] # "none"
  /\ \A s \in Sessions :
       sessions[s] = "none" => /\ queue[s] = <<>> /\ paused[s] = "not_yet"
                               /\ heard[s] = 0 /\ emitted[s] = 0
  /\ \A i \in DOMAIN wire : sessions[wire[i].to] # "none"
  /\ \A p \in asked : sessions[p[2]] # "none"
  /\ \A s \in Sessions : InStep(channels[s], heard[s])
  /\ \A s \in Sessions :
       sessions[s] = "open" => Gapless(channels[s], heard[s], emitted[s])

(* The channel of a session, now and next.                                 *)
LEMMA ChannelsAre ==
  /\ channels = [s \in Sessions |-> IF sessions[s] = "open" THEN queue[s] \o MessagesTo(s, wire)
                                    ELSE queue[s]]
  /\ channels' = [s \in Sessions |-> IF sessions'[s] = "open" THEN queue'[s] \o MessagesTo(s, wire')
                                     ELSE queue'[s]]
  BY DEF channels, InTransit

(* What is in the channels and what is heard keep their types.             *)
LEMMA ChannelTypes ==
  ASSUME TypeOK
  PROVE  \A s \in Sessions :
           /\ queue[s] \in Seq(Message)
           /\ MessagesTo(s, wire) \in Seq(Message)
           /\ channels[s] \in Seq(Message)
           /\ heard[s] \in Nat /\ emitted[s] \in Nat
<1>1. wire \in Seq(Transit)
  BY DEF TypeOK, Transit
<1>2. \A s \in Sessions : queue[s] \in Seq(Message) /\ MessagesTo(s, wire) \in Seq(Message)
                          /\ heard[s] \in Nat /\ emitted[s] \in Nat
  BY <1>1, MessagesToType, CdpSessionAssumption DEF TypeOK
<1>3. \A s \in Sessions : queue[s] \o MessagesTo(s, wire) \in Seq(Message)
  BY <1>2, PartsOfConcat
<1> QED BY <1>2, <1>3, ChannelsAre

(* A message that is sent is the last in the channel of an open session.   *)
LEMMA Sent ==
  ASSUME TypeOK, NEW s \in Sessions, NEW m \in Message,
         wire' = Append(wire, [to |-> s, msg |-> m]), UNCHANGED <<sessions, queue>>
  PROVE  channels' = IF sessions[s] = "open"
                       THEN [channels EXCEPT ![s] = Append(channels[s], m)] ELSE channels
<1> DEFINE w == [to |-> s, msg |-> m]
<1>1. wire \in Seq(Transit) /\ w \in Transit /\ w.to = s /\ w.msg = m
  BY DEF TypeOK, Transit
<1> HIDE DEF w
<1>2. \A t \in Sessions : MessagesTo(t, wire') = IF t = s THEN Append(MessagesTo(t, wire), m)
                                                ELSE MessagesTo(t, wire)
  <2> SUFFICES ASSUME NEW t \in Sessions
               PROVE  MessagesTo(t, wire') = IF t = s THEN Append(MessagesTo(t, wire), m)
                                             ELSE MessagesTo(t, wire)
    OBVIOUS
  <2>1. wire' = Append(wire, w)
    BY DEF w
  <2> QED BY <1>1, <2>1, MessagesToAppend
<1>3. queue[s] \in Seq(Message) /\ MessagesTo(s, wire) \in Seq(Message)
  BY ChannelTypes
<1>4. queue[s] \o Append(MessagesTo(s, wire), m) = Append(queue[s] \o MessagesTo(s, wire), m)
  BY <1>3, AppendToConcat
<1> QED BY <1>2, <1>4, ChannelsAre

(* The user is handed the first k messages on their way, in order.         *)
LEMMA FirstAreTaken ==
  ASSUME TypeOK, Ordered, NEW s \in Sessions, NEW k \in 0 .. Len(channels[s]),
         ProcessResponses(s, SubSeq(channels[s], 1, k)),
         channels' = [channels EXCEPT ![s] = SubSeq(channels[s], k + 1, Len(channels[s]))],
         rejected' = rejected
  PROVE  /\ Channel!Take(s, k)
         /\ InStep(channels'[s], heard'[s])
         /\ \A e \in Nat : Gapless(channels[s], heard[s], e) => Gapless(channels'[s], heard'[s], e)
         /\ \A t \in Sessions : t # s => channels'[t] = channels[t] /\ heard'[t] = heard[t]
<1> PICK ch, h : ch = channels[s] /\ h = heard[s]
  OBVIOUS
<1> DEFINE msgs == SubSeq(ch, 1, k)
           rest == SubSeq(ch, k + 1, Len(ch))
           answers == {m.n : m \in {msg \in Range(msgs) : msg.kind = "answer"}}
           events == {m.n : m \in {msg \in Range(msgs) : msg.kind = "event"}}
           h2 == HeardAfter(msgs, h)
<1>1. /\ ch \in Seq(Message) /\ h \in Nat /\ k \in 0 .. Len(ch)
      /\ InStep(ch, h)
      /\ heard \in [Sessions -> 0 .. MaxEvents] /\ DOMAIN channels = Sessions
  BY ChannelTypes, ChannelsAre DEF Ordered, TypeOK
<1>2. SplitAt(ch, k, msgs, rest)
  BY <1>1 DEF SplitAt
<1>3. events = EventsIn(msgs) /\ answers = Channel!Answers(msgs)
  BY DEF EventsIn, Range, Channel!Answers
<1>4. /\ heard' = [heard EXCEPT ![s] = IF events = {} THEN @ ELSE Max(events)]
      /\ callbacks' = [callbacks EXCEPT ![s] = @ \ answers]
      /\ answered' = answered \union (answers \intersect callbacks[s])
  BY DEF ProcessResponses
<1>5. heard' = [heard EXCEPT ![s] = h2]
  BY <1>3, <1>4 DEF HeardAfter
<1>6. channels' = [channels EXCEPT ![s] = rest]
  OBVIOUS
<1> HIDE DEF msgs, rest, answers, events, h2
<1>7. /\ h2 = Channel!LastEvent(msgs, h)
      /\ h2 \in Nat
      /\ InStep(rest, h2)
      /\ \A e \in Nat : Gapless(ch, h, e) => Gapless(rest, h2, e)
  BY <1>1, <1>2, EventsTaken DEF h2
<1>8. channels'[s] = rest /\ heard'[s] = h2
  BY <1>1, <1>5, <1>6
<1>9. Channel!Take(s, k)
  BY <1>3, <1>4, <1>5, <1>6, <1>7 DEF Channel!Take, msgs, rest
<1>10. \A t \in Sessions : t # s => channels'[t] = channels[t] /\ heard'[t] = heard[t]
  BY <1>1, <1>5, <1>6
<1> QED BY <1>7, <1>8, <1>9, <1>10

(* A step of a channel, or none.                                           *)
ChannelStep == [Channel!Next]_(Channel!vars)

(* What changes for one session leaves the others in order.                *)
LEMMA OthersInOrder ==
  ASSUME Ordered, NEW s \in Sessions, sessions[s] # "none",
         UNCHANGED <<sessions, asked, emitted>>,
         \A t \in Sessions : t # s => /\ channels'[t] = channels[t] /\ heard'[t] = heard[t]
                                      /\ queue'[t] = queue[t] /\ paused'[t] = paused[t],
         InStep(channels'[s], heard'[s]),
         \A e \in Nat : Gapless(channels[s], heard[s], e) => Gapless(channels'[s], heard'[s], e),
         emitted[s] \in Nat,
         \A i \in DOMAIN wire' : sessions[wire'[i].to] # "none"
  PROVE  Ordered'
<1>1. \A t \in Sessions : InStep(channels'[t], heard'[t])
  BY DEF Ordered
<1>2. \A t \in Sessions : sessions'[t] = "open" => Gapless(channels'[t], heard'[t], emitted'[t])
  BY DEF Ordered
<1>3. \A t \in Sessions :
        sessions'[t] = "none" => /\ queue'[t] = <<>> /\ paused'[t] = "not_yet"
                                 /\ heard'[t] = 0 /\ emitted'[t] = 0
  BY DEF Ordered
<1>4. sessions'[Root] # "none" /\ \A p \in asked' : sessions'[p[2]] # "none"
  BY DEF Ordered
<1>5. \A i \in DOMAIN wire' : sessions'[wire'[i].to] # "none"
  OBVIOUS
<1>6. /\ \A t \in Sessions : InStep(channels'[t], heard'[t]) <=> InStep(channels[t], heard[t])'
      /\ \A t \in Sessions : Gapless(channels'[t], heard'[t], emitted'[t])
                               <=> Gapless(channels[t], heard[t], emitted[t])'
  BY DEF InStep, Gapless, Ascends, EventsIn
<1> QED BY <1>1, <1>2, <1>3, <1>4, <1>5, <1>6 DEF Ordered

(* A channel of which messages are taken.                                  *)
LEMMA TakenFromOne ==
  ASSUME TypeOK, Ordered, NEW s \in Sessions, NEW k \in 0 .. Len(channels[s]),
         sessions[s] # "none",
         ProcessResponses(s, SubSeq(channels[s], 1, k)),
         channels' = [channels EXCEPT ![s] = SubSeq(channels[s], k + 1, Len(channels[s]))],
         UNCHANGED <<sessions, rejected, asked, emitted>>,
         \A t \in Sessions : t # s => queue'[t] = queue[t] /\ paused'[t] = paused[t],
         \A i \in DOMAIN wire' : sessions[wire'[i].to] # "none"
  PROVE  Ordered' /\ Channel!Take(s, k)
<1>1. /\ Channel!Take(s, k)
      /\ InStep(channels'[s], heard'[s])
      /\ \A e \in Nat : Gapless(channels[s], heard[s], e) => Gapless(channels'[s], heard'[s], e)
      /\ \A t \in Sessions : t # s => channels'[t] = channels[t] /\ heard'[t] = heard[t]
  BY FirstAreTaken
<1>2. emitted[s] \in Nat
  BY ChannelTypes
<1> QED BY <1>1, <1>2, OthersInOrder

(* What is on its way behind the queue of a session.                       *)
Behind(s) == IF sessions[s] = "open" THEN MessagesTo(s, wire) ELSE <<>>

(* A channel begins with the queue of its session.                         *)
LEMMA QueueIsFirst ==
  ASSUME TypeOK, NEW s \in Sessions
  PROVE  /\ queue[s] \in Seq(Message) /\ Behind(s) \in Seq(Message)
         /\ channels[s] = queue[s] \o Behind(s)
         /\ Len(queue[s]) \in 0 .. Len(channels[s])
         /\ SubSeq(channels[s], 1, Len(queue[s])) = queue[s]
         /\ SubSeq(channels[s], Len(queue[s]) + 1, Len(channels[s])) = Behind(s)
         /\ queue[s] # <<>> =>
              /\ 1 \in 0 .. Len(channels[s]) /\ channels[s] # <<>>
              /\ SubSeq(channels[s], 1, 1) = <<Head(queue[s])>>
              /\ SubSeq(channels[s], 1 + 1, Len(channels[s])) = Tail(queue[s]) \o Behind(s)
<1>1. queue[s] \in Seq(Message) /\ MessagesTo(s, wire) \in Seq(Message)
  BY ChannelTypes
<1>0. PICK q, t, ch : q = queue[s] /\ t = Behind(s) /\ ch = channels[s]
  OBVIOUS
<1>2. q \in Seq(Message) /\ t \in Seq(Message)
  BY <1>0, <1>1 DEF Behind
<1>3. ch = q \o t
  <2>1. CASE sessions[s] = "open"
    BY <1>0, <2>1, ChannelsAre DEF Behind
  <2>2. CASE sessions[s] # "open"
    <3>1. q \o <<>> = q
      BY <1>2, ConcatEmptySeq
    <3>2. ch = q /\ t = <<>>
      BY <1>0, <2>2, ChannelsAre DEF Behind
    <3> QED BY <3>1, <3>2
  <2> QED BY <2>1, <2>2
<1> HIDE DEF Behind
<1>4. /\ Len(ch) = Len(q) + Len(t)
      /\ SubSeq(ch, 1, Len(q)) = q
      /\ SubSeq(ch, Len(q) + 1, Len(ch)) = t
      /\ q # <<>> => /\ SubSeq(ch, 1, 1) = <<Head(q)>>
                     /\ SubSeq(ch, 2, Len(ch)) = Tail(q) \o t
  BY <1>2, <1>3, PartsOfConcat
<1>5. Len(q) \in 0 .. Len(ch) /\ (q # <<>> => 1 \in 0 .. Len(ch) /\ Len(ch) # 0) /\ 1 + 1 = 2
  BY <1>2, <1>4
<1>6. q # <<>> => ch # <<>>
  BY <1>5
<1> QED BY <1>0, <1>2, <1>3, <1>4, <1>5, <1>6, Zenon

(* The channel of a session changes with its queue.                        *)
LEMMA QueueChanges ==
  ASSUME TypeOK, NEW s \in Sessions, NEW q \in Seq(Message),
         queue' = [queue EXCEPT ![s] = q], UNCHANGED <<sessions, wire>>
  PROVE  channels' = [channels EXCEPT ![s] = q \o Behind(s)]
<1>1. queue'[s] = q /\ \A u \in Sessions : u # s => queue'[u] = queue[u]
  BY DEF TypeOK
<1>2. \A u \in Sessions : u # s => channels'[u] = channels[u]
  BY <1>1, ChannelsAre
<1>3. channels'[s] = q \o Behind(s)
  <2>1. CASE sessions[s] = "open"
    BY <1>1, <2>1, ChannelsAre DEF Behind
  <2>2. CASE sessions[s] # "open"
    <3>1. q \o <<>> = q
      BY ConcatEmptySeq
    <3> QED BY <1>1, <2>2, <3>1, ChannelsAre DEF Behind
  <2> QED BY <2>1, <2>2
<1> QED BY <1>2, <1>3, ChannelsAre

(* Resuming hands on the queue, and what else is on its way comes later.   *)
LEMMA ResumeStep ==
  ASSUME TypeOK, Ordered, NEW s \in Sessions, Resume(s)
  PROVE  Ordered' /\ ChannelStep
<1>1. /\ paused[s] = "paused"
      /\ paused' = [paused EXCEPT ![s] = "resumed"]
      /\ queue' = [queue EXCEPT ![s] = <<>>]
      /\ ProcessResponses(s, queue[s])
      /\ UNCHANGED <<sessions, rejected, asked, emitted, wire>>
  BY DEF Resume, world
<1>2. /\ queue \in [Sessions -> Seq(Message)]
      /\ paused \in [Sessions -> {"not_yet", "paused", "resumed"}]
      /\ sessions \in [Sessions -> {"none", "open", "gone"}]
      /\ sessions[s] # "none"
  BY <1>1 DEF TypeOK, Ordered
<1> PICK k : k = Len(queue[s])
  OBVIOUS
<1>3. /\ queue[s] \in Seq(Message) /\ Behind(s) \in Seq(Message)
      /\ channels[s] = queue[s] \o Behind(s)
      /\ k \in 0 .. Len(channels[s])
      /\ SubSeq(channels[s], 1, k) = queue[s]
      /\ SubSeq(channels[s], k + 1, Len(channels[s])) = Behind(s)
  BY QueueIsFirst
<1>4. channels' = [channels EXCEPT ![s] = Behind(s)]
  <2>1. <<>> \in Seq(Message) /\ <<>> \o Behind(s) = Behind(s)
    BY <1>3, ConcatEmptySeq
  <2>2. channels' = [channels EXCEPT ![s] = <<>> \o Behind(s)]
    BY <1>1, <2>1, QueueChanges
  <2> QED BY <2>1, <2>2
<1>5. Ordered' /\ Channel!Take(s, k)
  <2>1. ProcessResponses(s, SubSeq(channels[s], 1, k))
    BY <1>1, <1>3
  <2>2. channels' = [channels EXCEPT ![s] = SubSeq(channels[s], k + 1, Len(channels[s]))]
    BY <1>3, <1>4
  <2>3. \A u \in Sessions : u # s => queue'[u] = queue[u] /\ paused'[u] = paused[u]
    BY <1>1, <1>2
  <2>4. \A i \in DOMAIN wire' : sessions[wire'[i].to] # "none"
    BY <1>1 DEF Ordered
  <2> QED BY <1>1, <1>2, <1>3, <2>1, <2>2, <2>3, <2>4, TakenFromOne
<1>6. CASE sessions[s] = "open"
  <2>1. phases[s] = "paused" /\ phases' = [phases EXCEPT ![s] = "open"]
    BY <1>1, <1>2, <1>6 DEF phases
  <2>2. Channel!Resume(s)
    BY <1>3, <1>5, <2>1 DEF Channel!Resume
  <2> QED BY <1>5, <2>2 DEF ChannelStep, Channel!Next
<1>7. CASE sessions[s] = "gone"
  <2>1. phases[s] = "gone" /\ phases' = phases
    BY <1>1, <1>2, <1>7 DEF phases
  <2>2. CASE k = 0
    <3>1. queue[s] = <<>> /\ <<>> \o Behind(s) = Behind(s)
      BY <1>3, <2>2, ConcatEmptySeq
    <3>2. channels' = channels
      <4>1. channels[s] = Behind(s)
        BY <1>3, <3>1
      <4>2. channels = [t \in Sessions |-> channels[t]]
        BY DEF channels
      <4>3. channels = [channels EXCEPT ![s] = channels[s]]
        BY <4>2
      <4> QED BY <1>4, <4>1, <4>3
    <3>3. UNCHANGED <<heard, callbacks, answered>>
      BY <1>1, <3>1 DEF ProcessResponses, Range, TypeOK
    <3> QED BY <1>1, <1>5, <2>1, <3>2, <3>3 DEF ChannelStep, Channel!vars
  <2>3. CASE k # 0
    <3>1. k \in 1 .. Len(channels[s])
      BY <1>3, <2>3
    <3>2. Channel!Late(s)
      BY <1>5, <2>1, <3>1 DEF Channel!Late
    <3> QED BY <1>5, <3>2 DEF ChannelStep, Channel!Next
  <2> QED BY <2>2, <2>3
<1> QED BY <1>2, <1>6, <1>7

(* What stays in transit is still to sessions that have been created.      *)
LEMMA StillTo ==
  ASSUME TypeOK, Ordered, wire # <<>>, wire' = Tail(wire)
  PROVE  \A i \in DOMAIN wire' : sessions[wire'[i].to] # "none"
<1>1. wire \in Seq(Transit)
  BY DEF TypeOK, Transit
<1>2. \A i \in DOMAIN wire' : i + 1 \in DOMAIN wire /\ wire'[i] = wire[i + 1]
  BY <1>1
<1> QED BY <1>2 DEF Ordered

(* A task delivers the first message, also when the session has gone since.*)
LEMMA ProcessQueueStep ==
  ASSUME TypeOK, Ordered, ProcessQueue
  PROVE  Ordered' /\ ChannelStep
<1> PICK s : s = Head(tasks)
  OBVIOUS
<1>1. /\ queue \in [Sessions -> Seq(Message)]
      /\ paused \in [Sessions -> {"not_yet", "paused", "resumed"}]
      /\ sessions \in [Sessions -> {"none", "open", "gone"}]
      /\ s \in Sessions
  <2>1. tasks \in Seq(Sessions) /\ tasks # <<>>
    BY DEF ProcessQueue, TypeOK
  <2> QED BY <2>1 DEF TypeOK
<1>2. UNCHANGED <<needsReordering, closed, sessions, paused, lastId, rejected,
                  asked, emitted, wire>>
  BY DEF ProcessQueue, world
<1>3. \/ UNCHANGED <<queue, callbacks, heard, answered>>
      \/ /\ paused[s] # "paused" /\ queue[s] # <<>>
         /\ queue' = [queue EXCEPT ![s] = Tail(@)]
         /\ ProcessResponses(s, <<Head(queue[s])>>)
  BY DEF ProcessQueue
<1>4. CASE UNCHANGED <<queue, callbacks, heard, answered>>
  <2>1. UNCHANGED <<phases, channels>>
    BY <1>2, <1>4, ChannelsAre DEF phases
  <2>2. Ordered'
    BY <1>2, <1>4, <2>1 DEF Ordered, InStep, Gapless, Ascends, EventsIn
  <2> QED BY <1>2, <1>4, <2>1, <2>2 DEF ChannelStep, Channel!vars
<1>5. CASE /\ paused[s] # "paused" /\ queue[s] # <<>>
           /\ queue' = [queue EXCEPT ![s] = Tail(@)]
           /\ ProcessResponses(s, <<Head(queue[s])>>)
  <2>1. sessions[s] # "none"
    BY <1>1, <1>5 DEF Ordered
  <2>2. /\ 1 \in 0 .. Len(channels[s]) /\ channels[s] # <<>>
        /\ SubSeq(channels[s], 1, 1) = <<Head(queue[s])>>
        /\ SubSeq(channels[s], 1 + 1, Len(channels[s])) = Tail(queue[s]) \o Behind(s)
    BY <1>1, <1>5, QueueIsFirst
  <2>3. Tail(queue[s]) \in Seq(Message)
    <3>1. queue[s] \in Seq(Message)
      BY <1>1
    <3> QED BY <1>5, <3>1, RangeOfTail
  <2>4. channels' = [channels EXCEPT ![s] = Tail(queue[s]) \o Behind(s)]
    <3>1. queue' = [queue EXCEPT ![s] = Tail(queue[s])]
      BY <1>5
    <3> QED BY <1>1, <1>2, <2>3, <3>1, QueueChanges
  <2>5. Ordered' /\ Channel!Take(s, 1)
    <3>1. ProcessResponses(s, SubSeq(channels[s], 1, 1))
      BY <1>5, <2>2
    <3>2. channels' = [channels EXCEPT ![s] = SubSeq(channels[s], 1 + 1, Len(channels[s]))]
      BY <2>2, <2>4
    <3>3. \A u \in Sessions : u # s => queue'[u] = queue[u] /\ paused'[u] = paused[u]
      BY <1>1, <1>2, <1>5
    <3>4. \A i \in DOMAIN wire' : sessions[wire'[i].to] # "none"
      BY <1>2 DEF Ordered
    <3> QED BY <1>1, <1>2, <2>1, <2>2, <3>1, <3>2, <3>3, <3>4, TakenFromOne
  <2>6. phases' = phases /\ (sessions[s] = "open" => phases[s] = "open")
        /\ (sessions[s] = "gone" => phases[s] = "gone")
    BY <1>1, <1>2, <1>5 DEF phases
  <2>7. CASE sessions[s] = "open"
    <3>1. Channel!Deliver(s)
      BY <2>2, <2>5, <2>6, <2>7 DEF Channel!Deliver
    <3> QED BY <1>1, <2>5, <3>1 DEF ChannelStep, Channel!Next
  <2>8. CASE sessions[s] = "gone"
    <3>1. 1 \in 1 .. Len(channels[s])
      BY <2>2
    <3>2. Channel!Late(s)
      BY <2>5, <2>6, <2>8, <3>1 DEF Channel!Late
    <3> QED BY <1>1, <2>5, <3>2 DEF ChannelStep, Channel!Next
  <2> QED BY <1>1, <2>1, <2>7, <2>8
<1> QED BY <1>3, <1>4, <1>5

(* A message that arrives goes from the wire to the queue, is handed on    *)
(* when nothing is before it, or is an answer that a paused session takes  *)
(* out of its turn.                                                        *)
LEMMA OnMessageStep ==
  ASSUME TypeOK, Ordered, OnMessage
  PROVE  Ordered' /\ ChannelStep
<1>0. PICK s, msg, q, t : s = Head(wire).to /\ msg = Head(wire).msg
                          /\ q = queue[s] /\ t = MessagesTo(s, wire')
  OBVIOUS
<1>1. /\ wire # <<>> /\ wire' = Tail(wire)
      /\ UNCHANGED <<needsReordering, closed, sessions, paused, lastId, rejected, asked, emitted>>
  BY DEF OnMessage
<1>2. /\ s \in Sessions /\ msg \in Message
      /\ wire \in Seq(Transit) /\ wire' \in Seq(Transit)
  <2>1. wire \in Seq(Transit)
    BY DEF TypeOK, Transit
  <2>2. Head(wire) \in Transit /\ wire' \in Seq(Transit)
    BY <1>1, <2>1, RangeOfTail
  <2> QED BY <1>0, <2>1, <2>2 DEF Transit
<1>3. /\ queue \in [Sessions -> Seq(Message)]
      /\ heard \in [Sessions -> 0 .. MaxEvents]
      /\ callbacks \in [Sessions -> SUBSET Requests]
      /\ sessions \in [Sessions -> {"none", "open", "gone"}]
      /\ q \in Seq(Message) /\ t \in Seq(Message)
  <2>1. t \in Seq(Message)
    BY <1>0, <1>2, MessagesToType
  <2> QED BY <1>0, <1>2, <2>1 DEF TypeOK
<1>4. \A u \in Sessions : MessagesTo(u, wire) = IF u = s THEN <<msg>> \o MessagesTo(u, wire')
                                                ELSE MessagesTo(u, wire')
  BY <1>0, <1>1, <1>2, MessagesToTail
<1>5. \A i \in DOMAIN wire' : sessions[wire'[i].to] # "none"
  BY <1>1, StillTo
<1>6. phases' = phases
  BY <1>1 DEF phases
<1>7. sessions[s] # "none"
  <2>1. 1 \in DOMAIN wire /\ wire[1] = Head(wire)
    BY <1>1, <1>2
  <2> QED BY <1>0, <2>1 DEF Ordered
<1>8. \/ /\ sessions[s] # "open"
         /\ UNCHANGED <<queue, callbacks, tasks, heard, answered>>
      \/ /\ sessions[s] = "open"
         /\ Immediately(s, msg)
         /\ ProcessResponses(s, <<msg>>)
         /\ UNCHANGED <<queue, tasks>>
      \/ /\ sessions[s] = "open"
         /\ queue' = [queue EXCEPT ![s] = Append(@, msg)]
         /\ UNCHANGED <<callbacks, heard, answered>>
  BY <1>0 DEF OnMessage
<1>9. CASE UNCHANGED <<heard, callbacks, answered, queue>> /\ sessions[s] # "open"
  <2>1. channels' = channels
    BY <1>1, <1>4, <1>9, ChannelsAre
  <2>2. Ordered'
    BY <1>1, <1>5, <1>9, <2>1 DEF Ordered, InStep, Gapless, Ascends, EventsIn
  <2> QED BY <1>1, <1>6, <1>9, <2>1, <2>2 DEF ChannelStep, Channel!vars
<1>10. CASE /\ sessions[s] = "open"
            /\ queue' = [queue EXCEPT ![s] = Append(@, msg)]
            /\ UNCHANGED <<callbacks, heard, answered>>
  <2>1. Append(q, msg) \o t = q \o (<<msg>> \o t)
    <3>1. <<msg>> \in Seq(Message) /\ Append(q, msg) = q \o <<msg>>
      BY <1>2, <1>3
    <3> QED BY <1>3, <3>1, ConcatAssociative
  <2>2. queue'[s] = Append(q, msg) /\ \A u \in Sessions : u # s => queue'[u] = queue[u]
    BY <1>0, <1>2, <1>3, <1>10
  <2>3. channels'[s] = channels[s]
    BY <1>0, <1>1, <1>2, <1>4, <1>10, <2>1, <2>2, ChannelsAre
  <2>4. channels' = channels
    BY <1>1, <1>4, <2>2, <2>3, ChannelsAre
  <2>5. Ordered'
    <3>1. \A u \in Sessions : sessions'[u] = "none" => queue'[u] = <<>>
      BY <1>1, <1>10, <2>2 DEF Ordered
    <3> QED BY <1>1, <1>5, <1>10, <2>4, <3>1 DEF Ordered, InStep, Gapless, Ascends, EventsIn
  <2> QED BY <1>1, <1>6, <1>10, <2>4, <2>5 DEF ChannelStep, Channel!vars
<1>11. CASE /\ sessions[s] = "open"
            /\ Immediately(s, msg)
            /\ ProcessResponses(s, <<msg>>)
            /\ UNCHANGED <<queue, tasks>>
  <2>1. /\ channels[s] = q \o (<<msg>> \o t)
        /\ channels'[s] = q \o t
        /\ \A u \in Sessions : u # s => channels'[u] = channels[u]
    BY <1>0, <1>1, <1>2, <1>4, <1>11, ChannelsAre
  <2>2. channels' = [channels EXCEPT ![s] = q \o t]
    BY <2>1, ChannelsAre
  <2>3. CASE paused[s] # "paused"
    <3>1. q = <<>>
      BY <1>0, <1>11, <2>3 DEF Immediately
    <3>2. PICK ch : ch = <<msg>> \o t
      OBVIOUS
    <3>3. /\ channels[s] = ch /\ q \o t = t
      <4>1. <<msg>> \o t \in Seq(Message)
        BY <1>2, <1>3
      <4> QED BY <1>3, <2>1, <3>1, <3>2, <4>1, ConcatEmptySeq
    <3>4. /\ 1 \in 0 .. Len(ch) /\ ch # <<>>
          /\ SubSeq(ch, 1, 1) = <<msg>> /\ SubSeq(ch, 1 + 1, Len(ch)) = t
      <4>1. PICK m : m = <<msg>>
        OBVIOUS
      <4>2. m \in Seq(Message) /\ Len(m) = 1
        BY <1>2, <4>1
      <4>3. /\ Len(m \o t) = Len(m) + Len(t)
            /\ SubSeq(m \o t, 1, Len(m)) = m
            /\ SubSeq(m \o t, Len(m) + 1, Len(m \o t)) = t
        BY <1>3, <4>2, PartsOfConcat
      <4>4. 1 \in 0 .. Len(m \o t) /\ Len(m \o t) # 0
        BY <1>3, <4>2, <4>3
      <4>5. ch = m \o t
        BY <3>2, <4>1
      <4>6. ch # <<>>
        BY <4>4, <4>5
      <4> QED BY <4>1, <4>2, <4>3, <4>4, <4>5, <4>6
    <3>5. Ordered' /\ Channel!Take(s, 1)
      <4>1. ProcessResponses(s, SubSeq(channels[s], 1, 1))
        BY <1>11, <3>3, <3>4
      <4>2. channels' = [channels EXCEPT ![s] = SubSeq(channels[s], 1 + 1, Len(channels[s]))]
        BY <2>2, <3>3, <3>4
      <4>3. \A u \in Sessions : u # s => queue'[u] = queue[u] /\ paused'[u] = paused[u]
        BY <1>1, <1>11
      <4>4. 1 \in 0 .. Len(channels[s])
        BY <3>3, <3>4
      <4> QED BY <1>1, <1>2, <1>5, <1>7, <4>1, <4>2, <4>3, <4>4, TakenFromOne
    <3>6. phases[s] = "open"
      BY <1>2, <1>11, <2>3 DEF phases
    <3>7. Channel!Deliver(s)
      BY <1>6, <3>3, <3>4, <3>5, <3>6 DEF Channel!Deliver
    <3> QED BY <1>2, <3>5, <3>7 DEF ChannelStep, Channel!Next
  <2>4. CASE paused[s] = "paused"
    <3>1. msg.kind = "answer"
      BY <1>11, <2>4 DEF Immediately
    <3>2. /\ heard' = heard
          /\ callbacks' = [callbacks EXCEPT ![s] = @ \ {msg.n}]
          /\ answered' = answered \union ({msg.n} \intersect callbacks[s])
      <4>1. Range(<<msg>>) = {msg}
        BY DEF Range
      <4>2. /\ {m.n : m \in {e \in Range(<<msg>>) : e.kind = "answer"}} = {msg.n}
            /\ {m.n : m \in {e \in Range(<<msg>>) : e.kind = "event"}} = {}
        BY <3>1, <4>1
      <4> QED BY <1>3, <1>11, <4>2 DEF ProcessResponses
    <3>3. PICK ch : ch = channels[s]
      OBVIOUS
    <3>4. PICK i : i = Len(q) + 1
      OBVIOUS
    <3>5. /\ Len(q) + 1 \in DOMAIN ch /\ ch[Len(q) + 1] = msg
          /\ q \o t = SubSeq(ch, 1, (Len(q) + 1) - 1) \o SubSeq(ch, (Len(q) + 1) + 1, Len(ch))
          /\ EventsIn(q \o t) = EventsIn(ch)
          /\ Ascends(ch) => Ascends(q \o t)
      <4>1. AnswerBetween(ch, q, msg, t)
        BY <1>2, <1>3, <2>1, <3>1, <3>3 DEF AnswerBetween
      <4> QED BY <4>1, AnswerTakenOut
    <3>6. phases[s] = "paused"
      BY <1>2, <1>11, <2>4 DEF phases
    <3>7. Channel!Overtake(s)
      <4>1. /\ i \in DOMAIN channels[s] /\ channels[s][i] = msg
            /\ channels' = [channels EXCEPT ![s] = SubSeq(channels[s], 1, i - 1)
                                                   \o SubSeq(channels[s], i + 1, Len(channels[s]))]
        BY <2>2, <3>3, <3>4, <3>5
      <4> QED BY <1>1, <1>6, <3>1, <3>2, <3>6, <4>1 DEF Channel!Overtake
    <3>8. Ordered'
      <4>1. InStep(channels'[s], heard'[s])
        BY <1>2, <2>1, <3>2, <3>3, <3>5 DEF Ordered, InStep
      <4>2. \A e \in Nat : Gapless(channels[s], heard[s], e) => Gapless(channels'[s], heard'[s], e)
        BY <2>1, <3>2, <3>3, <3>5 DEF Gapless
      <4>3. emitted[s] \in Nat
        BY <1>2, ChannelTypes
      <4>4. \A u \in Sessions : u # s => /\ channels'[u] = channels[u] /\ heard'[u] = heard[u]
                                         /\ queue'[u] = queue[u] /\ paused'[u] = paused[u]
        BY <1>1, <1>11, <2>1, <3>2
      <4> QED BY <1>1, <1>2, <1>5, <1>7, <4>1, <4>2, <4>3, <4>4, OthersInOrder
    <3> QED BY <1>2, <3>7, <3>8 DEF ChannelStep, Channel!Next
  <2> QED BY <2>3, <2>4
<1> QED BY <1>8, <1>9, <1>10, <1>11

(* A new connection is a new channel.                                      *)
LEMMA InitStep == Init => Ordered /\ Channel!Init
<1> SUFFICES ASSUME Init
             PROVE  Ordered /\ Channel!Init
  OBVIOUS
<1>1. TypeOK
  BY InitInv DEF Inv
<1>2. \A s \in Sessions : MessagesTo(s, wire) = <<>>
  <2>1. wire \in Seq(Transit) /\ DOMAIN wire = {}
    BY <1>1 DEF Init, TypeOK, Transit
  <2> QED BY <2>1, MessagesToType
<1>3. \A s \in Sessions : channels[s] = <<>>
  <2>1. <<>> \o <<>> = <<>>
    OBVIOUS
  <2> QED BY <1>2, <2>1, ChannelsAre DEF Init
<1>4. EventsIn(<<>>) = {} /\ Ascends(<<>>) /\ 0 + 1 .. 0 = {}
  BY DEF EventsIn, Ascends
<1>5. Ordered
  <2>1. DOMAIN wire = {} /\ sessions[Root] = "open"
    BY DEF Init, Sessions
  <2> QED BY <1>3, <1>4, <2>1 DEF Init, Ordered, InStep, Gapless
<1>6. Channel!Init
  <2>1. phases = [s \in Sessions |-> IF s = Root THEN "open" ELSE "none"]
    BY DEF Init, phases
  <2>2. channels = [s \in Sessions |-> <<>>]
    BY <1>3, ChannelsAre
  <2> QED BY <2>1, <2>2 DEF Init, Channel!Init
<1> QED BY <1>5, <1>6

(* Sessions go: what is queued is a part of what was on its way.           *)
LEMMA GoStep ==
  ASSUME TypeOK, Ordered, NEW S \in SUBSET Sessions, \A s \in S : sessions[s] = "open",
         Closing(S),
         \A s \in Sessions : channels'[s] = IF s \in S THEN queue[s] ELSE channels[s],
         \A i \in DOMAIN wire' : sessions[wire'[i].to] # "none" /\ wire'[i].to \in Sessions
  PROVE  Ordered' /\ ChannelStep
<1>1. /\ sessions' = [s \in Sessions |-> IF s \in S THEN "gone" ELSE sessions[s]]
      /\ callbacks' = [s \in Sessions |-> IF s \in S THEN {} ELSE callbacks[s]]
      /\ rejected' = rejected \union UNION {callbacks[s] : s \in S}
      /\ UNCHANGED <<paused, queue, heard, answered, asked, emitted>>
  BY DEF Closing
<1>2. /\ sessions \in [Sessions -> {"none", "open", "gone"}]
      /\ asked \subseteq Requests \X Sessions
  BY DEF TypeOK
<1>3. \A s \in Sessions : /\ sessions'[s] = "none" <=> sessions[s] = "none"
                          /\ sessions'[s] = "open" => s \notin S /\ sessions[s] = "open"
  BY <1>1, <1>2
<1>4. \A s \in Sessions : channels[s] \in Seq(Message) /\ queue[s] \in Seq(Message)
  BY ChannelTypes
<1>5. \A s \in S : /\ Channel!IsPrefix(queue[s], channels[s])
                   /\ EventsIn(queue[s]) \subseteq EventsIn(channels[s])
                   /\ Ascends(channels[s]) => Ascends(queue[s])
  <2> SUFFICES ASSUME NEW s \in S
               PROVE  /\ Channel!IsPrefix(queue[s], channels[s])
                      /\ EventsIn(queue[s]) \subseteq EventsIn(channels[s])
                      /\ Ascends(channels[s]) => Ascends(queue[s])
    OBVIOUS
  <2>1. /\ queue[s] \in Seq(Message) /\ Behind(s) \in Seq(Message)
        /\ channels[s] = queue[s] \o Behind(s)
    BY QueueIsFirst
  <2> QED BY <2>1, FirstIsPrefix
<1>6. Ordered'
  <2>1. \A s \in Sessions : InStep(channels'[s], heard'[s])
    BY <1>1, <1>5 DEF Ordered, InStep
  <2>2. \A s \in Sessions : sessions'[s] = "open" => Gapless(channels'[s], heard'[s], emitted'[s])
    BY <1>1, <1>3 DEF Ordered
  <2>3. /\ \A s \in Sessions : InStep(channels'[s], heard'[s]) <=> InStep(channels[s], heard[s])'
        /\ \A s \in Sessions : Gapless(channels'[s], heard'[s], emitted'[s])
                                 <=> Gapless(channels[s], heard[s], emitted[s])'
    BY DEF InStep, Gapless, Ascends, EventsIn
  <2>4. /\ sessions'[Root] # "none"
        /\ \A s \in Sessions :
             sessions'[s] = "none" => /\ queue'[s] = <<>> /\ paused'[s] = "not_yet"
                                      /\ heard'[s] = 0 /\ emitted'[s] = 0
    BY <1>1, <1>3 DEF Ordered, Sessions
  <2>5. \A i \in DOMAIN wire' : sessions'[wire'[i].to] # "none"
    BY <1>3
  <2>6. \A p \in asked' : sessions'[p[2]] # "none"
    BY <1>1, <1>2, <1>3 DEF Ordered
  <2> QED BY <2>1, <2>2, <2>3, <2>4, <2>5, <2>6 DEF Ordered
<1>7. Channel!Go(S)
  <2>1. S \subseteq {s \in Sessions : phases[s] # "none"}
    BY <1>2 DEF phases
  <2>2. phases' = [s \in Sessions |-> IF s \in S THEN "gone" ELSE phases[s]]
    BY <1>1, <1>2, <1>3 DEF phases
  <2>3. Message \subseteq Channel!Message
    BY DEF Message, Event, Answer, Requests, Channel!Message
  <2>4. \A s \in Sessions : channels'[s] \in Seq(Channel!Message)
    <3>1. \A s \in Sessions : channels'[s] \in Seq(Message)
      BY <1>4
    <3> QED BY <2>3, <3>1
  <2>5. channels' \in [Sessions -> Seq(Channel!Message)]
    BY <2>4, ChannelsAre
  <2>6. \A s \in Sessions :
          IF s \in S THEN Channel!IsPrefix(channels'[s], channels[s])
                     ELSE channels'[s] = channels[s]
    BY <1>5
  <2> QED BY <1>1, <2>1, <2>2, <2>5, <2>6 DEF Channel!Go
<1> QED BY <1>6, <1>7 DEF ChannelStep, Channel!Next

(* Messages in transit are to sessions that have been created.             *)
LEMMA WireIsTo ==
  ASSUME TypeOK, Ordered
  PROVE  \A i \in DOMAIN wire : sessions[wire[i].to] # "none" /\ wire[i].to \in Sessions
<1>1. wire \in Seq(Transit)
  BY DEF TypeOK, Transit
<1>2. \A i \in DOMAIN wire : wire[i] \in Transit
  BY <1>1
<1> QED BY <1>2 DEF Ordered, Transit

(* The debuggee sends a message to a session.                              *)
LEMMA EmitStep ==
  ASSUME TypeOK, Ordered, NEW s \in Sessions, sessions[s] # "none", NEW m \in Message,
         wire' = Append(wire, [to |-> s, msg |-> m]),
         UNCHANGED <<sessions, paused, queue, callbacks, heard, answered, rejected>>,
         asked' \subseteq asked,
         IF m.kind = "event"
           THEN m.n = emitted[s] + 1 /\ emitted' = [emitted EXCEPT ![s] = @ + 1]
           ELSE emitted' = emitted
  PROVE  /\ Ordered'
         /\ UNCHANGED phases
         /\ IF sessions[s] = "open"
              THEN /\ Channel!Emit(s, m)
                   /\ m.kind = "event" => m.n = Channel!NextEvent(s)
              ELSE UNCHANGED channels
<1>1. phases' = phases
  BY DEF phases
<1>2. channels' = IF sessions[s] = "open"
                    THEN [channels EXCEPT ![s] = Append(channels[s], m)] ELSE channels
  BY Sent
<1>3. /\ channels[s] \in Seq(Message) /\ heard[s] \in Nat /\ emitted[s] \in Nat
      /\ DOMAIN channels = Sessions /\ emitted \in [Sessions -> 0 .. MaxEvents]
      /\ sessions \in [Sessions -> {"none", "open", "gone"}]
      /\ DOMAIN wire' = DOMAIN wire \union {Len(wire) + 1}
      /\ wire'[Len(wire) + 1] = [to |-> s, msg |-> m]
      /\ \A i \in DOMAIN wire : wire'[i] = wire[i]
  <2>1. wire \in Seq([to : Sessions, msg : Message])
    BY DEF TypeOK
  <2>2. PICK e : e = [to |-> s, msg |-> m]
    OBVIOUS
  <2>3. e \in [to : Sessions, msg : Message]
    BY <2>2
  <2>4. /\ DOMAIN wire' = DOMAIN wire \union {Len(wire) + 1}
        /\ wire'[Len(wire) + 1] = e
        /\ \A i \in DOMAIN wire : wire'[i] = wire[i]
    BY <2>1, <2>2, <2>3
  <2> QED BY <2>2, <2>4, ChannelTypes, ChannelsAre DEF TypeOK
<1>4. \A i \in DOMAIN wire' : sessions[wire'[i].to] # "none"
  BY <1>3 DEF Ordered
<1>5. \A t \in Sessions :
        emitted'[t] = IF t = s /\ m.kind = "event" THEN emitted[s] + 1 ELSE emitted[t]
  BY <1>3
<1>6. CASE sessions[s] = "open"
  <2>1. /\ InStep(channels[s], heard[s]) /\ Gapless(channels[s], heard[s], emitted[s])
    BY <1>6 DEF Ordered
  <2>2. PICK ch : ch = channels[s]
    OBVIOUS
  <2>3. Channel!Emit(s, m)
    <3>1. phases[s] \in {"open", "paused"}
      BY <1>6 DEF phases
    <3>2. channels' = [channels EXCEPT ![s] = Append(@, m)]
      BY <1>2, <1>6
    <3> QED BY <1>1, <3>1, <3>2 DEF Channel!Emit, Channel!settled
  <2>4. m.kind = "event" => m.n = Channel!NextEvent(s)
    <3>1. Channel!NextEvent(s) = heard[s] + Channel!Cardinality(EventsIn(channels[s])) + 1
      BY DEF Channel!NextEvent, Channel!Events, EventsIn
    <3>2. Channel!Cardinality(EventsIn(channels[s])) = Cardinality(heard[s] + 1 .. emitted[s])
      BY <2>1 DEF Gapless, Channel!Cardinality, Cardinality
    <3>3. Cardinality(heard[s] + 1 .. emitted[s]) = emitted[s] - heard[s]
      <4>1. PICK h, e : h = heard[s] /\ e = emitted[s]
        OBVIOUS
      <4>2. h \in Nat /\ e \in Nat /\ h <= e /\ h + 1 \in Int /\ e \in Int
        BY <1>3, <2>1, <4>1 DEF Gapless
      <4>3. Cardinality(h + 1 .. e) = IF h + 1 > e THEN 0 ELSE e - (h + 1) + 1
        BY <4>2, FS_Interval
      <4>4. Cardinality(h + 1 .. e) = e - h
        BY <4>2, <4>3
      <4> QED BY <4>1, <4>4
    <3> QED BY <1>3, <3>1, <3>2, <3>3
  <2>5. /\ InStep(Append(ch, m), heard[s])
        /\ Gapless(Append(ch, m), heard[s], emitted'[s])
    <3>1. /\ EventsIn(Append(ch, m)) = IF m.kind = "event" THEN EventsIn(ch) \union {m.n}
                                       ELSE EventsIn(ch)
          /\ (m.kind = "event" => \A n \in EventsIn(ch) : n < m.n) => Ascends(Append(ch, m))
      BY <1>3, <2>1, <2>2, EventsOfAppend DEF InStep
    <3>2. /\ Ascends(ch) /\ \A n \in EventsIn(ch) : n > heard[s]
          /\ heard[s] <= emitted[s] /\ EventsIn(ch) = heard[s] + 1 .. emitted[s]
      BY <2>1, <2>2 DEF InStep, Gapless
    <3>3. m.kind = "event" => m.n = emitted[s] + 1 /\ emitted'[s] = emitted[s] + 1
      BY <1>5
    <3>4. m.kind # "event" => emitted'[s] = emitted[s]
      BY <1>5
    <3>5. CASE m.kind = "event"
      <4>1. \A n \in EventsIn(ch) : n < m.n
        BY <1>3, <3>2, <3>3, <3>5
      <4>2. (heard[s] + 1 .. emitted[s]) \union {emitted[s] + 1} = heard[s] + 1 .. emitted[s] + 1
        BY <1>3, <3>2
      <4> QED BY <1>3, <3>1, <3>2, <3>3, <3>5, <4>1, <4>2 DEF InStep, Gapless
    <3>6. CASE m.kind # "event"
      BY <3>1, <3>2, <3>4, <3>6 DEF InStep, Gapless
    <3> QED BY <3>5, <3>6
  <2>6. \A t \in Sessions : channels'[t] = IF t = s THEN Append(ch, m) ELSE channels[t]
    BY <1>2, <1>3, <1>6, <2>2
  <2>7. Ordered'
    <3>1. \A t \in Sessions : InStep(channels'[t], heard'[t])
      BY <2>5, <2>6 DEF Ordered
    <3>2. \A t \in Sessions : sessions'[t] = "open" => Gapless(channels'[t], heard'[t], emitted'[t])
      BY <1>5, <2>5, <2>6 DEF Ordered
    <3>3. \A t \in Sessions :
            sessions'[t] = "none" => /\ queue'[t] = <<>> /\ paused'[t] = "not_yet"
                                     /\ heard'[t] = 0 /\ emitted'[t] = 0
      BY <1>5, <1>6 DEF Ordered
    <3>4. /\ \A t \in Sessions : InStep(channels'[t], heard'[t]) <=> InStep(channels[t], heard[t])'
          /\ \A t \in Sessions : Gapless(channels'[t], heard'[t], emitted'[t])
                                   <=> Gapless(channels[t], heard[t], emitted[t])'
      BY DEF InStep, Gapless, Ascends, EventsIn
    <3> QED BY <1>4, <3>1, <3>2, <3>3, <3>4 DEF Ordered
  <2> QED BY <1>1, <1>6, <2>3, <2>4, <2>7
<1>7. CASE sessions[s] = "gone"
  <2>1. channels' = channels
    BY <1>2, <1>7
  <2>2. \A t \in Sessions : sessions[t] # "gone" => emitted'[t] = emitted[t]
    BY <1>5, <1>7
  <2>3. Ordered'
    BY <1>4, <2>1, <2>2 DEF Ordered, InStep, Gapless, Ascends, EventsIn
  <2> QED BY <1>1, <1>7, <2>1, <2>3
<1> QED BY <1>3, <1>6, <1>7

-----------------------------------------------------------------------------
(* Every step of a session is a step of a channel, or none.                *)
LEMMA NextStep == Inv /\ Ordered /\ [Next]_vars => Ordered' /\ ChannelStep
<1> SUFFICES ASSUME Inv, Ordered, [Next]_vars
             PROVE  Ordered' /\ ChannelStep
  OBVIOUS
<1> USE DEF Inv
<1>1. CASE OnMessage
  BY <1>1, OnMessageStep
<1>2. CASE ProcessQueue
  BY <1>2, ProcessQueueStep
<1>3. ASSUME NEW s \in Attached, CreateSession(s)
      PROVE  Ordered' /\ ChannelStep
  <2>1. /\ s \in Sessions
        /\ sessions \in [Sessions -> {"none", "open", "gone"}]
        /\ paused \in [Sessions -> {"not_yet", "paused", "resumed"}]
    BY DEF TypeOK, Sessions
  <2>2. /\ sessions[s] = "none"
        /\ sessions' = [sessions EXCEPT ![s] = "open"]
        /\ paused' = [paused EXCEPT ![s] = "paused"]
        /\ UNCHANGED <<queue, callbacks, heard, answered, rejected, asked, emitted, wire>>
    BY <1>3 DEF CreateSession, settled, world
  <2>3. /\ \A t \in Sessions : sessions'[t] = IF t = s THEN "open" ELSE sessions[t]
        /\ \A t \in Sessions : paused'[t] = IF t = s THEN "paused" ELSE paused[t]
    BY <2>1, <2>2
  <2>4. queue[s] = <<>> /\ MessagesTo(s, wire) = <<>>
    <3>1. wire \in Seq(Transit) /\ \A i \in DOMAIN wire : wire[i].to # s
      BY <2>2 DEF TypeOK, Transit, Ordered
    <3> QED BY <2>1, <2>2, <3>1, MessagesToType DEF Ordered
  <2>5. channels' = channels
    <3>1. <<>> \o <<>> = <<>>
      OBVIOUS
    <3>2. channels[s] = <<>> /\ channels'[s] = <<>>
      BY <2>1, <2>2, <2>3, <2>4, <3>1, ChannelsAre
    <3>3. \A t \in Sessions : channels'[t] = channels[t]
      BY <2>2, <2>3, <3>2, ChannelsAre
    <3> QED BY <3>3, ChannelsAre
  <2>6. phases[s] = "none" /\ phases' = [phases EXCEPT ![s] = "paused"]
    BY <2>1, <2>2, <2>3 DEF phases
  <2>7. Ordered'
    <3>1. Gapless(channels[s], heard[s], emitted[s])
      <4>1. EventsIn(<<>>) = {} /\ 0 + 1 .. 0 = {}
        BY DEF EventsIn
      <4>2. channels[s] = <<>> /\ heard[s] = 0 /\ emitted[s] = 0
        <5>1. channels[s] = queue[s]
          BY <2>1, <2>2, ChannelsAre
        <5> QED BY <2>1, <2>2, <2>4, <5>1 DEF Ordered
      <4> QED BY <4>1, <4>2 DEF Gapless
    <3>2. \A t \in Sessions : sessions'[t] = "open" => Gapless(channels[t], heard[t], emitted[t])
      BY <2>3, <3>1 DEF Ordered
    <3>3. \A t \in Sessions :
            sessions'[t] = "none" => /\ queue'[t] = <<>> /\ paused'[t] = "not_yet"
                                     /\ heard'[t] = 0 /\ emitted'[t] = 0
      BY <2>2, <2>3 DEF Ordered
    <3>4. sessions'[Root] # "none"
      BY <2>3 DEF Ordered, Sessions
    <3>5. \A i \in DOMAIN wire' : sessions'[wire'[i].to] # "none"
      BY <2>2, <2>3, WireIsTo
    <3>6. \A p \in asked' : sessions'[p[2]] # "none"
      <4>1. \A p \in asked : p[2] \in Sessions
        BY DEF TypeOK
      <4> QED BY <2>2, <2>3, <4>1 DEF Ordered
    <3> QED BY <2>2, <2>5, <3>2, <3>3, <3>4, <3>5, <3>6
            DEF Ordered, InStep, Gapless, Ascends, EventsIn
  <2>8. Channel!Open(s)
    BY <2>2, <2>5, <2>6 DEF Channel!Open, Channel!settled
  <2> QED BY <2>1, <2>7, <2>8 DEF ChannelStep, Channel!Next
<1>4. CASE Pause
  <2>1. /\ paused[Root] = "not_yet"
        /\ paused' = [paused EXCEPT ![Root] = "paused"]
        /\ UNCHANGED <<sessions, queue, callbacks, heard, answered, rejected, asked, emitted, wire>>
    BY <1>4 DEF Pause, settled, world
  <2>2. /\ Root \in Sessions
        /\ sessions \in [Sessions -> {"none", "open", "gone"}]
        /\ paused \in [Sessions -> {"not_yet", "paused", "resumed"}]
    BY DEF TypeOK, Sessions
  <2>3. channels' = channels
    BY <2>1, ChannelsAre
  <2>4. Ordered'
    <3>1. \A t \in Sessions : sessions'[t] = "none" => paused'[t] = "not_yet"
      BY <2>1, <2>2 DEF Ordered
    <3> QED BY <2>1, <2>3, <3>1 DEF Ordered, InStep, Gapless, Ascends, EventsIn
  <2>5. CASE sessions[Root] = "open"
    <3>1. phases[Root] = "open" /\ phases' = [phases EXCEPT ![Root] = "paused"]
      BY <2>1, <2>2, <2>5 DEF phases
    <3>2. Channel!Pause(Root)
      BY <2>1, <2>3, <3>1 DEF Channel!Pause, Channel!settled
    <3> QED BY <2>2, <2>4, <3>2 DEF ChannelStep, Channel!Next
  <2>6. CASE sessions[Root] = "gone"
    <3>1. phases' = phases
      BY <2>1, <2>2, <2>6 DEF phases
    <3> QED BY <2>1, <2>3, <2>4, <3>1 DEF ChannelStep, Channel!vars
  <2> QED BY <2>2, <2>5, <2>6 DEF Ordered
<1>5. ASSUME NEW s \in Sessions, Send(s)
      PROVE  Ordered' /\ ChannelStep
  <2> PICK id : id = lastId + 1
    OBVIOUS
  <2>1. /\ sessions[s] # "none"
        /\ lastId < MaxRequests
        /\ UNCHANGED <<sessions, paused, queue, heard, answered, emitted, wire>>
        /\ IF sessions[s] = "gone"
             THEN /\ rejected' = rejected \union {id}
                  /\ UNCHANGED <<callbacks, asked>>
             ELSE /\ callbacks' = [callbacks EXCEPT ![s] = @ \union {id}]
                  /\ asked' = asked \union {<<id, s>>}
                  /\ UNCHANGED rejected
    BY <1>5 DEF Send
  <2>2. /\ id \in Requests
        /\ id \notin answered \union rejected
        /\ \A other \in Sessions : id \notin callbacks[other]
    <3>1. lastId \in 0 .. MaxRequests /\ id \notin 1 .. lastId
      BY CdpSessionAssumption DEF TypeOK
    <3>2. id \in Requests
      BY <2>1, <3>1, CdpSessionAssumption DEF Requests
    <3> QED BY <3>1, <3>2 DEF Accounted
  <2>3. UNCHANGED <<phases, channels>>
    BY <2>1, ChannelsAre DEF phases
  <2>4. sessions \in [Sessions -> {"none", "open", "gone"}]
    BY DEF TypeOK
  <2>5. Channel!Request(s, id)
    <3>1. phases[s] # "none" /\ (phases[s] = "gone" <=> sessions[s] = "gone")
      BY <2>1, <2>4 DEF phases
    <3> QED BY <2>1, <2>2, <2>3, <3>1 DEF Channel!Request
  <2>6. Ordered'
    <3>1. \A p \in asked' : sessions[p[2]] # "none"
      BY <2>1 DEF Ordered
    <3> QED BY <2>1, <2>3, <3>1 DEF Ordered, InStep, Gapless, Ascends, EventsIn
  <2> QED BY <2>2, <2>5, <2>6 DEF ChannelStep, Channel!Next
<1>6. ASSUME NEW s \in Sessions, Resume(s)
      PROVE  Ordered' /\ ChannelStep
  BY <1>6, ResumeStep
<1>7. ASSUME NEW s \in Attached, DisposeSession(s)
      PROVE  Ordered' /\ ChannelStep
  <2>1. /\ s \in Sessions /\ sessions[s] = "open" /\ Closing({s}) /\ wire' = wire
        /\ {s} \in SUBSET Sessions
    BY <1>7 DEF DisposeSession, Sessions
  <2>2. /\ sessions' = [t \in Sessions |-> IF t \in {s} THEN "gone" ELSE sessions[t]]
        /\ queue' = queue
    BY <2>1 DEF Closing
  <2>3. \A t \in Sessions : channels'[t] = IF t \in {s} THEN queue[t] ELSE channels[t]
    BY <2>1, <2>2, ChannelsAre
  <2>4. \A i \in DOMAIN wire' : sessions[wire'[i].to] # "none" /\ wire'[i].to \in Sessions
    BY <2>1, WireIsTo
  <2> QED BY <2>1, <2>3, <2>4, GoStep
<1>8. CASE OnTransportClose
  <2> DEFINE S == {s \in Sessions : sessions[s] = "open"}
  <2>1. S \in SUBSET Sessions /\ Closing(S) /\ wire' = <<>> /\ \A s \in S : sessions[s] = "open"
    BY <1>8 DEF OnTransportClose
  <2>2. /\ sessions' = [t \in Sessions |-> IF t \in S THEN "gone" ELSE sessions[t]]
        /\ queue' = queue
    BY <2>1 DEF Closing
  <2>3. \A t \in Sessions : channels'[t] = IF t \in S THEN queue[t] ELSE channels[t]
    BY <2>2, ChannelsAre
  <2>4. \A i \in DOMAIN wire' : sessions[wire'[i].to] # "none" /\ wire'[i].to \in Sessions
    BY <2>1
  <2> HIDE DEF S
  <2> QED BY <2>1, <2>3, <2>4, GoStep
<1>9. ASSUME NEW id \in Requests, NEW s \in Sessions, SendAnswer(id, s)
      PROVE  Ordered' /\ ChannelStep
  <2>1. /\ <<id, s>> \in asked
        /\ asked' = asked \ {<<id, s>>}
        /\ wire' = IF closed THEN wire ELSE Append(wire, [to |-> s, msg |-> Answer(id)])
        /\ UNCHANGED <<sessions, paused, queue, callbacks, heard, answered, rejected, emitted>>
    BY <1>9 DEF SendAnswer, settled
  <2>2. CASE closed
    <3>1. UNCHANGED <<phases, channels>>
      BY <2>1, <2>2, ChannelsAre DEF phases
    <3>2. Ordered'
      BY <2>1, <2>2, <3>1 DEF Ordered, InStep, Gapless, Ascends, EventsIn
    <3> QED BY <2>1, <3>1, <3>2 DEF ChannelStep, Channel!vars
  <2>3. CASE ~closed
    <3> PICK m : m = Answer(id)
      OBVIOUS
    <3>1. m \in Message /\ m = [kind |-> "answer", n |-> id] /\ m.kind # "event"
      BY DEF Message, Answer
    <3>2. sessions[s] # "none"
      BY <2>1 DEF Ordered
    <3>3. wire' = Append(wire, [to |-> s, msg |-> m])
      BY <2>1, <2>3
    <3>4. /\ Ordered'
          /\ UNCHANGED phases
          /\ IF sessions[s] = "open"
               THEN /\ Channel!Emit(s, m)
                    /\ m.kind = "event" => m.n = Channel!NextEvent(s)
               ELSE UNCHANGED channels
      BY <2>1, <3>1, <3>2, <3>3, EmitStep
    <3> QED BY <2>1, <3>1, <3>4 DEF ChannelStep, Channel!Next, Channel!vars
  <2> QED BY <2>2, <2>3
<1>10. ASSUME NEW s \in Sessions, SendEvent(s)
       PROVE  Ordered' /\ ChannelStep
  <2>1. /\ sessions[s] # "none" /\ emitted[s] < MaxEvents
        /\ emitted' = [emitted EXCEPT ![s] = @ + 1]
        /\ wire' = Append(wire, [to |-> s, msg |-> Event(emitted'[s])])
        /\ UNCHANGED <<sessions, paused, queue, callbacks, heard, answered, rejected, asked>>
    BY <1>10 DEF SendEvent, settled
  <2>2. emitted \in [Sessions -> 0 .. MaxEvents]
    BY DEF TypeOK
  <2>3. emitted'[s] = emitted[s] + 1 /\ emitted'[s] \in 1 .. MaxEvents
    BY <2>1, <2>2, CdpSessionAssumption
  <2> PICK m : m = Event(emitted'[s])
    OBVIOUS
  <2>4. m \in Message /\ m = [kind |-> "event", n |-> emitted'[s]] /\ m.kind = "event"
        /\ m.n = emitted[s] + 1
    BY <2>3 DEF Message, Event
  <2>5. /\ Ordered'
        /\ UNCHANGED phases
        /\ IF sessions[s] = "open"
             THEN /\ Channel!Emit(s, m)
                  /\ m.kind = "event" => m.n = Channel!NextEvent(s)
             ELSE UNCHANGED channels
    BY <2>1, <2>4, EmitStep
  <2>6. m.n = emitted'[s]
    BY <2>4
  <2> QED BY <2>1, <2>4, <2>5, <2>6 DEF ChannelStep, Channel!Next, Channel!vars
<1>11. CASE UNCHANGED vars
  <2>1. UNCHANGED <<phases, channels>>
    BY <1>11, ChannelsAre DEF vars, phases
  <2>2. Ordered'
    BY <1>11, <2>1 DEF vars, Ordered, InStep, Gapless, Ascends, EventsIn
  <2> QED BY <1>11, <2>1, <2>2 DEF vars, ChannelStep, Channel!vars
<1> QED
  BY <1>1, <1>2, <1>3, <1>4, <1>5, <1>6, <1>7, <1>8, <1>9, <1>10, <1>11 DEF Next

(* A session is a channel that keeps its order, with any number of         *)
(* sessions, requests and events: whatever is queued, paused, replayed or  *)
(* lost, events are heard in the order they were sent with none skipped,   *)
(* answers overtake them only while the session is paused, and a request is*)
(* settled once (_onMessage, _processQueue and resume work in turn).       *)
THEOREM KeepsOrder == Spec => InOrder
<1>1. Init => Ordered /\ Channel!Init
  BY InitStep
<1>2. Inv /\ Ordered /\ [Next]_vars => Ordered' /\ [Channel!Next]_(Channel!vars)
  BY NextStep DEF ChannelStep
<1>3. Spec => []Inv
  BY Invariance
<1> QED BY <1>1, <1>2, <1>3, PTL DEF Spec, InOrder, Channel!Spec
=============================================================================
