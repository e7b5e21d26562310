----------------------------- MODULE CdpChannel -----------------------------
(***************************************************************************)
(* What a CDP session promises to its user (src/cdp/connection.ts):        *)
(* messages arrive in the order they were sent and none is skipped, except *)
(* that answers overtake events while the session is paused; a request is  *)
(* answered at most once, or rejected when the session goes.               *)
(***************************************************************************)
EXTENDS Naturals, Sequences, FiniteSets, SequencesExt

CONSTANTS Sessions, Requests

VARIABLES
  phase,     \* of each session
  channel,   \* messages on their way to the user of the session
  heard,     \* the number of the last event the user has seen
  pending,   \* requests that await an answer
  answered,
  rejected

vars == <<phase, channel, heard, pending, answered, rejected>>
settled == <<answered, rejected>>

Message == [kind : {"event", "answer"}, n : Nat]
Phase == {"none", "open", "paused", "gone"}

(* The settled requests and what is heard after a run of messages.         *)
Answers(msgs) == {msgs[i].n : i \in {j \in DOMAIN msgs : msgs[j].kind = "answer"}}
Events(msgs) == {msgs[i].n : i \in {j \in DOMAIN msgs : msgs[j].kind = "event"}}
LastEvent(msgs, default) == Max(Events(msgs) \union {default})

(* Events are numbered; none is missing between what was heard and what is *)
(* on its way.                                                             *)
NextEvent(s) == heard[s] + Cardinality(Events(channel[s])) + 1

(* The user sees the first k messages, in order.                           *)
Take(s, k) ==
  LET msgs == SubSeq(channel[s], 1, k) IN
  /\ channel' = [channel EXCEPT ![s] = SubSeq(@, k + 1, Len(@))]
  /\ heard' = [heard EXCEPT ![s] = LastEvent(msgs, @)]
  /\ pending' = [pending EXCEPT ![s] = @ \ Answers(msgs)]
  /\ answered' = answered \union (Answers(msgs) \intersect pending[s])
  /\ UNCHANGED rejected

Init ==
  /\ phase \in [Sessions -> {"none", "open"}]
  /\ channel = [s \in Sessions |-> <<>>]
  /\ heard = [s \in Sessions |-> 0]
  /\ pending = [s \in Sessions |-> {}]
  /\ answered = {}
  /\ rejected = {}

Open(s) ==
  /\ phase[s] = "none"
  /\ phase' = [phase EXCEPT ![s] = "paused"]
  /\ UNCHANGED <<channel, heard, pending, settled>>

Pause(s) ==
  /\ phase[s] = "open"
  /\ phase' = [phase EXCEPT ![s] = "paused"]
  /\ UNCHANGED <<channel, heard, pending, settled>>

(* A new request is sent, or rejected if the session has gone.             *)
Request(s, id) ==
  /\ phase[s] # "none"
  /\ id \notin answered \union rejected
  /\ \A other \in Sessions : id \notin pending[other]
  /\ IF phase[s] = "gone"
       THEN rejected' = rejected \union {id} /\ UNCHANGED pending
       ELSE pending' = [pending EXCEPT ![s] = @ \union {id}] /\ UNCHANGED rejected
  /\ UNCHANGED <<phase, channel, heard, answered>>

(* The debuggee sends.                                                     *)
Emit(s, msg) ==
  /\ phase[s] \in {"open", "paused"}
  /\ channel' = [channel EXCEPT ![s] = Append(@, msg)]
  /\ UNCHANGED <<phase, heard, pending, settled>>

Deliver(s) ==
  /\ phase[s] = "open"
  /\ channel[s] # <<>>
  /\ Take(s, 1)
  /\ UNCHANGED phase

(* A paused session takes an answer out of its turn.                       *)
Overtake(s) ==
  /\ phase[s] = "paused"
  /\ \E i \in DOMAIN channel[s] :
       LET id == channel[s][i].n IN
       /\ channel[s][i].kind = "answer"
       /\ channel' = [channel EXCEPT ![s] = SubSeq(@, 1, i - 1) \o SubSeq(@, i + 1, Len(@))]
       /\ pending' = [pending EXCEPT ![s] = @ \ {id}]
       /\ answered' = answered \union ({id} \intersect pending[s])
  /\ UNCHANGED <<phase, heard, rejected>>

Resume(s) ==
  /\ phase[s] = "paused"
  /\ phase' = [phase EXCEPT ![s] = "open"]
  /\ \E k \in 0 .. Len(channel[s]) : Take(s, k)

(* Sessions go: requests are rejected, what was on its way may be lost.    *)
Go(S) ==
  /\ S \subseteq {s \in Sessions : phase[s] # "none"}
  /\ phase' = [s \in Sessions |-> IF s \in S THEN "gone" ELSE phase[s]]
  /\ pending' = [s \in Sessions |-> IF s \in S THEN {} ELSE pending[s]]
  /\ rejected' = rejected \union UNION {pending[s] : s \in S}
  /\ channel' \in [Sessions -> Seq(Message)]
  /\ \A s \in Sessions :
       IF s \in S THEN IsPrefix(channel'[s], channel[s]) ELSE channel'[s] = channel[s]
  /\ UNCHANGED <<heard, answered>>

(* What had arrived before is still seen, in order.                        *)
Late(s) ==
  /\ phase[s] = "gone"
  /\ \E k \in 1 .. Len(channel[s]) : Take(s, k)
  /\ UNCHANGED phase

Next ==
  \/ \E s \in Sessions :
       \/ Open(s) \/ Pause(s) \/ Resume(s)
       \/ Deliver(s) \/ Overtake(s) \/ Late(s)
       \/ \E id \in Requests : Request(s, id)
       \/ \E id \in Requests : Emit(s, [kind |-> "answer", n |-> id])
       \/ Emit(s, [kind |-> "event", n |-> NextEvent(s)])
  \/ \E S \in SUBSET Sessions : Go(S)

Spec == Init /\ [][Next]_vars
=============================================================================
