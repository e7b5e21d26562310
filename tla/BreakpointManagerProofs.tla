----------------------- MODULE BreakpointManagerProofs -----------------------
(***************************************************************************)
(* Proofs, for any number of requests, installations, sources and places,  *)
(* of the invariants of BreakpointManagerProps.                            *)
(***************************************************************************)
EXTENDS BreakpointManagerProps, FiniteSetTheorems, TLAPS

-----------------------------------------------------------------------------
(* The inductive invariant.                                                *)

BeforeMerge(c) == calls[c].pc \in {"entry", "predict", "ready"}
AfterMerge(c) == calls[c].pc \in {"unbind", "enable", "done"}

(* Breakpoints that are listed, or were, and are counted when the request  *)
(* that made them goes on.                                                 *)
Pending == {b \in Bps : calls[b[1]].pc = "unbind" /\ b \in calls[b[1]].new}

(* A request has a source, and its breakpoints are its own.                *)
RequestsAreSound ==
  \A c \in Calls :
    /\ calls[c].pc # "idle" => calls[c].src \in Sources
    /\ calls[c].new \subseteq {c} \X Places
    /\ calls[c].thread => thread

(* The lists hold what is in _byDapId; a breakpoint is in the list of the  *)
(* source its request was about, so in no other.                           *)
ListsAgree ==
  /\ byDapId = UNION {byPath[s] : s \in Sources}
  /\ \A s \in Sources : \A b \in byPath[s] : AfterMerge(b[1]) /\ calls[b[1]].src = s

(* Whoever waits for the debugger waits once.                              *)
QueueIsReady ==
  /\ \A i \in DOMAIN readyQueue : calls[readyQueue[i]].pc = "ready"
  /\ \A i, j \in DOMAIN readyQueue : readyQueue[i] = readyQueue[j] => i = j

(* Nothing is sent before there is a thread.                               *)
NothingWithoutThread ==
  ~thread => enabled = {} /\ handler = 0 /\ reapply.pc # "disabling"

CountIsDue == count = Cardinality(byDapId) - Cardinality(Pending)

(* What is listed and passes the filter is enabled, or will be by the      *)
(* request that made it or by reapply().                                   *)
EnabledOrDue ==
  thread => \A b \in byDapId \intersect passing :
              \/ b \in enabled
              \/ b \in Pending /\ calls[b[1]].thread
              \/ reapply.pc = "disabling" /\ b \in reapply.bps

(* The handler follows the breakpoints, except that a request which will   *)
(* have some has installed it already, or one that has removed some has    *)
(* not uninstalled it yet.                                                 *)
HandlerOrDue ==
  thread /\ (\A c \in Calls : calls[c].pc # "unbind") =>
    /\ byDapId # {} => handler # 0
    /\ handler # 0 => \/ byDapId # {}
                      \/ \E c \in Calls : BeforeMerge(c) /\ calls[c].want # {}

Inv ==
  /\ TypeOK
  /\ RequestsAreSound
  /\ ListsAgree
  /\ QueueIsReady
  /\ NothingWithoutThread
  /\ CountIsDue
  /\ NoZombies
  /\ EnabledOrDue
  /\ HandlerOrDue

-----------------------------------------------------------------------------
(* Sets of breakpoints.                                                    *)

(* There are finitely many breakpoints, so that they can be counted.       *)
LEMMA BpsAreFinite ==
  ASSUME NEW S \in SUBSET Bps
  PROVE  IsFiniteSet(S) /\ Cardinality(S) \in Nat
<1>1. IsFiniteSet(Calls)
  BY FS_Interval, ManagerAssumption DEF Calls
<1>2. IsFiniteSet(Bps)
  BY <1>1, FS_Product, ManagerAssumption DEF Bps
<1> QED
  BY <1>2, FS_Subset, FS_CardinalityType

(* Breakpoints that go are subtracted, new ones are added.                 *)
LEMMA CountedExactly ==
  ASSUME NEW S \in SUBSET Bps, NEW D \in SUBSET S, NEW C \in SUBSET Bps, C \intersect S = {}
  PROVE  Cardinality((S \ D) \union C) = Cardinality(S) - Cardinality(D) + Cardinality(C)
<1>1. /\ IsFiniteSet(S) /\ IsFiniteSet(S \ D) /\ IsFiniteSet(C)
      /\ Cardinality(S) \in Nat /\ Cardinality(D) \in Nat /\ Cardinality(C) \in Nat
  BY BpsAreFinite
<1>2. S \intersect D = D /\ (S \ D) \intersect C = {}
  OBVIOUS
<1>3. Cardinality(S \ D) = Cardinality(S) - Cardinality(D)
  BY <1>1, <1>2, FS_Difference
<1>4. Cardinality((S \ D) \union C)
        = Cardinality(S \ D) + Cardinality(C) - Cardinality((S \ D) \intersect C)
  BY <1>1, FS_Union
<1>5. Cardinality((S \ D) \intersect C) = 0
  BY <1>2, FS_EmptySet
<1> QED
  BY <1>1, <1>3, <1>4, <1>5

(* What a request does to the list of its source: the breakpoints it drops *)
(* are listed nowhere else, those it creates are new.                      *)
LEMMA ListOfRequest ==
  ASSUME Inv, NEW c \in Calls, BeforeMerge(c)
  PROVE  /\ calls[c].src \in Sources
         /\ Kept(c) \union Dropped(c) = byPath[calls[c].src]
         /\ Dropped(c) \subseteq byDapId
         /\ \A s \in Sources \ {calls[c].src} : byPath[s] \intersect Dropped(c) = {}
         /\ Created(c) \subseteq {c} \X Places
         /\ Created(c) \in SUBSET Bps
         /\ Created(c) \intersect byDapId = {}
         /\ \A b \in Pending : b[1] # c
         /\ \A b \in byDapId : b[1] # c
<1>1. calls[c].src \in Sources
  BY DEF Inv, RequestsAreSound, BeforeMerge
<1>2. Kept(c) \union Dropped(c) = byPath[calls[c].src]
  BY DEF Kept, Dropped
<1>3. Dropped(c) \subseteq byDapId
  BY <1>1, <1>2 DEF Inv, ListsAgree
<1>4. \A s \in Sources \ {calls[c].src} : byPath[s] \intersect Dropped(c) = {}
  BY <1>1, <1>2 DEF Inv, ListsAgree
<1>5. Created(c) \subseteq {c} \X Places /\ Created(c) \in SUBSET Bps
  BY DEF Created, Inv, TypeOK, Bps
<1>6. \A b \in byDapId : b[1] # c
  BY DEF Inv, ListsAgree, BeforeMerge, AfterMerge
<1>7. Created(c) \intersect byDapId = {}
  BY <1>5, <1>6
<1>8. \A b \in Pending : b[1] # c
  BY DEF Pending, BeforeMerge
<1> QED
  BY <1>1, <1>2, <1>3, <1>4, <1>5, <1>6, <1>7, <1>8

-----------------------------------------------------------------------------
(* Steps that change neither a list nor what is enabled.                   *)

LEMMA InitInv == Init => Inv
<1> SUFFICES ASSUME Init PROVE Inv
  OBVIOUS
<1>1. TypeOK
  <2>1. Idle \in [pc : PC, src : Sources \union {"none"}, want : SUBSET Places,
                  wait : {0} \union Installs, new : SUBSET Bps,
                  slow : BOOLEAN, thread : BOOLEAN]
    BY DEF Idle, PC
  <2>2. readyQueue \in Seq(Calls)
    BY DEF Init
  <2>3. calls \in [Calls -> [pc : PC, src : Sources \union {"none"}, want : SUBSET Places,
                            wait : {0} \union Installs, new : SUBSET Bps,
                            slow : BOOLEAN, thread : BOOLEAN]]
    BY <2>1 DEF Init
  <2>4. reapply \in [pc : {"idle", "disabling", "done"}, bps : SUBSET Bps]
    BY DEF Init
  <2>5. /\ byPath \in [Sources -> SUBSET Bps] /\ byDapId \subseteq Bps /\ count \in Int
        /\ enabled = {} /\ passing \subseteq Bps
    BY DEF Init
  <2>6. /\ handler \in {0} \union Installs
        /\ entryBpSet \in [Installs -> {"unused", "waiting", "sent", "kept", "set", "unset"}]
    BY DEF Init
  <2> QED
    BY <2>2, <2>3, <2>4, <2>5, <2>6 DEF Init, TypeOK
<1>2. Pending = {} /\ byDapId = {} /\ count = 0
  BY DEF Init, Pending, Bps, Idle
<1>3. RequestsAreSound /\ ListsAgree /\ QueueIsReady /\ NothingWithoutThread
  BY DEF Init, RequestsAreSound, ListsAgree, QueueIsReady, NothingWithoutThread, Idle
<1>4. CountIsDue
  BY <1>2, FS_EmptySet DEF CountIsDue
<1>5. NoZombies /\ EnabledOrDue /\ HandlerOrDue
  BY DEF Init, NoZombies, EnabledOrDue, HandlerOrDue
<1> QED
  BY <1>1, <1>3, <1>4, <1>5 DEF Inv

(* What installing and uninstalling the handler does.                      *)
LEMMA Installed ==
  ASSUME TypeOK, Install
  PROVE  /\ handler' \in Installs /\ handler' # 0
         /\ smHandler' \in BOOLEAN /\ ids' \in BOOLEAN /\ instrumented' \in BOOLEAN
         /\ entryBpSet' \in [Installs -> {"unused", "waiting", "sent", "kept", "set", "unset"}]
BY DEF Install, TypeOK, Installs

(* Taking back the custom breakpoint keeps the types of what it touches.   *)
LEMMA Uninstalled ==
  ASSUME TypeOK, Uninstall
  PROVE  /\ handler' = 0
         /\ smHandler' \in BOOLEAN /\ ids' \in BOOLEAN /\ instrumented' \in BOOLEAN
         /\ entryBpSet' \in [Installs -> {"unused", "waiting", "sent", "kept", "set", "unset"}]
BY DEF Uninstall, TypeOK

(* The steps of an installation.                                           *)
LEMMA InstallationInv ==
  ASSUME Inv, NEW i \in Installs,
         SetInstrumentation(i) \/ InstrumentationSet(i) \/ HandlerKept(i)
  PROVE  Inv'
<1>1. UNCHANGED <<thread, ready, listVars, enabled, passing, requestVars, handler, smHandler,
                  launched, reapply>>
  BY DEF SetInstrumentation, InstrumentationSet, HandlerKept, requestVars
<1>2. TypeOK'
  <2>1. ids' \in BOOLEAN /\ instrumented' \in BOOLEAN
        /\ entryBpSet' \in [Installs -> {"unused", "waiting", "sent", "kept", "set", "unset"}]
    BY DEF SetInstrumentation, InstrumentationSet, HandlerKept, Inv, TypeOK
  <2> QED
    BY <1>1, <2>1 DEF Inv, TypeOK, listVars, requestVars
<1> QED
  BY <1>1, <1>2 DEF Inv, RequestsAreSound, ListsAgree, QueueIsReady, NothingWithoutThread,
       CountIsDue, NoZombies, Reapplied, EnabledOrDue, HandlerOrDue, AfterMerge, BeforeMerge,
       Pending, listVars, requestVars

(* The debugger becomes ready, or the target is let run.                   *)
LEMMA LatchInv == ASSUME Inv, DebuggerReady \/ Launch PROVE Inv'
<1>1. UNCHANGED <<thread, listVars, enabled, passing, requestVars, handlerVars, reapply>>
  BY DEF DebuggerReady, Launch
<1>2. TypeOK'
  BY <1>1 DEF DebuggerReady, Launch, Inv, TypeOK, listVars, requestVars, handlerVars
<1> QED
  BY <1>1, <1>2 DEF Inv, RequestsAreSound, ListsAgree, QueueIsReady, NothingWithoutThread,
       CountIsDue, NoZombies, Reapplied, EnabledOrDue, HandlerOrDue, AfterMerge, BeforeMerge,
       Pending, listVars, requestVars, handlerVars

(* The record of a request.                                                *)
CallType == [pc : PC, src : Sources \union {"none"}, want : SUBSET Places,
             wait : {0} \union Installs, new : SUBSET Bps,
             slow : BOOLEAN, thread : BOOLEAN]

-----------------------------------------------------------------------------
(* setBreakpoints.                                                         *)

(* A request begins: if it has breakpoints, the handler is there.          *)
LEMMA SetBreakpointsInv ==
  ASSUME Inv, NEW c \in Calls, NEW s \in Sources, NEW want \in SUBSET Places,
         SetBreakpoints(c, s, want)
  PROVE  Inv'
<1> DEFINE call == [Idle EXCEPT !.pc = "entry", !.src = s, !.want = want, !.wait = handler']
<1>1. /\ calls[c].pc = "idle"
      /\ calls' = [calls EXCEPT ![c] = call]
      /\ UNCHANGED <<thread, ready, listVars, enabled, passing, readyQueue, launched, reapply>>
  BY DEF SetBreakpoints
<1>2. TypeOK /\ calls \in [Calls -> CallType]
  BY DEF Inv, TypeOK, CallType
<1>3. /\ handler' \in {0} \union Installs
      /\ smHandler' \in BOOLEAN /\ ids' \in BOOLEAN /\ instrumented' \in BOOLEAN
      /\ entryBpSet' \in [Installs -> {"unused", "waiting", "sent", "kept", "set", "unset"}]
      /\ handler' # handler => handler = 0 /\ handler' # 0 /\ thread /\ want # {}
  <2>1. CASE handler = 0 /\ thread /\ want # {}
    <3>1. Install
      BY <2>1 DEF SetBreakpoints
    <3> QED
      BY <1>2, <2>1, <3>1, Installed
  <2>2. CASE ~(handler = 0 /\ thread /\ want # {})
    <3>1. UNCHANGED handlerVars
      BY <2>2 DEF SetBreakpoints
    <3> QED
      BY <1>2, <3>1 DEF handlerVars, TypeOK
  <2> QED
    BY <2>1, <2>2
<1>4. call \in CallType /\ call.pc = "entry" /\ call.src = s /\ call.want = want
      /\ call.new = {} /\ call.thread = FALSE
  BY <1>3 DEF Idle, CallType, PC
<1> HIDE DEF call
<1>5. /\ \A d \in Calls : d # c => calls'[d] = calls[d]
      /\ calls'[c] = call
      /\ calls' \in [Calls -> CallType]
  BY <1>1, <1>2, <1>4
<1>6. TypeOK'
  <2>1. calls' \in [Calls -> [pc : PC, src : Sources \union {"none"}, want : SUBSET Places,
                              wait : {0} \union Installs, new : SUBSET Bps,
                              slow : BOOLEAN, thread : BOOLEAN]]
    BY <1>5 DEF CallType
  <2> QED
    BY <1>1, <1>2, <1>3, <2>1 DEF TypeOK, listVars
<1>7. Pending' = Pending
  <2>1. \A b \in Bps : calls'[b[1]].pc = "unbind" /\ b \in calls'[b[1]].new
                         <=> calls[b[1]].pc = "unbind" /\ b \in calls[b[1]].new
    <3> TAKE b \in Bps
    <3>1. b[1] \in Calls
      BY DEF Bps
    <3> QED
      BY <1>1, <1>4, <1>5, <3>1
  <2> QED
    BY <2>1 DEF Pending
<1>8. RequestsAreSound'
  BY <1>1, <1>4, <1>5 DEF Inv, RequestsAreSound
<1>9. ListsAgree'
  <2>1. \A t \in Sources : \A b \in byPath[t] : b[1] # c
    BY <1>1 DEF Inv, ListsAgree, AfterMerge
  <2>2. \A t \in Sources : \A b \in byPath[t] : b[1] \in Calls
    BY <1>2 DEF TypeOK, Bps
  <2> QED
    BY <1>1, <1>5, <2>1, <2>2 DEF Inv, ListsAgree, AfterMerge, listVars
<1>10. QueueIsReady'
  <2>1. \A i \in DOMAIN readyQueue : readyQueue[i] \in Calls /\ readyQueue[i] # c
    BY <1>1, <1>2 DEF Inv, QueueIsReady, TypeOK
  <2> QED
    BY <1>1, <1>5, <2>1 DEF Inv, QueueIsReady
<1>11. NothingWithoutThread' /\ CountIsDue' /\ NoZombies'
  BY <1>1, <1>3, <1>7 DEF Inv, NothingWithoutThread, CountIsDue, NoZombies, Reapplied, listVars
<1>12. EnabledOrDue'
  <2>1. \A b \in Pending : b[1] # c /\ b[1] \in Calls
    BY <1>1 DEF Pending, Bps
  <2> QED
    BY <1>1, <1>5, <1>7, <2>1 DEF Inv, EnabledOrDue, listVars
<1>13. HandlerOrDue'
  BY <1>1, <1>3, <1>4, <1>5 DEF Inv, HandlerOrDue, BeforeMerge, listVars
<1> QED
  BY <1>6, <1>8, <1>9, <1>10, <1>11, <1>12, <1>13 DEF Inv

(* A request that goes on without touching the lists: it begins to wait    *)
(* for the predictor or the debugger, or is answered.                      *)
LEMMA WaitingInv ==
  ASSUME Inv, NEW c \in Calls, NEW pc \in PC,
         calls' = [calls EXCEPT ![c].pc = pc],
         \/ BeforeMerge(c) /\ pc \in {"entry", "predict", "ready"}
         \/ calls[c].pc = "enable" /\ pc = "done",
         readyQueue' \in Seq(Calls),
         QueueIsReady',
         UNCHANGED <<thread, ready, listVars, enabled, passing, handlerVars, launched, reapply>>
  PROVE  Inv'
<1>1. TypeOK /\ calls \in [Calls -> CallType]
  BY DEF Inv, TypeOK, CallType
<1>2. /\ \A d \in Calls : d # c => calls'[d] = calls[d]
      /\ calls'[c] = [calls[c] EXCEPT !.pc = pc]
      /\ calls' \in [Calls -> CallType]
  BY <1>1 DEF CallType
<1>3. /\ calls'[c].pc = pc
      /\ calls'[c].src = calls[c].src /\ calls'[c].want = calls[c].want
      /\ calls'[c].new = calls[c].new /\ calls'[c].thread = calls[c].thread
  BY <1>1, <1>2 DEF CallType
<1>4. calls[c].pc \notin {"idle", "unbind"} /\ pc \notin {"idle", "unbind"}
  BY DEF BeforeMerge
<1>5. TypeOK'
  <2>1. calls' \in [Calls -> [pc : PC, src : Sources \union {"none"}, want : SUBSET Places,
                              wait : {0} \union Installs, new : SUBSET Bps,
                              slow : BOOLEAN, thread : BOOLEAN]]
    BY <1>2 DEF CallType
  <2> QED
    BY <1>1, <2>1 DEF TypeOK, listVars, handlerVars
<1>6. Pending' = Pending
  <2>1. \A b \in Bps : calls'[b[1]].pc = "unbind" /\ b \in calls'[b[1]].new
                         <=> calls[b[1]].pc = "unbind" /\ b \in calls[b[1]].new
    <3> TAKE b \in Bps
    <3>1. b[1] \in Calls
      BY DEF Bps
    <3> QED
      BY <1>2, <1>3, <1>4, <3>1
  <2> QED
    BY <2>1 DEF Pending
<1>7. RequestsAreSound'
  BY <1>2, <1>3, <1>4 DEF Inv, RequestsAreSound
<1>8. ListsAgree'
  <2>1. \A t \in Sources : \A b \in byPath[t] : b[1] \in Calls
    BY <1>1 DEF TypeOK, Bps
  <2> QED
    BY <1>2, <1>3, <1>4, <2>1 DEF Inv, ListsAgree, AfterMerge, BeforeMerge, listVars
<1>9. NothingWithoutThread' /\ CountIsDue' /\ NoZombies'
  BY <1>6 DEF Inv, NothingWithoutThread, CountIsDue, NoZombies, Reapplied, listVars, handlerVars
<1>10. EnabledOrDue'
  <2>1. \A b \in Pending : b[1] # c /\ b[1] \in Calls
    BY <1>4 DEF Pending, Bps
  <2> QED
    BY <1>2, <1>6, <2>1 DEF Inv, EnabledOrDue, listVars
<1>11. HandlerOrDue'
  BY <1>2, <1>3, <1>4 DEF Inv, HandlerOrDue, BeforeMerge, listVars, handlerVars
<1> QED
  BY <1>5, <1>7, <1>8, <1>9, <1>10, <1>11 DEF Inv

(* The request replaces the list of its source.                            *)
LEMMA MergeInv ==
  ASSUME Inv, NEW c \in Calls, BeforeMerge(c), Merge(c),
         readyQueue' \in Seq(Calls),
         QueueIsReady'
  PROVE  Inv'
<1> DEFINE src == calls[c].src
           pc == IF Dropped(c) = {} /\ Created(c) = {} THEN "done" ELSE "unbind"
<1>1. /\ byPath' = [byPath EXCEPT ![src] = Kept(c) \union Created(c)]
      /\ byDapId' = (byDapId \ Dropped(c)) \union Created(c)
      /\ count' = count - Cardinality(Dropped(c))
      /\ enabled' = enabled \ Dropped(c)
      /\ UNCHANGED <<thread, ready, passing, handlerVars, launched, reapply>>
  BY DEF Merge, Indexed, Remaining
<1>2. TypeOK /\ calls \in [Calls -> CallType]
  BY DEF Inv, TypeOK, CallType
<1>3. /\ src \in Sources
      /\ Kept(c) \union Dropped(c) = byPath[src]
      /\ Dropped(c) \subseteq byDapId
      /\ \A s \in Sources \ {src} : byPath[s] \intersect Dropped(c) = {}
      /\ Created(c) \subseteq {c} \X Places
      /\ Created(c) \in SUBSET Bps
      /\ Created(c) \intersect byDapId = {}
      /\ \A b \in Pending : b[1] # c
      /\ \A b \in byDapId : b[1] # c
  BY ListOfRequest
<1>4. /\ \A d \in Calls : d # c => calls'[d] = calls[d]
      /\ calls'[c].pc = pc /\ calls'[c].src = src /\ calls'[c].want = calls[c].want
      /\ calls'[c].new = Created(c) /\ calls'[c].thread = thread
      /\ calls' \in [Calls -> CallType]
  <2>1. calls' = [calls EXCEPT ![c] = [@ EXCEPT !.pc = pc, !.new = Created(c),
                      !.slow = Dropped(c) \intersect enabled # {}, !.thread = thread]]
    BY DEF Merge
  <2>2. calls[c] \in CallType /\ pc \in PC /\ thread \in BOOLEAN
    BY <1>2 DEF PC, TypeOK
  <2>3. (Dropped(c) \intersect enabled # {}) \in BOOLEAN
    OBVIOUS
  <2> HIDE DEF pc
  <2> QED
    BY <1>2, <1>3, <2>1, <2>2, <2>3 DEF CallType
<1>5. TypeOK'
  <2>1. calls' \in [Calls -> [pc : PC, src : Sources \union {"none"}, want : SUBSET Places,
                              wait : {0} \union Installs, new : SUBSET Bps,
                              slow : BOOLEAN, thread : BOOLEAN]]
    BY <1>4 DEF CallType
  <2>2. Cardinality(Dropped(c)) \in Nat
    BY <1>2, <1>3, BpsAreFinite DEF TypeOK
  <2>3. byPath' \in [Sources -> SUBSET Bps]
    BY <1>1, <1>2, <1>3 DEF TypeOK
  <2>4. byDapId' \subseteq Bps /\ count' \in Int /\ enabled' \subseteq Bps
    BY <1>1, <1>2, <1>3, <2>2 DEF TypeOK
  <2> QED
    BY <1>1, <1>2, <2>1, <2>3, <2>4 DEF TypeOK, handlerVars
<1>6. Pending' = Pending \union Created(c)
  <2>1. \A b \in Bps : b[1] \in Calls
    BY DEF Bps
  <2>2. \A b \in Created(c) : b[1] = c
    BY <1>3
  <2>3. Created(c) # {} => pc = "unbind"
    OBVIOUS
  <2>4. ASSUME NEW b \in Bps PROVE b \in Pending' <=> b \in Pending \union Created(c)
    <3>1. CASE b[1] = c
      BY <1>3, <1>4, <2>1, <2>3, <3>1 DEF Pending
    <3>2. CASE b[1] # c
      BY <1>4, <2>1, <2>2, <3>2 DEF Pending
    <3> QED
      BY <3>1, <3>2
  <2> QED
    BY <1>3, <2>4 DEF Pending
<1>7. RequestsAreSound'
  BY <1>1, <1>3, <1>4 DEF Inv, RequestsAreSound
<1>8. ListsAgree'
  <2>1. \A s \in Sources : byPath'[s] = IF s = src THEN Kept(c) \union Created(c) ELSE byPath[s]
    BY <1>1, <1>2 DEF TypeOK
  <2>2. byDapId' = UNION {byPath'[s] : s \in Sources}
    <3>1. byDapId = UNION {byPath[s] : s \in Sources}
      BY DEF Inv, ListsAgree
    <3>2. \A b \in byDapId' : \E s \in Sources : b \in byPath'[s]
      BY <1>1, <1>3, <2>1, <3>1
    <3>3. \A s \in Sources : byPath'[s] \subseteq byDapId'
      <4> TAKE s \in Sources
      <4>1. CASE s = src
        <5>1. Kept(c) \intersect Dropped(c) = {}
          BY DEF Dropped
        <5> QED
          BY <1>1, <1>3, <2>1, <3>1, <4>1, <5>1
      <4>2. CASE s # src
        BY <1>1, <1>3, <2>1, <3>1, <4>2
      <4> QED
        BY <4>1, <4>2
    <3> QED
      BY <3>2, <3>3
  <2>3. ASSUME NEW s \in Sources, NEW b \in byPath'[s]
        PROVE  AfterMerge(b[1])' /\ calls'[b[1]].src = s
    <3>1. CASE b \in Created(c)
      <4>1. b[1] = c /\ calls'[c].pc \in {"unbind", "enable", "done"}
        BY <1>3, <1>4, <3>1
      <4>2. s = src
        <5>1. ASSUME s # src PROVE FALSE
          <6>1. b \in byDapId
            BY <2>1, <3>1, <5>1 DEF Inv, ListsAgree
          <6> QED
            BY <1>3, <3>1, <6>1
        <5> QED
          BY <5>1
      <4> QED
        BY <1>4, <4>1, <4>2 DEF AfterMerge
    <3>2. CASE b \notin Created(c)
      <4>1. b \in byPath[s]
        BY <1>3, <2>1, <3>2
      <4>2. b[1] # c /\ b[1] \in Calls /\ AfterMerge(b[1]) /\ calls[b[1]].src = s
        BY <1>2, <1>3, <4>1 DEF Inv, ListsAgree, TypeOK, Bps
      <4> QED
        BY <1>4, <4>2 DEF AfterMerge
    <3> QED
      BY <3>1, <3>2
  <2> QED
    BY <2>2, <2>3 DEF ListsAgree
<1>9. CountIsDue'
  <2>1. Cardinality(byDapId')
          = Cardinality(byDapId) - Cardinality(Dropped(c)) + Cardinality(Created(c))
    <3>1. byDapId \in SUBSET Bps /\ Dropped(c) \in SUBSET byDapId
      BY <1>2, <1>3 DEF TypeOK
    <3>2. byDapId' = (byDapId \ Dropped(c)) \union Created(c)
      BY <1>1
    <3> QED
      BY <1>3, <3>1, <3>2, CountedExactly
  <2>2. Cardinality(Pending') = Cardinality(Pending) - Cardinality({}) + Cardinality(Created(c))
    <3>1. Pending \in SUBSET Bps /\ {} \in SUBSET Pending /\ Created(c) \intersect Pending = {}
      BY <1>3 DEF Pending
    <3>2. Pending' = (Pending \ {}) \union Created(c)
      BY <1>6
    <3> QED
      BY <1>3, <3>1, <3>2, CountedExactly
  <2>3. /\ Cardinality(byDapId) \in Nat /\ Cardinality(Dropped(c)) \in Nat
        /\ Cardinality(Created(c)) \in Nat /\ Cardinality(Pending) \in Nat
        /\ Cardinality({}) = 0
    BY <1>2, <1>3, BpsAreFinite, FS_EmptySet DEF TypeOK, Pending
  <2> QED
    BY <1>1, <2>1, <2>2, <2>3 DEF Inv, CountIsDue
<1>10. NothingWithoutThread' /\ NoZombies'
  BY <1>1 DEF Inv, NothingWithoutThread, NoZombies, Reapplied, handlerVars
<1>11. EnabledOrDue'
  <2> SUFFICES ASSUME thread, NEW b \in byDapId' \intersect passing
               PROVE  \/ b \in enabled'
                      \/ b \in Pending' /\ calls'[b[1]].thread
                      \/ reapply.pc = "disabling" /\ b \in reapply.bps
    BY <1>1 DEF EnabledOrDue
  <2>1. CASE b \in Created(c)
    BY <1>3, <1>4, <1>6, <2>1
  <2>2. CASE b \in byDapId \ Dropped(c)
    <3>1. b[1] # c /\ b[1] \in Calls
      BY <1>2, <1>3, <2>2 DEF TypeOK, Bps
    <3> QED
      BY <1>1, <1>4, <1>6, <2>2, <3>1 DEF Inv, EnabledOrDue
  <2> QED
    BY <1>1, <2>1, <2>2
<1>12. HandlerOrDue'
  <2>1. CASE pc = "unbind"
    BY <1>4, <2>1 DEF HandlerOrDue
  <2>2. CASE pc = "done"
    <3>1. Dropped(c) = {} /\ Created(c) = {}
      BY <2>2
    <3>2. byDapId' = byDapId
      BY <1>1, <3>1
    <3>3. (\A d \in Calls : calls'[d].pc # "unbind") => (\A d \in Calls : calls[d].pc # "unbind")
      BY <1>4 DEF BeforeMerge
    <3>4. calls[c].want # {} => byDapId # {}
      <4>1. ASSUME calls[c].want # {} PROVE Kept(c) # {}
        <5>1. PICK p \in calls[c].want : TRUE
          BY <4>1
        <5>2. <<c, p>> \notin Created(c)
          BY <3>1
        <5>3. p \in {b[2] : b \in Kept(c)}
          BY <5>1, <5>2 DEF Created
        <5> QED
          BY <5>3
      <4> QED
        BY <1>3, <4>1 DEF Inv, ListsAgree
    <3>5. \A d \in Calls :
            d # c /\ BeforeMerge(d) => BeforeMerge(d)' /\ calls'[d].want = calls[d].want
      BY <1>4 DEF BeforeMerge
    <3> HIDE DEF pc, src
    <3> QED
      BY <1>1, <3>2, <3>3, <3>4, <3>5 DEF Inv, HandlerOrDue, handlerVars
  <2> QED
    BY <2>1, <2>2
<1> QED
  BY <1>5, <1>7, <1>8, <1>9, <1>10, <1>11, <1>12 DEF Inv

(* What a request finds at the end of an await.                            *)
LEMMA ProceedInv ==
  ASSUME Inv, NEW c \in Calls, calls[c].pc \in {"entry", "predict"}, Proceed(c)
  PROVE  Inv'
<1>1. BeforeMerge(c) /\ TypeOK /\ QueueIsReady
  BY DEF BeforeMerge, Inv
<1>2. \A i \in DOMAIN readyQueue : readyQueue[i] \in Calls /\ readyQueue[i] # c
  BY <1>1 DEF QueueIsReady, TypeOK
<1>3. CASE thread /\ ~ready
  <2>1. /\ calls' = [calls EXCEPT ![c].pc = "ready"]
        /\ readyQueue' = Append(readyQueue, c)
        /\ UNCHANGED <<thread, ready, listVars, enabled, passing, handlerVars, launched, reapply>>
    BY <1>3 DEF Proceed
  <2>2. /\ readyQueue' \in Seq(Calls)
        /\ \A i \in DOMAIN readyQueue' :
             \/ i = Len(readyQueue) + 1 /\ readyQueue'[i] = c
             \/ i \in DOMAIN readyQueue /\ readyQueue'[i] = readyQueue[i]
    BY <1>1, <2>1 DEF TypeOK
  <2>3. /\ \A d \in Calls : d # c => calls'[d] = calls[d]
        /\ calls'[c].pc = "ready"
    BY <1>1, <2>1 DEF TypeOK
  <2>4. QueueIsReady'
    BY <1>1, <1>2, <2>2, <2>3 DEF QueueIsReady
  <2> QED
    BY <1>1, <2>1, <2>2, <2>4, WaitingInv DEF PC
<1>4. CASE ~(thread /\ ~ready)
  <2>1. Merge(c) /\ readyQueue' = readyQueue
    BY <1>4 DEF Proceed
  <2>2. \A d \in Calls : d # c => calls'[d] = calls[d]
    BY <1>1, <2>1 DEF Merge, TypeOK
  <2>3. QueueIsReady' /\ readyQueue' \in Seq(Calls)
    BY <1>1, <1>2, <2>1, <2>2 DEF QueueIsReady, TypeOK
  <2> QED
    BY <1>1, <2>1, <2>3, MergeInv
<1> QED
  BY <1>3, <1>4

(* An entry breakpoint that is set keeps the invariant.                    *)
LEMMA EntryBpSetInv == ASSUME Inv, NEW c \in Calls, EntryBpSet(c) PROVE Inv'
<1>1. calls[c].pc = "entry"
  BY DEF EntryBpSet, AtEntry
<1>2. CASE Proceed(c)
  BY <1>1, <1>2, ProceedInv
<1>3. CASE /\ calls' = [calls EXCEPT ![c].pc = "predict"]
           /\ UNCHANGED <<thread, ready, listVars, enabled, passing, readyQueue, handlerVars,
                          launched, reapply>>
  <2>1. TypeOK /\ QueueIsReady /\ BeforeMerge(c)
    BY <1>1 DEF Inv, BeforeMerge
  <2>2. \A i \in DOMAIN readyQueue : readyQueue[i] \in Calls /\ readyQueue[i] # c
    BY <1>1, <2>1 DEF QueueIsReady, TypeOK
  <2>3. readyQueue' \in Seq(Calls) /\ QueueIsReady'
    BY <1>3, <2>1, <2>2 DEF QueueIsReady, TypeOK
  <2> QED
    BY <1>3, <2>1, <2>3, WaitingInv DEF PC
<1> QED
  BY <1>2, <1>3 DEF EntryBpSet

(* An answer to a call keeps the invariant.                                *)
LEMMA AnswerInv == ASSUME Inv, NEW c \in Calls, Answer(c) PROVE Inv'
<1>1. /\ calls[c].pc = "enable"
      /\ calls' = [calls EXCEPT ![c].pc = "done"]
      /\ UNCHANGED <<thread, ready, listVars, enabled, passing, readyQueue, handlerVars,
                     launched, reapply>>
  BY DEF Answer
<1>2. TypeOK /\ QueueIsReady
  BY DEF Inv
<1>3. \A i \in DOMAIN readyQueue : readyQueue[i] \in Calls /\ readyQueue[i] # c
  BY <1>1, <1>2 DEF QueueIsReady, TypeOK
<1>4. readyQueue' \in Seq(Calls) /\ QueueIsReady'
  BY <1>1, <1>2, <1>3 DEF QueueIsReady, TypeOK
<1> QED
  BY <1>1, <1>4, WaitingInv DEF PC

(* The first of those that waited for the debugger goes on.                *)
LEMMA DebuggerIsReadyInv == ASSUME Inv, NEW c \in Calls, DebuggerIsReady(c) PROVE Inv'
<1>1. /\ readyQueue # <<>> /\ c = Head(readyQueue)
      /\ readyQueue' = Tail(readyQueue)
      /\ Merge(c)
  BY DEF DebuggerIsReady
<1>2. TypeOK /\ QueueIsReady /\ readyQueue \in Seq(Calls)
  BY DEF Inv, TypeOK
<1>3. 1 \in DOMAIN readyQueue /\ readyQueue[1] = c
  BY <1>1, <1>2
<1>4. BeforeMerge(c)
  BY <1>2, <1>3 DEF QueueIsReady, BeforeMerge
<1>5. /\ readyQueue' \in Seq(Calls)
      /\ \A i \in DOMAIN readyQueue' : /\ i + 1 \in DOMAIN readyQueue /\ i + 1 # 1
                                       /\ readyQueue'[i] = readyQueue[i + 1]
  <2>1. /\ Tail(readyQueue) \in Seq(Calls) /\ Len(Tail(readyQueue)) = Len(readyQueue) - 1
        /\ \A i \in 1 .. Len(readyQueue) - 1 : Tail(readyQueue)[i] = readyQueue[i + 1]
    BY <1>1, <1>2
  <2> QED
    BY <1>1, <1>2, <2>1
<1>6. \A d \in Calls : d # c => calls'[d] = calls[d]
  BY <1>1, <1>2 DEF Merge, TypeOK
<1>7. QueueIsReady'
  <2>1. \A i \in DOMAIN readyQueue' : readyQueue'[i] \in Calls /\ readyQueue'[i] # c
                                      /\ calls[readyQueue'[i]].pc = "ready"
    BY <1>2, <1>3, <1>5 DEF QueueIsReady
  <2>2. \A i, j \in DOMAIN readyQueue' : readyQueue'[i] = readyQueue'[j] => i + 1 = j + 1
    BY <1>2, <1>5 DEF QueueIsReady
  <2>3. DOMAIN readyQueue' \subseteq Nat
    BY <1>5
  <2> QED
    BY <1>6, <2>1, <2>2, <2>3 DEF QueueIsReady
<1> QED
  BY <1>1, <1>4, <1>5, <1>7, MergeInv

(* The old breakpoints are disabled and the new ones counted and enabled.  *)
LEMMA UnboundInv == ASSUME Inv, NEW c \in Calls, Unbound(c) PROVE Inv'
<1>1. /\ calls[c].pc = "unbind"
      /\ count' = count + Cardinality(calls[c].new)
      /\ UpdateHandler
      /\ enabled' = enabled \union Enables(c)
      /\ calls' = [calls EXCEPT ![c].pc = "enable"]
      /\ UNCHANGED <<thread, ready, byPath, byDapId, passing, readyQueue, launched, reapply>>
  BY DEF Unbound
<1>2. TypeOK /\ calls \in [Calls -> CallType]
  BY DEF Inv, TypeOK, CallType
<1>3. /\ \A d \in Calls : d # c => calls'[d] = calls[d]
      /\ calls'[c].pc = "enable"
      /\ calls'[c].src = calls[c].src /\ calls'[c].want = calls[c].want
      /\ calls'[c].new = calls[c].new /\ calls'[c].thread = calls[c].thread
      /\ calls' \in [Calls -> CallType]
  BY <1>1, <1>2 DEF CallType, PC
<1>4. calls[c].src \in Sources /\ calls[c].new \subseteq {c} \X Places
      /\ calls[c].new \in SUBSET Bps /\ (calls[c].thread => thread)
  BY <1>1, <1>2 DEF Inv, RequestsAreSound, CallType
<1>5. Pending' = Pending \ calls[c].new /\ calls[c].new \subseteq Pending
  <2>1. \A b \in Bps : b[1] \in Calls
    BY DEF Bps
  <2>2. \A b \in calls[c].new : b[1] = c /\ b \in Bps
    BY <1>4
  <2>3. \A b \in Bps : b[1] = c /\ b \in Pending => b \in calls[c].new
    BY <1>1 DEF Pending
  <2>4. ASSUME NEW b \in Bps PROVE b \in Pending' <=> b \in Pending \ calls[c].new
    <3>1. CASE b[1] = c
      BY <1>3, <2>1, <2>3, <3>1 DEF Pending
    <3>2. CASE b[1] # c
      BY <1>3, <2>1, <2>2, <3>2 DEF Pending
    <3> QED
      BY <3>1, <3>2
  <2> QED
    BY <1>1, <2>2, <2>4 DEF Pending
<1>6. /\ handler' \in {0} \union Installs
      /\ smHandler' \in BOOLEAN /\ ids' \in BOOLEAN /\ instrumented' \in BOOLEAN
      /\ entryBpSet' \in [Installs -> {"unused", "waiting", "sent", "kept", "set", "unset"}]
      /\ ~thread => handler' = handler
      /\ thread => IF count' = 0 THEN handler' = 0 ELSE count' > 0 => handler' # 0
  <2>1. CASE thread /\ count' = 0 /\ handler # 0
    BY <1>1, <1>2, <2>1, Uninstalled DEF UpdateHandler
  <2>2. CASE thread /\ count' > 0 /\ handler = 0
    BY <1>1, <1>2, <2>2, Installed DEF UpdateHandler
  <2>3. CASE UNCHANGED handlerVars
    <3>1. \/ handler' # handler
          \/ ~(thread /\ count' = 0 /\ handler # 0) /\ ~(thread /\ count' > 0 /\ handler = 0)
      BY <1>1, <1>2, Uninstalled, Installed DEF UpdateHandler
    <3> QED
      BY <1>2, <2>3, <3>1 DEF handlerVars, TypeOK
  <2> QED
    BY <1>1, <2>1, <2>2, <2>3 DEF UpdateHandler
<1>7. Enables(c) \subseteq byDapId /\ (Enables(c) # {} => thread)
  BY <1>4 DEF Enables, Inv, ListsAgree
<1>8. Cardinality(calls[c].new) \in Nat
  BY <1>4, BpsAreFinite
<1>9. TypeOK'
  <2>1. calls' \in [Calls -> [pc : PC, src : Sources \union {"none"}, want : SUBSET Places,
                              wait : {0} \union Installs, new : SUBSET Bps,
                              slow : BOOLEAN, thread : BOOLEAN]]
    BY <1>3 DEF CallType
  <2>2. count' \in Int /\ enabled' \subseteq Bps /\ (enabled' # {} => thread)
    BY <1>1, <1>2, <1>7, <1>8 DEF TypeOK
  <2> QED
    BY <1>1, <1>2, <1>6, <2>1, <2>2 DEF TypeOK
<1>10. RequestsAreSound'
  BY <1>1, <1>3 DEF Inv, RequestsAreSound
<1>11. ListsAgree'
  <2>1. \A t \in Sources : \A b \in byPath[t] : b[1] \in Calls
    BY <1>2 DEF TypeOK, Bps
  <2> QED
    BY <1>1, <1>3, <2>1 DEF Inv, ListsAgree, AfterMerge
<1>12. QueueIsReady'
  <2>1. \A i \in DOMAIN readyQueue : readyQueue[i] \in Calls /\ readyQueue[i] # c
    BY <1>1, <1>2 DEF Inv, QueueIsReady, TypeOK
  <2> QED
    BY <1>1, <1>3, <2>1 DEF Inv, QueueIsReady
<1>13. CountIsDue'
  <2>1. Pending \in SUBSET Bps /\ {} \in SUBSET Bps
    BY DEF Pending
  <2>2. Cardinality(Pending') = Cardinality(Pending) - Cardinality(calls[c].new) + Cardinality({})
    <3>1. Pending' = (Pending \ calls[c].new) \union {}
      BY <1>5
    <3> QED
      BY <1>5, <2>1, <3>1, CountedExactly
  <2>3. Cardinality(byDapId) \in Nat /\ Cardinality(Pending) \in Nat /\ Cardinality({}) = 0
    BY <1>2, <2>1, BpsAreFinite, FS_EmptySet DEF TypeOK
  <2> QED
    BY <1>1, <1>8, <2>2, <2>3 DEF Inv, CountIsDue
<1>14. NothingWithoutThread' /\ NoZombies'
  BY <1>1, <1>6, <1>7 DEF Inv, NothingWithoutThread, NoZombies, Reapplied
<1>15. EnabledOrDue'
  <2> SUFFICES ASSUME thread, NEW b \in byDapId \intersect passing
               PROVE  \/ b \in enabled'
                      \/ b \in Pending' /\ calls'[b[1]].thread
                      \/ reapply.pc = "disabling" /\ b \in reapply.bps
    BY <1>1 DEF EnabledOrDue
  <2>1. CASE b \in Pending /\ calls[b[1]].thread
    <3>1. CASE b[1] = c
      <4>1. b \in byPath[calls[c].src]
        <5>1. PICK s \in Sources : b \in byPath[s]
          BY DEF Inv, ListsAgree
        <5> QED
          BY <3>1, <5>1 DEF Inv, ListsAgree
      <4>2. b \in Enables(c)
        BY <2>1, <3>1, <4>1 DEF Enables, Pending
      <4> QED
        BY <1>1, <4>2
    <3>2. CASE b[1] # c
      <4>1. b[1] \in Calls /\ b \notin calls[c].new
        BY <1>4, <2>1, <3>2 DEF Pending, Bps
      <4> QED
        BY <1>3, <1>5, <2>1, <3>2, <4>1
    <3> QED
      BY <3>1, <3>2
  <2> QED
    BY <1>1, <2>1 DEF Inv, EnabledOrDue
<1>16. HandlerOrDue'
  <2> SUFFICES ASSUME thread, \A d \in Calls : calls'[d].pc # "unbind"
               PROVE  byDapId # {} <=> handler' # 0
    BY <1>1 DEF HandlerOrDue
  <2>1. Pending' = {}
    BY DEF Pending, Bps
  <2>2. count' = Cardinality(byDapId)
    <3>1. Cardinality(byDapId) \in Nat /\ Cardinality({}) = 0
      BY <1>2, BpsAreFinite, FS_EmptySet DEF TypeOK
    <3> QED
      BY <1>1, <1>13, <2>1, <3>1 DEF CountIsDue
  <2>3. Cardinality(byDapId) \in Nat /\ (Cardinality(byDapId) = 0 <=> byDapId = {})
    BY <1>2, BpsAreFinite, FS_EmptySet DEF TypeOK
  <2> QED
    BY <1>6, <2>2, <2>3
<1> QED
  BY <1>9, <1>10, <1>11, <1>12, <1>13, <1>14, <1>15, <1>16 DEF Inv

-----------------------------------------------------------------------------
(* The rest of the session.                                                *)

(* The thread: all that is listed and passes the filter is enabled, and    *)
(* the handler is installed if there are breakpoints.                      *)
LEMMA SetThreadInv == ASSUME Inv, SetThread PROVE Inv'
<1>1. /\ ~thread /\ thread'
      /\ enabled' = enabled \union (passing \intersect UNION {byPath[s] : s \in Sources})
      /\ IF byDapId # {} THEN Install ELSE UNCHANGED handlerVars
      /\ UNCHANGED <<ready, listVars, passing, requestVars, launched, reapply>>
  BY DEF SetThread, Inv, TypeOK
<1>2. TypeOK /\ enabled = {} /\ handler = 0 /\ reapply.pc # "disabling"
  BY <1>1 DEF Inv, NothingWithoutThread
<1>3. byDapId = UNION {byPath[s] : s \in Sources}
  BY DEF Inv, ListsAgree
<1>4. /\ handler' \in {0} \union Installs
      /\ smHandler' \in BOOLEAN /\ ids' \in BOOLEAN /\ instrumented' \in BOOLEAN
      /\ entryBpSet' \in [Installs -> {"unused", "waiting", "sent", "kept", "set", "unset"}]
      /\ handler' # 0 <=> byDapId # {}
  BY <1>1, <1>2, Installed DEF handlerVars, TypeOK
<1>5. enabled' = passing \intersect byDapId
  BY <1>1, <1>2, <1>3
<1>6. TypeOK'
  BY <1>1, <1>2, <1>4, <1>5 DEF TypeOK, listVars, requestVars
<1>7. Pending' = Pending
  BY <1>1 DEF Pending, requestVars
<1>8. RequestsAreSound' /\ ListsAgree' /\ QueueIsReady'
  BY <1>1 DEF Inv, RequestsAreSound, ListsAgree, QueueIsReady, AfterMerge, listVars, requestVars
<1>9. NothingWithoutThread' /\ CountIsDue' /\ NoZombies' /\ EnabledOrDue'
  BY <1>1, <1>5, <1>7 DEF Inv, NothingWithoutThread, CountIsDue, NoZombies, EnabledOrDue, listVars
<1>10. HandlerOrDue'
  BY <1>1, <1>4 DEF HandlerOrDue, listVars
<1> QED
  BY <1>6, <1>8, <1>9, <1>10 DEF Inv

(* A profile starts or stops.                                              *)
LEMMA ApplyEnabledFilterInv ==
  ASSUME Inv, NEW filter \in SUBSET Bps, ApplyEnabledFilter(filter)
  PROVE  Inv'
<1>1. /\ passing' = filter
      /\ enabled' = IF thread THEN (enabled \ byDapId) \union (byDapId \intersect filter)
                              ELSE enabled
      /\ UNCHANGED <<thread, ready, listVars, requestVars, handlerVars, launched, reapply>>
  BY DEF ApplyEnabledFilter
<1>2. TypeOK'
  BY <1>1 DEF Inv, TypeOK, listVars, requestVars, handlerVars
<1>3. NothingWithoutThread' /\ NoZombies' /\ EnabledOrDue'
  BY <1>1 DEF Inv, NothingWithoutThread, NoZombies, Reapplied, EnabledOrDue, listVars, handlerVars
<1> QED
  BY <1>1, <1>2, <1>3 DEF Inv, RequestsAreSound, ListsAgree, QueueIsReady, CountIsDue,
       HandlerOrDue, AfterMerge, BeforeMerge, Pending, listVars, requestVars, handlerVars

(* reapply() before and after its await.                                   *)
LEMMA ReapplyInv == ASSUME Inv, Reapply \/ ReapplyEnables PROVE Inv'
<1>1. UNCHANGED <<thread, ready, listVars, passing, requestVars, handlerVars, launched>>
  BY DEF Reapply, ReapplyEnables
<1>2. CASE Reapply
  <2>1. /\ thread
        /\ reapply.pc = "idle"
        /\ reapply' = [pc |-> "disabling", bps |-> byDapId]
        /\ enabled' = enabled \ byDapId
    BY <1>2 DEF Reapply
  <2>2. TypeOK'
    BY <1>1, <2>1 DEF Inv, TypeOK, listVars, requestVars, handlerVars
  <2>3. NothingWithoutThread' /\ NoZombies' /\ EnabledOrDue'
    BY <1>1, <2>1 DEF Inv, NothingWithoutThread, NoZombies, Reapplied, EnabledOrDue, listVars
  <2> QED
    BY <1>1, <2>2, <2>3 DEF Inv, RequestsAreSound, ListsAgree, QueueIsReady, CountIsDue,
         HandlerOrDue, AfterMerge, BeforeMerge, Pending, listVars, requestVars, handlerVars
<1>3. CASE ReapplyEnables
  <2>1. /\ reapply.pc = "disabling"
        /\ reapply' = [reapply EXCEPT !.pc = "done"]
        /\ enabled' = enabled \union reapply.bps
    BY <1>3 DEF ReapplyEnables
  <2>2. reapply \in [pc : {"idle", "disabling", "done"}, bps : SUBSET Bps] /\ thread
    BY <2>1 DEF Inv, TypeOK, NothingWithoutThread
  <2>3. reapply'.pc = "done" /\ reapply'.bps = reapply.bps
        /\ reapply' \in [pc : {"idle", "disabling", "done"}, bps : SUBSET Bps]
    BY <2>1, <2>2
  <2>4. TypeOK'
    BY <1>1, <2>1, <2>2, <2>3 DEF Inv, TypeOK, listVars, requestVars, handlerVars
  <2>5. NothingWithoutThread' /\ NoZombies' /\ EnabledOrDue'
    BY <1>1, <2>1, <2>2, <2>3 DEF Inv, NothingWithoutThread, NoZombies, Reapplied, EnabledOrDue,
       Pending, listVars, requestVars
  <2> QED
    BY <1>1, <2>4, <2>5 DEF Inv, RequestsAreSound, ListsAgree, QueueIsReady, CountIsDue,
         HandlerOrDue, AfterMerge, BeforeMerge, Pending, listVars, requestVars, handlerVars
<1> QED
  BY <1>2, <1>3

-----------------------------------------------------------------------------
(* The theorems.                                                           *)

LEMMA NextInv == Inv /\ [Next]_vars => Inv'
<1> SUFFICES ASSUME Inv, [Next]_vars PROVE Inv'
  OBVIOUS
<1>1. CASE Continuation
  BY <1>1, EntryBpSetInv, DebuggerIsReadyInv, UnboundInv, InstallationInv DEF Continuation
<1>2. CASE Turn
  <2>1. ASSUME NEW c \in Calls, Request(c) PROVE Inv'
    <3>1. ASSUME Predicted(c) PROVE Inv'
      BY <3>1, ProceedInv DEF Predicted
    <3> QED
      BY <2>1, <3>1, SetBreakpointsInv, UnboundInv, AnswerInv DEF Request
  <2>2. ASSUME StartProfile PROVE Inv'
    <3>1. PICK filter \in SUBSET byDapId : ApplyEnabledFilter(filter)
      BY <2>2 DEF StartProfile
    <3>2. filter \in SUBSET Bps
      BY DEF Inv, TypeOK
    <3> QED
      BY <3>1, <3>2, ApplyEnabledFilterInv
  <2>3. ASSUME StopProfile PROVE Inv'
    BY <2>3, ApplyEnabledFilterInv DEF StopProfile
  <2> QED
    BY <1>2, <2>1, <2>2, <2>3, InstallationInv, SetThreadInv, LatchInv, ReapplyInv DEF Turn
<1>3. CASE UNCHANGED vars
  <2>1. UNCHANGED <<thread, ready, byPath, byDapId, count, enabled, passing, calls, readyQueue>>
        /\ UNCHANGED <<handler, entryBpSet, smHandler, ids, instrumented, launched, reapply>>
    BY <1>3 DEF vars
  <2>2. TypeOK'
    BY <2>1 DEF Inv, TypeOK
  <2> QED
    BY <2>1, <2>2 DEF Inv, RequestsAreSound, ListsAgree, QueueIsReady, NothingWithoutThread,
         CountIsDue, NoZombies, Reapplied, EnabledOrDue, HandlerOrDue, AfterMerge, BeforeMerge,
         Pending
<1> QED
  BY <1>1, <1>2, <1>3 DEF Next

(* The invariant holds in every state.                                     *)
LEMMA Invariance == Spec => []Inv
<1> QED
  BY InitInv, NextInv, PTL DEF Spec

(* The variables of a session keep their types; among them, a breakpoint   *)
(* is enabled only when there is a thread.                                 *)
THEOREM TypeCorrect == Spec => []TypeOK
<1>1. Inv => TypeOK
  BY DEF Inv
<1> QED
  BY <1>1, Invariance, PTL

(* However many requests, profiles and reloads race with the removal of a  *)
(* breakpoint, only reapply() enables one that was removed.                *)
THEOREM RemovedStayRemoved == Spec => []NoZombies
<1>1. Inv => NoZombies
  BY DEF Inv
<1> QED
  BY <1>1, Invariance, PTL

(* What is listed when everything has settled is enabled.                  *)
THEOREM SettledAreEnabled == Spec => []ListedAreEnabled
<1>1. Inv => ListedAreEnabled
  <2> SUFFICES ASSUME Inv, Quiet, thread, NEW b \in byDapId \intersect passing
               PROVE  b \in enabled
    BY DEF ListedAreEnabled
  <2>1. b \notin Pending
    BY DEF Quiet, Pending, Bps
  <2> QED
    BY <2>1 DEF Inv, EnabledOrDue, Quiet
<1> QED
  BY <1>1, Invariance, PTL

(* The source map handler is there, when everything has settled, if and    *)
(* only if there are breakpoints, though it follows a count that lags      *)
(* behind the lists.                                                       *)
THEOREM HandlerIsRight == Spec => []HandlerFollowsBreakpoints
<1>1. Inv => HandlerFollowsBreakpoints
  <2> SUFFICES ASSUME Inv, Quiet, thread PROVE handler # 0 <=> byDapId # {}
    BY DEF HandlerFollowsBreakpoints
  <2>1. \A c \in Calls : calls[c].pc # "unbind" /\ ~BeforeMerge(c)
    BY DEF Quiet, BeforeMerge
  <2> QED
    BY <2>1 DEF Inv, HandlerOrDue
<1> QED
  BY <1>1, Invariance, PTL
=============================================================================
