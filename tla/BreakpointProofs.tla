-------------------------- MODULE BreakpointProofs --------------------------
(***************************************************************************)
(* Proofs, for every value of the constants, of the safety properties of   *)
(* BreakpointProps.                                                        *)
(***************************************************************************)
EXTENDS BreakpointProps, TLAPS

-----------------------------------------------------------------------------
(* The inductive invariant.                                                *)

(* Only references that were made have arguments, requests and a           *)
(* counterpart in the debuggee.                                            *)
FreeIsUnused ==
  \A r \in Refs :
    IF status[r] = "free"
      THEN runtime[r] = "none" /\ r \notin listed /\ r \notin deadletter
      ELSE args[r] \in Args

(* What is listed has been asked for and not been condemned.               *)
ListedIsWanted ==
  \A r \in listed : status[r] \in {"pending", "failed", "applied"} /\ r \notin deadletter

(* A request to set is in flight only while nobody knows its outcome, a    *)
(* request to remove only while the removal is awaited, and each only once.*)
InFlight ==
  /\ \A i \in 1..Len(toCdp) : \A r \in toCdp[i].refs :
       IF toCdp[i].kind = "set" THEN status[r] = "pending" /\ runtime[r] = "none"
                                ELSE status[r] = "deleting" /\ runtime[r] # "removed"
  /\ \A i, j \in 1..Len(toCdp) : i # j => toCdp[i].refs \cap toCdp[j].refs = {}

LiveIsKnown ==
  \A r \in Refs :
    /\ runtime[r] = "live" => status[r] \in {"pending", "applied", "deleting"}
    /\ status[r] = "applied" => runtime[r] = "live"

(* Only references to scripts, when contexts are cleared, leave the list   *)
(* without being condemned.                                                *)
KeptOrCondemned ==
  \A r \in Refs :
    (status[r] \in {"pending", "applied"} /\ args[r].kind # "script")
      => (r \in listed \/ Condemned(r))

DisabledIsEmpty == ~isEnabled => listed = {}

Inv ==
  /\ TypeOK
  /\ FreeIsUnused
  /\ ListedIsWanted
  /\ InFlight
  /\ LiveIsKnown
  /\ KeptOrCondemned
  /\ DisabledIsEmpty
  /\ NoDuplicateRequest

-----------------------------------------------------------------------------
(* Lemmas about the operators.                                             *)

(* A batch is at most one request, appended at the end of the queue.       *)
LEMMA BatchAppended ==
  ASSUME NEW t \in Seq(Request), NEW k \in {"set", "remove"}, NEW R \in SUBSET Refs
  PROVE  /\ t \o Batch(k, R) \in Seq(Request)
         /\ \A i \in 1..Len(t \o Batch(k, R)) :
              \/ i \in 1..Len(t) /\ (t \o Batch(k, R))[i] = t[i]
              \/ i = Len(t) + 1 /\ (t \o Batch(k, R))[i] = [kind |-> k, refs |-> R]
<1>1. CASE R = {}
  <2>1. t \o Batch(k, R) = t
    BY <1>1 DEF Batch
  <2> QED
    BY <2>1
<1>2. CASE R # {}
  <2> DEFINE q == [kind |-> k, refs |-> R]
  <2>1. q \in Request
    BY DEF Request
  <2>2. t \o Batch(k, R) = Append(t, q)
    BY <1>2 DEF Batch
  <2> QED
    BY <2>1, <2>2
<1> QED
  BY <1>1, <1>2

(* The arguments _setForSpecific makes are well-formed.                    *)
LEMMA SpecificIsArgs ==
  ASSUME NEW s \in Scripts, NEW lc \in Positions
  PROVE  SetForSpecific(s, lc) \in Args
BY BreakpointAssumption DEF SetForSpecific, Args, SetByUrl, SetByLocation

(* A listed reference with the same arguments is always found.             *)
LEMMA DuplicateIsFound ==
  ASSUME NEW a \in Args, NEW r \in listed, args[r] = a
  PROVE  r \in Previous(a)
BY DEF Previous, HasSetOnLocation, HasSetOnLocationByUrl, MatchesUrl, Args,
       SetByUrl, SetByLocation

(* What a request that may turn out to be a duplicate does: it makes at    *)
(* most one reference, of an enabled breakpoint, and no duplicate.         *)
LEMMA SetByMakes ==
  ASSUME TypeOK, FreeIsUnused, NEW a \in Args, NEW N \in SUBSET Refs, SetBy(a, N)
  PROVE  /\ \A r \in N : status[r] = "free" /\ args'[r] = a
         /\ \A r, q \in N : r = q
         /\ args' \in Arguments
         /\ \A r \in Refs \ N : args'[r] = args[r]
         /\ N # {} => isEnabled
         /\ \A r \in N, q \in listed : args[q] # a
<1>1. CASE N = {} /\ UNCHANGED args
  BY <1>1 DEF TypeOK
<1>2. ASSUME Previous(a) = {}, isEnabled, NEW r \in Refs, status[r] = "free",
             N = {r}, args' = [args EXCEPT ![r] = a]
      PROVE  /\ \A x \in N : status[x] = "free" /\ args'[x] = a
             /\ \A x, q \in N : x = q
             /\ args' \in Arguments
             /\ \A x \in Refs \ N : args'[x] = args[x]
             /\ N # {} => isEnabled
             /\ \A x \in N, q \in listed : args[q] # a
  <2>1. \A q \in listed : args[q] # a
    BY <1>2, DuplicateIsFound
  <2> QED
    BY <1>2, <2>1 DEF TypeOK, Arguments
<1> QED
  BY <1>1, <1>2 DEF SetBy, SetAny

-----------------------------------------------------------------------------
(* The invariant is preserved by every change of the list: references of N *)
(* are made, those of S are removed.                                       *)
LEMMA ChangeList ==
  ASSUME Inv,
         NEW N \in SUBSET Refs, NEW S \in SUBSET listed,
         \A r \in N : status[r] = "free" /\ args'[r] \in Args,
         args' \in Arguments,
         \A r \in Refs \ N : args'[r] = args[r],
         \A r, q \in N : r = q,
         \A r \in N, q \in listed : args[q] # args'[r],
         AddAndRemove(N, S),
         isEnabled' \/ (listed \union N) \ S = {},
         isEnabled' \in BOOLEAN, calls' \in [Calls -> [pc : {"idle", "byPath", "bySibling"},
                          todo : SUBSET Args, wait : SUBSET Refs]],
         UNCHANGED <<runtime, cdpVars>>
  PROVE  Inv'
<1> DEFINE Gone == {r \in S : status[r] = "applied"}
           sent == toCdp \o Batch("set", N)
<1>1. TypeOK
  BY DEF Inv
<1>2. /\ toCdp \in Seq(Request) /\ status \in [Refs -> Status]
      /\ listed \subseteq Refs /\ Gone \subseteq Refs /\ deadletter \subseteq Refs
      /\ S \subseteq Refs
  BY <1>1 DEF TypeOK
<1>3. \A r \in N : r \notin listed /\ r \notin deadletter /\ runtime[r] = "none" /\ r \notin S
  BY DEF Inv, FreeIsUnused
<1>4. \A r \in Refs :
        /\ r \in N => status'[r] = "pending"
        /\ r \in Gone => status'[r] = "deleting"
        /\ r \notin N \union Gone => status'[r] = status[r]
  BY <1>3 DEF AddAndRemove
<1>5. /\ sent \in Seq(Request)
      /\ \A i \in 1..Len(sent) :
           \/ i \in 1..Len(toCdp) /\ sent[i] = toCdp[i]
           \/ i = Len(toCdp) + 1 /\ sent[i] = [kind |-> "set", refs |-> N]
  <2>1. "set" \in {"set", "remove"}
    OBVIOUS
  <2> QED
    BY <1>2, <2>1, BatchAppended
<1>6. /\ toCdp' \in Seq(Request)
      /\ \A i \in 1..Len(toCdp') :
           \/ i \in 1..Len(sent) /\ toCdp'[i] = sent[i]
           \/ i = Len(sent) + 1 /\ toCdp'[i] = [kind |-> "remove", refs |-> Gone]
  <2>1. toCdp' = sent \o Batch("remove", Gone)
    BY DEF AddAndRemove
  <2> HIDE DEF sent, Gone
  <2>2. "remove" \in {"set", "remove"}
    OBVIOUS
  <2> QED
    BY <1>2, <1>5, <2>1, <2>2, BatchAppended
<1>7. TypeOK'
  <2>1. status' \in [Refs -> Status]
    BY <1>2 DEF AddAndRemove, Status
  <2>2. listed' \subseteq Refs /\ deadletter' \subseteq Refs
    BY <1>2 DEF AddAndRemove
  <2> QED
    BY <1>1, <1>6, <2>1, <2>2 DEF TypeOK, cdpVars
<1>8. FreeIsUnused'
  <2> SUFFICES ASSUME NEW r \in Refs
               PROVE  IF status'[r] = "free"
                        THEN runtime'[r] = "none" /\ r \notin listed' /\ r \notin deadletter'
                        ELSE args'[r] \in Args
    BY DEF FreeIsUnused
  <2>1. CASE r \in N
    BY <2>1, <1>4
  <2>2. CASE r \notin N /\ status[r] = "free"
    <3>1. r \notin listed /\ r \notin deadletter /\ runtime[r] = "none"
      BY <2>2 DEF Inv, FreeIsUnused
    <3> QED
      BY <2>2, <3>1, <1>4 DEF AddAndRemove
  <2>3. CASE r \notin N /\ status[r] # "free"
    <3>1. args'[r] \in Args
      BY <2>3 DEF Inv, FreeIsUnused
    <3> QED
      BY <2>3, <3>1, <1>4
  <2> QED
    BY <2>1, <2>2, <2>3
<1>9. ListedIsWanted'
  <2> SUFFICES ASSUME NEW r \in listed'
               PROVE  status'[r] \in {"pending", "failed", "applied"} /\ r \notin deadletter'
    BY DEF ListedIsWanted
  <2>1. r \in listed \union N /\ r \notin S
    BY DEF AddAndRemove
  <2> QED
    BY <1>2, <1>3, <1>4, <2>1 DEF AddAndRemove, Inv, ListedIsWanted
<1>10. InFlight'
  <2> HIDE DEF sent
  <2>0. \A i \in 1..Len(toCdp) : toCdp[i].refs \subseteq Refs
    <3>1. \A i \in 1..Len(toCdp) : toCdp[i] \in Request
      BY <1>2
    <3> QED
      BY <3>1 DEF Request
  <2>1. \A i \in 1..Len(toCdp') :
          \/ i \in 1..Len(toCdp) /\ toCdp'[i] = toCdp[i]
          \/ i = Len(toCdp) + 1 /\ toCdp'[i] = [kind |-> "set", refs |-> N]
          \/ toCdp'[i] = [kind |-> "remove", refs |-> Gone]
    BY <1>5, <1>6
  <2>2. \A r \in Gone : r \in Refs /\ status[r] = "applied" /\ runtime[r] = "live"
    BY <1>2 DEF Inv, LiveIsKnown
  <2>3. \A i \in 1..Len(toCdp) : \A r \in toCdp[i].refs :
          r \notin N /\ r \notin Gone /\ status'[r] = status[r]
    BY <2>0, <2>2, <1>4 DEF Inv, InFlight
  <2> HIDE DEF Gone
  <2>4. ASSUME NEW i \in 1..Len(toCdp'), NEW r \in (toCdp'[i]).refs
        PROVE  IF (toCdp'[i]).kind = "set" THEN status'[r] = "pending" /\ runtime'[r] = "none"
                                          ELSE status'[r] = "deleting" /\ runtime'[r] # "removed"
    <3>1. CASE i \in 1..Len(toCdp) /\ toCdp'[i] = toCdp[i]
      BY <3>1, <2>3, <2>4 DEF Inv, InFlight
    <3>2. CASE toCdp'[i] = [kind |-> "set", refs |-> N]
      BY <3>2, <1>3, <1>4, <2>4
    <3>3. CASE toCdp'[i] = [kind |-> "remove", refs |-> Gone]
      BY <3>3, <1>4, <2>2, <2>4
    <3> QED
      BY <2>1, <3>1, <3>2, <3>3
  <2>5. ASSUME NEW i \in 1..Len(toCdp'), NEW j \in 1..Len(toCdp'), i # j
        PROVE  (toCdp'[i]).refs \cap (toCdp'[j]).refs = {}
    <3>1. ASSUME NEW k \in 1..Len(toCdp')
          PROVE  \/ k \in 1..Len(toCdp) /\ toCdp'[k] = toCdp[k]
                 \/ k = Len(toCdp) + 1 /\ (toCdp'[k]).refs = N
                 \/ k = Len(sent) + 1 /\ (toCdp'[k]).refs = Gone
      BY <1>5, <1>6
    <3>2. N \cap Gone = {}
      BY <2>2
    <3> QED
      BY <3>1, <3>2, <2>3, <2>5 DEF Inv, InFlight
  <2> QED
    BY <2>4, <2>5 DEF InFlight
<1>11. LiveIsKnown'
  BY <1>2, <1>3, <1>4 DEF Inv, LiveIsKnown
<1>12. KeptOrCondemned'
  <2> SUFFICES ASSUME NEW r \in Refs, status'[r] \in {"pending", "applied"},
                      (args'[r]).kind # "script"
               PROVE  r \in listed' \/ (status'[r] = "pending" /\ r \in deadletter')
    BY DEF KeptOrCondemned, Condemned
  <2>1. CASE r \in N
    BY <2>1, <1>3 DEF AddAndRemove
  <2>2. CASE r \notin N
    <3>1. status[r] = status'[r] /\ args[r] = args'[r] /\ r \notin Gone
      BY <2>2, <1>4
    <3>2. r \in listed \/ (status[r] = "pending" /\ r \in deadletter)
      BY <3>1 DEF Inv, KeptOrCondemned, Condemned
    <3> QED
      BY <3>1, <3>2 DEF AddAndRemove
  <2> QED
    BY <2>1, <2>2
<1>13. DisabledIsEmpty'
  BY DEF DisabledIsEmpty, AddAndRemove
<1>14. NoDuplicateRequest'
  <2>1. listed' \subseteq listed \union N
    BY DEF AddAndRemove
  <2>2. \A r \in listed : args'[r] = args[r]
    BY <1>2, <1>3
  <2> QED
    BY <2>1, <2>2 DEF Inv, NoDuplicateRequest
<1> QED
  BY <1>7, <1>8, <1>9, <1>10, <1>11, <1>12, <1>13, <1>14 DEF Inv

(* A request that may be a duplicate, together with removals, changes the  *)
(* list in the way ChangeList asks for.                                    *)
LEMMA SetByPreserves ==
  ASSUME Inv,
         NEW a \in Args, NEW N \in SUBSET Refs, NEW S \in SUBSET listed,
         SetBy(a, N), AddAndRemove(N, S),
         calls' \in [Calls -> [pc : {"idle", "byPath", "bySibling"},
                          todo : SUBSET Args, wait : SUBSET Refs]],
         UNCHANGED <<isEnabled, runtime, cdpVars>>
  PROVE  Inv'
<1>1. TypeOK /\ FreeIsUnused /\ DisabledIsEmpty
  BY DEF Inv
<1>2. /\ \A r \in N : status[r] = "free" /\ args'[r] = a
      /\ \A r, q \in N : r = q
      /\ args' \in Arguments
      /\ \A r \in Refs \ N : args'[r] = args[r]
      /\ N # {} => isEnabled
      /\ \A r \in N, q \in listed : args[q] # a
  BY <1>1, SetByMakes
<1>3. \A r \in N : status[r] = "free" /\ args'[r] \in Args
  BY <1>2
<1>4. \A r \in N, q \in listed : args[q] # args'[r]
  BY <1>2
<1>5. isEnabled' \/ (listed \union N) \ S = {}
  BY <1>1, <1>2 DEF DisabledIsEmpty
<1>6. isEnabled' \in BOOLEAN
  BY <1>1 DEF TypeOK
<1> QED
  BY <1>2, <1>3, <1>4, <1>5, <1>6, ChangeList

(* Whatever leaves the references and the requests alone preserves the     *)
(* invariant.                                                              *)
LEMMA NothingSent ==
  ASSUME Inv, TypeOK', isEnabled' \/ listed = {},
         UNCHANGED <<status, args, listed, deadletter, toCdp, runtime>>
  PROVE  Inv'
<1>1. FreeIsUnused' /\ ListedIsWanted' /\ LiveIsKnown'
  BY DEF Inv, FreeIsUnused, ListedIsWanted, LiveIsKnown
<1>2. InFlight'
  BY DEF Inv, InFlight
<1>3. KeptOrCondemned'
  BY DEF Inv, KeptOrCondemned, Condemned
<1>4. DisabledIsEmpty' /\ NoDuplicateRequest'
  BY DEF Inv, DisabledIsEmpty, NoDuplicateRequest
<1> QED
  BY <1>1, <1>2, <1>3, <1>4 DEF Inv

(* The invariant holds at the start.                                       *)
LEMMA InitInv == Init => Inv
<1> SUFFICES ASSUME Init PROVE Inv
  OBVIOUS
<1> USE DEF Init
<1>1. TypeOK
  <2>1. args \in Arguments
    BY DEF Arguments
  <2>2. toCdp \in Seq(Request)
    OBVIOUS
  <2>3. calls \in [Calls -> [pc : {"idle", "byPath", "bySibling"},
                              todo : SUBSET Args, wait : SUBSET Refs]]
    BY DEF Idle
  <2>4. status \in [Refs -> Status]
    BY DEF Status
  <2> QED
    BY <2>1, <2>2, <2>3, <2>4 DEF TypeOK
<1>2. FreeIsUnused /\ ListedIsWanted /\ LiveIsKnown
  BY DEF FreeIsUnused, ListedIsWanted, LiveIsKnown
<1>3. InFlight
  BY DEF InFlight
<1>4. KeptOrCondemned /\ DisabledIsEmpty /\ NoDuplicateRequest
  BY DEF KeptOrCondemned, DisabledIsEmpty, NoDuplicateRequest
<1> QED
  BY <1>1, <1>2, <1>3, <1>4 DEF Inv

(* An answer changes the status of one reference, whose request has been   *)
(* served.                                                                 *)
LEMMA AnswerPreserves ==
  ASSUME Inv, NEW r \in Refs, NEW new \in {"failed", "applied", "deleting", "done"},
         status' = [status EXCEPT ![r] = new],
         status[r] \in {"pending", "deleting"},
         new = "failed" => status[r] = "pending" /\ runtime[r] = "refused",
         new = "applied" => status[r] = "pending" /\ runtime[r] = "live" /\ r \notin deadletter,
         new = "deleting" => runtime[r] = "live" /\ r \in deadletter,
         new = "done" => status[r] = "deleting" /\ runtime[r] = "removed",
         \A i \in 1..Len(toCdp) : r \notin toCdp[i].refs,
         toCdp' = toCdp \/ (new = "deleting" /\ toCdp' = toCdp \o Batch("remove", {r})),
         UNCHANGED <<isEnabled, args, listed, deadletter, calls, runtime, cdpVars>>
  PROVE  Inv'
<1>1. /\ TypeOK /\ status \in [Refs -> Status] /\ toCdp \in Seq(Request)
      /\ listed \subseteq Refs /\ {r} \in SUBSET Refs
  BY DEF Inv, TypeOK
<1>2. \A q \in Refs : status'[q] = IF q = r THEN new ELSE status[q]
  BY <1>1
<1>3. "remove" \in {"set", "remove"}
  OBVIOUS
<1>4. /\ toCdp' \in Seq(Request)
      /\ \A i \in 1..Len(toCdp') :
           \/ i \in 1..Len(toCdp) /\ toCdp'[i] = toCdp[i]
           \/ /\ i = Len(toCdp) + 1 /\ toCdp'[i] = [kind |-> "remove", refs |-> {r}]
              /\ new = "deleting"
  <2>1. CASE toCdp' = toCdp
    BY <1>1, <2>1
  <2>2. CASE new = "deleting" /\ toCdp' = toCdp \o Batch("remove", {r})
    BY <1>1, <1>3, <2>2, BatchAppended
  <2> QED
    BY <2>1, <2>2
<1>5. TypeOK'
  BY <1>1, <1>4 DEF TypeOK, Status, cdpVars
<1>6. FreeIsUnused' /\ ListedIsWanted'
  BY <1>1, <1>2 DEF Inv, FreeIsUnused, ListedIsWanted
<1>7. InFlight'
  <2>1. \A i \in 1..Len(toCdp) : toCdp[i].refs \subseteq Refs
    <3>1. \A i \in 1..Len(toCdp) : toCdp[i] \in Request
      BY <1>1
    <3> QED
      BY <3>1 DEF Request
  <2>2. \A i \in 1..Len(toCdp) : \A q \in toCdp[i].refs : status'[q] = status[q]
    BY <1>2, <2>1
  <2>3. ASSUME NEW i \in 1..Len(toCdp'), NEW q \in (toCdp'[i]).refs
        PROVE  IF (toCdp'[i]).kind = "set" THEN status'[q] = "pending" /\ runtime'[q] = "none"
                                          ELSE status'[q] = "deleting" /\ runtime'[q] # "removed"
    <3>1. CASE i \in 1..Len(toCdp) /\ toCdp'[i] = toCdp[i]
      BY <3>1, <2>2, <2>3 DEF Inv, InFlight
    <3>2. CASE toCdp'[i] = [kind |-> "remove", refs |-> {r}] /\ new = "deleting"
      BY <3>2, <1>2, <2>3
    <3> QED
      BY <1>4, <3>1, <3>2
  <2>4. ASSUME NEW i \in 1..Len(toCdp'), NEW j \in 1..Len(toCdp'), i # j
        PROVE  (toCdp'[i]).refs \cap (toCdp'[j]).refs = {}
    <3>1. ASSUME NEW k \in 1..Len(toCdp')
          PROVE  \/ k \in 1..Len(toCdp) /\ toCdp'[k] = toCdp[k]
                 \/ k = Len(toCdp) + 1 /\ (toCdp'[k]).refs = {r}
      BY <1>4
    <3> QED
      BY <3>1, <2>4 DEF Inv, InFlight
  <2> QED
    BY <2>3, <2>4 DEF InFlight
<1>8. LiveIsKnown'
  BY <1>2 DEF Inv, LiveIsKnown
<1>9. KeptOrCondemned'
  BY <1>2 DEF Inv, KeptOrCondemned, Condemned
<1>10. DisabledIsEmpty' /\ NoDuplicateRequest'
  BY DEF Inv, DisabledIsEmpty, NoDuplicateRequest
<1> QED
  BY <1>5, <1>6, <1>7, <1>8, <1>9, <1>10 DEF Inv

(* What the debuggee serves next is forgotten by the queue, and the        *)
(* references of the requests after it are others.                         *)
LEMMA ServePreserves ==
  ASSUME Inv, Serve
  PROVE  Inv'
<1> DEFINE head == Head(toCdp)
<1>1. /\ TypeOK /\ toCdp \in Seq(Request) /\ toCdp # <<>>
      /\ runtime \in [Refs -> {"none", "refused", "live", "removed"}]
  BY DEF Inv, TypeOK, Serve
<1>2. /\ toCdp' = Tail(toCdp) /\ toCdp' \in Seq(Request)
      /\ head \in Request /\ head = toCdp[1] /\ 1 \in 1..Len(toCdp)
      /\ \A i \in 1..Len(toCdp') : i + 1 \in 1..Len(toCdp) /\ toCdp'[i] = toCdp[i + 1]
  BY <1>1 DEF Serve
<1>3. /\ UNCHANGED <<isEnabled, status, args, listed, deadletter, calls, cdpVars>>
      /\ \A r \in Refs \ head.refs : runtime'[r] = runtime[r]
      /\ \A r \in Refs \cap head.refs :
           IF head.kind = "set" THEN runtime'[r] \in {"live", "refused"}
                                ELSE runtime'[r] = "removed"
      /\ runtime' \in [Refs -> {"none", "refused", "live", "removed"}]
  BY <1>1 DEF Serve
<1>4. \A r \in head.refs : IF head.kind = "set" THEN status[r] = "pending"
                                               ELSE status[r] = "deleting"
  BY <1>2 DEF Inv, InFlight
<1> HIDE DEF head
<1>5. TypeOK'
  BY <1>1, <1>2, <1>3 DEF TypeOK, cdpVars
<1>6. FreeIsUnused' /\ ListedIsWanted'
  BY <1>3, <1>4 DEF Inv, FreeIsUnused, ListedIsWanted
<1>7. InFlight'
  <2>1. ASSUME NEW i \in 1..Len(toCdp')
        PROVE  \A r \in (toCdp'[i]).refs : r \in Refs \ head.refs
    <3>1. toCdp'[i] \in Request /\ i + 1 # 1
      BY <1>2
    <3>2. (toCdp'[i]).refs \subseteq Refs
      BY <3>1 DEF Request
    <3>3. toCdp[i + 1].refs \cap head.refs = {}
      BY <1>2, <3>1 DEF Inv, InFlight
    <3> QED
      BY <1>2, <3>2, <3>3
  <2>2. \A i \in 1..Len(toCdp') : \A r \in (toCdp'[i]).refs : runtime'[r] = runtime[r]
    BY <1>3, <2>1
  <2>3. ASSUME NEW i \in 1..Len(toCdp'), NEW r \in (toCdp'[i]).refs
        PROVE  IF (toCdp'[i]).kind = "set" THEN status'[r] = "pending" /\ runtime'[r] = "none"
                                          ELSE status'[r] = "deleting" /\ runtime'[r] # "removed"
    BY <1>2, <1>3, <2>2, <2>3 DEF Inv, InFlight
  <2>4. ASSUME NEW i \in 1..Len(toCdp'), NEW j \in 1..Len(toCdp'), i # j
        PROVE  (toCdp'[i]).refs \cap (toCdp'[j]).refs = {}
    <3>1. i + 1 # j + 1
      BY <2>4
    <3> QED
      BY <1>2, <3>1 DEF Inv, InFlight
  <2> QED
    BY <2>3, <2>4 DEF InFlight
<1>8. LiveIsKnown'
  BY <1>3, <1>4 DEF Inv, LiveIsKnown
<1>9. KeptOrCondemned'
  BY <1>3 DEF Inv, KeptOrCondemned, Condemned
<1>10. DisabledIsEmpty' /\ NoDuplicateRequest'
  BY <1>3 DEF Inv, DisabledIsEmpty, NoDuplicateRequest
<1> QED
  BY <1>5, <1>6, <1>7, <1>8, <1>9, <1>10 DEF Inv

-----------------------------------------------------------------------------
(* Every step.                                                             *)

LEMMA NextInv == Inv /\ [Next]_vars => Inv'
<1> SUFFICES ASSUME Inv, [Next]_vars PROVE Inv'
  OBVIOUS
<1> DEFINE Call == [pc : {"idle", "byPath", "bySibling"},
                    todo : SUBSET Args, wait : SUBSET Refs]
<1>0. TypeOK /\ calls \in [Calls -> Call] /\ DisabledIsEmpty
  BY DEF Inv, TypeOK
<1>1. ASSUME NEW c \in Calls, Enable(c) PROVE Inv'
  <2>1. \A todo \in SUBSET PathArgs :
          [pc |-> "byPath", todo |-> todo, wait |-> {}] \in Call
    BY BreakpointAssumption DEF Args
  <2>2. calls' \in [Calls -> Call]
    BY <1>0, <1>1, <2>1 DEF Enable
  <2>3. TypeOK'
    BY <1>0, <1>1, <2>2 DEF Enable, TypeOK, cdpVars
  <2> QED
    BY <1>1, <2>3, NothingSent DEF Enable
<1>2. ASSUME NEW c \in Calls, SetNext(c) PROVE Inv'
  <2>1. PICK a \in calls[c].todo : \E N \in SUBSET Refs :
          /\ SetBy(a, N)
          /\ AddAndRemove(N, {})
          /\ calls' = [calls EXCEPT
               ![c].todo = @ \ {a},
               ![c].wait = @ \union N \union {r \in Previous(a) : status[r] = "pending"}]
          /\ UNCHANGED <<isEnabled, runtime, cdpVars>>
    BY <1>2 DEF SetNext
  <2>2. PICK N \in SUBSET Refs :
          /\ SetBy(a, N)
          /\ AddAndRemove(N, {})
          /\ calls' = [calls EXCEPT
               ![c].todo = @ \ {a},
               ![c].wait = @ \union N \union {r \in Previous(a) : status[r] = "pending"}]
          /\ UNCHANGED <<isEnabled, runtime, cdpVars>>
    BY <2>1
  <2>3. a \in Args
    BY <1>0
  <2>4. {r \in Previous(a) : status[r] = "pending"} \subseteq Refs
    BY <1>0 DEF Previous, HasSetOnLocation, HasSetOnLocationByUrl, TypeOK
  <2>5. calls' \in [Calls -> Call]
    BY <1>0, <2>2, <2>4
  <2>6. {} \in SUBSET listed
    OBVIOUS
  <2> QED
    BY <2>2, <2>3, <2>5, <2>6, SetByPreserves
<1>3. ASSUME NEW c \in Calls, SetSiblings(c) PROVE Inv'
  <2>1. PICK todo \in SUBSET KnownPlaces :
          calls' = [calls EXCEPT ![c] =
            IF isEnabled THEN [pc |-> "bySibling", todo |-> todo, wait |-> {}] ELSE Idle]
    BY <1>3 DEF SetSiblings
  <2>2. todo \subseteq Args
    <3>1. parsed \subseteq Scripts
      BY <1>0 DEF TypeOK
    <3>2. \A s \in parsed, lc \in Positions : SetForSpecific(s, lc) \in Args
      BY <3>1, SpecificIsArgs
    <3> QED
      BY <2>1, <3>2 DEF KnownPlaces
  <2>3. (IF isEnabled THEN [pc |-> "bySibling", todo |-> todo, wait |-> {}] ELSE Idle) \in Call
    BY <2>2 DEF Idle
  <2>4. calls' \in [Calls -> Call]
    BY <1>0, <2>1, <2>3
  <2>5. TypeOK'
    BY <1>0, <1>3, <2>4 DEF SetSiblings, TypeOK, cdpVars
  <2> QED
    BY <1>0, <1>3, <2>5, NothingSent DEF SetSiblings, DisabledIsEmpty
<1>4. ASSUME NEW c \in Calls, EnableDone(c) PROVE Inv'
  <2>1. calls' \in [Calls -> Call]
    BY <1>0, <1>4 DEF EnableDone, Idle
  <2>2. TypeOK'
    BY <1>0, <1>4, <2>1 DEF EnableDone, TypeOK, cdpVars
  <2> QED
    BY <1>0, <1>4, <2>2, NothingSent DEF EnableDone, DisabledIsEmpty
<1>5. ASSUME Disable PROVE Inv'
  <2>1. AddAndRemove({}, listed) /\ isEnabled' = FALSE
        /\ UNCHANGED <<args, calls, runtime, cdpVars>>
    BY <1>5 DEF Disable
  <2>2. (listed \union {}) \ listed = {} /\ {} \in SUBSET Refs /\ listed \in SUBSET listed
    OBVIOUS
  <2>3. args' \in Arguments /\ calls' \in [Calls -> Call] /\ isEnabled' \in BOOLEAN
    BY <1>0, <2>1 DEF TypeOK
  <2> QED
    BY <2>1, <2>2, <2>3, ChangeList
<1>6. ASSUME NEW s \in Scripts, NEW lc \in Positions, UpdateForNewLocations(s, lc)
      PROVE  Inv'
  <2> DEFINE overlaid == {r \in listed : /\ MatchesUrl(args[r], UrlOf[s])
                                         /\ args[r].lc # lc}
  <2>1. PICK N \in SUBSET Refs : /\ SetBy(SetForSpecific(s, lc), N)
                                 /\ AddAndRemove(N, overlaid)
    BY <1>6 DEF UpdateForNewLocations
  <2>2. overlaid \in SUBSET listed
    OBVIOUS
  <2>3. UNCHANGED <<isEnabled, calls, runtime, cdpVars>>
    BY <1>6 DEF UpdateForNewLocations
  <2> HIDE DEF overlaid
  <2> QED
    BY <1>0, <2>1, <2>2, <2>3, SpecificIsArgs, SetByPreserves
<1>7. ASSUME NEW r \in Refs, SetFailed(r) \/ SetApplied(r) \/ Removed(r) PROVE Inv'
  <2>1. \A i \in 1..Len(toCdp) : r \notin toCdp[i].refs
    BY <1>7 DEF SetFailed, SetApplied, Removed, Inv, InFlight
  <2>2. CASE SetFailed(r)
    <3>1. "failed" \in {"failed", "applied", "deleting", "done"}
      OBVIOUS
    <3> QED
      BY <2>1, <2>2, <3>1, AnswerPreserves DEF SetFailed
  <2>3. CASE SetApplied(r) /\ r \in deadletter
    <3>1. "deleting" \in {"failed", "applied", "deleting", "done"}
      OBVIOUS
    <3> QED
      BY <2>1, <2>3, <3>1, AnswerPreserves DEF SetApplied
  <2>4. CASE SetApplied(r) /\ r \notin deadletter
    <3>1. "applied" \in {"failed", "applied", "deleting", "done"}
      OBVIOUS
    <3> QED
      BY <2>1, <2>4, <3>1, AnswerPreserves DEF SetApplied
  <2>5. CASE Removed(r)
    <3>1. "done" \in {"failed", "applied", "deleting", "done"}
      OBVIOUS
    <3> QED
      BY <2>1, <2>5, <3>1, AnswerPreserves DEF Removed
  <2> QED
    BY <1>7, <2>2, <2>3, <2>4, <2>5
<1>8. ASSUME Serve PROVE Inv'
  BY <1>8, ServePreserves
<1>9. ASSUME NEW s \in Scripts, ScriptParsed(s) PROVE Inv'
  <2>1. TypeOK'
    BY <1>0, <1>9 DEF ScriptParsed, TypeOK
  <2> QED
    BY <1>0, <1>9, <2>1, NothingSent DEF ScriptParsed, DisabledIsEmpty
<1>10. ASSUME ContextsCleared PROVE Inv'
  <2>1. TypeOK'
    BY <1>0, <1>10 DEF ContextsCleared, TypeOK
  <2> QED
    BY <1>0, <1>10, <2>1, NothingSent DEF ContextsCleared, DisabledIsEmpty
<1>11. ASSUME ExecutionContextWasCleared PROVE Inv'
  <2> USE <1>11 DEF ExecutionContextWasCleared
  <2>1. TypeOK'
    BY <1>0 DEF TypeOK
  <2>2. FreeIsUnused' /\ ListedIsWanted' /\ LiveIsKnown'
    BY DEF Inv, FreeIsUnused, ListedIsWanted, LiveIsKnown
  <2>3. InFlight'
    BY DEF Inv, InFlight
  <2>4. KeptOrCondemned'
    <3>1. \A r \in Refs : status[r] # "free" => args[r].kind \in {"url", "re", "script"}
      BY DEF Inv, FreeIsUnused, Args, SetByUrl, SetByLocation
    <3> QED
      BY <3>1 DEF Inv, KeptOrCondemned, Condemned
  <2>5. DisabledIsEmpty' /\ NoDuplicateRequest'
    BY DEF Inv, DisabledIsEmpty, NoDuplicateRequest
  <2> QED
    BY <2>1, <2>2, <2>3, <2>4, <2>5 DEF Inv
<1>12. ASSUME UNCHANGED vars PROVE Inv'
  <2>1. TypeOK'
    BY <1>0, <1>12 DEF vars, cdpVars, TypeOK
  <2> QED
    BY <1>0, <1>12, <2>1, NothingSent DEF vars, DisabledIsEmpty
<1> QED
  BY <1>1, <1>2, <1>3, <1>4, <1>5, <1>6, <1>7, <1>8, <1>9, <1>10, <1>11, <1>12 DEF Next

-----------------------------------------------------------------------------
(* The theorems.                                                           *)

(* The invariant holds in every behaviour.                                 *)
THEOREM Invariance == Spec => []Inv
BY InitInv, NextInv, PTL DEF Spec

(* Every variable keeps its type.                                          *)
THEOREM TypeCorrect == Spec => []TypeOK
<1>1. Inv => TypeOK
  BY DEF Inv
<1> QED
  BY <1>1, Invariance, PTL

(* A breakpoint set by URL that is live in the debuggee is in the list     *)
(* disable() goes through or is on its way out, however many enable(),     *)
(* disable() and source maps interleave with its requests.                 *)
THEOREM Tracked == Spec => []UrlBreakpointsAreTracked
<1>1. Inv => UrlBreakpointsAreTracked
  BY DEF Inv, LiveIsKnown, KeptOrCondemned, Condemned, UrlBreakpointsAreTracked
<1> QED
  BY <1>1, Invariance, PTL

(* A disabled breakpoint leaks no request made for a URL.                  *)
THEOREM NothingLeaks == Spec => []DisabledMeansRemoved
<1>1. Inv => DisabledMeansRemoved
  BY DEF Inv, KeptOrCondemned, DisabledIsEmpty, DisabledMeansRemoved
<1> QED
  BY <1>1, Invariance, PTL

(* No two listed references carry the same arguments.                      *)
THEOREM Deduplicated == Spec => []NoDuplicateRequest
<1>1. Inv => NoDuplicateRequest
  BY DEF Inv
<1> QED
  BY <1>1, Invariance, PTL


(* What removals do to the references they take off the list.              *)
LEMMA RemovedIsCondemned ==
  ASSUME Inv, NEW N \in SUBSET Refs, NEW S, AddAndRemove(N, S),
         \A r \in N : status[r] = "free",
         NEW r \in listed \ listed'
  PROVE  status[r] = "failed" \/ Condemned(r)'
<1>1. r \in S /\ r \in Refs /\ status[r] \in {"pending", "failed", "applied"}
  BY DEF AddAndRemove, Inv, TypeOK, ListedIsWanted
<1>2. r \notin N
  BY <1>1
<1> QED
  BY <1>1, <1>2 DEF AddAndRemove, Condemned

(* No step of the adapter drops a reference that nobody will remove.       *)
LEMMA StepCondemns == Inv /\ [Next]_vars => [LeavesCondemned]_vars
<1> SUFFICES ASSUME Inv, Next, NEW r \in listed \ listed'
             PROVE  \/ status[r] = "failed"
                    \/ Condemned(r)'
                    \/ clearing /\ ~clearing' /\ args[r].kind = "script"
  BY DEF LeavesCondemned
<1>0. TypeOK /\ FreeIsUnused
  BY DEF Inv
<1>1. ASSUME NEW c \in Calls, SetNext(c) PROVE status[r] = "failed" \/ Condemned(r)'
  <2>1. PICK a \in calls[c].todo, N \in SUBSET Refs : SetBy(a, N) /\ AddAndRemove(N, {})
    BY <1>1 DEF SetNext
  <2> QED
    BY <2>1 DEF AddAndRemove
<1>2. ASSUME Disable PROVE status[r] = "failed" \/ Condemned(r)'
  BY <1>2, RemovedIsCondemned DEF Disable
<1>3. ASSUME NEW s \in Scripts, NEW lc \in Positions, UpdateForNewLocations(s, lc)
      PROVE  status[r] = "failed" \/ Condemned(r)'
  <2> DEFINE overlaid == {q \in listed : /\ MatchesUrl(args[q], UrlOf[s])
                                         /\ args[q].lc # lc}
  <2>1. PICK N \in SUBSET Refs : /\ SetBy(SetForSpecific(s, lc), N)
                                 /\ AddAndRemove(N, overlaid)
    BY <1>3 DEF UpdateForNewLocations
  <2>2. \A q \in N : status[q] = "free"
    BY <1>0, <2>1, SpecificIsArgs, SetByMakes
  <2> HIDE DEF overlaid
  <2> QED
    BY <2>1, <2>2, RemovedIsCondemned
<1>4. ASSUME ExecutionContextWasCleared
      PROVE  clearing /\ ~clearing' /\ args[r].kind = "script"
  BY <1>0, <1>4 DEF ExecutionContextWasCleared, Inv, ListedIsWanted, TypeOK, FreeIsUnused,
       Args, SetByUrl, SetByLocation
<1>5. ASSUME listed' = listed PROVE FALSE
  BY <1>5
<1> QED
  BY <1>1, <1>2, <1>3, <1>4, <1>5 DEF Next, Enable, SetSiblings, EnableDone, SetFailed,
       SetApplied, Removed, Serve, ScriptParsed, ContextsCleared

(* A reference leaves the list of a breakpoint only on its way out of the  *)
(* debuggee, or because the contexts of its script were cleared.           *)
THEOREM NothingForgotten == Spec => ListedUntilCondemned
<1>1. Inv /\ [Next]_vars => [LeavesCondemned]_vars
  BY StepCondemns
<1> QED
  BY <1>1, Invariance, PTL DEF Spec, ListedUntilCondemned
=============================================================================
