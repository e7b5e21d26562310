------------------------- MODULE SessionOutputProofs -------------------------
(***************************************************************************)
(* Proofs, for any number of messages, profiles and pages, of the safety   *)
(* properties of SessionOutputProps.                                       *)
(***************************************************************************)
EXTENDS SessionOutputProps, SequenceTheorems, NaturalsInduction, WellFoundedInduction, TLAPS

-----------------------------------------------------------------------------
(* Numbers and sequences.                                                  *)

(* A set of numbers has a smallest one.                                    *)
LEMMA SmallestNumber ==
  ASSUME NEW T \in SUBSET Nat, T # {}
  PROVE  \E m \in T : \A y \in T : m <= y
<1>1. PICK m \in T : \A y \in T : ~(<<y, m>> \in OpToRel(<, Nat))
  BY WFMin, NatLessThanWellFounded
<1>2. \A y \in T : ~(y < m)
  BY <1>1 DEF OpToRel
<1> QED BY <1>2

(* Induction, for a set of numbers.                                        *)
LEMMA InductionUpTo ==
  ASSUME NEW N \in Nat, NEW G, 0 \in G, \A i \in 0 .. N : i \in G /\ i < N => i + 1 \in G
  PROVE  \A i \in 0 .. N : i \in G
<1> SUFFICES ASSUME {i \in 0 .. N : i \notin G} # {}
             PROVE  FALSE
  OBVIOUS
<1>1. {i \in 0 .. N : i \notin G} \in SUBSET Nat
  OBVIOUS
<1>2. PICK m \in {i \in 0 .. N : i \notin G} : \A y \in {i \in 0 .. N : i \notin G} : m <= y
  BY <1>1, SmallestNumber
<1>3. m # 0 /\ m \in Nat /\ m <= N
  BY <1>2
<1>4. m - 1 \in G
  BY <1>2, <1>3
<1> QED BY <1>2, <1>3, <1>4

(* The elements of a sequence that grows.                                  *)
LEMMA SetOfAppend ==
  ASSUME NEW S, NEW s \in Seq(S), NEW x \in S
  PROVE  ToSet(Append(s, x)) = ToSet(s) \union {x}
<1>1. DOMAIN Append(s, x) = 1 .. Len(s) + 1 /\ DOMAIN s = 1 .. Len(s) /\ Len(s) \in Nat
  OBVIOUS
<1>2. /\ Append(s, x)[Len(s) + 1] = x
      /\ \A i \in 1 .. Len(s) : Append(s, x)[i] = s[i]
  OBVIOUS
<1>3. 1 .. Len(s) + 1 = (1 .. Len(s)) \union {Len(s) + 1}
  BY <1>1
<1> QED BY <1>1, <1>2, <1>3 DEF ToSet

(* The elements of two sequences.                                          *)
LEMMA SetOfConcat ==
  ASSUME NEW S, NEW s \in Seq(S), NEW t \in Seq(S)
  PROVE  ToSet(s \o t) = ToSet(s) \union ToSet(t)
<1>1. /\ DOMAIN s = 1 .. Len(s) /\ DOMAIN t = 1 .. Len(t)
      /\ DOMAIN (s \o t) = 1 .. Len(s) + Len(t)
      /\ Len(s) \in Nat /\ Len(t) \in Nat
  OBVIOUS
<1>2. /\ \A i \in 1 .. Len(s) : (s \o t)[i] = s[i]
      /\ \A i \in 1 .. Len(t) : (s \o t)[Len(s) + i] = t[i]
  OBVIOUS
<1>3. \A i \in 1 .. Len(s) + Len(t) :
        \/ i \in 1 .. Len(s)
        \/ i - Len(s) \in 1 .. Len(t) /\ i = Len(s) + (i - Len(s))
  BY <1>1
<1>4. ToSet(s \o t) \subseteq ToSet(s) \union ToSet(t)
  BY <1>1, <1>2, <1>3 DEF ToSet
<1>5. ToSet(s) \union ToSet(t) \subseteq ToSet(s \o t)
  <2>1. \A i \in 1 .. Len(s) : i \in 1 .. Len(s) + Len(t)
    BY <1>1
  <2>2. \A i \in 1 .. Len(t) : Len(s) + i \in 1 .. Len(s) + Len(t)
    BY <1>1
  <2> QED BY <1>1, <1>2, <2>1, <2>2 DEF ToSet
<1> QED BY <1>4, <1>5

-----------------------------------------------------------------------------
(* The inductive invariant.                                                *)

Ascends(s) == \A i, j \in DOMAIN s : i < j => s[i] < s[j]

(* The queue holds messages that were reported, in order.                  *)
QueueInOrder ==
  /\ Ascends(q)
  /\ \A m \in ToSet(q) : m <= reported
  /\ \A n \in Printed : n <= reported
  /\ \A m \in Messages : m > reported => value[m] = "none"

(* A message is printed, rejected or still in the queue.                   *)
NoneIsLost ==
  /\ \A m \in Messages : value[m] # "none" => m \in ToSet(q) \/ Accounted(m)
  /\ \A m \in Messages : value[m] = "unsettled" => m \in ToSet(q)

(* A thread that does not wait for its console has nothing to print, and   *)
(* accepts nothing any more.                                               *)
NothingToPrint ==
  /\ console \in registered
  /\ shutdown.pc \in {"waiting", "done"} /\ console \notin shutdown.wait => q = <<>> /\ disposed
  /\ shutdown.pc = "done" => shutdown.wait = {}
  /\ closed => shutdown.pc = "done"

(* Nothing but profiles is sent after the end.                             *)
ExitIsLast ==
  \A i \in DOMAIN output : output[i] = exited =>
    shutdown.pc = "done" /\ \A j \in i + 1 .. Len(output) : output[j] \in Saves

(* A page that does not wait for the console has no message in the queue.  *)
PagesArePrinted ==
  /\ \A g \in Pages : IF clears[g].pc = "idle" THEN clears[g].wait = {} ELSE g < page
  /\ shutdown.pc = "idle" =>
       \A g \in Pages : clears[g].pc = "waiting" /\ console \notin clears[g].wait =>
         \A m \in ToSet(q) : origin[m] # g

Inv ==
  /\ TypeOK
  /\ QueueInOrder
  /\ PrintedInOrder
  /\ NoneIsLost
  /\ NothingToPrint
  /\ ExitIsLast
  /\ PagesArePrinted

-----------------------------------------------------------------------------
(* The queue.                                                              *)

(* The recursive function in WithoutRejected.                              *)
LEMMA WithoutRejectedRecursion ==
  ASSUME NEW s \in Seq(Messages), NEW val
  PROVE  \E upTo : /\ WithoutRejected(s, val) = upTo[Len(s)]
                   /\ upTo[0] = <<>>
                   /\ \A i \in 1 .. Len(s) :
                        upTo[i] = IF val[s[i]] = "rejected" THEN upTo[i - 1]
                                  ELSE Append(upTo[i - 1], s[i])
<1> DEFINE Body(f, i) == IF i = 0 THEN <<>>
                         ELSE IF val[s[i]] = "rejected" THEN f[i - 1]
                         ELSE Append(f[i - 1], s[i])
           G == {n \in 0 .. Len(s) : \E f : f = [i \in 0 .. n |-> Body(f, i)]}
<1>0. Len(s) \in Nat
  OBVIOUS
<1>1. 0 \in G
  <2> DEFINE f == [i \in 0 .. 0 |-> <<>>]
  <2>1. f = [i \in 0 .. 0 |-> Body(f, i)]
    OBVIOUS
  <2> HIDE DEF f
  <2>2. \E h : h = [i \in 0 .. 0 |-> Body(h, i)]
    BY <2>1
  <2> QED BY <1>0, <2>2
<1>2. ASSUME NEW n \in 0 .. Len(s), n \in G, n < Len(s)
      PROVE  n + 1 \in G
  <2>1. PICK f : f = [i \in 0 .. n |-> Body(f, i)]
    BY <1>2
  <2> DEFINE g == [i \in 0 .. n + 1 |-> IF i <= n THEN f[i] ELSE Body(f, n + 1)]
  <2>2. ASSUME NEW i \in 0 .. n + 1
        PROVE  g[i] = Body(g, i)
    <3>1. CASE i = 0
      BY <2>1, <3>1
    <3>2. CASE i # 0
      <4>1. i - 1 \in 0 .. n /\ g[i - 1] = f[i - 1]
        BY <3>2
      <4>2. g[i] = Body(f, i)
        <5>1. CASE i <= n
          <6>1. i \in 0 .. n
            BY <5>1
          <6> QED BY <2>1, <5>1, <6>1
        <5>2. CASE i = n + 1
          BY <5>2
        <5> QED BY <5>1, <5>2
      <4> QED BY <3>2, <4>1, <4>2
    <3> QED BY <3>1, <3>2
  <2>3. g = [i \in 0 .. n + 1 |-> Body(g, i)]
    BY <2>2
  <2>4. n + 1 \in 0 .. Len(s)
    BY <1>0, <1>2
  <2> QED BY <2>3, <2>4
<1>3. Len(s) \in G
  <2> HIDE DEF G
  <2>1. \A i \in 0 .. Len(s) : i \in G
    BY <1>0, <1>1, <1>2, InductionUpTo
  <2> QED BY <1>0, <2>1
<1>4. PICK f : f = [i \in 0 .. Len(s) |-> Body(f, i)]
  BY <1>3
<1> DEFINE upTo == CHOOSE g : g = [i \in 0 .. Len(s) |-> Body(g, i)]
<1>5. upTo = [i \in 0 .. Len(s) |-> Body(upTo, i)]
  BY <1>4
<1>6. WithoutRejected(s, val) = upTo[Len(s)]
  BY DEF WithoutRejected
<1>7. \A i \in 0 .. Len(s) : upTo[i] = Body(upTo, i)
  BY <1>5
<1> HIDE DEF upTo
<1> QED BY <1>0, <1>6, <1>7

(* A later message may be appended.                                        *)
LEMMA AscendsAppend ==
  ASSUME NEW s \in Seq(Messages), NEW x \in Messages, Ascends(s), \A m \in ToSet(s) : m < x
  PROVE  Ascends(Append(s, x))
<1>1. DOMAIN Append(s, x) = 1 .. Len(s) + 1 /\ DOMAIN s = 1 .. Len(s) /\ Len(s) \in Nat
  OBVIOUS
<1>2. /\ Append(s, x)[Len(s) + 1] = x
      /\ \A i \in 1 .. Len(s) : Append(s, x)[i] = s[i]
  OBVIOUS
<1>3. \A i \in 1 .. Len(s) : s[i] < x
  BY <1>1 DEF ToSet
<1>4. ASSUME NEW i \in 1 .. Len(s) + 1, NEW j \in 1 .. Len(s) + 1, i < j
      PROVE  Append(s, x)[i] < Append(s, x)[j]
  <2>1. i \in 1 .. Len(s)
    BY <1>1, <1>4
  <2>2. j \in 1 .. Len(s) \/ j = Len(s) + 1
    BY <1>1
  <2> QED BY <1>1, <1>2, <1>3, <1>4, <2>1, <2>2 DEF Ascends
<1> QED BY <1>1, <1>4 DEF Ascends

(* What is printed is in order, and nothing but what was rejected is left  *)
(* out.                                                                    *)
LEMMA WithoutRejectedKeeps ==
  ASSUME NEW s \in Seq(Messages), Ascends(s), NEW val
  PROVE  /\ WithoutRejected(s, val) \in Seq(Messages)
         /\ Ascends(WithoutRejected(s, val))
         /\ ToSet(WithoutRejected(s, val)) = {m \in ToSet(s) : val[m] # "rejected"}
<1>0. Len(s) \in Nat /\ DOMAIN s = 1 .. Len(s) /\ \A i \in 1 .. Len(s) : s[i] \in Messages
  OBVIOUS
<1>1. PICK upTo : /\ WithoutRejected(s, val) = upTo[Len(s)]
                  /\ upTo[0] = <<>>
                  /\ \A i \in 1 .. Len(s) :
                       upTo[i] = IF val[s[i]] = "rejected" THEN upTo[i - 1]
                                 ELSE Append(upTo[i - 1], s[i])
  BY WithoutRejectedRecursion
<1> DEFINE Kept(n) == {s[i] : i \in {j \in 1 .. n : val[s[j]] # "rejected"}}
           G == {n \in 0 .. Len(s) : /\ upTo[n] \in Seq(Messages)
                                     /\ Ascends(upTo[n])
                                     /\ ToSet(upTo[n]) = Kept(n)}
<1>2. 0 \in G
  <2>1. <<>> \in Seq(Messages) /\ Ascends(<<>>) /\ ToSet(<<>>) = {}
    BY DEF Ascends, ToSet
  <2>2. Kept(0) = {}
    OBVIOUS
  <2> HIDE DEF Kept
  <2>3. upTo[0] \in Seq(Messages) /\ Ascends(upTo[0]) /\ ToSet(upTo[0]) = Kept(0)
    BY <1>1, <2>1, <2>2
  <2> QED BY <1>0, <2>3
<1>3. ASSUME NEW n \in 0 .. Len(s), n \in G, n < Len(s)
      PROVE  n + 1 \in G
  <2>0. n + 1 \in 1 .. Len(s) /\ (n + 1) - 1 = n /\ n + 1 \in 0 .. Len(s)
    BY <1>0, <1>3
  <2>1. 1 .. n + 1 = (1 .. n) \union {n + 1} /\ \A i \in 1 .. n : i \in 1 .. Len(s) /\ i < n + 1
    BY <1>0, <1>3
  <2>2. CASE val[s[n + 1]] = "rejected"
    <3>1. upTo[n + 1] = upTo[n]
      BY <1>1, <2>0, <2>2
    <3>2. Kept(n + 1) = Kept(n)
      BY <2>1, <2>2
    <3> QED BY <1>3, <2>0, <3>1, <3>2
  <2>3. CASE val[s[n + 1]] # "rejected"
    <3>1. upTo[n + 1] = Append(upTo[n], s[n + 1])
      BY <1>1, <2>0, <2>3
    <3>2. Kept(n + 1) = Kept(n) \union {s[n + 1]}
      BY <2>1, <2>3
    <3>3. upTo[n] \in Seq(Messages) /\ s[n + 1] \in Messages
      BY <1>0, <1>3, <2>0
    <3>4. \A m \in ToSet(upTo[n]) : m < s[n + 1]
      <4>1. \A i \in 1 .. n : s[i] < s[n + 1]
        BY <1>0, <2>0, <2>1 DEF Ascends
      <4> QED BY <1>3, <4>1
    <3>5. upTo[n + 1] \in Seq(Messages) /\ Ascends(upTo[n + 1])
      BY <1>3, <3>1, <3>3, <3>4, AscendsAppend
    <3>6. ToSet(upTo[n + 1]) = Kept(n + 1)
      <4>1. ToSet(Append(upTo[n], s[n + 1])) = ToSet(upTo[n]) \union {s[n + 1]}
        BY <3>3, SetOfAppend
      <4>2. ToSet(upTo[n]) = Kept(n)
        BY <1>3
      <4> HIDE DEF Kept
      <4> QED BY <3>1, <3>2, <4>1, <4>2
    <3> HIDE DEF Kept
    <3> QED BY <2>0, <3>5, <3>6
  <2> QED BY <2>2, <2>3
<1>4. Len(s) \in G
  <2> HIDE DEF G
  <2>1. \A i \in 0 .. Len(s) : i \in G
    BY <1>0, <1>2, <1>3, InductionUpTo
  <2> QED BY <1>0, <2>1
<1>5. Kept(Len(s)) = {m \in ToSet(s) : val[m] # "rejected"}
  BY <1>0 DEF ToSet
<1> QED BY <1>1, <1>4, <1>5

(* What process() takes from the queue is the part before the first        *)
(* message without its text.                                               *)
LEMMA SettledPrefixIsPrefix ==
  ASSUME NEW s \in Seq(Messages), NEW val
  PROVE  \E k \in 0 .. Len(s) : /\ SettledPrefix(s, val) = SubSeq(s, 1, k)
                                /\ \A i \in 1 .. k : val[s[i]] # "unsettled"
<1> DEFINE unsettled == {i \in DOMAIN s : val[s[i]] = "unsettled"}
<1>0. Len(s) \in Nat /\ DOMAIN s = 1 .. Len(s)
  OBVIOUS
<1>1. CASE unsettled = {}
  <2>1. SettledPrefix(s, val) = SubSeq(s, 1, Len(s))
    BY <1>1 DEF SettledPrefix
  <2>2. \A i \in 1 .. Len(s) : val[s[i]] # "unsettled"
    BY <1>0, <1>1
  <2>3. Len(s) \in 0 .. Len(s)
    BY <1>0
  <2> HIDE DEF unsettled
  <2> QED BY <2>1, <2>2, <2>3
<1>2. CASE unsettled # {}
  <2>1. unsettled \in SUBSET Nat
    BY <1>0
  <2>2. \E m \in unsettled : \A y \in unsettled : m <= y
    <3> HIDE DEF unsettled
    <3> QED BY <1>2, <2>1, SmallestNumber
  <2>3. Min(unsettled) \in unsettled /\ \A y \in unsettled : Min(unsettled) <= y
    <3> HIDE DEF unsettled
    <3> QED BY <2>2 DEF Min
  <2> DEFINE k == Min(unsettled) - 1
  <2>4. SettledPrefix(s, val) = SubSeq(s, 1, k)
    BY <1>2 DEF SettledPrefix
  <2>5. k \in 0 .. Len(s) /\ \A i \in 1 .. k : i \in DOMAIN s /\ i < Min(unsettled)
    <3>1. Min(unsettled) \in 1 .. Len(s)
      BY <1>0, <2>3
    <3> HIDE DEF unsettled
    <3> QED BY <1>0, <3>1
  <2>6. \A i \in 1 .. k : val[s[i]] # "unsettled"
    <3> SUFFICES ASSUME NEW i \in 1 .. k, i \in unsettled
                 PROVE  FALSE
      BY <2>5
    <3>1. Min(unsettled) <= i /\ i < Min(unsettled) /\ Min(unsettled) \in Nat /\ i \in Nat
      BY <2>1, <2>3, <2>5
    <3> QED BY <3>1
  <2> HIDE DEF k
  <2> QED BY <2>4, <2>5, <2>6
<1> QED BY <1>1, <1>2

(* What a step of process() prints and what it leaves in the queue.        *)
LEMMA EmitSplits ==
  ASSUME NEW s \in Seq(Messages), Ascends(s), NEW val, Emit(s, val)
  PROVE  \E printed \in Seq(Messages) :
           /\ Send(printed)
           /\ Ascends(printed)
           /\ q' \in Seq(Messages) /\ Ascends(q')
           /\ waiting' = (q' # <<>>)
           /\ ToSet(printed) \subseteq ToSet(s) /\ ToSet(q') \subseteq ToSet(s)
           /\ \A m \in ToSet(printed), n \in ToSet(q') : m < n
           /\ \A m \in ToSet(printed) : val[m] # "rejected"
           /\ \A m \in ToSet(s) :
                \/ m \in ToSet(q')
                \/ val[m] # "unsettled" /\ (m \in ToSet(printed) \/ val[m] = "rejected")
<1>0. Len(s) \in Nat /\ DOMAIN s = 1 .. Len(s) /\ \A i \in 1 .. Len(s) : s[i] \in Messages
  OBVIOUS
<1>1. PICK k \in 0 .. Len(s) : /\ SettledPrefix(s, val) = SubSeq(s, 1, k)
                               /\ \A i \in 1 .. k : val[s[i]] # "unsettled"
  BY SettledPrefixIsPrefix
<1> DEFINE settled == SubSeq(s, 1, k)
           rest == SubSeq(s, k + 1, Len(s))
           printed == WithoutRejected(settled, val)
<1>2. /\ settled \in Seq(Messages) /\ Len(settled) = k /\ DOMAIN settled = 1 .. k
      /\ \A i \in 1 .. k : settled[i] = s[i]
  BY <1>0
<1>3. /\ rest \in Seq(Messages) /\ DOMAIN rest = 1 .. Len(s) - k
      /\ \A i \in 1 .. Len(s) - k : rest[i] = s[k + i]
  BY <1>0
<1>4. Send(printed) /\ q' = rest /\ waiting' = (rest # <<>>)
  BY <1>1, <1>2 DEF Emit
<1> HIDE DEF settled, rest
<1>5. Ascends(settled)
  BY <1>0, <1>2 DEF Ascends
<1>6. Ascends(rest)
  <2> SUFFICES ASSUME NEW i \in 1 .. Len(s) - k, NEW j \in 1 .. Len(s) - k, i < j
               PROVE  rest[i] < rest[j]
    BY <1>3 DEF Ascends
  <2>1. k + i \in 1 .. Len(s) /\ k + j \in 1 .. Len(s) /\ k + i < k + j
    BY <1>0
  <2> QED BY <1>0, <1>3, <2>1 DEF Ascends
<1>7. /\ printed \in Seq(Messages) /\ Ascends(printed)
      /\ ToSet(printed) = {m \in ToSet(settled) : val[m] # "rejected"}
  BY <1>2, <1>5, WithoutRejectedKeeps
<1> HIDE DEF printed
<1>8. ToSet(settled) = {s[i] : i \in 1 .. k} /\ ToSet(rest) = {s[k + i] : i \in 1 .. Len(s) - k}
  <2>1. \A m : m \in ToSet(settled) <=> \E i \in 1 .. k : m = s[i]
    BY <1>2 DEF ToSet
  <2>2. \A m : m \in ToSet(rest) <=> \E i \in 1 .. Len(s) - k : m = s[k + i]
    BY <1>3 DEF ToSet
  <2> QED BY <2>1, <2>2
<1>9. ToSet(settled) \subseteq ToSet(s) /\ ToSet(rest) \subseteq ToSet(s)
  <2>1. \A i \in 1 .. k : i \in 1 .. Len(s)
    BY <1>0
  <2>2. \A i \in 1 .. Len(s) - k : k + i \in 1 .. Len(s)
    BY <1>0
  <2> QED BY <1>0, <1>8, <2>1, <2>2 DEF ToSet
<1>10. \A m \in ToSet(settled), n \in ToSet(rest) : m < n
  <2> SUFFICES ASSUME NEW i \in 1 .. k, NEW j \in 1 .. Len(s) - k
               PROVE  s[i] < s[k + j]
    BY <1>8
  <2>1. i \in 1 .. Len(s) /\ k + j \in 1 .. Len(s) /\ i < k + j
    BY <1>0
  <2> QED BY <1>0, <2>1 DEF Ascends
<1>11. \A m \in ToSet(s) : m \in ToSet(settled) \/ m \in ToSet(rest)
  <2> SUFFICES ASSUME NEW i \in 1 .. Len(s)
               PROVE  s[i] \in ToSet(settled) \/ s[i] \in ToSet(rest)
    BY <1>0 DEF ToSet
  <2>1. CASE i <= k
    BY <1>8, <2>1
  <2>2. CASE i > k
    <3>1. i - k \in 1 .. Len(s) - k /\ k + (i - k) = i
      BY <1>0, <2>2
    <3> QED BY <1>8, <3>1
  <2> QED BY <1>0, <2>1, <2>2
<1>12. \A m \in ToSet(settled) : val[m] # "unsettled"
  BY <1>1, <1>8
<1> QED BY <1>3, <1>4, <1>6, <1>7, <1>9, <1>10, <1>11, <1>12

(* Sending messages, if anything is sent.                                  *)
LEMMA SendAppends ==
  ASSUME TypeOK, NEW events \in Seq(Messages \union {exited} \union Saves), Send(events)
  PROVE  /\ output' \in Seq(Messages \union {exited} \union Saves)
         /\ closed => output' = output
         /\ ~closed => /\ output' = output \o events
                       /\ ToSet(output') = ToSet(output) \union ToSet(events)
<1>1. output \in Seq(Messages \union {exited} \union Saves)
  BY DEF TypeOK
<1>2. ToSet(output \o events) = ToSet(output) \union ToSet(events)
  BY <1>1, SetOfConcat
<1> QED BY <1>1, <1>2 DEF Send

-----------------------------------------------------------------------------
(* A step of the queue: messages N are added, some at its head are         *)
(* printed.                                                                *)
QueueStep(N, printed) ==
  /\ printed \in Seq(Messages) /\ Send(printed) /\ Ascends(printed)
  /\ q' \in Seq(Messages) /\ Ascends(q')
  /\ waiting' \in BOOLEAN /\ (q' # <<>> => waiting')
  /\ ToSet(printed) \union ToSet(q') \subseteq ToSet(q) \union N
  /\ \A m \in ToSet(printed), n \in ToSet(q') : m < n
  /\ \A m \in ToSet(printed) : value'[m] # "rejected"
  /\ \A m \in ToSet(q) \union N :
       \/ m \in ToSet(q')
       \/ value'[m] # "unsettled" /\ (m \in ToSet(printed) \/ value'[m] = "rejected")

(* A step that prints nothing.                                             *)
LEMMA NothingPrinted ==
  /\ <<>> \in Seq(Messages) /\ Ascends(<<>>) /\ ToSet(<<>>) = {}
  /\ TypeOK /\ output' = output => Send(<<>>)
<1>1. output \in Seq(Messages \union {exited} \union Saves) => output \o <<>> = output
  OBVIOUS
<1> QED BY <1>1 DEF Ascends, ToSet, Send, TypeOK

(* Reporting and processing are steps of the queue.                        *)
LEMMA ReportStep ==
  ASSUME TypeOK, QueueInOrder, Report
  PROVE  /\ reported' \in Messages /\ reported' = reported + 1
         /\ \/ /\ value' = value
               /\ QueueStep({}, <<>>) /\ UNCHANGED <<q, output>>
            \/ /\ ~disposed
               /\ \E v \in {"unsettled", "ready"} : value' = [value EXCEPT ![reported'] = v]
               /\ \E printed : QueueStep({reported'}, printed)
<1> DEFINE m == reported'
<1>0. m \in Messages /\ m = reported + 1 /\ reported \in Nat
  BY SessionOutputAssumption DEF Report, TypeOK, Messages
<1>q. q \in Seq(Messages) /\ Ascends(q) /\ \A n \in ToSet(q) : n < m
  <2>1. q \in Seq(Messages) /\ Ascends(q) /\ \A n \in ToSet(q) : n <= reported
    BY DEF TypeOK, QueueInOrder
  <2>2. \A n \in ToSet(q) : n \in Nat
    <3>1. \A i \in DOMAIN q : q[i] \in Messages
      BY <2>1
    <3>2. \A n \in ToSet(q) : n \in Messages
      BY <3>1 DEF ToSet
    <3> QED BY <3>2, SessionOutputAssumption DEF Messages
  <2> QED BY <1>0, <2>1, <2>2
<1>1. CASE UNCHANGED <<value, q, waiting, output>>
  <2>1. Send(<<>>)
    BY <1>1, NothingPrinted
  <2>2. waiting' \in BOOLEAN /\ (q' # <<>> => waiting')
    BY <1>1 DEF TypeOK
  <2>3. \A n \in ToSet(q) : n \in ToSet(q')
    BY <1>1
  <2> QED BY <1>0, <1>1, <1>q, <2>1, <2>2, <2>3, NothingPrinted DEF QueueStep
<1>2. ASSUME ~disposed, NEW v \in {"unsettled", "ready"}, value' = [value EXCEPT ![m] = v],
             IF q = <<>> THEN Emit(<<m>>, value')
             ELSE q' = Append(q, m) /\ UNCHANGED <<waiting, output>>
      PROVE  \E printed : QueueStep({m}, printed)
  <2>1. CASE q = <<>>
    <3>1. <<m>> \in Seq(Messages) /\ Ascends(<<m>>) /\ ToSet(<<m>>) = {m} /\ ToSet(q) = {}
      BY <1>0, <2>1 DEF Ascends, ToSet
    <3>2. Emit(<<m>>, value')
      BY <1>2, <2>1
    <3> HIDE DEF m
    <3>3. PICK printed \in Seq(Messages) :
           /\ Send(printed)
           /\ Ascends(printed)
           /\ q' \in Seq(Messages) /\ Ascends(q')
           /\ waiting' = (q' # <<>>)
           /\ ToSet(printed) \subseteq ToSet(<<m>>) /\ ToSet(q') \subseteq ToSet(<<m>>)
           /\ \A x \in ToSet(printed), n \in ToSet(q') : x < n
           /\ \A x \in ToSet(printed) : value'[x] # "rejected"
           /\ \A x \in ToSet(<<m>>) :
                \/ x \in ToSet(q')
                \/ value'[x] # "unsettled" /\ (x \in ToSet(printed) \/ value'[x] = "rejected")
      BY <3>1, <3>2, EmitSplits
    <3> QED BY <3>1, <3>3 DEF QueueStep
  <2>2. CASE q # <<>>
    <3>1. q' = Append(q, m) /\ UNCHANGED <<waiting, output>>
      BY <1>2, <2>2
    <3>2. q' \in Seq(Messages) /\ Ascends(q') /\ ToSet(q') = ToSet(q) \union {m}
      BY <1>0, <1>q, <3>1, AscendsAppend, SetOfAppend
    <3>3. waiting' \in BOOLEAN /\ waiting'
      BY <2>2, <3>1 DEF TypeOK
    <3>4. Send(<<>>)
      BY <3>1, NothingPrinted
    <3> QED BY <3>2, <3>3, <3>4, NothingPrinted DEF QueueStep
  <2> QED BY <2>1, <2>2
<1> QED BY <1>0, <1>1, <1>2 DEF Report

(* Processing the queue prints its settled head and changes no value.      *)
LEMMA ProcessStep ==
  ASSUME TypeOK, QueueInOrder, Process
  PROVE  value' = value /\ \E printed : QueueStep({}, printed)
<1>1. q \in Seq(Messages) /\ Ascends(q) /\ Emit(q, value) /\ value' = value
  BY DEF TypeOK, QueueInOrder, Process
<1>2. PICK printed \in Seq(Messages) :
       /\ Send(printed)
       /\ Ascends(printed)
       /\ q' \in Seq(Messages) /\ Ascends(q')
       /\ waiting' = (q' # <<>>)
       /\ ToSet(printed) \subseteq ToSet(q) /\ ToSet(q') \subseteq ToSet(q)
       /\ \A x \in ToSet(printed), n \in ToSet(q') : x < n
       /\ \A x \in ToSet(printed) : value[x] # "rejected"
       /\ \A x \in ToSet(q) :
            \/ x \in ToSet(q')
            \/ value[x] # "unsettled" /\ (x \in ToSet(printed) \/ value[x] = "rejected")
  BY <1>1, EmitSplits
<1> QED BY <1>1, <1>2 DEF QueueStep

-----------------------------------------------------------------------------
(* The types.                                                              *)

LEMMA TypeInit == ASSUME Init PROVE TypeOK
<1> USE SessionOutputAssumption DEF Init
<1>1. /\ page \in Pages /\ reported \in 0 .. MaxMessages
      /\ origin \in [Messages -> Pages]
      /\ value \in [Messages -> {"none", "unsettled", "ready", "rejected"}]
  BY DEF Pages
<1>2. /\ q \in Seq(Messages) /\ (q # <<>> => waiting)
      /\ output \in Seq(Messages \union {exited} \union Saves)
  OBVIOUS
<1>3. waiting \in BOOLEAN /\ disposed \in BOOLEAN /\ isDirty \in BOOLEAN /\ closed \in BOOLEAN
  OBVIOUS
<1>4. /\ registered \subseteq Participants /\ removed \subseteq Pages
      /\ save \in [Saves -> {"none", "saving", "saved", "failed"}]
  BY DEF Participants
<1>5. clears \in [Pages -> Awaits] /\ shutdown \in Awaits
  BY DEF Awaits, Await
<1> QED BY <1>1, <1>2, <1>3, <1>4, <1>5 DEF TypeOK

(* Who awaits participants.                                                *)
LEMMA AwaitsTypes ==
  ASSUME TypeOK
  PROVE  /\ CallParticipants \in Awaits
         /\ \A a \in Awaits : \A p : Settled(a, p) \in Awaits /\ Rejected(a, p) \in Awaits
         /\ \A a \in Awaits : \A p : Settled(a, p).pc = a.pc /\ Settled(a, p).wait = a.wait \ {p}
<1>1. CallParticipants \in Awaits
  BY DEF TypeOK, CallParticipants, Busy, Await, Awaits
<1>2. ASSUME NEW a \in Awaits, NEW p
      PROVE  /\ Settled(a, p) \in Awaits /\ Rejected(a, p) \in Awaits
             /\ Settled(a, p).pc = a.pc /\ Settled(a, p).wait = a.wait \ {p}
  BY DEF Settled, Rejected, Await, Awaits
<1> QED BY <1>1, <1>2

(* Only who waited for it is rejected.                                     *)
LEMMA RejectedWaited ==
  ASSUME NEW a \in Awaits, NEW p
  PROVE  \/ Rejected(a, p) = a
         \/ p \in a.wait /\ Rejected(a, p).pc = "rejected"
<1>1. CASE p \in a.wait
  <2>1. Rejected(a, p) = [pc |-> "rejected", wait |-> a.wait \ {p}]
    BY <1>1 DEF Rejected, Await
  <2> QED BY <1>1, <2>1
<1>2. CASE p \notin a.wait
  BY <1>2 DEF Rejected
<1> QED BY <1>1, <1>2

(* The types of what a step of the queue changes.                          *)
LEMMA QueueTypes ==
  ASSUME TypeOK, NEW N, NEW printed, QueueStep(N, printed)
  PROVE  /\ q' \in Seq(Messages)
         /\ waiting' \in BOOLEAN /\ (q' # <<>> => waiting')
         /\ output' \in Seq(Messages \union {exited} \union Saves)
<1>1. printed \in Seq(Messages) /\ Send(printed)
  BY DEF QueueStep
<1>2. printed \in Seq(Messages \union {exited} \union Saves)
  BY <1>1
<1> QED BY <1>1, <1>2, SendAppends DEF QueueStep

(* The types of what participants that are done or fail change.            *)
LEMMA ParticipantTypes ==
  ASSUME TypeOK, NEW p, ParticipantDone(p) \/ ParticipantFails(p)
  PROVE  clears' \in [Pages -> Awaits] /\ shutdown' \in Awaits
  BY AwaitsTypes DEF TypeOK, ParticipantDone, ParticipantFails

(* Every step keeps the types.                                             *)
LEMMA TypeNext ==
  ASSUME TypeOK, QueueInOrder, [Next]_vars
  PROVE  TypeOK'
<1> USE DEF pageVars, queueVars
<1>1. ASSUME Report PROVE TypeOK'
  <2>1. /\ reported' \in 0 .. MaxMessages
        /\ value' \in [Messages -> {"none", "unsettled", "ready", "rejected"}]
        /\ \E N, printed : QueueStep(N, printed)
    <3>1. /\ reported' \in Messages
          /\ \/ value' = value /\ QueueStep({}, <<>>)
             \/ /\ \E v \in {"unsettled", "ready"} : value' = [value EXCEPT ![reported'] = v]
                /\ \E printed : QueueStep({reported'}, printed)
      BY <1>1, ReportStep
    <3>2. reported' \in 0 .. MaxMessages
      BY <3>1, SessionOutputAssumption DEF Messages
    <3>3. value' \in [Messages -> {"none", "unsettled", "ready", "rejected"}]
      BY <3>1 DEF TypeOK
    <3> QED BY <3>1, <3>2, <3>3
  <2>2. /\ q' \in Seq(Messages)
        /\ waiting' \in BOOLEAN /\ (q' # <<>> => waiting')
        /\ output' \in Seq(Messages \union {exited} \union Saves)
    BY <2>1, QueueTypes
  <2>3. origin' \in [Messages -> Pages] /\ isDirty' \in BOOLEAN
    BY <1>1 DEF Report, TypeOK
  <2>4. UNCHANGED <<page, disposed, registered, save, clears, shutdown, removed, closed>>
    BY <1>1 DEF Report
  <2> QED BY <2>1, <2>2, <2>3, <2>4 DEF TypeOK
<1>2. ASSUME NEW m \in Messages, Settle(m) PROVE TypeOK'
  BY <1>2 DEF TypeOK, Settle
<1>3. ASSUME Process PROVE TypeOK'
  <2>1. PICK printed : QueueStep({}, printed)
    BY <1>3, ProcessStep
  <2>2. /\ q' \in Seq(Messages)
        /\ waiting' \in BOOLEAN /\ (q' # <<>> => waiting')
        /\ output' \in Seq(Messages \union {exited} \union Saves)
    BY <2>1, QueueTypes
  <2>3. /\ ParticipantDone(console) \/ UNCHANGED <<clears, shutdown>>
        /\ disposed' = disposed \/ disposed' = (disposed \/ console \in shutdown.wait)
    BY <1>3 DEF Process
  <2>4. clears' \in [Pages -> Awaits] /\ shutdown' \in Awaits
    BY <2>3, ParticipantTypes DEF TypeOK
  <2>5. disposed' \in BOOLEAN
    BY <2>3 DEF TypeOK
  <2>6. UNCHANGED <<page, reported, origin, value, isDirty, registered, save, removed, closed>>
    BY <1>3 DEF Process
  <2> QED BY <2>2, <2>4, <2>5, <2>6 DEF TypeOK
<1>4. ASSUME NEW s \in Saves, SaveProfile(s) PROVE TypeOK'
  BY <1>4 DEF TypeOK, Participants, SaveProfile
<1>5. ASSUME NEW s \in Saves, ProfileSaved(s) PROVE TypeOK'
  <2>1. Send(<<s>>) /\ <<s>> \in Seq(Messages \union {exited} \union Saves)
    BY <1>5 DEF ProfileSaved
  <2>2. output' \in Seq(Messages \union {exited} \union Saves)
    BY <2>1, SendAppends
  <2>3. clears' \in [Pages -> Awaits] /\ shutdown' \in Awaits
    BY <1>5, ParticipantTypes DEF ProfileSaved
  <2>4. /\ save' \in [Saves -> {"none", "saving", "saved", "failed"}]
        /\ registered' \subseteq Participants
    BY <1>5 DEF ProfileSaved, TypeOK
  <2>5. UNCHANGED <<page, reported, origin, value, q, waiting, disposed, isDirty, removed, closed>>
    BY <1>5 DEF ProfileSaved
  <2> QED BY <2>2, <2>3, <2>4, <2>5 DEF TypeOK
<1>6. ASSUME NEW s \in Saves, SavingFails(s) PROVE TypeOK'
  <2>1. clears' \in [Pages -> Awaits] /\ shutdown' \in Awaits
    BY <1>6, ParticipantTypes DEF SavingFails
  <2>2. save' \in [Saves -> {"none", "saving", "saved", "failed"}]
    BY <1>6 DEF SavingFails, TypeOK
  <2>3. UNCHANGED <<page, reported, origin, value, q, waiting, disposed, isDirty, output,
                    registered, removed, closed>>
    BY <1>6 DEF SavingFails
  <2> QED BY <2>1, <2>2, <2>3 DEF TypeOK
<1>7. ASSUME ContextsCleared PROVE TypeOK'
  <2>1. Await("waiting", {}) \in Awaits /\ CallParticipants \in Awaits
    BY AwaitsTypes DEF Await, Awaits
  <2>2. clears' \in [Pages -> Awaits]
    BY <1>7, <2>1 DEF ContextsCleared, TypeOK
  <2>3. page' \in Pages
    BY <1>7, SessionOutputAssumption DEF ContextsCleared, TypeOK, Pages
  <2>4. UNCHANGED <<reported, origin, value, q, waiting, disposed, isDirty, output,
                    registered, save, shutdown, removed, closed>>
    BY <1>7 DEF ContextsCleared
  <2> QED BY <2>2, <2>3, <2>4 DEF TypeOK
<1>8. ASSUME NEW g \in Pages, RemoveContexts(g) PROVE TypeOK'
  <2>1. [clears[g] EXCEPT !.pc = "done"] \in Awaits
    BY DEF TypeOK, Awaits
  <2>2. clears' = [clears EXCEPT ![g] = [clears[g] EXCEPT !.pc = "done"]]
    BY <1>8 DEF RemoveContexts
  <2>3. clears' \in [Pages -> Awaits]
    BY <2>1, <2>2 DEF TypeOK
  <2>4. removed' \subseteq Pages
    BY <1>8 DEF RemoveContexts, TypeOK
  <2>5. UNCHANGED <<page, reported, origin, value, q, waiting, disposed, isDirty, output,
                    registered, save, shutdown, closed>>
    BY <1>8 DEF RemoveContexts
  <2> QED BY <2>3, <2>4, <2>5 DEF TypeOK
<1>9. ASSUME Dispose PROVE TypeOK'
  BY <1>9, AwaitsTypes DEF TypeOK, Dispose
<1>10. ASSUME Exit PROVE TypeOK'
  <2>1. Send(<<exited>>) /\ <<exited>> \in Seq(Messages \union {exited} \union Saves)
    BY <1>10 DEF Exit
  <2>2. output' \in Seq(Messages \union {exited} \union Saves)
    BY <2>1, SendAppends
  <2>3. shutdown' \in Awaits
    BY <1>10 DEF Exit, Await, Awaits
  <2>4. q' = <<>> /\ q' \in Seq(Messages) /\ removed' \subseteq Pages /\ disposed' \in BOOLEAN
    BY <1>10 DEF Exit
  <2>5. UNCHANGED <<page, reported, origin, value, waiting, isDirty, registered, save, clears,
                    closed>>
    BY <1>10 DEF Exit
  <2> QED BY <2>2, <2>3, <2>4, <2>5 DEF TypeOK
<1>11. ASSUME Disconnect PROVE TypeOK'
  BY <1>11 DEF TypeOK, Disconnect
<1>12. CASE UNCHANGED vars
  BY <1>12 DEF vars, TypeOK
<1> QED BY <1>1, <1>2, <1>3, <1>4, <1>5, <1>6, <1>7, <1>8, <1>9, <1>10, <1>11, <1>12 DEF Next

-----------------------------------------------------------------------------
(* The order of the queue and of what is printed.                          *)

(* What is sent keeps the order if its messages are later ones.            *)
LEMMA SentInOrder ==
  ASSUME TypeOK, PrintedInOrder,
         NEW events \in Seq(Messages \union {exited} \union Saves), Send(events),
         \A i, j \in DOMAIN events :
           i < j /\ {events[i], events[j]} \subseteq Messages => events[i] < events[j],
         \A n \in Printed, m \in ToSet(events) \intersect Messages : n < m
  PROVE  \A i, j \in DOMAIN output' :
           i < j /\ {output'[i], output'[j]} \subseteq Messages => output'[i] < output'[j]
<1>1. CASE closed
  <2>1. output' = output
    BY <1>1 DEF Send
  <2> QED BY <2>1 DEF PrintedInOrder
<1>2. CASE ~closed
  <2>0. output \in Seq(Messages \union {exited} \union Saves)
    BY DEF TypeOK
  <2> DEFINE l == Len(output)
             k == Len(events)
  <2>1. /\ DOMAIN output = 1 .. l /\ DOMAIN events = 1 .. k /\ DOMAIN output' = 1 .. l + k
        /\ l \in Nat /\ k \in Nat
        /\ \A i \in 1 .. l : output'[i] = output[i]
        /\ \A i \in l + 1 .. l + k : i - l \in 1 .. k /\ output'[i] = events[i - l]
    BY <1>2, <2>0 DEF Send
  <2> HIDE DEF l, k
  <2> SUFFICES ASSUME NEW i \in 1 .. l + k, NEW j \in 1 .. l + k, i < j,
                      output'[i] \in Messages, output'[j] \in Messages
               PROVE  output'[i] < output'[j]
    BY <2>1
  <2>2. CASE j <= l
    <3>1. i \in 1 .. l /\ j \in 1 .. l
      BY <2>1, <2>2
    <3> QED BY <2>1, <3>1 DEF PrintedInOrder
  <2>3. CASE i <= l /\ j > l
    <3>1. i \in 1 .. l /\ j \in l + 1 .. l + k
      BY <2>1, <2>3
    <3>2. output[i] \in Printed /\ events[j - l] \in ToSet(events) \intersect Messages
      BY <2>1, <3>1 DEF Printed, ToSet
    <3> QED BY <2>1, <3>1, <3>2
  <2>4. CASE i > l
    <3>1. i \in l + 1 .. l + k /\ j \in l + 1 .. l + k
      BY <2>1, <2>4
    <3>2. i - l \in 1 .. k /\ j - l \in 1 .. k /\ i - l < j - l
      BY <2>1, <3>1
    <3> QED BY <2>1, <3>1, <3>2
  <2> QED BY <2>1, <2>2, <2>3, <2>4
<1> QED BY <1>1, <1>2

QueueInv == QueueInOrder /\ PrintedInOrder /\ NoneIsLost

(* A step of the queue keeps the order and loses nothing.                  *)
LEMMA QueueStepKeeps ==
  ASSUME TypeOK, QueueInv, NEW N \in SUBSET Messages, NEW printed, QueueStep(N, printed),
         closed => q = <<>> /\ N = {},
         reported' \in Nat, reported <= reported',
         \A m \in N : reported < m /\ m <= reported',
         \A m \in Messages \ N : value'[m] = value[m]
  PROVE  QueueInv'
<1>1. reported \in Nat /\ \A m \in Messages : m \in Nat
  BY SessionOutputAssumption DEF TypeOK, Messages
<1>2. /\ printed \in Seq(Messages) /\ Send(printed) /\ Ascends(printed)
      /\ q' \in Seq(Messages) /\ Ascends(q')
      /\ ToSet(printed) \union ToSet(q') \subseteq ToSet(q) \union N
      /\ \A m \in ToSet(printed), n \in ToSet(q') : m < n
      /\ \A m \in ToSet(q) \union N :
           \/ m \in ToSet(q')
           \/ value'[m] # "unsettled" /\ (m \in ToSet(printed) \/ value'[m] = "rejected")
  BY DEF QueueStep
<1>3. /\ ToSet(q) \subseteq Messages /\ ToSet(q') \subseteq Messages
      /\ ToSet(printed) \subseteq Messages
  <2>1. \A s \in Seq(Messages) : \A i \in DOMAIN s : s[i] \in Messages
    OBVIOUS
  <2>2. q \in Seq(Messages)
    BY DEF TypeOK
  <2> QED BY <1>2, <2>1, <2>2 DEF ToSet
<1>4. Printed' = Printed \union ToSet(printed)
  <2>1. printed \in Seq(Messages \union {exited} \union Saves)
    BY <1>2
  <2>2. CASE closed
    <3>1. ToSet(q) \union N = {}
      BY <2>2 DEF ToSet
    <3>2. output' = output /\ ToSet(printed) = {}
      BY <1>2, <2>2, <3>1 DEF Send
    <3> QED BY <3>2 DEF Printed
  <2>3. CASE ~closed
    <3>1. ToSet(output') = ToSet(output) \union ToSet(printed)
      BY <1>2, <2>1, <2>3, SendAppends
    <3> QED BY <1>3, <3>1 DEF Printed
  <2> QED BY <2>2, <2>3
<1>5. QueueInOrder'
  <2>1. \A m \in ToSet(q) \union N : m <= reported'
    BY <1>1, <1>3 DEF QueueInv, QueueInOrder
  <2>2. \A n \in Printed' : n <= reported'
    <3>1. \A n \in Printed : n <= reported /\ n \in Nat
      BY <1>1 DEF QueueInv, QueueInOrder, Printed
    <3> QED BY <1>1, <1>2, <1>4, <2>1, <3>1
  <2>3. \A m \in Messages : m > reported' => value'[m] = "none"
    BY <1>1 DEF QueueInv, QueueInOrder
  <2> QED BY <1>2, <2>1, <2>2, <2>3 DEF QueueInOrder
<1>6. \A n \in Printed, m \in ToSet(q) \union N : n < m
  <2>1. \A n \in Printed : n <= reported /\ n \in Nat
    BY <1>1 DEF QueueInv, QueueInOrder, Printed
  <2> QED BY <1>1, <2>1 DEF QueueInv, PrintedInOrder
<1>7. PrintedInOrder'
  <2>1. printed \in Seq(Messages \union {exited} \union Saves)
    BY <1>2
  <2>2. \A i, j \in DOMAIN printed :
          i < j /\ {printed[i], printed[j]} \subseteq Messages => printed[i] < printed[j]
    BY <1>2 DEF Ascends
  <2>3. \A n \in Printed, m \in ToSet(printed) \intersect Messages : n < m
    BY <1>2, <1>6
  <2>4. \A i, j \in DOMAIN output' :
          i < j /\ {output'[i], output'[j]} \subseteq Messages => output'[i] < output'[j]
    BY <1>2, <2>1, <2>2, <2>3, SentInOrder DEF QueueInv
  <2>5. \A m \in ToSet(q'), n \in Printed' : n < m
    BY <1>2, <1>4, <1>6
  <2> QED BY <2>4, <2>5 DEF PrintedInOrder
<1>8. NoneIsLost'
  <2>1. \A m \in Messages : value'[m] # "none" => m \in ToSet(q') \/ Accounted(m)'
    <3> SUFFICES ASSUME NEW m \in Messages, value'[m] # "none", m \notin ToSet(q')
                 PROVE  Accounted(m)'
      OBVIOUS
    <3>1. CASE m \in ToSet(q) \union N
      BY <1>2, <1>4, <3>1 DEF Accounted
    <3>2. CASE m \notin ToSet(q) \union N
      <4>1. value'[m] = value[m]
        BY <3>2
      <4>2. Accounted(m)
        BY <3>2, <4>1 DEF QueueInv, NoneIsLost
      <4> QED BY <1>4, <4>1, <4>2 DEF Accounted
    <3> QED BY <3>1, <3>2
  <2>2. \A m \in Messages : value'[m] = "unsettled" => m \in ToSet(q')
    BY <1>2 DEF QueueInv, NoneIsLost
  <2> QED BY <2>1, <2>2 DEF NoneIsLost
<1> QED BY <1>5, <1>7, <1>8 DEF QueueInv

(* Whatever is not a message does not disturb it.                          *)
LEMMA OthersKeepQueue ==
  ASSUME TypeOK, QueueInv, UNCHANGED <<reported, value, q>>,
         NEW events \in Seq(Messages \union {exited} \union Saves), Send(events),
         ToSet(events) \intersect Messages = {}
  PROVE  QueueInv'
<1>1. Printed' = Printed
  <2>1. CASE closed
    BY <2>1 DEF Send, Printed
  <2>2. CASE ~closed
    BY <2>2, SendAppends DEF Printed
  <2> QED BY <2>1, <2>2
<1>2. \A i, j \in DOMAIN events :
        i < j /\ {events[i], events[j]} \subseteq Messages => events[i] < events[j]
  BY DEF ToSet
<1>3. \A i, j \in DOMAIN output' :
        i < j /\ {output'[i], output'[j]} \subseteq Messages => output'[i] < output'[j]
  BY <1>2, SentInOrder DEF QueueInv
<1> QED BY <1>1, <1>3 DEF QueueInv, QueueInOrder, PrintedInOrder, NoneIsLost, Accounted

(* So does every step.                                                     *)
LEMMA QueueNext ==
  ASSUME TypeOK, QueueInv, NothingToPrint, [Next]_vars
  PROVE  QueueInv'
<1> USE DEF pageVars, queueVars
<1>a. closed => q = <<>> /\ disposed
  BY DEF NothingToPrint
<1>b. QueueInOrder
  BY DEF QueueInv
<1>c. UNCHANGED <<reported, value, q, output>> => QueueInv'
  <2> SUFFICES ASSUME UNCHANGED <<reported, value, q, output>> PROVE QueueInv'
    OBVIOUS
  <2>1. <<>> \in Seq(Messages \union {exited} \union Saves) /\ ToSet(<<>>) \intersect Messages = {}
    BY NothingPrinted
  <2>2. Send(<<>>)
    BY NothingPrinted
  <2> QED BY <2>1, <2>2, OthersKeepQueue
<1>d. reported \in Nat /\ \A m \in Messages : m \in Nat
  BY SessionOutputAssumption DEF TypeOK, Messages
<1>1. ASSUME Report PROVE QueueInv'
  <2>1. /\ reported' \in Messages /\ reported' = reported + 1
        /\ \/ /\ value' = value
              /\ QueueStep({}, <<>>) /\ UNCHANGED <<q, output>>
           \/ /\ ~disposed
              /\ \E v \in {"unsettled", "ready"} : value' = [value EXCEPT ![reported'] = v]
              /\ \E printed : QueueStep({reported'}, printed)
    BY <1>1, <1>b, ReportStep
  <2>2. CASE /\ value' = value
             /\ QueueStep({}, <<>>) /\ UNCHANGED <<q, output>>
    <3>1. closed => q = <<>>
      BY <1>a
    <3> QED BY <1>d, <2>1, <2>2, <3>1, QueueStepKeeps
  <2>3. ASSUME ~disposed,
               NEW v \in {"unsettled", "ready"}, value' = [value EXCEPT ![reported'] = v],
               NEW printed, QueueStep({reported'}, printed)
        PROVE  QueueInv'
    <3>1. ~closed
      BY <1>a, <2>3
    <3>2. \A m \in Messages \ {reported'} : value'[m] = value[m]
      BY <2>3 DEF TypeOK
    <3> QED BY <1>d, <2>1, <2>3, <3>1, <3>2, QueueStepKeeps
  <2> QED BY <2>1, <2>2, <2>3
<1>2. ASSUME NEW m \in Messages, Settle(m) PROVE QueueInv'
  <2>1. /\ value[m] = "unsettled"
        /\ \E v \in {"ready", "rejected"} :
             value'[m] = v /\ \A n \in Messages \ {m} : value'[n] = value[n]
        /\ UNCHANGED <<reported, q, output>>
    BY <1>2 DEF Settle, TypeOK
  <2> QED BY <2>1 DEF QueueInv, QueueInOrder, PrintedInOrder, NoneIsLost, Accounted, Printed
<1>3. ASSUME Process PROVE QueueInv'
  <2>1. PICK printed : QueueStep({}, printed)
    BY <1>3, <1>b, ProcessStep
  <2>2. value' = value /\ reported' = reported
    BY <1>3 DEF Process
  <2>3. closed => q = <<>>
    BY <1>a
  <2> QED BY <1>d, <2>1, <2>2, <2>3, QueueStepKeeps
<1>4. ASSUME NEW s \in Saves, SaveProfile(s) PROVE QueueInv'
  BY <1>4, <1>c DEF SaveProfile
<1>5. ASSUME NEW s \in Saves, ProfileSaved(s) PROVE QueueInv'
  <2>1. Send(<<s>>) /\ <<s>> \in Seq(Messages \union {exited} \union Saves)
        /\ UNCHANGED <<reported, value, q>>
    BY <1>5 DEF ProfileSaved
  <2>2. ToSet(<<s>>) \intersect Messages = {}
    BY ParticipantAssumption DEF ToSet
  <2> QED BY <2>1, <2>2, OthersKeepQueue
<1>6. ASSUME NEW s \in Saves, SavingFails(s) PROVE QueueInv'
  BY <1>6, <1>c DEF SavingFails
<1>7. ASSUME ContextsCleared PROVE QueueInv'
  BY <1>7, <1>c DEF ContextsCleared
<1>8. ASSUME NEW g \in Pages, RemoveContexts(g) PROVE QueueInv'
  BY <1>8, <1>c DEF RemoveContexts
<1>9. ASSUME Dispose PROVE QueueInv'
  BY <1>9, <1>c DEF Dispose
<1>10. ASSUME Exit PROVE QueueInv'
  <2>1. Send(<<exited>>) /\ <<exited>> \in Seq(Messages \union {exited} \union Saves)
    BY <1>10 DEF Exit
  <2>2. UNCHANGED <<reported, value, q>>
    BY <1>10 DEF Exit, NothingToPrint
  <2>3. ToSet(<<exited>>) \intersect Messages = {}
    BY ParticipantAssumption DEF ToSet
  <2> QED BY <2>1, <2>2, <2>3, OthersKeepQueue
<1>11. ASSUME Disconnect PROVE QueueInv'
  BY <1>11, <1>c DEF Disconnect
<1>12. CASE UNCHANGED vars
  BY <1>12, <1>c DEF vars
<1> QED BY <1>1, <1>2, <1>3, <1>4, <1>5, <1>6, <1>7, <1>8, <1>9, <1>10, <1>11, <1>12 DEF Next

-----------------------------------------------------------------------------
(* The ends of the thread and of its pages.                                *)

(* What a step of the queue leaves was there or is new.                    *)
LEMMA QueueStepLeaves ==
  ASSUME TypeOK, NEW N, NEW printed, QueueStep(N, printed)
  PROVE  /\ ToSet(q') \subseteq ToSet(q) \union N
         /\ ToSet(printed) \subseteq ToSet(q) \union N
         /\ q' # <<>> => ToSet(q') # {}
         /\ q = <<>> => ToSet(q) = {}
         /\ Send(printed) /\ printed \in Seq(Messages \union {exited} \union Saves)
<1>1. q' \in Seq(Messages) /\ printed \in Seq(Messages)
  BY DEF QueueStep
<1>2. q' # <<>> => 1 \in DOMAIN q'
  BY <1>1
<1>3. printed \in Seq(Messages \union {exited} \union Saves)
  BY <1>1
<1> QED BY <1>2, <1>3 DEF QueueStep, ToSet

(* A step keeps that who does not wait for the console has nothing to print.*)
LEMMA NothingToPrintNext ==
  ASSUME TypeOK, QueueInOrder, NothingToPrint, [Next]_vars
  PROVE  NothingToPrint'
<1> USE DEF pageVars, queueVars
<1>a. console \notin Saves
  BY ParticipantAssumption
<1>1. ASSUME Report PROVE NothingToPrint'
  <2>1. UNCHANGED <<disposed, registered, shutdown, closed>>
    BY <1>1 DEF Report
  <2>2. disposed => q' = q
    BY <1>1 DEF Report
  <2> QED BY <2>1, <2>2 DEF NothingToPrint
<1>2. ASSUME NEW m \in Messages, Settle(m) PROVE NothingToPrint'
  BY <1>2 DEF Settle, NothingToPrint
<1>3. ASSUME Process PROVE NothingToPrint'
  <2>1. PICK printed : QueueStep({}, printed)
    BY <1>3, ProcessStep
  <2>2. q = <<>> => q' = <<>>
    BY <2>1, QueueStepLeaves
  <2>3. UNCHANGED <<registered, closed>>
    BY <1>3 DEF Process
  <2>4. CASE q' = <<>>
    <3>1. /\ shutdown' = Settled(shutdown, console)
          /\ disposed' = (disposed \/ console \in shutdown.wait)
      BY <1>3, <2>4 DEF Process, ParticipantDone
    <3>2. shutdown'.pc = shutdown.pc /\ shutdown'.wait = shutdown.wait \ {console}
      BY <3>1, AwaitsTypes DEF TypeOK
    <3> QED BY <2>3, <2>4, <3>1, <3>2 DEF NothingToPrint
  <2>5. CASE q' # <<>>
    <3>1. UNCHANGED <<shutdown, disposed>>
      BY <1>3, <2>5 DEF Process
    <3> QED BY <2>2, <2>3, <2>5, <3>1 DEF NothingToPrint
  <2> QED BY <2>4, <2>5
<1>4. ASSUME NEW s \in Saves, SaveProfile(s) PROVE NothingToPrint'
  BY <1>4 DEF SaveProfile, NothingToPrint
<1>5. ASSUME NEW s \in Saves, ProfileSaved(s) PROVE NothingToPrint'
  <2>1. shutdown' = Settled(shutdown, s) /\ registered' = registered \ {s}
    BY <1>5 DEF ProfileSaved, ParticipantDone
  <2>2. shutdown'.pc = shutdown.pc /\ shutdown'.wait = shutdown.wait \ {s}
    BY <2>1, AwaitsTypes DEF TypeOK
  <2>3. UNCHANGED <<q, disposed, closed>>
    BY <1>5 DEF ProfileSaved
  <2> QED BY <1>a, <2>1, <2>2, <2>3 DEF NothingToPrint
<1>6. ASSUME NEW s \in Saves, SavingFails(s) PROVE NothingToPrint'
  <2>1. shutdown' = Rejected(shutdown, s)
    BY <1>6 DEF SavingFails, ParticipantFails
  <2>2. \/ shutdown' = shutdown
        \/ s \in shutdown.wait /\ shutdown'.pc = "rejected"
    BY <2>1, RejectedWaited DEF TypeOK
  <2>3. UNCHANGED <<q, disposed, registered, closed>>
    BY <1>6 DEF SavingFails
  <2> QED BY <2>2, <2>3 DEF NothingToPrint
<1>7. ASSUME ContextsCleared PROVE NothingToPrint'
  BY <1>7 DEF ContextsCleared, NothingToPrint
<1>8. ASSUME NEW g \in Pages, RemoveContexts(g) PROVE NothingToPrint'
  BY <1>8 DEF RemoveContexts, NothingToPrint
<1>9. ASSUME Dispose PROVE NothingToPrint'
  BY <1>9 DEF Dispose, NothingToPrint, CallParticipants, Busy, Await
<1>10. ASSUME Exit PROVE NothingToPrint'
  BY <1>10 DEF Exit, NothingToPrint, Await
<1>11. ASSUME Disconnect PROVE NothingToPrint'
  BY <1>11 DEF Disconnect, NothingToPrint
<1>12. CASE UNCHANGED vars
  BY <1>12 DEF vars, NothingToPrint
<1> QED BY <1>1, <1>2, <1>3, <1>4, <1>5, <1>6, <1>7, <1>8, <1>9, <1>10, <1>11, <1>12 DEF Next

(* What may be sent after the thread has exited.                           *)
LEMMA SentAfterExit ==
  ASSUME TypeOK, ExitIsLast,
         NEW events \in Seq(Messages \union {exited} \union Saves), Send(events),
         exited \notin ToSet(events),
         shutdown.pc = "done" => shutdown'.pc = "done" /\ ToSet(events) \subseteq Saves
  PROVE  ExitIsLast'
<1>1. CASE closed
  <2>1. output' = output
    BY <1>1 DEF Send
  <2> QED BY <2>1 DEF ExitIsLast
<1>2. CASE ~closed
  <2>0. output \in Seq(Messages \union {exited} \union Saves)
    BY DEF TypeOK
  <2> DEFINE l == Len(output)
             k == Len(events)
  <2>1. /\ DOMAIN output = 1 .. l /\ DOMAIN events = 1 .. k
        /\ DOMAIN output' = 1 .. l + k /\ Len(output') = l + k
        /\ l \in Nat /\ k \in Nat
        /\ \A i \in 1 .. l : output'[i] = output[i]
        /\ \A i \in l + 1 .. l + k : i - l \in 1 .. k /\ output'[i] = events[i - l]
    BY <1>2, <2>0 DEF Send
  <2>2. \A i \in l + 1 .. l + k : output'[i] \in ToSet(events)
    BY <2>1 DEF ToSet
  <2>3. \A i \in DOMAIN output : output[i] = exited =>
          shutdown.pc = "done" /\ \A j \in i + 1 .. l : output[j] \in Saves
    BY DEF ExitIsLast
  <2> HIDE DEF l, k
  <2> SUFFICES ASSUME NEW i \in 1 .. l + k, output'[i] = exited
               PROVE  /\ shutdown'.pc = "done"
                      /\ \A j \in i + 1 .. l + k : output'[j] \in Saves
    BY <2>1 DEF ExitIsLast
  <2>4. i \in 1 .. l
    <3>1. i \in 1 .. l \/ i \in l + 1 .. l + k
      BY <2>1
    <3> QED BY <2>2, <3>1
  <2>5. shutdown.pc = "done" /\ \A j \in i + 1 .. l : output[j] \in Saves
    BY <2>1, <2>3, <2>4
  <2>6. ASSUME NEW j \in i + 1 .. l + k PROVE output'[j] \in Saves
    <3>1. \/ j \in i + 1 .. l /\ j \in 1 .. l
          \/ j \in l + 1 .. l + k
      BY <2>1, <2>4
    <3> QED BY <2>1, <2>2, <2>5, <3>1
  <2> QED BY <2>5, <2>6
<1> QED BY <1>1, <1>2

(* No step sends a message after the exit but a saved profile.             *)
LEMMA ExitNext ==
  ASSUME TypeOK, QueueInOrder, NothingToPrint, ExitIsLast, [Next]_vars
  PROVE  ExitIsLast'
<1> USE DEF pageVars, queueVars
<1>a. shutdown.pc = "done" => q = <<>> /\ disposed /\ shutdown.wait = {}
  BY DEF NothingToPrint
<1>b. UNCHANGED <<output, shutdown>> => ExitIsLast'
  BY DEF ExitIsLast
<1>c. exited \notin Messages \union Saves
  BY ParticipantAssumption
<1>d. \A s \in Seq(Messages) : ToSet(s) \subseteq Messages
  <2>1. \A s \in Seq(Messages) : \A i \in DOMAIN s : s[i] \in Messages
    OBVIOUS
  <2> QED BY <2>1 DEF ToSet
<1>1. ASSUME Report PROVE ExitIsLast'
  <2>1. shutdown' = shutdown
    BY <1>1 DEF Report
  <2>2. \/ UNCHANGED <<output, shutdown>>
        \/ ~disposed /\ \E printed : QueueStep({reported'}, printed)
    <3>1. \/ /\ value' = value
             /\ QueueStep({}, <<>>) /\ UNCHANGED <<q, output>>
          \/ /\ ~disposed
             /\ \E v \in {"unsettled", "ready"} : value' = [value EXCEPT ![reported'] = v]
             /\ \E printed : QueueStep({reported'}, printed)
      BY <1>1, ReportStep
    <3> QED BY <2>1, <3>1
  <2>3. ASSUME ~disposed, NEW printed, QueueStep({reported'}, printed) PROVE ExitIsLast'
    <3>1. Send(printed) /\ printed \in Seq(Messages \union {exited} \union Saves)
      BY <2>3, QueueStepLeaves
    <3>2. ToSet(printed) \subseteq Messages
      BY <1>d, <2>3 DEF QueueStep
    <3>3. exited \notin ToSet(printed) /\ shutdown.pc # "done"
      BY <1>a, <1>c, <2>3, <3>2
    <3> QED BY <3>1, <3>3, SentAfterExit
  <2> QED BY <1>b, <2>2, <2>3
<1>2. ASSUME NEW m \in Messages, Settle(m) PROVE ExitIsLast'
  BY <1>2, <1>b DEF Settle
<1>3. ASSUME Process PROVE ExitIsLast'
  <2>1. PICK printed : QueueStep({}, printed)
    BY <1>3, ProcessStep
  <2>2. Send(printed) /\ printed \in Seq(Messages \union {exited} \union Saves)
    BY <2>1, QueueStepLeaves
  <2>3. ToSet(printed) \subseteq Messages
    BY <1>d, <2>1 DEF QueueStep
  <2>4. shutdown.pc = "done" => ToSet(printed) = {}
    BY <1>a, <2>1, QueueStepLeaves
  <2>5. shutdown' = Settled(shutdown, console) \/ shutdown' = shutdown
    BY <1>3 DEF Process, ParticipantDone
  <2>6. shutdown'.pc = shutdown.pc
    BY <2>5, AwaitsTypes DEF TypeOK
  <2> QED BY <1>c, <2>2, <2>3, <2>4, <2>6, SentAfterExit
<1>4. ASSUME NEW s \in Saves, SaveProfile(s) PROVE ExitIsLast'
  BY <1>4, <1>b DEF SaveProfile
<1>5. ASSUME NEW s \in Saves, ProfileSaved(s) PROVE ExitIsLast'
  <2>1. Send(<<s>>) /\ <<s>> \in Seq(Messages \union {exited} \union Saves)
    BY <1>5 DEF ProfileSaved
  <2>2. ToSet(<<s>>) = {s}
    BY DEF ToSet
  <2>3. shutdown'.pc = shutdown.pc
    BY <1>5, AwaitsTypes DEF ProfileSaved, ParticipantDone, TypeOK
  <2> QED BY <1>c, <2>1, <2>2, <2>3, SentAfterExit
<1>6. ASSUME NEW s \in Saves, SavingFails(s) PROVE ExitIsLast'
  <2>1. shutdown.pc = "done" => shutdown' = shutdown
    BY <1>6, <1>a DEF SavingFails, ParticipantFails, Rejected
  <2>2. output' = output
    BY <1>6 DEF SavingFails
  <2> QED BY <2>1, <2>2 DEF ExitIsLast
<1>7. ASSUME ContextsCleared PROVE ExitIsLast'
  BY <1>7, <1>b DEF ContextsCleared
<1>8. ASSUME NEW g \in Pages, RemoveContexts(g) PROVE ExitIsLast'
  BY <1>8, <1>b DEF RemoveContexts
<1>9. ASSUME Dispose PROVE ExitIsLast'
  BY <1>9 DEF Dispose, ExitIsLast
<1>10. ASSUME Exit PROVE ExitIsLast'
  <2>1. output \in Seq(Messages \union {exited} \union Saves)
    BY DEF TypeOK
  <2>2. output' = Append(output, exited)
    BY <1>10, <2>1 DEF Exit, Send, NothingToPrint
  <2>3. \A i \in DOMAIN output : output[i] # exited
    BY <1>10 DEF Exit, ExitIsLast
  <2>4. /\ Len(output) \in Nat /\ Len(output') = Len(output) + 1
        /\ DOMAIN output = 1 .. Len(output) /\ DOMAIN output' = 1 .. Len(output) + 1
        /\ \A i \in 1 .. Len(output) : output'[i] = output[i]
    BY <2>1, <2>2
  <2>5. \A i \in DOMAIN output' : output'[i] = exited => i = Len(output')
    BY <2>3, <2>4
  <2>6. shutdown'.pc = "done"
    BY <1>10 DEF Exit, Await
  <2> QED BY <2>4, <2>5, <2>6 DEF ExitIsLast
<1>11. ASSUME Disconnect PROVE ExitIsLast'
  BY <1>11, <1>b DEF Disconnect
<1>12. CASE UNCHANGED vars
  BY <1>12, <1>b DEF vars
<1> QED BY <1>1, <1>2, <1>3, <1>4, <1>5, <1>6, <1>7, <1>8, <1>9, <1>10, <1>11, <1>12 DEF Next

(* A step keeps that a page cleared without waiting has nothing in the queue.*)
LEMMA PagesNext ==
  ASSUME TypeOK, QueueInOrder, NothingToPrint, PagesArePrinted, [Next]_vars
  PROVE  PagesArePrinted'
<1> USE DEF pageVars, queueVars
<1>a. console \notin Saves
  BY ParticipantAssumption
<1>b. UNCHANGED <<clears, shutdown, page, q, origin>> => PagesArePrinted'
  BY DEF PagesArePrinted
<1>1. ASSUME Report PROVE PagesArePrinted'
  <2>1. /\ ToSet(q') \subseteq ToSet(q) \union {reported'}
        /\ reported' = reported + 1 /\ reported' \in Messages
    BY <1>1, ReportStep, QueueStepLeaves
  <2>2. \A m \in ToSet(q) : m # reported'
    BY <2>1, SessionOutputAssumption DEF QueueInOrder, TypeOK
  <2>3. origin'[reported'] = page /\ \A m \in ToSet(q) : origin'[m] = origin[m]
    <3>1. q \in Seq(Messages)
      BY DEF TypeOK
    <3>2. \A i \in DOMAIN q : q[i] \in Messages
      BY <3>1
    <3>3. ToSet(q) \subseteq Messages
      BY <3>2 DEF ToSet
    <3> QED BY <1>1, <2>1, <2>2, <3>3 DEF Report, TypeOK
  <2>4. UNCHANGED <<clears, shutdown, page>>
    BY <1>1 DEF Report
  <2>5. page \in Nat /\ \A g \in Pages : g \in Nat
    BY SessionOutputAssumption DEF TypeOK, Pages
  <2> QED BY <2>1, <2>3, <2>4, <2>5 DEF PagesArePrinted
<1>2. ASSUME NEW m \in Messages, Settle(m) PROVE PagesArePrinted'
  BY <1>2, <1>b DEF Settle
<1>3. ASSUME Process PROVE PagesArePrinted'
  <2>1. PICK printed : QueueStep({}, printed)
    BY <1>3, ProcessStep
  <2>2. ToSet(q') \subseteq ToSet(q)
    BY <2>1, QueueStepLeaves
  <2>3. UNCHANGED <<page, origin>>
    BY <1>3 DEF Process
  <2>4. CASE q' = <<>>
    <3>1. ToSet(q') = {}
      BY <2>4 DEF ToSet
    <3>2. \A g \in Pages : clears'[g] = Settled(clears[g], console)
      BY <1>3, <2>4 DEF Process, ParticipantDone
    <3>3. \A g \in Pages : /\ clears'[g].pc = clears[g].pc
                           /\ clears'[g].wait = clears[g].wait \ {console}
      BY <3>2, AwaitsTypes DEF TypeOK
    <3> QED BY <2>3, <3>1, <3>3 DEF PagesArePrinted
  <2>5. CASE q' # <<>>
    <3>1. UNCHANGED <<clears, shutdown>>
      BY <1>3, <2>5 DEF Process
    <3> QED BY <2>2, <2>3, <3>1 DEF PagesArePrinted
  <2> QED BY <2>4, <2>5
<1>4. ASSUME NEW s \in Saves, SaveProfile(s) PROVE PagesArePrinted'
  BY <1>4, <1>b DEF SaveProfile
<1>5. ASSUME NEW s \in Saves, ProfileSaved(s) PROVE PagesArePrinted'
  <2>1. /\ \A g \in Pages : clears'[g] = Settled(clears[g], s)
        /\ shutdown' = Settled(shutdown, s)
        /\ UNCHANGED <<page, q, origin>>
    BY <1>5 DEF ProfileSaved, ParticipantDone
  <2>2. /\ shutdown'.pc = shutdown.pc
        /\ \A g \in Pages : clears'[g].pc = clears[g].pc /\ clears'[g].wait = clears[g].wait \ {s}
    BY <2>1, AwaitsTypes DEF TypeOK
  <2> QED BY <1>a, <2>1, <2>2 DEF PagesArePrinted
<1>6. ASSUME NEW s \in Saves, SavingFails(s) PROVE PagesArePrinted'
  <2>1. /\ \A g \in Pages : clears'[g] = Rejected(clears[g], s)
        /\ shutdown' = Rejected(shutdown, s)
        /\ UNCHANGED <<page, q, origin>>
    BY <1>6 DEF SavingFails, ParticipantFails
  <2>2. \A g \in Pages : \/ clears'[g] = clears[g]
                         \/ s \in clears[g].wait /\ clears'[g].pc = "rejected"
    BY <2>1, RejectedWaited DEF TypeOK
  <2>3. shutdown' = shutdown \/ shutdown'.pc = "rejected"
    BY <2>1 DEF Rejected, Await
  <2> QED BY <2>1, <2>2, <2>3 DEF PagesArePrinted
<1>7. ASSUME ContextsCleared PROVE PagesArePrinted'
  <2>1. /\ clears'[page] = IF shutdown.pc = "idle" THEN CallParticipants ELSE Await("waiting", {})
        /\ \A g \in Pages \ {page} : clears'[g] = clears[g]
    BY <1>7 DEF ContextsCleared, TypeOK
  <2>2. page' = page + 1 /\ UNCHANGED <<shutdown, q, origin>>
    BY <1>7 DEF ContextsCleared
  <2>3. page \in Nat /\ \A g \in Pages : g \in Nat
    BY SessionOutputAssumption DEF TypeOK, Pages
  <2>4. clears'[page].pc # "idle"
    BY <2>1 DEF CallParticipants, Await
  <2>5. shutdown.pc = "idle" /\ console \notin clears'[page].wait => ToSet(q) = {}
    BY <2>1 DEF CallParticipants, Busy, Await, NothingToPrint, ToSet
  <2> QED BY <2>1, <2>2, <2>3, <2>4, <2>5 DEF PagesArePrinted
<1>8. ASSUME NEW g \in Pages, RemoveContexts(g) PROVE PagesArePrinted'
  <2>1. /\ clears[g].pc = "waiting"
        /\ clears'[g] = [clears[g] EXCEPT !.pc = "done"]
        /\ \A h \in Pages \ {g} : clears'[h] = clears[h]
        /\ UNCHANGED <<shutdown, page, q, origin>>
    BY <1>8 DEF RemoveContexts, TypeOK
  <2>2. clears'[g].pc = "done"
    BY <2>1 DEF TypeOK, Awaits
  <2> QED BY <2>1, <2>2 DEF PagesArePrinted
<1>9. ASSUME Dispose PROVE PagesArePrinted'
  <2>1. shutdown'.pc # "idle" /\ UNCHANGED <<clears, page, q, origin>>
    BY <1>9 DEF Dispose, CallParticipants, Await
  <2> QED BY <2>1 DEF PagesArePrinted
<1>10. ASSUME Exit PROVE PagesArePrinted'
  <2>1. shutdown'.pc # "idle" /\ UNCHANGED <<clears, page, origin>>
    BY <1>10 DEF Exit, Await
  <2> QED BY <2>1 DEF PagesArePrinted
<1>11. ASSUME Disconnect PROVE PagesArePrinted'
  BY <1>11, <1>b DEF Disconnect
<1>12. CASE UNCHANGED vars
  BY <1>12, <1>b DEF vars
<1> QED BY <1>1, <1>2, <1>3, <1>4, <1>5, <1>6, <1>7, <1>8, <1>9, <1>10, <1>11, <1>12 DEF Next

-----------------------------------------------------------------------------
(* The inductive invariant holds.                                          *)

LEMMA InitInv == Init => Inv
<1> SUFFICES ASSUME Init PROVE Inv
  OBVIOUS
<1>1. TypeOK
  BY TypeInit
<1>2. ToSet(output) = {} /\ ToSet(q) = {} /\ Len(output) = 0 /\ DOMAIN output = {}
  BY DEF Init, ToSet
<1>3. QueueInOrder /\ PrintedInOrder /\ NoneIsLost
  BY <1>2 DEF Init, QueueInOrder, Ascends, PrintedInOrder, NoneIsLost, Printed
<1>4. NothingToPrint /\ ExitIsLast /\ PagesArePrinted
  BY <1>2 DEF Init, NothingToPrint, ExitIsLast, PagesArePrinted, Await
<1> QED BY <1>1, <1>3, <1>4 DEF Inv

(* Every step keeps the invariant.                                         *)
LEMMA NextInv == Inv /\ [Next]_vars => Inv'
<1> SUFFICES ASSUME Inv, [Next]_vars PROVE Inv'
  OBVIOUS
<1>1. TypeOK /\ QueueInOrder /\ QueueInv /\ NothingToPrint /\ ExitIsLast /\ PagesArePrinted
  BY DEF Inv, QueueInv
<1>2. TypeOK' /\ QueueInv'
  BY <1>1, TypeNext, QueueNext
<1>3. NothingToPrint' /\ ExitIsLast' /\ PagesArePrinted'
  BY <1>1, NothingToPrintNext, ExitNext, PagesNext
<1> QED BY <1>2, <1>3 DEF Inv, QueueInv

(* The inductive invariant holds in every reachable state.                 *)
THEOREM Invariance == Spec => []Inv
  BY InitInv, NextInv, PTL DEF Spec

-----------------------------------------------------------------------------
(* Every variable keeps its type, and a queue that is not empty is being   *)
(* processed.                                                              *)
THEOREM TypeCorrect == Spec => []TypeOK
<1>1. Inv => TypeOK
  BY DEF Inv
<1> QED BY <1>1, Invariance, PTL

(* The console prints messages in the order the page reported them, in     *)
(* whatever order their texts become ready: none that is still in the      *)
(* queue is overtaken.                                                     *)
THEOREM MessagesKeepOrder == Spec => []PrintedInOrder
<1>1. Inv => PrintedInOrder
  BY DEF Inv
<1> QED BY <1>1, Invariance, PTL

(* The editor is told that the thread has exited when every message the    *)
(* console accepted was printed or rejected, and only profiles come later. *)
THEOREM ExitComesLast == Spec => []NothingIsLost
<1>1. Inv => NothingIsLost
  <2> SUFFICES ASSUME Inv, NEW i \in DOMAIN output, output[i] = exited
               PROVE  /\ \A m \in Messages : value[m] # "none" => Accounted(m)
                      /\ \A j \in i + 1 .. Len(output) : output[j] \in Saves
    BY DEF NothingIsLost
  <2>1. shutdown.pc = "done" /\ \A j \in i + 1 .. Len(output) : output[j] \in Saves
    BY DEF Inv, ExitIsLast
  <2>2. ToSet(q) = {}
    BY <2>1 DEF Inv, NothingToPrint, ToSet
  <2> QED BY <2>1, <2>2 DEF Inv, NoneIsLost
<1> QED BY <1>1, Invariance, PTL

(* The scripts of a page leave the source container when its messages were *)
(* printed, as long as the thread does not shut down.                      *)
THEOREM ScriptsStayForMessages == Spec => ScriptsOutliveMessages
<1>1. Inv /\ [Next]_vars => PrintedBeforeRemoval \/ UNCHANGED vars
  <2> SUFFICES ASSUME Inv, Next, shutdown.pc = "idle",
                      NEW g \in removed' \ removed, NEW m \in ToSet(q)
               PROVE  origin[m] # g
    BY DEF PrintedBeforeRemoval
  <2>1. g \in Pages /\ clears[g].pc = "waiting" /\ clears[g].wait = {}
    BY DEF Next, Report, Settle, Process, SaveProfile, ProfileSaved, SavingFails, ContextsCleared,
           RemoveContexts, Dispose, Exit, Disconnect
  <2> QED BY <2>1 DEF Inv, PagesArePrinted
<1>2. ScriptsOutliveMessages <=> [][PrintedBeforeRemoval]_vars
  BY DEF ScriptsOutliveMessages
<1> QED BY <1>1, <1>2, Invariance, PTL DEF Spec

=============================================================================
