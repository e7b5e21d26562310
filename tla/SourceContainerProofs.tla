------------------------- MODULE SourceContainerProofs -------------------------
(***************************************************************************)
(* Proofs about SourceContainer: its types, the scripts a page that was    *)
(* left leaves behind, and the agreement of its maps.                      *)
(*                                                                         *)
(* TypeInv holds whatever happens.  The maps agree (Inv) as long as the    *)
(* reference of a source that is removed leads to it or to nothing, which  *)
(* RemovesItself says; and that holds itself (FoundInv) until a source is  *)
(* to be added under a URL of which a source was replaced whose scripts    *)
(* are still there (Apart).                                                *)
(***************************************************************************)
EXTENDS SourceContainerProps, FiniteSetTheorems, NaturalsInduction, WellFoundedInduction, TLAPS

-----------------------------------------------------------------------------
(* The container.                                                          *)

Fields == {"ref", "byRef", "byUrl", "byMapUrl", "sourceByUrl", "compiledTo"}

(* What TypeOK says of the container, of any container.                    *)
Typed(k) ==
  /\ DOMAIN k = Fields
  /\ k.ref \in [Sources -> References \union {NoReference}]
  /\ \A r \in DOMAIN k.byRef : r \in References /\ k.byRef[r] \in Sources
  /\ k.byUrl \in [Urls -> Optional(Sources)]
  /\ k.byMapUrl \in [OriginalUrls -> Optional(Originals)]
  /\ k.sourceByUrl \in [Scripts -> [OriginalUrls -> Optional(Originals)]]
  /\ k.compiledTo \in [Originals -> SUBSET Scripts]

(* The sources in a container.                                             *)
In(k) == {k.byRef[r] : r \in DOMAIN k.byRef}

(* A source has one reference, that of its URL.                            *)
RefsAgree(k) ==
  \A r \in DOMAIN k.byRef :
    k.ref[k.byRef[r]] = r /\ (IsOriginal(k.byRef[r]) => r[1] = k.byRef[r][2])

(* The maps agree with each other, when the sources Y are about to be      *)
(* added: what is listed is there, an original under its URL and linked    *)
(* with what it was compiled to.                                           *)
Fine(k, Y) ==
  /\ \A x \in In(k) : IsOriginal(x) => k.byMapUrl[x[2]] = x
  /\ \A y \in Y : y \in Originals /\ k.ref[y] \notin DOMAIN k.byRef /\ k.byMapUrl[y[2]] = NoSource
  /\ \A u \in OriginalUrls : k.byMapUrl[u] # NoSource => k.byMapUrl[u] \in In(k) /\ k.byMapUrl[u][2] = u
  /\ \A u \in Urls : k.byUrl[u] # NoSource => k.byUrl[u] \in In(k)
  /\ \A s \in Scripts, u \in OriginalUrls : k.sourceByUrl[s][u] # NoSource =>
       /\ k.sourceByUrl[s][u] \in In(k) \union Y
       /\ k.sourceByUrl[s][u][2] = u
       /\ s \in k.compiledTo[k.sourceByUrl[s][u]]
  /\ \A x \in In(k) \union Y : IsOriginal(x) =>
       \A s \in k.compiledTo[x] : k.sourceByUrl[s][x[2]] = x

-----------------------------------------------------------------------------
(* The invariants.                                                         *)

(* What TypeOK says of everything else.                                    *)
ScriptsAreTyped ==
  /\ context \in [Contexts -> {"live", "destroyed"}]
  /\ script \in Seq(ScriptInfo)
  /\ Len(script) <= MaxScripts
  /\ source \in [Scripts -> Optional(Compiled)]
  /\ \A s \in Scripts : source[s] # NoSource => s \in DOMAIN script
  /\ scripts \in [Scripts -> SUBSET Scripts]
  /\ \A s \in Scripts : \A t \in scripts[s] : source[t] = <<s, self>>
  /\ removed \subseteq Scripts
  /\ load \in [Scripts -> {"none", "loading", "adding", "ready"}]
  /\ todo \in [Scripts -> SUBSET OriginalUrls]
  /\ \A s \in Scripts : todo[s] # {} => load[s] = "adding"

(* A source is added once, and the sources of its map after it.            *)
ScriptsAreAdded ==
  /\ \A s \in Scripts : load[s] # "none" => source[s] = <<s, self>>
  /\ \A s \in Scripts : <<s, self>> \in In(container) => source[s] = <<s, self>>
  /\ \A s \in Scripts, u \in OriginalUrls : <<s, u>> \in In(container) =>
       load[s] \in {"adding", "ready"} /\ u \notin todo[s]

(* Who has scripts that were not removed.                                  *)
ScriptsAreKept ==
  /\ \A s \in removed : s \in DOMAIN script /\ source[s] # NoSource
  /\ \A s \in Scripts : scripts[s] \intersect removed = {}
  /\ \A s \in Scripts : <<s, self>> \in In(container) => scripts[s] # {}

TypeInv ==
  /\ ScriptsAreTyped
  /\ Typed(container)
  /\ RefsAgree(container)
  /\ ScriptsAreAdded
  /\ ScriptsAreKept

(* Nothing was compiled from a source that is yet to be added.             *)
NothingIsLinkedEarly ==
  \A s \in Scripts, u \in OriginalUrls :
    load[s] \in {"none", "loading"} \/ u \in todo[s] => container.compiledTo[<<s, u>>] = {}

Inv == TypeInv /\ Fine(container, {}) /\ NothingIsLinkedEarly

-----------------------------------------------------------------------------
(* Where references do not collide.                                        *)

(* The script has a source of its own, which was added.                    *)
HasOwn(s) == source[s] = <<s, self>>

(* The source of the script has scripts that are to be removed, one day.   *)
HasScripts(s) == \E t \in Scripts : source[t] = <<s, self>> /\ t \notin removed

(* The sources that were replaced, but have scripts.                       *)
ReplacedEarly == {s \in Scripts : HasScripts(s) /\ <<s, self>> \notin In(container)}

(* The URLs sources are going to be added under.                           *)
Awaited ==
  {script[s].url : s \in {t \in DOMAIN script : source[t] = NoSource}}
    \union UNION {todo[s] : s \in Scripts}

(* No source is to be added under the URL of one that was replaced while   *)
(* that one has scripts.                                                   *)
Apart == \A s \in ReplacedEarly : script[s].url \notin Awaited

(* Who shares a source shares one that was added, and is a script of it    *)
(* until it is removed.                                                    *)
SourcesAreShared ==
  \A t, s \in Scripts : source[t] = <<s, self>> => HasOwn(s) /\ (t \in removed \/ t \in scripts[s])

(* Sources are listed by their URL, and referred to by it.                 *)
UrlsAreTheirs ==
  /\ \A u \in Urls : container.byUrl[u] # NoSource => UrlOf(container.byUrl[u]) = u
  /\ \A s \in Scripts : HasOwn(s) => container.ref[<<s, self>>][1] = script[s].url

(* The reference of a source that was replaced leads nowhere, as long as   *)
(* the source has scripts.                                                 *)
GoneIsRemoved ==
  \A s \in ReplacedEarly : AlreadyRemoved(container, <<s, self>>)

(* What that adds to the agreement of the maps: a reference is not taken   *)
(* for another.                                                            *)
SourcesAreFound == SourcesAreShared /\ UrlsAreTheirs /\ GoneIsRemoved

FoundInv == Inv /\ SourcesAreFound

-----------------------------------------------------------------------------
(* Numbers.                                                                *)

(* A set of numbers has a smallest one.                                    *)
LEMMA SmallestNumber ==
  ASSUME NEW T \in SUBSET Nat, T # {}
  PROVE  \E m \in T : \A y \in T : m <= y
<1>1. PICK m \in T : \A y \in T : ~(<<y, m>> \in OpToRel(<, Nat))
  BY WFMin, NatLessThanWellFounded
<1>2. \A y \in T : ~(y < m)
  BY <1>1 DEF OpToRel
<1> QED BY <1>2

(* Induction, for a set of numbers.                                        *)
LEMMA InductionUpTo ==
  ASSUME NEW N \in Nat, NEW G, 0 \in G, \A i \in 0 .. N : i \in G /\ i < N => i + 1 \in G
  PROVE  \A i \in 0 .. N : i \in G
<1> SUFFICES ASSUME {i \in 0 .. N : i \notin G} # {}
             PROVE  FALSE
  OBVIOUS
<1>1. {i \in 0 .. N : i \notin G} \in SUBSET Nat
  OBVIOUS
<1>2. PICK m \in {i \in 0 .. N : i \notin G} : \A y \in {i \in 0 .. N : i \notin G} : m <= y
  BY <1>1, SmallestNumber
<1>3. m # 0 /\ m \in Nat /\ m <= N
  BY <1>2
<1>4. m - 1 \in G
  BY <1>2, <1>3
<1> QED BY <1>2, <1>3, <1>4

-----------------------------------------------------------------------------
(* Sources and the fields of the container.                                *)

(* A source is of a script itself or of a file its map names.              *)
LEMMA SourceShapes ==
  /\ \A x \in Sources : IsOriginal(x) \/ x \in Compiled
  /\ \A x \in Originals : x \in Sources /\ IsOriginal(x) /\ x[1] \in Scripts /\ x[2] \in OriginalUrls
                          /\ x = <<x[1], x[2]>>
  /\ \A x \in Compiled : x \in Sources /\ ~IsOriginal(x) /\ x[1] \in Scripts /\ x = <<x[1], self>>
  /\ \A s \in Scripts : <<s, self>> \in Compiled
  /\ \A s \in Scripts, u \in OriginalUrls : <<s, u>> \in Originals
  /\ NoSource \notin Sources
<1>1. self \notin OriginalUrls /\ 0 \notin Scripts
  BY SourceContainerAssumption DEF Scripts
<1> QED BY <1>1 DEF Sources, Compiled, Originals, IsOriginal, NoSource

(* What Forget leaves of each map.                                         *)
Forgotten(k, X, l) ==
  /\ DOMAIN l = Fields
  /\ l.ref = k.ref
  /\ l.compiledTo = k.compiledTo
  /\ l.byRef = [r \in DOMAIN k.byRef \ {k.ref[x] : x \in X} |-> k.byRef[r]]
  /\ l.byUrl = [u \in Urls |-> IF k.byUrl[u] \in X THEN NoSource ELSE k.byUrl[u]]
  /\ l.byMapUrl = [u \in OriginalUrls |->
       IF \E x \in X : IsOriginal(x) /\ x[2] = u THEN NoSource ELSE k.byMapUrl[u]]
  /\ l.sourceByUrl = [s \in Scripts |-> [u \in OriginalUrls |->
       IF \E x \in X : IsOriginal(x) /\ x[2] = u /\ s \in k.compiledTo[x]
       THEN NoSource ELSE k.sourceByUrl[s][u]]]

(* It leaves that.                                                         *)
LEMMA ForgetFields ==
  ASSUME NEW k, DOMAIN k = Fields, NEW X
  PROVE  Forgotten(k, X, Forget(k, X))
<1> DEFINE a == [r \in DOMAIN k.byRef \ {k.ref[x] : x \in X} |-> k.byRef[r]]
           b == [u \in Urls |-> IF k.byUrl[u] \in X THEN NoSource ELSE k.byUrl[u]]
           c == [u \in OriginalUrls |->
                  IF \E x \in X : IsOriginal(x) /\ x[2] = u THEN NoSource ELSE k.byMapUrl[u]]
           d == [s \in Scripts |-> [u \in OriginalUrls |->
                  IF \E x \in X : IsOriginal(x) /\ x[2] = u /\ s \in k.compiledTo[x]
                  THEN NoSource ELSE k.sourceByUrl[s][u]]]
<1>1. Forget(k, X) = [k EXCEPT !.byRef = a, !.byUrl = b, !.byMapUrl = c, !.sourceByUrl = d]
  BY DEF Forget
<1> HIDE DEF a, b, c, d
<1>2. /\ DOMAIN Forget(k, X) = Fields
      /\ Forget(k, X).ref = k.ref /\ Forget(k, X).compiledTo = k.compiledTo
      /\ Forget(k, X).byRef = a /\ Forget(k, X).byUrl = b
      /\ Forget(k, X).byMapUrl = c /\ Forget(k, X).sourceByUrl = d
  BY <1>1 DEF Fields
<1> QED BY <1>2 DEF Forgotten, a, b, c, d

(* What Unlink changes.                                                    *)
Unlinked(k, s, l) ==
  /\ DOMAIN l = Fields
  /\ l.ref = k.ref
  /\ l.byRef = k.byRef
  /\ l.byUrl = k.byUrl
  /\ l.byMapUrl = k.byMapUrl
  /\ l.sourceByUrl = [k.sourceByUrl EXCEPT ![s] = [u \in OriginalUrls |-> NoSource]]
  /\ l.compiledTo = [x \in Originals |->
       IF x \in MappedFrom(k, s) THEN k.compiledTo[x] \ {s} ELSE k.compiledTo[x]]

(* It changes that.                                                        *)
LEMMA UnlinkFields ==
  ASSUME NEW k, Typed(k), NEW s \in Scripts
  PROVE  Unlinked(k, s, Unlink(k, s))
<1> DEFINE a == [u \in OriginalUrls |-> NoSource]
           b == [x \in Originals |->
                  IF x \in MappedFrom(k, s) THEN k.compiledTo[x] \ {s} ELSE k.compiledTo[x]]
<1>1. Unlink(k, s) = [k EXCEPT !.sourceByUrl[s] = a, !.compiledTo = b]
  BY DEF Unlink
<1> HIDE DEF a, b
<1>2. /\ DOMAIN Unlink(k, s) = Fields
      /\ Unlink(k, s).ref = k.ref /\ Unlink(k, s).byRef = k.byRef
      /\ Unlink(k, s).byUrl = k.byUrl /\ Unlink(k, s).byMapUrl = k.byMapUrl
      /\ Unlink(k, s).sourceByUrl = [k.sourceByUrl EXCEPT ![s] = a]
      /\ Unlink(k, s).compiledTo = b
  BY <1>1 DEF Fields, Typed
<1> QED BY <1>2 DEF Unlinked, a, b

(* What the addition of a source changes, but for a source it replaces.    *)
Added(k, x) ==
  [k EXCEPT
     !.byUrl[UrlOf(x)] = x,
     !.byRef = [r \in DOMAIN @ \union {k.ref[x]} |-> IF r = k.ref[x] THEN x ELSE @[r]],
     !.byMapUrl = [u \in OriginalUrls |-> IF IsOriginal(x) /\ u = x[2] THEN x ELSE @[u]]]

IsAdded(k, x, l) ==
  /\ DOMAIN l = Fields
  /\ l.ref = k.ref
  /\ l.sourceByUrl = k.sourceByUrl
  /\ l.compiledTo = k.compiledTo
  /\ l.byUrl = [k.byUrl EXCEPT ![UrlOf(x)] = x]
  /\ DOMAIN l.byRef = DOMAIN k.byRef \union {k.ref[x]}
  /\ \A r \in DOMAIN l.byRef : l.byRef[r] = IF r = k.ref[x] THEN x ELSE k.byRef[r]
  /\ l.byMapUrl =
       [u \in OriginalUrls |-> IF IsOriginal(x) /\ u = x[2] THEN x ELSE k.byMapUrl[u]]

(* It changes that.                                                        *)
LEMMA AddedFields ==
  ASSUME NEW k, Typed(k), NEW x \in Sources, UrlOf(x) \in Urls
  PROVE  IsAdded(k, x, Added(k, x))
<1> DEFINE a == UrlOf(x)
           b == [r \in DOMAIN k.byRef \union {k.ref[x]} |-> IF r = k.ref[x] THEN x ELSE k.byRef[r]]
           c == [u \in OriginalUrls |-> IF IsOriginal(x) /\ u = x[2] THEN x ELSE k.byMapUrl[u]]
<1>1. Added(k, x) = [k EXCEPT !.byUrl[a] = x, !.byRef = b, !.byMapUrl = c]
  BY DEF Added
<1>2. /\ DOMAIN b = DOMAIN k.byRef \union {k.ref[x]}
      /\ \A r \in DOMAIN b : b[r] = IF r = k.ref[x] THEN x ELSE k.byRef[r]
  OBVIOUS
<1> HIDE DEF a, b, c
<1>3. /\ DOMAIN Added(k, x) = Fields
      /\ Added(k, x).ref = k.ref /\ Added(k, x).sourceByUrl = k.sourceByUrl
      /\ Added(k, x).compiledTo = k.compiledTo
      /\ Added(k, x).byUrl = [k.byUrl EXCEPT ![a] = x]
      /\ Added(k, x).byRef = b /\ Added(k, x).byMapUrl = c
  BY <1>1 DEF Fields, Typed
<1> QED BY <1>2, <1>3 DEF IsAdded, a, c

-----------------------------------------------------------------------------
(* Removing sources leaves a smaller container.                            *)

Shrinks(k, l) ==
  /\ Typed(l)
  /\ l.ref = k.ref
  /\ DOMAIN l.byRef \subseteq DOMAIN k.byRef
  /\ \A r \in DOMAIN l.byRef : l.byRef[r] = k.byRef[r]
  /\ \A u \in Urls : l.byUrl[u] \in {k.byUrl[u], NoSource}
  /\ \A u \in OriginalUrls : l.byMapUrl[u] \in {k.byMapUrl[u], NoSource}
  /\ \A x \in Originals : l.compiledTo[x] \subseteq k.compiledTo[x]

(* One removal after another.                                              *)
LEMMA ShrinksTrans ==
  ASSUME NEW k, NEW l, NEW m, Shrinks(k, l), Shrinks(l, m)
  PROVE  Shrinks(k, m)
  BY DEF Shrinks

(* No removal at all.                                                      *)
LEMMA ShrinksNot ==
  ASSUME NEW k, Typed(k)
  PROVE  Shrinks(k, k)
  BY DEF Shrinks

(* What is left are sources that were there, under their references.       *)
LEMMA ShrinksKeeps ==
  ASSUME NEW k, NEW l, Shrinks(k, l)
  PROVE  In(l) \subseteq In(k) /\ (RefsAgree(k) => RefsAgree(l))
  BY DEF Shrinks, In, RefsAgree

(* What is forgotten is not in the container any more.                     *)
LEMMA ForgetShrinks ==
  ASSUME NEW k, Typed(k), NEW X \in SUBSET Sources
  PROVE  /\ Shrinks(k, Forget(k, X))
         /\ RefsAgree(k) => X \intersect In(Forget(k, X)) = {}
<1> DEFINE l == Forget(k, X)
<1>1. DOMAIN k = Fields
  BY DEF Typed
<1>f. Forgotten(k, X, l)
  BY <1>1, ForgetFields
<1> HIDE DEF l
<1>3. Typed(l)
  <2>1. NoSource \in Optional(Sources) /\ NoSource \in Optional(Originals)
    BY DEF Optional
  <2>2. l.byUrl \in [Urls -> Optional(Sources)]
    BY <1>f, <2>1 DEF Forgotten, Typed
  <2>3. l.byMapUrl \in [OriginalUrls -> Optional(Originals)]
    BY <1>f, <2>1 DEF Forgotten, Typed
  <2>4. l.sourceByUrl \in [Scripts -> [OriginalUrls -> Optional(Originals)]]
    <3>1. \A s \in Scripts, u \in OriginalUrls : k.sourceByUrl[s][u] \in Optional(Originals)
      BY DEF Forgotten, Typed
    <3> QED BY <1>f, <2>1, <3>1 DEF Forgotten
  <2>5. \A r \in DOMAIN l.byRef : r \in References /\ l.byRef[r] \in Sources
    BY <1>f DEF Forgotten, Typed
  <2> QED BY <1>f, <2>2, <2>3, <2>4, <2>5 DEF Forgotten, Typed
<1>4. ASSUME RefsAgree(k), NEW x \in X, x \in In(l)
      PROVE  FALSE
  <2>1. PICK r \in DOMAIN l.byRef : l.byRef[r] = x
    BY <1>4 DEF In
  <2> QED BY <1>f, <1>4, <2>1 DEF Forgotten, RefsAgree
<1>5. Shrinks(k, l)
  BY <1>f, <1>3 DEF Forgotten, Shrinks
<1> QED BY <1>4, <1>5 DEF l

(* The sources the map of a script names.                                  *)
LEMMA MappedAreOriginals ==
  ASSUME NEW k, Typed(k), NEW s \in Scripts
  PROVE  MappedFrom(k, s) \subseteq Originals
  BY DEF MappedFrom, Typed, Optional

(* Nothing leaves the container when links are cut.                        *)
LEMMA UnlinkShrinks ==
  ASSUME NEW k, Typed(k), NEW s \in Scripts
  PROVE  Shrinks(k, Unlink(k, s))
<1> DEFINE l == Unlink(k, s)
<1>1. Unlinked(k, s, l)
  BY UnlinkFields
<1> HIDE DEF l
<1>2. l.sourceByUrl \in [Scripts -> [OriginalUrls -> Optional(Originals)]]
  <2>1. [u \in OriginalUrls |-> NoSource] \in [OriginalUrls -> Optional(Originals)]
    BY DEF Optional
  <2> QED BY <1>1, <2>1 DEF Unlinked, Typed
<1>3. l.compiledTo \in [Originals -> SUBSET Scripts]
  BY <1>1 DEF Unlinked, Typed
<1>4. Typed(l)
  BY <1>1, <1>2, <1>3 DEF Unlinked, Typed
<1> QED BY <1>1, <1>4 DEF Unlinked, Shrinks, l

(* removeSource, and with it _removeSourceMapSources, only removes.        *)
LEMMA RemoveShrinks ==
  ASSUME NEW k, Typed(k), NEW x \in Sources
  PROVE  /\ Shrinks(k, RemoveSource(k, x))
         /\ RefsAgree(k) => x \notin In(RemoveSource(k, x))
<1> DEFINE l == Forget(k, {x})
<1>0. Shrinks(k, l) /\ (RefsAgree(k) => x \notin In(l)) /\ Typed(l)
  <2>1. {x} \in SUBSET Sources
    OBVIOUS
  <2> QED BY <2>1, ForgetShrinks DEF Shrinks
<1> HIDE DEF l
<1>1. CASE AlreadyRemoved(k, x)
  <2>1. RemoveSource(k, x) = k
    BY <1>1 DEF RemoveSource
  <2>2. RefsAgree(k) => x \notin In(k)
    BY <1>1 DEF RefsAgree, In, AlreadyRemoved
  <2> QED BY <2>1, <2>2, ShrinksNot
<1>2. CASE ~AlreadyRemoved(k, x) /\ IsOriginal(x)
  BY <1>0, <1>2 DEF RemoveSource, l
<1>3. CASE ~AlreadyRemoved(k, x) /\ ~IsOriginal(x)
  <2>1. x[1] \in Scripts
    BY <1>3, SourceShapes
  <2> DEFINE m == Unlink(l, x[1])
             unused == {y \in MappedFrom(l, x[1]) : m.compiledTo[y] = {}}
             X == {y \in unused : ~AlreadyRemoved(l, y)}
  <2>2. RemoveSource(k, x) = Forget(m, X)
    BY <1>3 DEF RemoveSource, RemoveSourceMapSources, l
  <2>3. Shrinks(l, m)
    BY <1>0, <2>1, UnlinkShrinks
  <2>4. X \in SUBSET Sources
    BY <1>0, <2>1, MappedAreOriginals, SourceShapes
  <2> HIDE DEF X, m
  <2>5. Shrinks(m, Forget(m, X))
    BY <2>3, <2>4, ForgetShrinks DEF Shrinks
  <2>6. Shrinks(k, Forget(m, X)) /\ In(Forget(m, X)) \subseteq In(l)
    BY <1>0, <2>3, <2>5, ShrinksTrans, ShrinksKeeps
  <2> QED BY <1>0, <2>2, <2>6
<1> QED BY <1>1, <1>2, <1>3

-----------------------------------------------------------------------------
(* Adding sources.                                                         *)

(* There is always a reference that is free: a URL has two sources for     *)
(* every script at most, that of the script and one of the map of it.      *)
LEMMA SomeReferenceIsFree ==
  ASSUME NEW k, Typed(k), RefsAgree(k), NEW u \in Urls
  PROVE  \E n \in 0 .. (2 * MaxScripts) : <<u, n>> \notin DOMAIN k.byRef
<1> SUFFICES ASSUME \A n \in 0 .. (2 * MaxScripts) : <<u, n>> \in DOMAIN k.byRef
             PROVE  FALSE
  OBVIOUS
<1>0. MaxScripts \in Nat
  BY SourceContainerAssumption
<1> DEFINE at(n) == k.byRef[<<u, n>>]
           f == [n \in 0 .. (2 * MaxScripts) |->
                   IF IsOriginal(at(n)) THEN MaxScripts + at(n)[1] ELSE at(n)[1]]
<1>1. \A n \in 0 .. (2 * MaxScripts) :
        /\ at(n) \in Sources
        /\ at(n)[1] \in 1 .. MaxScripts
        /\ IsOriginal(at(n)) => at(n) = <<at(n)[1], u>>
        /\ ~IsOriginal(at(n)) => at(n) = <<at(n)[1], self>>
  <2> TAKE n \in 0 .. (2 * MaxScripts)
  <2>1. <<u, n>> \in DOMAIN k.byRef
    OBVIOUS
  <2>2. at(n) \in Sources
    BY <2>1 DEF Typed
  <2>3. IsOriginal(at(n)) => at(n)[2] = u
    BY <2>1 DEF RefsAgree
  <2> HIDE DEF at
  <2> QED BY <2>2, <2>3, SourceShapes DEF Scripts, IsOriginal
<1>2. \A n, m \in 0 .. (2 * MaxScripts) : at(n) = at(m) => n = m
  <2>1. \A n \in 0 .. (2 * MaxScripts) : k.ref[at(n)] = <<u, n>>
    BY DEF RefsAgree
  <2> HIDE DEF at
  <2> QED BY <2>1
<1>3. f \in [0 .. (2 * MaxScripts) -> 1 .. (2 * MaxScripts)]
  <2> HIDE DEF at
  <2> QED BY <1>0, <1>1
<1>4. /\ IsFiniteSet(0 .. (2 * MaxScripts)) /\ IsFiniteSet(1 .. (2 * MaxScripts))
      /\ Cardinality(1 .. (2 * MaxScripts)) < Cardinality(0 .. (2 * MaxScripts))
  <2>1. /\ IsFiniteSet(0 .. (2 * MaxScripts))
        /\ Cardinality(0 .. (2 * MaxScripts)) = 2 * MaxScripts + 1
    BY <1>0, FS_Interval
  <2>2. /\ IsFiniteSet(1 .. (2 * MaxScripts))
        /\ Cardinality(1 .. (2 * MaxScripts)) = 2 * MaxScripts
    BY <1>0, FS_Interval
  <2> QED BY <1>0, <2>1, <2>2
<1>5. PICK n \in 0 .. (2 * MaxScripts), m \in 0 .. (2 * MaxScripts) : n # m /\ f[n] = f[m]
  <2> HIDE DEF f
  <2> QED BY <1>3, <1>4, FS_PigeonHole
<1>6. at(n) = at(m)
  <2> HIDE DEF at
  <2>1. f[n] = (IF IsOriginal(at(n)) THEN MaxScripts + at(n)[1] ELSE at(n)[1])
    OBVIOUS
  <2>2. f[m] = (IF IsOriginal(at(m)) THEN MaxScripts + at(m)[1] ELSE at(m)[1])
    OBVIOUS
  <2>3. at(n)[1] = at(m)[1] /\ (IsOriginal(at(n)) <=> IsOriginal(at(m)))
    <3> HIDE DEF f
    <3>1. at(n)[1] \in 1 .. MaxScripts /\ at(m)[1] \in 1 .. MaxScripts
      BY <1>1
    <3>2. \A a, b \in 1 .. MaxScripts : MaxScripts + a # b /\ (MaxScripts + a = MaxScripts + b => a = b)
      BY <1>0
    <3>3. (IF IsOriginal(at(n)) THEN MaxScripts + at(n)[1] ELSE at(n)[1])
            = (IF IsOriginal(at(m)) THEN MaxScripts + at(m)[1] ELSE at(m)[1])
      BY <1>5, <2>1, <2>2
    <3>4. CASE IsOriginal(at(n))
      BY <3>1, <3>2, <3>3, <3>4
    <3>5. CASE ~IsOriginal(at(n))
      BY <3>1, <3>2, <3>3, <3>5
    <3> QED BY <3>4, <3>5
  <2> QED BY <1>1, <2>3
<1> QED BY <1>2, <1>5, <1>6

(* The reference a source is given is of its URL, and free.                *)
LEMMA ReferenceIsFree ==
  ASSUME NEW k, Typed(k), RefsAgree(k), NEW u \in Urls
  PROVE  /\ GetSourceReference(k, u) \in References
         /\ GetSourceReference(k, u) \notin DOMAIN k.byRef
         /\ GetSourceReference(k, u)[1] = u
<1> DEFINE free == {n \in 0 .. (2 * MaxScripts) : <<u, n>> \notin DOMAIN k.byRef}
<1>0. MaxScripts \in Nat
  BY SourceContainerAssumption
<1>1. free # {} /\ free \in SUBSET Nat
  BY <1>0, SomeReferenceIsFree
<1>2. PICK m \in free : \A y \in free : m <= y
  <2> HIDE DEF free
  <2> QED BY <1>1, SmallestNumber
<1>3. \A i \in 0 .. (m - 1) : <<u, i>> \in DOMAIN k.byRef
  <2> SUFFICES ASSUME NEW i \in 0 .. (m - 1), <<u, i>> \notin DOMAIN k.byRef PROVE FALSE
    OBVIOUS
  <2>1. m \in 0 .. (2 * MaxScripts) /\ i < m /\ i \in Nat
    BY <1>0
  <2>2. i \in free
    BY <1>0, <2>1
  <2>3. m <= i
    BY <1>2, <2>2
  <2> QED BY <2>1, <2>3
<1> DEFINE Least(n) == /\ <<u, n>> \notin DOMAIN k.byRef
                       /\ \A i \in 0 .. (n - 1) : <<u, i>> \in DOMAIN k.byRef
<1>4. \E n \in 0 .. (2 * MaxScripts) : Least(n)
  BY <1>2, <1>3
<1> DEFINE n == CHOOSE n \in 0 .. (2 * MaxScripts) : Least(n)
<1>5. n \in 0 .. (2 * MaxScripts) /\ Least(n)
  <2> HIDE DEF Least
  <2> QED BY <1>4
<1>6. GetSourceReference(k, u) = <<u, n>>
  BY DEF GetSourceReference
<1> HIDE DEF n
<1> QED BY <1>5, <1>6 DEF References

(* A new source has its reference; nothing else has changed.               *)
NewlyMade(k, x, l) ==
  /\ Typed(l) /\ RefsAgree(l)
  /\ l.ref = [k.ref EXCEPT ![x] = l.ref[x]]
  /\ l.ref[x] \in References /\ l.ref[x] \notin DOMAIN l.byRef /\ l.ref[x][1] = UrlOf(x)
  /\ l.byRef = k.byRef
  /\ l.byUrl = k.byUrl
  /\ l.byMapUrl = k.byMapUrl
  /\ l.sourceByUrl = k.sourceByUrl
  /\ l.compiledTo = k.compiledTo

(* That is what NewSource makes.                                           *)
LEMMA NewSourceFields ==
  ASSUME NEW k, Typed(k), RefsAgree(k), NEW x \in Sources, UrlOf(x) \in Urls, x \notin In(k)
  PROVE  NewlyMade(k, x, NewSource(k, x))
<1> DEFINE r == GetSourceReference(k, UrlOf(x))
           l == NewSource(k, x)
<1>1. r \in References /\ r \notin DOMAIN k.byRef /\ r[1] = UrlOf(x)
  BY ReferenceIsFree
<1>2. l = [k EXCEPT !.ref[x] = r]
  BY DEF NewSource
<1> HIDE DEF r, l
<1>3. /\ DOMAIN l = Fields /\ l.ref = [k.ref EXCEPT ![x] = r]
      /\ l.byRef = k.byRef /\ l.byUrl = k.byUrl /\ l.byMapUrl = k.byMapUrl
      /\ l.sourceByUrl = k.sourceByUrl /\ l.compiledTo = k.compiledTo
  BY <1>2 DEF Fields, Typed
<1>4. l.ref[x] = r /\ l.ref \in [Sources -> References \union {NoReference}]
  BY <1>1, <1>3 DEF Typed
<1>5. Typed(l)
  BY <1>3, <1>4 DEF Typed
<1>6. RefsAgree(l)
  <2>1. \A t \in DOMAIN k.byRef : k.byRef[t] # x /\ k.byRef[t] \in Sources
    BY DEF In, Typed
  <2>2. \A y \in Sources : y # x => l.ref[y] = k.ref[y]
    BY <1>3 DEF Typed
  <2> QED BY <1>3, <2>1, <2>2 DEF RefsAgree
<1>7. NewlyMade(k, x, l)
  BY <1>1, <1>3, <1>4, <1>5, <1>6 DEF NewlyMade
<1> QED BY <1>7 DEF l

(* A source that has a reference of its own can be added.                  *)
LEMMA AddedIsTyped ==
  ASSUME NEW k, Typed(k), RefsAgree(k), NEW x \in Sources, UrlOf(x) \in Urls, x \notin In(k),
         k.ref[x] \in References, k.ref[x] \notin DOMAIN k.byRef, k.ref[x][1] = UrlOf(x)
  PROVE  /\ Typed(Added(k, x)) /\ RefsAgree(Added(k, x))
         /\ In(Added(k, x)) = In(k) \union {x}
<1> DEFINE l == Added(k, x)
<1>1. IsAdded(k, x, l)
  BY AddedFields
<1> HIDE DEF l
<1>2. Typed(l)
  <2>1. l.byUrl \in [Urls -> Optional(Sources)]
    BY <1>1 DEF IsAdded, Typed, Optional
  <2>2. l.byMapUrl \in [OriginalUrls -> Optional(Originals)]
    BY <1>1 DEF IsAdded, Typed, Optional, IsOriginal
  <2>3. \A r \in DOMAIN l.byRef : r \in References /\ l.byRef[r] \in Sources
    BY <1>1 DEF IsAdded, Typed
  <2> QED BY <1>1, <2>1, <2>2, <2>3 DEF IsAdded, Typed
<1>3. RefsAgree(l)
  <2>1. IsOriginal(x) => k.ref[x][1] = x[2]
    BY DEF UrlOf
  <2> QED BY <1>1, <2>1 DEF IsAdded, RefsAgree
<1>4. In(l) = In(k) \union {x}
  <2>1. \A r \in DOMAIN k.byRef : r \in DOMAIN l.byRef /\ l.byRef[r] = k.byRef[r]
    BY <1>1 DEF IsAdded
  <2>2. k.ref[x] \in DOMAIN l.byRef /\ l.byRef[k.ref[x]] = x
    BY <1>1 DEF IsAdded
  <2>3. \A r \in DOMAIN l.byRef : r = k.ref[x] \/ r \in DOMAIN k.byRef
    BY <1>1 DEF IsAdded
  <2> QED BY <2>1, <2>2, <2>3 DEF In
<1> QED BY <1>2, <1>3, <1>4 DEF l

(* The container to which addSource adds the source.                       *)
Replaced(k, x) ==
  LET existing == k.byUrl[UrlOf(x)]
  IN IF existing # NoSource /\ ~IsOriginalSourceOf(k, existing, x)
     THEN RemoveSource(k, existing) ELSE k

(* A source is added where at most the one of its URL was removed.         *)
LEMMA AddSourceIsAdded ==
  ASSUME NEW k, Typed(k), NEW x \in Sources, UrlOf(x) \in Urls
  PROVE  AddSource(k, x) = Added(Replaced(k, x), x) /\ Shrinks(k, Replaced(k, x))
<1> DEFINE existing == k.byUrl[UrlOf(x)]
           l == Replaced(k, x)
<1>1. Shrinks(k, l)
  <2>1. CASE existing # NoSource /\ ~IsOriginalSourceOf(k, existing, x)
    <3>1. existing \in Sources
      BY <2>1 DEF Typed, Optional
    <3>2. l = RemoveSource(k, existing)
      BY <2>1 DEF Replaced
    <3> HIDE DEF l, existing
    <3> QED BY <3>1, <3>2, RemoveShrinks
  <2>2. CASE ~(existing # NoSource /\ ~IsOriginalSourceOf(k, existing, x))
    <3>1. l = k
      BY <2>2 DEF Replaced
    <3> QED BY <3>1, ShrinksNot
  <2> QED BY <2>1, <2>2
<1>2. l.ref = k.ref
  BY <1>1 DEF Shrinks
<1>3. AddSource(k, x) =
        [l EXCEPT !.byUrl[UrlOf(x)] = x,
                  !.byRef = [r \in DOMAIN @ \union {k.ref[x]} |-> IF r = k.ref[x] THEN x ELSE @[r]],
                  !.byMapUrl = [u \in OriginalUrls |-> IF IsOriginal(x) /\ u = x[2] THEN x ELSE @[u]]]
  BY DEF AddSource, Replaced
<1> HIDE DEF l
<1>4. AddSource(k, x) = Added(l, x)
  BY <1>2, <1>3 DEF Added
<1> QED BY <1>1, <1>4 DEF l

(* addSource adds the source, and nothing else.                            *)
LEMMA AddSourceIsTyped ==
  ASSUME NEW k, Typed(k), RefsAgree(k), NEW x \in Sources, UrlOf(x) \in Urls, x \notin In(k),
         k.ref[x] \in References, k.ref[x] \notin DOMAIN k.byRef, k.ref[x][1] = UrlOf(x)
  PROVE  /\ Typed(AddSource(k, x)) /\ RefsAgree(AddSource(k, x))
         /\ In(AddSource(k, x)) \subseteq In(k) \union {x}
<1> DEFINE l == Replaced(k, x)
<1>1. AddSource(k, x) = Added(l, x) /\ Shrinks(k, l)
  BY AddSourceIsAdded
<1> HIDE DEF l
<1>2. Typed(l) /\ RefsAgree(l) /\ In(l) \subseteq In(k)
  BY <1>1, ShrinksKeeps DEF Shrinks
<1>3. l.ref[x] = k.ref[x] /\ l.ref[x] \notin DOMAIN l.byRef
  BY <1>1 DEF Shrinks
<1>4. x \notin In(l)
  BY <1>2
<1>5. Typed(Added(l, x)) /\ RefsAgree(Added(l, x)) /\ In(Added(l, x)) = In(l) \union {x}
  BY <1>2, <1>3, <1>4, AddedIsTyped
<1> QED BY <1>1, <1>2, <1>5

(* What a link changes.                                                    *)
Linked(k, s, x, l) ==
  /\ Typed(l)
  /\ RefsAgree(k) => RefsAgree(l)
  /\ In(l) = In(k)
  /\ l.ref = k.ref
  /\ l.byRef = k.byRef
  /\ l.byUrl = k.byUrl
  /\ l.byMapUrl = k.byMapUrl
  /\ l.sourceByUrl = [k.sourceByUrl EXCEPT ![s] = [@ EXCEPT ![x[2]] = x]]
  /\ l.compiledTo = [k.compiledTo EXCEPT ![x] = @ \union {s}]

(* It changes that.                                                        *)
LEMMA LinkFields ==
  ASSUME NEW k, Typed(k), NEW s \in Scripts, NEW x \in Originals
  PROVE  Linked(k, s, x, Link(k, s, x))
<1> DEFINE l == Link(k, s, x)
           u == x[2]
           a == [k.sourceByUrl[s] EXCEPT ![u] = x]
           b == k.compiledTo[x] \union {s}
<1>1. l = [k EXCEPT !.sourceByUrl[s][u] = x, !.compiledTo[x] = b]
  BY DEF Link
<1>2. u \in OriginalUrls
  BY SourceShapes
<1>3. a \in [OriginalUrls -> Optional(Originals)]
  BY <1>2 DEF Typed, Optional
<1>4. b \in SUBSET Scripts
  BY DEF Typed
<1> HIDE DEF l, b
<1>5. /\ DOMAIN l = Fields
      /\ l.ref = k.ref /\ l.byRef = k.byRef /\ l.byUrl = k.byUrl /\ l.byMapUrl = k.byMapUrl
      /\ l.sourceByUrl = [k.sourceByUrl EXCEPT ![s] = a]
      /\ l.compiledTo = [k.compiledTo EXCEPT ![x] = b]
  BY <1>1 DEF Fields, Typed
<1> HIDE DEF a
<1>6. /\ l.sourceByUrl \in [Scripts -> [OriginalUrls -> Optional(Originals)]]
      /\ l.compiledTo \in [Originals -> SUBSET Scripts]
  BY <1>3, <1>4, <1>5 DEF Typed
<1>7. Typed(l)
  BY <1>5, <1>6 DEF Typed
<1>8. In(l) = In(k) /\ (RefsAgree(k) => RefsAgree(l))
  BY <1>5 DEF In, RefsAgree
<1> QED BY <1>5, <1>7, <1>8 DEF Linked, a, b, l

(* A file of the map that no bundle brought before gets a source.          *)
LEMMA AddNewOriginalIsTyped ==
  ASSUME NEW k, Typed(k), RefsAgree(k), NEW s \in Scripts, NEW u \in OriginalUrls,
         <<s, u>> \notin In(k)
  PROVE  /\ Typed(AddNewOriginal(k, s, u)) /\ RefsAgree(AddNewOriginal(k, s, u))
         /\ In(AddNewOriginal(k, s, u)) \subseteq In(k) \union {<<s, u>>}
<1> DEFINE x == <<s, u>>
           l == NewSource(k, x)
           m == Link(l, s, x)
<1>1. x \in Originals /\ x \in Sources /\ IsOriginal(x)
  BY SourceShapes
<1>2. UrlOf(x) \in Urls /\ UrlOf(x) = u
  BY <1>1 DEF UrlOf, Urls
<1>3. AddNewOriginal(k, s, u) = AddSource(m, x)
  BY DEF AddNewOriginal
<1> HIDE DEF x
<1>4. x \notin In(k)
  BY DEF x
<1>5. NewlyMade(k, x, l)
  BY <1>1, <1>2, <1>4, NewSourceFields
<1> HIDE DEF l
<1>6. Typed(l) /\ RefsAgree(l) /\ In(l) = In(k)
  BY <1>5 DEF NewlyMade, In
<1>7. Linked(l, s, x, m)
  BY <1>1, <1>6, LinkFields
<1> HIDE DEF m
<1>8. /\ Typed(m) /\ RefsAgree(m) /\ In(m) = In(k)
      /\ m.ref[x] \in References /\ m.ref[x] \notin DOMAIN m.byRef /\ m.ref[x][1] = UrlOf(x)
  BY <1>5, <1>6, <1>7 DEF NewlyMade, Linked
<1>9. /\ Typed(AddSource(m, x)) /\ RefsAgree(AddSource(m, x))
      /\ In(AddSource(m, x)) \subseteq In(m) \union {x}
  BY <1>1, <1>2, <1>4, <1>8, AddSourceIsTyped
<1> QED BY <1>3, <1>8, <1>9 DEF x

(* So does a script.                                                       *)
LEMMA AddNewScriptIsTyped ==
  ASSUME NEW k, Typed(k), RefsAgree(k), NEW x \in Compiled, UrlOf(x) \in Urls, x \notin In(k)
  PROVE  /\ Typed(AddSource(NewSource(k, x), x)) /\ RefsAgree(AddSource(NewSource(k, x), x))
         /\ In(AddSource(NewSource(k, x), x)) \subseteq In(k) \union {x}
<1> DEFINE l == NewSource(k, x)
<1>1. x \in Sources
  BY SourceShapes
<1>2. NewlyMade(k, x, l)
  BY <1>1, NewSourceFields
<1> HIDE DEF l
<1>3. /\ Typed(l) /\ RefsAgree(l) /\ In(l) = In(k)
      /\ l.ref[x] \in References /\ l.ref[x] \notin DOMAIN l.byRef /\ l.ref[x][1] = UrlOf(x)
  BY <1>2 DEF NewlyMade, In
<1>4. /\ Typed(AddSource(l, x)) /\ RefsAgree(AddSource(l, x))
      /\ In(AddSource(l, x)) \subseteq In(l) \union {x}
  BY <1>1, <1>3, AddSourceIsTyped
<1> QED BY <1>3, <1>4 DEF l

-----------------------------------------------------------------------------
(* Removing the sources of a context.                                      *)

(* The recursive function in RemoveSourcesOf.                              *)
LEMMA RemovalRecursion ==
  ASSUME NEW X
  PROVE  \E after : /\ RemoveSourcesOf(X) = after[MaxScripts]
                    /\ after[0] = container
                    /\ \A s \in 1 .. MaxScripts :
                         after[s] = IF s \in X THEN RemoveSource(after[s - 1], source[s])
                                    ELSE after[s - 1]
<1> DEFINE Body(f, s) == IF s = 0 THEN container
                         ELSE IF s \in X THEN RemoveSource(f[s - 1], source[s])
                         ELSE f[s - 1]
           G == {n \in 0 .. MaxScripts : \E f : f = [s \in 0 .. n |-> Body(f, s)]}
<1>0. MaxScripts \in Nat
  BY SourceContainerAssumption
<1>1. 0 \in G
  <2> DEFINE f == [s \in 0 .. 0 |-> container]
  <2>1. f = [s \in 0 .. 0 |-> Body(f, s)]
    OBVIOUS
  <2> HIDE DEF f
  <2>2. \E h : h = [s \in 0 .. 0 |-> Body(h, s)]
    BY <2>1
  <2> QED BY <1>0, <2>2
<1>2. ASSUME NEW n \in 0 .. MaxScripts, n \in G, n < MaxScripts
      PROVE  n + 1 \in G
  <2>1. PICK f : f = [s \in 0 .. n |-> Body(f, s)]
    BY <1>2
  <2> DEFINE g == [s \in 0 .. n + 1 |-> IF s <= n THEN f[s] ELSE Body(f, n + 1)]
  <2>2. ASSUME NEW s \in 0 .. n + 1
        PROVE  g[s] = Body(g, s)
    <3>1. CASE s = 0
      BY <2>1, <3>1
    <3>2. CASE s # 0
      <4>1. s - 1 \in 0 .. n /\ g[s - 1] = f[s - 1]
        BY <3>2
      <4>2. g[s] = Body(f, s)
        <5>1. CASE s <= n
          <6>1. s \in 0 .. n
            BY <5>1
          <6> QED BY <2>1, <5>1, <6>1
        <5>2. CASE s = n + 1
          BY <5>2
        <5> QED BY <5>1, <5>2
      <4> QED BY <3>2, <4>1, <4>2
    <3> QED BY <3>1, <3>2
  <2>3. g = [s \in 0 .. n + 1 |-> Body(g, s)]
    BY <2>2
  <2>4. n + 1 \in 0 .. MaxScripts
    BY <1>0, <1>2
  <2> QED BY <2>3, <2>4
<1>3. MaxScripts \in G
  <2> HIDE DEF G
  <2>1. \A n \in 0 .. MaxScripts : n \in G
    BY <1>0, <1>1, <1>2, InductionUpTo
  <2> QED BY <1>0, <2>1
<1>4. PICK f : f = [s \in 0 .. MaxScripts |-> Body(f, s)]
  BY <1>3
<1> DEFINE after == CHOOSE g : g = [s \in 0 .. MaxScripts |-> Body(g, s)]
<1>5. after = [s \in 0 .. MaxScripts |-> Body(after, s)]
  BY <1>4
<1>6. RemoveSourcesOf(X) = after[MaxScripts]
  BY DEF RemoveSourcesOf
<1>7. \A s \in 0 .. MaxScripts : after[s] = Body(after, s)
  BY <1>5
<1> HIDE DEF after
<1> QED BY <1>0, <1>6, <1>7

(* They are removed, and nothing is added.                                 *)
LEMMA RemovalsShrink ==
  ASSUME Typed(container), RefsAgree(container), NEW X, \A s \in X : source[s] \in Sources
  PROVE  /\ Shrinks(container, RemoveSourcesOf(X))
         /\ \A s \in X \intersect Scripts : source[s] \notin In(RemoveSourcesOf(X))
<1>0. MaxScripts \in Nat
  BY SourceContainerAssumption
<1>1. PICK after : /\ RemoveSourcesOf(X) = after[MaxScripts]
                   /\ after[0] = container
                   /\ \A s \in 1 .. MaxScripts :
                        after[s] = IF s \in X THEN RemoveSource(after[s - 1], source[s])
                                   ELSE after[s - 1]
  BY RemovalRecursion
<1> DEFINE Done(n) == /\ Shrinks(container, after[n])
                      /\ \A s \in X \intersect (1 .. n) : source[s] \notin In(after[n])
           G == {n \in 0 .. MaxScripts : Done(n)}
<1>2. 0 \in G
  BY <1>0, <1>1, ShrinksNot
<1>3. ASSUME NEW n \in 0 .. MaxScripts, n \in G, n < MaxScripts
      PROVE  n + 1 \in G
  <2>1. n + 1 \in 1 .. MaxScripts /\ (n + 1) - 1 = n
    BY <1>0, <1>3
  <2>2. Shrinks(container, after[n]) /\ Typed(after[n]) /\ RefsAgree(after[n])
    BY <1>3, ShrinksKeeps DEF Shrinks
  <2>3. CASE n + 1 \in X
    <3>1. after[n + 1] = RemoveSource(after[n], source[n + 1])
      BY <1>1, <2>1, <2>3
    <3>2. /\ Shrinks(after[n], after[n + 1])
          /\ source[n + 1] \notin In(after[n + 1])
      BY <2>2, <2>3, <3>1, RemoveShrinks
    <3>3. Shrinks(container, after[n + 1]) /\ In(after[n + 1]) \subseteq In(after[n])
      BY <2>2, <3>2, ShrinksTrans, ShrinksKeeps
    <3>4. \A s \in X \intersect (1 .. (n + 1)) : s = n + 1 \/ s \in X \intersect (1 .. n)
      BY <1>0
    <3> QED BY <1>3, <2>1, <3>2, <3>3, <3>4
  <2>4. CASE n + 1 \notin X
    <3>1. after[n + 1] = after[n]
      BY <1>1, <2>1, <2>4
    <3>2. \A s \in X \intersect (1 .. (n + 1)) : s \in X \intersect (1 .. n)
      BY <1>0, <2>4
    <3> QED BY <1>3, <2>1, <3>1, <3>2
  <2> QED BY <2>3, <2>4
<1>4. MaxScripts \in G
  <2> HIDE DEF G
  <2>1. \A n \in 0 .. MaxScripts : n \in G
    BY <1>0, <1>2, <1>3, InductionUpTo
  <2> QED BY <1>0, <2>1
<1> QED BY <1>1, <1>4 DEF Scripts

-----------------------------------------------------------------------------
(* The types are kept.                                                     *)

(* The type invariant follows.                                             *)
LEMMA TypeInvImpliesTypeOK == TypeInv => TypeOK
  BY DEF TypeInv, ScriptsAreTyped, Typed, TypeOK

(* Scripts are numbered as they are parsed.                                *)
LEMMA ParsedScripts ==
  ASSUME ScriptsAreTyped
  PROVE  /\ Len(script) \in Nat /\ DOMAIN script = 1 .. Len(script)
         /\ DOMAIN script \subseteq Scripts
         /\ \A s \in DOMAIN script : script[s] \in ScriptInfo
  BY SourceContainerAssumption DEF ScriptsAreTyped, Scripts

(* A source exists if its script has one.                                  *)
LEMMA SourcesOfScripts ==
  ASSUME ScriptsAreTyped, NEW s \in Scripts
  PROVE  /\ source[s] # NoSource => /\ source[s] \in Compiled /\ source[s] \in Sources
                                    /\ source[s][1] \in Scripts
                                    /\ source[s] = <<source[s][1], self>>
         /\ <<s, self>> # NoSource
  BY SourceShapes DEF ScriptsAreTyped, Optional

(* The types hold at the start.                                            *)
LEMMA InitTypeInv == Init => TypeInv
<1> SUFFICES ASSUME Init PROVE TypeInv
  OBVIOUS
<1>1. ScriptsAreTyped
  BY SourceContainerAssumption DEF Init, ScriptsAreTyped, Optional
<1>2. /\ DOMAIN container = Fields
      /\ container.ref = [x \in Sources |-> NoReference]
      /\ container.byRef = <<>>
      /\ container.byUrl = [u \in Urls |-> NoSource]
      /\ container.byMapUrl = [u \in OriginalUrls |-> NoSource]
      /\ container.sourceByUrl = [s \in Scripts |-> [u \in OriginalUrls |-> NoSource]]
      /\ container.compiledTo = [x \in Originals |-> {}]
  BY DEF Init, Fields
<1>3. DOMAIN container.byRef = {}
  BY <1>2
<1>4. Typed(container)
  BY <1>2, <1>3 DEF Typed, Optional
<1>5. RefsAgree(container) /\ In(container) = {}
  BY <1>3 DEF RefsAgree, In
<1>6. ScriptsAreAdded /\ ScriptsAreKept
  BY <1>5 DEF Init, ScriptsAreAdded, ScriptsAreKept
<1> QED BY <1>1, <1>4, <1>5, <1>6 DEF TypeInv

(* A script that waits for its source.                                     *)
LEMMA ScriptParsedTypeInv ==
  ASSUME TypeInv, NEW c \in Contexts, NEW u \in ScriptUrls, ScriptParsed(c, u)
  PROVE  TypeInv'
<1>1. /\ script' = Append(script, [context |-> c, url |-> u]) /\ Len(script) < MaxScripts
      /\ context' = context /\ source' = source /\ scripts' = scripts /\ removed' = removed
      /\ load' = load /\ todo' = todo /\ container' = container
  BY DEF ScriptParsed
<1>2. ScriptsAreTyped
  BY DEF TypeInv
<1>3. [context |-> c, url |-> u] \in ScriptInfo
  BY DEF ScriptInfo
<1>4. script' \in Seq(ScriptInfo) /\ Len(script') = Len(script) + 1 /\ DOMAIN script \subseteq DOMAIN script'
  BY <1>1, <1>2, <1>3 DEF ScriptsAreTyped
<1>5. ScriptsAreTyped'
  <2>1. Len(script') <= MaxScripts
    BY <1>1, <1>2, <1>4, ParsedScripts, SourceContainerAssumption
  <2> QED BY <1>1, <1>2, <1>4, <2>1 DEF ScriptsAreTyped
<1>6. Typed(container') /\ RefsAgree(container') /\ ScriptsAreAdded'
  BY <1>1 DEF TypeInv, ScriptsAreAdded
<1>7. ScriptsAreKept'
  BY <1>1, <1>4 DEF TypeInv, ScriptsAreKept
<1> QED BY <1>5, <1>6, <1>7 DEF TypeInv

(* A script that shares the source of an earlier one.                      *)
LEMMA SameScriptParsedTypeInv ==
  ASSUME TypeInv, NEW c \in Contexts, NEW u \in ScriptUrls, SameScriptParsed(c, u)
  PROVE  TypeInv'
<1> DEFINE prev == container.byUrl[u]
           s == Len(script) + 1
<1>1. /\ script' = Append(script, [context |-> c, url |-> u]) /\ Len(script) < MaxScripts
      /\ prev \in Compiled
      /\ source' = [source EXCEPT ![s] = prev]
      /\ scripts' = [scripts EXCEPT ![prev[1]] = @ \union {s}]
      /\ context' = context /\ removed' = removed
      /\ load' = load /\ todo' = todo /\ container' = container
  BY DEF SameScriptParsed
<1> HIDE DEF prev
<1>2. ScriptsAreTyped
  BY DEF TypeInv
<1>3. [context |-> c, url |-> u] \in ScriptInfo
  BY DEF ScriptInfo
<1>4. script' \in Seq(ScriptInfo) /\ Len(script') = Len(script) + 1
       /\ DOMAIN script' = DOMAIN script \union {s}
  BY <1>1, <1>2, <1>3 DEF ScriptsAreTyped
<1>5. s \in Scripts /\ s \notin DOMAIN script /\ Len(script') <= MaxScripts
  BY <1>1, <1>2, <1>4, ParsedScripts, SourceContainerAssumption DEF Scripts
<1>6. prev[1] \in Scripts /\ prev = <<prev[1], self>>
  BY <1>1, SourceShapes
<1>7. /\ source[s] = NoSource /\ source'[s] = prev
      /\ \A t \in Scripts : t # s => source'[t] = source[t]
      /\ \A t \in Scripts : scripts'[t] \subseteq Scripts /\ scripts[t] \subseteq scripts'[t]
      /\ \A t \in Scripts : \A y \in scripts'[t] : y \in scripts[t] \/ (y = s /\ t = prev[1])
  <2>1. source[s] = NoSource /\ source'[s] = prev /\ \A t \in Scripts : t # s => source'[t] = source[t]
    BY <1>1, <1>2, <1>5 DEF ScriptsAreTyped
  <2>2. /\ scripts'[prev[1]] = scripts[prev[1]] \union {s}
        /\ \A t \in Scripts : t # prev[1] => scripts'[t] = scripts[t]
    BY <1>1, <1>2, <1>6 DEF ScriptsAreTyped
  <2>3. \A t \in Scripts : scripts[t] \subseteq Scripts
    BY <1>2 DEF ScriptsAreTyped
  <2>4. s \in Scripts
    BY <1>5
  <2> HIDE DEF s
  <2>5. ASSUME NEW t \in Scripts
        PROVE  /\ scripts'[t] \subseteq Scripts /\ scripts[t] \subseteq scripts'[t]
               /\ \A y \in scripts'[t] : y \in scripts[t] \/ (y = s /\ t = prev[1])
    <3>1. CASE t = prev[1]
      <4>1. scripts'[t] = scripts[t] \union {s} /\ scripts[t] \subseteq Scripts
        BY <2>2, <2>3, <3>1
      <4> QED BY <2>4, <3>1, <4>1
    <3>2. CASE t # prev[1]
      <4>1. scripts'[t] = scripts[t] /\ scripts[t] \subseteq Scripts
        BY <2>2, <2>3, <3>2
      <4> QED BY <4>1
    <3> QED BY <3>1, <3>2
  <2> QED BY <2>1, <2>5
<1>8. ScriptsAreTyped'
  <2>1. source' \in [Scripts -> Optional(Compiled)] /\ scripts' \in [Scripts -> SUBSET Scripts]
    BY <1>1, <1>2, <1>5, <1>6 DEF ScriptsAreTyped, Optional
  <2>2. \A t \in Scripts : source'[t] # NoSource => t \in DOMAIN script'
    BY <1>2, <1>4, <1>7 DEF ScriptsAreTyped
  <2>3. \A t \in Scripts : \A y \in scripts'[t] : source'[y] = <<t, self>>
    <3>0. \A t \in Scripts : <<t, self>> # NoSource
      BY <1>2, SourcesOfScripts
    <3>1. \A t \in Scripts : \A y \in scripts[t] : y \in Scripts /\ y # s
      <4>1. \A t \in Scripts : scripts[t] \subseteq Scripts /\ \A y \in scripts[t] : source[y] = <<t, self>>
        BY <1>2 DEF ScriptsAreTyped
      <4>2. source[s] = NoSource
        BY <1>7
      <4> HIDE DEF s
      <4> QED BY <3>0, <4>1, <4>2
    <3> QED BY <1>2, <1>6, <1>7, <3>1 DEF ScriptsAreTyped
  <2> QED BY <1>1, <1>2, <1>4, <1>5, <2>1, <2>2, <2>3 DEF ScriptsAreTyped
<1>9. ScriptsAreAdded'
  <2>1. \A t \in Scripts : source[t] = <<t, self>> => source'[t] = <<t, self>>
    BY <1>2, <1>7, SourcesOfScripts
  <2> QED BY <1>1, <2>1 DEF TypeInv, ScriptsAreAdded
<1>10. ScriptsAreKept'
  <2>1. \A t \in removed : t \in Scripts /\ t \in DOMAIN script /\ t # s /\ source[t] # NoSource
    BY <1>2, <1>5 DEF TypeInv, ScriptsAreKept, ScriptsAreTyped
  <2>2. \A t \in removed : t \in DOMAIN script' /\ source'[t] # NoSource
    BY <1>4, <1>7, <2>1
  <2>3. \A t \in Scripts : scripts'[t] \intersect removed = {}
    BY <1>7, <2>1 DEF TypeInv, ScriptsAreKept
  <2>4. \A t \in Scripts : <<t, self>> \in In(container) => scripts'[t] # {}
    BY <1>7 DEF TypeInv, ScriptsAreKept
  <2> QED BY <1>1, <2>2, <2>3, <2>4 DEF ScriptsAreKept
<1> QED BY <1>1, <1>8, <1>9, <1>10 DEF TypeInv

(* The URL of the source of a script.                                      *)
LEMMA UrlOfScript ==
  ASSUME ScriptsAreTyped, NEW s \in DOMAIN script
  PROVE  /\ s \in Scripts /\ <<s, self>> \in Compiled
         /\ UrlOf(<<s, self>>) = script[s].url /\ UrlOf(<<s, self>>) \in Urls
<1>1. s \in Scripts /\ script[s].url \in ScriptUrls
  BY ParsedScripts DEF ScriptInfo
<1> QED BY <1>1, SourceShapes DEF UrlOf, Urls

(* The source of a script is added.                                        *)
LEMMA SourceAddedTypeInv ==
  ASSUME TypeInv, NEW s \in Scripts, SourceAdded(s)
  PROVE  TypeInv'
<1> DEFINE x == <<s, self>>
           k == AddSource(NewSource(container, x), x)
<1>1. /\ s \in DOMAIN script /\ source[s] = NoSource
      /\ source' = [source EXCEPT ![s] = x]
      /\ scripts' = [scripts EXCEPT ![s] = {s}]
      /\ container' = k
      /\ load' = [load EXCEPT ![s] = IF MapOf[script[s].url] = {} THEN "none" ELSE "loading"]
      /\ context' = context /\ script' = script /\ removed' = removed /\ todo' = todo
  BY DEF SourceAdded
<1>2. ScriptsAreTyped /\ Typed(container) /\ RefsAgree(container)
  BY DEF TypeInv
<1>3. x \in Compiled /\ UrlOf(x) \in Urls /\ x # NoSource
  BY <1>1, <1>2, UrlOfScript, SourcesOfScripts
<1>4. x \notin In(container) /\ load[s] = "none" /\ todo[s] = {}
  BY <1>1, <1>2, <1>3 DEF TypeInv, ScriptsAreAdded, ScriptsAreTyped
<1>5. Typed(k) /\ RefsAgree(k) /\ In(k) \subseteq In(container) \union {x}
  <2> HIDE DEF x
  <2> QED BY <1>2, <1>3, <1>4, AddNewScriptIsTyped
<1> HIDE DEF k
<1>6. /\ source'[s] = x /\ \A t \in Scripts : t # s => source'[t] = source[t]
      /\ scripts'[s] = {s} /\ \A t \in Scripts : t # s => scripts'[t] = scripts[t]
      /\ load'[s] \in {"none", "loading"} /\ \A t \in Scripts : t # s => load'[t] = load[t]
  BY <1>1, <1>2 DEF ScriptsAreTyped
<1>7. ScriptsAreTyped'
  <2>1. source' \in [Scripts -> Optional(Compiled)] /\ scripts' \in [Scripts -> SUBSET Scripts]
    BY <1>1, <1>2, <1>3 DEF ScriptsAreTyped, Optional
  <2>2. \A t \in Scripts : source'[t] # NoSource => t \in DOMAIN script'
    BY <1>1, <1>2, <1>6 DEF ScriptsAreTyped
  <2>3. \A t \in Scripts : \A y \in scripts'[t] : source'[y] = <<t, self>>
    <3>1. \A t \in Scripts : \A y \in scripts[t] : y \in Scripts /\ y # s
      BY <1>1, <1>2, SourcesOfScripts DEF ScriptsAreTyped
    <3> QED BY <1>2, <1>6, <3>1 DEF ScriptsAreTyped
  <2>4. load' \in [Scripts -> {"none", "loading", "adding", "ready"}]
    BY <1>1, <1>2 DEF ScriptsAreTyped
  <2>5. \A t \in Scripts : todo'[t] # {} => load'[t] = "adding"
    BY <1>1, <1>2, <1>4, <1>6 DEF ScriptsAreTyped
  <2> QED BY <1>1, <1>2, <2>1, <2>2, <2>3, <2>4, <2>5 DEF ScriptsAreTyped
<1>8. ScriptsAreAdded'
  <2>1. \A t \in Scripts : source[t] = <<t, self>> => source'[t] = <<t, self>>
    BY <1>6
  <2>2. \A t \in Scripts : load'[t] # "none" => source'[t] = <<t, self>>
    BY <1>6, <2>1 DEF TypeInv, ScriptsAreAdded
  <2>3. \A t \in Scripts : <<t, self>> \in In(k) => source'[t] = <<t, self>>
    BY <1>5, <1>6, <2>1 DEF TypeInv, ScriptsAreAdded
  <2>4. ASSUME NEW t \in Scripts, NEW u \in OriginalUrls, <<t, u>> \in In(k)
        PROVE  load'[t] \in {"adding", "ready"} /\ u \notin todo'[t]
    <3>1. <<t, u>> # x
      BY SourceContainerAssumption
    <3>2. <<t, u>> \in In(container)
      BY <1>5, <2>4, <3>1
    <3>3. load[t] \in {"adding", "ready"} /\ u \notin todo[t]
      BY <3>2 DEF TypeInv, ScriptsAreAdded
    <3> QED BY <1>1, <1>4, <1>6, <3>3
  <2> QED BY <1>1, <2>2, <2>3, <2>4 DEF ScriptsAreAdded
<1>9. ScriptsAreKept'
  <2>1. \A t \in removed : t \in Scripts /\ t \in DOMAIN script /\ t # s /\ source[t] # NoSource
    BY <1>1, <1>2 DEF TypeInv, ScriptsAreKept, ScriptsAreTyped
  <2>2. \A t \in removed : t \in DOMAIN script' /\ source'[t] # NoSource
    BY <1>1, <1>6, <2>1
  <2>3. \A t \in Scripts : scripts'[t] \intersect removed = {}
    BY <1>6, <2>1 DEF TypeInv, ScriptsAreKept
  <2>4. \A t \in Scripts : <<t, self>> \in In(k) => scripts'[t] # {}
    BY <1>5, <1>6 DEF TypeInv, ScriptsAreKept
  <2> QED BY <1>1, <2>2, <2>3, <2>4 DEF ScriptsAreKept
<1> QED BY <1>1, <1>5, <1>7, <1>8, <1>9 DEF TypeInv

(* The map of a script is there or is not, and nothing is added.           *)
LEMMA MapStateTypeInv ==
  ASSUME TypeInv, NEW s \in Scripts, load[s] \in {"loading", "adding"}, todo[s] = {},
         NEW state \in {"adding", "ready"}, NEW urls \in SUBSET OriginalUrls,
         urls # {} => state = "adding" /\ load[s] = "loading",
         load' = [load EXCEPT ![s] = state], todo' = [todo EXCEPT ![s] = urls],
         UNCHANGED <<context, script, source, scripts, removed, container>>
  PROVE  TypeInv'
<1>1. ScriptsAreTyped
  BY DEF TypeInv
<1>2. /\ load'[s] = state /\ \A t \in Scripts : t # s => load'[t] = load[t]
      /\ todo'[s] = urls /\ \A t \in Scripts : t # s => todo'[t] = todo[t]
  BY <1>1 DEF ScriptsAreTyped
<1>3. ScriptsAreTyped'
  <2>1. /\ load' \in [Scripts -> {"none", "loading", "adding", "ready"}]
        /\ todo' \in [Scripts -> SUBSET OriginalUrls]
    BY <1>1 DEF ScriptsAreTyped
  <2>2. \A t \in Scripts : todo'[t] # {} => load'[t] = "adding"
    BY <1>1, <1>2 DEF ScriptsAreTyped
  <2> QED BY <1>1, <2>1, <2>2 DEF ScriptsAreTyped
<1>4. ScriptsAreAdded'
  <2>1. \A t \in Scripts : load'[t] # "none" => source[t] = <<t, self>>
    BY <1>2 DEF TypeInv, ScriptsAreAdded
  <2>2. \A t \in Scripts, u \in OriginalUrls : <<t, u>> \in In(container) =>
          load'[t] \in {"adding", "ready"} /\ u \notin todo'[t]
    BY <1>2 DEF TypeInv, ScriptsAreAdded
  <2> QED BY <2>1, <2>2 DEF TypeInv, ScriptsAreAdded
<1>5. ScriptsAreKept'
  BY DEF TypeInv, ScriptsAreKept
<1> QED BY <1>3, <1>4, <1>5 DEF TypeInv

(* The steps of a source map which add nothing.                            *)
LEMMA LoadTypeInv ==
  ASSUME TypeInv, NEW s \in Scripts, LoadFails(s) \/ Loaded(s) \/ AllAdded(s)
  PROVE  TypeInv'
<1>1. ScriptsAreTyped
  BY DEF TypeInv
<1>2. todo = [todo EXCEPT ![s] = todo[s]] /\ (load[s] = "loading" => todo[s] = {})
  BY <1>1 DEF ScriptsAreTyped
<1>3. CASE /\ load[s] \in {"loading", "adding"} /\ todo[s] = {} /\ MapIsReady(s)
           /\ UNCHANGED <<context, script, source, scripts, removed, container>>
  <2>1. todo' = [todo EXCEPT ![s] = {}] /\ load' = [load EXCEPT ![s] = "ready"]
    BY <1>2, <1>3 DEF MapIsReady
  <2> QED BY <1>3, <2>1, MapStateTypeInv
<1>4. CASE /\ load[s] = "loading"
           /\ load' = [load EXCEPT ![s] = "adding"]
           /\ todo' = [todo EXCEPT ![s] = MapOf[script[s].url]]
           /\ UNCHANGED <<context, script, source, scripts, removed, container>>
  <2>1. source[s] = <<s, self>> /\ <<s, self>> # NoSource
    BY <1>1, <1>4, SourcesOfScripts DEF TypeInv, ScriptsAreAdded
  <2>2. s \in DOMAIN script
    BY <1>1, <2>1 DEF ScriptsAreTyped
  <2>3. script[s].url \in ScriptUrls
    BY <1>1, <2>2, ParsedScripts DEF ScriptInfo
  <2>4. MapOf[script[s].url] \in SUBSET OriginalUrls
    BY <2>3, SourceContainerAssumption
  <2> QED BY <1>2, <1>4, <2>4, MapStateTypeInv
<1> QED BY <1>2, <1>3, <1>4 DEF LoadFails, Loaded, AllAdded

(* A file of the map of a script is added, or linked with it.              *)
LEMMA OriginalAddedTypeInv ==
  ASSUME TypeInv, NEW s \in Scripts, NEW u \in OriginalUrls, OriginalAdded(s, u)
  PROVE  TypeInv'
<1> DEFINE existing == container.byMapUrl[u]
           removedOne == RemoveSource(container, existing)
           x == <<s, u>>
<1>1. /\ u \in todo[s]
      /\ todo' = [todo EXCEPT ![s] = @ \ {u}]
      /\ UNCHANGED <<context, script, source, scripts, removed, load>>
  BY DEF OriginalAdded
<1>2. ScriptsAreTyped /\ Typed(container) /\ RefsAgree(container)
  BY DEF TypeInv
<1>3. load[s] = "adding" /\ x \notin In(container)
  BY <1>1, <1>2 DEF TypeInv, ScriptsAreTyped, ScriptsAreAdded
<1>4. existing \in Optional(Originals)
  BY <1>2 DEF Typed
<1>5. \/ container' = AddNewOriginal(container, s, u)
      \/ existing # NoSource /\ container' = AddNewOriginal(removedOne, s, u)
      \/ existing # NoSource /\ container' = Link(container, s, existing)
  BY DEF OriginalAdded
<1> HIDE DEF existing, removedOne, x
<1>6. Typed(container') /\ RefsAgree(container') /\ In(container') \subseteq In(container) \union {x}
  <2>1. CASE container' = AddNewOriginal(container, s, u)
    BY <1>2, <1>3, <2>1, AddNewOriginalIsTyped DEF x
  <2>2. CASE existing # NoSource /\ container' = AddNewOriginal(removedOne, s, u)
    <3>1. existing \in Sources
      BY <1>4, <2>2, SourceShapes DEF Optional
    <3>2. Shrinks(container, removedOne)
      BY <1>2, <3>1, RemoveShrinks DEF removedOne
    <3>3. Typed(removedOne) /\ RefsAgree(removedOne) /\ In(removedOne) \subseteq In(container)
      BY <1>2, <3>2, ShrinksKeeps DEF Shrinks
    <3>4. <<s, u>> \notin In(removedOne)
      BY <1>3, <3>3 DEF x
    <3>5. /\ Typed(container') /\ RefsAgree(container')
          /\ In(container') \subseteq In(removedOne) \union {x}
      BY <2>2, <3>3, <3>4, AddNewOriginalIsTyped DEF x
    <3> QED BY <3>3, <3>5
  <2>3. CASE existing # NoSource /\ container' = Link(container, s, existing)
    <3>1. existing \in Originals
      BY <1>4, <2>3 DEF Optional
    <3>2. Linked(container, s, existing, container')
      BY <1>2, <2>3, <3>1, LinkFields
    <3> QED BY <1>2, <3>2 DEF Linked
  <2> QED BY <1>5, <2>1, <2>2, <2>3
<1>7. /\ todo'[s] = todo[s] \ {u}
      /\ \A t \in Scripts : t # s => todo'[t] = todo[t]
      /\ todo' \in [Scripts -> SUBSET OriginalUrls]
  BY <1>1, <1>2 DEF ScriptsAreTyped
<1>8. ScriptsAreTyped'
  <2>1. \A t \in Scripts : todo'[t] # {} => load[t] = "adding"
    BY <1>2, <1>3, <1>7 DEF ScriptsAreTyped
  <2> QED BY <1>1, <1>2, <1>7, <2>1 DEF ScriptsAreTyped
<1>9. ScriptsAreAdded'
  <2>1. \A t \in Scripts : <<t, self>> # x
    BY SourceContainerAssumption DEF x
  <2>2. \A t \in Scripts : <<t, self>> \in In(container') => source[t] = <<t, self>>
    BY <1>6, <2>1 DEF TypeInv, ScriptsAreAdded
  <2>3. ASSUME NEW t \in Scripts, NEW v \in OriginalUrls, <<t, v>> \in In(container')
        PROVE  load[t] \in {"adding", "ready"} /\ v \notin todo'[t]
    <3>1. CASE <<t, v>> = x
      BY <1>3, <1>7, <3>1 DEF x
    <3>2. CASE <<t, v>> # x
      <4>1. load[t] \in {"adding", "ready"} /\ v \notin todo[t]
        BY <1>6, <2>3, <3>2 DEF TypeInv, ScriptsAreAdded
      <4>2. todo'[t] \subseteq todo[t]
        BY <1>7
      <4> QED BY <4>1, <4>2
    <3> QED BY <3>1, <3>2
  <2> QED BY <1>1, <2>2, <2>3 DEF TypeInv, ScriptsAreAdded
<1>10. ScriptsAreKept'
  <2>1. \A t \in Scripts : <<t, self>> # x
    BY SourceContainerAssumption DEF x
  <2>2. \A t \in Scripts : <<t, self>> \in In(container') => scripts[t] # {}
    BY <1>6, <2>1 DEF TypeInv, ScriptsAreKept
  <2> QED BY <1>1, <2>2 DEF TypeInv, ScriptsAreKept
<1> QED BY <1>6, <1>8, <1>9, <1>10 DEF TypeInv

(* What is left when the scripts of a context are removed.                 *)
LEMMA RemovedSources ==
  ASSUME TypeInv, NEW c \in Contexts, ScriptsRemoved(c)
  PROVE  /\ Shrinks(container, container')
         /\ \A s \in Due(c) : ScriptsNotOf(c, source[s][1]) = {} => source[s] \notin In(container')
<1> DEFINE X == {s \in Due(c) : ScriptsNotOf(c, source[s][1]) = {}}
<1>1. container' = RemoveSourcesOf(X)
  BY DEF ScriptsRemoved
<1>2. \A s \in Due(c) : s \in Scripts /\ source[s] # NoSource
  BY DEF Due, IsDue
<1>3. \A s \in X : s \in Scripts /\ source[s] \in Sources
  BY <1>2, SourcesOfScripts DEF TypeInv
<1>4. Typed(container) /\ RefsAgree(container)
  BY DEF TypeInv
<1> HIDE DEF X
<1>5. /\ Shrinks(container, container')
      /\ \A s \in X \intersect Scripts : source[s] \notin In(container')
  BY <1>1, <1>3, <1>4, RemovalsShrink
<1> QED BY <1>3, <1>5 DEF X

(* The scripts of a context are removed.                                   *)
LEMMA ScriptsRemovedTypeInv ==
  ASSUME TypeInv, NEW c \in Contexts, ScriptsRemoved(c)
  PROVE  TypeInv'
<1> DEFINE sources == {source[s][1] : s \in Due(c)}
<1>1. /\ removed' = removed \union Due(c)
      /\ scripts' = [s \in Scripts |-> IF s \in sources THEN ScriptsNotOf(c, s) ELSE scripts[s]]
      /\ UNCHANGED <<context, script, source, load, todo>>
  BY DEF ScriptsRemoved
<1>2. ScriptsAreTyped /\ Typed(container) /\ RefsAgree(container)
  BY DEF TypeInv
<1>3. /\ Shrinks(container, container')
      /\ \A s \in Due(c) : ScriptsNotOf(c, source[s][1]) = {} => source[s] \notin In(container')
  BY RemovedSources
<1>4. \A s \in Due(c) : /\ s \in Scripts /\ s \in DOMAIN script /\ script[s].context = c
                        /\ source[s] # NoSource
  BY DEF Due, IsDue
<1>5. \A s \in Scripts : scripts[s] \subseteq Scripts /\ \A t \in scripts[s] : source[t] = <<s, self>>
  BY <1>2 DEF ScriptsAreTyped
<1> HIDE DEF sources
<1>6. \A s \in Scripts : /\ scripts'[s] \subseteq scripts[s]
                         /\ s \in sources => scripts'[s] = ScriptsNotOf(c, s)
                         /\ s \notin sources => scripts'[s] = scripts[s]
  BY <1>1 DEF ScriptsNotOf
<1>7. Typed(container') /\ RefsAgree(container') /\ In(container') \subseteq In(container)
  BY <1>2, <1>3, ShrinksKeeps DEF Shrinks
<1>8. ScriptsAreTyped'
  <2>1. removed' \subseteq Scripts
    BY <1>1, <1>2, <1>4 DEF ScriptsAreTyped
  <2>2. scripts' \in [Scripts -> SUBSET Scripts]
    <3>1. \A s \in Scripts : (IF s \in sources THEN ScriptsNotOf(c, s) ELSE scripts[s]) \in SUBSET Scripts
      BY <1>5 DEF ScriptsNotOf
    <3> QED BY <1>1, <3>1
  <2>3. \A s \in Scripts : \A t \in scripts'[s] : source[t] = <<s, self>>
    BY <1>5, <1>6
  <2> QED BY <1>1, <1>2, <2>1, <2>2, <2>3 DEF ScriptsAreTyped
<1>9. ScriptsAreAdded'
  BY <1>1, <1>7 DEF TypeInv, ScriptsAreAdded
<1>10. ScriptsAreKept'
  <2>1. \A s \in removed' : s \in DOMAIN script /\ source[s] # NoSource
    BY <1>1, <1>4 DEF TypeInv, ScriptsAreKept
  <2>2. ASSUME NEW s \in Scripts, NEW t \in scripts'[s], t \in removed'
        PROVE  FALSE
    <3>1. t \in scripts[s] /\ t \notin removed /\ source[t] = <<s, self>>
      BY <1>5, <1>6, <2>2 DEF TypeInv, ScriptsAreKept
    <3>2. t \in Due(c) /\ s \in sources
      BY <1>1, <2>2, <3>1 DEF sources
    <3> QED BY <1>4, <1>6, <2>2, <3>2 DEF ScriptsNotOf
  <2>3. ASSUME NEW s \in Scripts, <<s, self>> \in In(container'), scripts'[s] = {}
        PROVE  FALSE
    <3>1. scripts[s] # {}
      BY <1>7, <2>3 DEF TypeInv, ScriptsAreKept
    <3>2. s \in sources /\ ScriptsNotOf(c, s) = {}
      BY <1>6, <2>3, <3>1
    <3>3. PICK d \in Due(c) : s = source[d][1]
      BY <3>2 DEF sources
    <3>4. source[d] = <<s, self>>
      BY <1>2, <1>4, <3>3, SourcesOfScripts
    <3> QED BY <1>3, <2>3, <3>2, <3>3, <3>4
  <2> QED BY <1>1, <2>1, <2>2, <2>3 DEF ScriptsAreKept
<1> QED BY <1>7, <1>8, <1>9, <1>10 DEF TypeInv

(* Every step keeps the types.                                             *)
LEMMA NextTypeInv == TypeInv /\ [Next]_vars => TypeInv'
<1> SUFFICES ASSUME TypeInv, [Next]_vars
             PROVE  TypeInv'
  OBVIOUS
<1>1. ASSUME NEW c \in Contexts, NEW u \in ScriptUrls, ScriptParsed(c, u)
      PROVE  TypeInv'
  BY <1>1, ScriptParsedTypeInv
<1>2. ASSUME NEW c \in Contexts, NEW u \in ScriptUrls, SameScriptParsed(c, u)
      PROVE  TypeInv'
  BY <1>2, SameScriptParsedTypeInv
<1>3. ASSUME NEW c \in Contexts, ContextDestroyed(c)
      PROVE  TypeInv'
  <2>1. context' \in [Contexts -> {"live", "destroyed"}]
    BY <1>3 DEF ContextDestroyed, TypeInv, ScriptsAreTyped
  <2>2. UNCHANGED <<script, source, scripts, removed, load, todo, container>>
    BY <1>3 DEF ContextDestroyed
  <2> QED BY <2>1, <2>2 DEF TypeInv, ScriptsAreTyped, ScriptsAreAdded, ScriptsAreKept
<1>4. ASSUME NEW c \in Contexts, ScriptsRemoved(c)
      PROVE  TypeInv'
  BY <1>4, ScriptsRemovedTypeInv
<1>5. ASSUME NEW s \in Scripts, SourceAdded(s)
      PROVE  TypeInv'
  BY <1>5, SourceAddedTypeInv
<1>6. ASSUME NEW s \in Scripts, LoadFails(s) \/ Loaded(s) \/ AllAdded(s)
      PROVE  TypeInv'
  BY <1>6, LoadTypeInv
<1>7. ASSUME NEW s \in Scripts, NEW u \in OriginalUrls, OriginalAdded(s, u)
      PROVE  TypeInv'
  BY <1>7, OriginalAddedTypeInv
<1>8. CASE UNCHANGED vars
  BY <1>8 DEF vars, TypeInv, ScriptsAreTyped, ScriptsAreAdded, ScriptsAreKept
<1> QED BY <1>1, <1>2, <1>3, <1>4, <1>5, <1>6, <1>7, <1>8 DEF Next, Runtime, MapStep

-----------------------------------------------------------------------------
(* What holds whatever the references.                                     *)

(* The invariant is reached.                                               *)
LEMMA TypeInvHolds == Spec => []TypeInv
  BY InitTypeInv, NextTypeInv, PTL DEF Spec

(* The variables keep their types; a source is added under a reference     *)
(* that was free.                                                          *)
THEOREM Types == Spec => []TypeOK
  BY TypeInvHolds, TypeInvImpliesTypeOK, PTL

(* A source in the container has a script, and that is not removed.        *)
LEMMA ScriptsAreLive == TypeInv => GoneWithTheirContexts
<1> SUFFICES ASSUME TypeInv, \A c \in Contexts : Due(c) = {}, NEW s \in Scripts, Known(<<s, self>>)
             PROVE  \E t \in scripts[s] : context[script[t].context] = "live"
  BY DEF GoneWithTheirContexts
<1>1. ScriptsAreTyped
  BY DEF TypeInv
<1>2. <<s, self>> \in In(container)
  BY DEF Known, In
<1>3. PICK t \in scripts[s] : TRUE
  BY <1>2 DEF TypeInv, ScriptsAreKept
<1>4. t \in Scripts /\ source[t] # NoSource /\ t \notin removed
  BY <1>1, <1>3, SourcesOfScripts DEF TypeInv, ScriptsAreKept, ScriptsAreTyped
<1>5. t \in DOMAIN script
  BY <1>1, <1>4 DEF ScriptsAreTyped
<1> DEFINE c == script[t].context
<1>6. c \in Contexts
  BY <1>1, <1>5, ParsedScripts DEF ScriptInfo
<1>7. context[c] # "destroyed"
  <2>1. t \notin Due(c)
    BY <1>6
  <2> QED BY <1>4, <1>5, <2>1 DEF Due, IsDue
<1>8. context[c] \in {"live", "destroyed"}
  BY <1>1, <1>6 DEF ScriptsAreTyped
<1> QED BY <1>3, <1>7, <1>8

(* A page that was left leaves no scripts behind, even where references    *)
(* collide: ExecutionContext.remove drops a source when no context that is *)
(* left has a script of it, and nothing else takes its scripts away.       *)
THEOREM LeftPagesAreForgotten == Spec => []GoneWithTheirContexts
  BY TypeInvHolds, ScriptsAreLive, PTL

-----------------------------------------------------------------------------
(* Removing sources, while the maps agree.                                 *)

(* Sources that are forgotten are gone from every map.                     *)
LEMMA ForgetFine ==
  ASSUME NEW k, Typed(k), RefsAgree(k), NEW Y, Fine(k, Y), NEW Z \in SUBSET In(k)
  PROVE  In(Forget(k, Z)) = In(k) \ Z /\ Fine(Forget(k, Z), Y)
<1> DEFINE l == Forget(k, Z)
<1>1. Forgotten(k, Z, l)
  BY ForgetFields DEF Typed
<1> HIDE DEF l
<1>2. In(k) \subseteq Sources
  BY DEF In, Typed
<1>3. In(l) = In(k) \ Z
  <2>1. \A z \in Z : k.ref[z] \in DOMAIN k.byRef /\ k.byRef[k.ref[z]] = z
    BY DEF In, RefsAgree
  <2>2. \A r \in DOMAIN k.byRef : r \in DOMAIN l.byRef <=> k.byRef[r] \notin Z
    <3>1. \A r \in DOMAIN k.byRef : k.ref[k.byRef[r]] = r
      BY DEF RefsAgree
    <3> QED BY <1>1, <2>1, <3>1 DEF Forgotten
  <2>3. \A r \in DOMAIN l.byRef : r \in DOMAIN k.byRef /\ l.byRef[r] = k.byRef[r]
    BY <1>1 DEF Forgotten
  <2> QED BY <2>2, <2>3 DEF In
<1>4. \A y \in Y : y \notin Z
  BY DEF Fine, RefsAgree, In
<1>5. \A z \in Z : IsOriginal(z) => k.byMapUrl[z[2]] = z /\ z[2] \in OriginalUrls
  BY <1>2, SourceShapes DEF Fine, IsOriginal
<1>6. \A u \in OriginalUrls : /\ l.byMapUrl[u] # NoSource => l.byMapUrl[u] = k.byMapUrl[u]
                              /\ l.byMapUrl[u] # NoSource => ~\E z \in Z : IsOriginal(z) /\ z[2] = u
                              /\ l.byMapUrl[u] = NoSource => k.byMapUrl[u] = NoSource
                                                             \/ \E z \in Z : IsOriginal(z) /\ z[2] = u
  BY <1>1 DEF Forgotten
<1>7. ASSUME NEW x \in In(l), IsOriginal(x)
      PROVE  l.byMapUrl[x[2]] = x
  <2>1. x \in Sources /\ x \notin Z /\ k.byMapUrl[x[2]] = x /\ x[2] \in OriginalUrls /\ x # NoSource
    BY <1>2, <1>3, <1>7, SourceShapes DEF Fine, IsOriginal
  <2> QED BY <1>5, <1>6, <2>1
<1>8. \A y \in Y : y \in Originals /\ l.ref[y] \notin DOMAIN l.byRef /\ l.byMapUrl[y[2]] = NoSource
  <2>1. \A y \in Y : y \in Originals /\ k.ref[y] \notin DOMAIN k.byRef /\ k.byMapUrl[y[2]] = NoSource
    BY DEF Fine
  <2> QED BY <1>1, <1>6, <2>1, SourceShapes DEF Forgotten
<1>9. ASSUME NEW u \in OriginalUrls, l.byMapUrl[u] # NoSource
      PROVE  l.byMapUrl[u] \in In(l) /\ l.byMapUrl[u][2] = u
  <2>1. l.byMapUrl[u] = k.byMapUrl[u] /\ ~\E z \in Z : IsOriginal(z) /\ z[2] = u
    BY <1>6, <1>9
  <2>2. k.byMapUrl[u] \in In(k) /\ k.byMapUrl[u][2] = u /\ IsOriginal(k.byMapUrl[u])
    BY <1>9, <2>1 DEF Fine, Typed, Optional, IsOriginal
  <2> QED BY <1>3, <2>1, <2>2
<1>10. \A u \in Urls : l.byUrl[u] # NoSource => l.byUrl[u] \in In(l)
  BY <1>1, <1>3 DEF Forgotten, Fine
<1>11. \A s \in Scripts, u \in OriginalUrls :
         /\ l.sourceByUrl[s][u] # NoSource =>
              /\ l.sourceByUrl[s][u] = k.sourceByUrl[s][u]
              /\ ~\E z \in Z : IsOriginal(z) /\ z[2] = u /\ s \in k.compiledTo[z]
         /\ (~\E z \in Z : IsOriginal(z) /\ z[2] = u /\ s \in k.compiledTo[z]) =>
              l.sourceByUrl[s][u] = k.sourceByUrl[s][u]
  BY <1>1 DEF Forgotten
<1>12. ASSUME NEW s \in Scripts, NEW u \in OriginalUrls, l.sourceByUrl[s][u] # NoSource
       PROVE  /\ l.sourceByUrl[s][u] \in In(l) \union Y
              /\ l.sourceByUrl[s][u][2] = u
              /\ s \in l.compiledTo[l.sourceByUrl[s][u]]
  <2> DEFINE x == k.sourceByUrl[s][u]
  <2>1. l.sourceByUrl[s][u] = x /\ ~\E z \in Z : IsOriginal(z) /\ z[2] = u /\ s \in k.compiledTo[z]
    BY <1>11, <1>12
  <2>2. x # NoSource /\ x \in Optional(Originals)
    BY <1>12, <2>1 DEF Typed
  <2>3. x \in In(k) \union Y /\ x[2] = u /\ s \in k.compiledTo[x] /\ IsOriginal(x)
    BY <2>2 DEF Fine, Optional, IsOriginal
  <2> HIDE DEF x
  <2> QED BY <1>1, <1>3, <2>1, <2>3 DEF Forgotten
<1>13. ASSUME NEW x \in In(l) \union Y, IsOriginal(x), NEW s \in l.compiledTo[x]
       PROVE  l.sourceByUrl[s][x[2]] = x
  <2>1. x \in Originals /\ x[2] \in OriginalUrls /\ x \notin Z /\ x \in In(k) \union Y
    BY <1>3, <1>4, <1>13, SourceShapes DEF IsOriginal
  <2>2. s \in k.compiledTo[x] /\ s \in Scripts
    BY <1>1, <1>13, <2>1 DEF Forgotten, Typed
  <2>3. k.sourceByUrl[s][x[2]] = x
    BY <1>13, <2>1, <2>2 DEF Fine
  <2>4. ASSUME NEW z \in Z, IsOriginal(z), z[2] = x[2], s \in k.compiledTo[z]
        PROVE  FALSE
    <3>1. k.sourceByUrl[s][z[2]] = z
      BY <2>4 DEF Fine
    <3> QED BY <2>1, <2>3, <2>4, <3>1
  <2> QED BY <1>11, <2>1, <2>2, <2>3, <2>4
<1>14. Fine(l, Y)
  BY <1>7, <1>8, <1>9, <1>10, <1>12, <1>13 DEF Fine
<1> QED BY <1>3, <1>14 DEF l

(* Both sides of the links are cut.                                        *)
LEMMA UnlinkFine ==
  ASSUME NEW k, Typed(k), NEW Y, Fine(k, Y), NEW s \in Scripts
  PROVE  In(Unlink(k, s)) = In(k) /\ Fine(Unlink(k, s), Y)
<1> DEFINE l == Unlink(k, s)
<1>1. Unlinked(k, s, l)
  BY UnlinkFields
<1> HIDE DEF l
<1>2. In(l) = In(k)
  BY <1>1 DEF Unlinked, In
<1>3. /\ \A u \in OriginalUrls : l.sourceByUrl[s][u] = NoSource
      /\ \A t \in Scripts : t # s => l.sourceByUrl[t] = k.sourceByUrl[t]
  BY <1>1 DEF Unlinked, Typed
<1>4. \A x \in Originals : /\ l.compiledTo[x] \subseteq k.compiledTo[x]
                           /\ k.compiledTo[x] \ {s} \subseteq l.compiledTo[x]
                           /\ x \in MappedFrom(k, s) => s \notin l.compiledTo[x]
  BY <1>1 DEF Unlinked
<1>5. ASSUME NEW t \in Scripts, NEW u \in OriginalUrls, l.sourceByUrl[t][u] # NoSource
      PROVE  /\ l.sourceByUrl[t][u] \in In(l) \union Y
             /\ l.sourceByUrl[t][u][2] = u
             /\ t \in l.compiledTo[l.sourceByUrl[t][u]]
  <2>1. t # s /\ l.sourceByUrl[t][u] = k.sourceByUrl[t][u] /\ k.sourceByUrl[t][u] \in Originals
    BY <1>3, <1>5 DEF Typed, Optional
  <2> QED BY <1>2, <1>4, <1>5, <2>1 DEF Fine
<1>6. ASSUME NEW x \in In(l) \union Y, IsOriginal(x), NEW t \in l.compiledTo[x]
      PROVE  l.sourceByUrl[t][x[2]] = x
  <2>1. x \in Originals /\ x[2] \in OriginalUrls /\ x # NoSource
    BY <1>6, SourceShapes DEF IsOriginal
  <2>2. t \in k.compiledTo[x] /\ t \in Scripts /\ k.sourceByUrl[t][x[2]] = x
    BY <1>2, <1>4, <1>6, <2>1 DEF Fine, Typed
  <2>3. t # s
    BY <1>4, <2>1, <2>2 DEF MappedFrom
  <2> QED BY <1>3, <2>2, <2>3
<1>7. Fine(l, Y)
  BY <1>1, <1>2, <1>5, <1>6 DEF Unlinked, Fine
<1> QED BY <1>2, <1>7 DEF l

(* A source that is removed leaves the maps as they should be, and so do   *)
(* the sources of its map that are linked with nothing else; others of     *)
(* scripts stay.                                                           *)
LEMMA RemoveFine ==
  ASSUME NEW k, Typed(k), RefsAgree(k), NEW Y, Fine(k, Y), NEW x \in Sources,
         AlreadyRemoved(k, x) \/ x \in In(k)
  PROVE  /\ Fine(RemoveSource(k, x), Y)
         /\ \A y \in Compiled \intersect In(k) : y # x => y \in In(RemoveSource(k, x))
<1>1. CASE AlreadyRemoved(k, x)
  BY <1>1 DEF RemoveSource
<1>2. CASE ~AlreadyRemoved(k, x)
  <2> DEFINE l == Forget(k, {x})
  <2>1. {x} \in SUBSET In(k) /\ {x} \in SUBSET Sources
    BY <1>2
  <2>2. Fine(l, Y) /\ In(l) = In(k) \ {x}
    BY <2>1, ForgetFine
  <2>3. Typed(l) /\ RefsAgree(l)
    BY <2>1, ForgetShrinks, ShrinksKeeps DEF Shrinks
  <2>4. CASE IsOriginal(x)
    BY <1>2, <2>2, <2>4 DEF RemoveSource
  <2>5. CASE ~IsOriginal(x)
    <3> DEFINE m == Unlink(l, x[1])
               unused == {y \in MappedFrom(l, x[1]) : m.compiledTo[y] = {}}
               X == {y \in unused : ~AlreadyRemoved(l, y)}
    <3>1. x[1] \in Scripts
      BY <2>5, SourceShapes
    <3>2. RemoveSource(k, x) = Forget(m, X)
      BY <1>2, <2>5 DEF RemoveSource, RemoveSourceMapSources
    <3> HIDE DEF l
    <3>3. In(m) = In(l) /\ Fine(m, Y)
      BY <2>2, <2>3, <3>1, UnlinkFine
    <3>4. Typed(m) /\ RefsAgree(m)
      <4>1. Shrinks(l, m)
        BY <2>3, <3>1, UnlinkShrinks
      <4> HIDE DEF m
      <4> QED BY <2>3, <4>1, ShrinksKeeps DEF Shrinks
    <3>5. MappedFrom(l, x[1]) \subseteq In(l) \union Y
      BY <2>2, <3>1 DEF Fine, MappedFrom
    <3>6. X \in SUBSET In(m)
      <4>1. \A y \in Y : AlreadyRemoved(l, y)
        BY <2>2 DEF Fine, AlreadyRemoved
      <4> QED BY <3>3, <3>5, <4>1
    <3>7. X \intersect Compiled = {}
      BY <2>3, <3>1, MappedAreOriginals, SourceShapes
    <3> HIDE DEF m, X
    <3>8. Fine(Forget(m, X), Y) /\ In(Forget(m, X)) = In(m) \ X
      BY <3>3, <3>4, <3>6, ForgetFine
    <3> QED BY <2>2, <3>2, <3>3, <3>7, <3>8
  <2> QED BY <2>4, <2>5
<1> QED BY <1>1, <1>2

(* Whether a source is itself there, or nothing is under its reference,    *)
(* stays so when others are removed.                                       *)
LEMMA ItselfOrGone ==
  ASSUME NEW k, NEW l, RefsAgree(k), Shrinks(k, l), NEW x, AlreadyRemoved(k, x) \/ x \in In(k)
  PROVE  AlreadyRemoved(l, x) \/ x \in In(l)
  BY DEF AlreadyRemoved, Shrinks, In, RefsAgree

-----------------------------------------------------------------------------
(* Adding sources, while the maps agree.                                   *)

(* A link with the source of a file, which is there or about to be.        *)
LEMMA LinkFine ==
  ASSUME NEW k, Typed(k), Fine(k, {}), NEW s \in Scripts, NEW x \in Originals,
         k.byMapUrl[x[2]] \in {x, NoSource},
         x \in In(k) \/ (k.ref[x] \notin DOMAIN k.byRef /\ k.compiledTo[x] = {})
  PROVE  Fine(Link(k, s, x), {x} \ In(k))
<1> DEFINE l == Link(k, s, x)
           Y == {x} \ In(k)
           u == x[2]
<1>1. Linked(k, s, x, l)
  BY LinkFields
<1> HIDE DEF l
<1>2. u \in OriginalUrls /\ x # NoSource /\ IsOriginal(x)
  BY SourceShapes DEF IsOriginal
<1>3. \A z \in In(k) : IsOriginal(z) /\ z[2] = u => z = x
  <2>1. \A z \in In(k) : IsOriginal(z) => k.byMapUrl[z[2]] = z /\ z # NoSource
    BY SourceShapes DEF Fine, IsOriginal
  <2> QED BY <2>1
<1>4. /\ l.sourceByUrl[s][u] = x
      /\ \A t \in Scripts, v \in OriginalUrls :
           ~(t = s /\ v = u) => l.sourceByUrl[t][v] = k.sourceByUrl[t][v]
  BY <1>1, <1>2 DEF Linked, Typed
<1>5. /\ l.compiledTo[x] = k.compiledTo[x] \union {s}
      /\ \A z \in Originals : z # x => l.compiledTo[z] = k.compiledTo[z]
  BY <1>1 DEF Linked, Typed
<1>6. In(l) = In(k) /\ l.ref = k.ref /\ l.byRef = k.byRef /\ l.byUrl = k.byUrl /\ l.byMapUrl = k.byMapUrl
  BY <1>1 DEF Linked
<1>7. \A y \in Y : y \in Originals /\ l.ref[y] \notin DOMAIN l.byRef /\ l.byMapUrl[y[2]] = NoSource
  <2>1. x \notin In(k) => k.ref[x] \notin DOMAIN k.byRef /\ k.byMapUrl[u] # x
    BY <1>2 DEF Fine
  <2> QED BY <1>6, <2>1
<1>8. ASSUME NEW t \in Scripts, NEW v \in OriginalUrls, l.sourceByUrl[t][v] # NoSource
      PROVE  /\ l.sourceByUrl[t][v] \in In(l) \union Y
             /\ l.sourceByUrl[t][v][2] = v
             /\ t \in l.compiledTo[l.sourceByUrl[t][v]]
  <2>1. CASE t = s /\ v = u
    BY <1>4, <1>5, <1>6, <2>1
  <2>2. CASE ~(t = s /\ v = u)
    <3>1. l.sourceByUrl[t][v] = k.sourceByUrl[t][v] /\ k.sourceByUrl[t][v] \in Originals
      BY <1>4, <1>8, <2>2 DEF Typed, Optional
    <3>2. /\ k.sourceByUrl[t][v] \in In(k) /\ k.sourceByUrl[t][v][2] = v
          /\ t \in k.compiledTo[k.sourceByUrl[t][v]]
      BY <1>8, <3>1 DEF Fine
    <3> QED BY <1>5, <1>6, <3>1, <3>2
  <2> QED BY <2>1, <2>2
<1>9. ASSUME NEW z \in In(l) \union Y, IsOriginal(z), NEW t \in l.compiledTo[z]
      PROVE  l.sourceByUrl[t][z[2]] = z
  <2>1. z \in Originals /\ z[2] \in OriginalUrls
    BY <1>9, SourceShapes DEF IsOriginal
  <2>2. CASE z = x /\ t = s
    BY <1>4, <2>2
  <2>3. CASE ~(z = x /\ t = s)
    <3>1. t \in k.compiledTo[z] /\ t \in Scripts
      BY <1>5, <2>1, <2>3, <1>9 DEF Typed
    <3>2. z \in In(k)
      BY <1>6, <1>9, <3>1
    <3>3. k.sourceByUrl[t][z[2]] = z
      BY <1>9, <3>1, <3>2 DEF Fine
    <3>4. ~(t = s /\ z[2] = u)
      BY <1>3, <1>9, <2>3, <3>2
    <3> QED BY <1>4, <2>1, <3>1, <3>3, <3>4
  <2> QED BY <2>2, <2>3
<1> HIDE DEF Y
<1>10. Fine(l, Y)
  BY <1>6, <1>7, <1>8, <1>9 DEF Fine
<1> QED BY <1>10 DEF l, Y

(* A source is added that the maps were prepared for.                      *)
LEMMA AddedFine ==
  ASSUME NEW k, Typed(k), RefsAgree(k), NEW x \in Sources, UrlOf(x) \in Urls, x \notin In(k),
         k.ref[x] \in References, k.ref[x] \notin DOMAIN k.byRef, k.ref[x][1] = UrlOf(x),
         NEW Y, Fine(k, Y), IsOriginal(x) => x \in Y, Y \subseteq {x}
  PROVE  Fine(Added(k, x), {})
<1> DEFINE l == Added(k, x)
<1>1. IsAdded(k, x, l)
  BY AddedFields
<1>2. In(l) = In(k) \union {x}
  BY AddedIsTyped
<1> HIDE DEF l
<1>3. IsOriginal(x) => x[2] \in OriginalUrls /\ l.byMapUrl[x[2]] = x /\ k.byMapUrl[x[2]] = NoSource
  BY <1>1, SourceShapes DEF IsAdded, IsOriginal, Fine
<1>4. \A u \in OriginalUrls : ~(IsOriginal(x) /\ u = x[2]) => l.byMapUrl[u] = k.byMapUrl[u]
  BY <1>1 DEF IsAdded
<1>5. ASSUME NEW z \in In(l), IsOriginal(z)
      PROVE  l.byMapUrl[z[2]] = z
  <2>1. CASE z = x
    BY <1>3, <1>5, <2>1
  <2>2. CASE z # x
    <3>1. k.byMapUrl[z[2]] = z /\ z[2] \in OriginalUrls /\ z # NoSource
      BY <1>2, <1>5, <2>2, SourceShapes DEF Fine, IsOriginal
    <3> QED BY <1>3, <1>4, <3>1
  <2> QED BY <2>1, <2>2
<1>6. ASSUME NEW u \in OriginalUrls, l.byMapUrl[u] # NoSource
      PROVE  l.byMapUrl[u] \in In(l) /\ l.byMapUrl[u][2] = u
  BY <1>2, <1>3, <1>4, <1>6 DEF Fine
<1>7. \A u \in Urls : l.byUrl[u] # NoSource => l.byUrl[u] \in In(l)
  BY <1>1, <1>2 DEF IsAdded, Fine, Typed
<1>8. l.sourceByUrl = k.sourceByUrl /\ l.compiledTo = k.compiledTo
  BY <1>1 DEF IsAdded
<1>9. \A s \in Scripts, u \in OriginalUrls : l.sourceByUrl[s][u] # NoSource =>
        /\ l.sourceByUrl[s][u] \in In(l)
        /\ l.sourceByUrl[s][u][2] = u
        /\ s \in l.compiledTo[l.sourceByUrl[s][u]]
  BY <1>2, <1>8 DEF Fine
<1>10. \A z \in In(l) : IsOriginal(z) => \A s \in l.compiledTo[z] : l.sourceByUrl[s][z[2]] = z
  <2>1. \A z \in In(l) : IsOriginal(z) => z \in In(k) \union Y
    BY <1>2
  <2> QED BY <1>8, <2>1 DEF Fine
<1>11. Fine(l, {})
  BY <1>5, <1>6, <1>7, <1>9, <1>10 DEF Fine
<1> QED BY <1>11 DEF l

(* addSource: the source it replaces is removed, and it is added.          *)
LEMMA AddSourceFine ==
  ASSUME NEW k, Typed(k), RefsAgree(k), NEW x \in Sources, UrlOf(x) \in Urls, x \notin In(k),
         k.ref[x] \in References, k.ref[x] \notin DOMAIN k.byRef, k.ref[x][1] = UrlOf(x),
         NEW Y, Fine(k, Y), IsOriginal(x) => x \in Y, Y \subseteq {x}
  PROVE  /\ Fine(AddSource(k, x), {})
         /\ \A y \in Originals : AddSource(k, x).compiledTo[y] \subseteq k.compiledTo[y]
<1> DEFINE l == Replaced(k, x)
           existing == k.byUrl[UrlOf(x)]
<1>1. AddSource(k, x) = Added(l, x) /\ Shrinks(k, l)
  BY AddSourceIsAdded
<1>2. Fine(l, Y)
  <2>1. CASE existing # NoSource /\ ~IsOriginalSourceOf(k, existing, x)
    <3>1. existing \in In(k) /\ existing \in Sources
      BY <2>1 DEF Fine, Typed, Optional
    <3>2. l = RemoveSource(k, existing)
      BY <2>1 DEF Replaced
    <3> HIDE DEF l, existing
    <3> QED BY <3>1, <3>2, RemoveFine
  <2>2. CASE ~(existing # NoSource /\ ~IsOriginalSourceOf(k, existing, x))
    <3>1. l = k
      BY <2>2 DEF Replaced
    <3> HIDE DEF l
    <3> QED BY <3>1
  <2> QED BY <2>1, <2>2
<1> HIDE DEF l
<1>3. Typed(l) /\ RefsAgree(l) /\ x \notin In(l)
  BY <1>1, ShrinksKeeps DEF Shrinks
<1>4. l.ref[x] \in References /\ l.ref[x] \notin DOMAIN l.byRef /\ l.ref[x][1] = UrlOf(x)
  BY <1>1 DEF Shrinks
<1>5. Fine(Added(l, x), {})
  BY <1>2, <1>3, <1>4, AddedFine
<1>6. IsAdded(l, x, Added(l, x))
  BY <1>3, AddedFields
<1>7. \A y \in Originals : Added(l, x).compiledTo[y] \subseteq k.compiledTo[y]
  BY <1>1, <1>6 DEF IsAdded, Shrinks
<1> QED BY <1>1, <1>5, <1>7

(* A script gets a source.                                                 *)
LEMMA AddNewScriptFine ==
  ASSUME NEW k, Typed(k), RefsAgree(k), Fine(k, {}), NEW x \in Compiled, UrlOf(x) \in Urls, x \notin In(k)
  PROVE  /\ Fine(AddSource(NewSource(k, x), x), {})
         /\ \A y \in Originals : AddSource(NewSource(k, x), x).compiledTo[y] \subseteq k.compiledTo[y]
<1> DEFINE l == NewSource(k, x)
<1>1. x \in Sources /\ ~IsOriginal(x)
  BY SourceShapes
<1>2. NewlyMade(k, x, l)
  BY <1>1, NewSourceFields
<1> HIDE DEF l
<1>3. /\ Typed(l) /\ RefsAgree(l) /\ In(l) = In(k) /\ Fine(l, {})
      /\ l.ref[x] \in References /\ l.ref[x] \notin DOMAIN l.byRef /\ l.ref[x][1] = UrlOf(x)
  BY <1>2 DEF NewlyMade, In, Fine
<1>4. /\ Fine(AddSource(l, x), {})
      /\ \A y \in Originals : AddSource(l, x).compiledTo[y] \subseteq l.compiledTo[y]
  BY <1>1, <1>3, AddSourceFine
<1>5. l.compiledTo = k.compiledTo
  BY <1>2 DEF NewlyMade
<1> QED BY <1>4, <1>5 DEF l

(* A file gets a source, linked with the script whose map names it.        *)
LEMMA AddNewOriginalFine ==
  ASSUME NEW k, Typed(k), RefsAgree(k), Fine(k, {}), NEW s \in Scripts, NEW u \in OriginalUrls,
         <<s, u>> \notin In(k), k.byMapUrl[u] = NoSource, k.compiledTo[<<s, u>>] = {}
  PROVE  /\ Fine(AddNewOriginal(k, s, u), {})
         /\ \A y \in Originals : y # <<s, u>> =>
              AddNewOriginal(k, s, u).compiledTo[y] \subseteq k.compiledTo[y]
<1> DEFINE x == <<s, u>>
           l == NewSource(k, x)
           m == Link(l, s, x)
<1>1. x \in Originals /\ x \in Sources /\ IsOriginal(x) /\ x[2] = u
  BY SourceShapes
<1>2. UrlOf(x) \in Urls /\ UrlOf(x) = u
  BY <1>1 DEF UrlOf, Urls
<1>3. AddNewOriginal(k, s, u) = AddSource(m, x)
  BY DEF AddNewOriginal
<1> HIDE DEF x
<1>4. x \notin In(k) /\ k.compiledTo[x] = {}
  BY DEF x
<1>5. NewlyMade(k, x, l)
  BY <1>1, <1>2, <1>4, NewSourceFields
<1> HIDE DEF l
<1>6. /\ Typed(l) /\ RefsAgree(l) /\ In(l) = In(k) /\ Fine(l, {}) /\ l.compiledTo = k.compiledTo
      /\ l.byMapUrl = k.byMapUrl /\ l.ref[x] \notin DOMAIN l.byRef
  BY <1>5 DEF NewlyMade, In, Fine
<1>7. Linked(l, s, x, m)
  BY <1>1, <1>6, LinkFields
<1>8. Fine(m, {x} \ In(l))
  BY <1>1, <1>4, <1>6, LinkFine
<1>9. {x} \ In(l) = {x}
  BY <1>4, <1>6
<1> HIDE DEF m
<1>10. /\ Typed(m) /\ RefsAgree(m) /\ In(m) = In(k) /\ Fine(m, {x})
       /\ m.ref[x] \in References /\ m.ref[x] \notin DOMAIN m.byRef /\ m.ref[x][1] = UrlOf(x)
  BY <1>5, <1>6, <1>7, <1>8, <1>9 DEF NewlyMade, Linked
<1>11. /\ Fine(AddSource(m, x), {})
       /\ \A y \in Originals : AddSource(m, x).compiledTo[y] \subseteq m.compiledTo[y]
  BY <1>1, <1>2, <1>4, <1>10, AddSourceFine
<1>12. \A y \in Originals : y # x => m.compiledTo[y] = k.compiledTo[y]
  BY <1>6, <1>7 DEF Linked, Typed
<1> QED BY <1>3, <1>11, <1>12 DEF x

(* The sources of a context are removed one after the other: as long as a  *)
(* reference leads to its source or to none, no other script's goes too.   *)
LEMMA RemovalsFine ==
  ASSUME Typed(container), RefsAgree(container), Fine(container, {}), NEW X,
         \A s \in X : /\ source[s] \in Sources
                      /\ AlreadyRemoved(container, source[s]) \/ source[s] \in In(container)
  PROVE  /\ Fine(RemoveSourcesOf(X), {})
         /\ \A y \in Compiled \intersect In(container) :
              (\A s \in X : source[s] # y) => y \in In(RemoveSourcesOf(X))
<1>0. MaxScripts \in Nat
  BY SourceContainerAssumption
<1>1. PICK after : /\ RemoveSourcesOf(X) = after[MaxScripts]
                   /\ after[0] = container
                   /\ \A s \in 1 .. MaxScripts :
                        after[s] = IF s \in X THEN RemoveSource(after[s - 1], source[s])
                                   ELSE after[s - 1]
  BY RemovalRecursion
<1> DEFINE others == {y \in Compiled \intersect In(container) : \A s \in X : source[s] # y}
           Done(n) == Shrinks(container, after[n]) /\ Fine(after[n], {}) /\ others \subseteq In(after[n])
           G == {n \in 0 .. MaxScripts : Done(n)}
<1>2. 0 \in G
  BY <1>0, <1>1, ShrinksNot
<1>3. ASSUME NEW n \in 0 .. MaxScripts, n \in G, n < MaxScripts
      PROVE  n + 1 \in G
  <2>1. n + 1 \in 1 .. MaxScripts /\ (n + 1) - 1 = n
    BY <1>0, <1>3
  <2>2. /\ Shrinks(container, after[n]) /\ Typed(after[n]) /\ RefsAgree(after[n])
        /\ Fine(after[n], {}) /\ others \subseteq In(after[n])
    BY <1>3, ShrinksKeeps DEF Shrinks
  <2>3. CASE n + 1 \in X
    <3>1. after[n + 1] = RemoveSource(after[n], source[n + 1])
      BY <1>1, <2>1, <2>3
    <3>2. AlreadyRemoved(after[n], source[n + 1]) \/ source[n + 1] \in In(after[n])
      BY <2>2, <2>3, ItselfOrGone
    <3>3. /\ Shrinks(after[n], after[n + 1]) /\ Fine(after[n + 1], {})
          /\ others \subseteq In(after[n + 1])
      BY <2>2, <2>3, <3>1, <3>2, RemoveShrinks, RemoveFine
    <3>4. Shrinks(container, after[n + 1])
      BY <2>2, <3>3, ShrinksTrans
    <3> QED BY <2>1, <3>3, <3>4
  <2>4. CASE n + 1 \notin X
    <3>1. after[n + 1] = after[n]
      BY <1>1, <2>1, <2>4
    <3> QED BY <2>1, <2>2, <3>1
  <2> QED BY <2>3, <2>4
<1>4. MaxScripts \in G
  <2> HIDE DEF G
  <2>1. \A n \in 0 .. MaxScripts : n \in G
    BY <1>0, <1>2, <1>3, InductionUpTo
  <2> QED BY <1>0, <2>1
<1> QED BY <1>1, <1>4

-----------------------------------------------------------------------------
(* The maps agree, where references do not collide.                        *)

(* They agree at the start.                                                *)
LEMMA InitInv == Init => Inv
<1> SUFFICES ASSUME Init PROVE Inv
  OBVIOUS
<1>1. /\ container.byRef = <<>>
      /\ container.byUrl = [u \in Urls |-> NoSource]
      /\ container.byMapUrl = [u \in OriginalUrls |-> NoSource]
      /\ container.sourceByUrl = [s \in Scripts |-> [u \in OriginalUrls |-> NoSource]]
      /\ container.compiledTo = [x \in Originals |-> {}]
  BY DEF Init
<1>2. In(container) = {}
  BY <1>1 DEF In
<1>3. Fine(container, {})
  BY <1>1, <1>2 DEF Fine
<1>4. NothingIsLinkedEarly
  BY <1>1, SourceShapes DEF NothingIsLinkedEarly
<1> QED BY <1>3, <1>4, InitTypeInv DEF Inv

(* They agree when the source of a script was added.                       *)
LEMMA SourceAddedFine ==
  ASSUME Inv, NEW s \in Scripts, SourceAdded(s)
  PROVE  Fine(container', {}) /\ NothingIsLinkedEarly'
<1> DEFINE x == <<s, self>>
           k == AddSource(NewSource(container, x), x)
<1>1. /\ s \in DOMAIN script /\ source[s] = NoSource /\ container' = k
      /\ load' = [load EXCEPT ![s] = IF MapOf[script[s].url] = {} THEN "none" ELSE "loading"]
      /\ todo' = todo
  BY DEF SourceAdded
<1>2. ScriptsAreTyped /\ Typed(container) /\ RefsAgree(container) /\ Fine(container, {})
  BY DEF Inv, TypeInv
<1>3. x \in Compiled /\ UrlOf(x) \in Urls /\ x # NoSource
  BY <1>1, <1>2, UrlOfScript, SourcesOfScripts
<1>4. x \notin In(container) /\ load[s] = "none"
  BY <1>1, <1>2, <1>3 DEF Inv, TypeInv, ScriptsAreAdded, ScriptsAreTyped
<1>5. /\ Fine(k, {})
      /\ \A y \in Originals : k.compiledTo[y] \subseteq container.compiledTo[y]
  <2> HIDE DEF x
  <2> QED BY <1>2, <1>3, <1>4, AddNewScriptFine
<1> HIDE DEF k
<1>6. \A t \in Scripts : load'[t] \in {"none", "loading"} => load[t] \in {"none", "loading"}
  BY <1>1, <1>2, <1>4 DEF ScriptsAreTyped
<1>7. NothingIsLinkedEarly'
  BY <1>1, <1>5, <1>6, SourceShapes DEF Inv, NothingIsLinkedEarly
<1> QED BY <1>1, <1>5, <1>7

(* Nothing is linked while a map loads.                                    *)
LEMMA LoadFine ==
  ASSUME Inv, NEW s \in Scripts, LoadFails(s) \/ Loaded(s) \/ AllAdded(s)
  PROVE  Fine(container', {}) /\ NothingIsLinkedEarly'
<1>1. ScriptsAreTyped /\ Fine(container, {})
  BY DEF Inv, TypeInv
<1>2. /\ container' = container
      /\ \E state \in {"adding", "ready"} : load' = [load EXCEPT ![s] = state]
      /\ \E urls : todo' = [todo EXCEPT ![s] = urls] /\ (urls # todo[s] => load[s] = "loading")
  <2>1. todo = [todo EXCEPT ![s] = todo[s]]
    BY <1>1 DEF ScriptsAreTyped
  <2> QED BY <2>1 DEF LoadFails, Loaded, AllAdded, MapIsReady
<1>3. /\ load'[s] \notin {"none", "loading"}
      /\ \A t \in Scripts : t # s => load'[t] = load[t] /\ todo'[t] = todo[t]
      /\ todo'[s] # todo[s] => load[s] = "loading"
  BY <1>1, <1>2 DEF ScriptsAreTyped
<1>4. NothingIsLinkedEarly'
  <2> SUFFICES ASSUME NEW t \in Scripts, NEW u \in OriginalUrls,
                      load'[t] \in {"none", "loading"} \/ u \in todo'[t]
               PROVE  container.compiledTo[<<t, u>>] = {}
    BY <1>2 DEF NothingIsLinkedEarly
  <2>1. load[t] \in {"none", "loading"} \/ u \in todo[t]
    BY <1>3
  <2> QED BY <2>1 DEF Inv, NothingIsLinkedEarly
<1> QED BY <1>1, <1>2, <1>4

(* They agree when a file of the map was added, or linked with it.         *)
LEMMA OriginalAddedFine ==
  ASSUME Inv, NEW s \in Scripts, NEW u \in OriginalUrls, OriginalAdded(s, u)
  PROVE  Fine(container', {}) /\ NothingIsLinkedEarly'
<1> DEFINE existing == container.byMapUrl[u]
           removedOne == RemoveSource(container, existing)
           x == <<s, u>>
<1>1. u \in todo[s] /\ todo' = [todo EXCEPT ![s] = @ \ {u}] /\ load' = load
  BY DEF OriginalAdded
<1>2. ScriptsAreTyped /\ Typed(container) /\ RefsAgree(container) /\ Fine(container, {})
  BY DEF Inv, TypeInv
<1>3. load[s] = "adding" /\ x \notin In(container) /\ container.compiledTo[x] = {}
  BY <1>1, <1>2 DEF Inv, NothingIsLinkedEarly, TypeInv, ScriptsAreTyped, ScriptsAreAdded
<1>4. \/ existing = NoSource /\ container' = AddNewOriginal(container, s, u)
      \/ existing # NoSource /\ container' = AddNewOriginal(removedOne, s, u)
      \/ existing # NoSource /\ container' = Link(container, s, existing)
  BY DEF OriginalAdded
<1>5. existing # NoSource => /\ existing \in Originals /\ existing \in Sources /\ IsOriginal(existing)
                             /\ existing \in In(container) /\ existing[2] = u
                             /\ existing = <<existing[1], u>> /\ existing[1] \in Scripts
  BY <1>2, SourceShapes DEF Typed, Optional, Fine
<1>6. \A y \in Scripts, v \in OriginalUrls : <<y, v>> \in In(container) =>
        load[y] \in {"adding", "ready"} /\ v \notin todo[y]
  BY DEF Inv, TypeInv, ScriptsAreAdded
<1> DEFINE Early(t, v) == load[t] \in {"none", "loading"} \/ v \in todo'[t]
<1>7. \A t \in Scripts, v \in OriginalUrls : Early(t, v) =>
        <<t, v>> # x /\ <<t, v>> \in Originals /\ container.compiledTo[<<t, v>>] = {}
  <2>1. todo'[s] = todo[s] \ {u} /\ \A t \in Scripts : t # s => todo'[t] = todo[t]
    BY <1>1, <1>2 DEF ScriptsAreTyped
  <2> QED BY <1>3, <2>1, SourceShapes DEF Inv, NothingIsLinkedEarly
<1>8. \A t \in Scripts, v \in OriginalUrls : Early(t, v) => <<t, v>> \notin In(container)
  <2>1. todo'[s] = todo[s] \ {u} /\ \A t \in Scripts : t # s => todo'[t] = todo[t]
    BY <1>1, <1>2 DEF ScriptsAreTyped
  <2> QED BY <1>6, <2>1
<1> HIDE DEF existing, removedOne, x
<1>9. /\ Fine(container', {})
      /\ \A t \in Scripts, v \in OriginalUrls : Early(t, v) => container'.compiledTo[<<t, v>>] = {}
  <2>1. CASE existing = NoSource /\ container' = AddNewOriginal(container, s, u)
    <3>1. /\ Fine(container', {})
          /\ \A y \in Originals : y # x => container'.compiledTo[y] \subseteq container.compiledTo[y]
      BY <1>2, <1>3, <2>1, AddNewOriginalFine DEF x, existing
    <3> QED BY <1>7, <3>1
  <2>2. CASE existing # NoSource /\ container' = AddNewOriginal(removedOne, s, u)
    <3>1. Shrinks(container, removedOne) /\ Fine(removedOne, {})
      BY <1>2, <1>5, <2>2, RemoveShrinks, RemoveFine DEF removedOne
    <3>2. Typed(removedOne) /\ RefsAgree(removedOne) /\ In(removedOne) \subseteq In(container)
      BY <1>2, <3>1, ShrinksKeeps DEF Shrinks
    <3>3. removedOne.byMapUrl[u] = NoSource
      <4>1. existing \notin In(removedOne)
        BY <1>2, <1>5, <2>2, RemoveShrinks DEF removedOne
      <4>2. removedOne.byMapUrl[u] \in {existing, NoSource}
        BY <3>1 DEF Shrinks, existing
      <4> QED BY <3>1, <4>1, <4>2 DEF Fine
    <3>4. removedOne.compiledTo[x] = {}
      BY <1>3, <3>1, SourceShapes DEF Shrinks, x
    <3>5. /\ Fine(container', {})
          /\ \A y \in Originals : y # x => container'.compiledTo[y] \subseteq removedOne.compiledTo[y]
      BY <1>3, <2>2, <3>1, <3>2, <3>3, <3>4, AddNewOriginalFine DEF x
    <3>6. \A y \in Originals : removedOne.compiledTo[y] \subseteq container.compiledTo[y]
      BY <3>1 DEF Shrinks
    <3> QED BY <1>7, <3>5, <3>6
  <2>3. CASE existing # NoSource /\ container' = Link(container, s, existing)
    <3>1. {existing} \ In(container) = {}
      BY <1>5, <2>3
    <3>2. container.byMapUrl[existing[2]] = existing
      BY <1>5, <2>3 DEF existing
    <3>3. Fine(container', {existing} \ In(container))
      BY <1>2, <1>5, <2>3, <3>2, LinkFine
    <3>4. \A y \in Originals : y # existing => container'.compiledTo[y] = container.compiledTo[y]
      <4>1. Linked(container, s, existing, container')
        BY <1>2, <1>5, <2>3, LinkFields
      <4> QED BY <1>2, <4>1 DEF Linked, Typed
    <3>5. \A t \in Scripts, v \in OriginalUrls : Early(t, v) => <<t, v>> # existing
      BY <1>5, <1>8, <2>3
    <3> QED BY <1>7, <3>1, <3>3, <3>4, <3>5
  <2> QED BY <1>4, <2>1, <2>2, <2>3
<1>10. NothingIsLinkedEarly'
  BY <1>1, <1>9 DEF NothingIsLinkedEarly
<1> QED BY <1>9, <1>10

(* They agree when the sources of a context were removed, if the           *)
(* references lead to them or to none.                                     *)
LEMMA ScriptsRemovedFine ==
  ASSUME Inv, RemovesItself, NEW c \in Contexts, ScriptsRemoved(c)
  PROVE  Fine(container', {}) /\ NothingIsLinkedEarly'
<1> DEFINE X == {s \in Due(c) : ScriptsNotOf(c, source[s][1]) = {}}
<1>1. container' = RemoveSourcesOf(X) /\ load' = load /\ todo' = todo
  BY DEF ScriptsRemoved
<1>2. ScriptsAreTyped /\ Typed(container) /\ RefsAgree(container) /\ Fine(container, {}) /\ TypeInv
  BY DEF Inv, TypeInv
<1>3. \A s \in X : /\ source[s] \in Sources
                   /\ AlreadyRemoved(container, source[s]) \/ source[s] \in In(container)
  <2>1. \A s \in Due(c) : s \in Scripts /\ source[s] # NoSource
    BY DEF Due, IsDue
  <2>2. \A s \in Due(c) : AlreadyRemoved(container, source[s]) \/ source[s] \in In(container)
    BY DEF RemovesItself, Known, In
  <2> QED BY <1>2, <2>1, <2>2, SourcesOfScripts
<1> HIDE DEF X
<1>4. Fine(container', {})
  BY <1>1, <1>2, <1>3, RemovalsFine
<1>5. \A y \in Originals : container'.compiledTo[y] \subseteq container.compiledTo[y]
  BY <1>2, RemovedSources DEF Shrinks
<1>6. NothingIsLinkedEarly'
  BY <1>1, <1>5, SourceShapes DEF Inv, NothingIsLinkedEarly
<1> QED BY <1>4, <1>6

(* Every step keeps the maps in agreement.                                 *)
LEMMA NextInv == Inv /\ RemovesItself /\ [Next]_vars => Inv'
<1> SUFFICES ASSUME Inv, RemovesItself, [Next]_vars
             PROVE  Fine(container', {}) /\ NothingIsLinkedEarly'
  BY NextTypeInv DEF Inv
<1>1. ASSUME container' = container, load' = load, todo' = todo
      PROVE  Fine(container', {}) /\ NothingIsLinkedEarly'
  BY <1>1 DEF Inv, NothingIsLinkedEarly
<1>2. ASSUME NEW c \in Contexts, NEW u \in ScriptUrls, ScriptParsed(c, u) \/ SameScriptParsed(c, u)
      PROVE  Fine(container', {}) /\ NothingIsLinkedEarly'
  BY <1>1, <1>2 DEF ScriptParsed, SameScriptParsed
<1>3. ASSUME NEW c \in Contexts, ContextDestroyed(c)
      PROVE  Fine(container', {}) /\ NothingIsLinkedEarly'
  BY <1>1, <1>3 DEF ContextDestroyed
<1>4. ASSUME NEW c \in Contexts, ScriptsRemoved(c)
      PROVE  Fine(container', {}) /\ NothingIsLinkedEarly'
  BY <1>4, ScriptsRemovedFine
<1>5. ASSUME NEW s \in Scripts, SourceAdded(s)
      PROVE  Fine(container', {}) /\ NothingIsLinkedEarly'
  BY <1>5, SourceAddedFine
<1>6. ASSUME NEW s \in Scripts, LoadFails(s) \/ Loaded(s) \/ AllAdded(s)
      PROVE  Fine(container', {}) /\ NothingIsLinkedEarly'
  BY <1>6, LoadFine
<1>7. ASSUME NEW s \in Scripts, NEW u \in OriginalUrls, OriginalAdded(s, u)
      PROVE  Fine(container', {}) /\ NothingIsLinkedEarly'
  BY <1>7, OriginalAddedFine
<1>8. CASE UNCHANGED vars
  BY <1>1, <1>8 DEF vars
<1> QED BY <1>2, <1>3, <1>4, <1>5, <1>6, <1>7, <1>8 DEF Next, Runtime, MapStep

(* What that says of files.                                                *)
LEMMA InvImplies == Inv => OneSourcePerFile /\ LinksAreMutual
<1> SUFFICES ASSUME Inv PROVE OneSourcePerFile /\ LinksAreMutual
  OBVIOUS
<1>1. \A x : Known(x) <=> x \in In(container)
  BY DEF Known, In
<1>2. Fine(container, {}) /\ Typed(container)
  BY DEF Inv, TypeInv
<1>3. OneSourcePerFile
  BY <1>1, <1>2 DEF OneSourcePerFile, Fine, IsOriginal
<1>4. ASSUME NEW s \in Scripts, NEW x \in Originals, Known(x)
      PROVE  s \in container.compiledTo[x] <=> container.sourceByUrl[s][x[2]] = x
  <2>1. x \in In(container) /\ IsOriginal(x) /\ x[2] \in OriginalUrls /\ x # NoSource
    BY <1>1, <1>4, SourceShapes
  <2> QED BY <1>2, <2>1 DEF Fine
<1> QED BY <1>3, <1>4 DEF LinksAreMutual

(* The maps agree as long as no reference was mistaken for another.        *)
LEMMA InvHolds == Spec /\ []RemovesItself => []Inv
  BY InitInv, NextInv, PTL DEF Spec

(* A file has one source, shared by the bundles it is in, and its URL      *)
(* leads to it and to no source that was removed.                          *)
THEOREM FilesAreShared == Spec /\ []RemovesItself => []OneSourcePerFile
  BY InvHolds, InvImplies, PTL

(* Both sides of the link between a script and the files of its map are    *)
(* set and cut together, in whatever order sources come and go.            *)
THEOREM LinksAgree == Spec /\ []RemovesItself => []LinksAreMutual
  BY InvHolds, InvImplies, PTL

-----------------------------------------------------------------------------
(* Which references and sources stay when one is added.                    *)

Joined(k, x, l) ==
  /\ \A y \in Sources : y # x => l.ref[y] = k.ref[y]
  /\ l.ref[x][1] = UrlOf(x) /\ l.ref[x] \notin DOMAIN k.byRef
  /\ \A r \in DOMAIN l.byRef : r # l.ref[x] => r \in DOMAIN k.byRef /\ l.byRef[r] = k.byRef[r]
  /\ x \in In(l)
  /\ \A y \in Compiled \intersect In(k) : y # k.byUrl[UrlOf(x)] => y \in In(l)
  /\ \A u \in Urls : l.byUrl[u] = k.byUrl[u] \/ l.byUrl[u] = NoSource \/ (l.byUrl[u] = x /\ u = UrlOf(x))

(* addSource takes away only the source of the URL, and what was mapped    *)
(* to it.                                                                  *)
LEMMA AddSourceJoins ==
  ASSUME NEW k, Typed(k), RefsAgree(k), NEW x \in Sources, UrlOf(x) \in Urls, x \notin In(k),
         k.ref[x] \in References, k.ref[x] \notin DOMAIN k.byRef, k.ref[x][1] = UrlOf(x),
         NEW Y, Fine(k, Y)
  PROVE  Joined(k, x, AddSource(k, x))
<1> DEFINE l == Replaced(k, x)
           existing == k.byUrl[UrlOf(x)]
           m == AddSource(k, x)
<1>1. m = Added(l, x) /\ Shrinks(k, l)
  BY AddSourceIsAdded
<1>2. \A y \in Compiled \intersect In(k) : y # existing => y \in In(l)
  <2>1. CASE existing # NoSource /\ ~IsOriginalSourceOf(k, existing, x)
    <3>1. existing \in In(k) /\ existing \in Sources
      BY <2>1 DEF Fine, Typed, Optional
    <3>2. l = RemoveSource(k, existing)
      BY <2>1 DEF Replaced
    <3> HIDE DEF l, existing
    <3> QED BY <3>1, <3>2, RemoveFine
  <2>2. CASE ~(existing # NoSource /\ ~IsOriginalSourceOf(k, existing, x))
    <3>1. l = k
      BY <2>2 DEF Replaced
    <3> HIDE DEF l
    <3> QED BY <3>1
  <2> QED BY <2>1, <2>2
<1> HIDE DEF l, existing
<1>3. Typed(l) /\ RefsAgree(l) /\ x \notin In(l)
  BY <1>1, ShrinksKeeps DEF Shrinks
<1>4. l.ref[x] \in References /\ l.ref[x] \notin DOMAIN l.byRef /\ l.ref[x][1] = UrlOf(x)
  BY <1>1 DEF Shrinks
<1>5. IsAdded(l, x, m)
  BY <1>1, <1>3, AddedFields
<1>6. In(m) = In(l) \union {x}
  BY <1>1, <1>3, <1>4, AddedIsTyped
<1> HIDE DEF m
<1>7. m.ref = k.ref
  BY <1>1, <1>5 DEF IsAdded, Shrinks
<1>8. \A r \in DOMAIN m.byRef : r # k.ref[x] => r \in DOMAIN k.byRef /\ m.byRef[r] = k.byRef[r]
  <2>1. l.ref = k.ref
    BY <1>1 DEF Shrinks
  <2>2. \A r \in DOMAIN m.byRef : r # k.ref[x] => r \in DOMAIN l.byRef /\ m.byRef[r] = l.byRef[r]
    BY <1>5, <2>1 DEF IsAdded
  <2> QED BY <1>1, <2>2 DEF Shrinks
<1>9. \A u \in Urls : m.byUrl[u] = k.byUrl[u] \/ m.byUrl[u] = NoSource \/ (m.byUrl[u] = x /\ u = UrlOf(x))
  <2>1. \A u \in Urls : m.byUrl[u] = l.byUrl[u] \/ (m.byUrl[u] = x /\ u = UrlOf(x))
    BY <1>3, <1>5 DEF IsAdded, Typed
  <2> QED BY <1>1, <2>1 DEF Shrinks
<1>10. \A y \in Compiled \intersect In(k) : y # existing => y \in In(m)
  BY <1>2, <1>6
<1>11. Joined(k, x, m)
  BY <1>6, <1>7, <1>8, <1>9, <1>10 DEF Joined, existing
<1> QED BY <1>11 DEF m

(* A script joins the others.                                              *)
LEMMA NewScriptJoins ==
  ASSUME NEW k, Typed(k), RefsAgree(k), Fine(k, {}), NEW x \in Compiled, UrlOf(x) \in Urls, x \notin In(k)
  PROVE  Joined(k, x, AddSource(NewSource(k, x), x))
<1> DEFINE l == NewSource(k, x)
           m == AddSource(l, x)
<1>1. x \in Sources
  BY SourceShapes
<1>2. NewlyMade(k, x, l)
  BY <1>1, NewSourceFields
<1> HIDE DEF l
<1>3. /\ Typed(l) /\ RefsAgree(l) /\ In(l) = In(k) /\ Fine(l, {})
      /\ l.ref[x] \in References /\ l.ref[x] \notin DOMAIN l.byRef /\ l.ref[x][1] = UrlOf(x)
      /\ l.byRef = k.byRef /\ l.byUrl = k.byUrl
  BY <1>2 DEF NewlyMade, In, Fine
<1>4. Joined(l, x, m)
  BY <1>1, <1>3, AddSourceJoins
<1>5. \A y \in Sources : y # x => l.ref[y] = k.ref[y]
  BY <1>2 DEF NewlyMade, Typed
<1> HIDE DEF m
<1>6. Joined(k, x, m)
  BY <1>3, <1>4, <1>5 DEF Joined
<1> QED BY <1>6 DEF m, l

(* A file joins them.                                                      *)
LEMMA NewOriginalJoins ==
  ASSUME NEW k, Typed(k), RefsAgree(k), Fine(k, {}), NEW s \in Scripts, NEW u \in OriginalUrls,
         <<s, u>> \notin In(k), k.byMapUrl[u] = NoSource, k.compiledTo[<<s, u>>] = {}
  PROVE  Joined(k, <<s, u>>, AddNewOriginal(k, s, u))
<1> DEFINE x == <<s, u>>
           l == NewSource(k, x)
           m == Link(l, s, x)
           n == AddSource(m, x)
<1>1. x \in Originals /\ x \in Sources /\ IsOriginal(x) /\ x[2] = u
  BY SourceShapes
<1>2. UrlOf(x) \in Urls /\ UrlOf(x) = u
  BY <1>1 DEF UrlOf, Urls
<1>3. AddNewOriginal(k, s, u) = n
  BY DEF AddNewOriginal
<1> HIDE DEF x
<1>4. x \notin In(k) /\ k.compiledTo[x] = {}
  BY DEF x
<1>5. NewlyMade(k, x, l)
  BY <1>1, <1>2, <1>4, NewSourceFields
<1> HIDE DEF l
<1>6. /\ Typed(l) /\ RefsAgree(l) /\ In(l) = In(k) /\ Fine(l, {}) /\ l.compiledTo = k.compiledTo
      /\ l.byMapUrl = k.byMapUrl /\ l.ref[x] \notin DOMAIN l.byRef
  BY <1>5 DEF NewlyMade, In, Fine
<1>7. Linked(l, s, x, m)
  BY <1>1, <1>6, LinkFields
<1>8. Fine(m, {x} \ In(l))
  BY <1>1, <1>4, <1>6, LinkFine
<1> HIDE DEF m
<1>9. /\ Typed(m) /\ RefsAgree(m) /\ In(m) = In(k)
      /\ m.ref[x] \in References /\ m.ref[x] \notin DOMAIN m.byRef /\ m.ref[x][1] = UrlOf(x)
      /\ m.byRef = k.byRef /\ m.byUrl = k.byUrl
  BY <1>5, <1>6, <1>7 DEF NewlyMade, Linked
<1>10. Joined(m, x, n)
  BY <1>1, <1>2, <1>4, <1>8, <1>9, AddSourceJoins
<1>11. \A y \in Sources : y # x => m.ref[y] = k.ref[y]
  BY <1>5, <1>7 DEF NewlyMade, Linked, Typed
<1> HIDE DEF n
<1>12. Joined(k, x, n)
  BY <1>9, <1>10, <1>11 DEF Joined
<1> QED BY <1>3, <1>12 DEF x

(* The reference of a source that is replaced, or of one that was and has  *)
(* another URL, is free.                                                   *)
LEMMA JoinKeepsFree ==
  ASSUME NEW k, RefsAgree(k), NEW x, NEW l, Joined(k, x, l), NEW y \in Sources, y # x, y \notin In(l),
         y \in In(k) \/ (k.ref[y] \notin DOMAIN k.byRef /\ k.ref[y][1] # UrlOf(x))
  PROVE  l.ref[y] \notin DOMAIN l.byRef
<1>1. l.ref[y] = k.ref[y]
  BY DEF Joined
<1>2. CASE y \in In(k)
  <2>1. k.ref[y] \in DOMAIN k.byRef /\ k.byRef[k.ref[y]] = y
    BY <1>2 DEF In, RefsAgree
  <2>2. k.ref[y] # l.ref[x]
    BY <2>1 DEF Joined
  <2>3. k.ref[y] \in DOMAIN l.byRef => l.byRef[k.ref[y]] = y
    BY <2>1, <2>2 DEF Joined
  <2> QED BY <1>1, <2>3 DEF In
<1>3. CASE k.ref[y] \notin DOMAIN k.byRef /\ k.ref[y][1] # UrlOf(x)
  <2>1. k.ref[y] # l.ref[x]
    BY <1>3 DEF Joined
  <2> QED BY <1>1, <1>3, <2>1 DEF Joined
<1> QED BY <1>2, <1>3

(* What a file that is added under u leaves to the scripts.                *)
ScriptsStay(k, l, u) ==
  /\ \A y \in Compiled : l.ref[y] = k.ref[y]
  /\ \A y \in Compiled :
       y \in In(l) \/ (y \notin In(k) /\ (k.ref[y] \in DOMAIN k.byRef \/ k.ref[y][1] = u))
         \/ l.ref[y] \notin DOMAIN l.byRef
  /\ \A v \in Urls : l.byUrl[v] # NoSource =>
       l.byUrl[v] = k.byUrl[v] \/ (IsOriginal(l.byUrl[v]) /\ UrlOf(l.byUrl[v]) = v)

(* It leaves that, even if u is the URL of a script.                       *)
LEMMA OriginalAddedStay ==
  ASSUME Inv, NEW s \in Scripts, NEW u \in OriginalUrls, OriginalAdded(s, u)
  PROVE  ScriptsStay(container, container', u)
<1> DEFINE existing == container.byMapUrl[u]
           removedOne == RemoveSource(container, existing)
           x == <<s, u>>
<1>1. u \in todo[s]
  BY DEF OriginalAdded
<1>2. ScriptsAreTyped /\ Typed(container) /\ RefsAgree(container) /\ Fine(container, {})
  BY DEF Inv, TypeInv
<1>3. x \notin In(container) /\ container.compiledTo[x] = {}
  BY <1>1, <1>2 DEF Inv, NothingIsLinkedEarly, TypeInv, ScriptsAreTyped, ScriptsAreAdded
<1>4. \/ existing = NoSource /\ container' = AddNewOriginal(container, s, u)
      \/ existing # NoSource /\ container' = AddNewOriginal(removedOne, s, u)
      \/ existing # NoSource /\ container' = Link(container, s, existing)
  BY DEF OriginalAdded
<1>5. existing # NoSource => /\ existing \in Originals /\ existing \in Sources
                             /\ existing \in In(container)
  BY <1>2, SourceShapes DEF Typed, Optional, Fine
<1>6. x \in Originals /\ x \in Sources /\ IsOriginal(x) /\ UrlOf(x) = u /\ x \notin Compiled
  BY SourceShapes DEF UrlOf
<1>7. \A y \in Compiled : y \in Sources /\ y # x /\ y # existing
  BY <1>5, <1>6, SourceShapes
<1>e. UrlOf(x) = u
  BY <1>6
<1> HIDE DEF existing, removedOne, x
<1>8. CASE existing = NoSource /\ container' = AddNewOriginal(container, s, u)
  <2>1. Joined(container, x, container')
    BY <1>2, <1>3, <1>8, NewOriginalJoins DEF x, existing
  <2>2. \A y \in Compiled : container'.ref[y] = container.ref[y]
    BY <1>7, <2>1 DEF Joined
  <2>3. \A v \in Urls : container'.byUrl[v] # NoSource =>
          container'.byUrl[v] = container.byUrl[v]
             \/ (IsOriginal(container'.byUrl[v]) /\ UrlOf(container'.byUrl[v]) = v)
    BY <1>6, <2>1 DEF Joined
  <2>4. ASSUME NEW y \in Compiled, y \notin In(container'),
               y \in In(container)
                 \/ (container.ref[y] \notin DOMAIN container.byRef /\ container.ref[y][1] # u)
        PROVE  container'.ref[y] \notin DOMAIN container'.byRef
    BY <1>2, <1>7, <1>e, <2>1, <2>4, JoinKeepsFree
  <2> QED BY <2>2, <2>3, <2>4 DEF ScriptsStay
<1>9. CASE existing # NoSource /\ container' = AddNewOriginal(removedOne, s, u)
  <2>1. /\ Shrinks(container, removedOne) /\ Fine(removedOne, {}) /\ existing \notin In(removedOne)
        /\ \A y \in Compiled \intersect In(container) : y \in In(removedOne)
    BY <1>2, <1>5, <1>7, <1>9, RemoveShrinks, RemoveFine DEF removedOne
  <2>2. Typed(removedOne) /\ RefsAgree(removedOne) /\ In(removedOne) \subseteq In(container)
    BY <1>2, <2>1, ShrinksKeeps DEF Shrinks
  <2>3. removedOne.byMapUrl[u] = NoSource
    <3>1. removedOne.byMapUrl[u] \in {existing, NoSource}
      BY <2>1 DEF Shrinks, existing
    <3> QED BY <2>1, <3>1 DEF Fine
  <2>4. removedOne.compiledTo[x] = {}
    BY <1>3, <1>6, <2>1 DEF Shrinks
  <2>5. Joined(removedOne, x, container')
    BY <1>3, <1>9, <2>1, <2>2, <2>3, <2>4, NewOriginalJoins DEF x
  <2>6. /\ removedOne.ref = container.ref /\ DOMAIN removedOne.byRef \subseteq DOMAIN container.byRef
        /\ \A v \in Urls : removedOne.byUrl[v] \in {container.byUrl[v], NoSource}
    BY <2>1 DEF Shrinks
  <2>7. \A y \in Compiled : container'.ref[y] = container.ref[y]
    BY <1>7, <2>5, <2>6 DEF Joined
  <2>8. \A v \in Urls : container'.byUrl[v] # NoSource =>
          container'.byUrl[v] = container.byUrl[v]
             \/ (IsOriginal(container'.byUrl[v]) /\ UrlOf(container'.byUrl[v]) = v)
    BY <1>6, <2>5, <2>6 DEF Joined
  <2>9. ASSUME NEW y \in Compiled, y \notin In(container'),
               y \in In(container)
                 \/ (container.ref[y] \notin DOMAIN container.byRef /\ container.ref[y][1] # u)
        PROVE  container'.ref[y] \notin DOMAIN container'.byRef
    <3>1. y \in In(removedOne)
            \/ (removedOne.ref[y] \notin DOMAIN removedOne.byRef /\ removedOne.ref[y][1] # u)
      BY <2>1, <2>6, <2>9
    <3> QED BY <1>7, <1>e, <2>2, <2>5, <2>9, <3>1, JoinKeepsFree
  <2> QED BY <2>7, <2>8, <2>9 DEF ScriptsStay
<1>10. CASE existing # NoSource /\ container' = Link(container, s, existing)
  <2>1. Linked(container, s, existing, container')
    BY <1>2, <1>5, <1>10, LinkFields
  <2> QED BY <2>1 DEF Linked, ScriptsStay
<1> QED BY <1>4, <1>8, <1>9, <1>10

-----------------------------------------------------------------------------
(* A removal finds the source or nothing, where references do not collide. *)

(* A source that is listed is a file's or that of a script which was       *)
(* parsed.                                                                 *)
LEMMA ListedAreParsed ==
  ASSUME TypeInv, NEW y \in In(container)
  PROVE  \/ y \in Originals /\ IsOriginal(y) /\ UrlOf(y) = y[2]
         \/ /\ y \in Compiled /\ y[1] \in Scripts /\ y = <<y[1], self>> /\ ~IsOriginal(y)
            /\ HasOwn(y[1]) /\ y[1] \in DOMAIN script /\ UrlOf(y) = script[y[1]].url
<1>1. y \in Sources
  BY DEF TypeInv, Typed, In
<1>2. CASE y \in Originals
  BY <1>2, SourceShapes DEF UrlOf
<1>3. CASE y \in Compiled
  <2>1. y[1] \in Scripts /\ y = <<y[1], self>> /\ ~IsOriginal(y) /\ y # NoSource
    BY <1>3, SourceShapes
  <2>2. HasOwn(y[1])
    BY <2>1 DEF TypeInv, ScriptsAreAdded, HasOwn
  <2>3. y[1] \in DOMAIN script
    BY <2>1, <2>2 DEF TypeInv, ScriptsAreTyped, HasOwn
  <2> QED BY <1>3, <2>1, <2>2, <2>3 DEF UrlOf
<1> QED BY <1>1, <1>2, <1>3 DEF Sources

(* The script of a source of its own was parsed.                           *)
LEMMA OwnersAreParsed ==
  ASSUME ScriptsAreTyped, NEW s \in Scripts, HasOwn(s)
  PROVE  /\ s \in DOMAIN script /\ script[s].url \in ScriptUrls
         /\ <<s, self>> \in Compiled /\ <<s, self>> \in Sources
<1>1. <<s, self>> # NoSource /\ <<s, self>> \in Compiled /\ <<s, self>> \in Sources
  BY SourcesOfScripts, SourceShapes
<1>2. s \in DOMAIN script
  BY <1>1 DEF ScriptsAreTyped, HasOwn
<1>3. script[s].url \in ScriptUrls
  BY <1>2, ParsedScripts DEF ScriptInfo
<1> QED BY <1>1, <1>2, <1>3

(* The source of a script that is not removed is one that was added.       *)
LEMMA OwnersHaveScripts ==
  ASSUME SourcesAreShared, NEW s \in Scripts, HasScripts(s)
  PROVE  HasOwn(s)
  BY DEF SourcesAreShared, HasScripts

(* The references lead to the sources, or to nothing.                      *)
LEMMA FoundImplies == FoundInv => RemovesItself
<1> SUFFICES ASSUME FoundInv, NEW c \in Contexts, NEW t \in Due(c)
             PROVE  AlreadyRemoved(container, source[t]) \/ Known(source[t])
  BY DEF RemovesItself
<1>1. t \in Scripts /\ t \notin removed /\ source[t] # NoSource
  BY DEF Due, IsDue
<1> DEFINE s == source[t][1]
<1>2. s \in Scripts /\ source[t] = <<s, self>>
  BY <1>1, SourcesOfScripts DEF FoundInv, Inv, TypeInv
<1> HIDE DEF s
<1>3. HasScripts(s)
  BY <1>1, <1>2 DEF HasScripts
<1>4. AlreadyRemoved(container, <<s, self>>) \/ <<s, self>> \in In(container)
  BY <1>2, <1>3 DEF FoundInv, SourcesAreFound, GoneIsRemoved, ReplacedEarly
<1> QED BY <1>2, <1>4 DEF Known, In

(* It holds at the start.                                                  *)
LEMMA InitFound == Init => SourcesAreFound
<1> SUFFICES ASSUME Init PROVE SourcesAreFound
  OBVIOUS
<1>1. \A s, t \in Scripts : source[t] # <<s, self>>
  BY DEF Init, NoSource, Scripts
<1>2. \A u \in Urls : container.byUrl[u] = NoSource
  BY DEF Init
<1> QED BY <1>1, <1>2
        DEF SourcesAreFound, SourcesAreShared, UrlsAreTheirs, GoneIsRemoved, ReplacedEarly, HasScripts,
            HasOwn

(* Another script is parsed, and the sources are those there were.         *)
LEMMA ParsedUrls ==
  ASSUME Inv, UrlsAreTheirs, NEW c \in Contexts, NEW v \in ScriptUrls,
         script' = Append(script, [context |-> c, url |-> v]), container' = container,
         \A s \in Scripts : HasOwn(s)' => HasOwn(s)
  PROVE  /\ UrlsAreTheirs'
         /\ \A s \in DOMAIN script : s \in DOMAIN script' /\ script'[s] = script[s]
         /\ DOMAIN script' = DOMAIN script \union {Len(script) + 1}
         /\ script'[Len(script) + 1].url = v
<1>1. ScriptsAreTyped /\ TypeInv /\ Fine(container, {})
  BY DEF Inv, TypeInv
<1>2. /\ \A s \in DOMAIN script : s \in DOMAIN script' /\ script'[s] = script[s]
      /\ DOMAIN script' = DOMAIN script \union {Len(script) + 1}
      /\ script'[Len(script) + 1] = [context |-> c, url |-> v]
  <2>1. script \in Seq(ScriptInfo) /\ [context |-> c, url |-> v] \in ScriptInfo
    BY <1>1 DEF ScriptsAreTyped, ScriptInfo
  <2> QED BY <2>1
<1>3. ASSUME NEW u \in Urls, container.byUrl[u] # NoSource
      PROVE  UrlOf(container.byUrl[u])' = u
  <2>0. PICK y : y = container.byUrl[u]
    OBVIOUS
  <2>1. y \in In(container) /\ UrlOf(y) = u
    BY <1>1, <1>3, <2>0 DEF Fine, UrlsAreTheirs
  <2>2. IF IsOriginal(y) THEN y[2] = u ELSE script'[y[1]].url = u
    BY <1>1, <1>2, <2>1, ListedAreParsed
  <2> QED BY <2>0, <2>2 DEF UrlOf
<1>4. ASSUME NEW s \in Scripts, HasOwn(s)'
      PROVE  container.ref[<<s, self>>][1] = script'[s].url
  <2>1. HasOwn(s)
    BY <1>4
  <2>2. s \in DOMAIN script
    BY <1>1, <2>1, OwnersAreParsed
  <2> QED BY <1>2, <2>1, <2>2 DEF UrlsAreTheirs
<1>5. \A u \in Urls : container'.byUrl[u] # NoSource => UrlOf(container.byUrl[u])' = u
  BY <1>3
<1>6. \A s \in Scripts : HasOwn(s)' => container'.ref[<<s, self>>][1] = script'[s].url
  BY <1>4
<1>7. UrlsAreTheirs'
  BY <1>5, <1>6 DEF UrlsAreTheirs
<1> QED BY <1>2, <1>7

(* A script that waits for its source changes nothing.                     *)
LEMMA ScriptParsedFound ==
  ASSUME Inv, SourcesAreFound, NEW c \in Contexts, NEW v \in ScriptUrls, ScriptParsed(c, v)
  PROVE  SourcesAreFound'
<1>1. /\ script' = Append(script, [context |-> c, url |-> v])
      /\ source' = source /\ scripts' = scripts /\ removed' = removed /\ container' = container
  BY DEF ScriptParsed
<1>2. UrlsAreTheirs'
  BY <1>1, ParsedUrls DEF SourcesAreFound, HasOwn
<1>3. SourcesAreShared' /\ GoneIsRemoved'
  BY <1>1 DEF SourcesAreFound, SourcesAreShared, HasOwn, GoneIsRemoved, ReplacedEarly, HasScripts,
              AlreadyRemoved, In
<1> QED BY <1>2, <1>3 DEF SourcesAreFound

(* A script that shares a source shares one that is in the container.      *)
LEMMA SameScriptParsedFound ==
  ASSUME Inv, SourcesAreFound, NEW c \in Contexts, NEW v \in ScriptUrls, SameScriptParsed(c, v)
  PROVE  SourcesAreFound'
<1>0. PICK prev, new : prev = container.byUrl[v] /\ new = Len(script) + 1
  OBVIOUS
<1>1. /\ script' = Append(script, [context |-> c, url |-> v]) /\ Len(script) < MaxScripts
      /\ prev \in Compiled
      /\ source' = [source EXCEPT ![new] = prev]
      /\ scripts' = [scripts EXCEPT ![prev[1]] = @ \union {new}]
      /\ removed' = removed /\ container' = container
  BY <1>0 DEF SameScriptParsed
<1>2. ScriptsAreTyped /\ TypeInv /\ Fine(container, {})
  BY DEF Inv, TypeInv
<1>3. prev \in In(container) /\ prev # NoSource
  <2>1. prev # NoSource /\ v \in Urls
    BY <1>1, SourceShapes DEF Urls
  <2> QED BY <1>0, <1>2, <2>1 DEF Fine
<1>4. prev[1] \in Scripts /\ prev = <<prev[1], self>> /\ HasOwn(prev[1]) /\ prev[1] \in DOMAIN script
  BY <1>1, <1>2, <1>3, ListedAreParsed, SourceShapes
<1>5. new \in Scripts /\ new \notin DOMAIN script
  BY <1>0, <1>1, <1>2, ParsedScripts, SourceContainerAssumption DEF Scripts
<1>6. /\ source[new] = NoSource /\ source'[new] = prev
      /\ \A t \in Scripts : t # new => source'[t] = source[t]
  BY <1>1, <1>2, <1>5 DEF ScriptsAreTyped
<1>7. \A s \in Scripts : HasOwn(s)' <=> HasOwn(s)
  <2>1. ~HasOwn(new)' /\ ~HasOwn(new)
    <3>1. new # prev[1] /\ <<new, self>> # NoSource
      BY <1>2, <1>4, <1>5, SourcesOfScripts
    <3> QED BY <1>4, <1>6, <3>1 DEF HasOwn
  <2> QED BY <1>6, <2>1 DEF HasOwn
<1>8. /\ UrlsAreTheirs'
      /\ \A s \in DOMAIN script : s \in DOMAIN script' /\ script'[s] = script[s]
      /\ DOMAIN script' = DOMAIN script \union {new}
  BY <1>0, <1>1, <1>7, ParsedUrls DEF SourcesAreFound
<1>9. SourcesAreShared'
  <2>1. /\ scripts'[prev[1]] = scripts[prev[1]] \union {new}
        /\ \A s \in Scripts : s # prev[1] => scripts'[s] = scripts[s]
    BY <1>1, <1>2, <1>4 DEF ScriptsAreTyped
  <2> SUFFICES ASSUME NEW t \in Scripts, NEW s \in Scripts, source'[t] = <<s, self>>
               PROVE  HasOwn(s)' /\ (t \in removed \/ t \in scripts'[s])
    BY <1>1 DEF SourcesAreShared
  <2>2. CASE t = new
    <3>1. s = prev[1]
      BY <1>4, <1>6, <2>2
    <3> QED BY <1>4, <1>7, <2>1, <2>2, <3>1
  <2>3. CASE t # new
    <3>1. HasOwn(s) /\ (t \in removed \/ t \in scripts[s])
      BY <1>6, <2>3 DEF SourcesAreFound, SourcesAreShared
    <3>2. scripts[s] \subseteq scripts'[s]
      BY <2>1
    <3> QED BY <1>7, <3>1, <3>2
  <2> QED BY <2>2, <2>3
<1>10. GoneIsRemoved'
  <2> SUFFICES ASSUME NEW s \in Scripts, HasScripts(s)', <<s, self>> \notin In(container)
               PROVE  AlreadyRemoved(container, <<s, self>>)
    BY <1>1 DEF GoneIsRemoved, ReplacedEarly, In, AlreadyRemoved
  <2>1. PICK t \in Scripts : source'[t] = <<s, self>> /\ t \notin removed
    BY <1>1 DEF HasScripts
  <2>2. source[t] = <<s, self>>
    BY <1>3, <1>6, <2>1
  <2> QED BY <2>1, <2>2 DEF SourcesAreFound, GoneIsRemoved, ReplacedEarly, HasScripts
<1> QED BY <1>8, <1>9, <1>10 DEF SourcesAreFound

(* A source replaces the one of its URL, whose reference stays free, and   *)
(* takes that of no other that was replaced.                               *)
LEMMA SourceAddedFound ==
  ASSUME Apart, Inv, SourcesAreFound, NEW s \in Scripts, SourceAdded(s)
  PROVE  SourcesAreFound'
<1>0. PICK x : x = <<s, self>>
  OBVIOUS
<1>1. /\ s \in DOMAIN script /\ source[s] = NoSource
      /\ source' = [source EXCEPT ![s] = x]
      /\ scripts' = [scripts EXCEPT ![s] = {s}]
      /\ container' = AddSource(NewSource(container, x), x)
      /\ script' = script /\ removed' = removed
  BY <1>0 DEF SourceAdded
<1>2. /\ ScriptsAreTyped /\ Typed(container) /\ RefsAgree(container) /\ Fine(container, {})
      /\ TypeInv
  BY DEF Inv, TypeInv
<1>3. x \in Compiled /\ x \in Sources /\ ~IsOriginal(x) /\ UrlOf(x) \in Urls /\ x # NoSource
      /\ UrlOf(x) = script[s].url
  BY <1>0, <1>1, <1>2, UrlOfScript, SourcesOfScripts, SourceShapes
<1>4. x \notin In(container)
  BY <1>0, <1>1, <1>2, <1>3 DEF TypeInv, ScriptsAreAdded
<1>5. Joined(container, x, container')
  BY <1>1, <1>2, <1>3, <1>4, NewScriptJoins
<1>6. RefsAgree(container')
  BY <1>1, <1>2, <1>3, <1>4, AddNewScriptIsTyped
<1>7. /\ source'[s] = x /\ \A t \in Scripts : t # s => source'[t] = source[t]
      /\ scripts'[s] = {s} /\ \A t \in Scripts : t # s => scripts'[t] = scripts[t]
  BY <1>1, <1>2 DEF ScriptsAreTyped
<1>8. ~HasOwn(s) /\ HasOwn(s)' /\ \A t \in Scripts : t # s => (HasOwn(t)' <=> HasOwn(t))
  BY <1>0, <1>1, <1>3, <1>7 DEF HasOwn
<1>9. \A t \in Scripts : HasOwn(t) => <<t, self>> # x /\ <<t, self>> \in Sources /\ <<t, self>> \in Compiled
                                      /\ script[t].url \in ScriptUrls /\ script[t].url \in Urls
  BY <1>0, <1>2, <1>8, OwnersAreParsed DEF Urls
<1>10. SourcesAreShared'
  <2> SUFFICES ASSUME NEW t \in Scripts, NEW a \in Scripts, source'[t] = <<a, self>>
               PROVE  HasOwn(a)' /\ (t \in removed \/ t \in scripts'[a])
    BY <1>1 DEF SourcesAreShared
  <2>1. CASE t = s
    BY <1>0, <1>7, <1>8, <2>1
  <2>2. CASE t # s
    <3>1. HasOwn(a) /\ (t \in removed \/ t \in scripts[a])
      BY <1>7, <2>2 DEF SourcesAreFound, SourcesAreShared
    <3>2. a # s
      BY <1>8, <3>1
    <3> QED BY <1>7, <1>8, <3>1, <3>2
  <2> QED BY <2>1, <2>2
<1>11. UrlsAreTheirs'
  <2>1. ASSUME NEW u \in Urls, container'.byUrl[u] # NoSource
        PROVE  UrlOf(container'.byUrl[u]) = u
    BY <1>2, <1>5, <2>1 DEF Joined, SourcesAreFound, UrlsAreTheirs
  <2>2. ASSUME NEW t \in Scripts, HasOwn(t)'
        PROVE  container'.ref[<<t, self>>][1] = script[t].url
    <3>1. CASE t = s
      BY <1>0, <1>3, <1>5, <3>1 DEF Joined
    <3>2. CASE t # s
      <4>1. HasOwn(t)
        BY <1>8, <2>2, <3>2
      <4> QED BY <1>5, <1>9, <4>1 DEF Joined, SourcesAreFound, UrlsAreTheirs
    <3> QED BY <3>1, <3>2
  <2>3. \A u \in Urls : container'.byUrl[u] # NoSource => UrlOf(container.byUrl[u])' = u
    BY <1>1, <2>1 DEF UrlOf
  <2>4. \A t \in Scripts : HasOwn(t)' => container'.ref[<<t, self>>][1] = script'[t].url
    BY <1>1, <2>2
  <2> QED BY <2>3, <2>4 DEF UrlsAreTheirs
<1>12. GoneIsRemoved'
  <2> SUFFICES ASSUME NEW t \in Scripts, HasScripts(t)', <<t, self>> \notin In(container')
               PROVE  AlreadyRemoved(container', <<t, self>>)
    BY DEF GoneIsRemoved, ReplacedEarly, In, AlreadyRemoved
  <2>0. PICK y : y = <<t, self>>
    OBVIOUS
  <2>1. t # s
    BY <1>0, <1>5 DEF Joined
  <2>2. HasScripts(t) /\ HasOwn(t)
    <3>1. PICK d \in Scripts : source'[d] = <<t, self>> /\ d \notin removed
      BY <1>1 DEF HasScripts
    <3>2. d # s
      BY <1>0, <1>7, <2>1, <3>1
    <3>3. HasScripts(t)
      BY <1>7, <3>1, <3>2 DEF HasScripts
    <3> QED BY <3>3, OwnersHaveScripts DEF SourcesAreFound
  <2>3. y # x /\ y \in Sources /\ container.ref[y][1] = script[t].url
    BY <1>9, <2>0, <2>2 DEF SourcesAreFound, UrlsAreTheirs
  <2>4. CASE y \in In(container)
    <3>1. container'.ref[y] \notin DOMAIN container'.byRef
      BY <1>2, <1>5, <2>0, <2>3, <2>4, JoinKeepsFree
    <3> QED BY <2>0, <3>1 DEF AlreadyRemoved
  <2>5. CASE y \notin In(container)
    <3>1. t \in ReplacedEarly
      BY <2>0, <2>2, <2>5 DEF ReplacedEarly
    <3>2. container.ref[y] \notin DOMAIN container.byRef
      BY <2>0, <3>1 DEF SourcesAreFound, GoneIsRemoved, AlreadyRemoved
    <3>3. script[s].url \in Awaited
      BY <1>1 DEF Awaited
    <3>4. container.ref[y][1] # UrlOf(x)
      BY <1>3, <2>3, <3>1, <3>3 DEF Apart
    <3>5. container'.ref[y] \notin DOMAIN container'.byRef
      BY <1>2, <1>5, <2>0, <2>3, <3>2, <3>4, JoinKeepsFree
    <3> QED BY <2>0, <3>5 DEF AlreadyRemoved
  <2> QED BY <2>4, <2>5
<1> QED BY <1>10, <1>11, <1>12 DEF SourcesAreFound

(* Files take no place of a script, and no reference of one that was       *)
(* replaced.                                                               *)
LEMMA OriginalAddedFound ==
  ASSUME Apart, Inv, SourcesAreFound, NEW s \in Scripts, NEW u \in OriginalUrls, OriginalAdded(s, u)
  PROVE  SourcesAreFound'
<1>1. UNCHANGED <<script, source, scripts, removed>> /\ u \in todo[s]
  BY DEF OriginalAdded
<1>2. ScriptsStay(container, container', u)
  BY OriginalAddedStay
<1>3. ScriptsAreTyped
  BY DEF Inv, TypeInv
<1>4. SourcesAreShared'
  BY <1>1 DEF SourcesAreFound, SourcesAreShared, HasOwn
<1>5. UrlsAreTheirs'
  <2>1. \A v \in Urls : container'.byUrl[v] # NoSource => UrlOf(container'.byUrl[v]) = v
    BY <1>2 DEF ScriptsStay, SourcesAreFound, UrlsAreTheirs
  <2>2. \A t \in Scripts : HasOwn(t) => container'.ref[<<t, self>>][1] = script[t].url
    BY <1>2, SourceShapes DEF ScriptsStay, SourcesAreFound, UrlsAreTheirs
  <2>3. \A v \in Urls : container'.byUrl[v] # NoSource => UrlOf(container.byUrl[v])' = v
    BY <1>1, <2>1 DEF UrlOf
  <2>4. \A t \in Scripts : HasOwn(t)' => container'.ref[<<t, self>>][1] = script'[t].url
    BY <1>1, <2>2 DEF HasOwn
  <2> QED BY <2>3, <2>4 DEF UrlsAreTheirs
<1>6. GoneIsRemoved'
  <2> SUFFICES ASSUME NEW t \in Scripts, HasScripts(t), <<t, self>> \notin In(container')
               PROVE  AlreadyRemoved(container', <<t, self>>)
    BY <1>1 DEF GoneIsRemoved, ReplacedEarly, HasScripts, In, AlreadyRemoved
  <2>0. PICK y : y = <<t, self>>
    OBVIOUS
  <2>1. y \in Compiled /\ HasOwn(t)
    BY <2>0, SourceShapes, OwnersHaveScripts DEF SourcesAreFound
  <2>2. ASSUME y \notin In(container)
        PROVE  container.ref[y] \notin DOMAIN container.byRef /\ container.ref[y][1] # u
    <3>1. t \in ReplacedEarly
      BY <2>0, <2>2 DEF ReplacedEarly
    <3>2. container.ref[y] \notin DOMAIN container.byRef
      BY <2>0, <3>1 DEF SourcesAreFound, GoneIsRemoved, AlreadyRemoved
    <3>3. u \in Awaited
      BY <1>1 DEF Awaited
    <3>4. script[t].url # u /\ container.ref[y][1] = script[t].url
      BY <2>0, <2>1, <3>1, <3>3 DEF Apart, SourcesAreFound, UrlsAreTheirs
    <3> QED BY <3>2, <3>4
  <2>3. container'.ref[y] \notin DOMAIN container'.byRef
    BY <1>2, <2>0, <2>1, <2>2 DEF ScriptsStay
  <2> QED BY <2>0, <2>3 DEF AlreadyRemoved
<1> QED BY <1>4, <1>5, <1>6 DEF SourcesAreFound

(* A source that goes with its context leaves no script to remove.         *)
LEMMA ScriptsRemovedFound ==
  ASSUME Inv, SourcesAreFound, RemovesItself, NEW c \in Contexts, ScriptsRemoved(c)
  PROVE  SourcesAreFound'
<1>0. PICK X : X = {s \in Due(c) : ScriptsNotOf(c, source[s][1]) = {}}
  OBVIOUS
<1>1. /\ removed' = removed \union Due(c)
      /\ scripts' = [s \in Scripts |-> IF s \in {source[d][1] : d \in Due(c)}
                                       THEN ScriptsNotOf(c, s) ELSE scripts[s]]
      /\ container' = RemoveSourcesOf(X)
      /\ script' = script /\ source' = source
  BY <1>0 DEF ScriptsRemoved
<1>2. /\ ScriptsAreTyped /\ Typed(container) /\ RefsAgree(container) /\ Fine(container, {})
      /\ TypeInv
  BY DEF Inv, TypeInv
<1>3. Shrinks(container, container')
  BY <1>2, RemovedSources
<1>4. \A s \in X : /\ s \in Due(c) /\ source[s] \in Sources
                   /\ AlreadyRemoved(container, source[s]) \/ source[s] \in In(container)
  <2>1. \A s \in Due(c) : s \in Scripts /\ source[s] # NoSource
    BY DEF Due, IsDue
  <2>2. \A s \in Due(c) : AlreadyRemoved(container, source[s]) \/ source[s] \in In(container)
    BY DEF RemovesItself, Known, In
  <2> QED BY <1>0, <1>2, <2>1, <2>2, SourcesOfScripts
<1>5. \A y \in Compiled \intersect In(container) :
        (\A s \in X : source[s] # y) => y \in In(container')
  BY <1>1, <1>2, <1>4, RemovalsFine
<1>6. ASSUME NEW t \in Scripts, t \in DOMAIN script, source[t] # NoSource, t \notin removed,
             script[t].context = c
      PROVE  t \in Due(c)
  <2>1. context[c] = "destroyed"
    BY DEF ScriptsRemoved, Due, IsDue
  <2> QED BY <1>6, <2>1 DEF Due, IsDue
<1>7. \A t \in Scripts : source[t] # NoSource => t \in DOMAIN script
  BY <1>2 DEF ScriptsAreTyped
<1>8. SourcesAreShared'
  <2> SUFFICES ASSUME NEW t \in Scripts, NEW s \in Scripts, source'[t] = <<s, self>>
               PROVE  HasOwn(s)' /\ (t \in removed' \/ t \in scripts'[s])
    BY DEF SourcesAreShared
  <2>0. source[t] = <<s, self>> /\ (HasOwn(s)' <=> HasOwn(s))
    BY <1>1 DEF HasOwn
  <2>1. HasOwn(s) /\ (t \in removed \/ t \in scripts[s]) /\ source[t] # NoSource
    BY <1>1, <1>2, <2>0, SourcesOfScripts DEF SourcesAreFound, SourcesAreShared
  <2>2. t \notin removed' => script[t].context # c
    BY <1>1, <1>6, <1>7, <2>1
  <2> QED BY <1>1, <2>0, <2>1, <2>2 DEF ScriptsNotOf
<1>9. UrlsAreTheirs'
  <2>1. /\ \A u \in Urls : container'.byUrl[u] \in {container.byUrl[u], NoSource}
        /\ container'.ref = container.ref
    BY <1>3 DEF Shrinks
  <2>2. \A v \in Urls : container'.byUrl[v] # NoSource => UrlOf(container'.byUrl[v]) = v
    BY <2>1 DEF SourcesAreFound, UrlsAreTheirs
  <2>3. \A v \in Urls : container'.byUrl[v] # NoSource => UrlOf(container.byUrl[v])' = v
    BY <1>1, <2>2 DEF UrlOf
  <2>4. \A t \in Scripts : HasOwn(t)' => container'.ref[<<t, self>>][1] = script'[t].url
    BY <1>1, <2>1 DEF HasOwn, SourcesAreFound, UrlsAreTheirs
  <2> QED BY <2>3, <2>4 DEF UrlsAreTheirs
<1>10. GoneIsRemoved'
  <2> SUFFICES ASSUME NEW s \in Scripts, <<s, self>> \notin In(container'),
                      NEW t \in Scripts, source[t] = <<s, self>>, t \notin removed'
               PROVE  AlreadyRemoved(container', <<s, self>>)
    BY <1>1 DEF GoneIsRemoved, ReplacedEarly, HasScripts, In, AlreadyRemoved
  <2>0. PICK y : y = <<s, self>>
    OBVIOUS
  <2>1. y \in Compiled /\ source[t] # NoSource /\ t \notin removed /\ t \notin Due(c)
    BY <1>1, <1>2, <2>0, SourceShapes, SourcesOfScripts
  <2>2. y \notin In(container)
    <3> SUFFICES ASSUME y \in In(container) PROVE FALSE
      OBVIOUS
    <3>1. PICK d \in X : source[d] = y
      BY <1>5, <2>0, <2>1
    <3>2. ScriptsNotOf(c, s) = {}
      BY <1>0, <2>0, <3>1
    <3>3. t \in scripts[s]
      BY <2>1 DEF SourcesAreFound, SourcesAreShared
    <3>4. script[t].context = c
      BY <3>2, <3>3 DEF ScriptsNotOf
    <3> QED BY <1>6, <1>7, <2>1, <3>4
  <2>3. AlreadyRemoved(container, y)
    BY <2>0, <2>1, <2>2 DEF SourcesAreFound, GoneIsRemoved, ReplacedEarly, HasScripts
  <2>4. AlreadyRemoved(container', y)
    BY <1>3, <2>3 DEF AlreadyRemoved, Shrinks
  <2> QED BY <2>0, <2>4
<1> QED BY <1>8, <1>9, <1>10 DEF SourcesAreFound

(* Every step keeps the sources of scripts where they are looked for.      *)
LEMMA NextFoundInv == FoundInv /\ Apart /\ [Next]_vars => FoundInv'
<1> SUFFICES ASSUME FoundInv, Apart, [Next]_vars
             PROVE  FoundInv'
  OBVIOUS
<1>1. Inv /\ SourcesAreFound /\ RemovesItself
  BY FoundImplies DEF FoundInv
<1>2. Inv'
  BY <1>1, NextInv
<1>3. ASSUME UNCHANGED <<script, source, scripts, removed, container>>
      PROVE  SourcesAreFound'
  <2>1. SourcesAreShared' /\ GoneIsRemoved'
    BY <1>1, <1>3 DEF SourcesAreFound, SourcesAreShared, HasOwn, GoneIsRemoved, ReplacedEarly,
                      HasScripts, AlreadyRemoved, In
  <2>2. \A u \in Urls : container'.byUrl[u] # NoSource => UrlOf(container.byUrl[u])' = u
    BY <1>1, <1>3 DEF SourcesAreFound, UrlsAreTheirs, UrlOf
  <2>3. \A s \in Scripts : HasOwn(s)' => container'.ref[<<s, self>>][1] = script'[s].url
    BY <1>1, <1>3 DEF SourcesAreFound, UrlsAreTheirs, HasOwn
  <2> QED BY <2>1, <2>2, <2>3 DEF SourcesAreFound, UrlsAreTheirs
<1>4. ASSUME NEW c \in Contexts, NEW u \in ScriptUrls, ScriptParsed(c, u)
      PROVE  SourcesAreFound'
  BY <1>1, <1>4, ScriptParsedFound
<1>5. ASSUME NEW c \in Contexts, NEW u \in ScriptUrls, SameScriptParsed(c, u)
      PROVE  SourcesAreFound'
  BY <1>1, <1>5, SameScriptParsedFound
<1>6. ASSUME NEW c \in Contexts, ContextDestroyed(c)
      PROVE  SourcesAreFound'
  BY <1>3, <1>6 DEF ContextDestroyed
<1>7. ASSUME NEW c \in Contexts, ScriptsRemoved(c)
      PROVE  SourcesAreFound'
  BY <1>1, <1>7, ScriptsRemovedFound
<1>8. ASSUME NEW s \in Scripts, SourceAdded(s)
      PROVE  SourcesAreFound'
  BY <1>1, <1>8, SourceAddedFound
<1>9. ASSUME NEW s \in Scripts, LoadFails(s) \/ Loaded(s) \/ AllAdded(s)
      PROVE  SourcesAreFound'
  BY <1>3, <1>9 DEF LoadFails, Loaded, AllAdded
<1>10. ASSUME NEW s \in Scripts, NEW u \in OriginalUrls, OriginalAdded(s, u)
       PROVE  SourcesAreFound'
  BY <1>1, <1>10, OriginalAddedFound
<1>11. ASSUME UNCHANGED vars
       PROVE  SourcesAreFound'
  BY <1>3, <1>11 DEF vars
<1>12. SourcesAreFound'
  BY <1>4, <1>5, <1>6, <1>7, <1>8, <1>9, <1>10, <1>11 DEF Next, Runtime, MapStep
<1> QED BY <1>2, <1>12 DEF FoundInv

(* What sourceContainer.ts:812 asserts holds until a source is to be added *)
(* under the URL of one that was replaced while that one has scripts: the  *)
(* reference of a source that is removed leads to it, or it was removed    *)
(* before.  However often a page reloads, and even if a file has the URL   *)
(* of a script.                                                            *)
THEOREM ReferencesLeadToTheirSources == Spec /\ []Apart => []RemovesItself
<1>1. Init => FoundInv
  BY InitInv, InitFound DEF FoundInv
<1>2. FoundInv /\ Apart /\ [Next]_vars => FoundInv'
  BY NextFoundInv
<1>3. FoundInv => RemovesItself
  BY FoundImplies
<1> QED BY <1>1, <1>2, <1>3, PTL DEF Spec

(* Until then a file has one source, and the links are mutual.             *)
THEOREM MapsAgreeWhereApart == Spec /\ []Apart => [](OneSourcePerFile /\ LinksAreMutual)
  BY ReferencesLeadToTheirSources, InvHolds, InvImplies, PTL
=============================================================================
