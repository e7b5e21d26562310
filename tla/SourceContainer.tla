--------------------------- MODULE SourceContainer ---------------------------
(***************************************************************************)
(* SourceContainer (src/adapter/sourceContainer.ts), the sources a         *)
(* session knows, and the parts of Thread and ExecutionContext             *)
(* (src/adapter/threads.ts) which fill it and empty it.                    *)
(*                                                                         *)
(* A script the runtime parses gets a source, its own or the one there is  *)
(* with the same content.  A source replaces the one of the same URL.  The *)
(* source map of a source is loaded, and then a source is added for every  *)
(* file it names, over awaits, unless another bundle brought that file     *)
(* before.  When an execution context is gone, so are the sources no other *)
(* context has scripts of; and with a source, what was mapped to it alone. *)
(*                                                                         *)
(* External: the runtime, which parses scripts and destroys contexts at    *)
(* any time, and source maps, which load or do not.                        *)
(*                                                                         *)
(* Bounds: MaxScripts, and for the scripts of a URL which get a source of  *)
(* their own MaxSameUrl, or one if the URL is not in ReloadedUrls.         *)
(***************************************************************************)
EXTENDS Naturals, Sequences, FiniteSets

CONSTANTS
  MaxScripts,   \* scripts the runtime parses
  MaxSameUrl,   \* scripts with a source of their own, of a reloaded URL
  ReloadedUrls, \* URLs that have more than one such script
  Contexts,     \* execution contexts
  ScriptUrls,   \* URLs of scripts
  OriginalUrls, \* URLs of the files source maps name; may be URLs of scripts
  HmrUrls,      \* URLs of scripts that are hot updates: isHMR
  MapOf,        \* the files the source map of a script names, by its URL
  self          \* not a URL

ASSUME SourceContainerAssumption ==
  /\ MaxScripts \in Nat
  /\ MaxSameUrl \in Nat
  /\ HmrUrls \subseteq ScriptUrls
  /\ MapOf \in [ScriptUrls -> SUBSET OriginalUrls]
  /\ self \notin OriginalUrls

Scripts == 1 .. MaxScripts
Urls == ScriptUrls \union OriginalUrls

(* The source of a script is <<script, self>>; a source its map names is   *)
(* <<script, url>>, by the script whose map created it.                    *)
Compiled == Scripts \X {self}
Originals == Scripts \X OriginalUrls
Sources == Compiled \union Originals
NoSource == <<0, self>>

(* A reference is the hash of the URL, or as far behind it as is free; no  *)
(* two URLs are so close that one gets into the way of the other.          *)
References == Urls \X (0 .. (2 * MaxScripts))
NoReference == <<self, 0>>

VARIABLES
  context,   \* which contexts are destroyed: their scripts are to be removed
  script,    \* the scripts parsed so far, with their context and URL
  source,    \* Script.source; NoSource until it resolves
  scripts,   \* Source._scripts
  removed,   \* scripts ExecutionContext.remove has removed
  load,      \* the source map of a source: SourceMap.value and its loading
  todo,      \* the URLs _addSourceMapSources has not reached
  container  \* the maps of the container and the links between the sources

vars == <<context, script, source, scripts, removed, load, todo, container>>

Optional(S) == S \union {NoSource}
ScriptInfo == [context : Contexts, url : ScriptUrls]

TypeOK ==
  /\ context \in [Contexts -> {"live", "destroyed"}]
  /\ Len(script) <= MaxScripts
  /\ \A s \in DOMAIN script : script[s] \in ScriptInfo
  /\ source \in [Scripts -> Optional(Compiled)]
  /\ \A s \in Scripts : source[s] # NoSource => s \in DOMAIN script
  /\ scripts \in [Scripts -> SUBSET Scripts]
  /\ \A s \in Scripts : \A t \in scripts[s] : source[t] = <<s, self>>
  /\ removed \subseteq Scripts
  /\ load \in [Scripts -> {"none", "loading", "adding", "ready"}]
  /\ todo \in [Scripts -> SUBSET OriginalUrls]
  /\ \A s \in Scripts : todo[s] # {} => load[s] = "adding"
  /\ container.ref \in [Sources -> References \union {NoReference}]
  /\ \A r \in DOMAIN container.byRef :
       r \in References /\ container.byRef[r] \in Sources
  /\ container.byUrl \in [Urls -> Optional(Sources)]
  /\ container.byMapUrl \in [OriginalUrls -> Optional(Originals)]
  /\ container.sourceByUrl \in [Scripts -> [OriginalUrls -> Optional(Originals)]]
  /\ container.compiledTo \in [Originals -> SUBSET Scripts]

(* ref is the reference a source was given; byRef, byUrl and byMapUrl are  *)
(* the container's maps; sourceByUrl links a source to those its map       *)
(* names, and compiledTo links these to it.                                *)
Init ==
  /\ context = [c \in Contexts |-> "live"]
  /\ script = <<>>
  /\ source = [s \in Scripts |-> NoSource]
  /\ scripts = [s \in Scripts |-> {}]
  /\ removed = {}
  /\ load = [s \in Scripts |-> "none"]
  /\ todo = [s \in Scripts |-> {}]
  /\ container =
       [ref         |-> [x \in Sources |-> NoReference],
        byRef       |-> <<>>,
        byUrl       |-> [u \in Urls |-> NoSource],
        byMapUrl    |-> [u \in OriginalUrls |-> NoSource],
        sourceByUrl |-> [s \in Scripts |-> [u \in OriginalUrls |-> NoSource]],
        compiledTo  |-> [x \in Originals |-> {}]]

IsOriginal(x) == x \in Originals
UrlOf(x) == IF IsOriginal(x) THEN x[2] ELSE script[x[1]].url

(* The source a reference stands for is in the container.                  *)
Known(x) == \E r \in DOMAIN container.byRef : container.byRef[r] = x

-----------------------------------------------------------------------------
(* Removing sources.                                                       *)

(* Mutant: the map of the sources by the URLs in source maps is forgotten. *)
ForgetLess(k, X) ==
  [k EXCEPT
     !.byRef = [r \in DOMAIN @ \ {k.ref[x] : x \in X} |-> @[r]],
     !.byUrl = [u \in Urls |-> IF @[u] \in X THEN NoSource ELSE @[u]],
     !.sourceByUrl = [s \in Scripts |-> [u \in OriginalUrls |->
        IF \E x \in X : IsOriginal(x) /\ x[2] = u /\ s \in k.compiledTo[x]
        THEN NoSource ELSE @[s][u]]]]

(* What removeSource takes out of the maps: a source, or some of different *)
(* URLs.  A reference is looked up, and only asserted to be that of the    *)
(* source; the other maps lead to a source under its URL only.             *)
Forget(k, X) ==
  [k EXCEPT
     !.byRef = [r \in DOMAIN @ \ {k.ref[x] : x \in X} |-> @[r]],
     !.byUrl = [u \in Urls |-> IF @[u] \in X THEN NoSource ELSE @[u]],
     !.byMapUrl = [u \in OriginalUrls |->
        IF \E x \in X : IsOriginal(x) /\ x[2] = u THEN NoSource ELSE @[u]],
     !.sourceByUrl = [s \in Scripts |-> [u \in OriginalUrls |->
        IF \E x \in X : IsOriginal(x) /\ x[2] = u /\ s \in k.compiledTo[x]
        THEN NoSource ELSE @[s][u]]]]

AlreadyRemoved(k, x) == k.ref[x] \notin DOMAIN k.byRef

MappedFrom(k, s) == {k.sourceByUrl[s][u] : u \in OriginalUrls} \ {NoSource}

(* Mutant: only one side of the link is removed.                           *)
HalfUnlink(k, s) == [k EXCEPT !.sourceByUrl[s] = [u \in OriginalUrls |-> NoSource]]

Unlink(k, s) ==
  [k EXCEPT !.sourceByUrl[s] = [u \in OriginalUrls |-> NoSource],
            !.compiledTo = [x \in Originals |->
               IF x \in MappedFrom(k, s) THEN @[x] \ {s} ELSE @[x]]]

(* Sources another script is compiled from as well stay.                   *)
RemoveSourceMapSources(k, s) ==
  LET unlinked == Unlink(k, s)
      unused == {x \in MappedFrom(k, s) : unlinked.compiledTo[x] = {}}
  IN Forget(unlinked, {x \in unused : ~AlreadyRemoved(k, x)})

RemoveSource(k, x) ==
  IF AlreadyRemoved(k, x) THEN k
  ELSE IF IsOriginal(x) THEN Forget(k, {x})
  ELSE RemoveSourceMapSources(Forget(k, {x}), x[1])

-----------------------------------------------------------------------------
(* Adding sources.                                                         *)

GetSourceReference(k, u) ==
  <<u, CHOOSE n \in 0 .. (2 * MaxScripts) :
         /\ <<u, n>> \notin DOMAIN k.byRef
         /\ \A i \in 0 .. (n - 1) : <<u, i>> \in DOMAIN k.byRef>>

IsOriginalSourceOf(k, compiled, x) ==
  IsOriginal(x) /\ ~IsOriginal(compiled) /\ compiled[1] \in k.compiledTo[x]

(* A source that exists under the URL is removed, except the one this      *)
(* source was compiled to: code transpiled in place has the same URL.      *)
AddSource(k, x) ==
  LET existing == k.byUrl[UrlOf(x)]
      replaced == IF existing # NoSource /\ ~IsOriginalSourceOf(k, existing, x)
                  THEN RemoveSource(k, existing) ELSE k
  IN [replaced EXCEPT
        !.byUrl[UrlOf(x)] = x,
        !.byRef = [r \in DOMAIN @ \union {k.ref[x]} |-> IF r = k.ref[x] THEN x ELSE @[r]],
        !.byMapUrl = [u \in OriginalUrls |->
                        IF IsOriginal(x) /\ u = x[2] THEN x ELSE @[u]]]

(* The constructor of Source takes the reference.                          *)
NewSource(k, x) == [k EXCEPT !.ref[x] = GetSourceReference(k, UrlOf(x))]

Link(k, s, x) == [k EXCEPT !.sourceByUrl[s][x[2]] = x,
                           !.compiledTo[x] = @ \union {s}]

-----------------------------------------------------------------------------
(* Thread._onScriptParsed: createSource.                                   *)

CreatedFor(u) ==
  {s \in DOMAIN script : script[s].url = u /\ source[s] \in {NoSource, <<s, self>>}}

(* The content is another, or is not compared: addSource resolves the path *)
(* of the source first.                                                    *)
ScriptParsed(c, u) ==
  /\ context[c] = "live"
  /\ Len(script) < MaxScripts
  /\ Cardinality(CreatedFor(u)) < IF u \in ReloadedUrls THEN MaxSameUrl ELSE 1
  /\ script' = Append(script, [context |-> c, url |-> u])
  /\ UNCHANGED <<context, source, scripts, removed, load, todo, container>>

(* The source that exists has the same content: contentHash.               *)
SameScriptParsed(c, u) ==
  LET prevSource == container.byUrl[u]
      s == Len(script) + 1
  IN /\ context[c] = "live"
     /\ Len(script) < MaxScripts
     /\ prevSource \in Compiled
     /\ script' = Append(script, [context |-> c, url |-> u])
     /\ source' = [source EXCEPT ![s] = prevSource]
     /\ scripts' = [scripts EXCEPT ![prevSource[1]] = @ \union {s}]
     /\ UNCHANGED <<context, removed, load, todo, container>>

(* addSource goes on: the source is created and added.                     *)
SourceAdded(s) ==
  /\ s \in DOMAIN script
  /\ source[s] = NoSource
  /\ source' = [source EXCEPT ![s] = <<s, self>>]
  /\ scripts' = [scripts EXCEPT ![s] = {s}]
  /\ container' = AddSource(NewSource(container, <<s, self>>), <<s, self>>)
  /\ load' = [load EXCEPT ![s] = IF MapOf[script[s].url] = {} THEN "none" ELSE "loading"]
  /\ UNCHANGED <<context, script, removed, todo>>

-----------------------------------------------------------------------------
(* _finishAddSourceWithSourceMap and _addSourceMapSources.                 *)

MapIsReady(s) == load' = [load EXCEPT ![s] = "ready"] /\ UNCHANGED todo

LoadFails(s) ==
  /\ load[s] = "loading"
  /\ MapIsReady(s)
  /\ UNCHANGED <<context, script, source, scripts, removed, container>>

(* Mutant: a load whose source was detached ends without an answer.        *)
LoadedSilently(s) ==
  /\ load[s] = "loading"
  /\ IF Known(<<s, self>>)
     THEN /\ load' = [load EXCEPT ![s] = "adding"]
          /\ todo' = [todo EXCEPT ![s] = MapOf[script[s].url]]
     ELSE load' = [load EXCEPT ![s] = "none"] /\ UNCHANGED todo
  /\ UNCHANGED <<context, script, source, scripts, removed, container>>

(* Mutant: the map is resolved before its sources are there.               *)
LoadedEarly(s) ==
  /\ load[s] = "loading"
  /\ load' = [load EXCEPT ![s] = "ready"]
  /\ todo' = [todo EXCEPT ![s] = IF Known(<<s, self>>) THEN MapOf[script[s].url] ELSE {}]
  /\ UNCHANGED <<context, script, source, scripts, removed, container>>

(* "Source map could have been detached while loading."                    *)
Loaded(s) ==
  /\ load[s] = "loading"
  /\ IF Known(<<s, self>>)
     THEN /\ load' = [load EXCEPT ![s] = "adding"]
          /\ todo' = [todo EXCEPT ![s] = MapOf[script[s].url]]
     ELSE MapIsReady(s)
  /\ UNCHANGED <<context, script, source, scripts, removed, container>>

AddNewOriginal(k, s, u) ==
  LET x == <<s, u>> IN AddSource(Link(NewSource(k, x), s, x), x)

(* The path of a file the map names was resolved.                          *)
OriginalAdded(s, u) ==
  LET existing == container.byMapUrl[u]
  IN /\ u \in todo[s]
     /\ todo' = [todo EXCEPT ![s] = @ \ {u}]
     /\ container' =
          CASE existing = NoSource -> AddNewOriginal(container, s, u)
            [] existing # NoSource /\ script[s].url \in HmrUrls ->
                 AddNewOriginal(RemoveSource(container, existing), s, u)
            [] OTHER -> Link(container, s, existing)
     /\ UNCHANGED <<context, script, source, scripts, removed, load>>

AllAdded(s) ==
  /\ load[s] = "adding"
  /\ todo[s] = {}
  /\ MapIsReady(s)
  /\ UNCHANGED <<context, script, source, scripts, removed, container>>

-----------------------------------------------------------------------------
(* Thread._executionContextDestroyed and ExecutionContext.remove.          *)

ContextDestroyed(c) ==
  /\ context[c] = "live"
  /\ context' = [context EXCEPT ![c] = "destroyed"]
  /\ UNCHANGED <<script, source, scripts, removed, load, todo, container>>

(* remove() awaits the sources of the scripts; those that have resolved go *)
(* in the order of the scripts, and nothing comes between them.            *)
IsDue(c, s) ==
  /\ context[c] = "destroyed"
  /\ s \in DOMAIN script \ removed
  /\ script[s].context = c
  /\ source[s] # NoSource

Due(c) == {s \in Scripts : IsDue(c, s)}

(* Source.filterScripts.                                                   *)
ScriptsNotOf(c, s) == {t \in scripts[s] : script[t].context # c}

(* The sources of some scripts are removed, in the order of the scripts.   *)
RemoveSourcesOf(X) ==
  LET after[s \in 0 .. MaxScripts] ==
        IF s = 0 THEN container
        ELSE IF s \in X THEN RemoveSource(after[s - 1], source[s])
        ELSE after[s - 1]
  IN after[MaxScripts]

(* Mutant: the scripts go before the sources are looked at.                *)
ScriptsForgotten(c) ==
  /\ Due(c) # {}
  /\ removed' = removed \union Due(c)
  /\ scripts' = [s \in Scripts |-> scripts[s] \ Due(c)]
  /\ container' = RemoveSourcesOf({s \in Due(c) : scripts[source[s][1]] \subseteq {s}})
  /\ UNCHANGED <<context, script, source, load, todo>>

ScriptsRemoved(c) ==
  LET sources == {source[s][1] : s \in Due(c)}
  IN /\ Due(c) # {}
     /\ removed' = removed \union Due(c)
     /\ scripts' = [s \in Scripts |->
                      IF s \in sources THEN ScriptsNotOf(c, s) ELSE scripts[s]]
     /\ container' =
          RemoveSourcesOf({s \in Due(c) : ScriptsNotOf(c, source[s][1]) = {}})
     /\ UNCHANGED <<context, script, source, load, todo>>

-----------------------------------------------------------------------------
Runtime ==
  \E c \in Contexts :
    \/ \E u \in ScriptUrls : ScriptParsed(c, u) \/ SameScriptParsed(c, u)
    \/ ContextDestroyed(c)

MapStep(s) ==
  \/ LoadFails(s)
  \/ Loaded(s)
  \/ \E u \in OriginalUrls : OriginalAdded(s, u)
  \/ AllAdded(s)

Next ==
  \/ Runtime
  \/ \E c \in Contexts : ScriptsRemoved(c)
  \/ \E s \in Scripts : SourceAdded(s) \/ MapStep(s)

Spec == Init /\ [][Next]_vars

(* Promises settle: paths resolve, and maps load or fail.  Nothing makes   *)
(* the runtime do anything.                                                *)
FairSpec ==
  Spec /\ \A s \in Scripts : WF_vars(SourceAdded(s)) /\ WF_vars(MapStep(s))
=============================================================================
