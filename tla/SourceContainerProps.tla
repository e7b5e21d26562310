------------------------- MODULE SourceContainerProps -------------------------
(* What SourceContainer promises.                                            *)
EXTENDS SourceContainer

(* A file has one source, however many bundles it is in: every original      *)
(* source in the container is the one its URL leads to, so that the next     *)
(* bundle shares it and a breakpoint in it reaches all of them; and the URL  *)
(* leads to no source that was removed.                                      *)
OneSourcePerFile ==
  /\ \A x \in Originals : Known(x) => container.byMapUrl[x[2]] = x
  /\ \A u \in OriginalUrls :
       container.byMapUrl[u] # NoSource => Known(container.byMapUrl[u])

(* What a script is compiled from and what a file was compiled to are the    *)
(* same relation, whichever side was removed, replaced or shared meanwhile:  *)
(* breakpoints and stack traces go through it in both directions.            *)
LinksAreMutual ==
  \A s \in Scripts, x \in Originals :
    Known(x) => (s \in container.compiledTo[x] <=> container.sourceByUrl[s][x[2]] = x)

(* When the removals that are due are done, the source of a script is in     *)
(* the container only while a context that is not destroyed has a script of  *)
(* it: a page that was left leaves no scripts behind.                        *)
GoneWithTheirContexts ==
  ((\A c \in Contexts : Due(c) = {}) /\ \A s \in DOMAIN script : source[s] # NoSource) =>
    \A s \in Scripts : Known(<<s, self>>) =>
      \E t \in scripts[s] : context[script[t].context] = "live"

(* Who waits for the map of a source, to set breakpoints or to show a stack  *)
(* trace, is answered: it loads, fails, or its source is detached.           *)
EveryMapIsReady ==
  \A s \in Scripts : load[s] = "loading" ~> load[s] = "ready"

(* What sourceContainer.ts:812 asserts: when the scripts of a context are    *)
(* removed, the reference of each source is its own, or it was removed       *)
(* before.  Violated after a URL was evaluated three times: the third source *)
(* has the reference of the first, which is taken for it.                    *)
RemovesItself ==
  \A c \in Contexts : \A s \in Due(c) :
    AlreadyRemoved(container, source[s]) \/ Known(source[s])
=============================================================================
