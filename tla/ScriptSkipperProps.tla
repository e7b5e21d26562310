-------------------------- MODULE ScriptSkipperProps --------------------------
(* What ScriptSkipper should promise.                                          *)
EXTENDS ScriptSkipper

(* When neither a script nor a file of it is skipped, and no update is under   *)
(* way, the runtime skips no range of the script: what was toggled twice is as *)
(* before.  Violated: the scripts that have ranges, _scriptsWithSkipping, are  *)
(* never added, so a script is never told that it has none any more.           *)
NothingStaysSkipped ==
  updates = <<>> =>
    \A s \in Scripts :
      ({s} \union FilesOf(s)) \intersect (authoredGlobs \union urlFromSourceMapSkipped) = {}
        => blackboxed[s] = <<>>
=============================================================================
