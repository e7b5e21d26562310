---------------------------- MODULE ScriptSkipper ----------------------------
(***************************************************************************)
(* ScriptSkipper (src/adapter/scriptSkipper/implementation.ts) of one      *)
(* target: which files the user skips, and what the runtime is told of it. *)
(*                                                                         *)
(* A script is skipped by its URL, with the pattern given to the runtime;  *)
(* the files it was compiled from are skipped as ranges of the script.     *)
(* These are computed over awaits, file by file, and replace the ranges    *)
(* the runtime has.                                                        *)
(*                                                                         *)
(* External: the user, who toggles files; the runtime, which keeps the     *)
(* ranges it was sent last; source maps.                                   *)
(*                                                                         *)
(* Bound: MaxToggles.                                                      *)
(***************************************************************************)
EXTENDS Naturals, SequencesExt

CONSTANTS
  Scripts,   \* compiled scripts, one for each compiled source
  Files,     \* the files of their source maps
  sourceMap, \* the files of a script, in the order of its source map
  skipFiles, \* scripts and files a glob of the configuration matches
  MaxToggles,
  Overlap    \* the user toggles while an update is under way

VARIABLES
  authoredGlobs,           \* what the patterns match
  urlFromSourceMapSkipped, \* _isUrlFromSourceMapSkipped, where it is true
  scriptsWithSkipping,     \* _scriptsWithSkipping
  mapped,                  \* scripts whose source map was loaded
  updates,                 \* _updateSourceWithSkippedSourceMappedSources
  blackboxed,              \* the ranges the runtime has, by the file each is of
  toggles

vars == <<authoredGlobs, urlFromSourceMapSkipped, scriptsWithSkipping, mapped,
          updates, blackboxed, toggles>>

Init ==
  /\ authoredGlobs = skipFiles
  /\ urlFromSourceMapSkipped = {}
  /\ scriptsWithSkipping = {}
  /\ mapped = {}
  /\ updates = <<>>
  /\ blackboxed = [s \in Scripts |-> <<>>]
  /\ toggles = 0

FilesOf(s) == ToSet(sourceMap[s])

-----------------------------------------------------------------------------
IsScriptSkipped(globs, skipped, url) == url \in globs \union skipped

(* The next file whose start and end are awaited: one that is skipped      *)
(* while the range is not, or the other way round; or none.                *)
NextFile(s, from, in, globs, skipped) ==
  SelectInSubSeq(sourceMap[s], from, Len(sourceMap[s]),
                 LAMBDA f : IsScriptSkipped(globs, skipped, f) # in)

(* The update up to its next await.  Without ranges, only a script that is *)
(* known to have had some is told.                                         *)
Continue(u, globs, skipped) ==
  [u EXCEPT !.at = NextFile(u.script, u.at + 1, u.inSkipRange, globs, skipped)]

Start(s, globs, skipped) ==
  Continue([script |-> s, at |-> 0, ranges |-> <<>>,
            inSkipRange |-> IsScriptSkipped(globs, skipped, s)], globs, skipped)

IsDone(u) == u.at = 0
IsTold(u) == u.ranges # <<>> \/ u.script \in scriptsWithSkipping

Finish(done) ==
  /\ blackboxed' = [s \in Scripts |->
       IF \E u \in done : u.script = s /\ IsTold(u)
       THEN (CHOOSE u \in done : u.script = s).ranges ELSE blackboxed[s]]
  /\ scriptsWithSkipping' =
       scriptsWithSkipping \ {u.script : u \in {v \in done : v.ranges = <<>>}}

(* Updates that start together.                                            *)
StartAll(S, globs, skipped) ==
  LET started == {Start(s, globs, skipped) : s \in S}
  IN /\ Finish({u \in started : IsDone(u)})
     /\ updates' = updates \o SetToSeq({u \in started : ~IsDone(u)})

-----------------------------------------------------------------------------
(* initializeSkippingValueForSource, when the sources of the map are there.*)
Initialize(s) ==
  LET skipped == IF IsScriptSkipped(authoredGlobs, urlFromSourceMapSkipped, s)
                 THEN urlFromSourceMapSkipped \union FilesOf(s)
                 ELSE urlFromSourceMapSkipped
  IN /\ s \notin mapped
     /\ mapped' = mapped \union {s}
     /\ urlFromSourceMapSkipped' = skipped
     /\ StartAll({s}, authoredGlobs, skipped)
     /\ UNCHANGED <<authoredGlobs, toggles>>

(* The start and the end of a file were found in the script, or not.       *)
Located(i) ==
  LET f == sourceMap[updates[i].script][updates[i].at]
      turned == [updates[i] EXCEPT !.ranges = Append(@, f), !.inSkipRange = ~@]
  IN /\ i \in DOMAIN updates
     /\ \E before \in {turned, updates[i]} :
          LET u == Continue(before, authoredGlobs, urlFromSourceMapSkipped)
          IN /\ Finish(IF IsDone(u) THEN {u} ELSE {})
             /\ updates' = IF IsDone(u) THEN RemoveAt(updates, i)
                           ELSE [updates EXCEPT ![i] = u]
     /\ UNCHANGED <<authoredGlobs, urlFromSourceMapSkipped, mapped, toggles>>

MayToggle == toggles < MaxToggles /\ (Overlap \/ updates = <<>>)

Set(S, urls, value) == IF value THEN S \union urls ELSE S \ urls

(* _toggleSkippingFile for a file of a source map.                         *)
ToggleFile(f) ==
  LET newSkipValue == ~IsScriptSkipped(authoredGlobs, urlFromSourceMapSkipped, f)
      skipped == Set(urlFromSourceMapSkipped, {f}, newSkipValue)
      compiled == {s \in mapped : f \in FilesOf(s)}
  IN /\ MayToggle
     /\ compiled # {}
     /\ toggles' = toggles + 1
     /\ urlFromSourceMapSkipped' = skipped
     /\ StartAll(compiled, authoredGlobs, skipped)
     /\ UNCHANGED <<authoredGlobs, mapped>>

(* ... and for a script: its files go with it, and the patterns are sent.  *)
ToggleScript(s) ==
  LET newSkipValue == ~IsScriptSkipped(authoredGlobs, urlFromSourceMapSkipped, s)
      files == IF s \in mapped THEN FilesOf(s) ELSE {}
  IN /\ MayToggle
     /\ toggles' = toggles + 1
     /\ urlFromSourceMapSkipped' = Set(urlFromSourceMapSkipped, files, newSkipValue)
     /\ authoredGlobs' = Set(authoredGlobs, {s}, newSkipValue)
     /\ UNCHANGED <<scriptsWithSkipping, mapped, updates, blackboxed>>

Next ==
  \/ \E s \in Scripts : Initialize(s) \/ ToggleScript(s)
  \/ \E f \in Files : ToggleFile(f)
  \/ \E i \in 1 .. Len(updates) : Located(i)

Spec == Init /\ [][Next]_vars
=============================================================================
