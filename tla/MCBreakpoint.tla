---------------------------- MODULE MCBreakpoint ----------------------------
(* Instances of Breakpoint for TLC.  A plain script and one renamed by a    *)
(* sourceURL comment share a URL that one regular expression matches.       *)
EXTENDS BreakpointProps

CONSTANTS u, re, s1, s2

MCUrls == {u}
MCRegexes == {re}
MCCovers == [x \in MCRegexes |-> MCUrls]
MCScripts == {s1, s2}
MCUrlOf == [s \in MCScripts |-> u]
MCRenamed == {s2}
OnePosition == {1}

(* enable() asks for the path of its source at the first position.          *)
MCPathArgs == {[kind |-> "re", on |-> re, lc |-> 1]}
=============================================================================
