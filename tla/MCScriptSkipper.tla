--------------------------- MODULE MCScriptSkipper ---------------------------
(* Instances of ScriptSkipper for TLC.                                      *)
EXTENDS ScriptSkipperProps, TLC

CONSTANTS bundle, a, b

Bundle == {bundle}
BothFiles == {a, b}
InOrder == bundle :> <<a, b>>
None == {}
=============================================================================
