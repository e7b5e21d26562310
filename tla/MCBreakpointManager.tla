------------------------ MODULE MCBreakpointManager ------------------------
(* Instances of BreakpointManager for TLC.                                  *)
EXTENDS BreakpointManagerProps, TLC

SourceSymmetry == Permutations(Sources)
=============================================================================
