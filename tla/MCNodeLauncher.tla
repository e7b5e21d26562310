---------------------------- MODULE MCNodeLauncher ----------------------------
(* Instances of NodeLauncher for TLC.                                        *)
EXTENDS NodeLauncherProps

CONSTANT c1

ChildOrUnknown == {"child", "none"}
Subprocess == {"child"}
NoCall == {}
OneCall == {c1}
=============================================================================
