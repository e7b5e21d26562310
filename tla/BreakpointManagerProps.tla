----------------------- MODULE BreakpointManagerProps -----------------------
(* What the breakpoints of a session promise: properties of module          *)
(* BreakpointManager.                                                       *)
EXTENDS BreakpointManager

(* No request, installation or reapply() is between two of its steps.      *)
Quiet ==
  /\ \A c \in Calls : calls[c].pc \in {"idle", "done"}
  /\ \A i \in Installs : entryBpSet[i] \in {"unused", "set", "unset"}
  /\ reapply.pc # "disabling"

(* A breakpoint the user removed is not enabled again, whoever raced with  *)
(* its removal (issue 679): setBreakpoints, setThread or a profile's end.  *)
(* Not so reapply(), which enables whatever it listed before it waited.    *)
Reapplied == IF reapply.pc = "done" THEN reapply.bps ELSE {}
NoZombies == enabled \subseteq byDapId \union Reapplied

(* Once everything settled the debugger stops where the user asked it to:  *)
(* what is listed and passes the filter of a profile is enabled.           *)
ListedAreEnabled == Quiet /\ thread => byDapId \intersect passing \subseteq enabled

(* Once everything settled the source map handler is installed if there    *)
(* are breakpoints, and only then.                                         *)
HandlerFollowsBreakpoints == Quiet /\ thread => (handler # 0 <=> byDapId # {})
=============================================================================
