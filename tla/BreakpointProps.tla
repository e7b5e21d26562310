--------------------------- MODULE BreakpointProps ---------------------------
(***************************************************************************)
(* What a Breakpoint promises about the breakpoints of the debuggee.       *)
(***************************************************************************)
EXTENDS Breakpoint

(* A reference that will be removed from the debuggee without anyone       *)
(* asking again: its removal was requested, or will be when the pending    *)
(* request is answered.                                                    *)
Condemned(r) == status[r] = "deleting" \/ (status[r] = "pending" /\ r \in deadletter)

(* Every breakpoint set by URL in the debuggee, which survives reloads, is *)
(* in the list through which disable() finds it, or is being removed.      *)
UrlBreakpointsAreTracked ==
  \A r \in Refs :
    (runtime[r] = "live" /\ args[r].kind # "script") => (r \in listed \/ Condemned(r))

(* "If disabled while still setting, don't go on to try to set it and      *)
(* leak": a disabled breakpoint owns nothing in the debuggee that it has   *)
(* not begun to remove, however many set requests were in flight.          *)
DisabledMeansRemoved ==
  ~isEnabled => \A r \in Refs :
    (status[r] \in {"pending", "applied"} /\ args[r].kind # "script") => Condemned(r)

(* Requests are deduplicated: no two references that stay carry the same   *)
(* arguments, so that no place is set twice by the same request.           *)
NoDuplicateRequest ==
  \A r, q \in listed : args[r] = args[q] => r = q

(* A reference leaves the list only on its way out of the debuggee, or     *)
(* because the contexts of its script were cleared.                        *)
LeavesCondemned ==
  \A r \in listed \ listed' :
    \/ status[r] = "failed"
    \/ Condemned(r)'
    \/ clearing /\ ~clearing' /\ args[r].kind = "script"

ListedUntilCondemned == [][LeavesCondemned]_vars

(* Once disabled, and not enabled again, a breakpoint is eventually gone   *)
(* from the debuggee.                                                      *)
DisableTakesEffect ==
  ~isEnabled ~> (isEnabled \/ \A r \in Refs :
                     runtime[r] = "live" => args[r].kind = "script")
=============================================================================
