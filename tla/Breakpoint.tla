----------------------------- MODULE Breakpoint -----------------------------
(***************************************************************************)
(* One breakpoint of the adapter (src/adapter/breakpoints/breakpointBase)  *)
(* and the breakpoints it creates in the debuggee over CDP.                *)
(*                                                                         *)
(* A Breakpoint resolves to several places, so it owns a list of           *)
(* references, cdpBreakpoints, each of them one setBreakpoint or           *)
(* setBreakpointByUrl request and, once answered, one breakpoint of the    *)
(* debuggee.  Every request is asynchronous: enable(), disable(), source   *)
(* maps of new scripts and page reloads interleave with the answers.       *)
(*                                                                         *)
(* The debuggee is external.  It serves the requests of a session in the   *)
(* order they were sent; it may refuse any request to set a breakpoint,    *)
(* and refuses one for a script that no longer exists.  Answers reach the  *)
(* adapter in any order.                                                   *)
(*                                                                         *)
(* Not modelled here: uiLocations and what is reported to the user.        *)
(***************************************************************************)
EXTENDS Naturals, Sequences

CONSTANTS
  Urls,          \* URLs of scripts
  Regexes,       \* URL regular expressions made from absolute paths
  Covers,        \* the URLs each regular expression matches
  Scripts,       \* script IDs
  UrlOf,         \* the URL each script was loaded from
  HasSourceURL,  \* scripts renamed by a sourceURL comment
  ByScriptId,    \* scripts whose breakpoints are set by ID, not by URL
  Positions,     \* zero-based line and column pairs
  PathArgs,      \* what enable() may ask for from the path of its source
  Refs,          \* identities of references; bounds the requests made
  Calls          \* concurrent enable() calls; bounds their number

SetByUrl == [kind : {"url"}, on : Urls, lc : Positions]
              \union [kind : {"re"}, on : Regexes, lc : Positions]
SetByLocation == [kind : {"script"}, on : Scripts, lc : Positions]
Args == SetByUrl \union SetByLocation

ASSUME BreakpointAssumption ==
  /\ Covers \in [Regexes -> SUBSET Urls]
  /\ UrlOf \in [Scripts -> Urls]
  /\ HasSourceURL \subseteq ByScriptId
  /\ ByScriptId \subseteq Scripts
  /\ PathArgs \subseteq SetByUrl

VARIABLES
  isEnabled,  \* Breakpoint.isEnabled
  status,     \* what has become of each reference
  args,       \* the arguments each reference was set with
  listed,     \* the references in Breakpoint.cdpBreakpoints
  deadletter, \* pending references whose deadletter bit is set
  calls,      \* the enable() calls in progress
  toCdp,      \* requests sent and not yet served
  runtime,    \* the debuggee's view of each reference
  parsed,     \* scripts the adapter has heard of
  alive,      \* scripts that exist in the debuggee
  clearing    \* contexts were cleared and shutdownContext() is awaited

vars == <<isEnabled, status, args, listed, deadletter, calls, toCdp, runtime,
          parsed, alive, clearing>>

cdpVars == <<parsed, alive, clearing>>

Idle == [pc |-> "idle", todo |-> {}, wait |-> {}]

(* Requests sent in one synchronous run for several references are served  *)
(* as one batch: their relative order changes nothing.                     *)
Request == [kind : {"set", "remove"}, refs : SUBSET Refs]

Status == {"free", "pending", "failed", "applied", "deleting", "done"}

Arguments == [Refs -> Args \union {<<>>}]

TypeOK ==
  /\ isEnabled \in BOOLEAN
  /\ status \in [Refs -> Status]
  /\ args \in Arguments
  /\ listed \subseteq Refs
  /\ deadletter \subseteq Refs
  /\ calls \in [Calls -> [pc : {"idle", "byPath", "bySibling"},
                          todo : SUBSET Args, wait : SUBSET Refs]]
  /\ toCdp \in Seq(Request)
  /\ runtime \in [Refs -> {"none", "refused", "live", "removed"}]
  /\ parsed \subseteq Scripts
  /\ alive \subseteq parsed
  /\ clearing \in BOOLEAN

Init ==
  /\ isEnabled = FALSE
  /\ status = [r \in Refs |-> "free"]
  /\ args = [r \in Refs |-> <<>>]
  /\ listed = {}
  /\ deadletter = {}
  /\ calls = [c \in Calls |-> Idle]
  /\ toCdp = <<>>
  /\ runtime = [r \in Refs |-> "none"]
  /\ parsed = {}
  /\ alive = {}
  /\ clearing = FALSE

-----------------------------------------------------------------------------
(* Which requests are duplicates of one already listed.                    *)

MatchesUrl(a, u) ==
  \/ a.kind = "url" /\ a.on = u
  \/ a.kind = "re" /\ u \in Covers[a.on]

(* Mutant: only references already answered count as set.                  *)
AppliedOnLocationByUrl(kind, on, lc) ==
  {r \in listed : /\ status[r] = "applied"
                  /\ args[r].kind = kind
                  /\ args[r].on = on
                  /\ args[r].lc = lc}

(* Note the last disjunct: the conditional operator of the code binds      *)
(* weaker than &&, so for a URL the position of the other is not compared. *)
HasSetOnLocationByUrl(kind, on, lc) ==
  {r \in listed :
     \/ /\ args[r].kind \in {"url", "re"}
        /\ args[r].lc = lc
        /\ IF kind = "url" THEN MatchesUrl(args[r], on)
                           ELSE args[r].kind = "re" /\ args[r].on = on
     \/ /\ args[r].kind = "script"
        /\ kind = "re"
        /\ args[r].lc = lc
        /\ UrlOf[args[r].on] \in Covers[on]
     \/ /\ args[r].kind = "script"
        /\ kind = "url"
        /\ UrlOf[args[r].on] = on}

(* Mutant: the URL of the script is not looked at, and pending references   *)
(* are not found.                                                          *)
AppliedOnLocation(s, lc) ==
  {r \in listed : /\ status[r] = "applied"
                  /\ args[r].kind = "script"
                  /\ args[r].on = s
                  /\ args[r].lc = lc}

HasSetOnLocation(s, lc) ==
  {r \in listed :
     /\ args[r].lc = lc
     /\ \/ args[r].kind = "script" /\ args[r].on = s
        \/ /\ s \notin HasSourceURL
           /\ MatchesUrl(args[r], UrlOf[s])}

Previous(a) ==
  IF a.kind = "script" THEN HasSetOnLocation(a.on, a.lc)
                       ELSE HasSetOnLocationByUrl(a.kind, a.on, a.lc)

(* The request _setForSpecific makes for a position of a script.           *)
SetForSpecific(s, lc) ==
  IF s \in ByScriptId THEN [kind |-> "script", on |-> s, lc |-> lc]
                      ELSE [kind |-> "url", on |-> UrlOf[s], lc |-> lc]

-----------------------------------------------------------------------------
(* Sending requests.                                                       *)

Batch(kind, refs) == IF refs = {} THEN <<>> ELSE <<[kind |-> kind, refs |-> refs]>>

(* Mutant: a pending reference is only dropped from the list.              *)
AddAndForget(N, S) ==
  /\ listed' = (listed \union N) \ S
  /\ status' = [r \in Refs |->
       IF r \in N THEN "pending"
       ELSE IF r \in S /\ status[r] = "applied" THEN "deleting" ELSE status[r]]
  /\ toCdp' = toCdp \o Batch("set", N)
                    \o Batch("remove", {r \in S : status[r] = "applied"})
  /\ UNCHANGED deadletter

(* removeCdpBreakpoint for every reference of S, after the references of N *)
(* were added by the same synchronous run: pending ones are deadlettered,  *)
(* applied ones are removed from the debuggee.                             *)
AddAndRemove(N, S) ==
  /\ listed' = (listed \union N) \ S
  /\ deadletter' = deadletter \union {r \in S : status[r] \in {"pending", "failed"}}
  /\ status' = [r \in Refs |->
       IF r \in N THEN "pending"
       ELSE IF r \in S /\ status[r] = "applied" THEN "deleting" ELSE status[r]]
  /\ toCdp' = toCdp \o Batch("set", N)
                    \o Batch("remove", {r \in S : status[r] = "applied"})

(* Mutant: the check of isEnabled is missing.                              *)
SetAnyEvenDisabled(a, N) ==
  \E r \in Refs :
    /\ status[r] = "free"
    /\ N = {r}
    /\ args' = [args EXCEPT ![r] = a]

(* _setAny: nothing is sent by a breakpoint disabled in the meantime.  N   *)
(* is the reference made, or nothing.                                      *)
SetAny(a, N) ==
  IF isEnabled
    THEN \E r \in Refs :
           /\ status[r] = "free"
           /\ N = {r}
           /\ args' = [args EXCEPT ![r] = a]
    ELSE N = {} /\ UNCHANGED args

(* _setByUrl, _setByUrlRegexp and _setByScriptId.                          *)
SetBy(a, N) ==
  IF Previous(a) # {} THEN N = {} /\ UNCHANGED args
                      ELSE SetAny(a, N)

-----------------------------------------------------------------------------
(* Operations of the breakpoint.                                           *)

(* enable(): _setPredicted and _setByPath resolve regular expressions      *)
(* before they set anything.                                               *)
Enable(c) ==
  /\ calls[c].pc = "idle"
  /\ ~isEnabled
  /\ isEnabled' = TRUE
  /\ \E todo \in SUBSET PathArgs :
       calls' = [calls EXCEPT ![c] = [pc |-> "byPath", todo |-> todo, wait |-> {}]]
  /\ UNCHANGED <<status, args, listed, deadletter, toCdp, runtime, cdpVars>>

(* One of the requests of an enable() call.  A duplicate of a pending      *)
(* reference waits for it.                                                 *)
SetNext(c) ==
  \E a \in calls[c].todo : \E N \in SUBSET Refs :
    /\ SetBy(a, N)
    /\ AddAndRemove(N, {})
    /\ calls' = [calls EXCEPT
         ![c].todo = @ \ {a},
         ![c].wait = @ \union N \union {r \in Previous(a) : status[r] = "pending"}]
    /\ UNCHANGED <<isEnabled, runtime, cdpVars>>

Settled(c) ==
  /\ calls[c].pc # "idle"
  /\ calls[c].todo = {}
  /\ \A r \in calls[c].wait : status[r] \in {"failed", "applied", "done"}

(* What _setByUiLocation may set for the scripts the adapter knows.        *)
KnownPlaces == UNION {{SetForSpecific(s, lc) : lc \in Positions} : s \in parsed}

(* Second half of enable(), for the scripts the source is known to be in:  *)
(* "double check still enabled to avoid racing".                           *)
SetSiblings(c) ==
  /\ Settled(c)
  /\ calls[c].pc = "byPath"
  /\ \E todo \in SUBSET KnownPlaces :
       calls' = [calls EXCEPT ![c] =
         IF isEnabled THEN [pc |-> "bySibling", todo |-> todo, wait |-> {}] ELSE Idle]
  /\ UNCHANGED <<isEnabled, status, args, listed, deadletter, toCdp, runtime, cdpVars>>

EnableDone(c) ==
  /\ Settled(c)
  /\ calls[c].pc = "bySibling"
  /\ calls' = [calls EXCEPT ![c] = Idle]
  /\ UNCHANGED <<isEnabled, status, args, listed, deadletter, toCdp, runtime, cdpVars>>

Disable ==
  /\ isEnabled
  /\ isEnabled' = FALSE
  /\ AddAndRemove({}, listed)
  /\ UNCHANGED <<args, calls, runtime, cdpVars>>

(* updateForNewLocations: the source is mapped to position lc of script s. *)
(* URL breakpoints for the script elsewhere are "probably not correct" and *)
(* are removed.  The code allows several positions per script, the model   *)
(* one at a time.                                                          *)
UpdateForNewLocations(s, lc) ==
  LET a == SetForSpecific(s, lc)
      overlaid == {r \in listed : /\ MatchesUrl(args[r], UrlOf[s])
                                  /\ args[r].lc # lc}
  IN /\ s \in parsed
     /\ \E N \in SUBSET Refs :
          /\ SetBy(a, N)
          /\ AddAndRemove(N, overlaid)
     /\ UNCHANGED <<isEnabled, calls, runtime, cdpVars>>

-----------------------------------------------------------------------------
(* Answers of the debuggee, as the continuations in _setAny see them.      *)

SetFailed(r) ==
  /\ status[r] = "pending"
  /\ runtime[r] = "refused"
  /\ status' = [status EXCEPT ![r] = "failed"]
  /\ UNCHANGED <<isEnabled, args, listed, deadletter, calls, toCdp, runtime, cdpVars>>

(* Mutant: the deadletter bit is not looked at when the answer arrives.    *)
SetAppliedRegardless(r) ==
  /\ status[r] = "pending"
  /\ runtime[r] = "live"
  /\ status' = [status EXCEPT ![r] = "applied"]
  /\ UNCHANGED <<isEnabled, args, listed, deadletter, calls, toCdp, runtime, cdpVars>>

SetApplied(r) ==
  /\ status[r] = "pending"
  /\ runtime[r] = "live"
  /\ IF r \in deadletter
       THEN /\ status' = [status EXCEPT ![r] = "deleting"]
            /\ toCdp' = toCdp \o Batch("remove", {r})
       ELSE /\ status' = [status EXCEPT ![r] = "applied"]
            /\ UNCHANGED toCdp
  /\ UNCHANGED <<isEnabled, args, listed, deadletter, calls, runtime, cdpVars>>

Removed(r) ==
  /\ status[r] = "deleting"
  /\ runtime[r] = "removed"
  /\ status' = [status EXCEPT ![r] = "done"]
  /\ UNCHANGED <<isEnabled, args, listed, deadletter, calls, toCdp, runtime, cdpVars>>

-----------------------------------------------------------------------------
(* The debuggee.                                                           *)

MayBind(a) == a.kind = "script" => a.on \in alive

Serve ==
  /\ toCdp # <<>>
  /\ toCdp' = Tail(toCdp)
  /\ \/ /\ Head(toCdp).kind = "set"
        /\ \E outcome \in {"live", "refused"} :
             /\ outcome = "live" => \A r \in Head(toCdp).refs : MayBind(args[r])
             /\ runtime' = [r \in Refs |->
                  IF r \in Head(toCdp).refs THEN outcome ELSE runtime[r]]
     \/ /\ Head(toCdp).kind = "remove"
        /\ runtime' = [r \in Refs |->
             IF r \in Head(toCdp).refs THEN "removed" ELSE runtime[r]]
  /\ UNCHANGED <<isEnabled, status, args, listed, deadletter, calls, cdpVars>>

ScriptParsed(s) ==
  /\ s \notin parsed
  /\ parsed' = parsed \union {s}
  /\ alive' = alive \union {s}
  /\ UNCHANGED <<isEnabled, status, args, listed, deadletter, calls, toCdp,
                 runtime, clearing>>

(* Mutant: the scripts are forgotten although they still exist.            *)
ContextsForgotten ==
  /\ ~clearing
  /\ parsed # {}
  /\ parsed' = {}
  /\ clearing' = TRUE
  /\ UNCHANGED <<isEnabled, status, args, listed, deadletter, calls, toCdp,
                 runtime, alive>>

(* A reload destroys every script; the thread then awaits the shutdown     *)
(* participants before it tells its breakpoints.                           *)
ContextsCleared ==
  /\ ~clearing
  /\ alive # {}
  /\ alive' = {}
  /\ clearing' = TRUE
  /\ UNCHANGED <<isEnabled, status, args, listed, deadletter, calls, toCdp,
                 runtime, parsed>>

(* Mutant: breakpoints set by URL are dropped although they survive.       *)
EverythingCleared ==
  /\ clearing
  /\ clearing' = FALSE
  /\ listed' = {}
  /\ UNCHANGED <<isEnabled, status, args, deadletter, calls, toCdp, runtime,
                 parsed, alive>>

ExecutionContextWasCleared ==
  /\ clearing
  /\ clearing' = FALSE
  /\ listed' = {r \in listed : args[r].kind \in {"url", "re"}}
  /\ UNCHANGED <<isEnabled, status, args, deadletter, calls, toCdp, runtime,
                 parsed, alive>>

-----------------------------------------------------------------------------
Next ==
  \/ \E c \in Calls : Enable(c) \/ SetNext(c) \/ SetSiblings(c) \/ EnableDone(c)
  \/ Disable
  \/ \E s \in Scripts, lc \in Positions : UpdateForNewLocations(s, lc)
  \/ \E r \in Refs : SetFailed(r) \/ SetApplied(r) \/ Removed(r)
  \/ Serve
  \/ \E s \in Scripts : ScriptParsed(s)
  \/ ContextsCleared
  \/ ExecutionContextWasCleared

Spec == Init /\ [][Next]_vars

(* CDP answers every request of an open session, and promise continuations *)
(* of an answered request run.                                             *)
Fairness ==
  /\ WF_vars(Serve)
  /\ \A r \in Refs : WF_vars(SetFailed(r) \/ SetApplied(r) \/ Removed(r))

FairSpec == Spec /\ Fairness
=============================================================================
