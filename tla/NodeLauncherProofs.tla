-------------------------- MODULE NodeLauncherProofs --------------------------
(***************************************************************************)
(* Proofs, for any number of restart requests and attempts and whatever a  *)
(* launch knows of its process, of the safety properties of                *)
(* NodeLauncherProps.  Requests come at any time: the invariants count     *)
(* what the launcher has lost sight of against the requests that came      *)
(* early.                                                                  *)
(***************************************************************************)
EXTENDS NodeLauncherProps, FiniteSetTheorems, TLAPS

-----------------------------------------------------------------------------
(* The inductive invariants.                                               *)

Used == {p \in Programs : stage[p] # "none"}

(* Launches are numbered without gaps, so that NextProgram is a new one.   *)
Numbered == Used = 1 .. Cardinality(Used)

(* The launcher's program was launched, and what is due to be relaunched   *)
(* has attempts left.                                                      *)
Launched ==
  /\ program # NoProgram => stage[program] = "assigned"
  /\ \A p \in delayed : stage[p] = "assigned" /\ MayRestart(p)

TypeInv == TypeOK /\ Numbered /\ Launched

(* A process begins within its launch, and what has stopped is dead, but   *)
(* for a process in a terminal that nobody could kill.                     *)
LifeIsKnown ==
  \A p \in Programs :
    /\ stage[p] \in {"none", "preparing", "failed"} => life[p] = "none"
    /\ stage[p] = "assigned" => life[p] # "none"
    /\ life[p] \in {"none", "failing"} => stopped[p] = "pending" /\ conn[p] = "none"
    /\ life[p] = "failing" => pid[p] = "child"
    /\ stopped[p] # "pending" => life[p] = "dead" \/ (asked[p] /\ pid[p] = "none")
    /\ p \in delayed => stopped[p] # "pending"

Stopping == {c \in Calls : restart[c].pc = "stopping"}

(* A restart waits for a program it has asked to stop; a request that has  *)
(* not come has not come early.                                            *)
RequestsAreKnown ==
  /\ \A c \in Calls : restart[c].pc = "idle" => ~restart[c].early
  /\ terminate.pc = "idle" => ~terminate.early
  /\ \A c \in Stopping : restart[c].of \in Programs /\ asked[restart[c].of]

(* The launcher's program while it runs, or is due to be relaunched.       *)
Held ==
  IF program # NoProgram /\ (stopped[program] = "pending" \/ program \in delayed)
    THEN {program} ELSE {}

(* Programs that have not stopped and that nothing knows of any more: not  *)
(* the launcher, and no restart that waits for them.                       *)
Forgotten ==
  {p \in Programs : /\ stage[p] = "assigned" /\ stopped[p] = "pending"
                    /\ p # program
                    /\ \A c \in Stopping : restart[c].of # p}

Here == Forgotten \union Held \union Launching

(* Each early restart makes one program more: either it is forgotten, or   *)
(* it stands beside the program, the launch or the restart there is.       *)
FewAreHere ==
  /\ Cardinality(Forgotten) <= Cardinality(Early)
  /\ Cardinality(Here) + Cardinality(Restarting) <= 1 + Cardinality(Early)

(* When the run is over what is left of it came of requests that were      *)
(* early.                                                                  *)
Left == IF terminate.early THEN 1 ELSE 0

OverIsOver ==
  ~run => Open = {} /\ Cardinality(Here) <= Cardinality(Early) + Left

(* Connections of earlier programs are closed before a launch, unless      *)
(* their process could not be killed, a request came early or a restart    *)
(* was rejected.                                                           *)
OnTime == Early = {} /\ \A c \in Calls : restart[c].pc # "rejected"

OnlyNewConnections ==
  run /\ OnTime =>
    /\ \A c \in Calls : restart[c].pc = "closing" =>
         \A p \in Open : p \in restart[c].conns \/ pid[p] = "none"
    /\ program = NoProgram /\ Restarting = {} =>
         \A p \in Open : p \in Launching \/ pid[p] = "none"

Inv ==
  /\ TypeInv
  /\ LifeIsKnown
  /\ RequestsAreKnown
  /\ FewAreHere
  /\ OverIsOver
  /\ OnlyNewConnections

-----------------------------------------------------------------------------
(* Programs.                                                               *)

(* There are finitely many programs, numbered from one.                    *)
LEMMA ProgramsAreNumbers ==
  /\ IsFiniteSet(Programs)
  /\ Programs \subseteq Nat \ {0}
  /\ NoProgram \notin Programs
<1>1. Cardinality(Calls) \in Nat
  BY FS_CardinalityType, NodeLauncherAssumption
<1> DEFINE a == 1 + Cardinality(Calls)
           b == 1 + MaxAttempts
           n == a * b
<1>2. a \in Nat /\ b \in Nat
  BY <1>1, NodeLauncherAssumption
<1> HIDE DEF a, b
<1>3. n \in Int
  BY <1>2
<1>4. Programs = 1 .. n
  BY DEF Programs, a, b
<1> HIDE DEF n
<1>5. IsFiniteSet(1 .. n)
  BY <1>3, FS_Interval
<1> QED
  BY <1>3, <1>4, <1>5 DEF NoProgram

(* The next program is one that was never launched.                        *)
LEMMA NextProgramIsNew ==
  ASSUME Numbered
  PROVE  /\ NextProgram \notin Used
         /\ Used \union {NextProgram} = 1 .. NextProgram
         /\ Cardinality(1 .. NextProgram) = NextProgram
<1> DEFINE k == Cardinality(Used)
<1>1. Used \subseteq Programs /\ NextProgram = k + 1
  BY DEF Used, NextProgram
<1>2. IsFiniteSet(Used)
  BY <1>1, ProgramsAreNumbers, FS_Subset
<1>3. k \in Nat
  BY <1>2, FS_CardinalityType
<1>4. Used = 1 .. k
  BY DEF Numbered
<1> HIDE DEF k
<1>5. Cardinality(1 .. k + 1) = k + 1
  <2>1. Cardinality(1 .. k + 1) = IF 1 > k + 1 THEN 0 ELSE (k + 1) - 1 + 1
    BY <1>3, FS_Interval
  <2> QED BY <2>1, <1>3
<1> QED
  BY <1>1, <1>3, <1>4, <1>5

(* A launch that begins takes the next number, unless the bound is met.    *)
LEMMA NumberedStays ==
  ASSUME Numbered, TypeOK,
         \/ stage' = stage
         \/ \E p \in Used : \E s : s # "none" /\ stage' = [stage EXCEPT ![p] = s]
         \/ \E s : s # "none" /\ stage' = [stage EXCEPT ![NextProgram] = s]
  PROVE  Numbered'
<1>1. stage = [p \in Programs |-> stage[p]]
  BY DEF TypeOK
<1>2. CASE stage' = stage
  BY <1>2 DEF Numbered, Used
<1>3. CASE \E p \in Used : \E s : s # "none" /\ stage' = [stage EXCEPT ![p] = s]
  <2>1. Used' = Used
    BY <1>1, <1>3 DEF Used
  <2> QED BY <2>1 DEF Numbered
<1>4. CASE \E s : s # "none" /\ stage' = [stage EXCEPT ![NextProgram] = s]
  <2>1. CASE NextProgram \in Programs
    <3>1. Used' = Used \union {NextProgram}
      BY <1>1, <1>4, <2>1 DEF Used
    <3>2. Used' = 1 .. NextProgram
      BY <3>1, NextProgramIsNew
    <3>3. Cardinality(Used') = NextProgram
      BY <3>2, NextProgramIsNew
    <3> QED BY <3>2, <3>3 DEF Numbered
  <2>2. CASE NextProgram \notin Programs
    <3>1. Used' = Used
      BY <1>1, <1>4, <2>2 DEF Used
    <3> QED BY <3>1 DEF Numbered
  <2> QED BY <2>1, <2>2
<1> QED BY <1>2, <1>3, <1>4

-----------------------------------------------------------------------------
(* The types.                                                              *)

LEMMA TypeInit == ASSUME Init PROVE TypeInv
<1> USE ProgramsAreNumbers, NodeLauncherAssumption
<1>1. TypeOK
  <2>1. run \in BOOLEAN /\ program \in Programs \union {NoProgram} /\ delayed \subseteq Programs
    BY DEF Init
  <2>2. /\ stage \in [Programs -> {"none", "preparing", "resolving", "assigned", "failed"}]
        /\ attempt \in [Programs -> 0 .. MaxAttempts]
        /\ life \in [Programs -> {"none", "failing", "alive", "dead"}]
        /\ pid \in [Programs -> {"child", "own", "shell", "none"}]
    BY DEF Init
  <2>3. /\ asked \in [Programs -> BOOLEAN]
        /\ stopped \in [Programs -> {"pending", "killed", "clean", "crashed", "rejected"}]
        /\ conn \in [Programs -> {"none", "greeting", "listed", "closed"}]
    BY DEF Init
  <2>4. restart \in [Calls -> [pc : {"idle", "stopping", "closing", "done", "rejected"},
                               of : Programs \union {NoProgram}, conns : SUBSET Programs, early : BOOLEAN]]
    BY DEF Init
  <2>5. terminate \in [pc : {"idle", "stopping", "done", "rejected"},
                         of : Programs \union {NoProgram}, early : BOOLEAN]
    BY DEF Init
  <2> QED BY <2>1, <2>2, <2>3, <2>4, <2>5 DEF TypeOK
<1>2. Numbered
  <2>1. 1 \in Programs
    <3>1. Cardinality(Calls) \in Nat
      BY FS_CardinalityType
    <3> DEFINE a == 1 + Cardinality(Calls)
               b == 1 + MaxAttempts
    <3>2. a \in Nat /\ b \in Nat /\ a >= 1 /\ b >= 1
      BY <3>1
    <3> HIDE DEF a, b
    <3>3. \A x, y \in Nat : x >= 1 /\ y >= 1 => x * y \in Int /\ x * y >= 1
      OBVIOUS
    <3>4. a * b \in Int /\ a * b >= 1
      BY <3>2, <3>3
    <3> DEFINE n == a * b
    <3>5. Programs = 1 .. n
      BY DEF Programs, a, b
    <3>6. n \in Int /\ n >= 1
      BY <3>4
    <3> HIDE DEF n
    <3> QED BY <3>5, <3>6
  <2>2. Used = 1 .. 1
    BY <2>1 DEF Used, Init
  <2>3. Used = {1}
    BY <2>2
  <2>4. Cardinality(Used) = 1
    BY <2>3, FS_Singleton
  <2> QED BY <2>2, <2>4 DEF Numbered
<1>3. Launched
  BY DEF Init, Launched
<1> QED BY <1>1, <1>2, <1>3 DEF TypeInv

(* What the parts of the actions change.                                   *)
LEMMA TerminatedTypes ==
  ASSUME TypeOK, OnProgramTerminated
  PROVE  /\ run' \in BOOLEAN /\ ~run' /\ program' = NoProgram
         /\ conn' \in [Programs -> {"none", "greeting", "listed", "closed"}]
  BY DEF TypeOK, OnProgramTerminated, CloseAllConnections

(* What the handler of a stopped program may do, for the types.            *)
LEMMA HandlerTypes ==
  ASSUME TypeOK, NEW p \in Programs, NEW result, WhenStopped(p, result)
  PROVE  /\ run' \in BOOLEAN
         /\ program' \in {program, NoProgram}
         /\ conn' \in [Programs -> {"none", "greeting", "listed", "closed"}]
         /\ \/ delayed' = delayed
            \/ delayed' = delayed \union {p} /\ p = program /\ MayRestart(p)
<1>1. CASE UNCHANGED <<run, program, conn, delayed>>
  <2>1. run' \in BOOLEAN
    BY <1>1 DEF TypeOK
  <2>2. /\ conn' \in [Programs -> {"none", "greeting", "listed", "closed"}]
        /\ program' = program /\ delayed' = delayed
    BY <1>1 DEF TypeOK
  <2> QED BY <2>1, <2>2
<1>2. CASE OnProgramTerminated /\ UNCHANGED delayed
  <2>1. delayed' = delayed
    BY <1>2
  <2> QED BY <1>2, <2>1, TerminatedTypes
<1>3. CASE /\ program = p /\ MayRestart(p)
           /\ delayed' = delayed \union {p} /\ UNCHANGED <<run, program, conn>>
  BY <1>3 DEF TypeOK
<1> QED BY <1>1, <1>2, <1>3 DEF WhenStopped

(* A program stopped beside its handler keeps the types.                   *)
LEMMA StopAsideTypes ==
  ASSUME TypeOK, NEW p \in Programs, StopAside(p)
  PROVE  /\ asked' \in [Programs -> BOOLEAN]
         /\ stopped' \in [Programs -> {"pending", "killed", "clean", "crashed", "rejected"}]
  BY DEF TypeOK, StopAside, Settle

(* Every step keeps the types.                                             *)
LEMMA TypeNext ==
  ASSUME TypeInv, [Next]_vars
  PROVE  TypeInv'
<1>0. TypeOK /\ Numbered /\ Launched
  BY DEF TypeInv
<1>1. ASSUME NEW p \in Programs, DoLaunch(p) PROVE TypeInv'
  <2>1. TypeOK'
    <3>1. stage' \in [Programs -> {"none", "preparing", "resolving", "assigned", "failed"}]
      BY <1>0, <1>1 DEF TypeOK, DoLaunch
    <3>2. CASE program = NoProgram
      BY <1>0, <1>1, <3>1, <3>2 DEF TypeOK, DoLaunch, processVars
    <3>3. CASE program # NoProgram
      <4>1. program \in Programs /\ StopAside(program)
        BY <1>0, <1>1, <3>3 DEF TypeOK, DoLaunch
      <4>2. WhenStopped(program, "killed") \/ UNCHANGED <<run, program, conn, delayed>>
        BY <1>1, <3>3 DEF DoLaunch
      <4> QED BY <1>0, <1>1, <3>1, <4>1, <4>2, StopAsideTypes, HandlerTypes
              DEF TypeOK, DoLaunch, processVars
    <3> QED BY <3>2, <3>3
  <2>2. Numbered'
    <3>1. \E q \in Used : \E s : s # "none" /\ stage' = [stage EXCEPT ![q] = s]
      BY <1>1 DEF DoLaunch, Used
    <3> QED BY <1>0, <3>1, NumberedStays
  <2>3. Launched'
    BY <1>0, <1>1
    DEF TypeOK, Launched, DoLaunch, StopAside, Settle, Pretends, WhenStopped, OnProgramTerminated,
        CloseAllConnections, MayRestart, processVars
  <2> QED BY <2>1, <2>2, <2>3 DEF TypeInv
<1>2. ASSUME NEW p \in Programs, Spawn(p) PROVE TypeInv'
  <2>1. TypeOK'
    <3>1. PICK known \in Consoles, spawned \in {"alive", "failing"} :
            /\ pid' = [pid EXCEPT ![p] = known]
            /\ life' = [life EXCEPT ![p] = spawned]
      BY <1>2 DEF Spawn
    <3>2. /\ life' \in [Programs -> {"none", "failing", "alive", "dead"}]
          /\ pid' \in [Programs -> {"child", "own", "shell", "none"}]
      BY <1>0, <3>1, NodeLauncherAssumption DEF TypeOK
    <3> QED BY <1>0, <1>2, <3>2 DEF TypeOK, Spawn
  <2>2. Numbered'
    <3>1. stage' = stage
      BY <1>2 DEF Spawn
    <3> QED BY <1>0, <3>1, NumberedStays
  <2>3. Launched'
    BY <1>0, <1>2 DEF TypeOK, Launched, MayRestart, Spawn
  <2> QED BY <2>1, <2>2, <2>3 DEF TypeInv
<1>3. ASSUME NEW p \in Programs, LaunchFails(p) PROVE TypeInv'
  <2>1. TypeOK'
    BY <1>0, <1>3 DEF TypeOK, Launched, MayRestart, LaunchFails, processVars
  <2>2. Numbered'
    <3>1. \E q \in Used : \E s : s # "none" /\ stage' = [stage EXCEPT ![q] = s]
      BY <1>3 DEF LaunchFails, Used
    <3> QED BY <1>0, <3>1, NumberedStays
  <2>3. Launched'
    BY <1>0, <1>3 DEF TypeOK, Launched, MayRestart, LaunchFails, processVars
  <2> QED BY <2>1, <2>2, <2>3 DEF TypeInv
<1>4. ASSUME NEW p \in Programs, Assign(p) PROVE TypeInv'
  <2>1. TypeOK'
    <3>1. stage' \in [Programs -> {"none", "preparing", "resolving", "assigned", "failed"}]
      BY <1>0, <1>4 DEF TypeOK, Assign
    <3>2. /\ run' \in BOOLEAN /\ program' \in {p, NoProgram}
          /\ conn' \in [Programs -> {"none", "greeting", "listed", "closed"}]
          /\ delayed' \subseteq Programs
      <4>1. CASE OnProgramTerminated /\ UNCHANGED delayed
        BY <1>0, <4>1, TerminatedTypes DEF TypeOK
      <4>2. CASE /\ program' = p /\ delayed' \in {delayed, delayed \union {p}}
                 /\ UNCHANGED <<run, conn>>
        BY <1>0, <4>2 DEF TypeOK
      <4> QED BY <1>4, <4>1, <4>2 DEF Assign
    <3> QED BY <1>0, <1>4, <3>1, <3>2 DEF TypeOK, Assign, processVars
  <2>2. Numbered'
    <3>1. \E q \in Used : \E s : s # "none" /\ stage' = [stage EXCEPT ![q] = s]
      BY <1>4 DEF Assign, Used
    <3> QED BY <1>0, <3>1, NumberedStays
  <2>3. Launched'
    BY <1>0, <1>4
    DEF TypeOK, Launched, Assign, OnProgramTerminated, CloseAllConnections, MayRestart,
        processVars
  <2> QED BY <2>1, <2>2, <2>3 DEF TypeInv
<1>5. ASSUME NEW p \in Programs, Relaunch(p) PROVE TypeInv'
  <2>1. TypeOK'
    <3>1. stage' \in [Programs -> {"none", "preparing", "resolving", "assigned", "failed"}]
      BY <1>0, <1>5 DEF TypeOK, Relaunch
    <3>2. attempt' \in [Programs -> 0 .. MaxAttempts]
      <4>1. attempt[p] \in 0 .. MaxAttempts /\ attempt[p] # MaxAttempts /\ MaxAttempts \in Nat
        BY <1>0, <1>5, NodeLauncherAssumption DEF TypeOK, Launched, MayRestart, Relaunch
      <4>2. attempt[p] + 1 \in 0 .. MaxAttempts
        BY <4>1
      <4> QED BY <1>0, <1>5, <4>2 DEF TypeOK, Relaunch
    <3>3. asked' \in [Programs -> BOOLEAN] /\ delayed' \subseteq Programs
      BY <1>0, <1>5 DEF TypeOK, Relaunch
    <3> QED BY <1>0, <1>5, <3>1, <3>2, <3>3 DEF TypeOK, Relaunch, processVars
  <2>2. Numbered'
    <3>1. \/ stage' = stage
          \/ \E s : s # "none" /\ stage' = [stage EXCEPT ![NextProgram] = s]
      BY <1>5 DEF Relaunch
    <3> QED BY <1>0, <3>1, NumberedStays
  <2>3. Launched'
    BY <1>0, <1>5, NextProgramIsNew DEF TypeOK, Launched, Relaunch, MayRestart, processVars, Used
  <2> QED BY <2>1, <2>2, <2>3 DEF TypeInv
<1>6. ASSUME NEW p \in Programs, Exit(p) PROVE TypeInv'
  <2>1. TypeOK'
    <3>1. life' \in [Programs -> {"none", "failing", "alive", "dead"}]
      BY <1>0, <1>6 DEF TypeOK, Exit
    <3>2. CASE UNCHANGED <<run, program, stopped, conn, delayed>>
      BY <1>0, <1>6, <3>1, <3>2 DEF TypeOK, Exit
    <3>3. ASSUME NEW result \in {"killed", "clean", "crashed"},
                 Settle(p, result), WhenStopped(p, result)
          PROVE  TypeOK'
      <4>1. stopped' \in [Programs -> {"pending", "killed", "clean", "crashed", "rejected"}]
        BY <1>0, <3>3 DEF TypeOK, Settle
      <4> QED BY <1>0, <1>6, <3>1, <3>3, <4>1, HandlerTypes DEF TypeOK, Exit
    <3> QED BY <1>6, <3>2, <3>3 DEF Exit
  <2>2. Numbered'
    <3>1. stage' = stage
      BY <1>6 DEF Exit
    <3> QED BY <1>0, <3>1, NumberedStays
  <2>3. Launched'
    <3>1. /\ program' \in {program, NoProgram} /\ UNCHANGED <<stage, attempt>>
          /\ \A q \in delayed' : q \in delayed \/ (q = program /\ q = p /\ MayRestart(q))
      <4>1. CASE UNCHANGED <<run, program, stopped, conn, delayed>>
        BY <1>6, <4>1 DEF Exit
      <4>2. ASSUME NEW result, WhenStopped(p, result)
            PROVE  /\ program' \in {program, NoProgram}
                   /\ \A q \in delayed' : q \in delayed \/ (q = program /\ q = p /\ MayRestart(q))
        BY <1>0, <4>2, HandlerTypes
      <4> QED BY <1>6, <4>1, <4>2 DEF Exit
    <3>2. program' # NoProgram => stage'[program'] = "assigned"
      BY <1>0, <3>1 DEF Launched
    <3>3. ASSUME NEW q \in delayed'
          PROVE  stage'[q] = "assigned" /\ attempt'[q] # MaxAttempts
      <4>1. CASE q \in delayed
        BY <1>0, <3>1, <4>1 DEF Launched, MayRestart
      <4>2. CASE q = program /\ q = p /\ MayRestart(q)
        BY <1>0, <3>1, <4>2, ProgramsAreNumbers DEF TypeOK, Launched, MayRestart
      <4> QED BY <3>1, <4>1, <4>2
    <3> QED BY <3>2, <3>3 DEF Launched, MayRestart
  <2> QED BY <2>1, <2>2, <2>3 DEF TypeInv
<1>7. ASSUME NEW p \in Programs, Poll(p) PROVE TypeInv'
  <2>1. TypeOK'
    <3>1. /\ WhenStopped(p, "killed") /\ UNCHANGED <<stage, attempt, processVars, restart, terminate>>
          /\ asked' = [asked EXCEPT ![p] = TRUE]
          /\ stopped' = [stopped EXCEPT ![p] = "killed"]
      BY <1>7 DEF Poll, Settle
    <3>2. /\ run' \in BOOLEAN /\ program' \in {program, NoProgram}
          /\ conn' \in [Programs -> {"none", "greeting", "listed", "closed"}]
          /\ delayed' \in {delayed, delayed \union {p}}
      BY <1>0, <3>1, HandlerTypes
    <3>3. /\ asked' \in [Programs -> BOOLEAN]
          /\ stopped' \in [Programs -> {"pending", "killed", "clean", "crashed", "rejected"}]
      BY <1>0, <3>1 DEF TypeOK
    <3> QED BY <1>0, <3>1, <3>2, <3>3 DEF TypeOK, processVars
  <2>2. Numbered'
    <3>1. stage' = stage
      BY <1>7 DEF Poll
    <3> QED BY <1>0, <3>1, NumberedStays
  <2>3. Launched'
    BY <1>0, <1>7
    DEF TypeOK, Launched, Poll, Settle, WhenStopped, OnProgramTerminated, CloseAllConnections,
        MayRestart, processVars
  <2> QED BY <2>1, <2>2, <2>3 DEF TypeInv
<1>8. ASSUME NEW p \in Programs, Telemetry(p) PROVE TypeInv'
  <2>1. TypeOK'
    BY <1>0, <1>8 DEF TypeOK, Launched, MayRestart, Telemetry, processVars
  <2>2. Numbered'
    <3>1. stage' = stage
      BY <1>8 DEF Telemetry
    <3> QED BY <1>0, <3>1, NumberedStays
  <2>3. Launched'
    BY <1>0, <1>8 DEF TypeOK, Launched, MayRestart, Telemetry, processVars
  <2> QED BY <2>1, <2>2, <2>3 DEF TypeInv
<1>9. ASSUME NEW p \in Programs, Connect(p) PROVE TypeInv'
  <2>1. TypeOK'
    BY <1>0, <1>9 DEF TypeOK, Launched, MayRestart, Connect, processVars
  <2>2. Numbered'
    <3>1. stage' = stage
      BY <1>9 DEF Connect
    <3> QED BY <1>0, <3>1, NumberedStays
  <2>3. Launched'
    BY <1>0, <1>9 DEF TypeOK, Launched, MayRestart, Connect, processVars
  <2> QED BY <2>1, <2>2, <2>3 DEF TypeInv
<1>10. ASSUME NEW p \in Programs, Greeted(p) PROVE TypeInv'
  <2>1. TypeOK'
    BY <1>0, <1>10 DEF TypeOK, Launched, MayRestart, Greeted, processVars
  <2>2. Numbered'
    <3>1. stage' = stage
      BY <1>10 DEF Greeted
    <3> QED BY <1>0, <3>1, NumberedStays
  <2>3. Launched'
    BY <1>0, <1>10 DEF TypeOK, Launched, MayRestart, Greeted, processVars
  <2> QED BY <2>1, <2>2, <2>3 DEF TypeInv
<1>11. ASSUME NEW p \in Programs, Drop(p) PROVE TypeInv'
  <2>1. TypeOK'
    BY <1>0, <1>11 DEF TypeOK, Launched, MayRestart, Drop, processVars
  <2>2. Numbered'
    <3>1. stage' = stage
      BY <1>11 DEF Drop
    <3> QED BY <1>0, <3>1, NumberedStays
  <2>3. Launched'
    BY <1>0, <1>11 DEF TypeOK, Launched, MayRestart, Drop, processVars
  <2> QED BY <2>1, <2>2, <2>3 DEF TypeInv
<1>12. ASSUME NEW c \in Calls, Restart(c) PROVE TypeInv'
  <2>1. TypeOK'
    <3>1. stage' \in [Programs -> {"none", "preparing", "resolving", "assigned", "failed"}]
      BY <1>0, <1>12 DEF TypeOK, Restart
    <3>2. restart' \in [Calls -> [pc : {"idle", "stopping", "closing", "done", "rejected"},
                                  of : Programs \union {NoProgram}, conns : SUBSET Programs, early : BOOLEAN]]
      <4>1. /\ restart \in [Calls -> [pc : {"idle", "stopping", "closing", "done", "rejected"},
                                     of : Programs \union {NoProgram}, conns : SUBSET Programs, early : BOOLEAN]]
            /\ program \in Programs \union {NoProgram}
        BY <1>0 DEF TypeOK
      <4>2. EarlyRestart \in BOOLEAN
        BY DEF EarlyRestart
      <4>3. \/ restart' = [restart EXCEPT ![c].pc = "done", ![c].early = EarlyRestart]
            \/ restart' = [restart EXCEPT ![c] = [pc |-> "stopping", of |-> program, conns |-> {},
                                                 early |-> EarlyRestart]]
        BY <1>12 DEF Restart
      <4> HIDE DEF EarlyRestart
      <4> QED BY <4>1, <4>2, <4>3
    <3>3. /\ program' \in {program, NoProgram}
          /\ UNCHANGED <<run, attempt, processVars, delayed, conn, terminate>>
      BY <1>12 DEF Restart
    <3>4. /\ asked' \in [Programs -> BOOLEAN]
          /\ stopped' \in [Programs -> {"pending", "killed", "clean", "crashed", "rejected"}]
      <4>1. CASE UNCHANGED <<asked, stopped>>
        BY <1>0, <4>1 DEF TypeOK
      <4>2. CASE program # NoProgram /\ StopAside(program)
        BY <1>0, <4>2, StopAsideTypes DEF TypeOK
      <4> QED BY <1>12, <4>1, <4>2 DEF Restart
    <3> QED BY <1>0, <3>1, <3>2, <3>3, <3>4 DEF TypeOK, processVars
  <2>2. Numbered'
    <3>1. \/ stage' = stage
          \/ \E s : s # "none" /\ stage' = [stage EXCEPT ![NextProgram] = s]
      BY <1>12 DEF Restart
    <3> QED BY <1>0, <3>1, NumberedStays
  <2>3. Launched'
    BY <1>0, <1>12, NextProgramIsNew
    DEF TypeOK, Launched, MayRestart, Restart, StopAside, Settle, Pretends, processVars, Used
  <2> QED BY <2>1, <2>2, <2>3 DEF TypeInv
<1>13. ASSUME NEW c \in Calls, RestartStopped(c) PROVE TypeInv'
  <2>1. TypeOK'
    <3>1. restart' \in [Calls -> [pc : {"idle", "stopping", "closing", "done", "rejected"},
                                  of : Programs \union {NoProgram}, conns : SUBSET Programs, early : BOOLEAN]]
      <4>1. restart[c] \in [pc : {"idle", "stopping", "closing", "done", "rejected"},
                              of : Programs \union {NoProgram}, conns : SUBSET Programs, early : BOOLEAN]
        BY <1>0 DEF TypeOK
      <4>2. Open \subseteq Programs
        BY DEF Open
      <4> QED BY <1>0, <1>13, <4>1, <4>2 DEF TypeOK, RestartStopped
    <3> QED BY <1>0, <1>13, <3>1 DEF TypeOK, RestartStopped, processVars
  <2>2. Numbered'
    <3>1. stage' = stage
      BY <1>13 DEF RestartStopped
    <3> QED BY <1>0, <3>1, NumberedStays
  <2>3. Launched'
    BY <1>0, <1>13 DEF TypeOK, Launched, MayRestart, RestartStopped, Open, processVars
  <2> QED BY <2>1, <2>2, <2>3 DEF TypeInv
<1>14. ASSUME NEW c \in Calls, RestartLaunches(c) PROVE TypeInv'
  <2>1. TypeOK'
    <3>1. stage' \in [Programs -> {"none", "preparing", "resolving", "assigned", "failed"}]
      BY <1>0, <1>14 DEF TypeOK, RestartLaunches
    <3>2. restart' \in [Calls -> [pc : {"idle", "stopping", "closing", "done", "rejected"},
                                  of : Programs \union {NoProgram}, conns : SUBSET Programs, early : BOOLEAN]]
      <4>1. restart[c] \in [pc : {"idle", "stopping", "closing", "done", "rejected"},
                              of : Programs \union {NoProgram}, conns : SUBSET Programs, early : BOOLEAN]
        BY <1>0 DEF TypeOK
      <4>2. Open \subseteq Programs
        BY DEF Open
      <4> QED BY <1>0, <1>14, <4>1, <4>2 DEF TypeOK, RestartLaunches
    <3>3. conn' \in [Programs -> {"none", "greeting", "listed", "closed"}]
      BY <1>0, <1>14 DEF TypeOK, RestartLaunches, CloseAllConnections
    <3> QED BY <1>0, <1>14, <3>1, <3>2, <3>3 DEF TypeOK, RestartLaunches, processVars
  <2>2. Numbered'
    <3>1. \/ stage' = stage
          \/ \E s : s # "none" /\ stage' = [stage EXCEPT ![NextProgram] = s]
      BY <1>14 DEF RestartLaunches
    <3> QED BY <1>0, <3>1, NumberedStays
  <2>3. Launched'
    BY <1>0, <1>14, NextProgramIsNew
    DEF TypeOK, Launched, MayRestart, RestartLaunches, CloseAllConnections, processVars, Used
  <2> QED BY <2>1, <2>2, <2>3 DEF TypeInv
<1>15. ASSUME Terminate PROVE TypeInv'
  <2>1. TypeOK'
    <3>1. terminate' \in [pc : {"idle", "stopping", "done", "rejected"},
                         of : Programs \union {NoProgram}, early : BOOLEAN]
      <4> DEFINE early == Launching # {}
      <4>1. early \in BOOLEAN
        OBVIOUS
      <4>2. program \in Programs \union {NoProgram}
        BY <1>0 DEF TypeOK
      <4>3. \/ terminate' = [pc |-> "done", of |-> NoProgram, early |-> early]
            \/ terminate' = [pc |-> "stopping", of |-> program, early |-> early]
        BY <1>15 DEF Terminate
      <4> HIDE DEF early
      <4> QED BY <4>1, <4>2, <4>3
    <3>2. CASE program = NoProgram
      BY <1>0, <1>15, <3>1, <3>2, TerminatedTypes DEF TypeOK, Terminate, processVars
    <3>3. CASE program # NoProgram
      <4>1. program \in Programs /\ StopAside(program)
        BY <1>0, <1>15, <3>3 DEF TypeOK, Terminate
      <4>2. WhenStopped(program, "killed") \/ UNCHANGED <<run, program, conn, delayed>>
        BY <1>15, <3>3 DEF Terminate
      <4> QED BY <1>0, <1>15, <3>1, <4>1, <4>2, StopAsideTypes, HandlerTypes
              DEF TypeOK, Terminate, processVars
    <3> QED BY <3>2, <3>3
  <2>2. Numbered'
    <3>1. stage' = stage
      BY <1>15 DEF Terminate
    <3> QED BY <1>0, <3>1, NumberedStays
  <2>3. Launched'
    BY <1>0, <1>15
    DEF TypeOK, Launched, Terminate, StopAside, Settle, Pretends, WhenStopped,
        OnProgramTerminated, CloseAllConnections, MayRestart, processVars
  <2> QED BY <2>1, <2>2, <2>3 DEF TypeInv
<1>16. ASSUME Terminated PROVE TypeInv'
  <2>1. TypeOK'
    BY <1>0, <1>16 DEF TypeOK, Launched, MayRestart, Terminated, processVars
  <2>2. Numbered'
    <3>1. stage' = stage
      BY <1>16 DEF Terminated
    <3> QED BY <1>0, <3>1, NumberedStays
  <2>3. Launched'
    BY <1>0, <1>16 DEF TypeOK, Launched, MayRestart, Terminated, processVars
  <2> QED BY <2>1, <2>2, <2>3 DEF TypeInv
<1>17. ASSUME NEW p \in Programs, SpawnError(p) PROVE TypeInv'
  <2>1. TypeOK'
    BY <1>0, <1>17 DEF TypeOK, SpawnError, Settle
  <2>2. Numbered'
    <3>1. stage' = stage
      BY <1>17 DEF SpawnError
    <3> QED BY <1>0, <3>1, NumberedStays
  <2>3. Launched'
    BY <1>0, <1>17 DEF TypeOK, Launched, MayRestart, SpawnError
  <2> QED BY <2>1, <2>2, <2>3 DEF TypeInv
<1>18. CASE UNCHANGED vars
  BY <1>0, <1>18 DEF vars, processVars, TypeInv, TypeOK, Numbered, Used, Launched, MayRestart
<1> QED
  BY <1>1, <1>2, <1>3, <1>4, <1>5, <1>6, <1>7, <1>8, <1>9, <1>10, <1>11, <1>12, <1>13, <1>14,
     <1>15, <1>16, <1>17, <1>18 DEF Next, ContinueLaunch, Process, ContinueRestart

(* Every variable keeps to its type, and a relaunch is                     *)
(* within the attempts of the policy.                                      *)
THEOREM TypeCorrect == Spec => []TypeOK
<1>1. Init => TypeInv
  BY TypeInit
<1>2. TypeInv /\ [Next]_vars => TypeInv'
  BY TypeNext
<1>3. TypeInv => TypeOK
  BY DEF TypeInv
<1> QED BY <1>1, <1>2, <1>3, PTL DEF Spec

-----------------------------------------------------------------------------
(* Counting.                                                               *)

LEMMA FiniteParts ==
  ASSUME NEW U, IsFiniteSet(U), NEW S \in SUBSET U
  PROVE  /\ Cardinality(S) \in Nat
         /\ \A T \in SUBSET S : Cardinality(T) \in Nat /\ Cardinality(T) <= Cardinality(S)
         /\ \A x \in S : Cardinality(S \ {x}) = Cardinality(S) - 1
         /\ \A x \in U : Cardinality(S \union {x}) <= Cardinality(S) + 1
         /\ Cardinality(S) = 0 => S = {}
<1>1. IsFiniteSet(S)
  BY FS_Subset
<1>2. Cardinality(S) \in Nat
  BY <1>1, FS_CardinalityType
<1>3. ASSUME NEW T \in SUBSET S
      PROVE  Cardinality(T) \in Nat /\ Cardinality(T) <= Cardinality(S)
  <2>1. IsFiniteSet(T) /\ Cardinality(T) <= Cardinality(S)
    BY <1>1, FS_Subset
  <2> QED BY <2>1, FS_CardinalityType
<1>4. ASSUME NEW x \in S PROVE Cardinality(S \ {x}) = Cardinality(S) - 1
  BY <1>1, FS_RemoveElement
<1>5. ASSUME NEW x \in U PROVE Cardinality(S \union {x}) <= Cardinality(S) + 1
  <2>1. CASE x \in S
    <3> DEFINE n == Cardinality(S)
    <3>1. S \union {x} = S
      BY <2>1
    <3>2. n <= n + 1
      BY <1>2
    <3> QED BY <3>1, <3>2
  <2>2. CASE x \notin S
    <3> DEFINE n == Cardinality(S) + 1
    <3>1. Cardinality(S \union {x}) = n
      BY <1>1, <2>2, FS_AddElement
    <3>2. n <= n
      BY <1>2
    <3> QED BY <3>1, <3>2
  <2> QED BY <2>1, <2>2
<1>6. Cardinality(S) = 0 => S = {}
  BY <1>1, FS_EmptySet
<1> QED BY <1>2, <1>3, <1>4, <1>5, <1>6

(* What the invariants count are sets of programs and of requests.         *)
LEMMA Counted ==
  ASSUME TypeInv
  PROVE  /\ Forgotten \in SUBSET Programs /\ Held \in SUBSET Programs
         /\ Here \in SUBSET Programs /\ Restarting \in SUBSET Calls /\ Early \in SUBSET Calls
  BY DEF TypeInv, TypeOK, Forgotten, Held, Here, Launching, Restarting, Early

LEMMA Counts ==
  ASSUME TypeInv
  PROVE  /\ Cardinality(Forgotten) \in Nat /\ Cardinality(Here) \in Nat
         /\ Cardinality(Restarting) \in Nat /\ Cardinality(Early) \in Nat
         /\ Left \in {0, 1}
  BY Counted, ProgramsAreNumbers, NodeLauncherAssumption, FiniteParts DEF Left

(* A step that adds nothing to what is counted keeps the bounds, also if   *)
(* it ends the run: with the launcher's program, with nothing left but     *)
(* what is forgotten, or early.                                            *)
LEMMA NothingMore ==
  ASSUME Inv, TypeInv', Early' = Early, terminate.early => terminate'.early,
         Forgotten' \subseteq Forgotten, Here' \subseteq Here, Restarting' \subseteq Restarting,
         \/ run' = run
         \/ \E x \in Here : x \notin Here'
         \/ Here' \subseteq Forgotten
         \/ terminate'.early,
         ~run' => Open' = {}
  PROVE  FewAreHere' /\ OverIsOver'
<1> DEFINE e == Cardinality(Early)
           f == Cardinality(Forgotten)
           h == Cardinality(Here)
           r == Cardinality(Restarting)
           e1 == Cardinality(Early')
           f1 == Cardinality(Forgotten')
           h1 == Cardinality(Here')
           r1 == Cardinality(Restarting')
           l == Left
           l1 == Left'
<1>1. TypeInv
  BY DEF Inv
<1>2. /\ e \in Nat /\ f \in Nat /\ h \in Nat /\ r \in Nat /\ l \in {0, 1} /\ l1 \in {0, 1}
      /\ l <= l1 /\ (terminate'.early => l1 = 1)
  BY <1>1, Counts DEF Left
<1>3. e1 = e
  OBVIOUS
<1>4. f1 \in Nat /\ f1 <= f
  BY <1>1, Counted, ProgramsAreNumbers, FiniteParts
<1>5. h1 \in Nat /\ h1 <= h
  BY <1>1, Counted, ProgramsAreNumbers, FiniteParts
<1>6. r1 \in Nat /\ r1 <= r
  BY <1>1, Counted, NodeLauncherAssumption, FiniteParts
<1>7. f <= e /\ h + r <= 1 + e /\ (~run => h <= e + l)
  BY DEF Inv, FewAreHere, OverIsOver
<1>8. ASSUME NEW x \in Here, x \notin Here'
      PROVE  h1 <= h - 1
  <2>1. Here \ {x} \in SUBSET Programs /\ Here' \subseteq Here \ {x}
    BY <1>1, <1>8, Counted
  <2>2. Cardinality(Here \ {x}) = h - 1
    BY <1>1, Counted, ProgramsAreNumbers, FiniteParts
  <2>3. h1 <= Cardinality(Here \ {x})
    BY <2>1, ProgramsAreNumbers, FiniteParts
  <2> QED BY <2>2, <2>3
<1>9. Here' \subseteq Forgotten => h1 <= f
  BY <1>1, Counted, ProgramsAreNumbers, FiniteParts
<1>10. ~run' => h1 <= h - 1 \/ h1 <= f \/ terminate'.early \/ ~run
  BY <1>8, <1>9
<1> HIDE DEF e, f, h, r, e1, f1, h1, r1, l, l1
<1>11. f1 <= e1 /\ h1 + r1 <= 1 + e1
  BY <1>2, <1>3, <1>4, <1>5, <1>6, <1>7
<1>12. ~run' => h1 <= e1 + l1
  BY <1>2, <1>3, <1>4, <1>5, <1>6, <1>7, <1>10
<1> QED BY <1>11, <1>12 DEF FewAreHere, OverIsOver, e1, f1, h1, r1, l1

(* With no early request nothing is forgotten, a restart stands alone, and *)
(* what has not stopped is here or a restart waits for it.                 *)
LEMMA OnTimeAlone ==
  ASSUME Inv, OnTime
  PROVE  /\ Forgotten = {}
         /\ \A c \in Restarting : Here = {} /\ Restarting = {c}
         /\ \A p \in Alive : stopped[p] = "pending" =>
              p \in Here \/ \E c \in Stopping : restart[c].of = p
<1>1. TypeInv /\ TypeOK
  BY DEF Inv, TypeInv
<1>2. Cardinality(Early) = 0
  BY FS_EmptySet DEF OnTime
<1>3. /\ Cardinality(Forgotten) \in Nat /\ Cardinality(Forgotten) <= 0
      /\ Cardinality(Here) \in Nat /\ Cardinality(Restarting) \in Nat
      /\ Cardinality(Here) + Cardinality(Restarting) <= 1
  BY <1>1, <1>2, Counts DEF Inv, FewAreHere
<1>4. Forgotten = {}
  <2>1. Cardinality(Forgotten) = 0
    BY <1>3
  <2> QED BY <1>1, <2>1, Counted, ProgramsAreNumbers, FiniteParts
<1>5. ASSUME NEW c \in Restarting
      PROVE  Here = {} /\ Restarting = {c}
  <2>1. Restarting \ {c} \in SUBSET Calls /\ Cardinality(Restarting \ {c}) = Cardinality(Restarting) - 1
    BY <1>1, Counted, NodeLauncherAssumption, FiniteParts
  <2>2. Cardinality(Restarting \ {c}) \in Nat
    BY <2>1, NodeLauncherAssumption, FiniteParts
  <2>3. Cardinality(Restarting \ {c}) = 0 /\ Cardinality(Here) = 0
    BY <1>3, <2>1, <2>2
  <2>4. Restarting \ {c} = {} /\ Here = {}
    BY <1>1, <2>1, <2>3, Counted, ProgramsAreNumbers, NodeLauncherAssumption, FiniteParts
  <2> QED BY <2>4
<1>6. ASSUME NEW p \in Alive, stopped[p] = "pending"
      PROVE  p \in Here \/ \E c \in Stopping : restart[c].of = p
  <2>1. p \in Programs /\ stage[p] \in {"resolving", "assigned"} /\ p # NoProgram
    BY <1>1, ProgramsAreNumbers DEF Inv, LifeIsKnown, Alive, TypeOK
  <2> QED BY <2>1, <1>4, <1>6 DEF Here, Held, Launching, Forgotten
<1> QED BY <1>4, <1>5, <1>6

-----------------------------------------------------------------------------
(* Every step keeps the invariant.                                         *)

(* A step that leaves what restarts and connections are about as it was.   *)
LEMMA ConnectionsStay ==
  ASSUME Inv, UNCHANGED restart,
         run' => run /\ Open' \subseteq Open,
         run' => \A p \in Open : pid[p] = "none" => pid'[p] = "none",
         run' /\ program' = NoProgram => program = NoProgram,
         \A p \in Launching \intersect Open : p \in Launching'
  PROVE  OnlyNewConnections'
  BY DEF Inv, OnlyNewConnections, OnTime, Early, Restarting

(* A launch begins.                                                        *)
LEMMA DoLaunchInv ==
  ASSUME Inv, TypeInv', NEW p \in Programs, DoLaunch(p)
  PROVE  Inv'
<1> USE DEF TypeInv
<1>0. TypeOK /\ TypeOK' /\ Launched /\ NoProgram \notin Programs
  BY ProgramsAreNumbers DEF Inv
<1>1. /\ stage[p] = "preparing" /\ stage' = [stage EXCEPT ![p] = "resolving"]
      /\ UNCHANGED <<attempt, life, pid, restart, terminate>>
  BY DEF DoLaunch, processVars
<1>2. \/ UNCHANGED <<run, program, stopped, conn, delayed>>
      \/ /\ program \in Programs /\ Pretends(program)
         /\ stopped' = [stopped EXCEPT ![program] = "killed"]
         /\ UNCHANGED delayed /\ OnProgramTerminated
  BY <1>0 DEF TypeOK, DoLaunch, StopAside, WhenStopped, Settle, Pretends
<1>3. \A q \in Programs : asked[q] => asked'[q]
  BY <1>0 DEF TypeOK, DoLaunch, StopAside
<1>4. program \in Programs /\ Pretends(program) /\ stopped' = [stopped EXCEPT ![program] = "killed"]
        => asked'[program]
  BY <1>0 DEF TypeOK, DoLaunch, StopAside
<1>11. LifeIsKnown'
  <2>1. CASE UNCHANGED <<run, program, stopped, conn, delayed>>
    BY <1>0, <1>1, <1>3, <2>1 DEF Inv, LifeIsKnown, TypeOK
  <2>2. CASE /\ program \in Programs /\ Pretends(program)
             /\ stopped' = [stopped EXCEPT ![program] = "killed"]
             /\ UNCHANGED delayed /\ OnProgramTerminated
    <3>1. \A q \in Programs : conn[q] = "none" => conn'[q] = "none"
      BY <1>0, <2>2 DEF TypeOK, OnProgramTerminated, CloseAllConnections, Open
    <3>2. /\ stage[program] = "assigned" /\ pid[program] = "none" /\ asked'[program]
          /\ life[program] \notin {"none", "failing"}
      BY <1>0, <1>4, <2>2 DEF Inv, LifeIsKnown, Launched, Pretends
    <3> QED BY <1>0, <1>1, <1>3, <2>2, <3>1, <3>2 DEF Inv, LifeIsKnown, TypeOK
  <2> QED BY <1>2, <2>1, <2>2
<1>12. RequestsAreKnown'
  BY <1>1, <1>3 DEF Inv, RequestsAreKnown, Stopping
<1>13. FewAreHere' /\ OverIsOver'
  <2>1. Early' = Early /\ Restarting' = Restarting /\ Launching' = Launching /\ Stopping' = Stopping
    BY <1>0, <1>1 DEF TypeOK, Early, Restarting, Launching, Stopping
  <2>2. CASE UNCHANGED <<run, program, stopped, conn, delayed>>
    <3>1. Forgotten' = Forgotten /\ Held' = Held
      BY <1>0, <1>1, <2>1, <2>2 DEF TypeOK, Forgotten, Held
    <3>2. ~run' => Open' = {}
      BY <2>2 DEF Inv, OverIsOver, Open
    <3> QED BY <1>1, <2>1, <2>2, <3>1, <3>2, NothingMore DEF Here
  <2>3. CASE /\ program \in Programs /\ Pretends(program)
             /\ stopped' = [stopped EXCEPT ![program] = "killed"]
             /\ UNCHANGED delayed /\ OnProgramTerminated
    <3>1. Forgotten' \subseteq Forgotten /\ Held' = {}
      BY <1>0, <1>1, <2>1, <2>3 DEF TypeOK, Launched, Forgotten, Held, OnProgramTerminated
    <3>2. program \in Held /\ program \notin Forgotten /\ program \notin Launching
      BY <1>0, <2>3 DEF Launched, Held, Forgotten, Launching, Pretends
    <3>3. ~run' /\ Open' = {}
      BY <1>0, <2>3 DEF TypeOK, OnProgramTerminated, CloseAllConnections, Open
    <3> QED BY <1>1, <2>1, <3>1, <3>2, <3>3, NothingMore DEF Here
  <2> QED BY <1>2, <2>2, <2>3
<1>14. OnlyNewConnections'
  <2>1. run' => UNCHANGED <<run, program, conn>>
    BY <1>2 DEF OnProgramTerminated
  <2>2. Launching' = Launching
    BY <1>0, <1>1 DEF TypeOK, Launching
  <2> QED BY <1>1, <2>1, <2>2, ConnectionsStay DEF Open
<1> QED BY <1>11, <1>12, <1>13, <1>14 DEF Inv

(* The process of a launch begins, or fails to.                            *)
LEMMA SpawnInv ==
  ASSUME Inv, TypeInv', NEW p \in Programs, Spawn(p)
  PROVE  Inv'
<1> USE DEF TypeInv
<1>0. TypeOK /\ TypeOK' /\ Launched /\ NoProgram \notin Programs
  BY ProgramsAreNumbers DEF Inv
<1>1. /\ stage[p] = "resolving" /\ life[p] = "none"
      /\ life'[p] \in {"alive", "failing"} /\ (life'[p] = "failing" => pid'[p] = "child")
      /\ \A q \in Programs \ {p} : life'[q] = life[q] /\ pid'[q] = pid[q]
      /\ UNCHANGED <<run, program, stage, attempt, asked, stopped, delayed, conn, restart, terminate>>
  BY <1>0 DEF TypeOK, Spawn
<1>11. LifeIsKnown'
  BY <1>1 DEF Inv, LifeIsKnown
<1>12. RequestsAreKnown'
  BY <1>1 DEF Inv, RequestsAreKnown, Stopping
<1>13. FewAreHere' /\ OverIsOver'
  <2>1. /\ Early' = Early /\ Restarting' = Restarting /\ Launching' = Launching
        /\ Forgotten' = Forgotten /\ Held' = Held
    BY <1>1 DEF Early, Restarting, Launching, Forgotten, Held, Stopping
  <2>2. ~run' => Open' = {}
    BY <1>1 DEF Inv, OverIsOver, Open
  <2> QED BY <1>1, <2>1, <2>2, NothingMore DEF Here
<1>14. OnlyNewConnections'
  <2>1. p \notin Open
    BY <1>1 DEF Inv, LifeIsKnown, Open
  <2> QED BY <1>1, <2>1, ConnectionsStay DEF Open, Launching
<1> QED BY <1>11, <1>12, <1>13, <1>14 DEF Inv

(* A launch is rejected.                                                   *)
LEMMA LaunchFailsInv ==
  ASSUME Inv, TypeInv', NEW p \in Programs, LaunchFails(p)
  PROVE  Inv'
<1> USE DEF TypeInv
<1>0. TypeOK /\ TypeOK' /\ Launched /\ NoProgram \notin Programs
  BY ProgramsAreNumbers DEF Inv
<1>1. /\ stage[p] = "resolving" /\ life[p] = "none" /\ stage'[p] = "failed"
      /\ \A q \in Programs \ {p} : stage'[q] = stage[q]
      /\ UNCHANGED <<run, program, attempt, life, pid, asked, stopped, delayed, conn, restart, terminate>>
  BY <1>0 DEF TypeOK, LaunchFails, processVars
<1>11. LifeIsKnown'
  BY <1>1 DEF Inv, LifeIsKnown
<1>12. RequestsAreKnown'
  BY <1>1 DEF Inv, RequestsAreKnown, Stopping
<1>13. FewAreHere' /\ OverIsOver'
  <2>1. /\ Early' = Early /\ Restarting' = Restarting /\ Launching' \subseteq Launching
        /\ Forgotten' = Forgotten /\ Held' = Held
    BY <1>1 DEF Early, Restarting, Launching, Forgotten, Held, Stopping
  <2>2. ~run' => Open' = {}
    BY <1>1 DEF Inv, OverIsOver, Open
  <2> QED BY <1>1, <2>1, <2>2, NothingMore DEF Here
<1>14. OnlyNewConnections'
  <2>1. p \notin Open
    BY <1>1 DEF Inv, LifeIsKnown, Open
  <2> QED BY <1>1, <2>1, ConnectionsStay DEF Open, Launching
<1> QED BY <1>11, <1>12, <1>13, <1>14 DEF Inv

(* A launch is over: what was the program may be forgotten now.            *)
LEMMA AssignInv ==
  ASSUME Inv, TypeInv', NEW p \in Programs, Assign(p)
  PROVE  Inv'
<1> USE DEF TypeInv
<1>0. TypeOK /\ TypeOK' /\ Launched /\ NoProgram \notin Programs
  BY ProgramsAreNumbers DEF Inv
<1>1. /\ stage[p] = "resolving" /\ life[p] # "none" /\ stage'[p] = "assigned"
      /\ \A q \in Programs \ {p} : stage'[q] = stage[q]
      /\ UNCHANGED <<attempt, life, pid, asked, stopped, restart, terminate>>
  BY <1>0 DEF TypeOK, Assign, processVars
<1>2. \/ program' = p /\ UNCHANGED <<run, conn>> /\ delayed' = delayed
      \/ program' = p /\ UNCHANGED <<run, conn>> /\ delayed' = delayed \union {p} /\ stopped[p] = "crashed"
      \/ OnProgramTerminated /\ UNCHANGED delayed /\ stopped[p] # "pending"
  BY <1>0 DEF TypeOK, Assign
<1>11. LifeIsKnown'
  BY <1>0, <1>1, <1>2 DEF Inv, LifeIsKnown, TypeOK, OnProgramTerminated, CloseAllConnections, Open
<1>12. RequestsAreKnown'
  BY <1>1 DEF Inv, RequestsAreKnown, Stopping
<1>13. FewAreHere' /\ OverIsOver'
  <2> DEFINE e == Cardinality(Early)
             h == Cardinality(Here)
             r == Cardinality(Restarting)
  <2>1. Early' = Early /\ Restarting' = Restarting /\ Stopping' = Stopping /\ Left' = Left
    BY <1>1 DEF Early, Restarting, Stopping, Left
  <2>2. p \in Launching /\ p \notin Forgotten /\ p \notin Held /\ p \notin Launching'
    BY <1>0, <1>1 DEF Launching, Forgotten, Held, Launched
  <2>3. Launching' = Launching \ {p}
    BY <1>1 DEF Launching
  <2>4. Forgotten' \subseteq Forgotten \union Held
    BY <1>0, <1>1, <1>2, <2>1 DEF Forgotten, Held, OnProgramTerminated
  <2>5. Held' \subseteq {p} /\ (OnProgramTerminated => Held' = {})
    BY <1>2 DEF Held, OnProgramTerminated
  <2>6. Forgotten' \in SUBSET (Here \ {p}) /\ Here' \in SUBSET Here
    BY <2>2, <2>3, <2>4, <2>5 DEF Here
  <2>7. OnProgramTerminated => Here' \in SUBSET (Here \ {p})
    BY <2>2, <2>3, <2>4, <2>5 DEF Here
  <2>8. /\ e \in Nat /\ h \in Nat /\ r \in Nat /\ Left \in {0, 1}
        /\ Here \in SUBSET Programs /\ Here \ {p} \in SUBSET Programs /\ p \in Here
    BY <2>2, Counts, Counted DEF Inv, Here
  <2>9. Cardinality(Here \ {p}) = h - 1
    BY <2>8, ProgramsAreNumbers, FiniteParts
  <2>10. /\ Cardinality(Forgotten') \in Nat /\ Cardinality(Forgotten') <= h - 1
         /\ Cardinality(Here') \in Nat /\ Cardinality(Here') <= h
         /\ OnProgramTerminated => Cardinality(Here') <= h - 1
    <3>1. \A T \in SUBSET (Here \ {p}) : Cardinality(T) \in Nat /\ Cardinality(T) <= h - 1
      BY <2>8, <2>9, ProgramsAreNumbers, FiniteParts
    <3>2. \A T \in SUBSET Here : Cardinality(T) \in Nat /\ Cardinality(T) <= h
      BY <2>8, ProgramsAreNumbers, FiniteParts
    <3> HIDE DEF h
    <3> QED BY <2>6, <2>7, <3>1, <3>2
  <2>11. h + r <= 1 + e /\ (~run => h <= e + Left)
    BY DEF Inv, FewAreHere, OverIsOver
  <2>12. ~run' => OnProgramTerminated \/ ~run
    BY <1>2
  <2>13. ~run' => Open' = {}
    BY <1>0, <1>2 DEF Inv, TypeOK, OverIsOver, OnProgramTerminated, CloseAllConnections, Open
  <2> HIDE DEF e, h, r
  <2>14. Cardinality(Forgotten') <= e /\ Cardinality(Here') + r <= 1 + e
    BY <2>8, <2>10, <2>11
  <2>15. ~run' => Cardinality(Here') <= e + Left
    BY <2>8, <2>10, <2>11, <2>12
  <2> QED BY <2>1, <2>13, <2>14, <2>15 DEF FewAreHere, OverIsOver, e, r
<1>14. OnlyNewConnections'
  <2> SUFFICES ASSUME run', OnTime' PROVE OnlyNewConnections'
    BY DEF OnlyNewConnections
  <2>1. program' # NoProgram /\ p \in Here
    BY <1>0, <1>1, <1>2 DEF OnProgramTerminated, Here, Launching
  <2>2. OnTime
    BY <1>1 DEF OnTime, Early
  <2>3. \A c \in Calls : restart'[c].pc # "closing"
    BY <1>1, <2>1, <2>2, OnTimeAlone DEF Restarting
  <2> QED BY <2>1, <2>3 DEF OnlyNewConnections
<1> QED BY <1>11, <1>12, <1>13, <1>14 DEF Inv

(* The delay after a crash is over: the launch takes the program's place.  *)
LEMMA RelaunchInv ==
  ASSUME Inv, TypeInv', NEW p \in Programs, Relaunch(p)
  PROVE  Inv'
<1> USE DEF TypeInv
<1>0. TypeOK /\ TypeOK' /\ Launched /\ NoProgram \notin Programs
  BY ProgramsAreNumbers DEF Inv
<1>1. /\ p \in delayed /\ delayed' = delayed \ {p} /\ stopped[p] # "pending"
      /\ UNCHANGED <<run, program, life, pid, stopped, conn, restart, terminate>>
      /\ \A q \in Programs : asked[q] => asked'[q]
  BY <1>0 DEF Inv, LifeIsKnown, TypeOK, Relaunch, processVars
<1>2. \/ program # p /\ UNCHANGED <<stage, attempt>>
      \/ program = p /\ stage' = [stage EXCEPT ![NextProgram] = "resolving"]
  BY DEF Relaunch
<1>3. NextProgram \notin Used
  BY NextProgramIsNew DEF Inv
<1>4. \A q \in Programs : stage'[q] # stage[q] =>
        stage[q] = "none" /\ stage'[q] = "resolving" /\ q = NextProgram
  BY <1>0, <1>2, <1>3 DEF Used, TypeOK
<1>11. LifeIsKnown'
  BY <1>1, <1>4 DEF Inv, LifeIsKnown
<1>12. RequestsAreKnown'
  BY <1>1 DEF Inv, RequestsAreKnown, Stopping
<1>13. FewAreHere' /\ OverIsOver'
  <2>1. /\ Early' = Early /\ Restarting' = Restarting /\ Stopping' = Stopping /\ Left' = Left
        /\ Forgotten' \subseteq Forgotten
    BY <1>1, <1>4 DEF Early, Restarting, Stopping, Left, Forgotten
  <2>2. ~run' => Open' = {}
    BY <1>1 DEF Inv, OverIsOver, Open
  <2>3. CASE program # p
    <3>1. Held' = Held /\ Launching' = Launching
      BY <1>1, <1>2, <2>3 DEF Held, Launching
    <3> QED BY <1>1, <2>1, <2>2, <3>1, NothingMore DEF Here
  <2>4. CASE program = p
    <3> DEFINE e == Cardinality(Early)
               h == Cardinality(Here)
               r == Cardinality(Restarting)
               rest == Here \ {p}
    <3>1. p \in Here /\ p \notin Forgotten /\ p \notin Launching /\ Held = {p} /\ Held' = {}
      BY <1>0, <1>1, <2>4 DEF Here, Held, Forgotten, Launching, Launched
    <3>2. \A q \in Launching' : q \in Launching \/ (q = NextProgram /\ q \in Programs)
      BY <1>4 DEF Launching
    <3>3. /\ e \in Nat /\ h \in Nat /\ r \in Nat /\ Left \in {0, 1}
          /\ Here \in SUBSET Programs /\ rest \in SUBSET Programs /\ Here' \in SUBSET Programs
      <4>1. /\ e \in Nat /\ h \in Nat /\ r \in Nat /\ Left \in {0, 1}
            /\ Here \in SUBSET Programs /\ rest \in SUBSET Programs
        BY Counts, Counted DEF Inv
      <4>2. Here' \in SUBSET Programs
        BY <1>0, <1>1 DEF TypeOK, Here, Held, Forgotten, Launching
      <4> QED BY <4>1, <4>2
    <3>4. Cardinality(rest) = h - 1
      BY <3>1, <3>3, ProgramsAreNumbers, FiniteParts
    <3>5. Here' \subseteq rest \union ({NextProgram} \intersect Programs)
      BY <2>1, <3>1, <3>2 DEF Here
    <3>6. Cardinality(Here') <= h
      <4>1. CASE NextProgram \in Programs
        <5> DEFINE more == rest \union {NextProgram}
        <5>1. Cardinality(more) <= Cardinality(rest) + 1
          BY <3>3, <4>1, ProgramsAreNumbers, FiniteParts
        <5>2. more \in SUBSET Programs /\ Here' \in SUBSET more
          BY <3>3, <3>5, <4>1
        <5> HIDE DEF more
        <5>3. /\ Cardinality(Here') <= Cardinality(more)
              /\ Cardinality(Here') \in Nat /\ Cardinality(more) \in Nat
          BY <5>2, ProgramsAreNumbers, FiniteParts
        <5> QED BY <3>3, <3>4, <5>1, <5>3
      <4>2. CASE NextProgram \notin Programs
        <5>1. Cardinality(Here') \in Nat /\ Cardinality(Here') <= Cardinality(rest)
          BY <3>3, <3>5, <4>2, ProgramsAreNumbers, FiniteParts
        <5> QED BY <3>3, <3>4, <5>1
      <4> QED BY <4>1, <4>2
    <3>7. Cardinality(Here') \in Nat
      BY <3>3, ProgramsAreNumbers, FiniteParts
    <3>8. Cardinality(Forgotten') <= e
      <4>1. /\ Cardinality(Forgotten') <= Cardinality(Forgotten)
            /\ Cardinality(Forgotten') \in Nat /\ Cardinality(Forgotten) \in Nat
        BY <2>1, Counted, ProgramsAreNumbers, FiniteParts DEF Inv
      <4> QED BY <3>3, <4>1 DEF Inv, FewAreHere
    <3>9. h + r <= 1 + e /\ (~run => h <= e + Left)
      BY DEF Inv, FewAreHere, OverIsOver
    <3> HIDE DEF e, h, r, rest
    <3>10. Cardinality(Here') + r <= 1 + e /\ (~run => Cardinality(Here') <= e + Left)
      BY <3>3, <3>6, <3>7, <3>9
    <3> QED BY <1>1, <2>1, <2>2, <3>8, <3>10 DEF FewAreHere, OverIsOver, e, r
  <2> QED BY <2>3, <2>4
<1>14. OnlyNewConnections'
  BY <1>1, <1>4, ConnectionsStay DEF Open, Launching
<1> QED BY <1>11, <1>12, <1>13, <1>14 DEF Inv

(* A program that had not stopped stops, and its handler runs.             *)
LEMMA StopInv ==
  ASSUME Inv, TypeInv', NEW p \in Programs, NEW result \in {"killed", "clean", "crashed"},
         stopped[p] = "pending", stopped' = [stopped EXCEPT ![p] = result],
         WhenStopped(p, result),
         UNCHANGED <<stage, pid, restart, terminate>>
  PROVE  FewAreHere' /\ OverIsOver' /\ OnlyNewConnections'
<1> USE DEF TypeInv
<1>0. TypeOK /\ TypeOK' /\ Launched /\ NoProgram \notin Programs
  BY ProgramsAreNumbers DEF Inv
<1>1. /\ Early' = Early /\ Restarting' = Restarting /\ Launching' = Launching
      /\ Stopping' = Stopping
  BY DEF Early, Restarting, Launching, Stopping
<1>2. Forgotten' \subseteq Forgotten
  BY <1>0, <1>1 DEF TypeOK, Forgotten, WhenStopped, OnProgramTerminated
<1>3. CASE UNCHANGED <<run, program, conn, delayed>>
  <2>1. Held' \subseteq Held /\ Open' = Open
    BY <1>0, <1>3 DEF TypeOK, Held, Open
  <2>2. ~run' => Open' = {}
    BY <1>3, <2>1 DEF Inv, OverIsOver
  <2>3. FewAreHere' /\ OverIsOver'
    BY <1>1, <1>2, <1>3, <2>1, <2>2, NothingMore DEF Here
  <2>4. OnlyNewConnections'
    BY <1>1, <1>3, <2>1, ConnectionsStay
  <2> QED BY <2>3, <2>4
<1>4. CASE program = p /\ OnProgramTerminated
  <2>1. Held' = {} /\ p \in Held /\ p \notin Forgotten /\ p \notin Launching
    BY <1>0, <1>4 DEF Held, Forgotten, Launching, Launched, OnProgramTerminated
  <2>2. ~run' /\ Open' = {}
    BY <1>0, <1>4 DEF TypeOK, OnProgramTerminated, CloseAllConnections, Open
  <2>3. FewAreHere' /\ OverIsOver'
    BY <1>1, <1>2, <2>1, <2>2, NothingMore DEF Here
  <2>4. OnlyNewConnections'
    BY <2>2 DEF OnlyNewConnections
  <2> QED BY <2>3, <2>4
<1>5. CASE program = p /\ delayed' = delayed \union {p} /\ UNCHANGED <<run, program, conn>>
  <2>1. Held' = Held /\ Open' = Open
    BY <1>0, <1>5 DEF Held, Open
  <2>2. ~run' => Open' = {}
    BY <1>5, <2>1 DEF Inv, OverIsOver
  <2>3. FewAreHere' /\ OverIsOver'
    BY <1>1, <1>2, <1>5, <2>1, <2>2, NothingMore DEF Here
  <2>4. OnlyNewConnections'
    BY <1>1, <1>5, <2>1, ConnectionsStay
  <2> QED BY <2>3, <2>4
<1> QED BY <1>3, <1>4, <1>5 DEF WhenStopped

(* What the handler leaves of what is known of the programs.               *)
LEMMA StopLife ==
  ASSUME TypeOK, NEW p \in Programs, NEW result, WhenStopped(p, result)
  PROVE  /\ \A q \in Programs : conn[q] = "none" => conn'[q] = "none"
         /\ \A q \in delayed' : q \in delayed \/ q = p
  BY DEF TypeOK, WhenStopped, OnProgramTerminated, CloseAllConnections, Open

(* A process exits.                                                        *)
LEMMA ExitInv ==
  ASSUME Inv, TypeInv', NEW p \in Programs, Exit(p)
  PROVE  Inv'
<1> USE DEF TypeInv
<1>0. TypeOK /\ TypeOK' /\ Launched /\ NoProgram \notin Programs
  BY ProgramsAreNumbers DEF Inv
<1>1. /\ life[p] = "alive" /\ life' = [life EXCEPT ![p] = "dead"]
      /\ UNCHANGED <<stage, attempt, pid, asked, restart, terminate>>
  BY DEF Exit
<1>12. RequestsAreKnown'
  BY <1>1 DEF Inv, RequestsAreKnown, Stopping
<1>2. CASE InTerminal(p)
  <2>1. UNCHANGED <<run, program, stopped, conn, delayed>>
    BY <1>2 DEF Exit
  <2>2. LifeIsKnown'
    BY <1>0, <1>1, <2>1 DEF Inv, LifeIsKnown, TypeOK
  <2>3. /\ Early' = Early /\ Restarting' = Restarting /\ Launching' = Launching
        /\ Forgotten' = Forgotten /\ Held' = Held /\ Open' = Open
    BY <1>1, <2>1 DEF Early, Restarting, Launching, Forgotten, Held, Stopping, Open
  <2>4. ~run' => Open' = {}
    BY <2>1, <2>3 DEF Inv, OverIsOver
  <2>5. FewAreHere' /\ OverIsOver'
    BY <1>1, <2>1, <2>3, <2>4, NothingMore DEF Here
  <2>6. OnlyNewConnections'
    BY <1>1, <2>1, <2>3, ConnectionsStay
  <2> QED BY <1>12, <2>2, <2>5, <2>6 DEF Inv
<1>3. CASE ~InTerminal(p)
  <2>1. PICK result \in {"killed", "clean", "crashed"} : Settle(p, result) /\ WhenStopped(p, result)
    BY <1>3 DEF Exit
  <2>2. stopped[p] = "pending"
    BY <1>1, <1>3 DEF Inv, LifeIsKnown, InTerminal
  <2>3. LifeIsKnown'
    BY <1>0, <1>1, <2>1, StopLife DEF Inv, LifeIsKnown, TypeOK, Settle
  <2>4. FewAreHere' /\ OverIsOver' /\ OnlyNewConnections'
    BY <1>1, <2>1, <2>2, StopInv DEF Settle
  <2> QED BY <1>12, <2>3, <2>4 DEF Inv
<1> QED BY <1>2, <1>3

(* A child process could not be created.                                   *)
LEMMA SpawnErrorInv ==
  ASSUME Inv, TypeInv', NEW p \in Programs, SpawnError(p)
  PROVE  Inv'
<1> USE DEF TypeInv
<1>0. TypeOK /\ TypeOK' /\ Launched /\ NoProgram \notin Programs
  BY ProgramsAreNumbers DEF Inv
<1>1. /\ life[p] = "failing" /\ life' = [life EXCEPT ![p] = "dead"]
      /\ stopped' = [stopped EXCEPT ![p] = "rejected"]
      /\ UNCHANGED <<run, program, stage, attempt, pid, asked, delayed, conn, restart, terminate>>
  BY DEF SpawnError, Settle
<1>11. LifeIsKnown'
  BY <1>0, <1>1 DEF Inv, LifeIsKnown, TypeOK
<1>12. RequestsAreKnown'
  BY <1>1 DEF Inv, RequestsAreKnown, Stopping
<1>13. FewAreHere' /\ OverIsOver'
  <2>1. /\ Early' = Early /\ Restarting' = Restarting /\ Launching' = Launching
        /\ Forgotten' \subseteq Forgotten /\ Held' \subseteq Held
    BY <1>0, <1>1 DEF TypeOK, Early, Restarting, Launching, Forgotten, Held, Stopping
  <2>2. ~run' => Open' = {}
    BY <1>1 DEF Inv, OverIsOver, Open
  <2> QED BY <1>1, <2>1, <2>2, NothingMore DEF Here
<1>14. OnlyNewConnections'
  BY <1>1, ConnectionsStay DEF Open, Launching
<1> QED BY <1>11, <1>12, <1>13, <1>14 DEF Inv

(* The poll loop finds that the process is gone.                           *)
LEMMA PollInv ==
  ASSUME Inv, TypeInv', NEW p \in Programs, Poll(p)
  PROVE  Inv'
<1> USE DEF TypeInv
<1>0. TypeOK /\ TypeOK' /\ Launched /\ NoProgram \notin Programs
  BY ProgramsAreNumbers DEF Inv
<1>1. /\ life[p] = "dead" /\ stopped[p] = "pending"
      /\ stopped' = [stopped EXCEPT ![p] = "killed"] /\ asked' = [asked EXCEPT ![p] = TRUE]
      /\ WhenStopped(p, "killed")
      /\ UNCHANGED <<stage, attempt, life, pid, restart, terminate>>
  BY DEF Poll, Settle, processVars
<1>11. LifeIsKnown'
  BY <1>0, <1>1, StopLife DEF Inv, LifeIsKnown, TypeOK
<1>12. RequestsAreKnown'
  BY <1>0, <1>1 DEF Inv, RequestsAreKnown, Stopping, TypeOK
<1>13. FewAreHere' /\ OverIsOver' /\ OnlyNewConnections'
  BY <1>1, StopInv
<1> QED BY <1>11, <1>12, <1>13 DEF Inv

(* A terminal's process is known by its own id.                            *)
LEMMA TelemetryInv ==
  ASSUME Inv, TypeInv', NEW p \in Programs, Telemetry(p)
  PROVE  Inv'
<1> USE DEF TypeInv
<1>0. TypeOK /\ TypeOK' /\ Launched /\ NoProgram \notin Programs
  BY ProgramsAreNumbers DEF Inv
<1>1. /\ life[p] = "alive" /\ stopped[p] = "pending" /\ pid[p] \in {"shell", "none"}
      /\ \A q \in Programs \ {p} : pid'[q] = pid[q]
      /\ UNCHANGED <<run, program, stage, attempt, life, asked, stopped, delayed, conn, restart, terminate>>
  BY <1>0 DEF TypeOK, Telemetry
<1>11. LifeIsKnown'
  BY <1>1 DEF Inv, LifeIsKnown
<1>12. RequestsAreKnown'
  BY <1>1 DEF Inv, RequestsAreKnown, Stopping
<1>2. /\ Early' = Early /\ Restarting' = Restarting /\ Launching' = Launching
      /\ Forgotten' = Forgotten /\ Held' = Held /\ Open' = Open
  BY <1>1 DEF Early, Restarting, Launching, Forgotten, Held, Stopping, Open
<1>13. FewAreHere' /\ OverIsOver'
  <2>1. ~run' => Open' = {}
    BY <1>1, <1>2 DEF Inv, OverIsOver
  <2> QED BY <1>1, <1>2, <2>1, NothingMore DEF Here
<1>14. OnlyNewConnections'
  <2> SUFFICES ASSUME run', OnTime' PROVE OnlyNewConnections'
    BY DEF OnlyNewConnections
  <2>1. OnTime /\ run
    BY <1>1 DEF OnTime, Early
  <2>2. p \in Here \/ \E c \in Stopping : restart[c].of = p
    BY <1>1, <2>1, OnTimeAlone DEF Alive
  <2>3. \A c \in Calls : restart[c].pc # "closing"
    <3> SUFFICES ASSUME NEW c \in Calls, restart[c].pc = "closing" PROVE FALSE
      OBVIOUS
    <3>1. Here = {} /\ Restarting = {c}
      BY <2>1, OnTimeAlone DEF Restarting
    <3>2. PICK d \in Stopping : restart[d].of = p
      BY <2>2, <3>1
    <3> QED BY <3>1, <3>2 DEF Stopping, Restarting
  <2>4. program = NoProgram /\ Restarting = {} => p \in Launching
    BY <2>1, <2>2, OnTimeAlone DEF Here, Held, Stopping, Restarting
  <2> QED BY <1>1, <1>2, <2>1, <2>3, <2>4 DEF Inv, OnlyNewConnections, Open
<1> QED BY <1>11, <1>12, <1>13, <1>14 DEF Inv

(* A debuggee connects.                                                    *)
LEMMA ConnectInv ==
  ASSUME Inv, TypeInv', NEW p \in Programs, Connect(p)
  PROVE  Inv'
<1> USE DEF TypeInv
<1>0. TypeOK /\ TypeOK' /\ Launched /\ NoProgram \notin Programs
  BY ProgramsAreNumbers DEF Inv
<1>1. /\ run /\ life[p] = "alive"
      /\ \A q \in Programs \ {p} : conn'[q] = conn[q]
      /\ UNCHANGED <<run, program, stage, attempt, life, pid, asked, stopped, delayed, restart, terminate>>
  BY <1>0 DEF TypeOK, Connect, processVars
<1>11. LifeIsKnown'
  BY <1>1 DEF Inv, LifeIsKnown
<1>12. RequestsAreKnown'
  BY <1>1 DEF Inv, RequestsAreKnown, Stopping
<1>2. /\ Early' = Early /\ Restarting' = Restarting /\ Launching' = Launching
      /\ Forgotten' = Forgotten /\ Held' = Held /\ Open' \subseteq Open \union {p}
  BY <1>1 DEF Early, Restarting, Launching, Forgotten, Held, Stopping, Open
<1>13. FewAreHere' /\ OverIsOver'
  BY <1>1, <1>2, NothingMore DEF Here
<1>14. OnlyNewConnections'
  <2> SUFFICES ASSUME OnTime', pid[p] # "none" PROVE OnlyNewConnections'
    BY <1>1, <1>2 DEF Inv, OnlyNewConnections, OnTime
  <2>1. OnTime
    BY <1>1 DEF OnTime, Early
  <2>2. stopped[p] = "pending"
    BY <1>1 DEF Inv, LifeIsKnown
  <2>3. p \in Here \/ \E c \in Stopping : restart[c].of = p
    BY <1>1, <2>1, <2>2, OnTimeAlone DEF Alive
  <2>4. \A c \in Calls : restart[c].pc # "closing"
    <3> SUFFICES ASSUME NEW c \in Calls, restart[c].pc = "closing" PROVE FALSE
      OBVIOUS
    <3>1. Here = {} /\ Restarting = {c}
      BY <2>1, OnTimeAlone DEF Restarting
    <3>2. PICK d \in Stopping : restart[d].of = p
      BY <2>3, <3>1
    <3> QED BY <3>1, <3>2 DEF Stopping, Restarting
  <2>5. program = NoProgram /\ Restarting = {} => p \in Launching
    BY <2>1, <2>3, OnTimeAlone DEF Here, Held, Stopping, Restarting
  <2> QED BY <1>1, <1>2, <2>1, <2>4, <2>5 DEF Inv, OnlyNewConnections
<1> QED BY <1>11, <1>12, <1>13, <1>14 DEF Inv

(* A connection is greeted or drops.                                       *)
LEMMA ConnectionInv ==
  ASSUME Inv, TypeInv', NEW p \in Programs, Greeted(p) \/ Drop(p)
  PROVE  Inv'
<1> USE DEF TypeInv
<1>0. TypeOK /\ TypeOK' /\ Launched /\ NoProgram \notin Programs
  BY ProgramsAreNumbers DEF Inv
<1>1. /\ p \in Open
      /\ \A q \in Programs \ {p} : conn'[q] = conn[q]
      /\ UNCHANGED <<run, program, stage, attempt, life, pid, asked, stopped, delayed, restart, terminate>>
  BY <1>0 DEF TypeOK, Greeted, Drop, processVars, Open
<1>11. LifeIsKnown'
  BY <1>1 DEF Inv, LifeIsKnown, Open
<1>12. RequestsAreKnown'
  BY <1>1 DEF Inv, RequestsAreKnown, Stopping
<1>2. /\ Early' = Early /\ Restarting' = Restarting /\ Launching' = Launching
      /\ Forgotten' = Forgotten /\ Held' = Held /\ Open' \subseteq Open
  BY <1>1 DEF Early, Restarting, Launching, Forgotten, Held, Stopping, Open
<1>13. FewAreHere' /\ OverIsOver'
  <2>1. run
    BY <1>1 DEF Inv, OverIsOver
  <2> QED BY <1>1, <1>2, <2>1, NothingMore DEF Here
<1>14. OnlyNewConnections'
  BY <1>1, <1>2, ConnectionsStay
<1> QED BY <1>11, <1>12, <1>13, <1>14 DEF Inv

(* A restart makes one early request more if it comes early, and it never  *)
(* undoes one.                                                             *)
LEMMA RestartFacts ==
  ASSUME Inv, TypeInv', NEW c \in Calls, Restart(c)
  PROVE  /\ restart[c].pc = "idle" /\ restart'[c].early = EarlyRestart
         /\ \A d \in Calls \ {c} : restart'[d] = restart[d]
         /\ UNCHANGED <<run, attempt, life, pid, delayed, conn, terminate>>
         /\ Early' = IF EarlyRestart THEN Early \union {c} ELSE Early
         /\ EarlyRestart => Cardinality(Early') = Cardinality(Early) + 1
<1>1. TypeOK /\ TypeOK'
  BY DEF Inv, TypeInv
<1>2. /\ restart[c].pc = "idle" /\ restart'[c].early = EarlyRestart
      /\ \A d \in Calls \ {c} : restart'[d] = restart[d]
      /\ UNCHANGED <<run, attempt, life, pid, delayed, conn, terminate>>
  BY <1>1 DEF TypeOK, Restart, processVars
<1>3. ~restart[c].early /\ c \notin Early
  BY <1>2 DEF Inv, RequestsAreKnown, Early
<1>4. Early' = IF EarlyRestart THEN Early \union {c} ELSE Early
  BY <1>2, <1>3 DEF Early
<1>5. IsFiniteSet(Early)
  BY FS_Subset, NodeLauncherAssumption DEF Early
<1>6. Cardinality(Early \union {c}) = Cardinality(Early) + 1
  BY <1>3, <1>5, FS_AddElement
<1> QED BY <1>2, <1>4, <1>6

(* A restart that finds no program launches at once.                       *)
LEMMA RestartWithoutInv ==
  ASSUME Inv, TypeInv', NEW c \in Calls, Restart(c), program = NoProgram \/ ~run
  PROVE  Inv'
<1> USE DEF TypeInv
<1>0. TypeOK /\ TypeOK' /\ Launched /\ NoProgram \notin Programs
  BY ProgramsAreNumbers DEF Inv
<1>1. /\ restart[c].pc = "idle" /\ restart'[c].early = EarlyRestart
      /\ restart'[c].pc = "done"
      /\ \A d \in Calls \ {c} : restart'[d] = restart[d]
      /\ stage' = IF run THEN [stage EXCEPT ![NextProgram] = "preparing"] ELSE stage
      /\ UNCHANGED <<run, program, attempt, life, pid, asked, stopped, delayed, conn, terminate>>
  BY <1>0, RestartFacts DEF TypeOK, Restart
<1>2. NextProgram \notin Used
  BY NextProgramIsNew DEF Inv
<1>3. \A q \in Programs : stage'[q] # stage[q] =>
        run /\ stage[q] = "none" /\ stage'[q] = "preparing" /\ q = NextProgram
  BY <1>0, <1>1, <1>2 DEF Used, TypeOK
<1>11. LifeIsKnown'
  BY <1>1, <1>3 DEF Inv, LifeIsKnown
<1>12. RequestsAreKnown'
  BY <1>1 DEF Inv, RequestsAreKnown, Stopping
<1>4. /\ Restarting' = Restarting /\ Stopping' = Stopping /\ Held' = Held /\ Open' = Open
  BY <1>1 DEF Restarting, Stopping, Held, Open
<1>5. Forgotten' = Forgotten
  BY <1>1, <1>3, <1>4 DEF Forgotten, Stopping
<1>6. ~run' => Open' = {}
  BY <1>1, <1>4 DEF Inv, OverIsOver
<1>13. FewAreHere' /\ OverIsOver'
  <2>1. CASE ~run
    <3>1. Early' = Early
      BY <2>1, RestartFacts DEF EarlyRestart
    <3>2. Launching' = Launching
      BY <1>1, <2>1 DEF Launching
    <3> QED BY <1>1, <1>4, <1>5, <1>6, <3>1, <3>2, NothingMore DEF Here
  <2>2. CASE run
    <3> DEFINE e == Cardinality(Early)
               f == Cardinality(Forgotten)
               h == Cardinality(Here)
               r == Cardinality(Restarting)
               e1 == Cardinality(Early')
               h1 == Cardinality(Here')
    <3>1. program = NoProgram /\ Held = {} /\ Held' = {}
      BY <1>4, <2>2 DEF Held
    <3>2. \A q \in Launching' : q \in Launching \/ (q = NextProgram /\ q \in Programs)
      BY <1>3 DEF Launching
    <3>3. /\ e \in Nat /\ f \in Nat /\ h \in Nat /\ r \in Nat
          /\ Here \in SUBSET Programs
      BY Counts, Counted DEF Inv
    <3>4. Here' \subseteq Here \union ({NextProgram} \intersect Programs)
      BY <1>5, <3>1, <3>2 DEF Here
    <3>5. h1 \in Nat /\ h1 <= h + 1
      <4>1. CASE NextProgram \in Programs
        <5> DEFINE more == Here \union {NextProgram}
        <5>1. Cardinality(more) <= h + 1
          BY <3>3, <4>1, ProgramsAreNumbers, FiniteParts
        <5>2. more \in SUBSET Programs /\ Here' \in SUBSET more
          BY <3>3, <3>4, <4>1
        <5> HIDE DEF more
        <5>3. /\ Cardinality(Here') <= Cardinality(more)
              /\ Cardinality(Here') \in Nat /\ Cardinality(more) \in Nat
          BY <5>2, ProgramsAreNumbers, FiniteParts
        <5> HIDE DEF h
        <5> QED BY <3>3, <5>1, <5>3
      <4>2. CASE NextProgram \notin Programs
        <5>1. Here' \in SUBSET Here
          BY <3>4, <4>2
        <5>2. h1 \in Nat /\ h1 <= h
          BY <3>3, <5>1, ProgramsAreNumbers, FiniteParts
        <5> HIDE DEF h, h1
        <5> QED BY <3>3, <5>2
      <4> QED BY <4>1, <4>2
    <3>6. f <= e /\ h + r <= 1 + e
      BY DEF Inv, FewAreHere
    <3>7. e1 \in Nat /\ e1 >= e /\ (EarlyRestart => e1 = e + 1)
      <4>1. CASE EarlyRestart
        <5>1. e1 = e + 1
          BY <4>1, RestartFacts
        <5> HIDE DEF e, e1
        <5> QED BY <3>3, <5>1
      <4>2. CASE ~EarlyRestart
        <5>1. e1 = e
          BY <4>2, RestartFacts
        <5> HIDE DEF e, e1
        <5> QED BY <3>3, <4>2, <5>1
      <4> QED BY <4>1, <4>2
    <3>8. ~EarlyRestart => h = f /\ r = 0
      <4> SUFFICES ASSUME ~EarlyRestart PROVE h = f /\ r = 0
        OBVIOUS
      <4>1. Launching = {} /\ Restarting = {}
        BY <2>2 DEF EarlyRestart
      <4>2. Here = Forgotten
        BY <3>1, <4>1 DEF Here
      <4> QED BY <4>1, <4>2, FS_EmptySet
    <3> HIDE DEF e, f, h, r, e1, h1
    <3>9. f <= e1 /\ h1 + r <= 1 + e1
      BY <3>3, <3>5, <3>6, <3>7, <3>8
    <3> QED BY <1>1, <1>4, <1>5, <2>2, <3>9 DEF FewAreHere, OverIsOver, e1, f, h1, r
  <2> QED BY <2>1, <2>2
<1>14. OnlyNewConnections'
  <2> SUFFICES ASSUME run', OnTime' PROVE OnlyNewConnections'
    BY DEF OnlyNewConnections
  <2>1. ~EarlyRestart /\ run
    BY <1>1 DEF OnTime, Early
  <2>2. Launching = {} /\ Restarting = {} /\ program = NoProgram
    BY <2>1 DEF EarlyRestart
  <2>3. OnTime
    BY <1>1, <2>1, RestartFacts DEF OnTime
  <2>4. \A q \in Open : pid[q] = "none"
    BY <2>1, <2>2, <2>3 DEF Inv, OnlyNewConnections
  <2> QED BY <1>1, <1>4, <2>2, <2>4 DEF OnlyNewConnections, Restarting
<1> QED BY <1>11, <1>12, <1>13, <1>14 DEF Inv

(* A restart stops the program there is first.                             *)
LEMMA RestartWithInv ==
  ASSUME Inv, TypeInv', NEW c \in Calls, Restart(c), program # NoProgram, run
  PROVE  Inv'
<1> USE DEF TypeInv
<1>0. TypeOK /\ TypeOK' /\ Launched /\ NoProgram \notin Programs
  BY ProgramsAreNumbers DEF Inv
<1>1. /\ restart[c].pc = "idle" /\ restart'[c].early = EarlyRestart
      /\ restart'[c].pc = "stopping" /\ restart'[c].of = program
      /\ \A d \in Calls \ {c} : restart'[d] = restart[d]
      /\ asked' = [asked EXCEPT ![program] = TRUE]
      /\ IF Pretends(program) THEN Settle(program, "killed") ELSE UNCHANGED stopped
      /\ program' = NoProgram
      /\ UNCHANGED <<run, stage, attempt, life, pid, delayed, conn, terminate>>
  BY <1>0, RestartFacts DEF TypeOK, Restart, StopAside
<1>2. program \in Programs /\ stage[program] = "assigned"
  BY <1>0 DEF TypeOK, Launched
<1>11. LifeIsKnown'
  BY <1>0, <1>1, <1>2 DEF Inv, LifeIsKnown, TypeOK, Pretends, Settle
<1>12. RequestsAreKnown'
  BY <1>0, <1>1, <1>2 DEF Inv, RequestsAreKnown, Stopping, TypeOK
<1>3. /\ Restarting' = Restarting \union {c} /\ Stopping' = Stopping \union {c}
      /\ Held' = {} /\ Open' = Open /\ Launching' = Launching
  BY <1>1 DEF Restarting, Stopping, Held, Open, Launching
<1>4. Forgotten' \subseteq Forgotten
  <2> SUFFICES ASSUME NEW q \in Forgotten' PROVE q \in Forgotten
    OBVIOUS
  <2>1. /\ q \in Programs /\ stage[q] = "assigned" /\ stopped'[q] = "pending"
        /\ \A d \in Stopping' : restart'[d].of # q
    BY <1>1 DEF Forgotten
  <2>2. stopped[q] = "pending"
    BY <1>0, <1>1, <1>2, <2>1 DEF TypeOK, Settle
  <2>3. q # program
    BY <1>1, <1>3, <2>1
  <2>4. \A d \in Stopping : restart[d].of # q
    BY <1>1, <1>3, <2>1 DEF Stopping
  <2> QED BY <2>1, <2>2, <2>3, <2>4 DEF Forgotten
<1>13. FewAreHere' /\ OverIsOver'
  <2> DEFINE e == Cardinality(Early)
             f == Cardinality(Forgotten)
             h == Cardinality(Here)
             r == Cardinality(Restarting)
             e1 == Cardinality(Early')
             f1 == Cardinality(Forgotten')
             h1 == Cardinality(Here')
             r1 == Cardinality(Restarting')
  <2>1. Here' \subseteq Forgotten \union Launching
    BY <1>3, <1>4 DEF Here
  <2>2. /\ e \in Nat /\ f \in Nat /\ h \in Nat /\ r \in Nat
        /\ Here \in SUBSET Programs /\ Forgotten \in SUBSET Programs /\ Restarting \in SUBSET Calls
    BY Counts, Counted DEF Inv
  <2>3. Here' \in SUBSET Here
    BY <2>1 DEF Here
  <2>4. h1 \in Nat /\ h1 <= h
    BY <2>2, <2>3, ProgramsAreNumbers, FiniteParts
  <2>5. f1 \in Nat /\ f1 <= f
    BY <1>4, <2>2, ProgramsAreNumbers, FiniteParts
  <2>6. r1 \in Nat /\ r1 <= r + 1
    <3>1. Restarting' \in SUBSET Calls
      BY DEF Restarting
    <3>2. r1 \in Nat
      BY <3>1, NodeLauncherAssumption, FiniteParts
    <3>3. r1 <= r + 1
      BY <1>3, <2>2, NodeLauncherAssumption, FiniteParts
    <3> QED BY <3>2, <3>3
  <2>7. f <= e /\ h + r <= 1 + e
    BY DEF Inv, FewAreHere
  <2>8. e1 \in Nat /\ e1 >= e /\ (EarlyRestart => e1 = e + 1)
    <3>1. CASE EarlyRestart
      <4>1. e1 = e + 1
        BY <3>1, RestartFacts
      <4> HIDE DEF e, e1
      <4> QED BY <2>2, <4>1
    <3>2. CASE ~EarlyRestart
      <4>1. e1 = e
        BY <3>2, RestartFacts
      <4> HIDE DEF e, e1
      <4> QED BY <2>2, <3>2, <4>1
    <3> QED BY <3>1, <3>2
  <2>9. ~EarlyRestart => h1 <= f /\ r = 0
    <3> SUFFICES ASSUME ~EarlyRestart PROVE h1 <= f /\ r = 0
      OBVIOUS
    <3>1. Launching = {} /\ Restarting = {}
      BY DEF EarlyRestart
    <3>2. Here' \in SUBSET Forgotten
      BY <2>1, <3>1
    <3>3. h1 <= f
      BY <2>2, <3>2, ProgramsAreNumbers, FiniteParts
    <3>4. r = 0
      BY <3>1, FS_EmptySet
    <3> QED BY <3>3, <3>4
  <2> HIDE DEF e, f, h, r, e1, f1, h1, r1
  <2>10. f1 <= e1 /\ h1 + r1 <= 1 + e1
    BY <2>2, <2>4, <2>5, <2>6, <2>7, <2>8, <2>9
  <2> QED BY <1>1, <2>10 DEF FewAreHere, OverIsOver, e1, f1, h1, r1
<1>14. OnlyNewConnections'
  <2> SUFFICES ASSUME OnTime' PROVE OnlyNewConnections'
    BY DEF OnlyNewConnections
  <2>1. ~EarlyRestart
    BY <1>1 DEF OnTime, Early
  <2>2. Restarting = {} /\ c \in Restarting'
    BY <1>3, <2>1 DEF EarlyRestart
  <2>3. \A d \in Calls : restart'[d].pc # "closing"
    BY <1>1, <2>2 DEF Restarting
  <2> QED BY <2>2, <2>3 DEF OnlyNewConnections
<1> QED BY <1>11, <1>12, <1>13, <1>14 DEF Inv

(* The program a restart waits for has stopped.                            *)
LEMMA RestartStoppedInv ==
  ASSUME Inv, TypeInv', NEW c \in Calls, RestartStopped(c)
  PROVE  Inv'
<1> USE DEF TypeInv
<1>0. TypeOK /\ TypeOK' /\ Launched /\ NoProgram \notin Programs
  BY ProgramsAreNumbers DEF Inv
<1>1. /\ restart[c].pc = "stopping" /\ stopped[restart[c].of] # "pending"
      /\ \/ restart'[c].pc = "rejected"
         \/ restart'[c].pc = "closing" /\ restart'[c].conns = Open
      /\ restart'[c].early = restart[c].early
      /\ \A d \in Calls \ {c} : restart'[d] = restart[d]
      /\ UNCHANGED <<run, program, stage, attempt, life, pid, asked, stopped, delayed, conn, terminate>>
  BY <1>0 DEF TypeOK, RestartStopped, processVars
<1>2. /\ Early' = Early /\ Restarting' \subseteq Restarting /\ Stopping' = Stopping \ {c}
      /\ Launching' = Launching /\ Held' = Held /\ Open' = Open
  BY <1>1 DEF Early, Restarting, Stopping, Launching, Held, Open
<1>3. Forgotten' \subseteq Forgotten
  BY <1>1, <1>2 DEF Forgotten, Stopping
<1>11. LifeIsKnown'
  BY <1>1 DEF Inv, LifeIsKnown
<1>12. RequestsAreKnown'
  BY <1>1, <1>2 DEF Inv, RequestsAreKnown, Stopping
<1>13. FewAreHere' /\ OverIsOver'
  <2>1. ~run' => Open' = {}
    BY <1>1, <1>2 DEF Inv, OverIsOver
  <2> QED BY <1>1, <1>2, <1>3, <2>1, NothingMore DEF Here
<1>14. OnlyNewConnections'
  <2> SUFFICES ASSUME OnTime' PROVE OnlyNewConnections'
    BY DEF OnlyNewConnections
  <2>1. OnTime
    BY <1>1, <1>2 DEF OnTime
  <2>2. restart'[c].pc = "closing" /\ restart'[c].conns = Open /\ c \in Restarting'
    BY <1>1 DEF OnTime, Restarting
  <2>3. \A d \in Calls : restart'[d].pc = "closing" => d = c
    BY <1>1, <2>1, OnTimeAlone DEF Restarting
  <2> QED BY <1>2, <2>2, <2>3 DEF OnlyNewConnections
<1> QED BY <1>11, <1>12, <1>13, <1>14 DEF Inv

(* A restart has closed the connections and launches.                      *)
LEMMA RestartLaunchesInv ==
  ASSUME Inv, TypeInv', NEW c \in Calls, RestartLaunches(c)
  PROVE  Inv'
<1> USE DEF TypeInv
<1>0. TypeOK /\ TypeOK' /\ Launched /\ NoProgram \notin Programs
  BY ProgramsAreNumbers DEF Inv
<1>1. /\ restart[c].pc = "closing" /\ restart'[c].pc = IF run THEN "done" ELSE "rejected"
      /\ restart'[c].early = restart[c].early
      /\ \A d \in Calls \ {c} : restart'[d] = restart[d]
      /\ stage' = IF run THEN [stage EXCEPT ![NextProgram] = "preparing"] ELSE stage
      /\ UNCHANGED <<run, program, attempt, life, pid, asked, stopped, delayed, terminate>>
  BY <1>0 DEF TypeOK, RestartLaunches, processVars
<1>2. \/ restart[c].conns \intersect Open = {} /\ UNCHANGED conn
      \/ \A q \in Programs : conn'[q] = IF q \in Open THEN "closed" ELSE conn[q]
  BY DEF RestartLaunches, CloseAllConnections
<1>3. NextProgram \notin Used
  BY NextProgramIsNew DEF Inv
<1>4. \A q \in Programs : stage'[q] # stage[q] =>
        run /\ stage[q] = "none" /\ stage'[q] = "preparing" /\ q = NextProgram
  BY <1>0, <1>1, <1>3 DEF Used, TypeOK
<1>5. /\ Early' = Early /\ Restarting' = Restarting \ {c} /\ Stopping' = Stopping
      /\ Held' = Held /\ Open' \subseteq Open
  BY <1>1, <1>2 DEF Early, Restarting, Stopping, Held, Open
<1>6. Forgotten' = Forgotten
  BY <1>1, <1>4, <1>5 DEF Forgotten, Stopping
<1>7. ~run' => Open' = {}
  BY <1>1, <1>5 DEF Inv, OverIsOver
<1>11. LifeIsKnown'
  BY <1>1, <1>2, <1>4 DEF Inv, LifeIsKnown, Open
<1>12. RequestsAreKnown'
  BY <1>1, <1>5 DEF Inv, RequestsAreKnown, Stopping
<1>13. FewAreHere' /\ OverIsOver'
  <2>1. CASE ~run
    <3>1. Launching' = Launching
      BY <1>1, <2>1 DEF Launching
    <3> QED BY <1>1, <1>5, <1>6, <1>7, <3>1, NothingMore DEF Here
  <2>2. CASE run
    <3> DEFINE e == Cardinality(Early)
               f == Cardinality(Forgotten)
               h == Cardinality(Here)
               r == Cardinality(Restarting)
               h1 == Cardinality(Here')
               r1 == Cardinality(Restarting')
    <3>1. \A q \in Launching' : q \in Launching \/ (q = NextProgram /\ q \in Programs)
      BY <1>4 DEF Launching
    <3>2. /\ e \in Nat /\ f \in Nat /\ h \in Nat /\ r \in Nat
          /\ Here \in SUBSET Programs /\ Restarting \in SUBSET Calls
      BY Counts, Counted DEF Inv
    <3>3. Here' \subseteq Here \union ({NextProgram} \intersect Programs)
      BY <1>5, <1>6, <3>1 DEF Here
    <3>4. h1 \in Nat /\ h1 <= h + 1
      <4>1. CASE NextProgram \in Programs
        <5> DEFINE more == Here \union {NextProgram}
        <5>1. Cardinality(more) <= h + 1
          BY <3>2, <4>1, ProgramsAreNumbers, FiniteParts
        <5>2. more \in SUBSET Programs /\ Here' \in SUBSET more
          BY <3>2, <3>3, <4>1
        <5> HIDE DEF more
        <5>3. /\ Cardinality(Here') <= Cardinality(more)
              /\ Cardinality(Here') \in Nat /\ Cardinality(more) \in Nat
          BY <5>2, ProgramsAreNumbers, FiniteParts
        <5> HIDE DEF h
        <5> QED BY <3>2, <5>1, <5>3
      <4>2. CASE NextProgram \notin Programs
        <5>1. Here' \in SUBSET Here
          BY <3>3, <4>2
        <5>2. h1 \in Nat /\ h1 <= h
          BY <3>2, <5>1, ProgramsAreNumbers, FiniteParts
        <5> HIDE DEF h, h1
        <5> QED BY <3>2, <5>2
      <4> QED BY <4>1, <4>2
    <3>5. r1 = r - 1
      <4>1. c \in Restarting
        BY <1>1 DEF Restarting
      <4>2. Cardinality(Restarting \ {c}) = r - 1
        BY <3>2, <4>1, NodeLauncherAssumption, FiniteParts
      <4> QED BY <1>5, <4>2
    <3>6. f <= e /\ h + r <= 1 + e
      BY DEF Inv, FewAreHere
    <3> HIDE DEF e, f, h, r, h1, r1
    <3>7. h1 + r1 <= 1 + e
      BY <3>2, <3>4, <3>5, <3>6
    <3> QED BY <1>1, <1>5, <1>6, <2>2, <3>6, <3>7 DEF FewAreHere, OverIsOver, e, f, h1, r1
  <2> QED BY <2>1, <2>2
<1>14. OnlyNewConnections'
  <2> SUFFICES ASSUME run', OnTime' PROVE OnlyNewConnections'
    BY DEF OnlyNewConnections
  <2>1. OnTime /\ run
    BY <1>1, <1>5 DEF OnTime
  <2>2. Restarting' = {}
    BY <1>1, <1>5, <2>1, OnTimeAlone DEF Restarting
  <2>3. \A q \in Open : q \in restart[c].conns \/ pid[q] = "none"
    BY <1>1, <2>1 DEF Inv, OnlyNewConnections
  <2>4. \A q \in Open' : pid[q] = "none"
    BY <1>2, <1>5, <2>3 DEF Open
  <2> QED BY <1>1, <2>2, <2>4 DEF OnlyNewConnections, Restarting
<1> QED BY <1>11, <1>12, <1>13, <1>14 DEF Inv

(* The user ends the run.                                                  *)
LEMMA TerminateInv ==
  ASSUME Inv, TypeInv', Terminate
  PROVE  Inv'
<1> USE DEF TypeInv
<1>0. TypeOK /\ TypeOK' /\ Launched /\ NoProgram \notin Programs
  BY ProgramsAreNumbers DEF Inv
<1>1. /\ terminate.pc = "idle" /\ ~terminate.early
      /\ terminate'.pc # "idle" /\ terminate'.early = (Launching # {})
      /\ UNCHANGED <<stage, attempt, life, pid, restart, delayed>>
      /\ \A q \in Programs : asked[q] => asked'[q]
  BY <1>0 DEF Inv, RequestsAreKnown, TypeOK, Terminate, processVars, StopAside, WhenStopped,
              OnProgramTerminated
<1>2. \/ UNCHANGED <<run, program, stopped, conn>>
      \/ program = NoProgram /\ OnProgramTerminated /\ UNCHANGED stopped
      \/ /\ program \in Programs /\ Pretends(program) /\ asked'[program]
         /\ stopped' = [stopped EXCEPT ![program] = "killed"]
         /\ OnProgramTerminated
  BY <1>0 DEF TypeOK, Terminate, StopAside, WhenStopped, Settle, Pretends
<1>3. Early' = Early /\ Restarting' = Restarting /\ Launching' = Launching /\ Stopping' = Stopping
  BY <1>1 DEF Early, Restarting, Launching, Stopping
<1>4. OnProgramTerminated =>
        /\ ~run' /\ program' = NoProgram /\ Held' = {} /\ Open' = {}
        /\ \A q \in Programs : conn[q] = "none" => conn'[q] = "none"
  BY <1>0 DEF TypeOK, OnProgramTerminated, CloseAllConnections, Open, Held
<1>12. RequestsAreKnown'
  BY <1>1, <1>3 DEF Inv, RequestsAreKnown
<1>5. CASE UNCHANGED <<run, program, stopped, conn>>
  <2>1. LifeIsKnown'
    BY <1>1, <1>5 DEF Inv, LifeIsKnown
  <2>2. Forgotten' = Forgotten /\ Held' = Held /\ Open' = Open
    BY <1>1, <1>3, <1>5 DEF Forgotten, Held, Open
  <2>3. ~run' => Open' = {}
    BY <1>5, <2>2 DEF Inv, OverIsOver
  <2>4. FewAreHere' /\ OverIsOver'
    BY <1>1, <1>3, <1>5, <2>2, <2>3, NothingMore DEF Here
  <2>5. OnlyNewConnections'
    BY <1>1, <1>3, <1>5, <2>2, ConnectionsStay
  <2> QED BY <1>12, <2>1, <2>4, <2>5 DEF Inv
<1>6. CASE program = NoProgram /\ OnProgramTerminated /\ UNCHANGED stopped
  <2>1. LifeIsKnown'
    BY <1>1, <1>4, <1>6 DEF Inv, LifeIsKnown
  <2>2. Forgotten' = Forgotten /\ Held = {} /\ Held' = {}
    BY <1>1, <1>3, <1>4, <1>6 DEF Forgotten, Held
  <2>3. Here' = Here /\ (Launching = {} => Here' = Forgotten)
    BY <1>3, <2>2 DEF Here
  <2>4. FewAreHere' /\ OverIsOver'
    BY <1>1, <1>3, <1>4, <1>6, <2>2, <2>3, NothingMore
  <2>5. OnlyNewConnections'
    BY <1>4, <1>6 DEF OnlyNewConnections
  <2> QED BY <1>12, <2>1, <2>4, <2>5 DEF Inv
<1>7. CASE /\ program \in Programs /\ Pretends(program) /\ asked'[program]
           /\ stopped' = [stopped EXCEPT ![program] = "killed"]
           /\ OnProgramTerminated
  <2>1. LifeIsKnown'
    <3>1. /\ stage[program] = "assigned" /\ pid[program] = "none"
          /\ life[program] \notin {"none", "failing"}
      BY <1>0, <1>7 DEF Inv, LifeIsKnown, Launched, Pretends
    <3> QED BY <1>0, <1>1, <1>4, <1>7, <3>1 DEF Inv, LifeIsKnown, TypeOK
  <2>2. Forgotten' \subseteq Forgotten
    BY <1>0, <1>1, <1>3, <1>4, <1>7 DEF Forgotten, TypeOK
  <2>3. program \in Held /\ program \notin Forgotten /\ program \notin Launching
    BY <1>0, <1>7 DEF Held, Forgotten, Launching, Launched, Pretends
  <2>4. FewAreHere' /\ OverIsOver'
    BY <1>1, <1>3, <1>4, <1>7, <2>2, <2>3, NothingMore DEF Here
  <2>5. OnlyNewConnections'
    BY <1>4, <1>7 DEF OnlyNewConnections
  <2> QED BY <1>12, <2>1, <2>4, <2>5 DEF Inv
<1> QED BY <1>2, <1>5, <1>6, <1>7

(* terminate() is answered.                                                *)
LEMMA TerminatedInv ==
  ASSUME Inv, TypeInv', Terminated
  PROVE  Inv'
<1> USE DEF TypeInv
<1>1. TypeOK
  BY DEF Inv
<1>2. /\ terminate'.early = terminate.early /\ terminate'.pc # "idle"
      /\ UNCHANGED <<run, program, stage, attempt, life, pid, asked, stopped, delayed, conn, restart>>
  BY <1>1 DEF TypeOK, Terminated, processVars
<1>3. LifeIsKnown' /\ RequestsAreKnown'
  BY <1>2 DEF Inv, LifeIsKnown, RequestsAreKnown, Stopping
<1>4. /\ Early' = Early /\ Restarting' = Restarting /\ Launching' = Launching
      /\ Forgotten' = Forgotten /\ Held' = Held /\ Open' = Open
  BY <1>2 DEF Early, Restarting, Launching, Forgotten, Held, Stopping, Open
<1>5. ~run' => Open' = {}
  BY <1>2, <1>4 DEF Inv, OverIsOver
<1>6. FewAreHere' /\ OverIsOver'
  BY <1>2, <1>4, <1>5, NothingMore DEF Here
<1>7. OnlyNewConnections'
  BY <1>2, <1>4, ConnectionsStay
<1> QED BY <1>3, <1>6, <1>7 DEF Inv

LEMMA InitInv == ASSUME Init PROVE Inv
<1>1. TypeInv
  BY TypeInit
<1>2. /\ Early = {} /\ Restarting = {} /\ Forgotten = {} /\ Held = {}
      /\ Launching \subseteq {1} /\ Open = {} /\ run
  BY DEF Init, Early, Restarting, Forgotten, Held, Launching, Open
<1>3. LifeIsKnown /\ RequestsAreKnown
  BY DEF Init, LifeIsKnown, RequestsAreKnown, Stopping
<1>4. FewAreHere /\ OverIsOver
  <2>1. Cardinality({1}) = 1 /\ IsFiniteSet({1})
    BY FS_Singleton
  <2>2. Here \in SUBSET {1}
    BY <1>2 DEF Here
  <2>3. Cardinality(Here) \in Nat /\ Cardinality(Here) <= 1
    BY <2>1, <2>2, FiniteParts
  <2>4. Cardinality(Early) = 0 /\ Cardinality(Restarting) = 0 /\ Cardinality(Forgotten) = 0
    BY <1>2, FS_EmptySet
  <2> QED BY <1>2, <2>3, <2>4 DEF FewAreHere, OverIsOver
<1>5. OnlyNewConnections
  BY <1>2 DEF Init, OnlyNewConnections
<1> QED BY <1>1, <1>3, <1>4, <1>5 DEF Inv

(* Every step keeps the invariant.                                         *)
LEMMA NextInv ==
  ASSUME Inv, [Next]_vars
  PROVE  Inv'
<1>1. TypeInv'
  BY TypeNext DEF Inv
<1>2. CASE UNCHANGED vars
  <2>1. UNCHANGED <<run, program, stage, attempt, life, pid, asked, stopped, delayed, conn,
                    restart, terminate>>
    BY <1>2 DEF vars
  <2>2. LifeIsKnown' /\ RequestsAreKnown'
    BY <2>1 DEF Inv, LifeIsKnown, RequestsAreKnown, Stopping
  <2>3. /\ Early' = Early /\ Restarting' = Restarting /\ Launching' = Launching
        /\ Forgotten' = Forgotten /\ Held' = Held /\ Open' = Open
    BY <2>1 DEF Early, Restarting, Launching, Forgotten, Held, Stopping, Open
  <2>4. ~run' => Open' = {}
    BY <2>1, <2>3 DEF Inv, OverIsOver
  <2>5. FewAreHere' /\ OverIsOver'
    BY <1>1, <2>1, <2>3, <2>4, NothingMore DEF Here
  <2>6. OnlyNewConnections'
    BY <2>1, <2>3, ConnectionsStay
  <2> QED BY <1>1, <2>2, <2>5, <2>6 DEF Inv
<1>3. CASE Next
  <2>1. ASSUME NEW p \in Programs, ContinueLaunch(p) \/ LaunchFails(p) PROVE Inv'
    BY <1>1, <2>1, DoLaunchInv, SpawnInv, AssignInv, RelaunchInv, LaunchFailsInv DEF ContinueLaunch
  <2>2. ASSUME NEW p \in Programs, Process(p) PROVE Inv'
    BY <1>1, <2>2, ExitInv, SpawnErrorInv, PollInv, TelemetryInv, ConnectInv, ConnectionInv
       DEF Process
  <2>3. ASSUME NEW c \in Calls, Restart(c) \/ ContinueRestart(c) PROVE Inv'
    BY <1>1, <2>3, RestartWithoutInv, RestartWithInv, RestartStoppedInv, RestartLaunchesInv
       DEF ContinueRestart
  <2> QED BY <1>1, <1>3, <2>1, <2>2, <2>3, TerminateInv, TerminatedInv DEF Next
<1> QED BY <1>2, <1>3

-----------------------------------------------------------------------------
(* What follows.                                                           *)

(* The inductive invariant holds in every state, whenever requests come.   *)
THEOREM Invariance == Spec => []Inv
<1>1. Init => Inv
  BY InitInv
<1>2. Inv /\ [Next]_vars => Inv'
  BY NextInv
<1> QED BY <1>1, <1>2, PTL DEF Spec

(* A program that runs and was not told to stop is one of those counted.   *)
LEMMA TheFreeAreHere == ASSUME Inv PROVE Free \subseteq Here /\ Launching \subseteq Here
<1> SUFFICES ASSUME NEW p \in Free PROVE p \in Here
  BY DEF Here
<1>1. TypeOK /\ p \in Programs /\ life[p] = "alive" /\ ~asked[p] /\ p # NoProgram
  BY ProgramsAreNumbers DEF Inv, TypeInv, Free, Alive
<1>2. stopped[p] = "pending" /\ stage[p] \in {"resolving", "assigned"}
  BY <1>1 DEF Inv, LifeIsKnown, TypeOK
<1>3. \A c \in Stopping : restart[c].of # p
  BY <1>1 DEF Inv, RequestsAreKnown
<1> QED BY <1>1, <1>2, <1>3 DEF Here, Forgotten, Held, Launching

(* However crashes, relaunches, restarts and the end of the run follow     *)
(* each other, at most one process runs that was not told to stop, and one *)
(* more for each restart that came while a launch was in progress.         *)
THEOREM AtMostOneProgram == Spec => []OneProgram
<1>1. Inv => OneProgram
  <2> SUFFICES ASSUME Inv PROVE OneProgram
    OBVIOUS
  <2> DEFINE e == Cardinality(Early)
             h == Cardinality(Here)
             r == Cardinality(Restarting)
             free == Cardinality(Free)
  <2>1. e \in Nat /\ h \in Nat /\ r \in Nat /\ Here \in SUBSET Programs
    BY Counts, Counted DEF Inv
  <2>2. free \in Nat /\ free <= h
    BY <2>1, TheFreeAreHere, ProgramsAreNumbers, FiniteParts
  <2>3. h + r <= 1 + e
    BY DEF Inv, FewAreHere
  <2> HIDE DEF e, h, r, free
  <2>4. free <= 1 + e
    BY <2>1, <2>2, <2>3
  <2> QED BY <2>4 DEF OneProgram, e, free
<1> QED BY <1>1, Invariance, PTL

(* When the run is over no connection of it is left; what still runs, or   *)
(* is being launched, came of requests that were early.                    *)
THEOREM OverMeansOver == Spec => []NothingOutlivesTheRun
<1>1. Inv => NothingOutlivesTheRun
  <2> SUFFICES ASSUME Inv, ~run PROVE NothingOutlivesTheRun
    BY DEF NothingOutlivesTheRun
  <2> DEFINE e == Cardinality(Early)
             h == Cardinality(Here)
             left == Cardinality(Free \union Launching)
  <2>1. e \in Nat /\ h \in Nat /\ Left \in {0, 1} /\ Here \in SUBSET Programs
    BY Counts, Counted DEF Inv
  <2>2. left \in Nat /\ left <= h
    BY <2>1, TheFreeAreHere, ProgramsAreNumbers, FiniteParts
  <2>3. h <= e + Left /\ Open = {}
    BY DEF Inv, OverIsOver
  <2> HIDE DEF e, h, left
  <2>4. left <= e + Left
    BY <2>1, <2>2, <2>3
  <2> QED BY <2>3, <2>4 DEF NothingOutlivesTheRun, Left, e, left
<1> QED BY <1>1, Invariance, PTL

(* A launch that a user asked for begins in restart() or at its end.       *)
LEMMA OnlyRestartsPrepare ==
  ASSUME TypeOK, Next, NEW p \in Programs, stage[p] = "none", stage'[p] = "preparing"
  PROVE  run /\ \E c \in Calls : (Restart(c) /\ program = NoProgram) \/ RestartLaunches(c)
<1>1. ASSUME NEW q \in Programs, ContinueLaunch(q) \/ LaunchFails(q) \/ Process(q)
      PROVE  FALSE
  <2>1. stage'[p] = "preparing" => stage[p] = "preparing"
    BY <1>1 DEF TypeOK, ContinueLaunch, Process, DoLaunch, Spawn, LaunchFails, Assign, Relaunch,
                Exit, SpawnError, Poll, Telemetry, Connect, Greeted, Drop
  <2> QED BY <2>1
<1>2. ASSUME NEW c \in Calls, Restart(c)
      PROVE  run /\ program = NoProgram
  BY <1>2 DEF Restart
<1>3. ASSUME NEW c \in Calls, RestartLaunches(c)
      PROVE  run
  BY <1>3 DEF RestartLaunches
<1>4. stage' # stage
  OBVIOUS
<1>5. ASSUME NEW c \in Calls, RestartStopped(c)
      PROVE  FALSE
  BY <1>4, <1>5 DEF RestartStopped
<1>6. ~Terminate /\ ~Terminated
  BY <1>4 DEF Terminate, Terminated
<1> QED BY <1>1, <1>2, <1>3, <1>5, <1>6 DEF Next, ContinueRestart

(* Programs that have not stopped are forgotten, the launcher's, or those  *)
(* restarts wait for: at most one for each of these.                       *)
Unstopped == {q \in Programs : stage[q] = "assigned" /\ stopped[q] = "pending"}

LEMMA UnstoppedAreFew ==
  ASSUME Inv
  PROVE  /\ Cardinality(Unstopped) \in Nat
         /\ Cardinality(Unstopped) <= Cardinality(Forgotten \union Held) + Cardinality(Stopping)
<1> DEFINE known == Forgotten \union Held
           awaited == {restart[c].of : c \in Stopping}
           f == [c \in Stopping |-> restart[c].of]
           both == known \union awaited
<1>1. TypeInv
  BY DEF Inv
<1>2. known \in SUBSET Programs /\ Stopping \in SUBSET Calls /\ awaited \in SUBSET Programs
  BY <1>1, Counted DEF Inv, RequestsAreKnown, Stopping
<1>3. IsFiniteSet(Stopping) /\ IsFiniteSet(known) /\ IsFiniteSet(awaited)
  BY <1>2, FS_Subset, NodeLauncherAssumption, ProgramsAreNumbers
<1>4. f \in Surjection(Stopping, awaited)
  BY DEF Surjection
<1> HIDE DEF known, f
<1>5. Cardinality(awaited) <= Cardinality(Stopping)
  BY <1>3, <1>4, FS_Surjection
<1>6. Unstopped \in SUBSET both
  BY ProgramsAreNumbers DEF known, Forgotten, Held, Unstopped
<1> HIDE DEF awaited
<1>7. /\ IsFiniteSet(both)
      /\ Cardinality(both) =
           Cardinality(known) + Cardinality(awaited) - Cardinality(known \intersect awaited)
  BY <1>3, FS_Union
<1>8. IsFiniteSet(known \intersect awaited) /\ IsFiniteSet(Unstopped)
  BY <1>3, <1>6, <1>7, FS_Subset, FS_Intersection
<1>9. /\ Cardinality(known) \in Nat /\ Cardinality(awaited) \in Nat
      /\ Cardinality(Stopping) \in Nat /\ Cardinality(known \intersect awaited) \in Nat
      /\ Cardinality(Unstopped) \in Nat /\ Cardinality(both) \in Nat
  BY <1>3, <1>7, <1>8, FS_CardinalityType
<1>10. Cardinality(Unstopped) <= Cardinality(both)
  BY <1>6, <1>7, FS_Subset
<1> HIDE DEF both
<1>11. Cardinality(Unstopped) <= Cardinality(known) + Cardinality(Stopping)
  BY <1>5, <1>7, <1>9, <1>10
<1> QED BY <1>9, <1>11 DEF known

(* A launch that a user asked for finds at most as many programs that have *)
(* not stopped as restarts came early.                                     *)
LEMMA FewUnstopped ==
  ASSUME Inv, TypeInv', NEW c \in Calls, run,
         (Restart(c) /\ program = NoProgram) \/ RestartLaunches(c)
  PROVE  Cardinality(Unstopped) <= Cardinality(Early')
<1> DEFINE e == Cardinality(Early)
           e1 == Cardinality(Early')
           k == Cardinality(Forgotten \union Held)
           s == Cardinality(Stopping)
           h == Cardinality(Here)
           r == Cardinality(Restarting)
           u == Cardinality(Unstopped)
<1>1. TypeInv /\ TypeOK
  BY DEF Inv, TypeInv
<1>2. /\ e \in Nat /\ h \in Nat /\ r \in Nat
      /\ Here \in SUBSET Programs /\ Restarting \in SUBSET Calls
  BY <1>1, Counts, Counted
<1>3. k \in Nat /\ k <= h
  <2>1. Forgotten \union Held \in SUBSET Here
    BY DEF Here
  <2> QED BY <1>2, <2>1, ProgramsAreNumbers, FiniteParts
<1>4. s \in Nat /\ s <= r
  <2>1. Stopping \in SUBSET Restarting
    BY DEF Stopping, Restarting
  <2> QED BY <1>2, <2>1, NodeLauncherAssumption, FiniteParts
<1>5. u \in Nat /\ u <= k + s
  BY UnstoppedAreFew
<1>6. h + r <= 1 + e /\ Cardinality(Forgotten) <= e
  BY DEF Inv, FewAreHere
<1>7. k + s <= e1
  <2>1. CASE Restart(c) /\ program = NoProgram
    <3>1. CASE EarlyRestart
      <4>1. e1 = e + 1
        BY <2>1, <3>1, RestartFacts
      <4> HIDE DEF e, e1, k, s, h, r
      <4> QED BY <1>2, <1>3, <1>4, <1>6, <4>1
    <3>2. CASE ~EarlyRestart
      <4>1. Early' = Early
        BY <2>1, <3>2, RestartFacts
      <4>2. Stopping = {} /\ Forgotten \union Held = Forgotten
        BY <2>1, <3>2 DEF EarlyRestart, Stopping, Restarting, Held
      <4>3. s = 0
        BY <4>2, FS_EmptySet
      <4>4. k <= e
        BY <1>6, <4>2
      <4>5. e1 = e
        BY <4>1
      <4> HIDE DEF e, e1, k, s
      <4> QED BY <1>2, <1>3, <4>3, <4>4, <4>5
    <3> QED BY <3>1, <3>2
  <2>2. CASE RestartLaunches(c)
    <3>1. /\ restart[c].pc = "closing" /\ restart'[c].early = restart[c].early
          /\ \A d \in Calls \ {c} : restart'[d] = restart[d]
      BY <1>1, <2>2 DEF TypeOK, RestartLaunches
    <3>2. Early' = Early /\ c \in Restarting /\ Stopping \in SUBSET (Restarting \ {c})
      BY <3>1 DEF Early, Restarting, Stopping
    <3>3. /\ Cardinality(Restarting \ {c}) = r - 1
          /\ Restarting \ {c} \in SUBSET Calls
      BY <1>2, <3>2, NodeLauncherAssumption, FiniteParts
    <3>4. s <= Cardinality(Restarting \ {c})
      BY <3>2, <3>3, NodeLauncherAssumption, FiniteParts
    <3>5. e1 = e
      BY <3>2
    <3> HIDE DEF e, e1, k, s, h, r
    <3> QED BY <1>2, <1>3, <1>4, <1>6, <3>3, <3>4, <3>5
  <2> QED BY <2>1, <2>2
<1>8. e1 \in Nat
  <2>1. Early' \in SUBSET Calls
    BY DEF Early
  <2> QED BY <2>1, NodeLauncherAssumption, FiniteParts
<1> HIDE DEF e, e1, k, s, h, r, u
<1>9. u <= e1
  BY <1>3, <1>4, <1>5, <1>7, <1>8
<1> QED BY <1>9 DEF u, e1

(* And if none came early, and none was rejected, it finds no connection   *)
(* but that of a process that could not be killed.                         *)
LEMMA NoOldConnections ==
  ASSUME Inv, NEW c \in Calls, run, OnTime, EarlyRestart => ~Restart(c),
         (Restart(c) /\ program = NoProgram) \/ RestartLaunches(c)
  PROVE  \A q \in Programs : conn'[q] \in {"greeting", "listed"} => pid[q] = "none"
<1>1. TypeOK
  BY DEF Inv, TypeInv
<1>2. CASE Restart(c) /\ program = NoProgram
  <2>1. Launching = {} /\ Restarting = {} /\ conn' = conn
    BY <1>2 DEF EarlyRestart, Restart
  <2>2. \A q \in Open : pid[q] = "none"
    BY <1>2, <2>1 DEF Inv, OnlyNewConnections
  <2> QED BY <2>1, <2>2 DEF Open
<1>3. CASE RestartLaunches(c)
  <2>1. \A q \in Open : q \in restart[c].conns \/ pid[q] = "none"
    BY <1>3 DEF Inv, OnlyNewConnections, RestartLaunches
  <2>2. \/ restart[c].conns \intersect Open = {} /\ conn' = conn
        \/ \A q \in Programs : conn'[q] = IF q \in Open THEN "closed" ELSE conn[q]
    BY <1>3 DEF RestartLaunches, CloseAllConnections
  <2> QED BY <2>1, <2>2 DEF Open
<1> QED BY <1>2, <1>3

(* A launch that the user asked for begins after the program before it has *)
(* stopped, with none of its connections, except for what early restarts   *)
(* left behind.                                                            *)
THEOREM RestartIsFresh == Spec => RestartsAfresh
<1> DEFINE Fresh ==
      \A p \in Programs :
        stage[p] = "none" /\ stage'[p] = "preparing" =>
          /\ Cardinality({q \in Programs : stage[q] = "assigned" /\ stopped[q] = "pending"})
               <= Cardinality(Early')
          /\ Early' = {} /\ (\A c \in Calls : restart[c].pc # "rejected") =>
               \A q \in Programs : conn'[q] \in {"greeting", "listed"} => pid[q] = "none"
<1>1. Inv /\ Inv' /\ [Next]_vars => Fresh
  <2> SUFFICES ASSUME Inv, Inv', [Next]_vars, NEW p \in Programs,
                      stage[p] = "none", stage'[p] = "preparing"
               PROVE  /\ Cardinality(Unstopped) <= Cardinality(Early')
                      /\ Early' = {} /\ (\A c \in Calls : restart[c].pc # "rejected") =>
                           \A q \in Programs :
                             conn'[q] \in {"greeting", "listed"} => pid[q] = "none"
    BY DEF Unstopped
  <2>1. TypeOK /\ TypeInv' /\ Next
    BY DEF Inv, TypeInv, vars
  <2>2. PICK c \in Calls : run /\ ((Restart(c) /\ program = NoProgram) \/ RestartLaunches(c))
    BY <2>1, OnlyRestartsPrepare
  <2>3. Cardinality(Unstopped) <= Cardinality(Early')
    BY <2>1, <2>2, FewUnstopped
  <2>4. ASSUME Early' = {}, \A d \in Calls : restart[d].pc # "rejected"
        PROVE  \A q \in Programs : conn'[q] \in {"greeting", "listed"} => pid[q] = "none"
    <3>1. CASE Restart(c)
      <4>1. ~EarlyRestart /\ Early = {}
        BY <2>1, <2>4, <3>1, RestartFacts
      <4> QED BY <2>2, <2>4, <4>1, NoOldConnections DEF OnTime
    <3>2. CASE ~Restart(c)
      <4>1. RestartLaunches(c)
        BY <2>2, <3>2
      <4>2. \A d \in Calls : restart'[d].early = restart[d].early
        BY <2>1, <4>1 DEF TypeOK, RestartLaunches
      <4>3. OnTime
        BY <2>4, <4>2 DEF OnTime, Early
      <4> QED BY <2>2, <3>2, <4>1, <4>3, NoOldConnections
    <3> QED BY <3>1, <3>2
  <2> QED BY <2>3, <2>4
<1>2. Spec => [][Fresh]_vars
  BY <1>1, Invariance, PTL DEF Spec
<1> QED BY <1>2 DEF RestartsAfresh
=============================================================================
