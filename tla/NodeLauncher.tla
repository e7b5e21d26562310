---------------------------- MODULE NodeLauncher ----------------------------
(***************************************************************************)
(* The Node launcher (src/targets/node/nodeLauncherBase.ts, nodeLauncher.ts *)
(* restartPolicy.ts, program.ts): one run of a program that is relaunched  *)
(* when it crashes or when the user restarts it, and the debuggees that    *)
(* connect to the server of the run.                                       *)
(*                                                                         *)
(* launch, terminate and restart are asynchronous and nothing keeps them   *)
(* apart.  A launch takes two stretches of awaits: "preparing", before     *)
(* doLaunch, and "resolving", until its program is the launcher's program. *)
(* The handler of program.stopped runs in the step that settles the        *)
(* promise: no other event comes between.                                  *)
(*                                                                         *)
(* External: the processes, which exit when they like, and the sockets.    *)
(* History: a request is early if it came while a launch was in progress,  *)
(* or a restart while another one was; no guard reads that.                *)
(*                                                                         *)
(* Bounds: the restart requests (Calls); with them and MaxAttempts the     *)
(* programs.  Not modelled: the legacy attach mode, dispose(), parameters. *)
(***************************************************************************)
EXTENDS Naturals, FiniteSets

CONSTANTS
  Calls,       \* restart requests
  MaxAttempts, \* maxAttempts of the restart policy; 0 is NeverRestartPolicy
  Consoles,    \* what a launch finds out about its process: see pid
  Fallible     \* a launch may fail, and a process fail to spawn

ASSUME NodeLauncherAssumption ==
  /\ IsFiniteSet(Calls)
  /\ MaxAttempts \in Nat
  /\ Consoles \subseteq {"child", "own", "shell", "none"} /\ Consoles # {}
  /\ Fallible \in BOOLEAN

(* The launches of a run, numbered as they begin.                          *)
Programs == 1 .. (1 + Cardinality(Calls)) * (1 + MaxAttempts)
NoProgram == 0

VARIABLES
  run,         \* this.run is set: the server of the run accepts connections
  program,     \* this.program
  stage,       \* how far the launch of each program has come
  attempt,     \* the attempt of the restart policy it was launched with
  life,        \* the process; "failing": there is none, which is not told yet
  pid,         \* a child process; or, in a terminal, what is known to poll and kill
  asked,       \* SubprocessProgram.killed, TerminalProcess.didStop
  stopped,     \* the promise program.stopped
  delayed,     \* crashed programs whose relaunch is due after the delay
  conn,        \* the connection of each process to the server
  restart,     \* the restart requests
  terminate    \* the terminate request

processVars == <<life, pid>>
vars == <<run, program, stage, attempt, life, pid, asked, stopped, delayed, conn,
          restart, terminate>>

TypeOK ==
  /\ run \in BOOLEAN
  /\ program \in Programs \union {NoProgram}
  /\ stage \in [Programs -> {"none", "preparing", "resolving", "assigned", "failed"}]
  /\ attempt \in [Programs -> 0 .. MaxAttempts]
  /\ life \in [Programs -> {"none", "failing", "alive", "dead"}]
  /\ pid \in [Programs -> {"child", "own", "shell", "none"}]
  /\ asked \in [Programs -> BOOLEAN]
  /\ stopped \in [Programs -> {"pending", "killed", "clean", "crashed", "rejected"}]
  /\ delayed \subseteq Programs
  /\ conn \in [Programs -> {"none", "greeting", "listed", "closed"}]
  /\ restart \in [Calls -> [pc : {"idle", "stopping", "closing", "done", "rejected"},
                            of : Programs \union {NoProgram}, conns : SUBSET Programs,
                            early : BOOLEAN]]
  /\ terminate \in [pc : {"idle", "stopping", "done", "rejected"},
                    of : Programs \union {NoProgram}, early : BOOLEAN]

Init ==
  /\ run = TRUE
  /\ program = NoProgram
  /\ stage = [p \in Programs |-> IF p = 1 THEN "preparing" ELSE "none"]
  /\ attempt = [p \in Programs |-> 0]
  /\ life = [p \in Programs |-> "none"]
  /\ pid = [p \in Programs |-> "none"]
  /\ asked = [p \in Programs |-> FALSE]
  /\ stopped = [p \in Programs |-> "pending"]
  /\ delayed = {}
  /\ conn = [p \in Programs |-> "none"]
  /\ restart = [c \in Calls |->
                  [pc |-> "idle", of |-> NoProgram, conns |-> {}, early |-> FALSE]]
  /\ terminate = [pc |-> "idle", of |-> NoProgram, early |-> FALSE]

-----------------------------------------------------------------------------
Open == {p \in Programs : conn[p] \in {"greeting", "listed"}}

(* closeAllConnections: the targets of the connections leave the list at   *)
(* once, and those that have not said what they are never enter it.        *)
CloseAllConnections ==
  conn' = [p \in Programs |-> IF p \in Open THEN "closed" ELSE conn[p]]

(* onProgramTerminated: the binder is told and _stopServer ends the run.   *)
OnProgramTerminated ==
  /\ run' = FALSE
  /\ program' = NoProgram
  /\ CloseAllConnections

NextProgram == Cardinality({p \in Programs : stage[p] # "none"}) + 1

(* Mutant: the policy allows one attempt more than it was configured for.  *)
OneMoreAttempt(p) == attempt[p] <= MaxAttempts

(* RestartPolicy.next() gives a policy.                                    *)
MayRestart(p) == attempt[p] # MaxAttempts

(* Mutant: a program that may not be relaunched is forgotten.              *)
WhenStoppedForever(p, result) ==
  IF program # p \/ (result = "crashed" /\ ~MayRestart(p))
    THEN UNCHANGED <<run, program, conn, delayed>>
  ELSE IF result # "crashed"
    THEN /\ OnProgramTerminated
         /\ UNCHANGED delayed
  ELSE /\ delayed' = delayed \union {p}
       /\ UNCHANGED <<run, program, conn>>

(* The handler of program.stopped: nothing if another program, or none,    *)
(* is the launcher's by now.                                               *)
WhenStopped(p, result) ==
  IF program # p
    THEN UNCHANGED <<run, program, conn, delayed>>
  ELSE IF result # "crashed" \/ ~MayRestart(p)
    THEN /\ OnProgramTerminated
         /\ UNCHANGED delayed
  ELSE /\ delayed' = delayed \union {p}
       /\ UNCHANGED <<run, program, conn>>

Settle(p, result) == stopped' = [stopped EXCEPT ![p] = result]

InTerminal(p) == pid[p] # "child"

(* What TerminalProcess.stop() cannot do anything about it pretends to     *)
(* have stopped.                                                           *)
Pretends(p) == pid[p] = "none" /\ ~asked[p] /\ stopped[p] = "pending"

(* stop(), for a program that no longer is, or stays, the launcher's.      *)
StopAside(p) ==
  /\ asked' = [asked EXCEPT ![p] = TRUE]
  /\ IF Pretends(p) THEN Settle(p, "killed")
     ELSE UNCHANGED stopped

-----------------------------------------------------------------------------
(* A launch.                                                               *)

(* The awaits of launchProgram are over and doLaunch begins: it stops the  *)
(* program there is without waiting for it.                                *)
DoLaunch(p) ==
  /\ stage[p] = "preparing"
  /\ stage' = [stage EXCEPT ![p] = "resolving"]
  /\ IF program = NoProgram
       THEN UNCHANGED <<run, program, asked, stopped, conn, delayed>>
       ELSE /\ StopAside(program)
            /\ IF Pretends(program)
                 THEN WhenStopped(program, "killed")
                 ELSE UNCHANGED <<run, program, conn, delayed>>
  /\ UNCHANGED <<attempt, processVars, restart, terminate>>

(* The program launcher starts the process; a terminal may tell its pid,   *)
(* that of the shell, or neither.  A child process that cannot be created  *)
(* is a program all the same.                                              *)
Spawn(p) ==
  /\ stage[p] = "resolving"
  /\ life[p] = "none"
  /\ \E known \in Consoles, spawned \in {"alive", "failing"} :
       /\ spawned = "failing" => Fallible /\ known = "child"
       /\ pid' = [pid EXCEPT ![p] = known]
       /\ life' = [life EXCEPT ![p] = spawned]
  /\ UNCHANGED <<run, program, stage, attempt, asked, stopped, delayed, conn, restart, terminate>>

(* No Node binary, or the terminal refused: the launch is rejected.  A     *)
(* relaunch after a crash is not awaited by anyone.                        *)
LaunchFails(p) ==
  /\ Fallible
  /\ stage[p] = "resolving"
  /\ life[p] = "none"
  /\ stage' = [stage EXCEPT ![p] = "failed"]
  /\ UNCHANGED <<run, program, attempt, processVars, asked, stopped, delayed, conn,
                 restart, terminate>>

(* this.program = program; if it has stopped already its handler runs.     *)
Assign(p) ==
  /\ stage[p] = "resolving"
  /\ life[p] # "none"
  /\ stage' = [stage EXCEPT ![p] = "assigned"]
  /\ IF stopped[p] \in {"pending", "rejected"}
       THEN program' = p /\ UNCHANGED <<run, conn, delayed>>
     ELSE IF stopped[p] # "crashed" \/ ~MayRestart(p)
       THEN OnProgramTerminated /\ UNCHANGED delayed
     ELSE /\ program' = p
          /\ delayed' = delayed \union {p}
          /\ UNCHANGED <<run, conn>>
  /\ UNCHANGED <<attempt, processVars, asked, stopped, restart, terminate>>

-----------------------------------------------------------------------------
(* The process.                                                            *)

(* A subprocess exits and its program has stopped; that a process of a     *)
(* terminal did is only seen when it is polled.                            *)
Exit(p) ==
  /\ life[p] = "alive"
  /\ life' = [life EXCEPT ![p] = "dead"]
  /\ IF InTerminal(p)
       THEN UNCHANGED <<run, program, stopped, conn, delayed>>
       ELSE \E result \in (IF asked[p] THEN {"killed"} ELSE {"clean", "crashed"}) :
              /\ Settle(p, result)
              /\ WhenStopped(p, result)
  /\ UNCHANGED <<stage, attempt, pid, asked, restart, terminate>>

(* The error event of a child process that was never created: stopped is   *)
(* rejected, and of its then() there is only the handler that does not run.*)
SpawnError(p) ==
  /\ life[p] = "failing"
  /\ life' = [life EXCEPT ![p] = "dead"]
  /\ Settle(p, "rejected")
  /\ UNCHANGED <<run, program, stage, attempt, pid, asked, delayed, conn, restart, terminate>>

(* The poll loop, of the process or, once asked to stop, of its shell.     *)
Poll(p) ==
  /\ life[p] = "dead"
  /\ stopped[p] = "pending"
  /\ pid[p] = "own" \/ (pid[p] = "shell" /\ asked[p])
  /\ Settle(p, "killed")
  /\ asked' = [asked EXCEPT ![p] = TRUE]
  /\ WhenStopped(p, "killed")
  /\ UNCHANGED <<stage, attempt, processVars, restart, terminate>>

(* The bootloader wrote the callback file: gotTelemetery.                  *)
Telemetry(p) ==
  /\ life[p] = "alive"
  /\ stopped[p] = "pending"
  /\ pid[p] \in {"shell", "none"}
  /\ pid' = [pid EXCEPT ![p] = "own"]
  /\ UNCHANGED <<run, program, stage, attempt, life, asked, stopped, delayed, conn,
                 restart, terminate>>

(* The delay after a crash is over; doLaunch with the next policy.         *)
Relaunch(p) ==
  /\ p \in delayed
  /\ delayed' = delayed \ {p}
  /\ IF program = p
       THEN /\ stage' = [stage EXCEPT ![NextProgram] = "resolving"]
            /\ attempt' = [attempt EXCEPT ![NextProgram] = attempt[p] + 1]
            /\ asked' = [asked EXCEPT ![p] = TRUE]
       ELSE UNCHANGED <<stage, attempt, asked>>
  /\ UNCHANGED <<run, program, processVars, stopped, conn, restart, terminate>>

-----------------------------------------------------------------------------
(* Requests.                                                               *)

Launching == {p \in Programs : stage[p] \in {"preparing", "resolving"}}

Restarting == {c \in Calls : restart[c].pc \in {"stopping", "closing"}}

EarlyRestart == run /\ (Launching # {} \/ Restarting # {})

(* Mutant: the program of the launcher is not stopped first.               *)
RestartAtOnce(c) ==
  /\ restart[c].pc = "idle"
  /\ run
  /\ program' = NoProgram
  /\ restart' = [restart EXCEPT ![c] = [pc |-> "closing", of |-> program, conns |-> Open,
                                        early |-> EarlyRestart]]
  /\ UNCHANGED <<run, stage, attempt, processVars, asked, stopped, delayed, conn, terminate>>

(* restart() with a program: it is the launcher's no longer, so that its   *)
(* handler does nothing, and is stopped.  Without: the launch begins.      *)
Restart(c) ==
  /\ restart[c].pc = "idle"
  /\ IF program = NoProgram \/ ~run
       THEN /\ restart' = [restart EXCEPT ![c].pc = "done", ![c].early = EarlyRestart]
            /\ stage' = IF run THEN [stage EXCEPT ![NextProgram] = "preparing"] ELSE stage
            /\ UNCHANGED <<program, asked, stopped>>
       ELSE /\ restart' = [restart EXCEPT ![c] = [pc |-> "stopping", of |-> program, conns |-> {},
                                                  early |-> EarlyRestart]]
            /\ StopAside(program)
            /\ program' = NoProgram
            /\ UNCHANGED stage
  /\ UNCHANGED <<run, attempt, processVars, delayed, conn, terminate>>

(* It has stopped; for two seconds the connections there are may close.    *)
(* If it never was a process stop() throws, and nothing is launched.       *)
RestartStopped(c) ==
  /\ restart[c].pc = "stopping"
  /\ stopped[restart[c].of] # "pending"
  /\ restart' = IF stopped[restart[c].of] = "rejected"
                  THEN [restart EXCEPT ![c].pc = "rejected"]
                  ELSE [restart EXCEPT ![c].pc = "closing", ![c].conns = Open]
  /\ UNCHANGED <<run, program, stage, attempt, processVars, asked, stopped, delayed, conn,
                 terminate>>

(* Mutant: connections that do not close in time are kept.                 *)
RestartLeavesConnections(c) ==
  /\ restart[c].pc = "closing"
  /\ restart' = [restart EXCEPT ![c].pc = IF run THEN "done" ELSE "rejected"]
  /\ stage' = IF run THEN [stage EXCEPT ![NextProgram] = "preparing"] ELSE stage
  /\ UNCHANGED <<run, program, attempt, processVars, asked, stopped, delayed, conn, terminate>>

(* They have closed or are closed now.  launchProgram, with a new policy;  *)
(* if the run is over by now its parameters are gone and this throws.      *)
RestartLaunches(c) ==
  /\ restart[c].pc = "closing"
  /\ \/ restart[c].conns \intersect Open = {} /\ UNCHANGED conn
     \/ restart[c].conns \intersect Open # {} /\ CloseAllConnections
  /\ restart' = [restart EXCEPT ![c].pc = IF run THEN "done" ELSE "rejected"]
  /\ stage' = IF run THEN [stage EXCEPT ![NextProgram] = "preparing"] ELSE stage
  /\ UNCHANGED <<run, program, attempt, processVars, asked, stopped, delayed, terminate>>

(* Mutant: the run is over, the program is not stopped.                    *)
TerminateTheRunOnly ==
  /\ terminate.pc = "idle"
  /\ terminate' = [pc |-> "done", of |-> NoProgram, early |-> Launching # {}]
  /\ OnProgramTerminated
  /\ UNCHANGED <<stage, attempt, processVars, asked, stopped, delayed, restart>>

(* terminate(): stop the program; its handler ends the run.                *)
Terminate ==
  /\ terminate.pc = "idle"
  /\ IF program = NoProgram
       THEN /\ terminate' = [pc |-> "done", of |-> NoProgram, early |-> Launching # {}]
            /\ OnProgramTerminated
            /\ UNCHANGED <<asked, stopped, delayed>>
       ELSE /\ terminate' = [pc |-> "stopping", of |-> program, early |-> Launching # {}]
            /\ StopAside(program)
            /\ IF Pretends(program)
                 THEN WhenStopped(program, "killed")
                 ELSE UNCHANGED <<run, program, conn, delayed>>
  /\ UNCHANGED <<stage, attempt, processVars, restart>>

Terminated ==
  /\ terminate.pc = "stopping"
  /\ stopped[terminate.of] # "pending"
  /\ terminate' = [terminate EXCEPT !.pc =
                      IF stopped[terminate.of] = "rejected" THEN "rejected" ELSE "done"]
  /\ UNCHANGED <<run, program, stage, attempt, processVars, asked, stopped, delayed, conn, restart>>

-----------------------------------------------------------------------------
(* Connections to the server.                                              *)

Connect(p) ==
  /\ run
  /\ life[p] = "alive"
  /\ conn[p] = "none"
  /\ conn' = [conn EXCEPT ![p] = "greeting"]
  /\ UNCHANGED <<run, program, stage, attempt, processVars, asked, stopped, delayed,
                 restart, terminate>>

(* acquireTarget has its targetCreated.                                    *)
Greeted(p) ==
  /\ conn[p] = "greeting"
  /\ conn' = [conn EXCEPT ![p] = IF run THEN "listed" ELSE "closed"]
  /\ UNCHANGED <<run, program, stage, attempt, processVars, asked, stopped, delayed,
                 restart, terminate>>

Drop(p) ==
  /\ p \in Open
  /\ conn' = [conn EXCEPT ![p] = "closed"]
  /\ UNCHANGED <<run, program, stage, attempt, processVars, asked, stopped, delayed,
                 restart, terminate>>

-----------------------------------------------------------------------------
ContinueLaunch(p) ==
  \/ DoLaunch(p)
  \/ Spawn(p)
  \/ Assign(p)
  \/ Relaunch(p)

ContinueRestart(c) == RestartStopped(c) \/ RestartLaunches(c)

Process(p) ==
  Exit(p) \/ SpawnError(p) \/ Poll(p) \/ Telemetry(p) \/ Connect(p) \/ Greeted(p) \/ Drop(p)

Next ==
  \/ \E p \in Programs : ContinueLaunch(p) \/ LaunchFails(p) \/ Process(p)
  \/ \E c \in Calls : Restart(c) \/ ContinueRestart(c)
  \/ Terminate
  \/ Terminated

Spec == Init /\ [][Next]_vars

(* A process that was killed exits; that is seen, as is a process that     *)
(* could not be created; and settled promises and timers run.  No run goes *)
(* on forever, so that fairness of the one step that is due, whichever it  *)
(* is, lets each of them happen.                                           *)
Killed(p) == asked[p] /\ pid[p] # "none"

Stops(p) ==
  \/ Killed(p) /\ Exit(p)
  \/ SpawnError(p)
  \/ Poll(p)

Due ==
  \/ \E p \in Programs : ContinueLaunch(p) \/ Stops(p)
  \/ \E c \in Calls : ContinueRestart(c)
  \/ Terminated

FairSpec == Spec /\ WF_vars(Due)
=============================================================================
