----------------------------- MODULE SessionTree -----------------------------
(***************************************************************************)
(* The Binder (src/binder.ts): the tree of debug sessions of one run.      *)
(*                                                                         *)
(* Launchers tell the binder which targets there are.  For each new one it *)
(* attaches, asks the editor for a session (acquireDap), and, when the     *)
(* editor has configured it, lets the target run.  A target that leaves    *)
(* the list is marked as terminated; a session the editor disconnects is   *)
(* detached or stopped.  Each of these is an asynchronous function, here   *)
(* one action per stretch between two awaits.                              *)
(*                                                                         *)
(* External: the launchers and targets, which come and go at any time, and *)
(* the editor, which disconnects a session when it likes and when it was   *)
(* told that the session terminated.                                       *)
(*                                                                         *)
(* History: a target is late if the disconnect request of the root already *)
(* awaits its children, or was answered; no guard reads that.              *)
(*                                                                         *)
(* Not modelled here: the options of a launch, restart, the metadata of a  *)
(* stop, and a launcher whose terminate() is rejected.                     *)
(***************************************************************************)
EXTENDS Naturals, FiniteSets

CONSTANTS
  Targets,     \* what can be debugged: processes, workers, pages
  Root,        \* the session the user started
  Parent,      \* the parent of each target
  Stoppable,   \* targets with canStop()
  AttachFails  \* target.attach() may come back empty-handed

Nodes == Targets \union {Root}

ASSUME SessionTreeAssumption ==
  /\ Root \notin Targets
  /\ Parent \in [Targets -> Nodes]
  /\ Stoppable \subseteq Targets
  /\ AttachFails \in BOOLEAN

(* TargetState *)
Running == 0
Terminating == 1
Terminated == 2
Disconnected == 3

VARIABLES
  targetList,  \* the targets of the launchers
  leaving,     \* targets asked to stop or let go
  launcher,    \* the launchers are running, stopping, closed to targets, or over
  known,       \* the targets in TreeNode.targetNodes
  tree,        \* those in the set of children of their parent
  state,       \* TreeNode.state
  attach,      \* how far attach() has come
  mark,        \* _markTargetAsTerminated of each node
  terminate,   \* _terminateRoot, by the session whose request called it
  disconnect,  \* the disconnect request of each session
  told,        \* sessions that were sent the terminated event
  late         \* targets listed when the disconnect request of the root had looked

bindVars == <<known, attach>>
vars == <<targetList, leaving, launcher, known, tree, state, attach, mark,
          terminate, disconnect, told, late>>

(* An asynchronous function: where it is, and the children it awaits.      *)
At(pc, wait) == [pc |-> pc, wait |-> wait]

TypeOK ==
  /\ targetList \subseteq known
  /\ leaving \subseteq known
  /\ launcher \in {"running", "stopping", "closed", "over"}
  /\ known \subseteq Targets
  /\ tree \subseteq known
  /\ state \in [Nodes -> {Running, Terminating, Terminated, Disconnected}]
  /\ attach \in [Targets -> {"none", "attaching", "failed", "acquiring", "bound", "started"}]
  /\ mark \in [Nodes -> [pc : {"idle", "thread", "children", "done"}, wait : SUBSET Targets]]
  /\ terminate \in [Nodes -> [pc : {"idle", "launchers", "children", "done"}, wait : SUBSET Targets]]
  /\ disconnect \in [Nodes -> [pc : {"idle", "terminate", "terminated", "children", "done"},
                               wait : SUBSET Targets]]
  /\ told \subseteq Nodes
  /\ late \subseteq known

Init ==
  /\ targetList = {}
  /\ leaving = {}
  /\ launcher = "running"
  /\ known = {}
  /\ tree = {}
  /\ state = [n \in Nodes |-> Running]
  /\ attach = [t \in Targets |-> "none"]
  /\ mark = [n \in Nodes |-> At("idle", {})]
  /\ terminate = [n \in Nodes |-> At("idle", {})]
  /\ disconnect = [n \in Nodes |-> At("idle", {})]
  /\ told = {}
  /\ late = {}

-----------------------------------------------------------------------------
(* The tree.                                                               *)

Children(n) == {t \in tree : Parent[t] = n}

(* What TreeNode.all() of the root finds: the nodes whose ancestors are    *)
(* all in the tree.                                                        *)
All ==
  LET in[i \in 0 .. Cardinality(Targets)] ==
        IF i = 0 THEN {Root}
        ELSE in[i - 1] \union {t \in tree : Parent[t] \in in[i - 1]}
  IN {t \in tree : Parent[t] \in in[Cardinality(Targets)]}

(* The setter of TreeNode.state never goes back.                           *)
AtLeast(n, s) == [state EXCEPT ![n] = IF s > @ THEN s ELSE @]

(* waitUntilChildrenAre awaits the children there are when it is called.   *)
AwaitChildren(n, pc) == At(pc, Children(n))

ChildrenAre(wait, s) == \A t \in wait : state[t] >= s

-----------------------------------------------------------------------------
(* Targets come.                                                           *)

(* Mutant: the node is not registered in TreeNode.targetNodes.             *)
AppearUnregistered(t) ==
  /\ t \notin known
  /\ launcher \in {"running", "stopping"}
  /\ Parent[t] \in targetList \union {Root}
  /\ targetList' = targetList \union {t}
  /\ tree' = tree \union {t}
  /\ attach' = [attach EXCEPT ![t] = "attaching"]
  /\ UNCHANGED <<leaving, launcher, known, state, mark, terminate, disconnect, told, late>>

(* A launcher lists a target, maybe while it stops; _attachToNewTargets    *)
(* adds its node to the tree and begins to attach.                         *)
Appear(t) ==
  /\ t \notin known
  /\ launcher \in {"running", "stopping"}
  /\ Parent[t] \in targetList \union {Root}
  /\ targetList' = targetList \union {t}
  /\ known' = known \union {t}
  /\ tree' = tree \union {t}
  /\ attach' = [attach EXCEPT ![t] = "attaching"]
  /\ late' = IF Parent[t] = Root /\ disconnect[Root].pc \in {"children", "done"}
               THEN late \union {t} ELSE late
  /\ UNCHANGED <<leaving, launcher, state, mark, terminate, disconnect, told>>

(* "timed out or cancelled, may have been a short-lived process"           *)
Attached(t) ==
  /\ attach[t] = "attaching"
  /\ \E result \in {"acquiring"} \union (IF AttachFails THEN {"failed"} ELSE {}) :
       attach' = [attach EXCEPT ![t] = result]
  /\ UNCHANGED <<targetList, leaving, launcher, known, tree, state, mark, terminate,
                 disconnect, told, late>>

(* acquireDap is answered: the adapter and its handlers exist.             *)
Bound(t) ==
  /\ attach[t] = "acquiring"
  /\ attach' = [attach EXCEPT ![t] = "bound"]
  /\ UNCHANGED <<targetList, leaving, launcher, known, tree, state, mark, terminate,
                 disconnect, told, late>>

(* startThread: the editor has configured the session, launchBlocker lets  *)
(* the target run and threadData is resolved.                              *)
StartThread(t) ==
  /\ attach[t] = "bound"
  /\ attach' = [attach EXCEPT ![t] = "started"]
  /\ UNCHANGED <<targetList, leaving, launcher, known, tree, state, mark, terminate,
                 disconnect, told, late>>

-----------------------------------------------------------------------------
(* Targets go.                                                             *)

(* Mutant: children of a terminated session are not terminated themselves. *)
MarkTopLevel(S) ==
  LET new == {n \in S : state[n] = Running /\ Parent[n] = Root} IN
  /\ state' = [n \in Nodes |-> IF n \in new THEN Terminating ELSE state[n]]
  /\ mark' = [n \in Nodes |-> IF n \in new THEN At("thread", {}) ELSE mark[n]]

(* _markTargetAsTerminated up to its first await, for a set of targets.    *)
MarkTargetsAsTerminated(S) ==
  LET new == {n \in S : state[n] = Running} IN
  /\ state' = [n \in Nodes |-> IF n \in new THEN Terminating ELSE state[n]]
  /\ mark' = [n \in Nodes |-> IF n \in new THEN At("thread", {}) ELSE mark[n]]

(* A target is no longer listed; _terminateOrphanThreads marks every node  *)
(* that is in the tree and not in the list.                                *)
Leave(t) ==
  /\ t \in targetList
  /\ targetList' = targetList \ {t}
  /\ MarkTargetsAsTerminated(All \ targetList')
  /\ UNCHANGED <<leaving, launcher, bindVars, tree, terminate, disconnect, told, late>>

(* The thread of the target exists, is disposed, and the session is told.  *)
SendTerminated(t) ==
  /\ mark[t].pc = "thread"
  /\ attach[t] = "started"
  /\ told' = told \union {t}
  /\ mark' = [mark EXCEPT ![t] = AwaitChildren(t, "children")]
  /\ UNCHANGED <<targetList, leaving, launcher, bindVars, tree, state, terminate, disconnect, late>>

(* Mutant: the session has terminated although its children have not.      *)
MarkedEarly(n) ==
  /\ mark[n].pc = "children"
  /\ state' = AtLeast(n, Terminated)
  /\ mark' = [mark EXCEPT ![n] = At("done", {})]
  /\ UNCHANGED <<targetList, leaving, launcher, bindVars, tree, terminate, disconnect, told, late>>

Marked(n) ==
  /\ mark[n].pc = "children"
  /\ ChildrenAre(mark[n].wait, Terminated)
  /\ state' = AtLeast(n, Terminated)
  /\ mark' = [mark EXCEPT ![n] = At("done", {})]
  /\ UNCHANGED <<targetList, leaving, launcher, bindVars, tree, terminate, disconnect, told, late>>

(* The launchers have stopped: what is still connected will go, and        *)
(* _markTargetAsTerminated is called for the root.                         *)
LauncherTerminated ==
  /\ launcher # "over"
  /\ launcher' = "over"
  /\ leaving' = leaving \union targetList
  /\ IF state[Root] = Running
       THEN /\ state' = AtLeast(Root, Terminating)
            /\ told' = told \union {Root}
            /\ mark' = [mark EXCEPT ![Root] = AwaitChildren(Root, "children")]
       ELSE UNCHANGED <<state, told, mark>>
  /\ UNCHANGED <<targetList, bindVars, tree, terminate, disconnect, late>>

-----------------------------------------------------------------------------
(* Requests of the editor.                                                 *)

(* _terminateRoot up to its first await, called by a request of session n. *)
CallTerminateRoot(n) ==
  /\ terminate' = [terminate EXCEPT ![n] = At("launchers", {})]
  /\ state' = AtLeast(Root, Terminating)
  /\ launcher' = IF launcher = "running" THEN "stopping" ELSE launcher

(* The launchers have answered: they list nothing new, but what they have  *)
(* listed may still be connected.                                          *)
LaunchersTerminated(n) ==
  /\ terminate[n].pc = "launchers"
  /\ terminate' = [terminate EXCEPT ![n] = AwaitChildren(Root, "children")]
  /\ launcher' = IF launcher = "stopping" THEN "closed" ELSE launcher
  /\ leaving' = leaving \union targetList
  /\ UNCHANGED <<targetList, bindVars, tree, state, mark, disconnect, told, late>>

RootTerminated(n) ==
  /\ terminate[n].pc = "children"
  /\ ChildrenAre(terminate[n].wait, Terminated)
  /\ terminate' = [terminate EXCEPT ![n] = At("done", {})]
  /\ state' = AtLeast(Root, Terminated)
  /\ UNCHANGED <<targetList, leaving, launcher, bindVars, tree, mark, disconnect, told, late>>

HasSession(t) == attach[t] \in {"bound", "started"}

(* The terminate request of a session.  A session makes it at most once.   *)
TerminateTarget(t) ==
  /\ HasSession(t)
  /\ state[t] < Disconnected
  /\ \/ /\ t \in Stoppable
        /\ leaving' = leaving \union {t}
        /\ UNCHANGED <<launcher, state, terminate>>
     \/ /\ t \notin Stoppable
        /\ terminate[t].pc = "idle"
        /\ CallTerminateRoot(t)
        /\ UNCHANGED leaving
  /\ UNCHANGED <<targetList, bindVars, tree, mark, disconnect, told, late>>

(* _disconnectTarget: a target is let go, or stopped if the editor wants   *)
(* that and it can; otherwise everything is stopped.                       *)
DisconnectTarget(t) ==
  /\ HasSession(t)
  /\ disconnect[t].pc = "idle"
  /\ disconnect' = [disconnect EXCEPT ![t] = At("terminated", {})]
  /\ \/ /\ state[t] < Terminating
        /\ leaving' = leaving \union {t}
        /\ UNCHANGED <<launcher, state, terminate>>
     \/ /\ state[t] < Terminating
        /\ t \notin Stoppable
        /\ terminate[t].pc = "idle"
        /\ CallTerminateRoot(t)
        /\ UNCHANGED leaving
     \/ /\ state[t] >= Terminating
        /\ UNCHANGED <<leaving, launcher, state, terminate>>
  /\ UNCHANGED <<targetList, bindVars, tree, mark, told, late>>

TargetIsTerminated(t) ==
  /\ disconnect[t].pc = "terminated"
  /\ state[t] >= Terminated
  /\ disconnect' = [disconnect EXCEPT ![t] = AwaitChildren(t, "children")]
  /\ UNCHANGED <<targetList, leaving, launcher, bindVars, tree, state, mark, terminate, told, late>>

(* Mutant: the node leaves the tree and nobody is told.                    *)
DisconnectedSilently(t) ==
  /\ disconnect[t].pc = "children"
  /\ ChildrenAre(disconnect[t].wait, Disconnected)
  /\ disconnect' = [disconnect EXCEPT ![t] = At("done", {})]
  /\ tree' = tree \ {t}
  /\ UNCHANGED <<targetList, leaving, launcher, bindVars, state, mark, terminate, told, late>>

TargetDisconnected(t) ==
  /\ disconnect[t].pc = "children"
  /\ ChildrenAre(disconnect[t].wait, Disconnected)
  /\ disconnect' = [disconnect EXCEPT ![t] = At("done", {})]
  /\ state' = AtLeast(t, Disconnected)
  /\ tree' = tree \ {t}
  /\ UNCHANGED <<targetList, leaving, launcher, bindVars, mark, terminate, told, late>>

(* _disconnectRoot.                                                        *)
DisconnectRoot ==
  /\ disconnect[Root].pc = "idle"
  /\ IF state[Root] < Terminating
       THEN /\ disconnect' = [disconnect EXCEPT ![Root] = At("terminate", {})]
            /\ CallTerminateRoot(Root)
       ELSE /\ disconnect' = [disconnect EXCEPT ![Root] = AwaitChildren(Root, "children")]
            /\ UNCHANGED <<launcher, state, terminate>>
  /\ UNCHANGED <<targetList, leaving, bindVars, tree, mark, told, late>>

(* The terminate request of the root.  It makes it at most once.           *)
TerminateRoot ==
  /\ terminate[Root].pc = "idle"
  /\ CallTerminateRoot(Root)
  /\ UNCHANGED <<targetList, leaving, bindVars, tree, mark, disconnect, told, late>>

RootIsTerminated ==
  /\ disconnect[Root].pc = "terminate"
  /\ terminate[Root].pc = "done"
  /\ disconnect' = [disconnect EXCEPT ![Root] = AwaitChildren(Root, "children")]
  /\ UNCHANGED <<targetList, leaving, launcher, bindVars, tree, state, mark, terminate, told, late>>

RootDisconnected ==
  /\ disconnect[Root].pc = "children"
  /\ ChildrenAre(disconnect[Root].wait, Disconnected)
  /\ disconnect' = [disconnect EXCEPT ![Root] = At("done", {})]
  /\ state' = AtLeast(Root, Disconnected)
  /\ UNCHANGED <<targetList, leaving, launcher, bindVars, tree, mark, terminate, told, late>>

(* dispose(), when the editor has ended the root session: launchers are    *)
(* not listened to any more.                                               *)
Dispose ==
  /\ disconnect[Root].pc = "done"
  /\ MarkTargetsAsTerminated(All)
  /\ launcher' = IF launcher = "stopping" THEN "closed" ELSE launcher
  /\ UNCHANGED <<targetList, leaving, bindVars, tree, terminate, disconnect, told, late>>

-----------------------------------------------------------------------------
Continue(n) ==
  \/ Marked(n)
  \/ LaunchersTerminated(n)
  \/ RootTerminated(n)

ContinueTarget(t) ==
  \/ Attached(t)
  \/ Bound(t)
  \/ StartThread(t)
  \/ SendTerminated(t)
  \/ TargetIsTerminated(t)
  \/ TargetDisconnected(t)

ContinueRoot == RootIsTerminated \/ RootDisconnected

Next ==
  \/ \E n \in Nodes : Continue(n)
  \/ \E t \in Targets : ContinueTarget(t)
  \/ ContinueRoot
  \/ \E t \in Targets : Appear(t) \/ Leave(t) \/ TerminateTarget(t) \/ DisconnectTarget(t)
  \/ LauncherTerminated
  \/ TerminateRoot
  \/ DisconnectRoot
  \/ Dispose

Spec == Init /\ [][Next]_vars

(* Continuations of settled promises run; a target that was told to leave  *)
(* does, launchers told to stop do, the editor answers and configures the  *)
(* sessions it starts and disconnects those it is told have terminated.    *)
Fairness ==
  /\ \A n \in Nodes : WF_vars(Continue(n))
  /\ \A t \in Targets :
       /\ WF_vars(ContinueTarget(t))
       /\ WF_vars(t \in leaving /\ Leave(t))
       /\ WF_vars(t \in told /\ DisconnectTarget(t))
  /\ WF_vars(ContinueRoot)
  /\ WF_vars(launcher # "running" /\ LauncherTerminated)
  /\ WF_vars(Root \in told /\ DisconnectRoot)

FairSpec == Spec /\ Fairness
=============================================================================
