-------------------------- MODULE SessionTreeProofs --------------------------
(***************************************************************************)
(* Proofs, for any tree of targets, of the safety properties of            *)
(* SessionTreeProps.  Launchers list targets until they have stopped; what *)
(* is late for the root is what InOrder does not promise about.            *)
(***************************************************************************)
EXTENDS SessionTreeProps, TLAPS

-----------------------------------------------------------------------------
(* The inductive invariant.                                                *)

(* A node is registered and running before anything happens to it.         *)
UnknownAreRunning == \A t \in Targets \ known : state[t] = Running

(* An adapter is only bound to a target that is registered.                *)
AttachedAreKnown == \A t \in Targets : attach[t] # "none" => t \in known

(* Only what is disconnected leaves the tree.                              *)
GoneAreDisconnected == \A t \in known \ tree : state[t] = Disconnected

(* While targets may be listed no target that could be a parent has begun  *)
(* to end.                                                                 *)
ParentsAreRunning ==
  /\ launcher = "running" => state[Root] = Running
  /\ launcher \in {"running", "stopping"} => \A t \in targetList : state[t] = Running

(* The root is only marked when the launchers are over, and has terminated *)
(* only when nothing can be listed any more, or was disconnected first.    *)
RootInOrder ==
  /\ mark[Root].pc # "idle" => launcher = "over"
  /\ state[Root] \in {Terminated, Disconnected} =>
       launcher \in {"closed", "over"} \/ disconnect[Root].pc = "done"

(* What a function that has begun knows of its session.                    *)
BegunInOrder ==
  /\ \A n \in Nodes : mark[n].pc # "idle" => state[n] # Running
  /\ \A n \in Nodes : terminate[n].pc # "idle" => state[Root] # Running
  /\ disconnect[Root].pc # "idle" => state[Root] # Running
  /\ \A t \in Targets : disconnect[t].pc = "children" => state[t] \in {Terminated, Disconnected}

(* A function that awaits the children of a node misses none of them, but  *)
(* that the root may disconnect before those that are late.                *)
Awaits(n, wait) == \A t \in known : Parent[t] = n => t \in wait \/ state[t] = Disconnected

AwaitsInTime(n, wait) ==
  \A t \in known \ late : Parent[t] = n => t \in wait \/ state[t] = Disconnected

ChildrenAreAwaited ==
  /\ \A n \in Nodes : mark[n].pc = "children" => Awaits(n, mark[n].wait)
  /\ \A n \in Nodes : terminate[n].pc = "children" =>
       Awaits(Root, terminate[n].wait) /\ launcher \in {"closed", "over"}
  /\ \A t \in Targets : disconnect[t].pc = "children" => Awaits(t, disconnect[t].wait)
  /\ disconnect[Root].pc = "children" => AwaitsInTime(Root, disconnect[Root].wait)

Inv ==
  /\ TypeOK
  /\ AttachedAreKnown
  /\ UnknownAreRunning
  /\ GoneAreDisconnected
  /\ ParentsAreRunning
  /\ RootInOrder
  /\ BegunInOrder
  /\ ChildrenAreAwaited

-----------------------------------------------------------------------------
(* The types.                                                              *)

(* The nodes that have not left are in the tree.                           *)
LEMMA AllAreInTheTree == All \subseteq tree
  BY DEF All

(* The invariant holds when the first launch begins.                       *)
LEMMA InitInv ==
  ASSUME Init
  PROVE  Inv
<1> USE SessionTreeAssumption DEF Init, At, Running, Nodes
<1>1. TypeOK
  <2>1. /\ targetList \subseteq known /\ leaving \subseteq known /\ known \subseteq Targets
        /\ tree \subseteq known /\ told \subseteq Nodes /\ late \subseteq known
        /\ launcher \in {"running", "stopping", "closed", "over"}
        /\ state \in [Nodes -> {Running, Terminating, Terminated, Disconnected}]
        /\ attach \in [Targets ->
                        {"none", "attaching", "failed", "acquiring", "bound", "started"}]
    OBVIOUS
  <2>2. mark \in [Nodes -> [pc : {"idle", "thread", "children", "done"}, wait : SUBSET Targets]]
    OBVIOUS
  <2>3. terminate \in [Nodes -> [pc : {"idle", "launchers", "children", "done"},
                                 wait : SUBSET Targets]]
    OBVIOUS
  <2>4. disconnect \in [Nodes -> [pc : {"idle", "terminate", "terminated", "children", "done"},
                                  wait : SUBSET Targets]]
    OBVIOUS
  <2> QED BY <2>1, <2>2, <2>3, <2>4 DEF TypeOK
<1>2. AttachedAreKnown /\ UnknownAreRunning /\ GoneAreDisconnected /\ ParentsAreRunning
  BY DEF AttachedAreKnown, UnknownAreRunning, GoneAreDisconnected, ParentsAreRunning
<1>3. BegunInOrder /\ RootInOrder /\ ChildrenAreAwaited
  BY DEF BegunInOrder, RootInOrder, ChildrenAreAwaited, Terminated, Disconnected
<1> QED BY <1>1, <1>2, <1>3 DEF Inv

(* To terminate the root marks it, once, and changes nothing else it knows of.*)
LEMMA CallTerminateRootFacts ==
  ASSUME TypeOK, NEW n \in Nodes, CallTerminateRoot(n)
  PROVE  /\ state'[Root] # Running
         /\ state[Root] # Running => state'[Root] = state[Root]
         /\ \A t \in Targets : state'[t] = state[t]
         /\ terminate'[n].pc = "launchers"
         /\ \A m \in Nodes \ {n} : terminate'[m] = terminate[m]
         /\ launcher' # "running"
         /\ launcher # "running" => launcher' = launcher
         /\ terminate' \in [Nodes -> [pc : {"idle", "launchers", "children", "done"},
                                     wait : SUBSET Targets]]
         /\ state' \in [Nodes -> {Running, Terminating, Terminated, Disconnected}]
         /\ launcher' \in {"running", "stopping", "closed", "over"}
  BY SessionTreeAssumption
     DEF CallTerminateRoot, TypeOK, AtLeast, At, Nodes,
         Running, Terminating, Terminated, Disconnected

(* Every step keeps the types.                                             *)
LEMMA TypeNext ==
  ASSUME TypeOK, AttachedAreKnown, [Next]_vars
  PROVE  TypeOK' /\ AttachedAreKnown'
<1>1. ASSUME NEW n \in Nodes, Marked(n) PROVE TypeOK' /\ AttachedAreKnown'
  BY <1>1 DEF TypeOK, AttachedAreKnown, bindVars, Marked, AtLeast, At
<1>2. ASSUME NEW n \in Nodes, LaunchersTerminated(n) PROVE TypeOK' /\ AttachedAreKnown'
  BY <1>2 DEF TypeOK, AttachedAreKnown, bindVars, LaunchersTerminated, AwaitChildren, Children, At
<1>3. ASSUME NEW n \in Nodes, RootTerminated(n) PROVE TypeOK' /\ AttachedAreKnown'
  BY <1>3 DEF TypeOK, AttachedAreKnown, bindVars, RootTerminated, AtLeast, At
<1>4. ASSUME NEW t \in Targets, Attached(t) PROVE TypeOK' /\ AttachedAreKnown'
  BY <1>4 DEF TypeOK, AttachedAreKnown, Attached
<1>5. ASSUME NEW t \in Targets, Bound(t) PROVE TypeOK' /\ AttachedAreKnown'
  BY <1>5 DEF TypeOK, AttachedAreKnown, Bound
<1>6. ASSUME NEW t \in Targets, StartThread(t) PROVE TypeOK' /\ AttachedAreKnown'
  BY <1>6 DEF TypeOK, AttachedAreKnown, StartThread
<1>7. ASSUME NEW t \in Targets, SendTerminated(t) PROVE TypeOK' /\ AttachedAreKnown'
  BY <1>7
  DEF TypeOK, AttachedAreKnown, Nodes, bindVars, SendTerminated, AwaitChildren, Children, At
<1>8. ASSUME NEW t \in Targets, TargetIsTerminated(t) PROVE TypeOK' /\ AttachedAreKnown'
  BY <1>8 DEF TypeOK, AttachedAreKnown, bindVars, TargetIsTerminated, AwaitChildren, Children, At
<1>9. ASSUME NEW t \in Targets, TargetDisconnected(t) PROVE TypeOK' /\ AttachedAreKnown'
  BY <1>9 DEF TypeOK, AttachedAreKnown, bindVars, TargetDisconnected, AtLeast, At
<1>10. ASSUME RootIsTerminated PROVE TypeOK' /\ AttachedAreKnown'
  BY <1>10 DEF TypeOK, AttachedAreKnown, bindVars, RootIsTerminated, AwaitChildren, Children, At
<1>11. ASSUME RootDisconnected PROVE TypeOK' /\ AttachedAreKnown'
  BY <1>11 DEF TypeOK, AttachedAreKnown, bindVars, RootDisconnected, AtLeast, At
<1>12. ASSUME NEW t \in Targets, Appear(t) PROVE TypeOK' /\ AttachedAreKnown'
  BY <1>12 DEF TypeOK, AttachedAreKnown, Appear
<1>13. ASSUME NEW t \in Targets, Leave(t) PROVE TypeOK' /\ AttachedAreKnown'
  BY <1>13 DEF TypeOK, AttachedAreKnown, bindVars, Leave, MarkTargetsAsTerminated, At
<1>14. ASSUME NEW t \in Targets, TerminateTarget(t) PROVE TypeOK' /\ AttachedAreKnown'
  <2>1. /\ leaving' \in {leaving, leaving \union {t}}
        /\ UNCHANGED <<targetList, bindVars, tree, mark, told, late>>
        /\ UNCHANGED <<launcher, state, terminate>> \/ CallTerminateRoot(t)
    BY <1>14 DEF TerminateTarget
  <2> QED BY <1>14, CallTerminateRootFacts
          DEF TypeOK, AttachedAreKnown, Nodes, bindVars, TerminateTarget, HasSession
<1>15. ASSUME NEW t \in Targets, DisconnectTarget(t) PROVE TypeOK' /\ AttachedAreKnown'
  <2>1. /\ leaving' \in {leaving, leaving \union {t}}
        /\ UNCHANGED <<targetList, bindVars, tree, mark, told, late>>
        /\ UNCHANGED <<launcher, state, terminate>> \/ CallTerminateRoot(t)
        /\ HasSession(t)
    BY <1>15 DEF DisconnectTarget
  <2>2. disconnect' \in [Nodes -> [pc : {"idle", "terminate", "terminated", "children", "done"},
                                   wait : SUBSET Targets]]
    BY <1>15 DEF TypeOK, DisconnectTarget, At
  <2> QED BY <2>1, <2>2, CallTerminateRootFacts
          DEF TypeOK, AttachedAreKnown, Nodes, bindVars, HasSession
<1>16. ASSUME LauncherTerminated PROVE TypeOK' /\ AttachedAreKnown'
  BY <1>16
  DEF TypeOK, AttachedAreKnown, Nodes, bindVars, LauncherTerminated, AtLeast, AwaitChildren,
      Children, At
<1>17. ASSUME DisconnectRoot PROVE TypeOK' /\ AttachedAreKnown'
  BY <1>17
  DEF TypeOK, AttachedAreKnown, Nodes, bindVars, DisconnectRoot, CallTerminateRoot, AtLeast,
      AwaitChildren, Children, At
<1>18. ASSUME Dispose PROVE TypeOK' /\ AttachedAreKnown'
  BY <1>18 DEF TypeOK, AttachedAreKnown, bindVars, Dispose, MarkTargetsAsTerminated, At
<1>19. CASE UNCHANGED vars
  BY <1>19 DEF vars, TypeOK, AttachedAreKnown
<1>20. ASSUME TerminateRoot PROVE TypeOK' /\ AttachedAreKnown'
  <2>1. Root \in Nodes /\ CallTerminateRoot(Root)
        /\ UNCHANGED <<targetList, leaving, bindVars, tree, mark, disconnect, told, late>>
    BY <1>20 DEF TerminateRoot, Nodes
  <2> QED BY <2>1, CallTerminateRootFacts DEF TypeOK, AttachedAreKnown, Nodes, bindVars
<1> QED
  BY <1>1, <1>2, <1>3, <1>4, <1>5, <1>6, <1>7, <1>8, <1>9, <1>10, <1>11, <1>12, <1>13, <1>14,
     <1>15, <1>16, <1>17, <1>18, <1>19, <1>20 DEF Next, Continue, ContinueTarget, ContinueRoot

-----------------------------------------------------------------------------
(* The steps.                                                              *)

(* What is awaited is so until the function that awaits goes on.           *)
LEMMA AwaitedStay ==
  ASSUME ChildrenAreAwaited, known' = known, late' = late,
         \A t \in known : state[t] = Disconnected => state'[t] = Disconnected
  PROVE  /\ \A n \in Nodes : mark'[n] = mark[n] =>
              (mark'[n].pc = "children" => Awaits(n, mark[n].wait)')
         /\ \A n \in Nodes : terminate'[n] = terminate[n] =>
              (terminate'[n].pc = "children" =>
                 Awaits(Root, terminate[n].wait)' /\ launcher \in {"closed", "over"})
         /\ \A t \in Targets : disconnect'[t] = disconnect[t] =>
              (disconnect'[t].pc = "children" => Awaits(t, disconnect[t].wait)')
         /\ disconnect'[Root] = disconnect[Root] =>
              (disconnect'[Root].pc = "children" => AwaitsInTime(Root, disconnect[Root].wait)')
  BY DEF ChildrenAreAwaited, Awaits, AwaitsInTime

(* A session that begins to terminate awaits the children it has.          *)
LEMMA MarkedInv ==
  ASSUME Inv, TypeOK', AttachedAreKnown', NEW n \in Nodes, Marked(n)
  PROVE  Inv'
<1> USE SessionTreeAssumption DEF Running, Terminating, Terminated, Disconnected
<1>1. UnknownAreRunning'
  BY DEF Inv, UnknownAreRunning, BegunInOrder, bindVars, Marked, AtLeast
<1>2. GoneAreDisconnected'
  BY DEF Inv, GoneAreDisconnected, bindVars, Marked, AtLeast
<1>3. ParentsAreRunning'
  BY DEF Inv, ParentsAreRunning, BegunInOrder, Marked, AtLeast
<1>4. BegunInOrder'
  BY DEF Inv, BegunInOrder, Marked, AtLeast
<1>5. ChildrenAreAwaited'
  BY DEF Inv, ChildrenAreAwaited, Awaits, AwaitsInTime, bindVars, Marked, AtLeast, At
<1>6. RootInOrder'
  BY DEF Inv, TypeOK, RootInOrder, ChildrenAreAwaited, Marked, AtLeast, At
<1> QED BY <1>1, <1>2, <1>3, <1>4, <1>5, <1>6 DEF Inv

(* terminate() goes on when the launchers have stopped.                    *)
LEMMA LaunchersTerminatedInv ==
  ASSUME Inv, TypeOK', AttachedAreKnown', NEW n \in Nodes, LaunchersTerminated(n)
  PROVE  Inv'
<1> USE SessionTreeAssumption DEF Running, Terminating, Terminated, Disconnected
<1>1. UnknownAreRunning'
  BY DEF Inv, UnknownAreRunning, bindVars, LaunchersTerminated
<1>2. GoneAreDisconnected'
  BY DEF Inv, GoneAreDisconnected, bindVars, LaunchersTerminated
<1>3. ParentsAreRunning'
  BY DEF Inv, ParentsAreRunning, LaunchersTerminated
<1>4. BegunInOrder'
  BY DEF Inv, BegunInOrder, LaunchersTerminated
<1>5. ChildrenAreAwaited'
  BY DEF Inv, TypeOK, GoneAreDisconnected, ParentsAreRunning, BegunInOrder, ChildrenAreAwaited,
      Awaits, AwaitsInTime, bindVars, LaunchersTerminated, AwaitChildren, Children, At
<1>6. RootInOrder'
  BY DEF Inv, RootInOrder, LaunchersTerminated
<1> QED BY <1>1, <1>2, <1>3, <1>4, <1>5, <1>6 DEF Inv

(* The root has terminated after its children.                             *)
LEMMA RootTerminatedInv ==
  ASSUME Inv, TypeOK', AttachedAreKnown', NEW n \in Nodes, RootTerminated(n)
  PROVE  Inv'
<1> USE SessionTreeAssumption DEF Running, Terminating, Terminated, Disconnected
<1>1. UnknownAreRunning'
  BY DEF Inv, UnknownAreRunning, bindVars, RootTerminated, AtLeast
<1>2. GoneAreDisconnected'
  BY DEF Inv, GoneAreDisconnected, bindVars, RootTerminated, AtLeast
<1>3. ParentsAreRunning'
  BY DEF Inv, ParentsAreRunning, ChildrenAreAwaited, RootTerminated
<1>4. BegunInOrder'
  BY DEF Inv, BegunInOrder, RootTerminated, AtLeast
<1>5. ChildrenAreAwaited'
  BY DEF Inv, ChildrenAreAwaited, Awaits, AwaitsInTime, bindVars, RootTerminated, AtLeast, At
<1>6. RootInOrder'
  BY DEF Inv, TypeOK, RootInOrder, ChildrenAreAwaited, RootTerminated, AtLeast
<1> QED BY <1>1, <1>2, <1>3, <1>4, <1>5, <1>6 DEF Inv

(* Attaching to a target ends, well or badly.                              *)
LEMMA AttachedInv ==
  ASSUME Inv, TypeOK', AttachedAreKnown', NEW t \in Targets, Attached(t)
  PROVE  Inv'
<1> USE SessionTreeAssumption DEF Running, Terminating, Terminated, Disconnected
<1>1. UnknownAreRunning'
  BY DEF Inv, UnknownAreRunning, Attached
<1>2. GoneAreDisconnected'
  BY DEF Inv, GoneAreDisconnected, Attached
<1>3. ParentsAreRunning'
  BY DEF Inv, ParentsAreRunning, Attached
<1>4. BegunInOrder'
  BY DEF Inv, BegunInOrder, Attached
<1>5. ChildrenAreAwaited'
  BY DEF Inv, ChildrenAreAwaited, Awaits, AwaitsInTime, Attached
<1>6. RootInOrder'
  BY DEF Inv, RootInOrder, Attached
<1> QED BY <1>1, <1>2, <1>3, <1>4, <1>5, <1>6 DEF Inv

(* An adapter is bound to its target.                                      *)
LEMMA BoundInv ==
  ASSUME Inv, TypeOK', AttachedAreKnown', NEW t \in Targets, Bound(t)
  PROVE  Inv'
<1> USE SessionTreeAssumption DEF Running, Terminating, Terminated, Disconnected
<1>1. UnknownAreRunning'
  BY DEF Inv, UnknownAreRunning, Bound
<1>2. GoneAreDisconnected'
  BY DEF Inv, GoneAreDisconnected, Bound
<1>3. ParentsAreRunning'
  BY DEF Inv, ParentsAreRunning, Bound
<1>4. BegunInOrder'
  BY DEF Inv, BegunInOrder, Bound
<1>5. ChildrenAreAwaited'
  BY DEF Inv, ChildrenAreAwaited, Awaits, AwaitsInTime, Bound
<1>6. RootInOrder'
  BY DEF Inv, RootInOrder, Bound
<1> QED BY <1>1, <1>2, <1>3, <1>4, <1>5, <1>6 DEF Inv

(* The thread of a bound target starts.                                    *)
LEMMA StartThreadInv ==
  ASSUME Inv, TypeOK', AttachedAreKnown', NEW t \in Targets, StartThread(t)
  PROVE  Inv'
<1> USE SessionTreeAssumption DEF Running, Terminating, Terminated, Disconnected
<1>1. UnknownAreRunning'
  BY DEF Inv, UnknownAreRunning, StartThread
<1>2. GoneAreDisconnected'
  BY DEF Inv, GoneAreDisconnected, StartThread
<1>3. ParentsAreRunning'
  BY DEF Inv, ParentsAreRunning, StartThread
<1>4. BegunInOrder'
  BY DEF Inv, BegunInOrder, StartThread
<1>5. ChildrenAreAwaited'
  BY DEF Inv, ChildrenAreAwaited, Awaits, AwaitsInTime, StartThread
<1>6. RootInOrder'
  BY DEF Inv, RootInOrder, StartThread
<1> QED BY <1>1, <1>2, <1>3, <1>4, <1>5, <1>6 DEF Inv

(* A session tells that it has terminated.                                 *)
LEMMA SendTerminatedInv ==
  ASSUME Inv, TypeOK', AttachedAreKnown', NEW t \in Targets, SendTerminated(t)
  PROVE  Inv'
<1> USE SessionTreeAssumption DEF Running, Terminating, Terminated, Disconnected
<1>1. UnknownAreRunning'
  BY DEF Inv, UnknownAreRunning, bindVars, SendTerminated
<1>2. GoneAreDisconnected'
  BY DEF Inv, GoneAreDisconnected, bindVars, SendTerminated
<1>3. ParentsAreRunning'
  BY DEF Inv, ParentsAreRunning, SendTerminated
<1>4. BegunInOrder'
  BY DEF Inv, BegunInOrder, SendTerminated
<1>5. ChildrenAreAwaited'
  BY DEF Inv, GoneAreDisconnected, ChildrenAreAwaited, Awaits, AwaitsInTime, bindVars,
         SendTerminated,
      AwaitChildren, Children, At
<1>6. RootInOrder'
  BY DEF Inv, TypeOK, RootInOrder, SendTerminated
<1> QED BY <1>1, <1>2, <1>3, <1>4, <1>5, <1>6 DEF Inv

(* A session that awaited its children has terminated.                     *)
LEMMA TargetIsTerminatedInv ==
  ASSUME Inv, TypeOK', AttachedAreKnown', NEW t \in Targets, TargetIsTerminated(t)
  PROVE  Inv'
<1> USE SessionTreeAssumption DEF Running, Terminating, Terminated, Disconnected
<1>1. UnknownAreRunning'
  BY DEF Inv, UnknownAreRunning, bindVars, TargetIsTerminated
<1>2. GoneAreDisconnected'
  BY DEF Inv, GoneAreDisconnected, bindVars, TargetIsTerminated
<1>3. ParentsAreRunning'
  BY DEF Inv, ParentsAreRunning, TargetIsTerminated
<1>4. BegunInOrder'
  BY DEF Inv, TypeOK, BegunInOrder, TargetIsTerminated
<1>5. ChildrenAreAwaited'
  BY DEF Inv, GoneAreDisconnected, ChildrenAreAwaited, Awaits, AwaitsInTime, bindVars,
         TargetIsTerminated,
      AwaitChildren, Children, At
<1>6. RootInOrder'
  BY DEF Inv, TypeOK, RootInOrder, TargetIsTerminated
<1> QED BY <1>1, <1>2, <1>3, <1>4, <1>5, <1>6 DEF Inv

(* A session that awaited its children is disconnected.                    *)
LEMMA TargetDisconnectedInv ==
  ASSUME Inv, TypeOK', AttachedAreKnown', NEW t \in Targets, TargetDisconnected(t)
  PROVE  Inv'
<1> USE SessionTreeAssumption DEF Running, Terminating, Terminated, Disconnected
<1>1. UnknownAreRunning'
  BY DEF Inv, UnknownAreRunning, BegunInOrder, bindVars, TargetDisconnected, AtLeast
<1>2. GoneAreDisconnected'
  BY DEF Inv, TypeOK, GoneAreDisconnected, bindVars, TargetDisconnected, AtLeast
<1>3. ParentsAreRunning'
  BY DEF Inv, ParentsAreRunning, BegunInOrder, TargetDisconnected, AtLeast
<1>4. BegunInOrder'
  BY DEF Inv, BegunInOrder, TargetDisconnected, AtLeast
<1>5. ChildrenAreAwaited'
  BY DEF Inv, ChildrenAreAwaited, Awaits, AwaitsInTime, bindVars, TargetDisconnected, AtLeast, At
<1>6. RootInOrder'
  BY DEF Inv, TypeOK, RootInOrder, TargetDisconnected, AtLeast
<1> QED BY <1>1, <1>2, <1>3, <1>4, <1>5, <1>6 DEF Inv

(* The same of the root, that is told by its launchers.                    *)
LEMMA RootIsTerminatedInv ==
  ASSUME Inv, TypeOK', AttachedAreKnown', RootIsTerminated
  PROVE  Inv'
<1> USE SessionTreeAssumption DEF Running, Terminating, Terminated, Disconnected
<1>1. UnknownAreRunning'
  BY DEF Inv, UnknownAreRunning, bindVars, RootIsTerminated
<1>2. GoneAreDisconnected'
  BY DEF Inv, GoneAreDisconnected, bindVars, RootIsTerminated
<1>3. ParentsAreRunning'
  BY DEF Inv, ParentsAreRunning, RootIsTerminated
<1>4. BegunInOrder'
  BY DEF Inv, BegunInOrder, RootIsTerminated
<1>5. ChildrenAreAwaited'
  BY DEF Inv, GoneAreDisconnected, ChildrenAreAwaited, Awaits, AwaitsInTime, bindVars,
         RootIsTerminated,
      AwaitChildren, Children, At
<1>6. RootInOrder'
  BY DEF Inv, RootInOrder, RootIsTerminated
<1> QED BY <1>1, <1>2, <1>3, <1>4, <1>5, <1>6 DEF Inv

(* The root is disconnected after its children.                            *)
LEMMA RootDisconnectedInv ==
  ASSUME Inv, TypeOK', AttachedAreKnown', RootDisconnected
  PROVE  Inv'
<1> USE SessionTreeAssumption DEF Running, Terminating, Terminated, Disconnected
<1>1. UnknownAreRunning'
  BY DEF Inv, UnknownAreRunning, bindVars, RootDisconnected, AtLeast
<1>2. GoneAreDisconnected'
  BY DEF Inv, GoneAreDisconnected, bindVars, RootDisconnected, AtLeast
<1>3. ParentsAreRunning'
  BY DEF Inv, TypeOK, ParentsAreRunning, BegunInOrder, RootDisconnected, AtLeast
<1>4. BegunInOrder'
  BY DEF Inv, BegunInOrder, RootDisconnected, AtLeast
<1>5. ChildrenAreAwaited'
  BY DEF Inv, ChildrenAreAwaited, Awaits, AwaitsInTime, bindVars, RootDisconnected, AtLeast, At
<1>6. RootInOrder'
  BY DEF Inv, TypeOK, RootInOrder, RootDisconnected, Nodes, At
<1> QED BY <1>1, <1>2, <1>3, <1>4, <1>5, <1>6 DEF Inv

(* A target appears while its parent is running.                           *)
LEMMA AppearInv ==
  ASSUME Inv, TypeOK', AttachedAreKnown', NEW t \in Targets, Appear(t)
  PROVE  Inv'
<1> USE SessionTreeAssumption DEF Running, Terminating, Terminated, Disconnected
<1>1. UnknownAreRunning'
  BY DEF Inv, UnknownAreRunning, Appear
<1>2. GoneAreDisconnected'
  BY DEF Inv, GoneAreDisconnected, Appear
<1>3. ParentsAreRunning'
  BY DEF Inv, UnknownAreRunning, ParentsAreRunning, Appear
<1>4. BegunInOrder'
  BY DEF Inv, BegunInOrder, Appear
<1>5. ChildrenAreAwaited'
  BY
  DEF Inv, TypeOK, UnknownAreRunning, ParentsAreRunning, RootInOrder, BegunInOrder,
      ChildrenAreAwaited, Awaits, AwaitsInTime, Appear
<1>6. RootInOrder'
  BY DEF Inv, RootInOrder, Appear
<1> QED BY <1>1, <1>2, <1>3, <1>4, <1>5, <1>6 DEF Inv

(* A target that is disconnected leaves the tree.                          *)
LEMMA LeaveInv ==
  ASSUME Inv, TypeOK', AttachedAreKnown', NEW t \in Targets, Leave(t)
  PROVE  Inv'
<1> USE SessionTreeAssumption DEF Running, Terminating, Terminated, Disconnected
<1>0. TypeOK /\ Root \in Nodes /\ Targets \subseteq Nodes
  BY DEF Inv, Nodes
<1>1. UnknownAreRunning'
  BY <1>0, AllAreInTheTree
  DEF Inv, TypeOK, UnknownAreRunning, bindVars, Leave, MarkTargetsAsTerminated
<1>2. GoneAreDisconnected'
  BY <1>0 DEF Inv, TypeOK, GoneAreDisconnected, bindVars, Leave, MarkTargetsAsTerminated
<1>3. ParentsAreRunning'
  BY <1>0, AllAreInTheTree DEF Inv, TypeOK, ParentsAreRunning, Leave, MarkTargetsAsTerminated
<1>4. BegunInOrder'
  BY <1>0 DEF Inv, BegunInOrder, Leave, MarkTargetsAsTerminated
<1>5. ChildrenAreAwaited'
  BY <1>0
  DEF Inv, TypeOK, ChildrenAreAwaited, Awaits, AwaitsInTime, bindVars, Leave,
      MarkTargetsAsTerminated, At
<1>6. RootInOrder'
  BY <1>0, AllAreInTheTree DEF Inv, TypeOK, RootInOrder, Leave, MarkTargetsAsTerminated
<1> QED BY <1>1, <1>2, <1>3, <1>4, <1>5, <1>6 DEF Inv

(* A request to terminate a target.                                        *)
LEMMA TerminateTargetInv ==
  ASSUME Inv, TypeOK', AttachedAreKnown', NEW t \in Targets, TerminateTarget(t)
  PROVE  Inv'
<1> USE SessionTreeAssumption DEF Running, Terminating, Terminated, Disconnected
<1>0. TypeOK /\ Root \in Nodes /\ Targets \subseteq Nodes
  BY DEF Inv, Nodes
<1>1. UnknownAreRunning'
  BY <1>0
  DEF Inv, TypeOK, UnknownAreRunning, bindVars, TerminateTarget, CallTerminateRoot, AtLeast
<1>2. GoneAreDisconnected'
  BY <1>0
  DEF Inv, TypeOK, GoneAreDisconnected, bindVars, TerminateTarget, CallTerminateRoot, AtLeast
<1>3. ParentsAreRunning'
  <2>1. UNCHANGED targetList /\ (UNCHANGED <<launcher, state>> \/ CallTerminateRoot(t))
    BY DEF TerminateTarget
  <2> QED BY <1>0, <2>1, CallTerminateRootFacts DEF Inv, ParentsAreRunning, TypeOK
<1>4. BegunInOrder'
  <2>1. UNCHANGED <<mark, disconnect>>
    BY DEF TerminateTarget
  <2>2. CASE UNCHANGED <<launcher, state, terminate>>
    BY <1>0, <2>1, <2>2 DEF Inv, BegunInOrder
  <2>3. CASE CallTerminateRoot(t)
    BY <1>0, <2>1, <2>3, CallTerminateRootFacts DEF Inv, Nodes, BegunInOrder
  <2> QED BY <2>2, <2>3 DEF TerminateTarget
<1>5. ChildrenAreAwaited'
  <2>1. UNCHANGED <<known, late, mark, disconnect>>
    BY DEF TerminateTarget, bindVars
  <2>2. CASE UNCHANGED <<launcher, state, terminate>>
    BY <1>0, <2>1, <2>2 DEF Inv, ChildrenAreAwaited, Awaits, AwaitsInTime
  <2>3. CASE CallTerminateRoot(t)
    <3>1. \A x \in known : state[x] = Disconnected => state'[x] = Disconnected
      BY <1>0, <2>3, CallTerminateRootFacts DEF TypeOK
    <3> QED BY <1>0, <2>1, <2>3, <3>1, CallTerminateRootFacts, AwaitedStay
            DEF Inv, ChildrenAreAwaited
  <2> QED BY <2>2, <2>3 DEF TerminateTarget
<1>6. RootInOrder'
  BY <1>0 DEF Inv, TypeOK, RootInOrder, TerminateTarget, CallTerminateRoot, AtLeast
<1> QED BY <1>1, <1>2, <1>3, <1>4, <1>5, <1>6 DEF Inv

(* A request to disconnect from a target.                                  *)
LEMMA DisconnectTargetInv ==
  ASSUME Inv, TypeOK', AttachedAreKnown', NEW t \in Targets, DisconnectTarget(t)
  PROVE  Inv'
<1> USE SessionTreeAssumption DEF Running, Terminating, Terminated, Disconnected
<1>0. TypeOK /\ Root \in Nodes /\ Targets \subseteq Nodes
  BY DEF Inv, Nodes
<1>1. UnknownAreRunning'
  BY <1>0
  DEF Inv, TypeOK, UnknownAreRunning, bindVars, DisconnectTarget, CallTerminateRoot, AtLeast
<1>2. GoneAreDisconnected'
  BY <1>0
  DEF Inv, TypeOK, GoneAreDisconnected, bindVars, DisconnectTarget, CallTerminateRoot, AtLeast
<1>3. ParentsAreRunning'
  <2>1. UNCHANGED targetList /\ (UNCHANGED <<launcher, state>> \/ CallTerminateRoot(t))
    BY DEF DisconnectTarget
  <2> QED BY <1>0, <2>1, CallTerminateRootFacts DEF Inv, ParentsAreRunning, TypeOK
<1>4. BegunInOrder'
  <2>1. /\ mark' = mark /\ disconnect'[t].pc = "terminated"
        /\ \A n \in Nodes \ {t} : disconnect'[n] = disconnect[n]
    BY DEF DisconnectTarget, TypeOK, At
  <2>2. CASE UNCHANGED <<launcher, state, terminate>>
    BY <1>0, <2>1, <2>2 DEF Inv, BegunInOrder
  <2>3. CASE CallTerminateRoot(t)
    BY <2>1, <2>3, CallTerminateRootFacts DEF Inv, Nodes, BegunInOrder
  <2> QED BY <2>2, <2>3 DEF DisconnectTarget
<1>5. ChildrenAreAwaited'
  <2>1. /\ UNCHANGED <<known, late, mark>> /\ disconnect'[t].pc = "terminated"
        /\ \A n \in Nodes \ {t} : disconnect'[n] = disconnect[n]
    BY DEF DisconnectTarget, TypeOK, At, bindVars
  <2>2. CASE UNCHANGED <<launcher, state, terminate>>
    BY <1>0, <2>1, <2>2 DEF Inv, ChildrenAreAwaited, Awaits, AwaitsInTime
  <2>3. CASE CallTerminateRoot(t)
    <3>1. \A x \in known : state[x] = Disconnected => state'[x] = Disconnected
      BY <1>0, <2>3, CallTerminateRootFacts DEF TypeOK
    <3> QED BY <1>0, <2>1, <2>3, <3>1, CallTerminateRootFacts, AwaitedStay
            DEF Inv, ChildrenAreAwaited
  <2> QED BY <2>2, <2>3 DEF DisconnectTarget
<1>6. RootInOrder'
  BY <1>0 DEF Inv, TypeOK, RootInOrder, DisconnectTarget, CallTerminateRoot, AtLeast
<1> QED BY <1>1, <1>2, <1>3, <1>4, <1>5, <1>6 DEF Inv

(* The launchers stop, all at once.                                        *)
LEMMA LauncherTerminatedInv ==
  ASSUME Inv, TypeOK', AttachedAreKnown', LauncherTerminated
  PROVE  Inv'
<1> USE SessionTreeAssumption DEF Running, Terminating, Terminated, Disconnected
<1>0. TypeOK /\ Root \in Nodes /\ Targets \subseteq Nodes
  BY DEF Inv, Nodes
<1>1. UnknownAreRunning'
  BY <1>0 DEF Inv, TypeOK, UnknownAreRunning, bindVars, LauncherTerminated, AtLeast
<1>2. GoneAreDisconnected'
  BY <1>0 DEF Inv, TypeOK, GoneAreDisconnected, bindVars, LauncherTerminated, AtLeast
<1>3. ParentsAreRunning'
  BY DEF ParentsAreRunning, LauncherTerminated
<1>4. BegunInOrder'
  <2>1. UNCHANGED <<known, late, terminate, disconnect>> /\ launcher' = "over"
    BY DEF LauncherTerminated, bindVars
  <2>2. CASE state[Root] = Running
    <3>1. /\ state'[Root] = Terminating /\ \A t \in Targets : state'[t] = state[t]
          /\ mark'[Root] = AwaitChildren(Root, "children")
          /\ \A n \in Nodes \ {Root} : mark'[n] = mark[n]
      BY <1>0, <2>2 DEF LauncherTerminated, AtLeast, TypeOK
    <3> QED BY <2>1, <3>1 DEF Inv, Nodes, BegunInOrder
  <2>3. CASE UNCHANGED <<state, mark>>
    BY <2>1, <2>3 DEF Inv, BegunInOrder
  <2> QED BY <2>2, <2>3 DEF LauncherTerminated
<1>5. ChildrenAreAwaited'
  <2>1. UNCHANGED <<known, late, terminate, disconnect>> /\ launcher' = "over"
    BY DEF LauncherTerminated, bindVars
  <2>2. CASE state[Root] = Running
    <3>1. /\ state'[Root] = Terminating /\ \A t \in Targets : state'[t] = state[t]
          /\ mark'[Root] = AwaitChildren(Root, "children")
          /\ \A n \in Nodes \ {Root} : mark'[n] = mark[n]
      BY <1>0, <2>2 DEF LauncherTerminated, AtLeast, TypeOK
    <3>2. mark'[Root].wait = Children(Root)
      BY <3>1 DEF AwaitChildren, At
    <3>4. Awaits(Root, Children(Root))
      BY DEF Inv, GoneAreDisconnected, Awaits, AwaitsInTime, Children
    <3>3. \A x \in known : state'[x] = state[x]
      BY <1>0, <3>1 DEF TypeOK
    <3>5. \A n \in Nodes : mark'[n].pc = "children" => Awaits(n, mark[n].wait)'
      <4> SUFFICES ASSUME NEW n \in Nodes, mark'[n].pc = "children"
                   PROVE  Awaits(n, mark[n].wait)'
        OBVIOUS
      <4>1. CASE n = Root
        BY <2>1, <3>2, <3>3, <3>4, <4>1 DEF Awaits
      <4>2. CASE n # Root
        BY <2>1, <3>1, <3>3, <4>2, AwaitedStay DEF Inv
      <4> QED BY <4>1, <4>2
    <3> QED BY <2>1, <3>3, <3>5, AwaitedStay DEF Inv, ChildrenAreAwaited
  <2>3. CASE UNCHANGED <<state, mark>>
    BY <1>0, <2>1, <2>3 DEF Inv, ChildrenAreAwaited, Awaits, AwaitsInTime
  <2> QED BY <2>2, <2>3 DEF LauncherTerminated
<1>6. RootInOrder'
  BY DEF RootInOrder, LauncherTerminated
<1> QED BY <1>1, <1>2, <1>3, <1>4, <1>5, <1>6 DEF Inv

(* A request to disconnect from the root.                                  *)
LEMMA DisconnectRootInv ==
  ASSUME Inv, TypeOK', AttachedAreKnown', DisconnectRoot
  PROVE  Inv'
<1> USE SessionTreeAssumption DEF Running, Terminating, Terminated, Disconnected
<1>0. TypeOK /\ Root \in Nodes /\ Targets \subseteq Nodes
  BY DEF Inv, Nodes
<1>1. UnknownAreRunning'
  BY <1>0 DEF Inv, TypeOK, UnknownAreRunning, bindVars, DisconnectRoot, CallTerminateRoot, AtLeast
<1>2. GoneAreDisconnected'
  BY <1>0
  DEF Inv, TypeOK, GoneAreDisconnected, bindVars, DisconnectRoot, CallTerminateRoot, AtLeast
<1>3. ParentsAreRunning'
  <2>1. UNCHANGED targetList /\ (UNCHANGED <<launcher, state>> \/ CallTerminateRoot(Root))
    BY DEF DisconnectRoot
  <2> QED BY <1>0, <2>1, CallTerminateRootFacts DEF Inv, ParentsAreRunning, TypeOK
<1>4. BegunInOrder'
  <2>1. UNCHANGED <<known, late, mark>>
    BY DEF DisconnectRoot, bindVars
  <2>2. CASE state[Root] < Terminating
    <3>1. /\ CallTerminateRoot(Root) /\ disconnect'[Root].pc = "terminate"
          /\ \A n \in Nodes \ {Root} : disconnect'[n] = disconnect[n]
      BY <1>0, <2>2 DEF DisconnectRoot, TypeOK, At
    <3> QED BY <2>1, <3>1, CallTerminateRootFacts DEF Inv, Nodes, BegunInOrder
  <2>3. CASE ~(state[Root] < Terminating)
    <3>1. /\ UNCHANGED <<launcher, state, terminate>>
          /\ disconnect'[Root] = AwaitChildren(Root, "children")
          /\ \A n \in Nodes \ {Root} : disconnect'[n] = disconnect[n]
      BY <1>0, <2>3 DEF DisconnectRoot, TypeOK
    <3>2. state[Root] # Running
      BY <2>3
    <3> QED BY <1>0, <2>1, <3>1, <3>2 DEF Inv, BegunInOrder
  <2> QED BY <2>2, <2>3
<1>5. ChildrenAreAwaited'
  <2>1. UNCHANGED <<known, late, mark>>
    BY DEF DisconnectRoot, bindVars
  <2>2. CASE state[Root] < Terminating
    <3>1. /\ CallTerminateRoot(Root) /\ disconnect'[Root].pc = "terminate"
          /\ \A n \in Nodes \ {Root} : disconnect'[n] = disconnect[n]
      BY <1>0, <2>2 DEF DisconnectRoot, TypeOK, At
    <3>2. \A x \in known : state[x] = Disconnected => state'[x] = Disconnected
      BY <1>0, <3>1, CallTerminateRootFacts DEF TypeOK
    <3> QED BY <1>0, <2>1, <3>1, <3>2, CallTerminateRootFacts, AwaitedStay
            DEF Inv, ChildrenAreAwaited
  <2>3. CASE ~(state[Root] < Terminating)
    <3>1. /\ UNCHANGED <<launcher, state, terminate>>
          /\ disconnect'[Root] = AwaitChildren(Root, "children")
          /\ \A n \in Nodes \ {Root} : disconnect'[n] = disconnect[n]
      BY <1>0, <2>3 DEF DisconnectRoot, TypeOK
    <3>2. state[Root] # Running
      BY <2>3
    <3> QED BY <1>0, <2>1, <3>1
            DEF Inv, GoneAreDisconnected, ChildrenAreAwaited, Awaits, AwaitsInTime,
                AwaitChildren, Children, At
  <2> QED BY <2>2, <2>3
<1>6. RootInOrder'
  BY <1>0 DEF Inv, TypeOK, RootInOrder, BegunInOrder, DisconnectRoot, CallTerminateRoot, AtLeast
<1> QED BY <1>1, <1>2, <1>3, <1>4, <1>5, <1>6 DEF Inv

(* The root is asked to terminate.                                         *)
LEMMA TerminateRootInv ==
  ASSUME Inv, TypeOK', AttachedAreKnown', TerminateRoot
  PROVE  Inv'
<1> USE SessionTreeAssumption DEF Running, Terminating, Terminated, Disconnected
<1>0. /\ TypeOK /\ Root \in Nodes /\ Targets \subseteq Nodes /\ CallTerminateRoot(Root)
      /\ UNCHANGED <<targetList, leaving, bindVars, tree, mark, disconnect, told, late>>
      /\ terminate[Root].pc = "idle"
  BY DEF Inv, Nodes, TerminateRoot
<1>1. UnknownAreRunning' /\ GoneAreDisconnected'
  BY <1>0, CallTerminateRootFacts
     DEF Inv, TypeOK, UnknownAreRunning, GoneAreDisconnected, bindVars
<1>2. ParentsAreRunning' /\ RootInOrder'
  BY <1>0, CallTerminateRootFacts
     DEF Inv, TypeOK, ParentsAreRunning, RootInOrder, CallTerminateRoot, AtLeast
<1>3. BegunInOrder'
  BY <1>0, CallTerminateRootFacts DEF Inv, Nodes, BegunInOrder
<1>4. ChildrenAreAwaited'
  <2>1. \A x \in known : state[x] = Disconnected => state'[x] = Disconnected
    BY <1>0, CallTerminateRootFacts DEF TypeOK
  <2> QED BY <1>0, <2>1, CallTerminateRootFacts, AwaitedStay
          DEF Inv, ChildrenAreAwaited, bindVars
<1> QED BY <1>1, <1>2, <1>3, <1>4 DEF Inv

(* The adapter is disposed.                                                *)
LEMMA DisposeInv ==
  ASSUME Inv, TypeOK', AttachedAreKnown', Dispose
  PROVE  Inv'
<1> USE SessionTreeAssumption DEF Running, Terminating, Terminated, Disconnected
<1>0. TypeOK /\ Root \in Nodes /\ Targets \subseteq Nodes
  BY DEF Inv, Nodes
<1>1. UnknownAreRunning'
  BY <1>0, AllAreInTheTree
  DEF Inv, TypeOK, UnknownAreRunning, bindVars, Dispose, MarkTargetsAsTerminated
<1>2. GoneAreDisconnected'
  BY <1>0 DEF Inv, TypeOK, GoneAreDisconnected, bindVars, Dispose, MarkTargetsAsTerminated
<1>3. ParentsAreRunning'
  BY DEF Inv, ParentsAreRunning, BegunInOrder, Dispose
<1>4. BegunInOrder'
  BY <1>0 DEF Inv, BegunInOrder, Dispose, MarkTargetsAsTerminated
<1>5. ChildrenAreAwaited'
  BY <1>0
  DEF Inv, TypeOK, ChildrenAreAwaited, Awaits, AwaitsInTime, bindVars, Dispose,
      MarkTargetsAsTerminated, At
<1>6. RootInOrder'
  BY <1>0, AllAreInTheTree DEF Inv, TypeOK, RootInOrder, Dispose, MarkTargetsAsTerminated
<1> QED BY <1>1, <1>2, <1>3, <1>4, <1>5, <1>6 DEF Inv

(* Every step keeps the invariant.                                         *)
LEMMA NextInv ==
  ASSUME Inv, [Next]_vars
  PROVE  Inv'
<1>1. TypeOK' /\ AttachedAreKnown'
  BY TypeNext DEF Inv
<1>2. CASE UNCHANGED vars
  BY <1>1, <1>2
  DEF vars, bindVars, Inv, UnknownAreRunning, GoneAreDisconnected, ParentsAreRunning,
      RootInOrder, BegunInOrder, ChildrenAreAwaited, Awaits, AwaitsInTime
<1>3. CASE Next
  BY <1>1, <1>3, MarkedInv, LaunchersTerminatedInv, RootTerminatedInv, AttachedInv, BoundInv,
     StartThreadInv, SendTerminatedInv, TargetIsTerminatedInv, TargetDisconnectedInv,
     RootIsTerminatedInv, RootDisconnectedInv, AppearInv, LeaveInv, TerminateTargetInv,
     DisconnectTargetInv, LauncherTerminatedInv, DisconnectRootInv, TerminateRootInv, DisposeInv
     DEF Next, Continue, ContinueTarget, ContinueRoot
<1> QED BY <1>2, <1>3

-----------------------------------------------------------------------------
(* Theorems.                                                               *)

(* Every variable keeps to its type, whatever the launchers list.          *)
THEOREM TypeCorrect == Spec => []TypeOK
<1>1. Init => TypeOK /\ AttachedAreKnown
  BY InitInv DEF Inv
<1>2. TypeOK /\ AttachedAreKnown /\ [Next]_vars => TypeOK' /\ AttachedAreKnown'
  BY TypeNext
<1> QED BY <1>1, <1>2, PTL DEF Spec

(* The inductive invariant holds, also if launchers list targets while     *)
(* they stop.                                                              *)
THEOREM Invariance == Spec => []Inv
<1>1. Init => Inv
  BY InitInv
<1>2. Inv /\ [Next]_vars => Inv'
  BY NextInv
<1> QED BY <1>1, <1>2, PTL DEF Spec

-----------------------------------------------------------------------------
(* The refinement.                                                         *)

phases == [n \in Nodes |-> Phase(n)]

(* The phase of a session is its state, until it is registered.            *)
LEMMA PhaseIsState ==
  ASSUME TypeOK, UnknownAreRunning, NEW n \in Nodes
  PROVE  /\ phases[n] = Phase(n)
         /\ Phase(n) = "absent" <=> n # Root /\ n \notin known
         /\ Phase(n) = "running" <=> (n = Root \/ n \in known) /\ state[n] = Running
         /\ Phase(n) = "terminating" <=> state[n] = Terminating
         /\ Phase(n) = "terminated" <=> state[n] = Terminated
         /\ Phase(n) = "disconnected" <=> state[n] = Disconnected
  BY DEF phases, Phase, TypeOK, UnknownAreRunning, Nodes,
         Running, Terminating, Terminated, Disconnected

(* A step that leaves the states alone is none of its business.            *)
LEMMA SameStates ==
  ASSUME UNCHANGED <<known, state>>
  PROVE  phases' = phases
  BY DEF phases, Phase

(* Sessions begin to terminate.                                            *)
LEMMA TerminateStep ==
  ASSUME TypeOK, UnknownAreRunning, known' = known, late' = late,
         NEW S \in SUBSET Nodes, \A n \in S : Phase(n) = "running",
         state' = [n \in Nodes |-> IF n \in S THEN Terminating ELSE state[n]]
  PROVE  Lifecycle!Next
<1>1. \A n \in S : phases[n] = "running"
  BY PhaseIsState
<1>2. ASSUME NEW n \in Nodes
      PROVE  Phase(n)' = IF n \in S THEN "terminating" ELSE phases[n]
  <2>1. CASE n \in S
    <3>1. n = Root \/ n \in known
      BY <2>1, PhaseIsState
    <3> QED BY <2>1, <3>1 DEF Phase, Running, Terminating, Terminated, Disconnected
  <2>2. CASE n \notin S
    <3>1. Phase(n)' = Phase(n)
      BY <2>2 DEF Phase, TypeOK, Running, Terminating, Terminated, Disconnected
    <3> QED BY <2>2, <3>1 DEF phases
  <2> QED BY <2>1, <2>2
<1>3. phases' = [n \in Nodes |-> IF n \in S THEN "terminating" ELSE phases[n]]
  BY <1>2 DEF phases
<1>4. Lifecycle!Terminate(S)
  BY <1>1, <1>3 DEF Lifecycle!Terminate, Lifecycle!Nodes, Nodes, phases
<1> QED BY <1>4 DEF Lifecycle!Next, Lifecycle!Nodes, Nodes

(* A session that awaited all its children moves on.                       *)
LEMMA OneMovesOn ==
  ASSUME TypeOK, UnknownAreRunning, known' = known, late' = late,
         NEW n \in Nodes, NEW s \in {Terminated, Disconnected},
         state[n] # Running, state' = AtLeast(n, s)
  PROVE  \/ phases' = phases
         \/ /\ state[n] < s
            /\ phases' = [phases EXCEPT
                            ![n] = IF s = Terminated THEN "terminated" ELSE "disconnected"]
<1> USE DEF Running, Terminating, Terminated, Disconnected
<1>1. n = Root \/ n \in known
  BY DEF UnknownAreRunning, Nodes
<1>2. CASE ~(state[n] < s)
  <2>1. state' = state
    BY <1>2 DEF TypeOK, AtLeast
  <2> QED BY <2>1, SameStates
<1>3. CASE state[n] < s
  <2>1. state'[n] = s /\ \A m \in Nodes \ {n} : state'[m] = state[m]
    BY <1>3 DEF TypeOK, AtLeast
  <2>2. Phase(n)' = IF s = Terminated THEN "terminated" ELSE "disconnected"
    BY <1>1, <2>1 DEF Phase
  <2>3. \A m \in Nodes \ {n} : Phase(m)' = Phase(m)
    BY <2>1 DEF Phase, TypeOK
  <2> QED BY <1>3, <2>2, <2>3 DEF phases
<1> QED BY <1>2, <1>3

(* A node that has terminated did so after its children.                   *)
LEMMA TerminatedStep ==
  ASSUME TypeOK, UnknownAreRunning, known' = known, late' = late,
         NEW n \in Nodes, NEW wait, Awaits(n, wait), ChildrenAre(wait, Terminated),
         state[n] # Running, state' = AtLeast(n, Terminated)
  PROVE  [Lifecycle!Next]_<<phases, late>>
<1>1. CASE phases' = phases
  BY <1>1
<1>2. CASE /\ state[n] < Terminated
           /\ phases' = [phases EXCEPT ![n] = "terminated"]
  <2>1. state[n] = Terminating
    BY <1>2 DEF TypeOK, Running, Terminating, Terminated, Disconnected
  <2>2. phases[n] = "terminating"
    BY <2>1, PhaseIsState
  <2>3. ASSUME NEW t \in Targets, Parent[t] = n
        PROVE  phases[t] \in {"absent", "terminated", "disconnected"}
    <3>1. t \in Nodes /\ t # Root
      BY SessionTreeAssumption DEF Nodes
    <3>2. t \in known => state[t] \in {Terminated, Disconnected}
      <4>1. t \in known => state[t] >= Terminated \/ state[t] = Disconnected
        BY <2>3 DEF Awaits, ChildrenAre
      <4>2. state[t] \in {Running, Terminating, Terminated, Disconnected}
        BY <3>1 DEF TypeOK
      <4> QED BY <4>1, <4>2 DEF Running, Terminating, Terminated, Disconnected
    <3> QED BY <3>1, <3>2, PhaseIsState
  <2>4. Lifecycle!Terminated(n)
    BY <1>2, <2>2, <2>3 DEF Lifecycle!Terminated, Lifecycle!ChildrenIn, phases
  <2> QED BY <2>4 DEF Lifecycle!Next, Lifecycle!Nodes, Nodes
<1> QED BY <1>1, <1>2, OneMovesOn

(* A node that is disconnected is so after its children.                   *)
LEMMA DisconnectedStep ==
  ASSUME TypeOK, UnknownAreRunning, known' = known, late' = late,
         NEW n \in Nodes, NEW wait, AwaitsInTime(n, wait), ChildrenAre(wait, Disconnected),
         state[n] # Running, state' = AtLeast(n, Disconnected)
  PROVE  [Lifecycle!Next]_<<phases, late>>
<1>1. CASE phases' = phases
  BY <1>1
<1>2. CASE /\ state[n] < Disconnected
           /\ phases' = [phases EXCEPT ![n] = "disconnected"]
  <2>1. state[n] \in {Terminating, Terminated}
    BY <1>2 DEF TypeOK, Running, Terminating, Terminated, Disconnected
  <2>2. phases[n] \in {"terminating", "terminated"}
    BY <2>1, PhaseIsState
  <2>3. ASSUME NEW t \in Targets \ late, Parent[t] = n
        PROVE  phases[t] \in {"absent", "disconnected"}
    <3>1. t \in Nodes /\ t # Root
      BY SessionTreeAssumption DEF Nodes
    <3>2. t \in known => state[t] = Disconnected
      <4>1. t \in known => state[t] >= Disconnected \/ state[t] = Disconnected
        BY <2>3 DEF AwaitsInTime, ChildrenAre
      <4>2. state[t] \in {Running, Terminating, Terminated, Disconnected}
        BY <3>1 DEF TypeOK
      <4> QED BY <4>1, <4>2 DEF Running, Terminating, Terminated, Disconnected
    <3> QED BY <3>1, <3>2, PhaseIsState
  <2>4. Lifecycle!Disconnected(n)
    BY <1>2, <2>2, <2>3 DEF Lifecycle!Disconnected, Lifecycle!ChildrenIn, phases
  <2> QED BY <2>4 DEF Lifecycle!Next, Lifecycle!Nodes, Nodes
<1> QED BY <1>1, <1>2, OneMovesOn DEF Terminated, Disconnected

(* A target is registered when its parent runs, or the root waits for its  *)
(* launchers; or it is late.                                               *)
LEMMA AppearStep ==
  ASSUME Inv, NEW t \in Targets, Appear(t)
  PROVE  Lifecycle!Next
<1>1. /\ t \in Nodes /\ t # Root /\ t \notin known /\ Parent[t] \in Nodes
      /\ known' = known \union {t} /\ state' = state /\ launcher \in {"running", "stopping"}
      /\ TypeOK /\ UnknownAreRunning /\ Root \in Nodes
  BY SessionTreeAssumption DEF Appear, Nodes, Inv
<1>2. phases[t] = "absent"
  BY <1>1, PhaseIsState
<1>3. phases' = [phases EXCEPT ![t] = "running"]
  <2>1. Phase(t)' = "running"
    BY <1>1 DEF Phase, UnknownAreRunning, Running, Terminating, Terminated, Disconnected
  <2>2. \A n \in Nodes \ {t} : Phase(n)' = Phase(n)
    BY <1>1 DEF Phase, TypeOK, Running, Terminating, Terminated, Disconnected
  <2> QED BY <1>1, <2>1, <2>2 DEF phases
<1>4. CASE Parent[t] = Root /\ disconnect[Root].pc \in {"children", "done"}
  <2>1. state[Root] # Running /\ late' = late \union {t}
    BY <1>4 DEF Inv, BegunInOrder, Appear
  <2>2. phases[Root] # "running"
    BY <1>1, <2>1, PhaseIsState
  <2>3. Lifecycle!AppearLate(t)
    BY <1>2, <1>3, <1>4, <2>1, <2>2 DEF Lifecycle!AppearLate, phases
  <2> QED BY <2>3 DEF Lifecycle!Next
<1>5. CASE ~(Parent[t] = Root /\ disconnect[Root].pc \in {"children", "done"})
  <2>1. late' = late
    BY <1>5 DEF Appear
  <2>2. phases[Parent[t]] \in IF Parent[t] = Root THEN {"running", "terminating"} ELSE {"running"}
    <3>1. CASE Parent[t] = Root
      <4>1. state[Root] \in {Running, Terminating}
        BY <1>1, <1>5, <3>1 DEF Inv, RootInOrder, TypeOK
      <4> QED BY <1>1, <3>1, <4>1, PhaseIsState
    <3>2. CASE Parent[t] # Root
      <4>1. Parent[t] \in known /\ state[Parent[t]] = Running
        BY <1>1, <3>2 DEF Inv, Appear, ParentsAreRunning, TypeOK
      <4> QED BY <1>1, <3>2, <4>1, PhaseIsState
    <3> QED BY <3>1, <3>2
  <2>3. Lifecycle!Appear(t)
    BY <1>2, <1>3, <2>1, <2>2 DEF Lifecycle!Appear, phases
  <2> QED BY <2>3 DEF Lifecycle!Next
<1> QED BY <1>4, <1>5

(* The root begins to terminate.                                           *)
LEMMA RootBegins ==
  ASSUME TypeOK, UnknownAreRunning, known' = known, late' = late,
         state' = AtLeast(Root, Terminating)
  PROVE  [Lifecycle!Next]_<<phases, late>>
<1>1. CASE state[Root] = Running
  <2>1. {Root} \in SUBSET Nodes /\ \A n \in {Root} : Phase(n) = "running"
    BY <1>1, PhaseIsState DEF Nodes
  <2>2. state' = [n \in Nodes |-> IF n \in {Root} THEN Terminating ELSE state[n]]
    <3>1. state' = [state EXCEPT ![Root] = Terminating]
      BY <1>1 DEF AtLeast, Running, Terminating
    <3> QED BY <3>1 DEF TypeOK
  <2> QED BY <2>1, <2>2, TerminateStep
<1>2. CASE state[Root] # Running
  <2>1. state' = state
    BY <1>2 DEF AtLeast, TypeOK, Nodes, Running, Terminating, Terminated, Disconnected
  <2> QED BY <2>1, SameStates
<1> QED BY <1>1, <1>2

(* A target begins to terminate.                                           *)
LEMMA MarkStep ==
  ASSUME TypeOK, UnknownAreRunning, known' = known, late' = late,
         NEW S \in SUBSET known, MarkTargetsAsTerminated(S)
  PROVE  [Lifecycle!Next]_<<phases, late>>
<1> DEFINE new == {n \in S : state[n] = Running}
<1>1. new \in SUBSET Nodes /\ \A n \in new : Phase(n) = "running"
  BY PhaseIsState DEF TypeOK, Nodes
<1>2. state' = [n \in Nodes |-> IF n \in new THEN Terminating ELSE state[n]]
  BY DEF MarkTargetsAsTerminated
<1> HIDE DEF new
<1> QED BY <1>1, <1>2, TerminateStep

(* Every step of the binder is one of the life cycle of a session, or      *)
(* none of its business.                                                   *)
LEMMA StepInOrder ==
  ASSUME Inv, [Next]_vars
  PROVE  [Lifecycle!Next]_<<phases, late>>
<1>0. /\ TypeOK /\ UnknownAreRunning /\ ParentsAreRunning /\ BegunInOrder /\ ChildrenAreAwaited
      /\ Root \in Nodes /\ Targets \subseteq Nodes
  BY DEF Inv, Nodes
<1>1. ASSUME NEW n \in Nodes, Marked(n)
      PROVE  [Lifecycle!Next]_<<phases, late>>
  <2>1. state[n] # Running /\ Awaits(n, mark[n].wait)
    BY <1>0, <1>1 DEF Marked, BegunInOrder, ChildrenAreAwaited
  <2> QED BY <1>0, <1>1, <2>1, TerminatedStep DEF Marked, bindVars
<1>2. ASSUME NEW n \in Nodes, RootTerminated(n)
      PROVE  [Lifecycle!Next]_<<phases, late>>
  <2>1. state[Root] # Running /\ Awaits(Root, terminate[n].wait)
    BY <1>0, <1>2 DEF RootTerminated, BegunInOrder, ChildrenAreAwaited
  <2> QED BY <1>0, <1>2, <2>1, TerminatedStep DEF RootTerminated, bindVars
<1>3. ASSUME NEW t \in Targets, TargetDisconnected(t)
      PROVE  [Lifecycle!Next]_<<phases, late>>
  <2>1. state[t] # Running /\ AwaitsInTime(t, disconnect[t].wait)
    BY <1>0, <1>3 DEF TargetDisconnected, BegunInOrder, ChildrenAreAwaited, Awaits,
                      AwaitsInTime, Running, Terminated, Disconnected
  <2> QED BY <1>0, <1>3, <2>1, DisconnectedStep DEF TargetDisconnected, bindVars
<1>4. ASSUME RootDisconnected
      PROVE  [Lifecycle!Next]_<<phases, late>>
  <2>1. state[Root] # Running /\ AwaitsInTime(Root, disconnect[Root].wait)
    BY <1>0, <1>4 DEF RootDisconnected, BegunInOrder, ChildrenAreAwaited
  <2> QED BY <1>0, <1>4, <2>1, DisconnectedStep DEF RootDisconnected, bindVars
<1>5. ASSUME NEW t \in Targets, Appear(t)
      PROVE  [Lifecycle!Next]_<<phases, late>>
  BY <1>5, AppearStep
<1>6. ASSUME NEW t \in Targets, Leave(t)
      PROVE  [Lifecycle!Next]_<<phases, late>>
  <2>1. known' = known /\ late' = late /\ MarkTargetsAsTerminated(All \ targetList')
    BY <1>6 DEF Leave, bindVars
  <2>2. All \ targetList' \in SUBSET known
    BY <1>0, AllAreInTheTree DEF TypeOK
  <2> QED BY <1>0, <2>1, <2>2, MarkStep
<1>7. ASSUME Dispose
      PROVE  [Lifecycle!Next]_<<phases, late>>
  <2>1. known' = known /\ late' = late /\ MarkTargetsAsTerminated(All)
    BY <1>7 DEF Dispose, bindVars
  <2>2. All \in SUBSET known
    BY <1>0, AllAreInTheTree DEF TypeOK
  <2> QED BY <1>0, <2>1, <2>2, MarkStep
<1>8. ASSUME \/ \E t \in Targets : TerminateTarget(t) \/ DisconnectTarget(t)
             \/ LauncherTerminated \/ TerminateRoot \/ DisconnectRoot
      PROVE  [Lifecycle!Next]_<<phases, late>>
  <2>1. known' = known /\ late' = late /\ (state' = state \/ state' = AtLeast(Root, Terminating))
    BY <1>8 DEF TerminateTarget, DisconnectTarget, LauncherTerminated, TerminateRoot,
           DisconnectRoot,
                CallTerminateRoot, bindVars
  <2> QED BY <1>0, <2>1, RootBegins, SameStates
<1>9. ASSUME \/ UNCHANGED vars
             \/ \E n \in Nodes : LaunchersTerminated(n)
             \/ \E t \in Targets : \/ Attached(t) \/ Bound(t) \/ StartThread(t)
                                   \/ SendTerminated(t) \/ TargetIsTerminated(t)
             \/ RootIsTerminated
      PROVE  [Lifecycle!Next]_<<phases, late>>
  <2>1. UNCHANGED <<known, state, late>>
    BY <1>9 DEF vars, bindVars, LaunchersTerminated, Attached, Bound, StartThread,
                SendTerminated, TargetIsTerminated, RootIsTerminated
  <2> QED BY <2>1, SameStates
<1> QED BY <1>1, <1>2, <1>3, <1>4, <1>5, <1>6, <1>7, <1>8, <1>9
        DEF Next, Continue, ContinueTarget, ContinueRoot

(* "Load and unload order is correct": however sessions are ended, each    *)
(* terminates after all its children, and is disconnected after all those  *)
(* that are not late.                                                      *)
THEOREM LoadAndUnloadInOrder == Spec => InOrder
<1>1. Init => Lifecycle!Init
  <2> SUFFICES ASSUME Init
               PROVE  Lifecycle!Init
    OBVIOUS
  <2>1. late = {} /\ \A n \in Nodes : Phase(n) = IF n = Root THEN "running" ELSE "absent"
    BY DEF Init, Phase, Running, Terminating, Terminated, Disconnected
  <2> QED BY <2>1 DEF Lifecycle!Init, Lifecycle!Nodes, Nodes
<1>2. Inv /\ [Next]_vars => [Lifecycle!Next]_<<phases, late>>
  BY StepInOrder
<1>3. Spec => []Inv
  BY Invariance
<1> QED BY <1>1, <1>2, <1>3, PTL DEF Spec, InOrder, Lifecycle!Spec, Lifecycle!vars, phases

=============================================================================
