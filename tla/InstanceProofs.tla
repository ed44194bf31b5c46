--------------------------- MODULE InstanceProofs ---------------------------
(***************************************************************************)
(* Theorems about Instance, for every finite set of callers, and about     *)
(* Runner, which makes the calls of the program.                           *)
(*                                                                         *)
(* Each invariant has one step lemma, with a case per action.  What holds  *)
(* however calls overlap rests on Lifecycle, which says how far the        *)
(* context, process and waiter of a run have come at each step of its      *)
(* call.  That there is one process at most needs Serial as well, and that *)
(* calls do not overlap; what the status, a Stop that returns and the      *)
(* report of a crash say of the instance needs FieldsTell besides, which   *)
(* relates its fields to each other in the middle of a call.               *)
(*                                                                         *)
(* Calls of the program may overlap.  As long as none has raced they come  *)
(* in turn, as the phases of main and the state of the watcher tell, so    *)
(* the same invariant holds, and what the Stop of the shutdown leaves is   *)
(* what the program leaves.                                                *)
(***************************************************************************)
EXTENDS Runner, FiniteSetTheorems, TLAPS

-----------------------------------------------------------------------------
(* Types *)

LEMMA InitTypeOK == Init => TypeOK
<1> SUFFICES ASSUME Init PROVE TypeOK
  OBVIOUS
<1> USE DEF Init
<1>1. snap \in [Calls -> [process : Calls \cup {None}, cancel : Calls \cup {None}]]
  OBVIOUS
<1>2. pc \in [Calls -> PCs]
  BY DEF PCs
<1>3. proc \in [Calls -> {"none", "alive"} \cup Exited]
  OBVIOUS
<1>4. status \in Statuses
  BY DEF Statuses
<1> QED
  BY <1>1, <1>2, <1>3, <1>4 DEF TypeOK

LEMMA StepTypeOK == TypeOK /\ [Next]_vars => TypeOK'
<1> SUFFICES ASSUME TypeOK, [Next]_vars PROVE TypeOK'
  OBVIOUS
<1> USE CallsAssumption DEF TypeOK, Goto, shared, calls, runs
<1>1. ASSUME NEW k \in Calls, Begin(k) PROVE TypeOK'
  BY <1>1 DEF Begin, Ops, Entry, PCs, Final
<1>2. ASSUME NEW k \in Calls, StartStep(k) PROVE TypeOK'
  <2> USE DEF PCs, Final, Statuses
  <2>1. CASE RefuseRunning(k) BY <2>1 DEF RefuseRunning
  <2>2. CASE BeginStart(k) BY <2>2 DEF BeginStart
  <2>3. CASE NewContext(k) BY <2>3 DEF NewContext
  <2>4. CASE BuildFails(k) BY <2>4 DEF BuildFails, Abort
  <2>5. CASE BuildOk(k) BY <2>5 DEF BuildOk
  <2>6. CASE TransportsFail(k) BY <2>6 DEF TransportsFail, Abort
  <2>7. CASE TransportsOk(k) BY <2>7 DEF TransportsOk
  <2>8. CASE PipeFails(k) BY <2>8 DEF PipeFails
  <2>9. CASE SpawnFails(k) BY <2>9 DEF SpawnFails, Abort
  <2>10. CASE Spawn(k) BY <2>10 DEF Spawn
  <2>11. CASE Publish(k) BY <2>11 DEF Publish
  <2>12. CASE Register(k) BY <2>12 DEF Register
  <2>13. CASE RegisterManual(k) BY <2>13 DEF RegisterManual
  <2>14. CASE Announce(k) BY <2>14 DEF Announce
  <2> QED
    BY <1>2, <2>1, <2>2, <2>3, <2>4, <2>5, <2>6, <2>7, <2>8, <2>9, <2>10, <2>11,
       <2>12, <2>13, <2>14 DEF StartStep
<1>3. ASSUME NEW k \in Calls, StopStep(k) PROVE TypeOK'
  <2> USE DEF PCs, Final, Statuses, Exited, Unregistered
  <2>1. CASE SnapStop(k) BY <2>1 DEF SnapStop
  <2>2. CASE StopUnregister(k) BY <2>2 DEF StopUnregister
  <2>3. CASE SignalKill(k) BY <2>3 DEF SignalKill
  <2>4. CASE SignalDone(k) BY <2>4 DEF SignalDone
  <2>5. CASE StopCancel(k) BY <2>5 DEF StopCancel
  <2>6. CASE SetStopped(k) BY <2>6 DEF SetStopped
  <2> QED
    BY <1>3, <2>1, <2>2, <2>3, <2>4, <2>5, <2>6 DEF StopStep
<1>4. ASSUME NEW r \in Calls, ProcessExits(r) \/ ContextKills(r) PROVE TypeOK'
  BY <1>4 DEF ProcessExits, ContextKills, Exited
<1>5. ASSUME NEW r \in Calls, WaiterStep(r) PROVE TypeOK'
  <2> USE DEF Statuses, Unregistered
  <2>1. CASE WaiterUnregister(r) BY <2>1 DEF WaiterUnregister
  <2>2. CASE WaiterSettle(r) BY <2>2 DEF WaiterSettle
  <2>3. CASE WaiterRelease(r) BY <2>3 DEF WaiterRelease
  <2> QED
    BY <1>5, <2>1, <2>2, <2>3 DEF WaiterStep
<1>6. CASE Terminating \/ UNCHANGED vars
  BY <1>6 DEF Terminating, vars
<1> QED
  BY <1>1, <1>2, <1>3, <1>4, <1>5, <1>6 DEF Next

\* Every reachable state is well typed: the fields of the instance, the program
\* counters of the calls and the states of the runs (instance.go:35-91).
THEOREM TypeCorrect == Spec => []TypeOK
<1>1. Init => TypeOK
  BY InitTypeOK
<1>2. TypeOK /\ [Next]_vars => TypeOK'
  BY StepTypeOK
<1> QED
  BY <1>1, <1>2, PTL DEF Spec

-----------------------------------------------------------------------------
(* The life of a run *)

\* Initially no run has begun and nobody holds a cancel function.
LEMMA InitLifecycle == Init => Lifecycle /\ CancelExists
  BY CallsAssumption DEF Init, Lifecycle, CancelExists, BeforeRun, Manual

\* Every step keeps the context, process and waiter of a run in step with its call.
LEMMA StepLifecycle == TypeOK /\ Lifecycle /\ CancelExists /\ [Next]_vars => Lifecycle'
<1> SUFFICES ASSUME TypeOK /\ Lifecycle /\ CancelExists, [Next]_vars PROVE Lifecycle'
  OBVIOUS
<1> USE CallsAssumption DEF TypeOK, Goto, shared, calls, runs, Manual, BeforeRun, Final, Exited, Lifecycle, CancelExists
<1>1. ASSUME NEW k \in Calls, Begin(k) PROVE Lifecycle'
  BY <1>1 DEF Begin, Ops, Entry
<1>2. ASSUME NEW k \in Calls, StartStep(k) PROVE Lifecycle'
  <2>1. CASE RefuseRunning(k) BY <2>1 DEF RefuseRunning
  <2>2. CASE BeginStart(k) BY <2>2 DEF BeginStart
  <2>3. CASE NewContext(k) BY <2>3 DEF NewContext
  <2>4. CASE BuildFails(k) BY <2>4 DEF BuildFails, Abort
  <2>5. CASE BuildOk(k) BY <2>5 DEF BuildOk
  <2>6. CASE TransportsFail(k) BY <2>6 DEF TransportsFail, Abort
  <2>7. CASE TransportsOk(k) BY <2>7 DEF TransportsOk
  <2>8. CASE PipeFails(k) BY <2>8 DEF PipeFails
  <2>9. CASE SpawnFails(k) BY <2>9 DEF SpawnFails, Abort
  <2>10. CASE Spawn(k) BY <2>10 DEF Spawn
  <2>11. CASE Publish(k) BY <2>11 DEF Publish
  <2>12. CASE Register(k) BY <2>12 DEF Register
  <2>13. CASE RegisterManual(k) BY <2>13 DEF RegisterManual
  <2>14. CASE Announce(k) BY <2>14 DEF Announce
  <2> QED
    BY <1>2, <2>1, <2>2, <2>3, <2>4, <2>5, <2>6, <2>7, <2>8, <2>9,
       <2>10, <2>11, <2>12, <2>13, <2>14 DEF StartStep
<1>3. ASSUME NEW k \in Calls, StopStep(k) PROVE Lifecycle'
  <2>1. CASE SnapStop(k) BY <2>1 DEF SnapStop
  <2>2. CASE StopUnregister(k) BY <2>2 DEF StopUnregister
  <2>3. CASE SignalKill(k) BY <2>3 DEF SignalKill
  <2>4. CASE SignalDone(k) BY <2>4 DEF SignalDone
  <2>5. CASE StopCancel(k) BY <2>5 DEF StopCancel
  <2>6. CASE SetStopped(k) BY <2>6 DEF SetStopped
  <2> QED
    BY <1>3, <2>1, <2>2, <2>3, <2>4, <2>5, <2>6 DEF StopStep
<1>4. ASSUME NEW r \in Calls, ProcessExits(r) \/ ContextKills(r) PROVE Lifecycle'
  BY <1>4 DEF ProcessExits, ContextKills
<1>5. ASSUME NEW r \in Calls, WaiterStep(r) PROVE Lifecycle'
  <2>1. CASE WaiterUnregister(r) BY <2>1 DEF WaiterUnregister
  <2>2. CASE WaiterSettle(r) BY <2>2 DEF WaiterSettle
  <2>3. CASE WaiterRelease(r) BY <2>3 DEF WaiterRelease
  <2> QED
    BY <1>5, <2>1, <2>2, <2>3 DEF WaiterStep
<1>6. CASE Terminating \/ UNCHANGED vars
  BY <1>6 DEF Terminating, vars
<1> QED
  BY <1>1, <1>2, <1>3, <1>4, <1>5, <1>6 DEF Next

\* A cancel function is stored after its context was made, and read from there.
LEMMA StepCancelExists == TypeOK /\ CancelExists /\ [Next]_vars => CancelExists'
<1> SUFFICES ASSUME TypeOK /\ CancelExists, [Next]_vars PROVE CancelExists'
  OBVIOUS
<1> USE CallsAssumption DEF TypeOK, Goto, shared, calls, runs, Manual, BeforeRun, Final, Exited, CancelExists
<1>1. ASSUME NEW k \in Calls, Begin(k) PROVE CancelExists'
  BY <1>1 DEF Begin, Ops, Entry
<1>2. ASSUME NEW k \in Calls, StartStep(k) PROVE CancelExists'
  <2>1. CASE RefuseRunning(k) BY <2>1 DEF RefuseRunning
  <2>2. CASE BeginStart(k) BY <2>2 DEF BeginStart
  <2>3. CASE NewContext(k) BY <2>3 DEF NewContext
  <2>4. CASE BuildFails(k) BY <2>4 DEF BuildFails, Abort
  <2>5. CASE BuildOk(k) BY <2>5 DEF BuildOk
  <2>6. CASE TransportsFail(k) BY <2>6 DEF TransportsFail, Abort
  <2>7. CASE TransportsOk(k) BY <2>7 DEF TransportsOk
  <2>8. CASE PipeFails(k) BY <2>8 DEF PipeFails
  <2>9. CASE SpawnFails(k) BY <2>9 DEF SpawnFails, Abort
  <2>10. CASE Spawn(k) BY <2>10 DEF Spawn
  <2>11. CASE Publish(k) BY <2>11 DEF Publish
  <2>12. CASE Register(k) BY <2>12 DEF Register
  <2>13. CASE RegisterManual(k) BY <2>13 DEF RegisterManual
  <2>14. CASE Announce(k) BY <2>14 DEF Announce
  <2> QED
    BY <1>2, <2>1, <2>2, <2>3, <2>4, <2>5, <2>6, <2>7, <2>8, <2>9,
       <2>10, <2>11, <2>12, <2>13, <2>14 DEF StartStep
<1>3. ASSUME NEW k \in Calls, StopStep(k) PROVE CancelExists'
  <2>1. CASE SnapStop(k) BY <2>1 DEF SnapStop
  <2>2. CASE StopUnregister(k) BY <2>2 DEF StopUnregister
  <2>3. CASE SignalKill(k) BY <2>3 DEF SignalKill
  <2>4. CASE SignalDone(k) BY <2>4 DEF SignalDone
  <2>5. CASE StopCancel(k) BY <2>5 DEF StopCancel
  <2>6. CASE SetStopped(k) BY <2>6 DEF SetStopped
  <2> QED
    BY <1>3, <2>1, <2>2, <2>3, <2>4, <2>5, <2>6 DEF StopStep
<1>4. ASSUME NEW r \in Calls, ProcessExits(r) \/ ContextKills(r) PROVE CancelExists'
  BY <1>4 DEF ProcessExits, ContextKills
<1>5. ASSUME NEW r \in Calls, WaiterStep(r) PROVE CancelExists'
  <2>1. CASE WaiterUnregister(r) BY <2>1 DEF WaiterUnregister
  <2>2. CASE WaiterSettle(r) BY <2>2 DEF WaiterSettle
  <2>3. CASE WaiterRelease(r) BY <2>3 DEF WaiterRelease
  <2> QED
    BY <1>5, <2>1, <2>2, <2>3 DEF WaiterStep
<1>6. CASE Terminating \/ UNCHANGED vars
  BY <1>6 DEF Terminating, vars
<1> QED
  BY <1>1, <1>2, <1>3, <1>4, <1>5, <1>6 DEF Next

\* The inductive invariant that the results on overlapping calls share.
LifeInv == TypeOK /\ Lifecycle /\ CancelExists

\* However calls overlap, the parts of a run begin and end in the order of the
\* code: context, process, waiter (instance.go:342-456).
THEOREM RunsFollowLifecycle == Spec => []LifeInv
<1>1. Init => LifeInv
  BY InitTypeOK, InitLifecycle DEF LifeInv
<1>2. LifeInv /\ [Next]_vars => LifeInv'
  BY StepTypeOK, StepLifecycle, StepCancelExists DEF LifeInv
<1> QED
  BY <1>1, <1>2, PTL DEF Spec

\* However calls overlap, an open context belongs to a call in flight, to a
\* process not yet reaped or to a manual run (instance.go:343, 455, 465).
THEOREM ContextsDoNotLeak == Spec => []NoLeakedContext
<1>1. LifeInv => NoLeakedContext
  <2> SUFFICES ASSUME LifeInv, NEW k \in Calls, ctx[k] = "live",
                      pc[k] \notin {"build", "transports", "spawn", "publish", "register", "announce"}
               PROVE  waiter[k] \in {"wait", "settle", "release"} \/ (Manual(k) /\ pc[k] = "returned")
    BY DEF NoLeakedContext
  <2>1. pc[k] \in BeforeRun \cup {"failed", "pipeError", "returned"}
    BY DEF LifeInv, TypeOK, PCs, Final, BeforeRun
  <2>2. pc[k] = "returned"
    BY <2>1 DEF LifeInv, Lifecycle
  <2> QED
    BY <2>2 DEF LifeInv, Lifecycle
<1> QED
  BY <1>1, RunsFollowLifecycle, PTL

-----------------------------------------------------------------------------
(* The process field *)

\* The field is set by a run that has yet to start its waiter, and cleared by
\* the step in which the waiter settles.
LEMMA StepFresh == TypeOK /\ Lifecycle /\ ProcessFieldFresh /\ [Next]_vars => ProcessFieldFresh'
<1> SUFFICES ASSUME TypeOK /\ Lifecycle /\ ProcessFieldFresh, [Next]_vars PROVE ProcessFieldFresh'
  OBVIOUS
<1> USE CallsAssumption DEF TypeOK, Goto, shared, calls, runs, Manual, BeforeRun, Final, Exited, Lifecycle, ProcessFieldFresh
<1>1. ASSUME NEW k \in Calls, Begin(k) PROVE ProcessFieldFresh'
  BY <1>1 DEF Begin, Ops, Entry
<1>2. ASSUME NEW k \in Calls, StartStep(k) PROVE ProcessFieldFresh'
  <2>1. CASE RefuseRunning(k) BY <2>1 DEF RefuseRunning
  <2>2. CASE BeginStart(k) BY <2>2 DEF BeginStart
  <2>3. CASE NewContext(k) BY <2>3 DEF NewContext
  <2>4. CASE BuildFails(k) BY <2>4 DEF BuildFails, Abort
  <2>5. CASE BuildOk(k) BY <2>5 DEF BuildOk
  <2>6. CASE TransportsFail(k) BY <2>6 DEF TransportsFail, Abort
  <2>7. CASE TransportsOk(k) BY <2>7 DEF TransportsOk
  <2>8. CASE PipeFails(k) BY <2>8 DEF PipeFails
  <2>9. CASE SpawnFails(k) BY <2>9 DEF SpawnFails, Abort
  <2>10. CASE Spawn(k) BY <2>10 DEF Spawn
  <2>11. CASE Publish(k) BY <2>11 DEF Publish
  <2>12. CASE Register(k) BY <2>12 DEF Register
  <2>13. CASE RegisterManual(k) BY <2>13 DEF RegisterManual
  <2>14. CASE Announce(k) BY <2>14 DEF Announce
  <2> QED
    BY <1>2, <2>1, <2>2, <2>3, <2>4, <2>5, <2>6, <2>7, <2>8, <2>9,
       <2>10, <2>11, <2>12, <2>13, <2>14 DEF StartStep
<1>3. ASSUME NEW k \in Calls, StopStep(k) PROVE ProcessFieldFresh'
  <2>1. CASE SnapStop(k) BY <2>1 DEF SnapStop
  <2>2. CASE StopUnregister(k) BY <2>2 DEF StopUnregister
  <2>3. CASE SignalKill(k) BY <2>3 DEF SignalKill
  <2>4. CASE SignalDone(k) BY <2>4 DEF SignalDone
  <2>5. CASE StopCancel(k) BY <2>5 DEF StopCancel
  <2>6. CASE SetStopped(k) BY <2>6 DEF SetStopped
  <2> QED
    BY <1>3, <2>1, <2>2, <2>3, <2>4, <2>5, <2>6 DEF StopStep
<1>4. ASSUME NEW r \in Calls, ProcessExits(r) \/ ContextKills(r) PROVE ProcessFieldFresh'
  BY <1>4 DEF ProcessExits, ContextKills
<1>5. ASSUME NEW r \in Calls, WaiterStep(r) PROVE ProcessFieldFresh'
  <2>1. CASE WaiterUnregister(r) BY <2>1 DEF WaiterUnregister
  <2>2. CASE WaiterSettle(r) BY <2>2 DEF WaiterSettle
  <2>3. CASE WaiterRelease(r) BY <2>3 DEF WaiterRelease
  <2> QED
    BY <1>5, <2>1, <2>2, <2>3 DEF WaiterStep
<1>6. CASE Terminating \/ UNCHANGED vars
  BY <1>6 DEF Terminating, vars
<1> QED
  BY <1>1, <1>2, <1>3, <1>4, <1>5, <1>6 DEF Next

\* However calls overlap, Stop never polls or signals a process that its waiter
\* has settled (instance.go:445, 508-521).
THEOREM ProcessFieldIsFresh == Spec => []ProcessFieldFresh
<1>1. Init => ProcessFieldFresh
  BY DEF Init, ProcessFieldFresh
<1>2. LifeInv /\ ProcessFieldFresh /\ [Next]_vars => ProcessFieldFresh'
  BY StepFresh DEF LifeInv
<1> QED
  BY <1>1, <1>2, RunsFollowLifecycle, PTL DEF Spec

-----------------------------------------------------------------------------
(* The status "starting" *)

\* The Start that set the status leaves its zone by setting another status, or
\* by the error return on the pipes.
LEMMA StepStarting == TypeOK /\ Lifecycle /\ StartingExplained /\ [Next]_vars => StartingExplained'
<1> SUFFICES ASSUME TypeOK /\ Lifecycle /\ StartingExplained, [Next]_vars PROVE StartingExplained'
  OBVIOUS
<1> USE CallsAssumption DEF TypeOK, Goto, shared, calls, runs, Manual, PCs, Final, StartingExplained, Lifecycle
<1>1. ASSUME NEW k \in Calls, Begin(k) PROVE StartingExplained'
  BY <1>1 DEF Begin, Ops, Entry
<1>2. ASSUME NEW k \in Calls, StartStep(k) PROVE StartingExplained'
  <2>1. CASE RefuseRunning(k) BY <2>1 DEF RefuseRunning
  <2>2. CASE BeginStart(k) BY <2>2 DEF BeginStart
  <2>3. CASE NewContext(k) BY <2>3 DEF NewContext
  <2>4. CASE BuildFails(k) BY <2>4 DEF BuildFails, Abort
  <2>5. CASE BuildOk(k) BY <2>5 DEF BuildOk
  <2>6. CASE TransportsFail(k) BY <2>6 DEF TransportsFail, Abort
  <2>7. CASE TransportsOk(k) BY <2>7 DEF TransportsOk
  <2>8. CASE PipeFails(k) BY <2>8 DEF PipeFails
  <2>9. CASE SpawnFails(k) BY <2>9 DEF SpawnFails, Abort
  <2>10. CASE Spawn(k) BY <2>10 DEF Spawn
  <2>11. CASE Publish(k) BY <2>11 DEF Publish
  <2>12. CASE Register(k) BY <2>12 DEF Register
  <2>13. CASE RegisterManual(k) BY <2>13 DEF RegisterManual
  <2>14. CASE Announce(k) BY <2>14 DEF Announce
  <2> QED
    BY <1>2, <2>1, <2>2, <2>3, <2>4, <2>5, <2>6, <2>7, <2>8, <2>9,
       <2>10, <2>11, <2>12, <2>13, <2>14 DEF StartStep
<1>3. ASSUME NEW k \in Calls, StopStep(k) PROVE StartingExplained'
  <2>1. CASE SnapStop(k) BY <2>1 DEF SnapStop
  <2>2. CASE StopUnregister(k) BY <2>2 DEF StopUnregister
  <2>3. CASE SignalKill(k) BY <2>3 DEF SignalKill
  <2>4. CASE SignalDone(k) BY <2>4 DEF SignalDone
  <2>5. CASE StopCancel(k) BY <2>5 DEF StopCancel
  <2>6. CASE SetStopped(k) BY <2>6 DEF SetStopped
  <2> QED
    BY <1>3, <2>1, <2>2, <2>3, <2>4, <2>5, <2>6 DEF StopStep
<1>4. ASSUME NEW r \in Calls, ProcessExits(r) \/ ContextKills(r) PROVE StartingExplained'
  BY <1>4 DEF ProcessExits, ContextKills
<1>5. ASSUME NEW r \in Calls, WaiterStep(r) PROVE StartingExplained'
  <2>1. CASE WaiterUnregister(r) BY <2>1 DEF WaiterUnregister
  <2>2. CASE WaiterSettle(r) BY <2>2 DEF WaiterSettle
  <2>3. CASE WaiterRelease(r) BY <2>3 DEF WaiterRelease
  <2> QED
    BY <1>5, <2>1, <2>2, <2>3 DEF WaiterStep
<1>6. CASE Terminating \/ UNCHANGED vars
  BY <1>6 DEF Terminating, vars
<1> QED
  BY <1>1, <1>2, <1>3, <1>4, <1>5, <1>6 DEF Next

\* However calls overlap, "starting" has a Start on its way behind it, or one
\* that could not make its pipes (instance.go:339, 387-395).
THEOREM StartingIsExplained == Spec => []StartingExplained
<1>1. Init => StartingExplained
  BY DEF Init, StartingExplained
<1>2. LifeInv /\ StartingExplained /\ [Next]_vars => StartingExplained'
  BY StepStarting DEF LifeInv
<1> QED
  BY <1>1, <1>2, RunsFollowLifecycle, PTL DEF Spec

-----------------------------------------------------------------------------
(* The registry *)

\* The registrants are some of finitely many callers.
LEMMA RegistrantsFinite == IsFiniteSet(Registrants) /\ IsFiniteSet(Registrants')
  BY CallsAssumption, FS_Subset, Registrants \subseteq Calls, Registrants' \subseteq Calls DEF Registrants

\* A step that leaves the registrants alone and lists nothing new.
LEMMA SameRegistrants ==
  ASSUME TypeOK, NoGhostRegistration, Registrants' = Registrants,
         registered' = registered \/ registered' = Unregistered
  PROVE  NoGhostRegistration'
  BY RegistrantsFinite, FS_CardinalityType DEF NoGhostRegistration, Unregistered, TypeOK

\* A step that adds one registrant and lists at most one occurrence more.
LEMMA MoreRegistrants ==
  ASSUME TypeOK, NoGhostRegistration, NEW k \in Calls, k \notin Registrants,
         Registrants' = Registrants \cup {k}, registered' \in {registered, registered + 1}
  PROVE  NoGhostRegistration'
  BY RegistrantsFinite, FS_CardinalityType, FS_AddElement DEF NoGhostRegistration, TypeOK

\* A step that takes one registrant away and unregisters once.
LEMMA FewerRegistrants ==
  ASSUME TypeOK, NoGhostRegistration, NEW r \in Registrants,
         Registrants' = Registrants \ {r}, registered' = Unregistered
  PROVE  NoGhostRegistration'
  BY RegistrantsFinite, FS_CardinalityType, FS_RemoveElement DEF NoGhostRegistration, Unregistered, TypeOK

\* Each step that touches the registry changes the two sides alike.
LEMMA StepGhost ==
  TypeOK /\ Lifecycle /\ NoGhostRegistration /\ [Next]_vars => NoGhostRegistration'
<1> SUFFICES ASSUME TypeOK, Lifecycle, NoGhostRegistration, [Next]_vars
             PROVE  NoGhostRegistration'
  OBVIOUS
<1> DEFINE Same == /\ Registrants' = Registrants
                   /\ registered' = registered \/ registered' = Unregistered
<1> USE CallsAssumption DEF TypeOK, Goto, shared, calls, runs, Manual, Lifecycle, BeforeRun, Registrants
<1>1. ASSUME NEW k \in Calls, Begin(k) PROVE Same
  BY <1>1 DEF Begin, Ops, Entry
<1>2. ASSUME NEW k \in Calls, StartStep(k) PROVE NoGhostRegistration'
  <2>1. RefuseRunning(k) => Same BY DEF RefuseRunning
  <2>2. BeginStart(k) => Same BY DEF BeginStart
  <2>3. NewContext(k) => Same BY DEF NewContext
  <2>4. BuildFails(k) => Same BY DEF BuildFails, Abort
  <2>5. BuildOk(k) => Same BY DEF BuildOk
  <2>6. TransportsFail(k) => Same BY DEF TransportsFail, Abort
  <2>7. TransportsOk(k) => Same BY DEF TransportsOk
  <2>8. PipeFails(k) => Same BY DEF PipeFails
  <2>9. SpawnFails(k) => Same BY DEF SpawnFails, Abort
  <2>10. Spawn(k) => Same BY DEF Spawn
  <2>11. Publish(k) => Same BY DEF Publish
  <2>12. Register(k) => NoGhostRegistration'
    <3> SUFFICES ASSUME Register(k) PROVE NoGhostRegistration'
      OBVIOUS
    <3>1. k \notin Registrants
      BY DEF Register
    <3>2. Registrants' = Registrants \cup {k}
      BY DEF Register
    <3>3. registered' \in {registered, registered + 1}
      BY DEF Register
    <3> QED
      BY <3>1, <3>2, <3>3, MoreRegistrants
  <2>13. RegisterManual(k) => NoGhostRegistration'
    <3> SUFFICES ASSUME RegisterManual(k) PROVE NoGhostRegistration'
      OBVIOUS
    <3>1. k \notin Registrants
      BY DEF RegisterManual
    <3>2. Registrants' = Registrants \cup {k}
      BY DEF RegisterManual
    <3>3. registered' \in {registered, registered + 1}
      BY DEF RegisterManual
    <3> QED
      BY <3>1, <3>2, <3>3, MoreRegistrants
  <2>14. Announce(k) => Same BY DEF Announce
  <2> QED
    BY <1>2, <2>1, <2>2, <2>3, <2>4, <2>5, <2>6, <2>7, <2>8, <2>9,
       <2>10, <2>11, <2>12, <2>13, <2>14, SameRegistrants DEF StartStep
<1>3. ASSUME NEW k \in Calls, StopStep(k) PROVE NoGhostRegistration'
  <2>1. SnapStop(k) => Same BY DEF SnapStop
  <2>2. StopUnregister(k) => Same BY DEF StopUnregister
  <2>3. SignalKill(k) => Same BY DEF SignalKill
  <2>4. SignalDone(k) => Same BY DEF SignalDone
  <2>5. StopCancel(k) => Same BY DEF StopCancel
  <2>6. SetStopped(k) => Same BY DEF SetStopped
  <2> QED
    BY <1>3, <2>1, <2>2, <2>3, <2>4, <2>5, <2>6, SameRegistrants DEF StopStep
<1>4. ASSUME NEW r \in Calls, ProcessExits(r) \/ ContextKills(r) PROVE Same
  BY <1>4 DEF ProcessExits, ContextKills
<1>5. ASSUME NEW r \in Calls, WaiterStep(r) PROVE NoGhostRegistration'
  <2>1. WaiterUnregister(r) => NoGhostRegistration'
    <3> SUFFICES ASSUME WaiterUnregister(r) PROVE NoGhostRegistration'
      OBVIOUS
    <3>1. r \in Registrants
      BY DEF WaiterUnregister
    <3>2. Registrants' = Registrants \ {r}
      BY DEF WaiterUnregister
    <3>3. registered' = Unregistered
      BY DEF WaiterUnregister
    <3> QED
      BY <3>1, <3>2, <3>3, FewerRegistrants
  <2>2. WaiterSettle(r) => Same BY DEF WaiterSettle
  <2>3. WaiterRelease(r) => Same BY DEF WaiterRelease
  <2> QED
    BY <1>5, <2>1, <2>2, <2>3, SameRegistrants DEF WaiterStep
<1>6. CASE Terminating \/ UNCHANGED vars
  <2>1. Same BY <1>6 DEF Terminating, vars
  <2> QED BY <2>1, SameRegistrants
<1> QED
  BY <1>1, <1>2, <1>3, <1>4, <1>5, <1>6, SameRegistrants DEF Next

\* However calls overlap, with Stop and the waiter both calling Unregister, the
\* registry holds no more occurrences than there are runs to account for them
\* (instance.go:419, 443, 484, 504).
THEOREM RegistryHasNoGhosts == Spec => []NoGhostRegistration
<1>1. Init => NoGhostRegistration
  <2> SUFFICES ASSUME Init PROVE NoGhostRegistration
    OBVIOUS
  <2>1. Cardinality(Registrants) \in Nat
    BY RegistrantsFinite, FS_CardinalityType
  <2> QED
    BY <2>1 DEF Init, NoGhostRegistration
<1>2. LifeInv /\ NoGhostRegistration /\ [Next]_vars => NoGhostRegistration'
  BY StepGhost DEF LifeInv
<1> QED
  BY <1>1, <1>2, RunsFollowLifecycle, PTL DEF Spec

-----------------------------------------------------------------------------
(* One process at most, when calls do not overlap *)

\* No call begins in this step while another is in flight, nor before the boot
\* loop's: so it is without Overlap, and so it may be with it.
InTurn ==
  \A k \in Calls : Begin(k) => (\A j \in Calls : ~InFlight(j)) /\ (k = Main \/ pc[Main] # "idle")

LEMMA SerialInTurn == ~Overlap => InTurn
  BY DEF InTurn, Begin, MayBegin

\* Calls in flight keep to themselves: no step of another call comes between.
LEMMA StepSerial == InTurn /\ TypeOK /\ Lifecycle /\ Serial /\ [Next]_vars => Serial'
<1> SUFFICES ASSUME InTurn /\ TypeOK /\ Lifecycle /\ Serial, [Next]_vars PROVE Serial'
  OBVIOUS
<1> USE CallsAssumption DEF TypeOK, Goto, shared, calls, runs, Manual, PCs, Final, Exited, Lifecycle, InFlight, Serial
<1>1. ASSUME NEW k \in Calls, Begin(k) PROVE Serial'
  <2>1. (\A j \in Calls : ~InFlight(j)) /\ (k = Main \/ pc[Main] # "idle")
    BY <1>1 DEF InTurn
  <2> QED
    BY <1>1, <2>1 DEF Begin, Ops, Entry
<1>2. ASSUME NEW k \in Calls, StartStep(k) PROVE Serial'
  <2>1. CASE RefuseRunning(k) BY <2>1 DEF RefuseRunning
  <2>2. CASE BeginStart(k) BY <2>2 DEF BeginStart
  <2>3. CASE NewContext(k) BY <2>3 DEF NewContext
  <2>4. CASE BuildFails(k) BY <2>4 DEF BuildFails, Abort
  <2>5. CASE BuildOk(k) BY <2>5 DEF BuildOk
  <2>6. CASE TransportsFail(k) BY <2>6 DEF TransportsFail, Abort
  <2>7. CASE TransportsOk(k) BY <2>7 DEF TransportsOk
  <2>8. CASE PipeFails(k) BY <2>8 DEF PipeFails
  <2>9. CASE SpawnFails(k) BY <2>9 DEF SpawnFails, Abort
  <2>10. CASE Spawn(k) BY <2>10 DEF Spawn
  <2>11. CASE Publish(k)
    <3>1. process = None /\ ~Manual(k) /\ InFlight(k)
      BY <2>11 DEF Publish
    <3>2. \A j \in Calls : InFlight(j) => j = k
      BY <3>1
    <3>3. \A r \in Calls : waiter[r] \notin {"wait", "settle"} /\ (proc[r] = "alive" => r = k)
      BY <3>1, <3>2
    <3> QED
      BY <2>11, <3>1, <3>2, <3>3 DEF Publish
  <2>12. CASE Register(k) BY <2>12 DEF Register
  <2>13. CASE RegisterManual(k) BY <2>13 DEF RegisterManual
  <2>14. CASE Announce(k) BY <2>14 DEF Announce
  <2> QED
    BY <1>2, <2>1, <2>2, <2>3, <2>4, <2>5, <2>6, <2>7, <2>8, <2>9,
       <2>10, <2>11, <2>12, <2>13, <2>14 DEF StartStep
<1>3. ASSUME NEW k \in Calls, StopStep(k) PROVE Serial'
  <2>1. CASE SnapStop(k) BY <2>1 DEF SnapStop
  <2>2. CASE StopUnregister(k) BY <2>2 DEF StopUnregister
  <2>3. CASE SignalKill(k) BY <2>3 DEF SignalKill
  <2>4. CASE SignalDone(k) BY <2>4 DEF SignalDone
  <2>5. CASE StopCancel(k) BY <2>5 DEF StopCancel
  <2>6. CASE SetStopped(k) BY <2>6 DEF SetStopped
  <2> QED
    BY <1>3, <2>1, <2>2, <2>3, <2>4, <2>5, <2>6 DEF StopStep
<1>4. ASSUME NEW r \in Calls, ProcessExits(r) \/ ContextKills(r) PROVE Serial'
  BY <1>4 DEF ProcessExits, ContextKills
<1>5. ASSUME NEW r \in Calls, WaiterStep(r) PROVE Serial'
  <2>1. CASE WaiterUnregister(r) BY <2>1 DEF WaiterUnregister
  <2>2. CASE WaiterSettle(r) BY <2>2 DEF WaiterSettle
  <2>3. CASE WaiterRelease(r) BY <2>3 DEF WaiterRelease
  <2> QED
    BY <1>5, <2>1, <2>2, <2>3 DEF WaiterStep
<1>6. CASE Terminating \/ UNCHANGED vars
  BY <1>6 DEF Terminating, vars
<1> QED
  BY <1>1, <1>2, <1>3, <1>4, <1>5, <1>6 DEF Next

\* When calls do not overlap, the instance never has two processes
\* (instance.go:331-340, 406-410, 444-454).
THEOREM OneProcess == ASSUME ~Overlap PROVE Spec => []AtMostOneProcess
<1>1. Init => Serial
  BY CallsAssumption DEF Init, Serial, InFlight, Manual, Final
<1>2. LifeInv /\ Serial /\ [Next]_vars => Serial'
  BY StepSerial, SerialInTurn DEF LifeInv
<1>3. LifeInv /\ Serial => AtMostOneProcess
  <2> SUFFICES ASSUME LifeInv, Serial PROVE Cardinality(AliveRuns) <= 1
    BY DEF AtMostOneProcess
  <2>1. ASSUME NEW j \in AliveRuns, NEW k \in AliveRuns PROVE j = k
    <3>1. /\ j \in Calls /\ (pc[j] = "publish" \/ process = j)
          /\ k \in Calls /\ (pc[k] = "publish" \/ process = k)
      BY DEF AliveRuns, Serial
    <3>2. \A r \in Calls : pc[r] = "publish" => InFlight(r) /\ process = None
      BY DEF LifeInv, Lifecycle, Serial, InFlight, Final
    <3> QED
      BY <3>1, <3>2, CallsAssumption DEF Serial
  <2>2. CASE AliveRuns = {}
    BY <2>2, FS_EmptySet
  <2>3. CASE AliveRuns # {}
    <3>1. PICK r \in AliveRuns : AliveRuns = {r}
      BY <2>1, <2>3
    <3> QED
      BY <3>1, FS_Singleton
  <2> QED
    BY <2>2, <2>3
<1> QED
  BY <1>1, <1>2, <1>3, RunsFollowLifecycle, PTL DEF Spec

-----------------------------------------------------------------------------
(* What the fields tell, when calls do not overlap *)

\* No call begins before the boot loop's has returned.
LEMMA StepBootFirst ==
  InTurn /\ TypeOK /\ Lifecycle /\ Serial /\ BootFirst /\ [Next]_vars => BootFirst'
<1> SUFFICES ASSUME InTurn /\ TypeOK /\ Lifecycle /\ Serial /\ BootFirst, [Next]_vars PROVE BootFirst'
  OBVIOUS
<1> USE CallsAssumption DEF TypeOK, Goto, shared, calls, runs, Manual, Final, PCs, InFlight, Lifecycle, Serial, BootFirst
<1>1. ASSUME NEW k \in Calls, Begin(k) PROVE BootFirst'
  <2>1. (\A j \in Calls : ~InFlight(j)) /\ (k = Main \/ pc[Main] # "idle")
    BY <1>1 DEF InTurn
  <2> QED
    BY <1>1, <2>1 DEF Begin, Ops, Entry
<1>2. ASSUME NEW k \in Calls, StartStep(k) PROVE BootFirst'
  <2>1. CASE RefuseRunning(k) BY <2>1 DEF RefuseRunning
  <2>2. CASE BeginStart(k) BY <2>2 DEF BeginStart
  <2>3. CASE NewContext(k) BY <2>3 DEF NewContext
  <2>4. CASE BuildFails(k) BY <2>4 DEF BuildFails, Abort
  <2>5. CASE BuildOk(k) BY <2>5 DEF BuildOk
  <2>6. CASE TransportsFail(k) BY <2>6 DEF TransportsFail, Abort
  <2>7. CASE TransportsOk(k) BY <2>7 DEF TransportsOk
  <2>8. CASE PipeFails(k) BY <2>8 DEF PipeFails
  <2>9. CASE SpawnFails(k) BY <2>9 DEF SpawnFails, Abort
  <2>10. CASE Spawn(k) BY <2>10 DEF Spawn
  <2>11. CASE Publish(k) BY <2>11 DEF Publish
  <2>12. CASE Register(k) BY <2>12 DEF Register
  <2>13. CASE RegisterManual(k) BY <2>13 DEF RegisterManual
  <2>14. CASE Announce(k) BY <2>14 DEF Announce
  <2> QED
    BY <1>2, <2>1, <2>2, <2>3, <2>4, <2>5, <2>6, <2>7, <2>8, <2>9,
       <2>10, <2>11, <2>12, <2>13, <2>14 DEF StartStep
<1>3. ASSUME NEW k \in Calls, StopStep(k) PROVE BootFirst'
  <2>1. CASE SnapStop(k) BY <2>1 DEF SnapStop
  <2>2. CASE StopUnregister(k) BY <2>2 DEF StopUnregister
  <2>3. CASE SignalKill(k)
    <3>1. UNCHANGED <<shared, calls, ctx, waiter>>
      BY <2>3 DEF SignalKill
    <3> QED
      BY <3>1
  <2>4. CASE SignalDone(k) BY <2>4 DEF SignalDone
  <2>5. CASE StopCancel(k) BY <2>5 DEF StopCancel
  <2>6. CASE SetStopped(k) BY <2>6 DEF SetStopped
  <2> QED
    BY <1>3, <2>1, <2>2, <2>3, <2>4, <2>5, <2>6 DEF StopStep
<1>4. ASSUME NEW r \in Calls, ProcessExits(r) \/ ContextKills(r) PROVE BootFirst'
  BY <1>4 DEF ProcessExits, ContextKills
<1>5. ASSUME NEW r \in Calls, WaiterStep(r) PROVE BootFirst'
  <2>1. CASE WaiterUnregister(r) BY <2>1 DEF WaiterUnregister
  <2>2. CASE WaiterSettle(r) BY <2>2 DEF WaiterSettle
  <2>3. CASE WaiterRelease(r) BY <2>3 DEF WaiterRelease
  <2> QED
    BY <1>5, <2>1, <2>2, <2>3 DEF WaiterStep
<1>6. CASE Terminating \/ UNCHANGED vars
  BY <1>6 DEF Terminating, vars
<1> QED
  BY <1>1, <1>2, <1>3, <1>4, <1>5, <1>6 DEF Next

\* The flag goes up as a Stop begins, and its process is gone when it ends.
LEMMA StepStopFlag ==
  TypeOK /\ Lifecycle /\ Serial /\ StopReads /\ StopFlag /\ [Next]_vars => StopFlag'
<1> SUFFICES ASSUME TypeOK /\ Lifecycle /\ Serial /\ StopReads /\ StopFlag, [Next]_vars PROVE StopFlag'
  OBVIOUS
<1> USE CallsAssumption DEF TypeOK, Goto, shared, calls, runs, Manual, Final, Lifecycle, InFlight, Serial, StopAsked, StopReads, StopFlag
<1>1. ASSUME NEW k \in Calls, Begin(k) PROVE StopFlag'
  BY <1>1 DEF Begin, Ops, Entry, MayBegin
<1>2. ASSUME NEW k \in Calls, StartStep(k) PROVE StopFlag'
  <2>1. CASE RefuseRunning(k) BY <2>1 DEF RefuseRunning
  <2>2. CASE BeginStart(k) BY <2>2 DEF BeginStart
  <2>3. CASE NewContext(k) BY <2>3 DEF NewContext
  <2>4. CASE BuildFails(k) BY <2>4 DEF BuildFails, Abort
  <2>5. CASE BuildOk(k) BY <2>5 DEF BuildOk
  <2>6. CASE TransportsFail(k) BY <2>6 DEF TransportsFail, Abort
  <2>7. CASE TransportsOk(k) BY <2>7 DEF TransportsOk
  <2>8. CASE PipeFails(k) BY <2>8 DEF PipeFails
  <2>9. CASE SpawnFails(k) BY <2>9 DEF SpawnFails, Abort
  <2>10. CASE Spawn(k)
    <3>1. /\ pc[k] = "spawn" /\ pc' = [pc EXCEPT ![k] = "publish"] /\ pc \in [Calls -> PCs]
          /\ UNCHANGED <<stopping, waiter, op>>
      BY <2>10 DEF Spawn
    <3> HIDE DEF TypeOK, Lifecycle, Serial, StopReads
    <3>2. StopAsked' <=> StopAsked
      BY <3>1
    <3>3. pc'[k] = "publish" /\ \A r \in Calls \ {k} : pc'[r] = pc[r]
      BY <3>1
    <3> QED
      BY <3>1, <3>2, <3>3, SMTT(30)
  <2>11. CASE Publish(k) BY <2>11, SMTT(30) DEF Publish
  <2>12. CASE Register(k) BY <2>12 DEF Register
  <2>13. CASE RegisterManual(k) BY <2>13 DEF RegisterManual
  <2>14. CASE Announce(k) BY <2>14 DEF Announce
  <2> QED
    BY <1>2, <2>1, <2>2, <2>3, <2>4, <2>5, <2>6, <2>7, <2>8, <2>9,
       <2>10, <2>11, <2>12, <2>13, <2>14 DEF StartStep
<1>3. ASSUME NEW k \in Calls, StopStep(k) PROVE StopFlag'
  <2>1. CASE SnapStop(k) BY <2>1 DEF SnapStop
  <2>2. CASE StopUnregister(k) BY <2>2 DEF StopUnregister
  <2>3. CASE SignalKill(k)
    <3>1. UNCHANGED <<shared, calls, ctx, waiter>>
      BY <2>3 DEF SignalKill
    <3> QED
      BY <3>1
  <2>4. CASE SignalDone(k) BY <2>4 DEF SignalDone
  <2>5. CASE StopCancel(k)
    <3>1. /\ pc[k] = "cancel" /\ pc' = [pc EXCEPT ![k] = "settle"] /\ pc \in [Calls -> PCs]
          /\ UNCHANGED stopping
      BY <2>5 DEF StopCancel
    <3> HIDE DEF TypeOK, Lifecycle, Serial, StopReads
    <3>2. pc'[k] = "settle"
      BY <3>1
    <3>3. StopAsked /\ StopAsked'
      BY <3>1, <3>2
    <3> QED
      BY <3>1, <3>3
  <2>6. CASE SetStopped(k) BY <2>6, SMTT(30) DEF SetStopped
  <2> QED
    BY <1>3, <2>1, <2>2, <2>3, <2>4, <2>5, <2>6 DEF StopStep
<1>4. ASSUME NEW r \in Calls, ProcessExits(r) \/ ContextKills(r) PROVE StopFlag'
  BY <1>4 DEF ProcessExits, ContextKills
<1>5. ASSUME NEW r \in Calls, WaiterStep(r) PROVE StopFlag'
  <2>1. CASE WaiterUnregister(r) BY <2>1 DEF WaiterUnregister
  <2>2. CASE WaiterSettle(r) BY <2>2 DEF WaiterSettle
  <2>3. CASE WaiterRelease(r) BY <2>3 DEF WaiterRelease
  <2> QED
    BY <1>5, <2>1, <2>2, <2>3 DEF WaiterStep
<1>6. CASE Terminating \/ UNCHANGED vars
  BY <1>6 DEF Terminating, vars
<1> QED
  BY <1>1, <1>2, <1>3, <1>4, <1>5, <1>6 DEF Next

\* Only the one call in flight stores what a Stop has read.
LEMMA StepStopReads ==
  TypeOK /\ Lifecycle /\ CancelExists /\ Serial /\ StopReads /\ [Next]_vars => StopReads'
<1> SUFFICES ASSUME TypeOK /\ Lifecycle /\ CancelExists /\ Serial /\ StopReads, [Next]_vars PROVE StopReads'
  OBVIOUS
<1> USE CallsAssumption DEF TypeOK, Goto, shared, calls, runs, Manual, Final, Lifecycle, BeforeRun, CancelExists, InFlight, Serial, StopReads
<1>1. ASSUME NEW k \in Calls, Begin(k) PROVE StopReads'
  BY <1>1 DEF Begin, Ops, Entry, MayBegin
<1>2. ASSUME NEW k \in Calls, StartStep(k) PROVE StopReads'
  <2>1. CASE RefuseRunning(k) BY <2>1 DEF RefuseRunning
  <2>2. CASE BeginStart(k) BY <2>2 DEF BeginStart
  <2>3. CASE NewContext(k) BY <2>3 DEF NewContext
  <2>4. CASE BuildFails(k) BY <2>4 DEF BuildFails, Abort
  <2>5. CASE BuildOk(k) BY <2>5 DEF BuildOk
  <2>6. CASE TransportsFail(k) BY <2>6 DEF TransportsFail, Abort
  <2>7. CASE TransportsOk(k) BY <2>7 DEF TransportsOk
  <2>8. CASE PipeFails(k) BY <2>8 DEF PipeFails
  <2>9. CASE SpawnFails(k) BY <2>9 DEF SpawnFails, Abort
  <2>10. CASE Spawn(k) BY <2>10 DEF Spawn
  <2>11. CASE Publish(k) BY <2>11 DEF Publish
  <2>12. CASE Register(k) BY <2>12 DEF Register
  <2>13. CASE RegisterManual(k) BY <2>13 DEF RegisterManual
  <2>14. CASE Announce(k) BY <2>14 DEF Announce
  <2> QED
    BY <1>2, <2>1, <2>2, <2>3, <2>4, <2>5, <2>6, <2>7, <2>8, <2>9,
       <2>10, <2>11, <2>12, <2>13, <2>14 DEF StartStep
<1>3. ASSUME NEW k \in Calls, StopStep(k) PROVE StopReads'
  <2>1. CASE SnapStop(k) BY <2>1 DEF SnapStop
  <2>2. CASE StopUnregister(k) BY <2>2 DEF StopUnregister
  <2>3. CASE SignalKill(k)
    <3>1. UNCHANGED <<shared, calls, ctx, waiter>>
      BY <2>3 DEF SignalKill
    <3> QED
      BY <3>1
  <2>4. CASE SignalDone(k) BY <2>4 DEF SignalDone
  <2>5. CASE StopCancel(k) BY <2>5 DEF StopCancel
  <2>6. CASE SetStopped(k) BY <2>6 DEF SetStopped
  <2> QED
    BY <1>3, <2>1, <2>2, <2>3, <2>4, <2>5, <2>6 DEF StopStep
<1>4. ASSUME NEW r \in Calls, ProcessExits(r) \/ ContextKills(r) PROVE StopReads'
  BY <1>4 DEF ProcessExits, ContextKills
<1>5. ASSUME NEW r \in Calls, WaiterStep(r) PROVE StopReads'
  <2>1. CASE WaiterUnregister(r) BY <2>1 DEF WaiterUnregister
  <2>2. CASE WaiterSettle(r) BY <2>2 DEF WaiterSettle
  <2>3. CASE WaiterRelease(r) BY <2>3 DEF WaiterRelease
  <2> QED
    BY <1>5, <2>1, <2>2, <2>3 DEF WaiterStep
<1>6. CASE Terminating \/ UNCHANGED vars
  BY <1>6 DEF Terminating, vars
<1> QED
  BY <1>1, <1>2, <1>3, <1>4, <1>5, <1>6 DEF Next

\* Nothing but its own end closes the context of a run, as Stop cancels when its process is gone.
LEMMA StepContextOpen ==
  TypeOK /\ Lifecycle /\ Serial /\ StopReads /\ ContextOpen /\ [Next]_vars => ContextOpen'
<1> SUFFICES ASSUME TypeOK /\ Lifecycle /\ Serial /\ StopReads /\ ContextOpen, [Next]_vars PROVE ContextOpen'
  OBVIOUS
<1> USE CallsAssumption DEF TypeOK, Goto, shared, calls, runs, Manual, Final, Lifecycle, InFlight, Serial, StopReads, ContextOpen
<1>1. ASSUME NEW k \in Calls, Begin(k) PROVE ContextOpen'
  BY <1>1 DEF Begin, Ops, Entry, MayBegin
<1>2. ASSUME NEW k \in Calls, StartStep(k) PROVE ContextOpen'
  <2>1. CASE RefuseRunning(k) BY <2>1 DEF RefuseRunning
  <2>2. CASE BeginStart(k) BY <2>2 DEF BeginStart
  <2>3. CASE NewContext(k) BY <2>3 DEF NewContext
  <2>4. CASE BuildFails(k) BY <2>4 DEF BuildFails, Abort
  <2>5. CASE BuildOk(k) BY <2>5 DEF BuildOk
  <2>6. CASE TransportsFail(k) BY <2>6 DEF TransportsFail, Abort
  <2>7. CASE TransportsOk(k) BY <2>7 DEF TransportsOk
  <2>8. CASE PipeFails(k) BY <2>8 DEF PipeFails
  <2>9. CASE SpawnFails(k) BY <2>9 DEF SpawnFails, Abort
  <2>10. CASE Spawn(k) BY <2>10 DEF Spawn
  <2>11. CASE Publish(k) BY <2>11 DEF Publish
  <2>12. CASE Register(k) BY <2>12 DEF Register
  <2>13. CASE RegisterManual(k) BY <2>13 DEF RegisterManual
  <2>14. CASE Announce(k) BY <2>14 DEF Announce
  <2> QED
    BY <1>2, <2>1, <2>2, <2>3, <2>4, <2>5, <2>6, <2>7, <2>8, <2>9,
       <2>10, <2>11, <2>12, <2>13, <2>14 DEF StartStep
<1>3. ASSUME NEW k \in Calls, StopStep(k) PROVE ContextOpen'
  <2>1. CASE SnapStop(k) BY <2>1 DEF SnapStop
  <2>2. CASE StopUnregister(k) BY <2>2 DEF StopUnregister
  <2>3. CASE SignalKill(k)
    <3>1. UNCHANGED <<shared, calls, ctx, waiter>>
      BY <2>3 DEF SignalKill
    <3> QED
      BY <3>1
  <2>4. CASE SignalDone(k) BY <2>4 DEF SignalDone
  <2>5. CASE StopCancel(k)
    <3>1. pc[k] = "cancel" /\ process = None /\ pc' = [pc EXCEPT ![k] = "settle"] /\ waiter' = waiter
      BY <2>5 DEF StopCancel
    <3>2. \A r \in Calls : InFlight(r) => r = k
      BY <3>1
    <3>3. \A r \in Calls : waiter[r] \notin {"wait", "settle"}
      BY <3>1
    <3> QED
      BY <3>1, <3>2, <3>3, SMTT(30)
  <2>6. CASE SetStopped(k) BY <2>6 DEF SetStopped
  <2> QED
    BY <1>3, <2>1, <2>2, <2>3, <2>4, <2>5, <2>6 DEF StopStep
<1>4. ASSUME NEW r \in Calls, ProcessExits(r) \/ ContextKills(r) PROVE ContextOpen'
  BY <1>4 DEF ProcessExits, ContextKills
<1>5. ASSUME NEW r \in Calls, WaiterStep(r) PROVE ContextOpen'
  <2>1. CASE WaiterUnregister(r) BY <2>1 DEF WaiterUnregister
  <2>2. CASE WaiterSettle(r) BY <2>2 DEF WaiterSettle
  <2>3. CASE WaiterRelease(r) BY <2>3 DEF WaiterRelease
  <2> QED
    BY <1>5, <2>1, <2>2, <2>3 DEF WaiterStep
<1>6. CASE Terminating \/ UNCHANGED vars
  BY <1>6 DEF Terminating, vars
<1> QED
  BY <1>1, <1>2, <1>3, <1>4, <1>5, <1>6 DEF Next

\* Stop and the waiter between them take back what the two runs have listed.
LEMMA StepMeshCounts ==
  TypeOK /\ Lifecycle /\ Serial /\ BootFirst /\ StopReads /\ MeshCounts /\ [Next]_vars => MeshCounts'
<1> SUFFICES ASSUME TypeOK /\ Lifecycle /\ Serial /\ BootFirst /\ StopReads /\ MeshCounts, [Next]_vars PROVE MeshCounts'
  OBVIOUS
<1> USE CallsAssumption DEF TypeOK, Goto, shared, calls, runs, Manual, Final, PCs, Lifecycle, InFlight, Serial, BootFirst, StopReads, Ending, Waiting, Unregistered, MeshCounts
<1>1. ASSUME NEW k \in Calls, Begin(k) PROVE MeshCounts'
  BY <1>1 DEF Begin, Ops, Entry, MayBegin
<1>2. ASSUME NEW k \in Calls, StartStep(k) PROVE MeshCounts'
  <2>1. CASE RefuseRunning(k) BY <2>1 DEF RefuseRunning
  <2>2. CASE BeginStart(k) BY <2>2 DEF BeginStart
  <2>3. CASE NewContext(k) BY <2>3 DEF NewContext
  <2>4. CASE BuildFails(k) BY <2>4 DEF BuildFails, Abort
  <2>5. CASE BuildOk(k) BY <2>5 DEF BuildOk
  <2>6. CASE TransportsFail(k) BY <2>6 DEF TransportsFail, Abort
  <2>7. CASE TransportsOk(k) BY <2>7 DEF TransportsOk
  <2>8. CASE PipeFails(k) BY <2>8 DEF PipeFails
  <2>9. CASE SpawnFails(k) BY <2>9 DEF SpawnFails, Abort
  <2>10. CASE Spawn(k) BY <2>10 DEF Spawn
  <2>11. CASE Publish(k) BY <2>11 DEF Publish
  <2>12. CASE Register(k) BY <2>12 DEF Register
  <2>13. CASE RegisterManual(k) BY <2>13 DEF RegisterManual
  <2>14. CASE Announce(k) BY <2>14 DEF Announce
  <2> QED
    BY <1>2, <2>1, <2>2, <2>3, <2>4, <2>5, <2>6, <2>7, <2>8, <2>9,
       <2>10, <2>11, <2>12, <2>13, <2>14 DEF StartStep
<1>3. ASSUME NEW k \in Calls, StopStep(k) PROVE MeshCounts'
  <2>1. CASE SnapStop(k) BY <2>1 DEF SnapStop
  <2>2. CASE StopUnregister(k) BY <2>2 DEF StopUnregister
  <2>3. CASE SignalKill(k)
    <3>1. UNCHANGED <<shared, calls, ctx, waiter>>
      BY <2>3 DEF SignalKill
    <3> QED
      BY <3>1
  <2>4. CASE SignalDone(k) BY <2>4 DEF SignalDone
  <2>5. CASE StopCancel(k) BY <2>5 DEF StopCancel
  <2>6. CASE SetStopped(k) BY <2>6 DEF SetStopped
  <2> QED
    BY <1>3, <2>1, <2>2, <2>3, <2>4, <2>5, <2>6 DEF StopStep
<1>4. ASSUME NEW r \in Calls, ProcessExits(r) \/ ContextKills(r) PROVE MeshCounts'
  BY <1>4 DEF ProcessExits, ContextKills
<1>5. ASSUME NEW r \in Calls, WaiterStep(r) PROVE MeshCounts'
  <2>1. CASE WaiterUnregister(r) BY <2>1 DEF WaiterUnregister
  <2>2. CASE WaiterSettle(r) BY <2>2 DEF WaiterSettle
  <2>3. CASE WaiterRelease(r) BY <2>3 DEF WaiterRelease
  <2> QED
    BY <1>5, <2>1, <2>2, <2>3 DEF WaiterStep
<1>6. CASE Terminating \/ UNCHANGED vars
  BY <1>6 DEF Terminating, vars
<1> QED
  BY <1>1, <1>2, <1>3, <1>4, <1>5, <1>6 DEF Next

\* Every step that changes the status changes the fields it tells of.
LEMMA StepStatusFollows ==
  TypeOK /\ Lifecycle /\ CancelExists /\ ProcessFieldFresh /\ Serial /\ BootFirst /\ StopReads /\ ContextOpen /\ MeshCounts /\ StatusFollows /\ [Next]_vars => StatusFollows'
<1> SUFFICES ASSUME TypeOK /\ Lifecycle /\ CancelExists /\ ProcessFieldFresh /\ Serial /\ BootFirst /\ StopReads /\ ContextOpen /\ MeshCounts /\ StatusFollows, [Next]_vars PROVE StatusFollows'
  OBVIOUS
<1> USE CallsAssumption DEF TypeOK, Goto, shared, calls, runs, Manual, Final, PCs, Statuses, Lifecycle, BeforeRun, CancelExists, InFlight, Serial, BootFirst, StopReads, ContextOpen, MeshCounts, Ending, Waiting, Unregistered, StatusFollows
<1>1. ASSUME NEW k \in Calls, Begin(k) PROVE StatusFollows'
  BY <1>1 DEF Begin, Ops, Entry, MayBegin
<1>2. ASSUME NEW k \in Calls, StartStep(k) PROVE StatusFollows'
  <2>1. CASE RefuseRunning(k) BY <2>1 DEF RefuseRunning
  <2>2. CASE BeginStart(k) BY <2>2 DEF BeginStart
  <2>3. CASE NewContext(k) BY <2>3 DEF NewContext
  <2>4. CASE BuildFails(k)
    <3>1. CASE Manual(k) BY <2>4, <3>1 DEF BuildFails, Abort
    <3>2. CASE ~Manual(k) BY <2>4, <3>2 DEF BuildFails, Abort
    <3> QED
      BY <3>1, <3>2
  <2>5. CASE BuildOk(k) BY <2>5 DEF BuildOk
  <2>6. CASE TransportsFail(k)
    <3>1. CASE Manual(k) BY <2>6, <3>1 DEF TransportsFail, Abort
    <3>2. CASE ~Manual(k) BY <2>6, <3>2 DEF TransportsFail, Abort
    <3> QED
      BY <3>1, <3>2
  <2>7. CASE TransportsOk(k) BY <2>7 DEF TransportsOk
  <2>8. CASE PipeFails(k) BY <2>8 DEF PipeFails
  <2>9. CASE SpawnFails(k) BY <2>9 DEF SpawnFails, Abort
  <2>10. CASE Spawn(k) BY <2>10 DEF Spawn
  <2>11. CASE Publish(k) BY <2>11 DEF Publish
  <2>12. CASE Register(k) BY <2>12 DEF Register
  <2>13. CASE RegisterManual(k) BY <2>13 DEF RegisterManual
  <2>14. CASE Announce(k)
    <3>1. k = Main /\ cancel = Main /\ pc[Main] = "announce" /\ ctx[Main] = "live"
      BY <2>14 DEF Announce
    <3>2. process = None
      BY <2>14, <3>1 DEF Announce, ProcessFieldFresh
    <3>3. /\ ~Ending(Main) /\ \A j \in Calls : ~Ending(j)'
          /\ grpc => registered = 1 /\ toService = Main
      BY <2>14, <3>1 DEF Announce
    <3> QED
      BY <2>14, <3>1, <3>2, <3>3 DEF Announce
  <2> QED
    BY <1>2, <2>1, <2>2, <2>3, <2>4, <2>5, <2>6, <2>7, <2>8, <2>9,
       <2>10, <2>11, <2>12, <2>13, <2>14 DEF StartStep
<1>3. ASSUME NEW k \in Calls, StopStep(k) PROVE StatusFollows'
  <2>1. CASE SnapStop(k) BY <2>1 DEF SnapStop
  <2>2. CASE StopUnregister(k) BY <2>2 DEF StopUnregister
  <2>3. CASE SignalKill(k)
    <3>1. UNCHANGED <<shared, calls, ctx, waiter>>
      BY <2>3 DEF SignalKill
    <3> QED
      BY <3>1
  <2>4. CASE SignalDone(k) BY <2>4 DEF SignalDone
  <2>5. CASE StopCancel(k) BY <2>5 DEF StopCancel
  <2>6. CASE SetStopped(k) BY <2>6 DEF SetStopped
  <2> QED
    BY <1>3, <2>1, <2>2, <2>3, <2>4, <2>5, <2>6 DEF StopStep
<1>4. ASSUME NEW r \in Calls, ProcessExits(r) \/ ContextKills(r) PROVE StatusFollows'
  BY <1>4 DEF ProcessExits, ContextKills
<1>5. ASSUME NEW r \in Calls, WaiterStep(r) PROVE StatusFollows'
  <2>1. CASE WaiterUnregister(r) BY <2>1 DEF WaiterUnregister
  <2>2. CASE WaiterSettle(r) BY <2>2 DEF WaiterSettle
  <2>3. CASE WaiterRelease(r) BY <2>3 DEF WaiterRelease
  <2> QED
    BY <1>5, <2>1, <2>2, <2>3 DEF WaiterStep
<1>6. CASE Terminating \/ UNCHANGED vars
  BY <1>6 DEF Terminating, vars
<1> QED
  BY <1>1, <1>2, <1>3, <1>4, <1>5, <1>6 DEF Next

\* What is known at every step when calls do not overlap.
SerialInv == LifeInv /\ ProcessFieldFresh /\ Serial /\ FieldsTell

LEMMA SerialInvInitially == Init => SerialInv
<1> SUFFICES ASSUME Init PROVE SerialInv
  OBVIOUS
<1>1. LifeInv /\ ProcessFieldFresh
  BY InitTypeOK, InitLifecycle DEF LifeInv, Init, ProcessFieldFresh
<1>2. Serial
  BY CallsAssumption DEF Init, Serial, InFlight, Manual, Final
<1>3. FieldsTell
  BY CallsAssumption DEF Init, FieldsTell, BootFirst, StopFlag, StopReads, ContextOpen, MeshCounts,
     StatusFollows, Manual, Final, StopAsked, Ending, Waiting
<1> QED
  BY <1>1, <1>2, <1>3 DEF SerialInv

LEMMA SerialInvInductive == InTurn /\ SerialInv /\ [Next]_vars => SerialInv'
<1> SUFFICES ASSUME InTurn /\ SerialInv /\ [Next]_vars PROVE SerialInv'
  OBVIOUS
<1> USE DEF SerialInv, LifeInv
<1>1. LifeInv' /\ ProcessFieldFresh' /\ Serial'
  BY StepTypeOK, StepLifecycle, StepCancelExists, StepFresh, StepSerial
<1>2. FieldsTell'
  BY StepBootFirst, StepStopFlag, StepStopReads, StepContextOpen, StepMeshCounts, StepStatusFollows
  DEF FieldsTell
<1> QED
  BY <1>1, <1>2

\* When calls do not overlap, the fields of the instance tell what goes on
\* (instance.go:331-340, 406-454, 497-540).
THEOREM SerialFieldsTell == ASSUME ~Overlap PROVE Spec => []SerialInv
<1>1. SerialInv /\ [Next]_vars => SerialInv'
  BY SerialInvInductive, SerialInTurn
<1> QED
  BY <1>1, SerialInvInitially, PTL DEF Spec

\* Between calls that do not overlap the status tells what the instance does, for
\* any number of starts, stops, restarts and crashes (instance.go:331-340, 406-454).
THEOREM StatusIsTrue == ASSUME ~Overlap PROVE Spec => []StatusTellsTruth
<1>1. SerialInv /\ StartingExplained => StatusTellsTruth
  <2> SUFFICES ASSUME SerialInv, StartingExplained, Quiet PROVE StatusTellsTruth
    BY DEF StatusTellsTruth
  <2> USE DEF SerialInv, FieldsTell
  <2>1. \A k \in Calls : pc[k] \in Final \cup {"idle"}
    BY DEF Quiet, InFlight
  <2>2. \A k \in Calls : ~Ending(k)
    BY <2>1 DEF Ending, Final
  <2>3. AliveRuns \subseteq {process}
    BY <2>1 DEF AliveRuns, Serial, Final
  <2>4. process # None => /\ process \in Calls
                          /\ waiter[process] \in {"wait", "settle"} /\ ctx[process] = "live"
                          /\ waiter[process] = "wait" => registered >= 1
    <3> SUFFICES ASSUME process # None PROVE
          /\ process \in Calls
          /\ waiter[process] \in {"wait", "settle"} /\ ctx[process] = "live"
          /\ waiter[process] = "wait" => registered >= 1
      OBVIOUS
    <3>1. process \in Calls
      BY DEF LifeInv, TypeOK
    <3>2. waiter[process] \in {"wait", "settle"}
      BY <2>1, <3>1 DEF ProcessFieldFresh, Final
    <3> QED
      BY <2>2, <3>1, <3>2 DEF ContextOpen, MeshCounts, Waiting
  <2>5. status = "starting" => \E k \in Calls : pc[k] = "pipeError"
    BY <2>1 DEF StartingExplained, Final
  <2> QED
    BY <2>2, <2>3, <2>4, <2>5 DEF StatusTellsTruth, StatusFollows
<1> QED
  BY <1>1, SerialFieldsTell, StartingIsExplained, PTL

\* What a Stop leaves when it comes to its end.
Stopped ==
  /\ AliveRuns = {} /\ process = None /\ registered = 0
  /\ \A r \in Calls : ctx[r] = "live" /\ waiter[r] # "release" => Manual(r) /\ cancel # r

LEMMA SettledIsStopped ==
  ASSUME SerialInv, NEW k \in Calls, pc[k] = "settle"
  PROVE  Stopped
<1> USE DEF SerialInv, FieldsTell
<1>1. \A j \in Calls : j # k => pc[j] \in Final \cup {"idle"}
  BY DEF Serial, InFlight, Final
<1>2. process = None /\ \A r \in Calls : waiter[r] \notin {"wait", "settle"}
  BY CallsAssumption DEF StopReads, Serial
<1>3. AliveRuns = {}
  BY <1>1, <1>2, CallsAssumption DEF AliveRuns, Serial, Final
<1>4. registered = 0
  <2>1. Ending(k)
    BY DEF Ending
  <2> QED
    BY <1>2, <2>1 DEF MeshCounts, Waiting, LifeInv, TypeOK
<1>5. ASSUME NEW r \in Calls, ctx[r] = "live", waiter[r] # "release" PROVE Manual(r) /\ cancel # r
  <2>1. pc[r] \in Final
    BY <1>1, <1>5 DEF LifeInv, Lifecycle, BeforeRun, Final
  <2>2. Manual(r)
    BY <1>2, <1>5, <2>1 DEF LifeInv, Lifecycle, Final, BeforeRun
  <2>3. cancel # r
    BY <1>5, CallsAssumption DEF StopReads
  <2> QED
    BY <2>2, <2>3
<1> QED
  BY <1>2, <1>3, <1>4, <1>5 DEF Stopped

\* When a Stop that no other call overlaps ends, nothing of the instance goes on,
\* but for a manual run that a later Start has cut off (instance.go:497-540).
THEOREM StopsAreComplete == ASSUME ~Overlap PROVE Spec => StopMeansStopped
<1>1. SerialInv => [\A k \in Calls : pc[k] = "settle" /\ pc'[k] # "settle" => Stopped]_vars
  BY SettledIsStopped
<1> QED
  BY <1>1, SerialFieldsTell, PTL DEF StopMeansStopped, Stopped

\* A run is settled by its waiter only.
LEMMA SettledByWaiter ==
  ASSUME TypeOK, [Next]_vars, NEW r \in Calls, waiter[r] = "settle", waiter'[r] = "release"
  PROVE  WaiterSettle(r)
<1> USE CallsAssumption DEF TypeOK, shared, calls, runs
<1>1. ASSUME NEW k \in Calls, Begin(k) \/ StopStep(k) \/ ProcessExits(k) \/ ContextKills(k) PROVE waiter' = waiter
  BY <1>1 DEF Begin, StopStep, SnapStop, StopUnregister, SignalKill, SignalDone, StopCancel, SetStopped,
     ProcessExits, ContextKills
<1>2. ASSUME NEW k \in Calls, StartStep(k) PROVE waiter'[r] = waiter[r] \/ waiter'[r] = "wait"
  BY <1>2 DEF StartStep, RefuseRunning, BeginStart, NewContext, BuildFails, BuildOk, TransportsFail,
     TransportsOk, PipeFails, SpawnFails, Abort, Spawn, Publish, Register, RegisterManual, Announce
<1>3. ASSUME NEW k \in Calls, WaiterStep(k) PROVE WaiterSettle(r)
  BY <1>3 DEF WaiterStep, WaiterUnregister, WaiterSettle, WaiterRelease
<1>4. ~(Terminating \/ UNCHANGED vars)
  BY DEF Terminating, vars
<1> QED
  BY <1>1, <1>2, <1>3, <1>4 DEF Next

\* When calls do not overlap, the exit of a process is reported as a crash exactly
\* if it failed and no Stop waits for it (instance.go:444-454, 501).
THEOREM CrashesAreReported == ASSUME ~Overlap PROVE Spec => CrashReported
<1>1. SerialInv /\ [Next]_vars =>
        [\A r \in Calls : waiter[r] = "settle" /\ waiter'[r] = "release" =>
           (status' = "error" <=> proc[r] = "fail" /\ ~StopAsked)]_vars
  <2> SUFFICES ASSUME SerialInv, [Next]_vars, NEW r \in Calls,
                      waiter[r] = "settle", waiter'[r] = "release"
               PROVE  status' = "error" <=> proc[r] = "fail" /\ ~StopAsked
    OBVIOUS
  <2>1. WaiterSettle(r)
    BY SettledByWaiter DEF SerialInv, LifeInv
  <2>2. stopping <=> StopAsked
    BY DEF SerialInv, FieldsTell, StopFlag, LifeInv, TypeOK
  <2> QED
    BY <2>1, <2>2 DEF WaiterSettle
<1> QED
  BY <1>1, SerialFieldsTell, PTL DEF CrashReported, Spec

-----------------------------------------------------------------------------
(* What the end of the program leaves behind *)

\* A step of a call is of one in flight, moves that call only, and sets the cancel
\* function only as it makes its context.
LEMMA StepOwnsCall ==
  ASSUME TypeOK, NEW k \in Calls, StartStep(k) \/ StopStep(k)
  PROVE  /\ InFlight(k) /\ UNCHANGED op
         /\ \E label \in PCs \ {"idle"} : pc' = [pc EXCEPT ![k] = label]
         /\ cancel' = cancel \/ (pc[k] = "context" /\ cancel' = k)
         /\ Manual(k) /\ pc[k] = "context" => cancel' = k
<1> USE DEF Goto, shared, calls, runs, InFlight, Final, PCs
<1>1. CASE StartStep(k)
  <2>1. CASE RefuseRunning(k) BY <2>1 DEF RefuseRunning
  <2>2. CASE BeginStart(k) BY <2>2 DEF BeginStart
  <2>3. CASE NewContext(k) BY <2>3 DEF NewContext
  <2>4. CASE BuildFails(k) BY <2>4 DEF BuildFails, Abort
  <2>5. CASE BuildOk(k) BY <2>5 DEF BuildOk
  <2>6. CASE TransportsFail(k) BY <2>6 DEF TransportsFail, Abort
  <2>7. CASE TransportsOk(k) BY <2>7 DEF TransportsOk
  <2>8. CASE PipeFails(k) BY <2>8 DEF PipeFails
  <2>9. CASE SpawnFails(k) BY <2>9 DEF SpawnFails, Abort
  <2>10. CASE Spawn(k) BY <2>10 DEF Spawn
  <2>11. CASE Publish(k) BY <2>11 DEF Publish
  <2>12. CASE Register(k) BY <2>12 DEF Register
  <2>13. CASE RegisterManual(k) BY <2>13 DEF RegisterManual
  <2>14. CASE Announce(k) BY <2>14 DEF Announce
  <2> QED
    BY <1>1, <2>1, <2>2, <2>3, <2>4, <2>5, <2>6, <2>7, <2>8, <2>9,
       <2>10, <2>11, <2>12, <2>13, <2>14 DEF StartStep
<1>2. CASE StopStep(k)
  <2>1. CASE SnapStop(k) BY <2>1 DEF SnapStop
  <2>2. CASE StopUnregister(k) BY <2>2 DEF StopUnregister
  <2>3. CASE SignalKill(k)
    <3>1. pc[k] = "signal" /\ UNCHANGED <<pc, op, cancel>>
      BY <2>3 DEF SignalKill
    <3>2. pc' = [pc EXCEPT ![k] = "signal"]
      BY <3>1 DEF TypeOK
    <3> QED
      BY <3>1, <3>2
  <2>4. CASE SignalDone(k) BY <2>4 DEF SignalDone
  <2>5. CASE StopCancel(k) BY <2>5 DEF StopCancel
  <2>6. CASE SetStopped(k)
    <3>1. pc[k] = "settle" /\ UNCHANGED <<op, cancel>>
      BY <2>6 DEF SetStopped
    <3>2. \E label \in {"check", "returned"} : pc' = [pc EXCEPT ![k] = label]
      BY <2>6 DEF SetStopped
    <3> QED
      BY <3>1, <3>2
  <2> QED
    BY <1>2, <2>1, <2>2, <2>3, <2>4, <2>5, <2>6 DEF StopStep
<1> QED
  BY <1>1, <1>2

Stopping == {"stop", "unregister", "signal", "cancel", "settle", "returned"}

\* A Stop goes through its steps, and ends with the last of them.
LEMMA StepOfStop ==
  ASSUME TypeOK, NEW k \in Calls, op[k] = "stop", pc[k] \in Stopping, StartStep(k) \/ StopStep(k)
  PROVE  /\ pc'[k] \in Stopping
         /\ pc'[k] = "returned" => SetStopped(k)
<1> USE DEF Goto, shared, calls, runs, Final, PCs, Stopping
<1>1. ~StartStep(k)
  BY DEF StartStep, RefuseRunning, BeginStart, NewContext, BuildFails, BuildOk, TransportsFail, TransportsOk,
     PipeFails, SpawnFails, Spawn, Publish, Register, RegisterManual, Announce
<1>2. CASE SnapStop(k) BY <1>2 DEF SnapStop
<1>3. CASE StopUnregister(k) BY <1>3 DEF StopUnregister
<1>4. CASE SignalKill(k) BY <1>4 DEF SignalKill
<1>5. CASE SignalDone(k) BY <1>5 DEF SignalDone
<1>6. CASE StopCancel(k) BY <1>6 DEF StopCancel
<1>7. CASE SetStopped(k) BY <1>7 DEF SetStopped
<1> QED
  BY <1>1, <1>2, <1>3, <1>4, <1>5, <1>6, <1>7 DEF StopStep

\* No other step is of a call, nor does it set the cancel function.
LEMMA StepOfRun ==
  ASSUME NEW k \in Calls, ContextKills(k) \/ WaiterStep(k) \/ ProcessExits(k)
  PROVE  UNCHANGED <<pc, op, cancel>>
  BY DEF ContextKills, WaiterStep, WaiterUnregister, WaiterSettle, WaiterRelease, ProcessExits, shared, calls

\* What a step of the program is to the instance.
LEMMA RunnerStep ==
  ASSUME [RunnerNext]_runnerVars
  PROVE  [Next]_vars
<1> USE CallsAssumption, RunnerAssumption
<1>1. CASE Boot \/ StopService \/ \E k \in Restarts : Fire(k)
  <2>1. \E k \in Calls : Begin(k)
    BY <1>1 DEF Boot, StopService, Fire
  <2> QED
    BY <2>1 DEF Next
<1>2. CASE Booted \/ Interrupt \/ CloseWatchers \/ Exit \/ WatchBegins \/ Edit \/ Take \/ Schedule
  BY <1>2 DEF Booted, Interrupt, CloseWatchers, Exit, WatchBegins, Edit, Take, Schedule
<1>3. CASE \E k \in ServiceRuns \cup {Down} : Call(k)
  BY <1>3 DEF Call, ServiceRuns, Next
<1>4. CASE \E k \in ServiceRuns : Reap(k) \/ ProcessEnds(k)
  BY <1>4 DEF Reap, ProcessEnds, ServiceRuns, Next
<1>5. CASE UNCHANGED runnerVars
  BY <1>5 DEF runnerVars
<1> QED
  BY <1>1, <1>2, <1>3, <1>4, <1>5 DEF RunnerNext

\* Whatever the goroutines of the program do, the instance sees calls it knows, so
\* what holds of it however calls overlap holds in the program (main.go:144-200,
\* watcher.go:93-106).
THEOREM RunnerMakesCalls == RunnerSpec => Spec
<1>1. RunnerInit => Init
  BY DEF RunnerInit
<1>2. [RunnerNext]_runnerVars => [Next]_vars
  BY RunnerStep
<1> QED
  BY <1>1, <1>2, PTL DEF RunnerSpec, Spec

LEMMA StepRunnerTypes ==
  ASSUME RunnerTypeOK, [RunnerNext]_runnerVars
  PROVE  RunnerTypeOK'
<1>1. TypeOK'
  BY RunnerStep, StepTypeOK DEF RunnerTypeOK
<1>2. phase' \in {"boot", "wait", "close", "stop", "exited"}
  BY DEF RunnerTypeOK, RunnerNext, runnerVars, watching, Boot, Booted, Interrupt, CloseWatchers, StopService, Exit,
     WatchBegins, Edit, Take, Schedule, Fire, Call, Reap, ProcessEnds
<1>3. watch' \in {"none", "spawned", "on", "closed"}
  BY DEF RunnerTypeOK, RunnerNext, runnerVars, watching, Boot, Booted, Interrupt, CloseWatchers, StopService, Exit,
     WatchBegins, Edit, Take, Schedule, Fire, Call, Reap, ProcessEnds
<1>4. timer' \in {"idle", "armed"} /\ taken' \in BOOLEAN
  BY DEF RunnerTypeOK, RunnerNext, runnerVars, watching, Boot, Booted, Interrupt, CloseWatchers, StopService, Exit,
     WatchBegins, Edit, Take, Schedule, Fire, Call, Reap, ProcessEnds
<1>5. raced' \in BOOLEAN
  BY DEF RunnerTypeOK, RunnerNext, runnerVars, watching, Boot, Booted, Interrupt, CloseWatchers, StopService, Exit,
     WatchBegins, Edit, Take, Schedule, Fire, Call, Reap, ProcessEnds
<1> QED
  BY <1>1, <1>2, <1>3, <1>4, <1>5 DEF RunnerTypeOK

\* The calls of the goroutines that have not come stay idle, and those that are
\* over stay so.
LEMMA CallMoves ==
  ASSUME RunnerTypeOK, NEW k \in Calls, StartStep(k) \/ StopStep(k)
  PROVE  /\ InFlight(k) /\ pc'[k] # "idle" /\ UNCHANGED op
         /\ \A j \in Calls \ {k} : pc'[j] = pc[j]
<1>1. PICK label \in PCs \ {"idle"} : pc' = [pc EXCEPT ![k] = label]
  BY StepOwnsCall DEF RunnerTypeOK
<1>2. InFlight(k) /\ UNCHANGED op
  BY StepOwnsCall DEF RunnerTypeOK
<1> QED
  BY <1>1, <1>2 DEF RunnerTypeOK, TypeOK

\* What Begin does to the call, and what it does not.
LEMMA BeginMoves ==
  ASSUME RunnerTypeOK, NEW k \in Calls, Begin(k)
  PROVE  /\ pc[k] = "idle" /\ pc'[k] # "idle" /\ UNCHANGED cancel
         /\ \A j \in Calls \ {k} : pc'[j] = pc[j] /\ op'[j] = op[j]
         /\ op'[k] = "stop" \/ op'[k] = "restart" => pc'[k] = "stop"
         /\ op'[k] = "manual" => k = Main /\ pc'[k] = "context"
<1>1. PICK o \in Ops(k) : op' = [op EXCEPT ![k] = o] /\ pc' = [pc EXCEPT ![k] = Entry(o)]
  BY DEF Begin, Goto
<1>2. Entry(o) \in {"check", "context", "stop"}
  BY DEF Entry
<1>3. (o = "stop" \/ o = "restart" => Entry(o) = "stop") /\ (o = "manual" => Entry(o) = "context")
  BY DEF Entry
<1>4. pc[k] = "idle" /\ UNCHANGED cancel
  BY DEF Begin, shared
<1>5. op'[k] = o /\ pc'[k] = Entry(o) /\ \A j \in Calls \ {k} : pc'[j] = pc[j] /\ op'[j] = op[j]
  BY <1>1 DEF RunnerTypeOK, TypeOK
<1>6. o = "manual" => k = Main
  BY DEF Ops
<1> QED
  BY <1>2, <1>3, <1>4, <1>5, <1>6

LEMMA StepPhases ==
  ASSUME RunnerTypeOK, PhasesInTurn, RestartsAreWatched, [RunnerNext]_runnerVars
  PROVE  PhasesInTurn'
<1> USE CallsAssumption, RunnerAssumption DEF PhasesInTurn
<1>0. \A k \in Calls : InFlight(k) <=> pc[k] \notin Final \cup {"idle"}
  BY DEF InFlight
<1>1. CASE Boot
  <2>1. phase = "boot" /\ UNCHANGED <<phase, watch>> /\ \A j \in Calls \ {Main} : pc'[j] = pc[j]
    BY <1>1, BeginMoves DEF Boot, watching
  <2> QED
    BY <2>1
<1>2. CASE Booted
  <2>1. phase = "boot" /\ phase' = "wait" /\ pc[Main] \in Final /\ UNCHANGED <<pc, op>>
    BY <1>2 DEF Booted, vars
  <2> QED
    BY <2>1
<1>9. CASE CloseWatchers
  <2>1. phase = "wait" /\ phase' = "close" /\ UNCHANGED <<pc, op>>
    BY <1>9 DEF CloseWatchers, vars
  <2> QED
    BY <2>1
<1>3. CASE Interrupt \/ WatchBegins \/ Edit \/ Take \/ Schedule \/ UNCHANGED runnerVars
  <2>1. UNCHANGED <<pc, op>>
    BY <1>3 DEF Interrupt, WatchBegins, Edit, Take, Schedule, runnerVars, vars
  <2>2. phase' = phase
    BY <1>3 DEF Interrupt, WatchBegins, Edit, Take, Schedule, runnerVars
  <2>3. watch = "none" => watch' = "none"
    BY <1>3 DEF Interrupt, WatchBegins, Edit, Take, Schedule, runnerVars, watching
  <2> QED
    BY <2>1, <2>2, <2>3
<1>4. CASE StopService
  <2>1. phase = "close" /\ phase' = "stop" /\ Begin(Down) /\ op'[Down] = "stop"
    BY <1>4 DEF StopService
  <2>2. pc'[Down] = "stop" /\ pc'[Main] = pc[Main]
    BY <2>1, BeginMoves
  <2> QED
    BY <2>1, <2>2
<1>5. CASE Exit
  <2>1. phase = "stop" /\ phase' = "exited" /\ pc[Down] = "returned" /\ UNCHANGED <<pc, op>>
    BY <1>5 DEF Exit, vars
  <2> QED
    BY <2>1
<1>6. ASSUME NEW k \in Restarts, Fire(k) PROVE PhasesInTurn'
  <2>1. timer = "armed" /\ Begin(k) /\ UNCHANGED <<phase, watch>>
    BY <1>6 DEF Fire
  <2>2. phase # "boot"
    BY <2>1 DEF RestartsAreWatched
  <2>3. pc'[Main] = pc[Main] /\ pc'[Down] = pc[Down] /\ op'[Down] = op[Down]
    BY <2>1, BeginMoves
  <2> QED
    BY <2>1, <2>2, <2>3
<1>7. ASSUME NEW k \in ServiceRuns \cup {Down}, Call(k) PROVE PhasesInTurn'
  <2>0. k \in Calls
    BY DEF ServiceRuns
  <2>1. (StartStep(k) \/ StopStep(k)) /\ UNCHANGED <<phase, watch>>
    BY <1>7 DEF Call, watching
  <2>2. InFlight(k) /\ UNCHANGED op /\ \A j \in Calls \ {k} : pc'[j] = pc[j]
    BY <2>0, <2>1, CallMoves
  <2>3. k # Main => pc'[Main] = pc[Main]
    BY <2>2
  <2>4. k # Down => pc'[Down] = pc[Down]
    BY <2>2
  <2>5. k = Main => phase = "boot"
    BY <2>2, <1>0
  <2>6. k = Down => phase = "stop" /\ pc'[Down] \in {"stop", "unregister", "signal", "cancel", "settle", "returned"}
    <3> SUFFICES ASSUME k = Down PROVE phase = "stop" /\ pc'[Down] \in Stopping
      BY DEF Stopping
    <3>1. pc[Down] # "idle" /\ pc[Down] # "returned"
      BY <2>2, <1>0 DEF Final
    <3>2. phase = "stop" /\ op[Down] = "stop" /\ pc[Down] \in Stopping
      BY <3>1 DEF RunnerTypeOK, Stopping
    <3> QED
      BY <2>0, <2>1, <3>2, StepOfStop DEF RunnerTypeOK
  <2>7. phase = "boot" => k = Main
    BY <2>0, <2>2, <1>0
  <2> QED
    BY <2>1, <2>2, <2>3, <2>4, <2>5, <2>6, <2>7
<1>8. ASSUME NEW k \in ServiceRuns, Reap(k) \/ ProcessEnds(k) PROVE PhasesInTurn'
  <2>1. ContextKills(k) \/ WaiterStep(k) \/ ProcessExits(k)
    BY <1>8 DEF Reap, ProcessEnds
  <2>2. k \in Calls
    BY DEF ServiceRuns
  <2>3. UNCHANGED <<pc, op, cancel>>
    BY <2>1, <2>2, StepOfRun
  <2>4. UNCHANGED <<phase, watch>>
    BY <1>8 DEF Reap, ProcessEnds, watching
  <2> QED
    BY <2>3, <2>4
<1> QED
  BY <1>1, <1>2, <1>3, <1>4, <1>5, <1>6, <1>7, <1>8, <1>9 DEF RunnerNext

LEMMA StepWatched ==
  ASSUME RunnerTypeOK, PhasesInTurn, RestartsAreWatched, [RunnerNext]_runnerVars
  PROVE  RestartsAreWatched'
<1> USE CallsAssumption, RunnerAssumption DEF RestartsAreWatched, Manual
<1>0. \A k \in Calls : InFlight(k) <=> pc[k] \notin Final \cup {"idle"}
  BY DEF InFlight
<1>1. CASE Boot
  <2>1. /\ phase = "boot" /\ Begin(Main) /\ UNCHANGED <<watch, taken, timer>>
    BY <1>1 DEF Boot, watching
  <2>2. watch = "none"
    BY <2>1 DEF PhasesInTurn
  <2>3. /\ \A j \in Calls \ {Main} : pc'[j] = pc[j]
        /\ op'[Main] = "manual" => pc'[Main] = "context"
    BY <2>1, BeginMoves
  <2> QED
    BY <2>1, <2>2, <2>3
<1>2. CASE Booted
  <2>1. phase = "boot" /\ UNCHANGED <<pc, op, cancel, taken, timer>> /\ watch' \in {"none", "spawned"}
    BY <1>2 DEF Booted, vars
  <2>2. op[Main] = "manual" => watch' = "none"
    BY <1>2 DEF Booted
  <2>3. watch = "none"
    BY <2>1 DEF PhasesInTurn
  <2> QED
    BY <2>1, <2>2, <2>3
<1>3. CASE Interrupt \/ Exit \/ Edit \/ UNCHANGED runnerVars
  <2>1. UNCHANGED <<pc, op, cancel>>
    BY <1>3 DEF Interrupt, Exit, Edit, runnerVars, vars
  <2>2. UNCHANGED <<watch, taken, timer>>
    BY <1>3 DEF Interrupt, Exit, Edit, runnerVars, watching
  <2> QED
    BY <2>1, <2>2
<1>4. CASE CloseWatchers \/ WatchBegins
  <2>1. UNCHANGED <<pc, op, cancel, taken, timer>>
    BY <1>4 DEF CloseWatchers, WatchBegins, vars
  <2>2. watch' = watch \/ (watch = "on" /\ watch' = "closed") \/ (watch = "spawned" /\ watch' \in {"on", "closed"})
    BY <1>4 DEF CloseWatchers, WatchBegins
  <2>3. watch = "spawned" => op[Main] # "manual"
    OBVIOUS
  <2> QED
    BY <2>1, <2>2, <2>3
<1>5. CASE Take \/ Schedule
  <2>1. UNCHANGED <<pc, op, cancel, watch>>
    BY <1>5 DEF Take, Schedule, vars
  <2>2. watch \notin {"none", "spawned"}
    BY <1>5 DEF Take, Schedule
  <2> QED
    BY <2>1, <2>2
<1>6. ASSUME NEW k \in Calls, k # Main, Begin(k), k \in Restarts => watch \notin {"none", "spawned"},
             UNCHANGED watch, taken' = taken, k \in Restarts \/ timer' = timer
      PROVE  RestartsAreWatched'
  <2>1. UNCHANGED cancel /\ \A j \in Calls \ {k} : pc'[j] = pc[j] /\ op'[j] = op[j]
    BY <1>6, BeginMoves
  <2>2. pc'[Main] = pc[Main] /\ op'[Main] = op[Main]
    BY <1>6, <2>1
  <2>3. k \notin Restarts => \A j \in Restarts : pc'[j] = pc[j]
    BY <2>1
  <2> QED
    BY <1>6, <2>1, <2>2, <2>3
<1>7. CASE StopService
  BY <1>6, <1>7 DEF StopService, watching
<1>8. ASSUME NEW k \in Restarts, Fire(k) PROVE RestartsAreWatched'
  <2>1. timer = "armed" /\ Begin(k) /\ UNCHANGED <<watch, taken>>
    BY <1>8 DEF Fire
  <2> QED
    BY <1>6, <2>1
<1>9. ASSUME NEW k \in ServiceRuns \cup {Down}, Call(k) PROVE RestartsAreWatched'
  <2>0. k \in Calls
    BY DEF ServiceRuns
  <2>1. (StartStep(k) \/ StopStep(k)) /\ UNCHANGED <<phase, watch, taken, timer>>
    BY <1>9 DEF Call, watching
  <2>2. InFlight(k) /\ UNCHANGED op /\ \A j \in Calls \ {k} : pc'[j] = pc[j]
    BY <2>0, <2>1, CallMoves
  <2>3. /\ cancel' = cancel \/ (pc[k] = "context" /\ cancel' = k)
        /\ op[k] = "manual" /\ pc[k] = "context" => cancel' = k
    BY <2>0, <2>1, StepOwnsCall DEF RunnerTypeOK
  <2>4. watch \in {"none", "spawned"} => \A j \in Restarts : pc'[j] = "idle"
    BY <2>0, <2>2, <1>0
  <2>5. ASSUME op[Main] = "manual", pc'[Main] \notin {"idle", "context"} PROVE cancel' = Main
    <3>1. CASE k = Main
      BY <1>0, <2>2, <2>3, <2>5, <3>1
    <3>2. CASE k = Down
      <4>1. phase \in {"stop", "exited"} /\ pc[Down] # "context"
        BY <1>0, <2>2, <3>2 DEF PhasesInTurn
      <4>2. pc'[Main] = pc[Main]
        BY <2>2, <3>2
      <4> QED
        BY <2>3, <2>5, <3>2, <4>1, <4>2
    <3>3. CASE k \in Restarts
      BY <1>0, <2>2, <2>5, <3>3
    <3> QED
      BY <2>0, <3>1, <3>2, <3>3
  <2> QED
    BY <2>1, <2>2, <2>4, <2>5
<1>10. ASSUME NEW k \in ServiceRuns, Reap(k) \/ ProcessEnds(k) PROVE RestartsAreWatched'
  <2>1. ContextKills(k) \/ WaiterStep(k) \/ ProcessExits(k)
    BY <1>10 DEF Reap, ProcessEnds
  <2>2. k \in Calls
    BY DEF ServiceRuns
  <2>3. UNCHANGED <<pc, op, cancel>>
    BY <2>1, <2>2, StepOfRun
  <2>4. UNCHANGED <<watch, taken, timer>>
    BY <1>10 DEF Reap, ProcessEnds, watching
  <2> QED
    BY <2>3, <2>4
<1> QED
  BY <1>1, <1>2, <1>3, <1>4, <1>5, <1>7, <1>8, <1>9, <1>10 DEF RunnerNext

\* A step of the program with ~raced still after it.
LEMMA StepRaced ==
  ASSUME [RunnerNext]_runnerVars, ~raced'
  PROVE  ~raced
  BY DEF RunnerNext, runnerVars, watching, Boot, Booted, Interrupt, CloseWatchers, StopService, Exit,
     WatchBegins, Edit, Take, Schedule, Fire, Call, Reap, ProcessEnds

\* Once the watchers are closed and there was no race, only the Stop is in flight.
LEMMA OnlyTheStop ==
  ASSUME RunnerTypeOK, PhasesInTurn, WatchersClosed, ~raced, phase \in {"close", "stop", "exited"}
  PROVE  /\ ~taken /\ timer = "idle" /\ watch \notin {"on", "spawned"}
         /\ \A k \in Calls : InFlight(k) => k = Down
<1>1. ~taken /\ timer # "armed" /\ watch # "spawned" /\ watch # "on" /\ \A k \in Restarts : ~InFlight(k)
  BY DEF WatchersClosed, RestartDue
<1>2. ~InFlight(Main)
  BY DEF PhasesInTurn, InFlight
<1>3. timer = "idle"
  BY <1>1 DEF RunnerTypeOK
<1> QED
  BY <1>1, <1>2, <1>3, RunnerAssumption

LEMMA ClosingSteps ==
  ASSUME RunnerTypeOK, PhasesInTurn, WatchersClosed, [RunnerNext]_runnerVars,
         ~raced, phase \in {"close", "stop", "exited"}
  PROVE  \/ Interrupt \/ Exit \/ Edit \/ UNCHANGED runnerVars
         \/ StopService
         \/ Call(Down)
         \/ \E k \in ServiceRuns : Reap(k) \/ ProcessEnds(k)
<1>1. ~taken /\ timer = "idle" /\ watch \notin {"on", "spawned"} /\ \A k \in Calls : InFlight(k) => k = Down
  BY OnlyTheStop
<1>2. ~(Boot \/ Booted \/ CloseWatchers)
  BY DEF Boot, Booted, CloseWatchers
<1>3. ~(WatchBegins \/ Take \/ Schedule \/ \E k \in Restarts : Fire(k))
  BY <1>1 DEF WatchBegins, Take, Schedule, Fire
<1>4. ASSUME NEW k \in ServiceRuns \cup {Down}, Call(k) PROVE k = Down
  <2>1. k \in Calls /\ (StartStep(k) \/ StopStep(k))
    BY <1>4, RunnerAssumption, CallsAssumption DEF Call, ServiceRuns
  <2> QED
    BY <1>1, <2>1, CallMoves
<1> QED
  BY <1>2, <1>3, <1>4 DEF RunnerNext

\* Such a step makes no restart due, and leaves all calls but the Stop as they are.
LEMMA NoRestartsAgain ==
  ASSUME RunnerTypeOK, PhasesInTurn, WatchersClosed, [RunnerNext]_runnerVars,
         ~raced, phase \in {"close", "stop", "exited"}
  PROVE  UNCHANGED <<watch, taken, timer>> /\ \A k \in Calls \ {Down} : pc'[k] = pc[k]
<1> USE CallsAssumption, RunnerAssumption
<1>1. CASE Interrupt \/ Exit \/ Edit \/ UNCHANGED runnerVars
  <2>1. UNCHANGED pc
    BY <1>1 DEF Interrupt, Exit, Edit, runnerVars, vars
  <2>2. UNCHANGED <<watch, taken, timer>>
    BY <1>1 DEF Interrupt, Exit, Edit, runnerVars, watching
  <2> QED
    BY <2>1, <2>2
<1>2. CASE StopService
  BY <1>2, BeginMoves DEF StopService, watching
<1>3. CASE Call(Down)
  BY <1>3, CallMoves DEF Call, watching
<1>4. ASSUME NEW k \in ServiceRuns, Reap(k) \/ ProcessEnds(k)
      PROVE  UNCHANGED <<watch, taken, timer, pc>>
  <2>1. k \in Calls /\ (ContextKills(k) \/ WaiterStep(k) \/ ProcessExits(k))
    BY <1>4 DEF Reap, ProcessEnds, ServiceRuns
  <2>2. UNCHANGED <<watch, taken, timer>>
    BY <1>4 DEF Reap, ProcessEnds, watching
  <2> QED
    BY <2>1, <2>2, StepOfRun
<1> QED
  BY <1>1, <1>2, <1>3, <1>4, ClosingSteps

LEMMA StepClosed ==
  ASSUME RunnerTypeOK, PhasesInTurn, WatchersClosed, [RunnerNext]_runnerVars
  PROVE  WatchersClosed'
<1> SUFFICES ASSUME phase' \in {"close", "stop", "exited"}, ~raced'
             PROVE  ~RestartDue' /\ watch' # "on"
  BY DEF WatchersClosed
<1>1. ~raced
  BY StepRaced
<1>2. CASE phase \in {"close", "stop", "exited"}
  <2>1. ~taken /\ timer = "idle" /\ watch \notin {"on", "spawned"} /\ \A k \in Restarts : ~InFlight(k)
    BY <1>1, <1>2, OnlyTheStop, RunnerAssumption
  <2>2. UNCHANGED <<watch, taken, timer>> /\ \A k \in Restarts : pc'[k] = pc[k]
    BY <1>1, <1>2, NoRestartsAgain, RunnerAssumption
  <2> QED
    BY <2>1, <2>2 DEF RestartDue, InFlight
<1>3. CASE phase \notin {"close", "stop", "exited"}
  <2>1. CloseWatchers
    BY <1>3 DEF RunnerNext, runnerVars, Boot, Booted, Interrupt, CloseWatchers, StopService, Exit,
       WatchBegins, Edit, Take, Schedule, Fire, Call, Reap, ProcessEnds, watching
  <2>2. ~RestartDue /\ UNCHANGED <<pc, taken, timer>>
    BY <2>1 DEF CloseWatchers, vars
  <2>3. watch' # "on" /\ (watch' = "spawned" => watch = "spawned")
    BY <2>1 DEF CloseWatchers
  <2> QED
    BY <2>2, <2>3 DEF RestartDue, InFlight
<1> QED
  BY <1>2, <1>3

\* Without a race the calls of the program come in turn, although nothing in the
\* instance makes them.
LEMMA CallsInTurn ==
  ASSUME RunnerTypeOK, PhasesInTurn, RestartsAreWatched, WatchersClosed, [RunnerNext]_runnerVars, ~raced'
  PROVE  InTurn
<1> USE CallsAssumption, RunnerAssumption
<1> SUFFICES ASSUME NEW b \in Calls, Begin(b)
             PROVE  (\A j \in Calls : ~InFlight(j)) /\ (b = Main \/ pc[Main] # "idle")
  BY DEF InTurn
<1>0. pc[b] = "idle" /\ pc'[b] # "idle" /\ ~raced
  BY BeginMoves, StepRaced
<1>1. CASE Boot
  <2>1. phase = "boot" /\ pc[Main] = "idle"
    BY <1>1, BeginMoves DEF Boot
  <2>2. \A j \in Calls : pc[j] = "idle"
    BY <2>1 DEF PhasesInTurn
  <2>3. b = Main
    BY <1>0, <1>1, <2>2, BeginMoves DEF Boot
  <2> QED
    BY <2>2, <2>3 DEF InFlight
<1>2. CASE Booted \/ Interrupt \/ CloseWatchers \/ Exit \/ WatchBegins \/ Edit \/ Take \/ Schedule \/ UNCHANGED runnerVars
  <2>1. UNCHANGED pc
    BY <1>2 DEF Booted, Interrupt, CloseWatchers, Exit, WatchBegins, Edit, Take, Schedule, runnerVars, vars
  <2> QED
    BY <1>0, <2>1
<1>3. CASE StopService
  <2>1. phase = "close" /\ pc[Down] = "idle" /\ pc[Main] \in Final
    BY <1>3 DEF StopService, PhasesInTurn
  <2>2. \A k \in Calls : InFlight(k) => k = Down
    BY <1>0, <2>1, OnlyTheStop
  <2> QED
    BY <2>1, <2>2 DEF InFlight, Final
<1>4. ASSUME NEW k \in Restarts, Fire(k)
      PROVE  (\A j \in Calls : ~InFlight(j)) /\ pc[Main] # "idle"
  <2>1. timer = "armed" /\ \A j \in Restarts : ~InFlight(j)
    BY <1>4 DEF Fire
  <2>2. phase \notin {"close", "stop", "exited"}
    BY <1>0, <2>1, OnlyTheStop
  <2>3. phase # "boot"
    BY <2>1 DEF PhasesInTurn, RestartsAreWatched
  <2>4. pc[Main] \in Final /\ pc[Down] = "idle"
    BY <2>2, <2>3 DEF PhasesInTurn
  <2> QED
    BY <2>1, <2>4 DEF InFlight, Final
<1>5. ASSUME NEW k \in ServiceRuns \cup {Down}, Call(k) PROVE FALSE
  <2>1. k \in Calls /\ (StartStep(k) \/ StopStep(k))
    BY <1>5 DEF Call, ServiceRuns
  <2>2. InFlight(k) /\ \A j \in Calls \ {k} : pc'[j] = pc[j]
    BY <2>1, CallMoves
  <2> QED
    BY <1>0, <2>2 DEF InFlight
<1>6. ASSUME NEW k \in ServiceRuns, Reap(k) \/ ProcessEnds(k) PROVE FALSE
  <2>1. k \in Calls /\ (ContextKills(k) \/ WaiterStep(k) \/ ProcessExits(k))
    BY <1>6 DEF Reap, ProcessEnds, ServiceRuns
  <2> QED
    BY <1>0, <2>1, StepOfRun
<1> QED
  BY <1>1, <1>2, <1>3, <1>4, <1>5, <1>6 DEF RunnerNext

LEMMA StepSerialUntilRaced ==
  ASSUME RunnerTypeOK, PhasesInTurn, RestartsAreWatched, WatchersClosed, ~raced => SerialInv,
         [RunnerNext]_runnerVars, ~raced'
  PROVE  SerialInv'
  BY StepRaced, CallsInTurn, RunnerStep, SerialInvInductive

LEMMA StepStaysStopped ==
  ASSUME RunnerTypeOK, PhasesInTurn, RestartsAreWatched, WatchersClosed, StaysStopped,
         ~raced => SerialInv, [RunnerNext]_runnerVars
  PROVE  StaysStopped'
<1> USE CallsAssumption, RunnerAssumption
<1> SUFFICES ASSUME phase' \in {"stop", "exited"}, pc'[Down] = "returned", ~raced'
             PROVE  /\ AliveRuns' = {} /\ process' = None /\ registered' = 0
                    /\ \A r \in Calls : ctx'[r] = "live" => waiter'[r] = "release"
  BY DEF StaysStopped
<1>0. ~raced /\ SerialInv
  BY StepRaced
<1>1. phase \in {"close", "stop", "exited"}
  BY DEF RunnerNext, runnerVars, watching, Boot, Booted, Interrupt, CloseWatchers, StopService, Exit,
     WatchBegins, Edit, Take, Schedule, Fire, Call, Reap, ProcessEnds
<1>2. CASE Interrupt \/ Exit \/ Edit \/ UNCHANGED runnerVars
  <2>1. UNCHANGED vars /\ phase \in {"stop", "exited"}
    BY <1>2 DEF Interrupt, Exit, Edit, runnerVars
  <2>2. pc[Down] = "returned"
    BY <2>1 DEF vars
  <2> QED
    BY <1>0, <2>1, <2>2 DEF StaysStopped, AliveRuns, vars
<1>3. ~StopService
  BY BeginMoves DEF StopService
<1>4. CASE Call(Down)
  <2>1. (StartStep(Down) \/ StopStep(Down)) /\ UNCHANGED phase
    BY <1>4 DEF Call
  <2>2. op[Down] = "stop" /\ pc[Down] \in Stopping
    BY <2>1 DEF PhasesInTurn, Stopping
  <2>3. SetStopped(Down)
    BY <2>1, <2>2, StepOfStop DEF RunnerTypeOK
  <2>4. pc[Down] = "settle" /\ UNCHANGED <<process, cancel, registered, op, ctx, proc, waiter>>
    BY <2>3 DEF SetStopped, runs
  <2>5. Stopped
    BY <1>0, <2>4, SettledIsStopped
  <2>6. ASSUME NEW r \in Calls, ctx[r] = "live", waiter[r] # "release" PROVE FALSE
    <3>1. Manual(r) /\ cancel # r
      BY <2>5, <2>6 DEF Stopped
    <3>2. r = Main
      BY <1>0, <3>1 DEF SerialInv, FieldsTell, BootFirst
    <3>3. pc[Main] \notin {"idle", "context"}
      BY <2>1 DEF PhasesInTurn, Final
    <3> QED
      BY <3>1, <3>2, <3>3 DEF RestartsAreWatched
  <2> QED
    BY <2>4, <2>5, <2>6 DEF Stopped, AliveRuns
<1>5. ASSUME NEW k \in ServiceRuns, Reap(k) \/ ProcessEnds(k)
      PROVE  /\ AliveRuns' = {} /\ process' = None /\ registered' = 0
             /\ \A r \in Calls : ctx'[r] = "live" => waiter'[r] = "release"
  <2>1. k \in Calls /\ (ContextKills(k) \/ WaiterStep(k) \/ ProcessExits(k)) /\ UNCHANGED phase
    BY <1>5 DEF Reap, ProcessEnds, ServiceRuns
  <2>2. pc[Down] = "returned"
    BY <2>1, StepOfRun
  <2>3. /\ AliveRuns = {} /\ process = None /\ registered = 0
        /\ \A r \in Calls : ctx[r] = "live" => waiter[r] = "release"
    BY <1>0, <2>1, <2>2 DEF StaysStopped, PhasesInTurn
  <2>4. ~(ContextKills(k) \/ ProcessExits(k))
    BY <2>1, <2>3 DEF AliveRuns, ContextKills, ProcessExits
  <2>5. waiter[k] \notin {"wait", "settle"}
    BY <1>0, <2>1, <2>3 DEF SerialInv, Serial
  <2>6. WaiterRelease(k)
    BY <2>1, <2>4, <2>5 DEF WaiterStep, WaiterUnregister, WaiterSettle
  <2>7. /\ UNCHANGED <<process, registered, proc>>
        /\ ctx' = [ctx EXCEPT ![k] = "cancelled"] /\ waiter' = [waiter EXCEPT ![k] = "done"]
    BY <2>6 DEF WaiterRelease, shared
  <2>8. \A r \in Calls : ctx'[r] = "live" => r # k /\ ctx[r] = "live" /\ waiter'[r] = waiter[r]
    BY <2>7 DEF RunnerTypeOK, TypeOK
  <2> QED
    BY <2>3, <2>7, <2>8 DEF AliveRuns
<1> QED
  BY <1>0, <1>1, <1>2, <1>3, <1>4, <1>5, ClosingSteps

RunnerInv ==
  /\ RunnerTypeOK /\ PhasesInTurn /\ RestartsAreWatched /\ WatchersClosed /\ StaysStopped
  /\ ~raced => SerialInv

\* For any number of restarts and changes: when the program ends it leaves no
\* process, no mesh entry and no open transport behind, unless a restart was in
\* the way of another or of the shutdown (main.go:178-200).
THEOREM ExitIsClean == RunnerSpec => []CleanExit
<1> USE CallsAssumption, RunnerAssumption
<1>1. RunnerInit => RunnerInv
  <2> SUFFICES ASSUME RunnerInit PROVE RunnerInv
    OBVIOUS
  <2>1. SerialInv
    BY SerialInvInitially DEF RunnerInit
  <2>2. /\ phase = "boot" /\ watch = "none" /\ ~taken /\ taken \in BOOLEAN /\ timer = "idle"
        /\ raced \in BOOLEAN /\ pc = [k \in Calls |-> "idle"]
    BY DEF RunnerInit, Init
  <2>3. ~Manual(Main)
    BY DEF RunnerInit, Init, Manual
  <2> QED
    BY <2>1, <2>2, <2>3 DEF RunnerInv, RunnerTypeOK, PhasesInTurn, RestartsAreWatched, WatchersClosed,
       StaysStopped, SerialInv, LifeInv
<1>2. RunnerInv /\ [RunnerNext]_runnerVars => RunnerInv'
  <2> SUFFICES ASSUME RunnerInv, [RunnerNext]_runnerVars PROVE RunnerInv'
    OBVIOUS
  <2>1. ~raced' => SerialInv'
    BY StepSerialUntilRaced DEF RunnerInv
  <2> QED
    BY <2>1, StepRunnerTypes, StepPhases, StepWatched, StepClosed, StepStaysStopped DEF RunnerInv
<1>3. RunnerInv => CleanExit
  BY DEF RunnerInv, CleanExit, PhasesInTurn, StaysStopped, ServiceRuns
<1> QED
  BY <1>1, <1>2, <1>3, PTL DEF RunnerSpec
=============================================================================
