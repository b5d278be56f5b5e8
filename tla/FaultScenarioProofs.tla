------------------------ MODULE FaultScenarioProofs ------------------------
(***************************************************************************)
(* What holds of execute_fault_scenario for any number of runs and any       *)
(* services.  Exclusive or interleaved: it is a client of the injector, a    *)
(* PASS means that everything the run installed is gone, and every step is   *)
(* one that FaultLifecycle allows.  With one scenario at a time: a PASS was  *)
(* earned under the fault and leaves the services running, and a rollback    *)
(* takes out only what its run put in.                                      *)
(***************************************************************************)
EXTENDS FaultScenarioRefinement, FaultInjectorProofs

\* What a step of the driver of run r is for the injector.
DrivesInjector(r) ==
  Call(r) \/ InjectorStep(r) \/ Mask(r) \/ Crash(r) \/ UNCHANGED injVars

LEMMA DriveIsClient ==
  ASSUME NEW r \in Runs, Drive(r) \/ InjectorStep(r) \/ InterruptOutside(r) \/ Crash(r)
  PROVE  DrivesInjector(r)
<1> USE DEF DrivesInjector
<1>1. CASE \/ PreFault(r) \/ MutationBlocked(r) \/ Apply(r) \/ AfterApply(r)
           \/ AfterVerify(r) \/ Traffic(r) \/ Collect(r) \/ Except(r)
  BY <1>1 DEF PreFault, MutationBlocked, Apply, AfterApply, AfterVerify, Traffic, Collect,
     Except, Call
<1>2. CASE \/ IgnoreSigint(r) \/ IgnoreSigterm(r) \/ Remove(r) \/ AfterRemove(r)
           \/ AfterVerifyRemoved(r) \/ Restore(r)
  BY <1>2 DEF IgnoreSigint, IgnoreSigterm, Remove, AfterRemove, AfterVerifyRemoved, Restore, Call
<1>3. CASE RecoveryTraffic(r) \/ RecoveryFinal(r) \/ Report(r) \/ InterruptOutside(r)
  BY <1>3 DEF RecoveryTraffic, RecoveryFinal, Report, InterruptOutside
<1>4. QED
  BY <1>1, <1>2, <1>3 DEF Drive

\* execute_fault_scenario uses its FaultInjector only through its methods, each
\* call awaited and in an order the injector allows: every scenario step is a
\* step of the injector, or leaves it alone.  (orchestration.py:389-446)
THEOREM ScenarioUsesInjector == Spec => InjSpec
<1>1. Init => InjInit
  BY DEF Init
<1>2. [Next]_vars => [InjNext]_injVars
  <2> SUFFICES ASSUME [Next]_vars
               PROVE  [InjNext]_injVars
    OBVIOUS
  <2>1. ASSUME NEW r \in Runs, DrivesInjector(r)
        PROVE  [InjNext]_injVars
    BY <2>1 DEF DrivesInjector, InjectorStep, Crash, InjNext, Environment
  <2>2. CASE LabStep
    BY <2>2 DEF LabStep, InjNext, Environment
  <2>3. CASE UNCHANGED vars
    BY <2>3 DEF vars
  <2>4. QED
    BY <2>1, <2>2, <2>3, DriveIsClient DEF Next
<1>3. QED
  BY <1>1, <1>2, PTL DEF Spec, InjSpec

-----------------------------------------------------------------------------
(* Type correctness of the driver.                                          *)

ScenTypeOK ==
  /\ pc \in [Runs -> Stages]
  /\ infraError \in [Runs -> BOOLEAN]
  /\ rollbackError \in [Runs -> BOOLEAN]
  /\ faultApplied \in [Runs -> BOOLEAN]
  /\ faultVerified \in [Runs -> BOOLEAN]
  /\ rollbackVerified \in [Runs -> BOOLEAN]
  /\ recoveryAttempted \in [Runs -> BOOLEAN]
  /\ escaping \in [Runs -> BOOLEAN]
  /\ traffic \in [Runs -> {"none", "success", "failure", "broken"}]
  /\ recoveryOk \in [Runs -> BOOLEAN]
  /\ recovery \in [Runs -> {"SKIPPED", "PASS", "FAIL"}]
  /\ status \in [Runs -> Statuses]
  /\ expectedObserved \in [Runs -> BOOLEAN]
  /\ held \in [Runs -> BOOLEAN]

LEMMA DriveTypes ==
  ASSUME NEW r \in Runs, InjTypeOK, ScenTypeOK,
         Drive(r) \/ InjectorStep(r) \/ InterruptOutside(r) \/ Crash(r)
  PROVE  ScenTypeOK'
<1> USE DEF ScenTypeOK, GotoStage, Stages, Statuses
<1>1. CASE PreFault(r) \/ MutationBlocked(r) \/ Apply(r)
  BY <1>1 DEF PreFault, MutationBlocked, Apply, results
<1>2. CASE AfterApply(r)
  <2>1. applied[r] \in BOOLEAN
    BY DEF InjTypeOK, FlagsTypeOK
  <2>2. QED
    BY <1>2, <2>1 DEF AfterApply, Raised
<1>3. CASE AfterVerify(r)
  BY <1>3 DEF AfterVerify, Raised
<1>4. CASE Traffic(r)
  <2>1. held' = held \/ \E h \in BOOLEAN : held' = [held EXCEPT ![r] = h]
    <3>1. (Type(r) = "none" \/ FaultInForce(r)) \in BOOLEAN
      BY DEF FaultInForce
    <3>2. QED
      BY <1>4, <3>1, Zenon DEF Traffic
  <2>2. held' \in [Runs -> BOOLEAN]
    BY <2>1
  <2>3. traffic' \in [Runs -> {"none", "success", "failure", "broken"}]
    BY <1>4 DEF Traffic
  <2>4. pc' \in [Runs -> Stages]
    BY <1>4 DEF Traffic
  <2>5. QED
    BY <1>4, <2>2, <2>3, <2>4 DEF Traffic
<1>5. CASE Collect(r) \/ Except(r) \/ IgnoreSigint(r) \/ IgnoreSigterm(r)
  BY <1>5 DEF Collect, Except, IgnoreSigint, IgnoreSigterm, results
<1>6. CASE Remove(r) \/ AfterRemove(r) \/ AfterVerifyRemoved(r) \/ Restore(r)
  BY <1>6 DEF Remove, AfterRemove, AfterVerifyRemoved, Restore, results
<1>7. CASE RecoveryTraffic(r) \/ RecoveryFinal(r)
  <2>1. recoveryOk' = recoveryOk \/ \E ok \in BOOLEAN : recoveryOk' = [recoveryOk EXCEPT ![r] = ok]
    <3>1. BaselineHealthy \in BOOLEAN
      BY DEF BaselineHealthy
    <3>2. QED
      BY <1>7, <3>1, Zenon DEF RecoveryTraffic, RecoveryFinal
  <2>2. recoveryOk' \in [Runs -> BOOLEAN]
    BY <2>1
  <2>3. pc' \in [Runs -> Stages]
    BY <1>7 DEF RecoveryTraffic, RecoveryFinal
  <2>4. recovery' \in [Runs -> {"SKIPPED", "PASS", "FAIL"}]
    BY <1>7 DEF RecoveryTraffic, RecoveryFinal
  <2>5. QED
    BY <1>7, <2>2, <2>3, <2>4 DEF RecoveryTraffic, RecoveryFinal
<1>8. CASE Report(r)
  <2>1. PICK eventsPass \in {EventsPass(r), FALSE} :
          /\ status' = [status EXCEPT ![r] = FinalStatus(r, eventsPass)]
          /\ expectedObserved' = [expectedObserved EXCEPT ![r] = ~infraError[r] /\ eventsPass]
    BY <1>8 DEF Report
  <2>2. FinalStatus(r, eventsPass) \in Statuses
    BY DEF FinalStatus
  <2>3. (~infraError[r] /\ eventsPass) \in BOOLEAN
    OBVIOUS
  <2>4. QED
    BY <1>8, <2>1, <2>2, <2>3 DEF Report
<1>9. CASE InjectorStep(r) \/ InterruptOutside(r) \/ Crash(r)
  BY <1>9 DEF InjectorStep, InterruptOutside, Crash, results
<1>10. QED
  BY <1>1, <1>2, <1>3, <1>4, <1>5, <1>6, <1>7, <1>8, <1>9 DEF Drive

\* Type correctness of execute_fault_scenario's locals and result, with the
\* FaultInjector it drives.  (orchestration.py:343-499)
THEOREM ScenarioTypeCorrect == Spec => []TypeOK
<1>1. Init => ScenTypeOK
  BY DEF Init, ScenTypeOK, Stages, Statuses
<1>2. InjTypeOK /\ ScenTypeOK /\ [Next]_vars => ScenTypeOK'
  <2> SUFFICES ASSUME InjTypeOK, ScenTypeOK, [Next]_vars
               PROVE  ScenTypeOK'
    OBVIOUS
  <2>1. CASE LabStep \/ UNCHANGED vars
    BY <2>1 DEF LabStep, vars, results, ScenTypeOK
  <2>2. QED
    BY <2>1, DriveTypes DEF Next
<1>3. InjTypeOK /\ ScenTypeOK <=> TypeOK
  BY DEF TypeOK, ScenTypeOK
<1>4. QED
  BY <1>1, <1>2, <1>3, ScenarioUsesInjector, InjTypeCorrect, PTL DEF Spec

-----------------------------------------------------------------------------
(* A PASS leaves nothing behind.                                            *)

DriverStep(r) == Drive(r) \/ InjectorStep(r) \/ InterruptOutside(r) \/ Crash(r)

SameScenario(q) ==
  /\ pc'[q] = pc[q] /\ infraError'[q] = infraError[q] /\ escaping'[q] = escaping[q]
  /\ rollbackVerified'[q] = rollbackVerified[q] /\ status'[q] = status[q]

LEMMA OtherScenariosUntouched ==
  ASSUME NEW r \in Runs, InjTypeOK, CommandsFit, ScenTypeOK, DriverStep(r)
  PROVE  /\ UNCHANGED fault
         /\ \A q \in Runs : q # r =>
              /\ SameScenario(q) /\ SameRun(q)
              /\ OwnQdiscs(q)' \subseteq OwnQdiscs(q) /\ OwnFilters(q)' \subseteq OwnFilters(q)
<1>1. \A q \in Runs : q # r => SameScenario(q)
  <2> USE DEF ScenTypeOK, GotoStage, SameScenario
  <2>1. CASE \/ PreFault(r) \/ MutationBlocked(r) \/ Apply(r) \/ AfterApply(r)
             \/ AfterVerify(r) \/ Traffic(r) \/ Collect(r) \/ Except(r)
    BY <2>1 DEF PreFault, MutationBlocked, Apply, AfterApply, AfterVerify, Traffic, Collect,
       Except, Raised, results
  <2>2. CASE \/ IgnoreSigint(r) \/ IgnoreSigterm(r) \/ Remove(r) \/ AfterRemove(r)
             \/ AfterVerifyRemoved(r) \/ Restore(r)
    BY <2>2 DEF IgnoreSigint, IgnoreSigterm, Remove, AfterRemove, AfterVerifyRemoved, Restore,
       results
  <2>3. CASE RecoveryTraffic(r) \/ RecoveryFinal(r) \/ Report(r)
    BY <2>3 DEF RecoveryTraffic, RecoveryFinal, Report
  <2>4. CASE InjectorStep(r) \/ InterruptOutside(r) \/ Crash(r)
    BY <2>4 DEF InjectorStep, InterruptOutside, Crash, results
  <2>5. QED
    BY <2>1, <2>2, <2>3, <2>4 DEF DriverStep, Drive
<1>2. CASE Acts(r)
  BY <1>1, <1>2, OthersUntouched, ActsAddOwn DEF OwnQdiscs, OwnFilters
<1>3. CASE Mask(r) \/ Crash(r) \/ UNCHANGED injVars
  <2>1. UNCHANGED <<world, flags, fault>> /\ \A q \in Runs : q # r => op'[q] = op[q] /\ ret'[q] = ret[q]
    BY <1>3 DEF Mask, Crash, Dies, injVars, InjTypeOK, ControlTypeOK
  <2>2. QED
    BY <1>1, <2>1 DEF SameRun, OwnQdiscs, OwnFilters, world, flags
<1>4. QED
  BY <1>2, <1>3, DriveIsClient, ActsAreTheSteps DEF DrivesInjector, DriverStep, InjectorStep

\* A call in progress stays in its stage until it returns.
LEMMA CommandsStayInStage ==
  ASSUME NEW r \in Runs, InjTypeOK
  PROVE  /\ CallApply(r) => InStage(op'[r], "apply")
         /\ CallVerifyApplied(r) => InStage(op'[r], "verify")
         /\ CallRemove(r) => InStage(op'[r], "remove")
         /\ CallVerifyRemoved(r) => InStage(op'[r], "verifyRemoved")
         /\ \A stage : Step(r) /\ InStage(op[r], stage) => InStage(op'[r], stage)
<1> USE DEF InjTypeOK, ControlTypeOK, Return, Goto, FinishRemove, AfterFilter, InStage,
            ApplyCommands, RemoveCommands, VerifyRemovedCommands
<1>1. CallApply(r) => InStage(op'[r], "apply")
  BY DEF CallApply
<1>2. CallVerifyApplied(r) => InStage(op'[r], "verify")
  BY DEF CallVerifyApplied
<1>3. CallRemove(r) => InStage(op'[r], "remove")
  BY DEF CallRemove
<1>4. CallVerifyRemoved(r) => InStage(op'[r], "verifyRemoved")
  BY DEF CallVerifyRemoved
<1>5. ASSUME NEW stage, Step(r), InStage(op[r], stage)
      PROVE  InStage(op'[r], stage)
  <2>1. CASE ReadStep(r)
    BY <1>5, <2>1 DEF ReadStep, InspectBefore, ShowFilter, ShowQdisc, VerifyApplied,
       CheckFilter, CheckClsact, VerifyRunning, VerifyFilterGone, VerifyClsactGone,
       ReadEscapes, Reading
  <2>2. CASE WriteStep(r)
    BY <1>5, <2>2 DEF WriteStep, ServiceCommand, AddClsact, AddFilter, StartService,
       DelFilter, DelClsact, Escapes, Succeeds, Fails
  <2>3. QED
    BY <1>5, <2>1, <2>2 DEF Step, ReadStep, WriteStep
<1>6. QED
  BY <1>1, <1>2, <1>3, <1>4, <1>5

\* Only a call in progress takes a step.
LEMMA StepIsBusy ==
  ASSUME NEW r \in Runs, Step(r)
  PROVE  op[r] \in Commands /\ op[r] \notin {"idle", "dead"}
BY DEF Step, InspectBefore, ServiceCommand, ShowFilter, ShowQdisc, AddClsact, AddFilter,
   VerifyApplied, StartService, DelFilter, CheckFilter, DelClsact, CheckClsact,
   VerifyRunning, VerifyFilterGone, VerifyClsactGone, Succeeds, Fails, Reading,
   Commands, Mutations, Reads

\* A command of apply() whose client is killed ends the call with an error.
LEMMA LateApplyFails ==
  ASSUME NEW r \in Runs, InjTypeOK, Step(r), op[r] \in ApplyCommands,
         ~(orphans' \subseteq orphans)
  PROVE  op'[r] = "idle" /\ ret'[r] \in {"error", "interrupt"}
<1> USE DEF InjTypeOK, ControlTypeOK, Return, Goto
<1>1. CASE AddClsact(r)
  BY <1>1 DEF AddClsact, Succeeds, Fails
<1>2. CASE AddFilter(r)
  BY <1>2 DEF AddFilter, Succeeds, Fails
<1>3. CASE ServiceCommand(r)
  BY <1>3 DEF ServiceCommand, Succeeds, Fails
<1>4. CASE Escapes(r, op[r])
  BY <1>4 DEF Escapes
<1>5. ~ReadStep(r)
  BY QuietSteps
<1>6. QED
  BY <1>1, <1>2, <1>3, <1>4, <1>5 DEF Step, ReadStep, StartService, DelFilter, DelClsact,
     Succeeds, Fails, ApplyCommands

LEMMA DriverKeepsStage ==
  ASSUME NEW r \in Runs, InjTypeOK, CommandsFit, ScenTypeOK, CallsInStage, DriverStep(r)
  PROVE  CallsInStage'
<1>1. InStage(op'[r], pc'[r])
  <2> USE DEF ScenTypeOK, GotoStage, At
  <2>1. CASE \/ PreFault(r) \/ MutationBlocked(r) \/ AfterVerify(r) \/ Traffic(r)
             \/ Collect(r) \/ Except(r) \/ IgnoreSigint(r) \/ IgnoreSigterm(r)
             \/ AfterVerifyRemoved(r) \/ Restore(r) \/ InterruptOutside(r)
             \/ RecoveryTraffic(r) \/ RecoveryFinal(r) \/ Report(r)
    <3>1. op'[r] = "idle"
      BY <2>1 DEF PreFault, MutationBlocked, AfterVerify, Traffic, Collect, Except,
         IgnoreSigint, IgnoreSigterm, AfterVerifyRemoved, Restore, InterruptOutside,
         RecoveryTraffic, RecoveryFinal, Report, Mask, injVars
    <3>2. QED
      BY <3>1 DEF InStage, ApplyCommands, RemoveCommands, VerifyRemovedCommands
  <2>2. CASE Apply(r)
    BY <2>2, CommandsStayInStage DEF Apply
  <2>3. CASE AfterApply(r) \/ Remove(r) \/ AfterRemove(r)
    <3>1. CASE op'[r] = "idle"
      BY <3>1 DEF InStage, ApplyCommands, RemoveCommands, VerifyRemovedCommands
    <3>2. CASE op'[r] # "idle"
      BY <2>3, <3>2, CommandsStayInStage DEF AfterApply, Remove, AfterRemove, Raised, injVars
    <3>3. QED
      BY <3>1, <3>2
  <2>4. CASE InjectorStep(r)
    BY <2>4, CommandsStayInStage DEF InjectorStep, CallsInStage
  <2>5. CASE Crash(r)
    <3>1. op'[r] = "dead"
      BY <2>5 DEF Crash, Dies, InjTypeOK, ControlTypeOK
    <3>2. QED
      BY <3>1 DEF InStage, ApplyCommands, RemoveCommands, VerifyRemovedCommands
  <2>6. QED
    BY <2>1, <2>2, <2>3, <2>4, <2>5 DEF DriverStep, Drive
<1>2. QED
  BY <1>1, OtherScenariosUntouched DEF CallsInStage, SameScenario, SameRun

\* An error is not forgotten.
LEMMA SpoiledStays ==
  ASSUME NEW r \in Runs, InjTypeOK, ScenTypeOK, DriverStep(r), Spoiled(r)
  PROVE  Spoiled(r)'
<1> USE DEF ScenTypeOK, GotoStage, At, Spoiled
<1>1. CASE PreFault(r) \/ MutationBlocked(r) \/ Apply(r) \/ AfterVerify(r) \/ Traffic(r) \/ Collect(r)
  BY <1>1 DEF PreFault, MutationBlocked, Apply, AfterVerify, Traffic, Collect, Raised, results
<1>2. CASE AfterApply(r)
  BY <1>2 DEF AfterApply, Raised
<1>3. CASE Except(r)
  BY <1>3 DEF Except
<1>4. CASE \/ IgnoreSigint(r) \/ IgnoreSigterm(r) \/ Remove(r) \/ AfterRemove(r)
           \/ AfterVerifyRemoved(r) \/ Restore(r)
  BY <1>4 DEF IgnoreSigint, IgnoreSigterm, Remove, AfterRemove, AfterVerifyRemoved, Restore,
     results
<1>5. CASE RecoveryTraffic(r) \/ RecoveryFinal(r) \/ Report(r) \/ InterruptOutside(r) \/ Crash(r)
  BY <1>5 DEF RecoveryTraffic, RecoveryFinal, Report, InterruptOutside, Crash, results
<1>6. CASE InjectorStep(r)
  BY <1>6, StepIsBusy DEF InjectorStep, results
<1>7. QED
  BY <1>1, <1>2, <1>3, <1>4, <1>5, <1>6 DEF DriverStep, Drive

LEMMA OthersStaySpoiled ==
  ASSUME NEW r \in Runs, NEW q \in Runs, SameScenario(q), SameRun(q)
  PROVE  Spoiled(q)' <=> Spoiled(q)
BY DEF SameScenario, SameRun, Spoiled

LEMMA DriverKeepsLateApply ==
  ASSUME NEW r \in Runs, InjTypeOK, CommandsFit, ScenTypeOK, CallsInStage, LateApplySpoils,
         DriverStep(r)
  PROVE  LateApplySpoils'
<1>1. \A q \in Runs : Spoiled(q) => Spoiled(q)'
  BY SpoiledStays, OthersStaySpoiled, OtherScenariosUntouched
<1>2. ASSUME NEW o \in orphans', o \notin orphans, o.cmd \in ApplyCommands
      PROVE  o.run = r /\ Spoiled(r)'
  <2>1. CASE InjectorStep(r)
    <3>1. Acts(r)
      BY <2>1, ActsAreTheSteps DEF InjectorStep
    <3>2. o = [run |-> r, cmd |-> op[r]]
      BY <1>2, <3>1, ActsOnLab
    <3>3. op'[r] = "idle" /\ ret'[r] \in {"error", "interrupt"}
      BY <1>2, <2>1, <3>2, LateApplyFails DEF InjectorStep
    <3>4. pc'[r] = "apply"
      BY <1>2, <2>1, <3>2 DEF InjectorStep, CallsInStage, InStage, ApplyCommands
    <3>5. QED
      BY <3>2, <3>3, <3>4 DEF Spoiled
  <2>2. CASE Crash(r)
    BY <1>2, <2>2 DEF Crash, Dies, LeftBehind, GotoStage, Spoiled, ScenTypeOK
  <2>3. CASE Call(r) \/ Mask(r) \/ UNCHANGED injVars
    BY <1>2, <2>3, QuietSteps DEF Mask, injVars
  <2>4. QED
    BY <2>1, <2>2, <2>3, DriveIsClient DEF DrivesInjector, DriverStep
<1>3. QED
  BY <1>1, <1>2 DEF LateApplySpoils, InjTypeOK, OrphansTypeOK

\* What run r installs it installs inside apply().
LEMMA DriverAddsInApply ==
  ASSUME NEW r \in Runs, InjTypeOK, CommandsFit, CallsInStage, DriverStep(r)
  PROVE  \/ OwnQdiscs(r)' \subseteq OwnQdiscs(r) /\ OwnFilters(r)' \subseteq OwnFilters(r)
         \/ InjectorStep(r) /\ pc[r] = "apply"
<1>1. CASE InjectorStep(r)
  BY <1>1, ActsAreTheSteps, ActsAddOwn
  DEF InjectorStep, CallsInStage, InStage, ApplyCommands, OwnQdiscs, OwnFilters
<1>2. CASE Call(r) \/ Mask(r) \/ Crash(r) \/ UNCHANGED injVars
  BY <1>2, QuietSteps DEF Mask, Crash, Dies, injVars, OwnQdiscs, OwnFilters, world
<1>3. QED
  BY <1>1, <1>2, DriveIsClient DEF DrivesInjector, DriverStep

\* How a verified removal comes about.
LEMMA RemovalSeen ==
  ASSUME NEW r \in Runs, InjTypeOK, CommandsFit, ClsactFlagged, FilterFlagged, ScenTypeOK,
         CallsInStage, CleanWhenVerified, DriverStep(r), ~Spoiled(r)
  PROVE  /\ SeenRemoved(r)' => OwnQdiscs(r) = {} /\ OwnFilters(r) = {}
         /\ op'[r] = "verifyClsactGone" => OwnFilters(r) = {}
<1> USE DEF SeenRemoved, At
<1>1. CASE InjectorStep(r)
  <2> USE DEF InjTypeOK, ControlTypeOK, Goto, Return
  <2>1. CASE VerifyRunning(r)
    <3>1. Type(r) \notin Impairments
      BY <2>1 DEF VerifyRunning, Reading, CommandsFit, Fits, ServiceCommands,
         ServiceFaults, Impairments
    <3>2. op'[r] # "verifyClsactGone"
      BY <2>1 DEF VerifyRunning
    <3>3. QED
      BY <3>1, <3>2, OnlyImpairmentsOwn
  <2>2. CASE VerifyFilterGone(r)
    BY <2>2, OwnOnTarget DEF VerifyFilterGone
  <2>3. CASE VerifyClsactGone(r)
    <3>1. OwnFilters(r) = {}
      BY <2>3 DEF VerifyClsactGone, Reading, CleanWhenVerified
    <3>2. QED
      BY <2>3, <3>1, OwnOnTarget DEF VerifyClsactGone
  <2>4. CASE ReadEscapes(r)
    BY <2>4 DEF ReadEscapes
  <2>5. CASE op[r] \notin VerifyRemovedCommands
    <3>1. op[r] # "idle" /\ op[r] # "dead" /\ op[r] \in Commands
      BY <1>1, StepIsBusy DEF InjectorStep
    <3>2. pc'[r] # "verifyRemoved"
      BY <1>1, <2>5, <3>1
      DEF InjectorStep, CallsInStage, InStage, ApplyCommands, RemoveCommands,
          VerifyRemovedCommands, Commands, Mutations, Reads
    <3>3. InStage(op'[r], pc'[r])
      BY <1>1, DriverKeepsStage DEF CallsInStage
    <3>4. QED
      BY <3>2, <3>3 DEF InStage, VerifyRemovedCommands
  <2>6. QED
    BY <1>1, <2>1, <2>2, <2>3, <2>4, <2>5
    DEF InjectorStep, Step, VerifyRemovedCommands, Mutations, Reads, InspectBefore,
        ServiceCommand, ShowFilter, ShowQdisc, AddClsact, AddFilter, VerifyApplied,
        StartService, DelFilter, CheckFilter, DelClsact, CheckClsact, Succeeds, Fails, Reading
<1>2. CASE AfterRemove(r)
  <2>1. CASE CallVerifyRemoved(r)
    <3>1. op'[r] # "verifyClsactGone"
      BY <2>1 DEF CallVerifyRemoved, Goto, Return, InjTypeOK, ControlTypeOK
    <3>2. op'[r] = "idle" /\ ret'[r] = "true" => Type(r) = "none"
      BY <2>1 DEF CallVerifyRemoved, Goto, Return, InjTypeOK, ControlTypeOK
    <3>3. QED
      BY <3>1, <3>2, OnlyImpairmentsOwn DEF Impairments, InjTypeOK
  <2>2. CASE pc'[r] = "restore" /\ UNCHANGED injVars
    BY <1>2, <2>2 DEF AfterRemove, injVars
  <2>3. QED
    BY <1>2, <2>1, <2>2 DEF AfterRemove, GotoStage, ScenTypeOK
<1>3. CASE (Drive(r) /\ ~AfterRemove(r)) \/ InterruptOutside(r) \/ Crash(r)
  <2>1. pc'[r] # "verifyRemoved"
    BY <1>3 DEF Drive, PreFault, MutationBlocked, Apply, AfterApply, AfterVerify, Traffic,
       Collect, Except, IgnoreSigint, IgnoreSigterm, Remove, AfterVerifyRemoved, Restore,
       RecoveryTraffic, RecoveryFinal, Report, InterruptOutside, Crash, Raised, GotoStage,
       ScenTypeOK
  <2>2. InStage(op'[r], pc'[r])
    BY DriverKeepsStage DEF CallsInStage
  <2>3. QED
    BY <2>1, <2>2 DEF InStage, VerifyRemovedCommands
<1>4. QED
  BY <1>1, <1>2, <1>3 DEF DriverStep

LEMMA DriverKeepsClean ==
  ASSUME NEW r \in Runs, InjTypeOK, CommandsFit, ClsactFlagged, FilterFlagged, ScenTypeOK,
         CallsInStage, CleanWhenVerified, DriverStep(r)
  PROVE  CleanWhenVerified'
<1>1. ASSUME ~Spoiled(r)'
      PROVE  /\ (rollbackVerified[r] \/ SeenRemoved(r) => OwnQdiscs(r) = {} /\ OwnFilters(r) = {})'
             /\ (op[r] = "verifyClsactGone" => OwnFilters(r) = {})'
             /\ (rollbackVerified[r] =>
                   pc[r] \in {"restore", "recovery", "recoveryFinal", "report", "reported"})'
  <2>1. ~Spoiled(r)
    BY <1>1, SpoiledStays
  <2>2. rollbackVerified'[r] => rollbackVerified[r] \/ (SeenRemoved(r) /\ pc'[r] = "restore")
    <3> USE DEF ScenTypeOK
    <3>1. CASE AfterVerifyRemoved(r)
      BY <3>1 DEF AfterVerifyRemoved, SeenRemoved, GotoStage
    <3>2. CASE ~AfterVerifyRemoved(r)
      BY <3>2 DEF DriverStep, Drive, PreFault, MutationBlocked, Apply, AfterApply, AfterVerify,
         Traffic, Collect, Except, IgnoreSigint, IgnoreSigterm, Remove, AfterRemove, Restore,
         RecoveryTraffic, RecoveryFinal, Report, InterruptOutside, Crash, InjectorStep, results
    <3>3. QED
      BY <3>1, <3>2
  <2>3. rollbackVerified'[r] =>
          pc'[r] \in {"restore", "recovery", "recoveryFinal", "report", "reported"}
    <3>1. CASE rollbackVerified[r]
      <4>1. pc[r] \in {"restore", "recovery", "recoveryFinal", "report", "reported"}
        BY <2>1, <3>1 DEF CleanWhenVerified
      <4>2. pc'[r] \notin {"escaped", "crashed"}
        BY <1>1 DEF Spoiled
      <4>3. QED
        BY <4>1, <4>2 DEF DriverStep, Drive, PreFault, MutationBlocked, Apply, AfterApply,
           AfterVerify, Traffic, Collect, Except, IgnoreSigint, IgnoreSigterm, Remove,
           AfterRemove, AfterVerifyRemoved, Restore, RecoveryTraffic, RecoveryFinal, Report,
           InterruptOutside, Crash, InjectorStep, At, GotoStage, ScenTypeOK
    <3>2. QED
      BY <2>2, <3>1
  <2>4. (rollbackVerified[r] \/ SeenRemoved(r))' \/ op'[r] = "verifyClsactGone" =>
          ~(InjectorStep(r) /\ pc[r] = "apply")
    <3>1. ASSUME InjectorStep(r), pc[r] = "apply"
          PROVE  ~(rollbackVerified[r] \/ SeenRemoved(r))' /\ op'[r] # "verifyClsactGone"
      <4>1. ~rollbackVerified[r]
        BY <2>1, <3>1 DEF CleanWhenVerified
      <4>2. pc'[r] = "apply" /\ ~rollbackVerified'[r]
        BY <3>1, <4>1 DEF InjectorStep, results
      <4>3. InStage(op'[r], pc'[r])
        BY DriverKeepsStage DEF CallsInStage
      <4>4. QED
        BY <4>2, <4>3 DEF SeenRemoved, At, InStage, VerifyRemovedCommands
    <3>2. QED
      BY <3>1
  <2>5. (rollbackVerified[r] \/ SeenRemoved(r))' => OwnQdiscs(r) = {} /\ OwnFilters(r) = {}
    BY <2>1, <2>2, RemovalSeen DEF CleanWhenVerified
  <2>6. op'[r] = "verifyClsactGone" => OwnFilters(r) = {}
    BY <2>1, RemovalSeen
  <2>7. QED
    BY <2>3, <2>4, <2>5, <2>6, DriverAddsInApply
<1>2. ASSUME NEW q \in Runs, q # r, ~Spoiled(q)'
      PROVE  /\ (rollbackVerified[q] \/ SeenRemoved(q) => OwnQdiscs(q) = {} /\ OwnFilters(q) = {})'
             /\ (op[q] = "verifyClsactGone" => OwnFilters(q) = {})'
             /\ (rollbackVerified[q] =>
                   pc[q] \in {"restore", "recovery", "recoveryFinal", "report", "reported"})'
  BY <1>2, OtherScenariosUntouched, OthersStaySpoiled
  DEF CleanWhenVerified, SameScenario, SameRun, SeenRemoved, At
<1>3. QED
  BY <1>1, <1>2 DEF CleanWhenVerified

LEMMA DriverKeepsPass ==
  ASSUME NEW r \in Runs, InjTypeOK, CommandsFit, ScenTypeOK, PassIsFinal, DriverStep(r)
  PROVE  PassIsFinal'
<1>1. /\ pc'[r] \in {"recovery", "recoveryFinal", "report"} => ~escaping'[r]
      /\ status'[r] = "PASS" => pc'[r] = "reported" /\ rollbackVerified'[r] /\ ~Spoiled(r)'
  <2> USE DEF ScenTypeOK, GotoStage, At, PassIsFinal, Spoiled
  <2>1. CASE PreFault(r) \/ MutationBlocked(r) \/ Apply(r) \/ Traffic(r) \/ Collect(r) \/ Except(r)
    BY <2>1 DEF PreFault, MutationBlocked, Apply, Traffic, Collect, Except, results
  <2>2. CASE AfterApply(r) \/ AfterVerify(r)
    BY <2>2 DEF AfterApply, AfterVerify, Raised
  <2>3. CASE \/ IgnoreSigint(r) \/ IgnoreSigterm(r) \/ Remove(r) \/ AfterRemove(r)
             \/ AfterVerifyRemoved(r)
    BY <2>3 DEF IgnoreSigint, IgnoreSigterm, Remove, AfterRemove, AfterVerifyRemoved, results
  <2>4. CASE Restore(r) \/ RecoveryTraffic(r) \/ RecoveryFinal(r) \/ InterruptOutside(r) \/ Crash(r)
    BY <2>4 DEF Restore, RecoveryTraffic, RecoveryFinal, InterruptOutside, Crash, Ended, results
  <2>5. CASE Report(r)
    BY <2>5 DEF Report, FinalStatus
  <2>6. CASE InjectorStep(r)
    BY <2>6 DEF InjectorStep, results
  <2>7. QED
    BY <2>1, <2>2, <2>3, <2>4, <2>5, <2>6 DEF DriverStep, Drive
<1>2. QED
  BY <1>1, OtherScenariosUntouched, OthersStaySpoiled DEF PassIsFinal, SameScenario

\* The lab by itself adds only what a spoiled run left behind.
LEMMA LabKeepsScenario ==
  ASSUME InjTypeOK, CommandsFit, ScenarioInv, LabStep
  PROVE  ScenarioInv'
<1>1. UNCHANGED <<pc, results, flags, op, ret, fault>> /\ orphans' \subseteq orphans
  BY DEF LabStep, ContainerRestarts, OrphanEnds
<1>2. \A r \in Runs : Spoiled(r)' <=> Spoiled(r)
  BY <1>1 DEF Spoiled, results
<1>3. \A r \in Runs : ~Spoiled(r) =>
        OwnQdiscs(r)' \subseteq OwnQdiscs(r) /\ OwnFilters(r)' \subseteq OwnFilters(r)
  BY EnvironmentOnLab
  DEF LabStep, Environment, ScenarioInv, LateApplySpoils, ApplyCommands, OwnQdiscs, OwnFilters
<1>4. CallsInStage' /\ PassIsFinal'
  BY <1>1, <1>2 DEF ScenarioInv, CallsInStage, InStage, PassIsFinal, results
<1>5. LateApplySpoils'
  BY <1>1, <1>2 DEF ScenarioInv, LateApplySpoils, InjTypeOK, OrphansTypeOK
<1>6. CleanWhenVerified'
  BY <1>1, <1>2, <1>3 DEF ScenarioInv, CleanWhenVerified, SeenRemoved, At, results
<1>7. QED
  BY <1>4, <1>5, <1>6 DEF ScenarioInv

\* Stuttering changes nothing.
LEMMA StutterKeepsScenario ==
  ASSUME ScenarioInv, UNCHANGED vars
  PROVE  ScenarioInv'
BY DEF vars, injVars, results, world, flags, ScenarioInv, CallsInStage, LateApplySpoils,
   CleanWhenVerified, PassIsFinal, Spoiled, SeenRemoved, At, InStage, OwnQdiscs, OwnFilters

\* The inductive invariant of the scenario: commands run in their stages, what
\* may still take effect late belongs to runs that cannot pass, and a verified
\* rollback stays clean.  (orchestration.py:389-472)
THEOREM ScenarioInvariant == Spec => []ScenarioInv
<1>1. Init => ScenarioInv
  BY DEF Init, InjInit, LabInit, InjectorInit, ScenarioInv, CallsInStage, InStage, ApplyCommands,
     RemoveCommands, VerifyRemovedCommands, LateApplySpoils, CleanWhenVerified, SeenRemoved, At,
     PassIsFinal
<1>2. TypeOK /\ InjInv /\ ScenarioInv /\ [Next]_vars => ScenarioInv'
  <2> SUFFICES ASSUME TypeOK, InjInv, ScenarioInv, [Next]_vars
               PROVE  ScenarioInv'
    OBVIOUS
  <2>1. InjTypeOK /\ ScenTypeOK /\ CommandsFit /\ ClsactFlagged /\ FilterFlagged
    BY DEF TypeOK, ScenTypeOK, InjInv
  <2>2. ASSUME NEW r \in Runs, DriverStep(r)
        PROVE  ScenarioInv'
    BY <2>1, <2>2, DriverKeepsStage, DriverKeepsLateApply, DriverKeepsClean, DriverKeepsPass
    DEF ScenarioInv
  <2>3. QED
    BY <2>1, <2>2, LabKeepsScenario, StutterKeepsScenario DEF Next, DriverStep
<1>3. QED
  BY <1>1, <1>2, ScenarioTypeCorrect, ScenarioUsesInjector, InjectorInvariant, PTL DEF Spec

\* A run reported PASS has neither a filter nor a clsact left in the lab, and
\* never will have: for any number of runs, exclusive or interleaved, with any
\* command failing, taking effect late or being interrupted at any point.
\* (orchestration.py:427-446, 465-472)
THEOREM PassIsClean == Spec => []PassMeansReverted
<1>1. ScenarioInv => PassMeansReverted
  BY DEF ScenarioInv, PassIsFinal, CleanWhenVerified, PassMeansReverted
<1>2. QED
  BY <1>1, ScenarioInvariant, PTL

-----------------------------------------------------------------------------
(* What the expected failure rests on.                                      *)

AfterTraffic == {"finally", "finally2", "guarded", "remove", "verifyRemoved", "restore",
                 "recovery", "recoveryFinal", "report"}

\* Past the try block a run has the evidence of its own traffic, or an error.
EvidenceRun(r) ==
  /\ pc[r] \in {"settle", "collect"} => faultVerified[r]
  /\ pc[r] = "collect" => traffic[r] # "none"
  /\ pc[r] \in AfterTraffic /\ ~infraError[r] /\ ~escaping[r] =>
       faultVerified[r] /\ traffic[r] \in {"success", "failure"}
  /\ expectedObserved[r] =>
       /\ pc[r] = "reported" /\ faultVerified[r]
       /\ traffic[r] \in {"success", "failure"}
       /\ Type(r) = "n3_impairment" => traffic[r] = "failure"

LEMMA DriverKeepsEvidence ==
  ASSUME NEW r \in Runs, InjTypeOK, CommandsFit, ScenTypeOK, PassIsFinal, EvidenceRun(r),
         DriverStep(r)
  PROVE  EvidenceRun(r)'
<1> USE DEF EvidenceRun, AfterTraffic, ScenTypeOK, GotoStage, At
<1>1. Type(r)' = Type(r)
  BY OtherScenariosUntouched DEF Type
<1>2. CASE PreFault(r) \/ MutationBlocked(r) \/ Apply(r) \/ InterruptOutside(r) \/ Crash(r)
  BY <1>2 DEF PreFault, MutationBlocked, Apply, InterruptOutside, Crash, Ended, results
<1>3. CASE AfterApply(r) \/ AfterVerify(r) \/ Traffic(r) \/ Collect(r) \/ Except(r)
  BY <1>3 DEF AfterApply, AfterVerify, Traffic, Collect, Except, Raised, results
<1>4. CASE \/ IgnoreSigint(r) \/ IgnoreSigterm(r) \/ Remove(r) \/ AfterRemove(r)
           \/ AfterVerifyRemoved(r) \/ Restore(r)
  BY <1>4 DEF IgnoreSigint, IgnoreSigterm, Remove, AfterRemove, AfterVerifyRemoved, Restore,
     results
<1>5. CASE RecoveryTraffic(r) \/ RecoveryFinal(r)
  BY <1>5 DEF RecoveryTraffic, RecoveryFinal
<1>6. CASE Report(r)
  BY <1>1, <1>6 DEF Report, EventsPass, PassIsFinal
<1>7. CASE InjectorStep(r)
  BY <1>1, <1>7 DEF InjectorStep, results
<1>8. QED
  BY <1>2, <1>3, <1>4, <1>5, <1>6, <1>7 DEF DriverStep, Drive

\* The evidence of a run is its own.
SameEvidence(q) ==
  /\ pc'[q] = pc[q] /\ infraError'[q] = infraError[q] /\ escaping'[q] = escaping[q]
  /\ faultVerified'[q] = faultVerified[q] /\ traffic'[q] = traffic[q]
  /\ expectedObserved'[q] = expectedObserved[q]

LEMMA OtherEvidenceUntouched ==
  ASSUME NEW r \in Runs, InjTypeOK, CommandsFit, ScenTypeOK, DriverStep(r)
  PROVE  \A q \in Runs : q # r => SameEvidence(q) /\ Type(q)' = Type(q)
<1> USE DEF ScenTypeOK, SameEvidence, SameScenario, Type
<1>1. CASE \/ PreFault(r) \/ MutationBlocked(r) \/ Apply(r) \/ AfterApply(r)
           \/ AfterVerify(r) \/ Traffic(r) \/ Collect(r) \/ Except(r)
  BY <1>1, OtherScenariosUntouched DEF PreFault, MutationBlocked, Apply, AfterApply,
     AfterVerify, Traffic, Collect, Except, results
<1>2. CASE \/ IgnoreSigint(r) \/ IgnoreSigterm(r) \/ Remove(r) \/ AfterRemove(r)
           \/ AfterVerifyRemoved(r) \/ Restore(r)
  BY <1>2, OtherScenariosUntouched DEF IgnoreSigint, IgnoreSigterm, Remove, AfterRemove,
     AfterVerifyRemoved, Restore, results
<1>3. CASE RecoveryTraffic(r) \/ RecoveryFinal(r) \/ Report(r)
  BY <1>3, OtherScenariosUntouched DEF RecoveryTraffic, RecoveryFinal, Report
<1>4. CASE InjectorStep(r) \/ InterruptOutside(r) \/ Crash(r)
  BY <1>4, OtherScenariosUntouched DEF InjectorStep, InterruptOutside, Crash, results
<1>5. QED
  BY <1>1, <1>2, <1>3, <1>4 DEF DriverStep, Drive

\* The expected failure is only reported as observed on this run's own traffic
\* evidence, after this run's fault had been verified.
\* (orchestration.py:418-424, 454-457)
THEOREM ExpectedFailureOnEvidence == Spec => []ExpectedFailureIsCurrent
<1> DEFINE EvidenceInv == \A r \in Runs : EvidenceRun(r)
<1>1. Init => EvidenceInv
  BY DEF Init, EvidenceRun, AfterTraffic
<1>2. TypeOK /\ InjInv /\ ScenarioInv /\ EvidenceInv /\ [Next]_vars => EvidenceInv'
  <2> SUFFICES ASSUME TypeOK, InjInv, ScenarioInv, EvidenceInv, [Next]_vars
               PROVE  EvidenceInv'
    OBVIOUS
  <2>1. InjTypeOK /\ ScenTypeOK /\ CommandsFit /\ PassIsFinal
    BY DEF TypeOK, ScenTypeOK, InjInv, ScenarioInv
  <2>2. ASSUME NEW r \in Runs, DriverStep(r)
        PROVE  EvidenceInv'
    <3>1. EvidenceRun(r)'
      BY <2>1, <2>2, DriverKeepsEvidence
    <3>2. ASSUME NEW q \in Runs, q # r
          PROVE  EvidenceRun(q)'
      BY <2>1, <2>2, <3>2, OtherEvidenceUntouched DEF SameEvidence, EvidenceRun
    <3>3. QED
      BY <3>1, <3>2
  <2>3. CASE LabStep \/ UNCHANGED vars
    BY <2>3 DEF LabStep, ContainerRestarts, OrphanEnds, vars, injVars, results, EvidenceRun, Type
  <2>4. QED
    BY <2>2, <2>3 DEF Next, DriverStep
<1>3. EvidenceInv => ExpectedFailureIsCurrent
  BY DEF EvidenceRun, ExpectedFailureIsCurrent
<1>4. QED
  BY <1>1, <1>2, <1>3, ScenarioTypeCorrect, ScenarioInvariant, ScenarioUsesInjector,
     InjectorInvariant, PTL DEF Spec

-----------------------------------------------------------------------------
(* A PASS was earned: one scenario at a time.                               *)

Active(r) == pc[r] \notin Ended \union {"start"}
BeforeFinally == {"boundary", "apply", "verify", "settle", "collect"}

\* The run under way has the lab, and the commands left behind, for itself.
OneAtATime ==
  /\ \A q, r \in Runs : Active(q) /\ Active(r) => q = r
  /\ \A r \in Runs : Active(r) => \A o \in orphans : o.run = r

NothingLate == \A r \in Runs : pc[r] \in BeforeFinally /\ ~Spoiled(r) => orphans = {}

\* The restart that restart_service waits for is after the one it has seen.
RestartSeen == \A r \in Runs : Valid(r) => restartFrom[r] <= startedAt[Target(r)]

\* The container that carried the filter has been restarted by docker.
Lost(r) == Type(r) \in Impairments /\ Valid(r) /\ restarts[Target(r)] > 0

InForceOrLost(r) == Type(r) = "none" \/ (Valid(r) /\ FaultInForce(r)) \/ Lost(r)

HeldRun(r) ==
  ~Spoiled(r) =>
    /\ (At(r, "verify") /\ ret[r] = "true") \/ pc[r] = "settle" => InForceOrLost(r)
    /\ pc[r] \in AfterTraffic \union {"collect"} => held[r] \/ Lost(r)
    /\ recovery[r] = "PASS" => pc[r] \in {"report", "reported"} /\ held[r]
    /\ pc[r] = "report" /\ recovery[r] = "PASS" => \A s \in Services : up[s]
    /\ status[r] = "PASS" => held[r]

HeldInv ==
  OneAtATime /\ NothingLate /\ RestartSeen /\ \A r \in Runs : HeldRun(r)

\* What a command does to the containers of the lab.
LEMMA EffectOnServices ==
  ASSUME LabTypeOK, NEW s \in Services, NEW c, NEW t, NEW r, Effect(c, s, t, r)
  PROVE  /\ \A x \in Services : startedAt'[x] >= startedAt[x]
         /\ c \notin {"restart", "start", "stop"} => UNCHANGED <<up, startedAt, restarts>>
         /\ c # "stop" => \A x \in Services : up[x] => up'[x]
<1> USE DEF LabTypeOK
<1>1. CASE Booted(s) /\ c \in {"restart", "start"}
  BY <1>1 DEF Booted
<1>2. CASE UNCHANGED world /\ c = "start"
  BY <1>2 DEF world
<1>3. CASE c = "stop"
  BY <1>3 DEF Effect
<1>4. CASE c \in {"addClsact", "addFilter", "delFilter", "delClsact"}
  BY <1>4 DEF Effect
<1>5. QED
  BY <1>1, <1>2, <1>3, <1>4 DEF Effect

\* The lab between two commands of the harness.
LEMMA LabOnServices ==
  ASSUME InjTypeOK, CommandsFit, LabStep
  PROVE  /\ UNCHANGED <<pc, results, flags, op, ret, fault>> /\ orphans' \subseteq orphans
         /\ \A x \in Services : startedAt'[x] >= startedAt[x]
         /\ \/ \E s \in Services : ContainerRestarts(s)
            \/ UNCHANGED world
            \/ \E o \in orphans :
                 /\ Valid(o.run) /\ Effect(o.cmd, Target(o.run), Type(o.run), o.run)
<1>1. UNCHANGED <<pc, results, flags, op, ret, fault>> /\ orphans' \subseteq orphans
  BY DEF LabStep, ContainerRestarts, OrphanEnds
<1>2. ASSUME NEW s \in Services, ContainerRestarts(s)
      PROVE  \A x \in Services : startedAt'[x] >= startedAt[x]
  BY <1>2 DEF ContainerRestarts, InjTypeOK, LabTypeOK
<1>3. ASSUME NEW o \in orphans, OrphanEnds(o)
      PROVE  \/ UNCHANGED world
             \/ /\ Valid(o.run) /\ Effect(o.cmd, Target(o.run), Type(o.run), o.run)
                /\ \A x \in Services : startedAt'[x] >= startedAt[x]
  BY <1>3, EffectOnServices DEF OrphanEnds, CommandsFit, Fits, Valid, InjTypeOK
<1>4. UNCHANGED world => \A x \in Services : startedAt'[x] >= startedAt[x]
  BY DEF world, InjTypeOK, LabTypeOK
<1>5. QED
  BY <1>1, <1>2, <1>3, <1>4 DEF LabStep

\* A command in progress is one of its run's fault type.
LEMMA StepOnServices ==
  ASSUME NEW r \in Runs, InjTypeOK, CommandsFit, Step(r)
  PROVE  /\ \A x \in Services : startedAt'[x] >= startedAt[x]
         /\ Type(r) \in Impairments => UNCHANGED <<up, startedAt, restarts>>
<1>1. CASE UNCHANGED world
  BY <1>1 DEF world, InjTypeOK, LabTypeOK
<1>2. CASE /\ op[r] \in Mutations /\ Fits(r, op[r])
           /\ Effect(op[r], Target(r), Type(r), r)
  <2>1. Target(r) \in Services
    BY <1>2 DEF Fits, Valid
  <2>2. Type(r) \in Impairments => op[r] \notin {"restart", "start", "stop"}
    BY <1>2 DEF Fits, ServiceCommands, Impairments, ServiceFaults
  <2>3. QED
    BY <1>2, <2>1, <2>2, EffectOnServices DEF InjTypeOK
<1>3. CASE ReadStep(r)
  BY <1>1, <1>3, QuietSteps
<1>4. CASE WriteStep(r)
  BY <1>1, <1>2, <1>4, WriteLab DEF Unreported
<1>5. QED
  BY <1>3, <1>4 DEF Step, ReadStep, WriteStep

\* The driver's own statements leave the lab alone.
LEMMA DriverLeavesLab ==
  ASSUME NEW r \in Runs, Drive(r) \/ InterruptOutside(r)
  PROVE  UNCHANGED <<world, orphans, dangled>>
<1>1. CASE Call(r)
  BY <1>1, QuietSteps
<1>2. CASE Mask(r) \/ UNCHANGED injVars
  BY <1>2 DEF Mask, injVars
<1>3. Call(r) \/ Mask(r) \/ UNCHANGED injVars
  <2>1. CASE \/ PreFault(r) \/ MutationBlocked(r) \/ Apply(r) \/ AfterApply(r)
             \/ AfterVerify(r) \/ Traffic(r) \/ Collect(r) \/ Except(r)
    BY <2>1 DEF PreFault, MutationBlocked, Apply, AfterApply, AfterVerify, Traffic, Collect,
       Except, Call
  <2>2. CASE \/ IgnoreSigint(r) \/ IgnoreSigterm(r) \/ Remove(r) \/ AfterRemove(r)
             \/ AfterVerifyRemoved(r) \/ Restore(r)
    BY <2>2 DEF IgnoreSigint, IgnoreSigterm, Remove, AfterRemove, AfterVerifyRemoved, Restore, Call
  <2>3. CASE RecoveryTraffic(r) \/ RecoveryFinal(r) \/ Report(r) \/ InterruptOutside(r)
    BY <2>3 DEF RecoveryTraffic, RecoveryFinal, Report, InterruptOutside
  <2>4. QED
    BY <2>1, <2>2, <2>3 DEF Drive
<1>4. QED
  BY <1>1, <1>2, <1>3

\* A run takes no step between its end and its start, and starts only when it
\* is alone and nothing is pending.
LEMMA HowARunBegins ==
  ASSUME Exclusive, NEW r \in Runs, ScenTypeOK, CallsInStage, DriverStep(r), ~Active(r)
  PROVE  /\ pc[r] = "start"
         /\ \/ PreFault(r) /\ Alone(r)
            \/ ~Active(r)' /\ UNCHANGED <<world, orphans, flags>>
<1> USE DEF Active, Ended, ScenTypeOK, GotoStage, At
<1>1. CASE PreFault(r)
  BY <1>1 DEF PreFault
<1>2. CASE InterruptOutside(r)
  BY <1>2 DEF InterruptOutside, injVars
<1>3. CASE Crash(r)
  <2>1. pc[r] = "start"
    BY <1>3 DEF Crash
  <2>2. op[r] \notin Mutations
    BY <2>1 DEF CallsInStage, InStage, ApplyCommands, RemoveCommands, Mutations
  <2>3. QED
    BY <1>3, <2>1, <2>2 DEF Crash, Dies
<1>4. CASE InjectorStep(r)
  BY <1>4, StepIsBusy DEF InjectorStep, CallsInStage, InStage, ApplyCommands, RemoveCommands,
     VerifyRemovedCommands, Commands, Mutations, Reads
<1>5. CASE Drive(r) /\ ~PreFault(r)
  BY <1>5 DEF Drive, MutationBlocked, Apply, AfterApply, AfterVerify, Traffic, Collect, Except,
     IgnoreSigint, IgnoreSigterm, Remove, AfterRemove, AfterVerifyRemoved, Restore,
     RecoveryTraffic, RecoveryFinal, Report
<1>6. QED
  BY <1>1, <1>2, <1>3, <1>4, <1>5 DEF DriverStep

\* While a run is under way, the others do not touch the lab.
LEMMA OthersStandStill ==
  ASSUME Exclusive, NEW r \in Runs, NEW d \in Runs, d # r, ScenTypeOK, CallsInStage, OneAtATime,
         Active(r), DriverStep(d)
  PROVE  ~Active(d)' /\ UNCHANGED <<world, orphans, flags>>
<1>1. ~Active(d)
  BY DEF OneAtATime
<1>2. ~Alone(d)
  BY DEF Alone, Active
<1>3. QED
  BY <1>1, <1>2, HowARunBegins

\* A command left behind is one of the run whose step it was.
LEMMA DriverOrphans ==
  ASSUME NEW r \in Runs, InjTypeOK, CommandsFit, DriverStep(r)
  PROVE  \A o \in orphans' : o \in orphans \/ o.run = r
<1>1. CASE Drive(r) \/ InterruptOutside(r)
  BY <1>1, DriverLeavesLab
<1>2. CASE InjectorStep(r)
  BY <1>2, ActsOnLab, ActsAreTheSteps DEF InjectorStep
<1>3. CASE Crash(r)
  BY <1>3 DEF Crash, Dies, LeftBehind
<1>4. QED
  BY <1>1, <1>2, <1>3 DEF DriverStep

\* A run begins alone, and keeps the lab for itself until it ends.
LEMMA DriverKeepsOrder ==
  ASSUME Exclusive, NEW r \in Runs, InjTypeOK, CommandsFit, ScenTypeOK, CallsInStage, OneAtATime,
         DriverStep(r)
  PROVE  OneAtATime'
<1>1. \A q \in Runs : q # r => (Active(q)' <=> Active(q))
  BY OtherScenariosUntouched DEF SameScenario, Active
<1>2. ASSUME NEW q \in Runs, q # r, Active(q)
      PROVE  ~Active(r)' /\ orphans' = orphans
  BY <1>2, OthersStandStill
<1>3. \A p, q \in Runs : Active(p)' /\ Active(q)' => p = q
  BY <1>1, <1>2 DEF OneAtATime
<1>4. ASSUME Active(r)'
      PROVE  \A o \in orphans' : o.run = r
  <2>1. CASE Active(r)
    BY <2>1, DriverOrphans DEF OneAtATime
  <2>2. CASE ~Active(r)
    BY <1>4, <2>2, HowARunBegins DEF Alone, PreFault, injVars
  <2>3. QED
    BY <2>1, <2>2
<1>5. \A q \in Runs : Active(q)' => \A o \in orphans' : o.run = q
  BY <1>1, <1>2, <1>4 DEF OneAtATime
<1>6. QED
  BY <1>3, <1>5 DEF OneAtATime

\* Nothing is left behind before the finally clause without spoiling the run.
LEMMA DriverKeepsNothingLate ==
  ASSUME Exclusive, NEW r \in Runs, InjTypeOK, CommandsFit, ScenTypeOK, CallsInStage, OneAtATime,
         NothingLate, DriverStep(r)
  PROVE  NothingLate'
<1>1. ASSUME NEW q \in Runs, q # r, pc'[q] \in BeforeFinally, ~Spoiled(q)'
      PROVE  orphans' = {}
  <2>1. SameScenario(q) /\ SameRun(q)
    BY <1>1, OtherScenariosUntouched
  <2>2. pc[q] \in BeforeFinally /\ ~Spoiled(q)
    BY <1>1, <2>1, OthersStaySpoiled DEF SameScenario
  <2>3. Active(q)
    BY <2>2 DEF Active, BeforeFinally, Ended
  <2>4. QED
    BY <1>1, <2>2, <2>3, OthersStandStill DEF NothingLate
<1>2. ASSUME pc'[r] \in BeforeFinally, ~Spoiled(r)'
      PROVE  orphans' = {}
  <2>1. ~Spoiled(r)
    BY <1>2, SpoiledStays
  <2>2. CASE PreFault(r)
    BY <1>2, <2>2 DEF PreFault, Alone, injVars
  <2>3. CASE InjectorStep(r)
    <3>1. pc[r] \in BeforeFinally /\ orphans = {}
      BY <1>2, <2>1, <2>3 DEF InjectorStep, NothingLate
    <3>2. CASE op[r] \in ApplyCommands
      <4>1. pc'[r] = "apply"
        BY <2>3, <3>2 DEF InjectorStep, CallsInStage, InStage
      <4>2. QED
        BY <1>2, <2>3, <3>1, <3>2, <4>1, LateApplyFails DEF InjectorStep, Spoiled
    <3>3. CASE op[r] = "verifyApplied"
      <4>1. ReadStep(r)
        BY <2>3, <3>3, WriteLab DEF InjectorStep, Step, ReadStep, WriteStep, ServiceCommand,
           AddClsact, AddFilter, StartService, DelFilter, DelClsact, Succeeds, Fails, Mutations
      <4>2. QED
        BY <3>1, <4>1, QuietSteps
    <3>4. QED
      BY <2>3, <3>1, <3>2, <3>3, StepIsBusy DEF InjectorStep, CallsInStage, InStage,
         ApplyCommands, RemoveCommands, VerifyRemovedCommands, Commands, Mutations, Reads,
         BeforeFinally
  <2>4. CASE (Drive(r) /\ ~PreFault(r)) \/ InterruptOutside(r)
    <3>1. pc[r] \in BeforeFinally
      BY <1>2, <2>4 DEF Drive, MutationBlocked, Apply, AfterApply, AfterVerify, Traffic, Collect,
         Except, IgnoreSigint, IgnoreSigterm, Remove, AfterRemove, AfterVerifyRemoved, Restore,
         RecoveryTraffic, RecoveryFinal, Report, InterruptOutside, Raised, At, GotoStage,
         ScenTypeOK, BeforeFinally
    <3>2. QED
      BY <2>1, <2>4, <3>1, DriverLeavesLab DEF NothingLate
  <2>5. CASE Crash(r)
    BY <1>2, <2>5 DEF Crash, GotoStage, ScenTypeOK, BeforeFinally
  <2>6. QED
    BY <2>2, <2>3, <2>4, <2>5 DEF DriverStep
<1>3. QED
  BY <1>1, <1>2 DEF NothingLate

\* What a step of run r does to the containers.
LEMMA DriverOnServices ==
  ASSUME NEW r \in Runs, InjTypeOK, CommandsFit, DriverStep(r)
  PROVE  /\ \A s \in Services : startedAt'[s] >= startedAt[s]
         /\ Type(r) \in Impairments => UNCHANGED <<up, startedAt, restarts>>
         /\ InjectorStep(r) \/ UNCHANGED world
<1>1. CASE InjectorStep(r)
  BY <1>1, StepOnServices DEF InjectorStep
<1>2. CASE Drive(r) \/ InterruptOutside(r) \/ Crash(r)
  <2>1. UNCHANGED world
    BY <1>2, DriverLeavesLab DEF Crash, Dies
  <2>2. QED
    BY <2>1 DEF world, InjTypeOK, LabTypeOK
<1>3. QED
  BY <1>1, <1>2 DEF DriverStep

\* StartedAt only moves forward from where inspectBefore has read it.
LEMMA DriverKeepsRestartSeen ==
  ASSUME NEW r \in Runs, InjTypeOK, CommandsFit, ScenTypeOK, RestartSeen,
         DriverStep(r), InjTypeOK'
  PROVE  RestartSeen'
<1>1. fault' = fault
  BY OtherScenariosUntouched
<1>2. \A q \in Runs : restartFrom'[q] = restartFrom[q] \/ restartFrom'[q] = startedAt[Target(q)]
  <2>1. CASE Call(r) \/ Mask(r) \/ Crash(r) \/ UNCHANGED injVars
    BY <2>1 DEF Call, CallApply, CallVerifyApplied, CallRemove, CallVerifyRemoved, Mask, Crash,
       Dies, injVars, flags
  <2>2. CASE InspectBefore(r)
    BY <2>2 DEF InspectBefore, InjTypeOK, FlagsTypeOK
  <2>3. CASE Step(r) /\ ~InspectBefore(r)
    BY <2>3 DEF Step, ServiceCommand, ShowFilter, ShowQdisc, AddClsact, AddFilter, VerifyApplied,
       StartService, DelFilter, CheckFilter, DelClsact, CheckClsact, VerifyRunning,
       VerifyFilterGone, VerifyClsactGone, Escapes, ReadEscapes, flags
  <2>4. QED
    BY <2>1, <2>2, <2>3, DriveIsClient DEF DrivesInjector, InjectorStep, DriverStep
<1>3. ASSUME NEW q \in Runs, Valid(q)
      PROVE  restartFrom'[q] <= startedAt'[Target(q)]
  <2>1. Target(q) \in Services
    BY <1>3 DEF Valid
  <2>2. /\ startedAt[Target(q)] \in Nat /\ restartFrom[q] \in Nat
        /\ startedAt'[Target(q)] >= startedAt[Target(q)] /\ restartFrom[q] <= startedAt[Target(q)]
    BY <1>3, <2>1, DriverOnServices DEF InjTypeOK, LabTypeOK, FlagsTypeOK, RestartSeen
  <2>3. startedAt' \in [Services -> Nat]
    BY DEF InjTypeOK, LabTypeOK
  <2>4. startedAt'[Target(q)] \in Nat
    BY <2>1, <2>3
  <2>5. QED
    BY <1>2, <2>2, <2>4
<1>4. QED
  BY <1>1, <1>3 DEF RestartSeen, Valid, Target

\* Verification answers "true" only for a fault that it has seen in force.
LEMMA VerificationSeesFault ==
  ASSUME NEW r \in Runs, InjTypeOK, CommandsFit, ScenTypeOK, CallsInStage, InjectorStep(r),
         pc[r] = "verify"
  PROVE  /\ UNCHANGED <<world, flags, fault, orphans>>
         /\ op'[r] = "idle" /\ ret'[r] = "true" => Valid(r) /\ FaultInForce(r)
<1>1. op[r] = "verifyApplied"
  BY StepIsBusy DEF InjectorStep, CallsInStage, InStage, ApplyCommands, RemoveCommands,
     VerifyRemovedCommands, Commands, Mutations, Reads
<1>2. VerifyApplied(r) \/ ReadEscapes(r)
  BY <1>1 DEF InjectorStep, Step, InspectBefore, ServiceCommand, ShowFilter, ShowQdisc, AddClsact,
     AddFilter, StartService, DelFilter, CheckFilter, DelClsact, CheckClsact, VerifyRunning,
     VerifyFilterGone, VerifyClsactGone, Succeeds, Fails, Reading, Mutations
<1>3. Valid(r)
  BY <1>1 DEF CommandsFit, Fits
<1>4. QED
  BY <1>1, <1>2, <1>3 DEF VerifyApplied, ReadEscapes, Reading, Return, InjTypeOK, ControlTypeOK

\* A step of run r keeps what its verdict rests on.
LEMMA DriverKeepsOwnHeld ==
  ASSUME NEW r \in Runs, InjTypeOK, CommandsFit, ScenTypeOK, CallsInStage, PassIsFinal,
         HeldRun(r), DriverStep(r)
  PROVE  HeldRun(r)'
<1> SUFFICES ASSUME ~Spoiled(r)'
             PROVE  HeldRun(r)'
  BY DEF HeldRun
<1>1. ~Spoiled(r)
  BY SpoiledStays
<1>2. fault' = fault
  BY OtherScenariosUntouched
<1> USE <1>1, <1>2 DEF HeldRun, ScenTypeOK, GotoStage, At, AfterTraffic
<1>3. Lost(r) => Lost(r)'
  BY DriverOnServices DEF Lost, Type, Valid, Target
<1>4. CASE PreFault(r) \/ MutationBlocked(r) \/ Apply(r)
  BY <1>4 DEF PreFault, MutationBlocked, Apply, results
<1>5. CASE AfterApply(r)
  <2>1. pc'[r] = "verify"
    BY <1>5 DEF AfterApply, Raised, Spoiled
  <2>2. CallVerifyApplied(r) /\ UNCHANGED <<recovery, status, held>>
    BY <1>5, <2>1 DEF AfterApply, Raised
  <2>3. op'[r] = "idle" /\ ret'[r] = "true" => Type(r) = "none"
    BY <2>2 DEF CallVerifyApplied, Return, Goto, InjTypeOK, ControlTypeOK
  <2>4. recovery[r] # "PASS"
    BY <1>5 DEF AfterApply
  <2>5. QED
    BY <2>1, <2>2, <2>3, <2>4 DEF InForceOrLost, Type
<1>6. CASE AfterVerify(r)
  <2>1. InForceOrLost(r) => InForceOrLost(r)'
    BY <1>3, <1>6 DEF AfterVerify, InForceOrLost, FaultInForce, HasFilter, Type, Valid, Target,
       injVars, world, flags
  <2>2. QED
    BY <1>6, <2>1 DEF AfterVerify, Raised, Spoiled
<1>7. CASE Traffic(r)
  <2>1. CASE pc'[r] = "except"
    BY <2>1 DEF Spoiled
  <2>2. CASE pc'[r] = "collect"
    <3>1. held'[r] <=> (Type(r) = "none" \/ FaultInForce(r))
      <4>1. held' = [held EXCEPT ![r] = Type(r) = "none" \/ FaultInForce(r)]
        BY <1>7, <2>2 DEF Traffic
      <4>2. held \in [Runs -> BOOLEAN]
        OBVIOUS
      <4>3. QED
        BY <4>1, <4>2, Zenon
    <3>2. held'[r] \/ Lost(r)
      BY <1>7, <3>1 DEF Traffic, InForceOrLost
    <3>3. recovery'[r] # "PASS" /\ status'[r] # "PASS"
      BY <1>7 DEF Traffic, PassIsFinal
    <3>4. QED
      BY <1>3, <2>2, <3>2, <3>3
  <2>3. QED
    BY <1>7, <2>1, <2>2 DEF Traffic
<1>8. CASE Collect(r) \/ Except(r)
  BY <1>3, <1>8 DEF Collect, Except, Spoiled, results
<1>9. CASE \/ IgnoreSigint(r) \/ IgnoreSigterm(r) \/ Remove(r) \/ AfterRemove(r)
           \/ AfterVerifyRemoved(r) \/ Restore(r) \/ RecoveryTraffic(r)
  BY <1>3, <1>9 DEF IgnoreSigint, IgnoreSigterm, Remove, AfterRemove, AfterVerifyRemoved, Restore,
     RecoveryTraffic, Spoiled, results
<1>10. CASE RecoveryFinal(r)
  <2>1. UNCHANGED <<up, restarts, held, status>> /\ pc'[r] = "report"
    BY <1>10 DEF RecoveryFinal, injVars, world
  <2>2. recovery'[r] = "PASS" => FinalHealthy
    <3>1. PICK ok \in {FinalHealthy, FALSE} :
            recovery' = [recovery EXCEPT ![r] = IF recoveryOk[r] /\ ok THEN "PASS" ELSE "FAIL"]
      BY <1>10, Zenon DEF RecoveryFinal
    <3>2. recovery'[r] = "PASS" => ok
      BY <3>1
    <3>3. ok => FinalHealthy
      BY <3>1, Zenon
    <3>4. QED
      BY <3>2, <3>3
  <2>3. FinalHealthy => ~Lost(r) /\ \A s \in Services : up[s]
    BY DEF FinalHealthy, Lost, Valid, InjTypeOK, LabTypeOK
  <2>4. held[r] \/ Lost(r)
    BY <1>10 DEF RecoveryFinal
  <2>5. status[r] = "PASS" => held[r]
    OBVIOUS
  <2>6. QED
    BY <1>3, <2>1, <2>2, <2>3, <2>4, <2>5
<1>11. CASE Report(r)
  <2>1. status'[r] = "PASS" => recovery[r] = "PASS"
    BY <1>11 DEF Report, FinalStatus
  <2>2. QED
    BY <1>11, <2>1 DEF Report
<1>12. CASE InterruptOutside(r) \/ Crash(r)
  BY <1>12 DEF InterruptOutside, Crash, Spoiled
<1>13. CASE InjectorStep(r)
  <2>1. UNCHANGED <<pc, results>>
    BY <1>13 DEF InjectorStep
  <2>2. pc[r] \in {"apply", "verify", "remove", "verifyRemoved"}
    BY <1>13, StepIsBusy DEF InjectorStep, CallsInStage, InStage, ApplyCommands, RemoveCommands,
       VerifyRemovedCommands, Commands, Mutations, Reads
  <2>3. ASSUME pc[r] = "verify", op'[r] = "idle", ret'[r] = "true"
        PROVE  InForceOrLost(r)'
    BY <1>13, <2>3, VerificationSeesFault
    DEF InForceOrLost, FaultInForce, HasFilter, Type, Valid, Target, world, flags
  <2>4. QED
    BY <1>3, <2>1, <2>2, <2>3 DEF results
<1>14. QED
  BY <1>4, <1>5, <1>6, <1>7, <1>8, <1>9, <1>10, <1>11, <1>12, <1>13 DEF DriverStep, Drive

\* The verdict of the other runs rests on a lab that the step leaves alone, or
\* is not in the making.
LEMMA DriverKeepsOthersHeld ==
  ASSUME Exclusive, NEW d \in Runs, NEW r \in Runs, d # r, InjTypeOK, CommandsFit, ScenTypeOK,
         CallsInStage, OneAtATime, HeldRun(r), DriverStep(d)
  PROVE  HeldRun(r)'
<1>1. fault' = fault /\ SameScenario(r) /\ SameRun(r) /\ (Spoiled(r)' <=> Spoiled(r))
  BY OtherScenariosUntouched, OthersStaySpoiled
<1>2. held'[r] = held[r] /\ recovery'[r] = recovery[r]
  <2> USE DEF ScenTypeOK
  <2>1. CASE \/ PreFault(d) \/ MutationBlocked(d) \/ Apply(d) \/ AfterApply(d)
             \/ AfterVerify(d) \/ Traffic(d) \/ Collect(d) \/ Except(d)
    BY <2>1 DEF PreFault, MutationBlocked, Apply, AfterApply, AfterVerify, Traffic, Collect,
       Except, results
  <2>2. CASE \/ IgnoreSigint(d) \/ IgnoreSigterm(d) \/ Remove(d) \/ AfterRemove(d)
             \/ AfterVerifyRemoved(d) \/ Restore(d)
    BY <2>2 DEF IgnoreSigint, IgnoreSigterm, Remove, AfterRemove, AfterVerifyRemoved, Restore,
       results
  <2>3. CASE RecoveryTraffic(d) \/ RecoveryFinal(d) \/ Report(d)
    BY <2>3 DEF RecoveryTraffic, RecoveryFinal, Report
  <2>4. CASE InjectorStep(d) \/ InterruptOutside(d) \/ Crash(d)
    BY <2>4 DEF InjectorStep, InterruptOutside, Crash, results
  <2>5. QED
    BY <2>1, <2>2, <2>3, <2>4 DEF DriverStep, Drive
<1>3. CASE Active(r)
  <2>1. UNCHANGED <<world, orphans, flags>>
    BY <1>3, OthersStandStill
  <2>2. /\ InForceOrLost(r)' <=> InForceOrLost(r)
        /\ Lost(r)' <=> Lost(r)
    BY <1>1, <2>1 DEF InForceOrLost, FaultInForce, HasFilter, Lost, Type, Valid, Target, world,
       flags
  <2>3. QED
    BY <1>1, <1>2, <2>1, <2>2 DEF HeldRun, SameScenario, SameRun, At, world
<1>4. CASE ~Active(r)
  BY <1>1, <1>2, <1>4 DEF HeldRun, SameScenario, SameRun, At, Active, Ended, AfterTraffic
<1>5. QED
  BY <1>3, <1>4

\* What the lab does by itself: a container that loses the filter by restarting
\* shows it, and no late command stops a service of a run that can still pass.
LEMMA LabKeepsHeld ==
  ASSUME NEW r \in Runs, InjTypeOK, InjTypeOK', CommandsFit, LateApplySpoils, OneAtATime,
         NothingLate, RestartSeen, HeldRun(r), LabStep
  PROVE  HeldRun(r)'
<1> SUFFICES ASSUME ~Spoiled(r)'
             PROVE  HeldRun(r)'
  BY DEF HeldRun
<1>1. UNCHANGED <<pc, results, flags, op, ret, fault>> /\ orphans' \subseteq orphans
  BY LabOnServices
<1>2. ~Spoiled(r)
  BY <1>1 DEF Spoiled, results
<1> USE DEF InjTypeOK, LabTypeOK, FlagsTypeOK
<1>3. ASSUME NEW o \in orphans, Active(r), Valid(o.run),
             Effect(o.cmd, Target(o.run), Type(o.run), o.run)
      PROVE  /\ Lost(r) => Lost(r)'
             /\ (\A s \in Services : up[s]) => \A s \in Services : up'[s]
  <2>1. o.run = r /\ Fits(r, o.cmd)
    BY <1>3 DEF OneAtATime, CommandsFit
  <2>2. Target(r) \in Services
    BY <1>3, <2>1 DEF Valid
  <2>3. o.cmd # "stop"
    BY <1>2, <2>1 DEF LateApplySpoils, ApplyCommands
  <2>4. Type(r) \in Impairments => o.cmd \notin {"restart", "start", "stop"}
    BY <2>1 DEF Fits, ServiceCommands, Impairments, ServiceFaults
  <2>5. Type(r) \in Impairments => UNCHANGED restarts
    BY <1>3, <2>1, <2>2, <2>4, EffectOnServices
  <2>6. (\A s \in Services : up[s]) => \A s \in Services : up'[s]
    BY <1>3, <2>1, <2>2, <2>3, EffectOnServices
  <2>7. QED
    BY <1>1, <2>5, <2>6 DEF Lost, Type, Valid, Target
<1>4. ASSUME NEW s \in Services, ContainerRestarts(s)
      PROVE  /\ up' = up /\ \A x \in Services : restarts'[x] >= restarts[x]
             /\ Lost(r) => Lost(r)'
             /\ InForceOrLost(r) => InForceOrLost(r)'
  <2>1. /\ up' = up /\ restarts'[s] = restarts[s] + 1 /\ startedAt'[s] = startedAt[s] + 1
        /\ \A x \in Services : x # s =>
             restarts'[x] = restarts[x] /\ startedAt'[x] = startedAt[x]
        /\ \A f \in filters : f[1] # s => f \in filters'
    BY <1>4 DEF ContainerRestarts, NetnsGone
  <2>2. Lost(r) => Lost(r)'
    BY <1>1, <2>1 DEF Lost, Type, Valid, Target
  <2>3. ASSUME Valid(r), Type(r) = "stop_service", FaultInForce(r)
        PROVE  InForceOrLost(r)'
    BY <1>1, <2>1, <2>3 DEF InForceOrLost, FaultInForce, Valid, Target, Type, Impairments
  <2>4. ASSUME Valid(r), Type(r) = "restart_service", FaultInForce(r)
        PROVE  InForceOrLost(r)'
    <3>1. Target(r) \in Services
      BY <2>4 DEF Valid
    <3>2. up[Target(r)] /\ startedAt[Target(r)] # restartFrom[r]
      BY <2>4 DEF FaultInForce, Impairments
    <3>3. restartFrom[r] <= startedAt[Target(r)]
      BY <2>4 DEF RestartSeen
    <3>4. startedAt[Target(r)] \in Nat /\ restartFrom[r] \in Nat
      BY <3>1
    <3>5. startedAt'[Target(r)] \in {startedAt[Target(r)], startedAt[Target(r)] + 1}
      BY <2>1, <3>1
    <3>6. up'[Target(r)] /\ startedAt'[Target(r)] # restartFrom'[r]
      BY <1>1, <2>1, <3>1, <3>2, <3>3, <3>4, <3>5 DEF flags
    <3>7. QED
      BY <1>1, <2>4, <3>6 DEF InForceOrLost, FaultInForce, Valid, Target, Type
  <2>5. ASSUME Valid(r), Type(r) \in Impairments, FaultInForce(r)
        PROVE  InForceOrLost(r)'
    <3>1. CASE Target(r) = s
      <4>1. Lost(r)'
        BY <1>1, <2>1, <2>5, <3>1 DEF Lost, Type, Valid, Target
      <4>2. QED
        BY <4>1 DEF InForceOrLost
    <3>2. CASE Target(r) # s
      <4>1. HasFilter(Target(r), Type(r))
        BY <2>5 DEF FaultInForce, Impairments
      <4>2. HasFilter(Target(r), Type(r))'
        BY <1>1, <2>1, <3>2, <4>1 DEF HasFilter, Target, Type
      <4>3. QED
        BY <1>1, <2>5, <4>2 DEF InForceOrLost, FaultInForce, Valid, Target, Type
    <3>3. QED
      BY <3>1, <3>2
  <2>6. QED
    BY <1>1, <2>1, <2>2, <2>3, <2>4, <2>5 DEF InForceOrLost, FaultInForce, Type
<1>5. UNCHANGED world => /\ up' = up /\ Lost(r)' = Lost(r)
                         /\ InForceOrLost(r)' = InForceOrLost(r)
  BY <1>1 DEF world, flags, Lost, InForceOrLost, FaultInForce, HasFilter, Type, Valid, Target
<1>6. Active(r) => /\ Lost(r) => Lost(r)'
                   /\ (\A s \in Services : up[s]) => \A s \in Services : up'[s]
  BY <1>3, <1>4, <1>5, LabOnServices
<1>7. pc[r] \in BeforeFinally => (InForceOrLost(r) => InForceOrLost(r)')
  BY <1>2, <1>4, <1>5, LabOnServices DEF NothingLate
<1>8. QED
  BY <1>1, <1>2, <1>6, <1>7 DEF HeldRun, At, results, Active, Ended, AfterTraffic, BeforeFinally

\* With one scenario at a time: the run under way has the lab for itself, and
\* the fault it verified is in force or visibly lost until its traffic has run.
\* (orchestration.py:388-472)
THEOREM HeldInvariant ==
  ASSUME Exclusive
  PROVE  Spec => []HeldInv
<1>1. Init => HeldInv
  <2> SUFFICES ASSUME Init
               PROVE  HeldInv
    OBVIOUS
  <2>1. OneAtATime /\ NothingLate
    BY DEF Init, OneAtATime, NothingLate, Active, BeforeFinally
  <2>2. RestartSeen
    BY DEF Init, InjInit, LabInit, InjectorInit, RestartSeen, Valid
  <2>3. \A r \in Runs : HeldRun(r)
    BY DEF Init, HeldRun, At, AfterTraffic
  <2>4. QED
    BY <2>1, <2>2, <2>3 DEF HeldInv
<1>2. TypeOK /\ TypeOK' /\ InjInv /\ ScenarioInv /\ HeldInv /\ [Next]_vars => HeldInv'
  <2> SUFFICES ASSUME TypeOK, TypeOK', InjInv, ScenarioInv, HeldInv, [Next]_vars
               PROVE  HeldInv'
    OBVIOUS
  <2>1. /\ InjTypeOK /\ InjTypeOK' /\ ScenTypeOK /\ CommandsFit
        /\ CallsInStage /\ LateApplySpoils /\ PassIsFinal
        /\ OneAtATime /\ NothingLate /\ RestartSeen /\ \A r \in Runs : HeldRun(r)
    BY DEF TypeOK, ScenTypeOK, InjInv, ScenarioInv, HeldInv
  <2>2. ASSUME NEW d \in Runs, DriverStep(d)
        PROVE  HeldInv'
    <3>1. OneAtATime' /\ NothingLate' /\ RestartSeen'
      BY <2>1, <2>2, DriverKeepsOrder, DriverKeepsNothingLate, DriverKeepsRestartSeen
    <3>2. \A r \in Runs : HeldRun(r)'
      BY <2>1, <2>2, DriverKeepsOwnHeld, DriverKeepsOthersHeld
    <3>3. QED
      BY <3>1, <3>2 DEF HeldInv
  <2>3. CASE LabStep
    <3>1. /\ UNCHANGED <<pc, results, flags, op, ret, fault>> /\ orphans' \subseteq orphans
          /\ \A x \in Services : startedAt'[x] >= startedAt[x]
      BY <2>1, <2>3, LabOnServices
    <3>2. OneAtATime' /\ NothingLate'
      BY <2>1, <3>1 DEF OneAtATime, NothingLate, Active, Spoiled, results
    <3>3. ASSUME NEW r \in Runs, Valid(r)
          PROVE  restartFrom'[r] <= startedAt'[Target(r)]
      <4>1. Target(r) \in Services
        BY <3>3 DEF Valid
      <4>2. /\ restartFrom[r] \in Nat /\ startedAt[Target(r)] \in Nat
            /\ startedAt'[Target(r)] \in Nat
        BY <2>1, <4>1 DEF InjTypeOK, FlagsTypeOK, LabTypeOK
      <4>3. restartFrom[r] <= startedAt[Target(r)] /\ startedAt'[Target(r)] >= startedAt[Target(r)]
        BY <2>1, <3>1, <3>3, <4>1 DEF RestartSeen
      <4>4. QED
        BY <3>1, <4>2, <4>3 DEF flags
    <3>4. RestartSeen'
      BY <3>1, <3>3 DEF RestartSeen, Valid, Target
    <3>5. \A r \in Runs : HeldRun(r)'
      BY <2>1, <2>3, LabKeepsHeld
    <3>6. QED
      BY <3>2, <3>4, <3>5 DEF HeldInv
  <2>4. CASE UNCHANGED vars
    BY <2>4 DEF vars, injVars, world, flags, results, HeldInv, OneAtATime, NothingLate, Active,
       Spoiled, RestartSeen, HeldRun, InForceOrLost, FaultInForce, HasFilter, Lost, Type, Valid,
       Target, At
  <2>5. QED
    BY <2>2, <2>3, <2>4 DEF Next, DriverStep
<1>3. QED
  BY <1>1, <1>2, ScenarioTypeCorrect, ScenarioInvariant, ScenarioUsesInjector,
     InjectorInvariant, PTL DEF Spec

\* A PASS was earned under the fault: with one scenario at a time, a run
\* reported PASS had its fault in force while its traffic ran, although nobody
\* looks at the fault after the verification.  (orchestration.py:399-409, 695-720)
THEOREM PassIsEarned ==
  ASSUME Exclusive
  PROVE  Spec => []PassMeansHeld
<1>1. ScenarioInv /\ HeldInv => PassMeansHeld
  BY DEF ScenarioInv, PassIsFinal, HeldInv, HeldRun, PassMeansHeld
<1>2. QED
  BY <1>1, ScenarioInvariant, HeldInvariant, PTL

\* With one scenario at a time, PASS is only reported of a lab whose services
\* all run, whatever happened between the recovery check and the report.
\* (orchestration.py:448-450, 471)
THEOREM PassLeavesServices ==
  ASSUME Exclusive
  PROVE  Spec => PassLeavesLabRunning
<1>1. TypeOK /\ InjInv /\ ScenarioInv /\ ScenarioInv' /\ HeldInv /\ [Next]_vars =>
        [\A r \in Runs : status'[r] = "PASS" /\ status[r] # "PASS" =>
           \A s \in Services : up[s]]_vars
  <2> SUFFICES ASSUME TypeOK, InjInv, ScenarioInv, ScenarioInv', HeldInv, [Next]_vars,
                      NEW r \in Runs, status'[r] = "PASS", status[r] # "PASS"
               PROVE  \A s \in Services : up[s]
    OBVIOUS
  <2>1. InjTypeOK /\ ScenTypeOK /\ CommandsFit
    BY DEF TypeOK, ScenTypeOK, InjInv
  <2>2. ~(LabStep \/ UNCHANGED vars)
    BY DEF LabStep, vars, results
  <2>3. PICK d \in Runs : DriverStep(d)
    BY <2>2 DEF Next, DriverStep
  <2>4. DriverStep(r)
    BY <2>1, <2>3, OtherScenariosUntouched DEF SameScenario
  <2>5. Report(r)
    BY <2>1, <2>4 DEF DriverStep, Drive, PreFault, MutationBlocked, Apply, AfterApply, AfterVerify,
       Traffic, Collect, Except, IgnoreSigint, IgnoreSigterm, Remove, AfterRemove,
       AfterVerifyRemoved, Restore, RecoveryTraffic, RecoveryFinal, InjectorStep,
       InterruptOutside, Crash, results, ScenTypeOK
  <2>6. recovery[r] = "PASS" /\ ~infraError[r] /\ pc[r] = "report"
    BY <2>1, <2>5 DEF Report, FinalStatus, At, ScenTypeOK
  <2>7. ~Spoiled(r)
    BY <2>6 DEF Spoiled, ScenarioInv, PassIsFinal
  <2>8. QED
    BY <2>6, <2>7 DEF HeldInv, HeldRun
<1>2. QED
  BY <1>1, ScenarioTypeCorrect, ScenarioInvariant, ScenarioUsesInjector, InjectorInvariant,
     HeldInvariant, PTL DEF Spec, PassLeavesLabRunning

-----------------------------------------------------------------------------
(* A rollback takes out only what its own run put in: one scenario at a     *)
(* time.                                                                    *)

\* Run r may still change the lab, itself or by a command left behind.
Holds(r) == Active(r) \/ \E o \in orphans : o.run = r

\* Where its flags let the rollback of run r delete, everything is r's own.
ClaimRun(r) ==
  Holds(r) =>
    /\ filterCleanup[r] \/ op[r] \in {"showQdisc", "addClsact"} =>
         \A f \in filters : f[1] = Target(r) /\ f[2] = Type(r) => f[3] = r
    /\ createdClsact[r] =>
         /\ \A q \in qdiscs : q[1] = Target(r) => q[2] = r
         /\ \A f \in filters : f[1] = Target(r) => f[3] = r

OneOwner == \A o, p \in orphans : o.run = p.run
StartsNew == \A r \in Runs : pc[r] = "start" => ret[r] = "none"
UnderClsact == \A f \in filters : HasClsact(f[1])

ClaimInv == OneOwner /\ StartsNew /\ UnderClsact /\ \A r \in Runs : ClaimRun(r)

\* A filter needs the clsact it hangs on, and goes with it.
LEMMA EffectKeepsUnder ==
  ASSUME LabTypeOK, UnderClsact, NEW s \in Services, NEW c, NEW t, NEW r, Effect(c, s, t, r)
  PROVE  UnderClsact'
<1> USE DEF LabTypeOK, UnderClsact, HasClsact
<1>1. CASE Booted(s) \/ c = "stop" \/ c = "delClsact"
  BY <1>1 DEF Effect, Booted, NetnsGone, world
<1>2. CASE c = "addClsact" \/ c = "addFilter" \/ c = "delFilter"
  BY <1>2 DEF Effect
<1>3. CASE UNCHANGED world
  BY <1>3 DEF world
<1>4. QED
  BY <1>1, <1>2, <1>3 DEF Effect

\* No step of a run or of the lab leaves a filter without its clsact.
LEMMA NextKeepsUnder ==
  ASSUME InjTypeOK, CommandsFit, UnderClsact, [Next]_vars
  PROVE  UnderClsact'
<1>1. CASE UNCHANGED world
  BY <1>1 DEF world, UnderClsact, HasClsact
<1>2. ASSUME NEW r \in Runs, DriverStep(r)
      PROVE  UnderClsact'
  <2>1. CASE Step(r) /\ ~(UNCHANGED world)
    <3>1. WriteStep(r)
      BY <2>1, QuietSteps DEF Step, ReadStep, WriteStep
    <3>2. Fits(r, op[r]) /\ Effect(op[r], Target(r), Type(r), r)
      BY <2>1, <3>1, WriteLab DEF Unreported
    <3>3. QED
      BY <3>2, EffectKeepsUnder DEF Fits, Valid, InjTypeOK
  <2>2. QED
    BY <1>1, <1>2, <2>1, DriverOnServices DEF InjectorStep
<1>3. ASSUME NEW s \in Services, ContainerRestarts(s)
      PROVE  UnderClsact'
  BY <1>3 DEF ContainerRestarts, NetnsGone, UnderClsact, HasClsact
<1>4. ASSUME NEW o \in orphans, OrphanEnds(o)
      PROVE  UnderClsact'
  BY <1>1, <1>4, EffectKeepsUnder DEF OrphanEnds, CommandsFit, Fits, Valid, InjTypeOK
<1>5. QED
  BY <1>1, <1>2, <1>3, <1>4 DEF Next, DriverStep, LabStep, vars, injVars, world

\* Two runs never have commands left behind at the same time.
LEMMA DriverKeepsOneOwner ==
  ASSUME Exclusive, NEW r \in Runs, InjTypeOK, CommandsFit, ScenTypeOK, CallsInStage, OneAtATime,
         OneOwner, DriverStep(r)
  PROVE  OneOwner'
<1>1. CASE Active(r)
  BY <1>1, DriverOrphans DEF OneAtATime, OneOwner
<1>2. CASE ~Active(r)
  BY <1>2, HowARunBegins DEF PreFault, injVars, OneOwner
<1>3. QED
  BY <1>1, <1>2

\* A run that has not begun has not called its injector.
LEMMA DriverKeepsStartsNew ==
  ASSUME NEW r \in Runs, InjTypeOK, CommandsFit, ScenTypeOK, CallsInStage, StartsNew,
         DriverStep(r)
  PROVE  StartsNew'
<1>1. \A q \in Runs : q # r => SameScenario(q) /\ SameRun(q)
  BY OtherScenariosUntouched
<1>2. pc'[r] # "start" \/ (pc[r] = "start" /\ ret'[r] = ret[r]) \/ InjectorStep(r)
  BY DEF DriverStep, Drive, PreFault, MutationBlocked, Apply, AfterApply, AfterVerify, Traffic,
     Collect, Except, IgnoreSigint, IgnoreSigterm, Remove, AfterRemove, AfterVerifyRemoved,
     Restore, RecoveryTraffic, RecoveryFinal, Report, InterruptOutside, Crash, Raised, At,
     GotoStage, ScenTypeOK
<1>3. InjectorStep(r) => pc'[r] = pc[r] /\ pc[r] # "start"
  BY StepIsBusy DEF InjectorStep, CallsInStage, InStage, ApplyCommands, RemoveCommands,
     VerifyRemovedCommands, Commands, Mutations, Reads
<1>4. QED
  BY <1>1, <1>2, <1>3 DEF StartsNew, SameScenario, SameRun

\* A run claims a clsact, or the place of its filter, when it has seen it free,
\* and nobody else adds anything after that.
LEMMA DriverKeepsOwnClaim ==
  ASSUME Exclusive, NEW r \in Runs, InjTypeOK, CommandsFit, Fresh, ScenTypeOK, CallsInStage,
         StartsNew, UnderClsact, ClaimRun(r), DriverStep(r)
  PROVE  ClaimRun(r)'
<1>1. fault' = fault
  BY OtherScenariosUntouched
<1>2. CASE ~Holds(r)
  <2>1. ~Active(r)
    BY <1>2 DEF Holds
  <2>2. CASE PreFault(r)
    <3>1. op'[r] = "idle" /\ ~filterCleanup'[r] /\ ~createdClsact'[r]
      BY <2>2 DEF PreFault, At, StartsNew, Fresh, injVars, flags
    <3>2. QED
      BY <3>1 DEF ClaimRun
  <2>3. CASE ~Active(r)' /\ UNCHANGED <<world, orphans, flags>>
    BY <1>2, <2>3 DEF Holds, ClaimRun
  <2>4. QED
    BY <2>1, <2>2, <2>3, HowARunBegins
<1>3. CASE Holds(r)
  <2>1. CASE Acts(r)
    <3>1. /\ \A q \in qdiscs' : q \in qdiscs \/ q = <<Target(r), r>>
          /\ \A f \in filters' : f \in filters \/ f = <<Target(r), Type(r), r>>
      BY <2>1, ActsAddOwn
    <3>2. ~HasClsact(Target(r)) => /\ \A q \in qdiscs : q[1] # Target(r)
                                   /\ \A f \in filters : f[1] # Target(r)
      BY DEF HasClsact, UnderClsact
    <3>3. ~HasFilter(Target(r), Type(r)) =>
            \A f \in filters : ~(f[1] = Target(r) /\ f[2] = Type(r))
      BY DEF HasFilter
    <3>4. filterCleanup'[r] \/ op'[r] \in {"showQdisc", "addClsact"} =>
            \A f \in filters' : f[1] = Target(r) /\ f[2] = Type(r) => f[3] = r
      BY <1>3, <2>1, <3>1, <3>3, ClaimsAreFree DEF ClaimRun
    <3>5. createdClsact'[r] =>
            /\ \A q \in qdiscs' : q[1] = Target(r) => q[2] = r
            /\ \A f \in filters' : f[1] = Target(r) => f[3] = r
      BY <1>3, <2>1, <3>1, <3>2, ClaimsAreFree DEF ClaimRun
    <3>6. QED
      BY <1>1, <3>4, <3>5 DEF ClaimRun, Target, Type
  <2>2. CASE Mask(r) \/ Crash(r) \/ UNCHANGED injVars
    <3>1. UNCHANGED <<world, flags>> /\ op'[r] \in {op[r], "dead"}
      BY <2>2 DEF Mask, Crash, Dies, injVars, InjTypeOK, ControlTypeOK
    <3>2. QED
      BY <1>1, <1>3, <3>1 DEF ClaimRun, Target, Type, world, flags
  <2>3. QED
    BY <2>1, <2>2, DriveIsClient, ActsAreTheSteps DEF DrivesInjector, DriverStep, InjectorStep
<1>4. QED
  BY <1>2, <1>3

\* The claim of a run that is under way, or has left commands behind, is not
\* touched by another one.
LEMMA DriverKeepsOthersClaim ==
  ASSUME Exclusive, NEW d \in Runs, NEW r \in Runs, d # r, InjTypeOK, CommandsFit, ScenTypeOK,
         CallsInStage, OneAtATime, ClaimRun(r), DriverStep(d)
  PROVE  ClaimRun(r)'
<1> SUFFICES ASSUME Holds(r)'
             PROVE  ClaimRun(r)'
  BY DEF ClaimRun
<1>1. fault' = fault /\ SameScenario(r) /\ SameRun(r)
  BY OtherScenariosUntouched
<1>2. Active(r)' <=> Active(r)
  BY <1>1 DEF SameScenario, Active
<1>3. Holds(r)
  BY <1>2, DriverOrphans DEF Holds
<1>4. UNCHANGED world
  <2>1. CASE Active(r)
    BY <2>1, OthersStandStill
  <2>2. CASE ~Active(r)
    <3>1. ~Active(d) /\ orphans # {}
      BY <1>3, <2>2 DEF Holds, OneAtATime
    <3>2. QED
      BY <3>1, HowARunBegins DEF Alone
  <2>3. QED
    BY <2>1, <2>2
<1>5. QED
  BY <1>1, <1>3, <1>4 DEF ClaimRun, Target, Type, SameRun, world

\* A command that takes effect late is one of the run that has the claim.
LEMMA LabKeepsClaim ==
  ASSUME NEW r \in Runs, InjTypeOK, CommandsFit, OneAtATime, OneOwner, ClaimRun(r), LabStep
  PROVE  ClaimRun(r)'
<1> SUFFICES ASSUME Holds(r)'
             PROVE  ClaimRun(r)'
  BY DEF ClaimRun
<1>1. UNCHANGED <<pc, flags, op, fault>> /\ orphans' \subseteq orphans
  BY LabOnServices
<1>2. Holds(r)
  BY <1>1 DEF Holds, Active
<1>3. \A o \in orphans : o.run = r
  BY <1>2 DEF Holds, OneAtATime, OneOwner
<1>4. /\ \A q \in qdiscs' : q \in qdiscs \/ q = <<Target(r), r>>
      /\ \A f \in filters' : f \in filters \/ f = <<Target(r), Type(r), r>>
  BY <1>3, EnvironmentOnLab DEF LabStep, Environment
<1>5. QED
  BY <1>1, <1>2, <1>4 DEF ClaimRun, Target, Type, flags

\* With one scenario at a time, whatever the rollback flags of a run let it
\* delete is its own, as long as any of its commands may still take effect.
\* (fault_injection.py:189-212)
THEOREM ClaimInvariant ==
  ASSUME Exclusive
  PROVE  Spec => []ClaimInv
<1>1. Init => ClaimInv
  <2> SUFFICES ASSUME Init
               PROVE  ClaimInv
    OBVIOUS
  <2>1. OneOwner /\ StartsNew /\ \A r \in Runs : ClaimRun(r)
    BY DEF Init, InjInit, LabInit, InjectorInit, OneOwner, StartsNew, ClaimRun
  <2>2. UnderClsact
    BY DEF Init, InjInit, LabInit, UnderClsact
  <2>3. QED
    BY <2>1, <2>2 DEF ClaimInv
<1>2. TypeOK /\ InjInv /\ ScenarioInv /\ HeldInv /\ ClaimInv /\ [Next]_vars => ClaimInv'
  <2> SUFFICES ASSUME TypeOK, InjInv, ScenarioInv, HeldInv, ClaimInv, [Next]_vars
               PROVE  ClaimInv'
    OBVIOUS
  <2>1. /\ InjTypeOK /\ ScenTypeOK /\ CommandsFit /\ Fresh /\ CallsInStage /\ OneAtATime
        /\ OneOwner /\ StartsNew /\ UnderClsact /\ \A r \in Runs : ClaimRun(r)
    BY DEF TypeOK, ScenTypeOK, InjInv, ScenarioInv, HeldInv, ClaimInv
  <2>2. UnderClsact'
    BY <2>1, NextKeepsUnder
  <2>3. ASSUME NEW d \in Runs, DriverStep(d)
        PROVE  ClaimInv'
    <3>1. OneOwner' /\ StartsNew'
      BY <2>1, <2>3, DriverKeepsOneOwner, DriverKeepsStartsNew
    <3>2. \A r \in Runs : ClaimRun(r)'
      BY <2>1, <2>3, DriverKeepsOwnClaim, DriverKeepsOthersClaim
    <3>3. QED
      BY <2>2, <3>1, <3>2 DEF ClaimInv
  <2>4. CASE LabStep
    <3>1. UNCHANGED <<pc, ret>> /\ orphans' \subseteq orphans
      BY <2>1, <2>4, LabOnServices
    <3>2. OneOwner' /\ StartsNew'
      BY <2>1, <3>1 DEF OneOwner, StartsNew
    <3>3. \A r \in Runs : ClaimRun(r)'
      BY <2>1, <2>4, LabKeepsClaim
    <3>4. QED
      BY <2>2, <3>2, <3>3 DEF ClaimInv
  <2>5. CASE UNCHANGED vars
    BY <2>2, <2>5 DEF vars, injVars, world, flags, ClaimInv, OneOwner, StartsNew, ClaimRun, Holds,
       Active, Type, Target
  <2>6. QED
    BY <2>3, <2>4, <2>5 DEF Next, DriverStep
<1>3. QED
  BY <1>1, <1>2, ScenarioTypeCorrect, ScenarioInvariant, ScenarioUsesInjector,
     InjectorInvariant, HeldInvariant, PTL DEF Spec

\* What goes from the lab goes with its container, or by a deletion of its owner.
OwnGoes(c, r) ==
  /\ \A q \in qdiscs \ qdiscs' :
       NetnsLost(q[1]) \/ (q = <<q[1], r>> /\ c = "delClsact")
  /\ \A f \in filters \ filters' :
       NetnsLost(f[1]) \/ (f = <<f[1], Type(r), r>> /\ c \in {"delFilter", "delClsact"})

LEMMA CommandTakesOwn ==
  ASSUME NEW r \in Runs, NEW c \in Mutations, LabTypeOK, FilterFlagged, ClaimRun(r), Holds(r),
         LabChange(c, r),
         c = "delClsact" => createdClsact[r],
         c = "delFilter" => filterCleanup[r]
  PROVE  OwnGoes(c, r)
<1>1. ASSUME NEW q \in qdiscs, q \notin qdiscs', ~NetnsLost(q[1])
      PROVE  q = <<q[1], r>> /\ c = "delClsact"
  <2>1. c = "delClsact" /\ q[1] = Target(r)
    BY <1>1 DEF LabChange
  <2>2. q[2] = r
    BY <1>1, <2>1 DEF ClaimRun
  <2>3. QED
    BY <2>1, <2>2 DEF LabTypeOK
<1>2. ASSUME NEW f \in filters, f \notin filters', ~NetnsLost(f[1])
      PROVE  f = <<f[1], Type(r), r>> /\ c \in {"delFilter", "delClsact"}
  <2>1. c \in {"delFilter", "delClsact"} /\ f[3] = r
    BY <1>2 DEF LabChange, ClaimRun
  <2>2. f[2] = Type(r)
    BY <2>1 DEF FilterFlagged
  <2>3. QED
    BY <2>1, <2>2 DEF LabTypeOK
<1>3. QED
  BY <1>1, <1>2 DEF OwnGoes

\* With one scenario at a time, tc state of the operator or of an earlier run
\* goes only with its container: a rollback deletes what its own run installed.
\* (fault_injection.py:189-212)
THEOREM RollbackTakesOwn ==
  ASSUME Exclusive
  PROVE  Spec => OnlyOwnRemoved
<1> DEFINE Removal ==
      \A x \in (qdiscs \ qdiscs') \union (filters \ filters') :
        \/ up'[x[1]] = FALSE \/ startedAt'[x[1]] # startedAt[x[1]]
        \/ \E r \in Runs :
             /\ x = <<x[1], r>> \/ x = <<x[1], Type(r), r>>
             /\ \/ op[r] \in {"delFilter", "delClsact"}
                \/ \E c \in {"delFilter", "delClsact"} : [run |-> r, cmd |-> c] \in orphans
<1>1. TypeOK /\ InjInv /\ ScenarioInv /\ HeldInv /\ ClaimInv /\ [Next]_vars => [Removal]_vars
  <2> SUFFICES ASSUME TypeOK, InjInv, ScenarioInv, HeldInv, ClaimInv, [Next]_vars
               PROVE  Removal
    OBVIOUS
  <2>1. /\ InjTypeOK /\ LabTypeOK /\ OrphansTypeOK /\ CommandsFit /\ CallsInStage
        /\ ClsactFlagged /\ FilterFlagged /\ \A r \in Runs : ClaimRun(r)
    BY DEF TypeOK, InjTypeOK, InjInv, ScenarioInv, ClaimInv
  <2>2. CASE UNCHANGED world
    BY <2>2 DEF world
  <2>3. ASSUME NEW r \in Runs, NEW c, OwnGoes(c, r),
               c = op[r] \/ [run |-> r, cmd |-> c] \in orphans
        PROVE  Removal
    BY <2>3 DEF OwnGoes, NetnsLost
  <2>4. ASSUME NEW r \in Runs, DriverStep(r), ~(UNCHANGED world)
        PROVE  Removal
    <3>1. Step(r) /\ pc[r] \in {"apply", "verify", "remove", "verifyRemoved"}
      BY <2>1, <2>4, DriverOnServices, StepIsBusy DEF InjectorStep, CallsInStage, InStage,
         ApplyCommands, RemoveCommands, VerifyRemovedCommands, Commands, Mutations, Reads
    <3>2. Holds(r)
      BY <3>1 DEF Holds, Active, Ended
    <3>3. WriteStep(r)
      BY <2>4, <3>1, QuietSteps DEF Step, ReadStep, WriteStep
    <3>4. op[r] \in Mutations /\ LabChange(op[r], r)
      BY <2>1, <2>4, <3>3, WriteLab, ActsOnLab DEF Acts
    <3>5. OwnGoes(op[r], r)
      BY <2>1, <3>2, <3>4, CommandTakesOwn DEF ClsactFlagged, FilterFlagged
    <3>6. QED
      BY <2>3, <3>5
  <2>5. ASSUME NEW s \in Services, ContainerRestarts(s)
        PROVE  Removal
    BY <2>1, <2>5 DEF ContainerRestarts, NetnsGone, LabTypeOK
  <2>6. ASSUME NEW o \in orphans, OrphanEnds(o), ~(UNCHANGED world)
        PROVE  Removal
    <3>1. o.run \in Runs /\ o.cmd \in Mutations /\ o = [run |-> o.run, cmd |-> o.cmd]
      BY <2>1 DEF OrphansTypeOK
    <3>2. LabChange(o.cmd, o.run)
      BY <2>1, <2>6, <3>1, EffectIsLabChange DEF OrphanEnds, CommandsFit
    <3>3. OwnGoes(o.cmd, o.run)
      BY <2>1, <3>1, <3>2, CommandTakesOwn DEF ClsactFlagged, FilterFlagged, Holds
    <3>4. QED
      BY <2>3, <3>1, <3>3
  <2>7. QED
    BY <2>2, <2>4, <2>5, <2>6 DEF Next, DriverStep, LabStep, vars, injVars, world
<1>2. QED
  BY <1>1, ScenarioTypeCorrect, ScenarioInvariant, ScenarioUsesInjector, InjectorInvariant,
     HeldInvariant, ClaimInvariant, PTL DEF Spec, OnlyOwnRemoved

-----------------------------------------------------------------------------
(* The driver implements FaultLifecycle.  A step of one run is looked at in   *)
(* three kinds: a step of the driver itself, a command of its injector, and   *)
(* its death.                                                               *)

\* A command either loses its client, or its own doing is all there is.
LEMMA CommandOnLab ==
  ASSUME NEW r \in Runs, InjTypeOK, Step(r)
  PROVE  \/ UNCHANGED dangled
         \/ dangled' = [dangled EXCEPT ![r] = TRUE] /\ UNCHANGED world
<1>1. CASE ReadStep(r)
  BY <1>1, QuietSteps
<1>2. CASE WriteStep(r)
  BY <1>2 DEF WriteStep, ServiceCommand, AddClsact, AddFilter, StartService, DelFilter,
     DelClsact, Escapes, Succeeds, Fails, Unreported, LeftBehind
<1>3. QED
  BY <1>1, <1>2 DEF Step, ReadStep, WriteStep

\* An adding command that changes the lab adds its object and nothing else.
LEMMA AddingCommand ==
  ASSUME NEW r \in Runs, Step(r), op[r] \in {"addClsact", "addFilter"}
  PROVE  \/ UNCHANGED world
         \/ qdiscs' = qdiscs \union {<<Target(r), r>>} /\ UNCHANGED <<filters, dangled>>
         \/ filters' = filters \union {<<Target(r), Type(r), r>>} /\ UNCHANGED <<qdiscs, dangled>>
<1>1. CASE AddClsact(r) \/ AddFilter(r) \/ Escapes(r, op[r])
  BY <1>1 DEF AddClsact, AddFilter, Escapes, Succeeds, Fails, Unreported, Effect
<1>2. QED
  BY <1>1 DEF Step, InspectBefore, ServiceCommand, ShowFilter, ShowQdisc,
     VerifyApplied, StartService, DelFilter, CheckFilter, DelClsact, CheckClsact,
     VerifyRunning, VerifyFilterGone, VerifyClsactGone, Succeeds, Fails, Reading, Reads

\* The bookkeeping of the other runs that SameScenario does not speak of.
SameAccount(q) ==
  /\ rollbackError'[q] = rollbackError[q] /\ recoveryAttempted'[q] = recoveryAttempted[q]
  /\ dangled'[q] = dangled[q]

LEMMA OtherAccountsUntouched ==
  ASSUME NEW r \in Runs, InjTypeOK, ScenTypeOK, DriverStep(r)
  PROVE  \A q \in Runs : q # r => SameAccount(q)
<1>1. \A q \in Runs : q # r =>
        rollbackError'[q] = rollbackError[q] /\ recoveryAttempted'[q] = recoveryAttempted[q]
  <2> USE DEF ScenTypeOK
  <2>1. CASE \/ PreFault(r) \/ MutationBlocked(r) \/ Apply(r) \/ AfterApply(r)
             \/ AfterVerify(r) \/ Traffic(r) \/ Collect(r) \/ Except(r)
    BY <2>1 DEF PreFault, MutationBlocked, Apply, AfterApply, AfterVerify, Traffic, Collect,
       Except, results
  <2>2. CASE \/ IgnoreSigint(r) \/ IgnoreSigterm(r) \/ Remove(r) \/ AfterRemove(r)
             \/ AfterVerifyRemoved(r) \/ Restore(r)
    BY <2>2 DEF IgnoreSigint, IgnoreSigterm, Remove, AfterRemove, AfterVerifyRemoved, Restore,
       results
  <2>3. CASE RecoveryTraffic(r) \/ RecoveryFinal(r) \/ Report(r)
    BY <2>3 DEF RecoveryTraffic, RecoveryFinal, Report
  <2>4. CASE InjectorStep(r) \/ InterruptOutside(r) \/ Crash(r)
    BY <2>4 DEF InjectorStep, InterruptOutside, Crash, results
  <2>5. QED
    BY <2>1, <2>2, <2>3, <2>4 DEF DriverStep, Drive
<1>2. \A q \in Runs : q # r => dangled'[q] = dangled[q]
  <2> USE DEF InjTypeOK, OrphansTypeOK
  <2>1. CASE Drive(r) \/ InterruptOutside(r)
    BY <2>1, DriverLeavesLab
  <2>2. CASE InjectorStep(r)
    BY <2>2, CommandOnLab DEF InjectorStep
  <2>3. CASE Crash(r)
    BY <2>3 DEF Crash, Dies, LeftBehind
  <2>4. QED
    BY <2>1, <2>2, <2>3 DEF DriverStep
<1>3. QED
  BY <1>1, <1>2 DEF SameAccount

-----------------------------------------------------------------------------
(* The invariant.                                                           *)

EarlyRun(r) ==
  Early(r) =>
    /\ op[r] \in {"idle", "dead"} /\ ret[r] = "none"
    /\ ~applied[r] /\ ~cleanupRequired[r] /\ ~dangled[r]
    /\ ~rollbackError[r] /\ ~escaping[r]
    /\ OwnQdiscs(r) = {} /\ OwnFilters(r) = {}

AccountedRun(r) ==
  /\ pc[r] \in {"remove", "verifyRemoved"} \/ rollbackError[r] => recoveryAttempted[r]
  /\ (pc[r] = "remove" /\ op[r] = "idle" /\ ret[r] = "ok") \/ pc[r] = "verifyRemoved" =>
       ~applied[r] /\ ~cleanupRequired[r]
  /\ pc[r] \in AfterRollback /\ (applied[r] \/ cleanupRequired[r]) =>
       rollbackError[r] \/ escaping[r]
  /\ pc[r] = "reported" => ~escaping[r]
  /\ pc[r] = "reported" /\ rollbackError[r] => status[r] \in {"FAIL", "ERROR"}

\* Nobody returns to the stages before apply(), and nothing happens in them.
LEMMA DriverKeepsEarly ==
  ASSUME NEW r \in Runs, InjTypeOK, ScenTypeOK, EarlyRun(r), DriverStep(r)
  PROVE  EarlyRun(r)'
<1> USE DEF EarlyRun, Early, ScenTypeOK, GotoStage, At
<1>1. CASE PreFault(r) \/ MutationBlocked(r) \/ InterruptOutside(r)
  BY <1>1 DEF PreFault, MutationBlocked, InterruptOutside, injVars, world, flags, results,
     OwnQdiscs, OwnFilters
<1>2. CASE \/ Apply(r) \/ AfterApply(r) \/ AfterVerify(r) \/ Traffic(r) \/ Collect(r)
           \/ Except(r) \/ IgnoreSigint(r) \/ IgnoreSigterm(r) \/ Remove(r) \/ AfterRemove(r)
           \/ AfterVerifyRemoved(r) \/ Restore(r) \/ RecoveryTraffic(r) \/ RecoveryFinal(r)
  BY <1>2 DEF Apply, AfterApply, AfterVerify, Traffic, Collect, Except, Raised, IgnoreSigint,
     IgnoreSigterm, Remove, AfterRemove, AfterVerifyRemoved, Restore, RecoveryTraffic,
     RecoveryFinal
<1>3. CASE Report(r)
  BY <1>3 DEF Report, FinalStatus
<1>4. CASE InjectorStep(r)
  BY <1>4, StepIsBusy DEF InjectorStep, results
<1>5. CASE Crash(r)
  BY <1>5 DEF Crash, Ended
<1>6. QED
  BY <1>1, <1>2, <1>3, <1>4, <1>5 DEF DriverStep, Drive

\* remove() returns "ok" only with the cleanup disarmed.
LEMMA RemoveDisarms ==
  ASSUME NEW r \in Runs, InjTypeOK, CallRemove(r) \/ (Step(r) /\ op[r] \in RemoveCommands),
         op'[r] = "idle", ret'[r] = "ok"
  PROVE  ~applied'[r] /\ ~cleanupRequired'[r]
<1> USE DEF InjTypeOK, FlagsTypeOK, ControlTypeOK, Return, Goto, FinishRemove, AfterFilter,
            RemoveCommands
<1>1. CASE CallRemove(r)
  BY <1>1 DEF CallRemove, flags
<1>2. CASE StartService(r)
  BY <1>2 DEF StartService
<1>3. CASE DelFilter(r) \/ CheckFilter(r)
  BY <1>3 DEF DelFilter, CheckFilter
<1>4. CASE DelClsact(r) \/ CheckClsact(r)
  BY <1>4 DEF DelClsact, CheckClsact
<1>5. CASE Escapes(r, op[r]) \/ ReadEscapes(r)
  BY <1>5 DEF Escapes, ReadEscapes
<1>6. QED
  BY <1>1, <1>2, <1>3, <1>4, <1>5 DEF Step, InspectBefore, ServiceCommand, ShowFilter,
     ShowQdisc, AddClsact, AddFilter, VerifyApplied, VerifyRunning, VerifyFilterGone,
     VerifyClsactGone, Succeeds, Fails, Reading

\* verify_removed() does not touch the flags.
LEMMA VerificationKeepsFlags ==
  ASSUME NEW r \in Runs, CallVerifyRemoved(r) \/ (Step(r) /\ op[r] \in VerifyRemovedCommands)
  PROVE  UNCHANGED flags
<1>1. CASE CallVerifyRemoved(r)
  BY <1>1 DEF CallVerifyRemoved
<1>2. CASE VerifyRunning(r) \/ VerifyFilterGone(r) \/ VerifyClsactGone(r) \/ ReadEscapes(r)
  BY <1>2 DEF VerifyRunning, VerifyFilterGone, VerifyClsactGone, ReadEscapes
<1>3. QED
  BY <1>1, <1>2 DEF Step, InspectBefore, ServiceCommand, ShowFilter, ShowQdisc, AddClsact,
     AddFilter, VerifyApplied, StartService, DelFilter, CheckFilter, DelClsact, CheckClsact,
     Succeeds, Fails, Reading, VerifyRemovedCommands, Mutations

LEMMA DriverKeepsAccount ==
  ASSUME NEW r \in Runs, InjTypeOK, CommandsFit, ScenTypeOK, CallsInStage, PassIsFinal,
         EarlyRun(r), AccountedRun(r), DriverStep(r)
  PROVE  AccountedRun(r)'
<1> USE DEF AccountedRun, AfterRollback, ScenTypeOK, GotoStage, At
<1>1. CASE PreFault(r) \/ MutationBlocked(r)
  BY <1>1 DEF PreFault, MutationBlocked, EarlyRun, Early, injVars, flags
<1>2. CASE \/ Apply(r) \/ AfterApply(r) \/ AfterVerify(r) \/ Traffic(r) \/ Collect(r)
           \/ Except(r) \/ IgnoreSigint(r) \/ IgnoreSigterm(r) \/ InterruptOutside(r)
  BY <1>2 DEF Apply, AfterApply, AfterVerify, Traffic, Collect, Except, Raised, results,
     IgnoreSigint, IgnoreSigterm, InterruptOutside
<1>3. CASE Remove(r)
  BY <1>3, RemoveDisarms DEF Remove, injVars, flags, InjTypeOK, FlagsTypeOK, ControlTypeOK
<1>4. CASE AfterRemove(r)
  <2>1. CASE CallVerifyRemoved(r)
    BY <1>4, <2>1, VerificationKeepsFlags DEF AfterRemove, flags
  <2>2. CASE ~CallVerifyRemoved(r)
    BY <1>4, <2>2 DEF AfterRemove, injVars, flags
  <2>3. QED
    BY <2>1, <2>2
<1>5. CASE AfterVerifyRemoved(r) \/ Restore(r)
  BY <1>5 DEF AfterVerifyRemoved, Restore, Mask, injVars, flags, results
<1>6. CASE RecoveryTraffic(r) \/ RecoveryFinal(r)
  BY <1>6 DEF RecoveryTraffic, RecoveryFinal, injVars, flags
<1>7. CASE Report(r)
  BY <1>7 DEF Report, FinalStatus, PassIsFinal, injVars, flags
<1>8. CASE Crash(r)
  BY <1>8 DEF Crash, Dies, results
<1>9. CASE InjectorStep(r)
  <2>1. UNCHANGED <<pc, results>> /\ Step(r)
    BY <1>9 DEF InjectorStep
  <2>2. pc[r] \in {"apply", "verify", "remove", "verifyRemoved"}
    BY <2>1, StepIsBusy DEF CallsInStage, InStage, ApplyCommands, RemoveCommands,
       VerifyRemovedCommands, Commands, Mutations, Reads
  <2>3. CASE pc[r] = "remove"
    <3>1. op[r] \in RemoveCommands
      BY <2>1, <2>3, StepIsBusy DEF CallsInStage, InStage, ApplyCommands, RemoveCommands,
         VerifyRemovedCommands, Commands, Mutations, Reads
    <3>2. QED
      BY <2>1, <2>3, <3>1, RemoveDisarms DEF results
  <2>4. CASE pc[r] = "verifyRemoved"
    <3>1. op[r] \in VerifyRemovedCommands
      BY <2>1, <2>4, StepIsBusy DEF CallsInStage, InStage, ApplyCommands, RemoveCommands,
         VerifyRemovedCommands, Commands, Mutations, Reads
    <3>2. QED
      BY <2>1, <2>4, <3>1, VerificationKeepsFlags DEF results, flags
  <2>5. CASE pc[r] \in {"apply", "verify"}
    BY <2>1, <2>5 DEF results
  <2>6. QED
    BY <2>2, <2>3, <2>4, <2>5
<1>10. QED
  BY <1>1, <1>2, <1>3, <1>4, <1>5, <1>6, <1>7, <1>8, <1>9 DEF DriverStep, Drive

\* The containers and the stray commands do not touch a run's bookkeeping, and
\* add only for runs that have lost a command.
LEMMA LabKeepsAccounts ==
  ASSUME InjTypeOK, CommandsFit, LabStep
  PROVE  /\ UNCHANGED <<pc, results, op, ret, flags, fault, dangled>>
         /\ \A r \in Runs : ~dangled[r] =>
              OwnQdiscs(r)' \subseteq OwnQdiscs(r) /\ OwnFilters(r)' \subseteq OwnFilters(r)
<1>1. UNCHANGED <<pc, results, op, ret, flags, fault, dangled>>
  BY DEF LabStep, ContainerRestarts, OrphanEnds
<1>2. Environment
  BY DEF LabStep, Environment
<1>3. ASSUME NEW r \in Runs, ~dangled[r]
      PROVE  OwnQdiscs(r)' \subseteq OwnQdiscs(r) /\ OwnFilters(r)' \subseteq OwnFilters(r)
  <2>1. \A o \in orphans : o.run # r
    BY <1>3 DEF CommandsFit
  <2>2. QED
    BY <1>2, <2>1, EnvironmentOnLab DEF OwnQdiscs, OwnFilters
<1>4. QED
  BY <1>1, <1>3

\* The inductive invariant of the refinement: a run that has not called apply()
\* owns nothing, and a cleanup still armed after the rollback is accounted for.
\* (orchestration.py:427-472)
THEOREM RefinementInvariant == Spec => []RefinementInv
<1>1. Init => RefinementInv
  BY RunsAssumption DEF Init, InjInit, LabInit, InjectorInit, RefinementInv, EarlyUntouched, Early,
     ArmedIsAccounted, AfterRollback, OwnQdiscs, OwnFilters
<1>2. TypeOK /\ InjInv /\ ScenarioInv /\ RefinementInv /\ [Next]_vars => RefinementInv'
  <2> SUFFICES ASSUME TypeOK, InjInv, ScenarioInv, RefinementInv, [Next]_vars
               PROVE  RefinementInv'
    OBVIOUS
  <2>1. /\ InjTypeOK /\ ScenTypeOK /\ CommandsFit /\ CallsInStage /\ PassIsFinal
        /\ \A r \in Runs : EarlyRun(r) /\ AccountedRun(r)
    BY DEF TypeOK, ScenTypeOK, InjInv, ScenarioInv, RefinementInv, EarlyUntouched,
       ArmedIsAccounted, EarlyRun, AccountedRun
  <2>2. ASSUME NEW r \in Runs, DriverStep(r)
        PROVE  \A q \in Runs : EarlyRun(q)' /\ AccountedRun(q)'
    <3>1. EarlyRun(r)' /\ AccountedRun(r)'
      BY <2>1, <2>2, DriverKeepsEarly, DriverKeepsAccount
    <3>2. ASSUME NEW q \in Runs, q # r
          PROVE  EarlyRun(q)' /\ AccountedRun(q)'
      <4>1. /\ SameScenario(q) /\ SameRun(q) /\ SameAccount(q)
            /\ OwnQdiscs(q)' \subseteq OwnQdiscs(q) /\ OwnFilters(q)' \subseteq OwnFilters(q)
        BY <2>1, <2>2, <3>2, OtherScenariosUntouched, OtherAccountsUntouched
      <4>2. EarlyRun(q) /\ AccountedRun(q)
        BY <2>1
      <4>3. QED
        BY <4>1, <4>2 DEF SameScenario, SameRun, SameAccount, EarlyRun, Early, AccountedRun
    <3>3. QED
      BY <3>1, <3>2
  <2>3. CASE LabStep
    <3>1. /\ UNCHANGED <<pc, results, op, ret, flags, fault, dangled>>
          /\ \A r \in Runs : ~dangled[r] =>
               OwnQdiscs(r)' \subseteq OwnQdiscs(r) /\ OwnFilters(r)' \subseteq OwnFilters(r)
      BY <2>1, <2>3, LabKeepsAccounts
    <3>2. \A q \in Runs : EarlyRun(q)' /\ AccountedRun(q)'
      BY <2>1, <3>1 DEF EarlyRun, Early, AccountedRun, results, flags
    <3>3. QED
      BY <3>2 DEF RefinementInv, EarlyUntouched, ArmedIsAccounted, EarlyRun, AccountedRun
  <2>4. CASE UNCHANGED vars
    BY <2>4 DEF RefinementInv, EarlyUntouched, Early, ArmedIsAccounted, vars, injVars, results,
       world, flags, OwnQdiscs, OwnFilters
  <2>5. QED
    BY <2>2, <2>3, <2>4 DEF Next, DriverStep, RefinementInv, EarlyUntouched, ArmedIsAccounted,
       EarlyRun, AccountedRun
<1>3. QED
  BY <1>1, <1>2, ScenarioTypeCorrect, ScenarioInvariant, ScenarioUsesInjector,
     InjectorInvariant, PTL DEF Spec

\* A report of a run whose cleanup is still armed has tried the removal, says
\* that it failed, and is not a PASS.  (orchestration.py:430-443, 465-472)
THEOREM ResidueIsReported == Spec => []RollbackFailureReported
<1>1. RefinementInv => RollbackFailureReported
  BY DEF RefinementInv, EarlyUntouched, Early, ArmedIsAccounted, AfterRollback,
     RollbackFailureReported
<1>2. QED
  BY <1>1, RefinementInvariant, PTL

-----------------------------------------------------------------------------
(* The refinement.                                                          *)

AllPhases == [q \in Runs |-> PhaseOf(q)]
AllFootprints == [q \in Runs |-> FootprintOf(q)]

\* A step of one run moves the phase of that run alone.
LEMMA OnePhaseMoves ==
  ASSUME NEW r \in Runs, InjTypeOK, CommandsFit, ScenTypeOK, DriverStep(r)
  PROVE  AllPhases' = [AllPhases EXCEPT ![r] = PhaseOf(r)']
<1>1. \A q \in Runs : q # r => PhaseOf(q)' = PhaseOf(q)
  BY OtherScenariosUntouched DEF SameScenario, PhaseOf
<1>2. QED
  BY <1>1 DEF AllPhases

LEMMA SameWorldSameFootprints ==
  ASSUME UNCHANGED world
  PROVE  AllFootprints' = AllFootprints
BY DEF AllFootprints, FootprintOf, OwnQdiscs, OwnFilters, world, TcObjects

\* The driver's statements as steps of the lifecycle.
LEMMA DriverPhase ==
  ASSUME NEW r \in Runs, ScenTypeOK, Drive(r) \/ InterruptOutside(r)
  PROVE  \/ PhaseOf(r)' = PhaseOf(r) /\ rollbackError' = rollbackError
         \/ /\ PhaseOf(r)' = PhaseOf(r) /\ PhaseOf(r) = "active"
            /\ rollbackError' = [rollbackError EXCEPT ![r] = TRUE]
         \/ /\ PhaseOf(r) = "idle" /\ PhaseOf(r)' \in {"active", "blocked"}
            /\ rollbackError' = rollbackError
         \/ /\ PhaseOf(r) \in {"idle", "active"} /\ PhaseOf(r)' = "lost"
            /\ rollbackError' = rollbackError
         \/ /\ Report(r) /\ PhaseOf(r) = "active" /\ PhaseOf(r)' \in {"passed", "failed"}
            /\ rollbackError' = rollbackError
<1> USE DEF PhaseOf, ScenTypeOK, GotoStage, At
<1>1. CASE PreFault(r) \/ MutationBlocked(r) \/ Apply(r) \/ InterruptOutside(r)
  BY <1>1 DEF PreFault, MutationBlocked, Apply, InterruptOutside, results
<1>2. CASE AfterApply(r) \/ AfterVerify(r) \/ Traffic(r) \/ Collect(r) \/ Except(r)
  BY <1>2 DEF AfterApply, AfterVerify, Traffic, Collect, Except, Raised, results
<1>3. CASE IgnoreSigint(r) \/ IgnoreSigterm(r) \/ Remove(r) \/ Restore(r)
  BY <1>3 DEF IgnoreSigint, IgnoreSigterm, Remove, Restore, results
<1>4. CASE AfterRemove(r) \/ AfterVerifyRemoved(r)
  BY <1>4 DEF AfterRemove, AfterVerifyRemoved
<1>5. CASE RecoveryTraffic(r) \/ RecoveryFinal(r)
  BY <1>5 DEF RecoveryTraffic, RecoveryFinal
<1>6. CASE Report(r)
  BY <1>6 DEF Report, FinalStatus
<1>7. QED
  BY <1>1, <1>2, <1>3, <1>4, <1>5, <1>6 DEF Drive

\* What the verdict of a report is worth.
LEMMA ReportIsHonest ==
  ASSUME NEW r \in Runs, InjInv, ScenTypeOK, ScenarioInv, RefinementInv, Report(r)
  PROVE  /\ PhaseOf(r)' = "passed" => FootprintOf(r) = {} /\ ~rollbackError[r]
         /\ FootprintOf(r) # {} => rollbackError[r] \/ dangled[r]
<1> USE DEF ScenTypeOK, GotoStage, At, Report
<1>1. ~escaping[r]
  BY DEF ScenarioInv, PassIsFinal
<1>2. FootprintOf(r) # {} => rollbackError[r] \/ dangled[r]
  BY <1>1 DEF InjInv, Armed, RefinementInv, ArmedIsAccounted, AfterRollback, FootprintOf
<1>3. ASSUME PhaseOf(r)' = "passed"
      PROVE  FootprintOf(r) = {} /\ ~rollbackError[r]
  <2>1. status'[r] = "PASS"
    BY <1>3 DEF PhaseOf
  <2>2. ~infraError[r] /\ ~rollbackError[r] /\ rollbackVerified[r]
    BY <2>1 DEF FinalStatus
  <2>3. ~Spoiled(r)
    BY <1>1, <2>2 DEF Spoiled
  <2>4. QED
    BY <2>2, <2>3 DEF ScenarioInv, CleanWhenVerified, FootprintOf
<1>4. QED
  BY <1>2, <1>3

LEMMA DriverImplements ==
  ASSUME NEW r \in Runs, InjTypeOK, InjInv, ScenTypeOK, ScenarioInv, RefinementInv,
         Drive(r) \/ InterruptOutside(r)
  PROVE  [Lifecycle!Next]_Lifecycle!lifecycle
<1>1. AllFootprints' = AllFootprints /\ dangled' = dangled
  BY DriverLeavesLab, SameWorldSameFootprints DEF world
<1>2. AllPhases' = [AllPhases EXCEPT ![r] = PhaseOf(r)']
  BY OnePhaseMoves DEF DriverStep, InjInv
<1>3. AllPhases[r] = PhaseOf(r) /\ AllFootprints[r] = FootprintOf(r)
  BY DEF AllPhases, AllFootprints
<1>4. PhaseOf(r)' = PhaseOf(r) => AllPhases' = AllPhases
  BY <1>2 DEF AllPhases
<1> USE <1>1, <1>2, <1>3 DEF Lifecycle!Next, Lifecycle!Ends, AllPhases, AllFootprints
<1>5. CASE PhaseOf(r)' = PhaseOf(r) /\ rollbackError' = rollbackError
  BY <1>4, <1>5 DEF Lifecycle!lifecycle
<1>6. CASE /\ PhaseOf(r)' = PhaseOf(r) /\ PhaseOf(r) = "active"
           /\ rollbackError' = [rollbackError EXCEPT ![r] = TRUE]
  <2>1. Lifecycle!Admit(r)
    BY <1>4, <1>6 DEF Lifecycle!Admit
  <2>2. QED
    BY <2>1
<1>7. CASE /\ PhaseOf(r) = "idle" /\ PhaseOf(r)' \in {"active", "blocked"}
           /\ rollbackError' = rollbackError
  <2>1. Lifecycle!Begin(r) \/ Lifecycle!Block(r)
    BY <1>7 DEF Lifecycle!Begin, Lifecycle!Block
  <2>2. QED
    BY <2>1
<1>8. CASE /\ PhaseOf(r) \in {"idle", "active"} /\ PhaseOf(r)' = "lost"
           /\ rollbackError' = rollbackError
  <2>1. Lifecycle!Lose(r)
    BY <1>8 DEF Lifecycle!Lose
  <2>2. QED
    BY <2>1
<1>9. CASE /\ Report(r) /\ PhaseOf(r) = "active" /\ PhaseOf(r)' \in {"passed", "failed"}
           /\ rollbackError' = rollbackError
  <2>1. Lifecycle!Pass(r) \/ Lifecycle!Fail(r)
    BY <1>9, ReportIsHonest DEF Lifecycle!Pass, Lifecycle!Fail
  <2>2. QED
    BY <2>1
<1>10. QED
  BY <1>5, <1>6, <1>7, <1>8, <1>9, DriverPhase

\* A command of the injector runs in the active phase, and so does the loss of
\* one.
LEMMA CommandsAreActive ==
  ASSUME NEW r \in Runs, CallsInStage, Step(r)
  PROVE  PhaseOf(r) = "active"
BY StepIsBusy DEF PhaseOf, CallsInStage, InStage, ApplyCommands, RemoveCommands,
   VerifyRemovedCommands, Commands, Mutations, Reads

\* The new footprint after an object was added for run r.
LEMMA AddedFootprint ==
  ASSUME NEW r \in Runs,
         \/ qdiscs' = qdiscs \union {<<Target(r), r>>} /\ filters' = filters
         \/ filters' = filters \union {<<Target(r), Type(r), r>>} /\ qdiscs' = qdiscs
  PROVE  \E thing \in TcObjects :
           AllFootprints' = [AllFootprints EXCEPT ![r] = @ \union {thing}]
<1>1. CASE qdiscs' = qdiscs \union {<<Target(r), r>>} /\ filters' = filters
  <2>1. \A q \in Runs : /\ OwnFilters(q)' = OwnFilters(q)
                        /\ q # r => OwnQdiscs(q)' = OwnQdiscs(q)
    BY <1>1 DEF OwnQdiscs, OwnFilters
  <2>2. <<Target(r), r>> \in OwnQdiscs(r)'
    BY <1>1 DEF OwnQdiscs
  <2>3. FootprintOf(r)' = FootprintOf(r) \union {"clsact"}
    BY <2>1, <2>2 DEF FootprintOf, TcObjects
  <2>4. \A q \in Runs : q # r => FootprintOf(q)' = FootprintOf(q)
    BY <2>1 DEF FootprintOf
  <2>5. AllFootprints' = [AllFootprints EXCEPT ![r] = @ \union {"clsact"}]
    BY <2>3, <2>4 DEF AllFootprints
  <2>6. QED
    BY <2>5 DEF TcObjects
<1>2. CASE filters' = filters \union {<<Target(r), Type(r), r>>} /\ qdiscs' = qdiscs
  <2>1. \A q \in Runs : /\ OwnQdiscs(q)' = OwnQdiscs(q)
                        /\ q # r => OwnFilters(q)' = OwnFilters(q)
    BY <1>2 DEF OwnQdiscs, OwnFilters
  <2>2. <<Target(r), Type(r), r>> \in OwnFilters(r)'
    BY <1>2 DEF OwnFilters
  <2>3. FootprintOf(r)' = FootprintOf(r) \union {"filter"}
    BY <2>1, <2>2 DEF FootprintOf, TcObjects
  <2>4. \A q \in Runs : q # r => FootprintOf(q)' = FootprintOf(q)
    BY <2>1 DEF FootprintOf
  <2>5. AllFootprints' = [AllFootprints EXCEPT ![r] = @ \union {"filter"}]
    BY <2>3, <2>4 DEF AllFootprints
  <2>6. QED
    BY <2>5 DEF TcObjects
<1>3. QED
  BY <1>1, <1>2

\* Nothing was added: every footprint shrinks or stays.
LEMMA LabShrinks ==
  ASSUME qdiscs' \subseteq qdiscs, filters' \subseteq filters
  PROVE  /\ AllFootprints' \in [Runs -> SUBSET TcObjects]
         /\ \A q \in Runs : AllFootprints'[q] \subseteq AllFootprints[q]
BY DEF AllFootprints, FootprintOf, OwnQdiscs, OwnFilters

LEMMA InjectorImplements ==
  ASSUME NEW r \in Runs, InjTypeOK, CommandsFit, ScenTypeOK, CallsInStage, InjectorStep(r)
  PROVE  [Lifecycle!Next]_Lifecycle!lifecycle
<1>1. UNCHANGED <<pc, results>> /\ Step(r)
  BY DEF InjectorStep
<1>2. AllPhases' = AllPhases /\ rollbackError' = rollbackError /\ AllPhases[r] = "active"
  BY <1>1, CommandsAreActive DEF AllPhases, PhaseOf, results
<1> USE <1>2 DEF Lifecycle!Next, AllPhases, AllFootprints
<1>3. CASE UNCHANGED world
  <2>1. AllFootprints' = AllFootprints
    BY <1>3, SameWorldSameFootprints
  <2>2. CASE dangled' = dangled
    BY <2>1, <2>2 DEF Lifecycle!lifecycle
  <2>3. CASE dangled' = [dangled EXCEPT ![r] = TRUE]
    <3>1. Lifecycle!Stray(r)
      BY <2>1, <2>3 DEF Lifecycle!Stray
    <3>2. QED
      BY <3>1
  <2>4. QED
    BY <1>1, <2>2, <2>3, CommandOnLab
<1>4. CASE ~(UNCHANGED world) /\ op[r] \in {"addClsact", "addFilter"}
  <2>1. \E thing \in TcObjects :
          AllFootprints' = [AllFootprints EXCEPT ![r] = @ \union {thing}]
    BY <1>1, <1>4, AddingCommand, AddedFootprint
  <2>2. dangled' = dangled
    BY <1>1, <1>4, AddingCommand
  <2>3. Lifecycle!Install(r)
    BY <2>1, <2>2 DEF Lifecycle!Install
  <2>4. QED
    BY <2>3
<1>5. CASE ~(UNCHANGED world) /\ op[r] \notin {"addClsact", "addFilter"}
  <2>1. qdiscs' \subseteq qdiscs /\ filters' \subseteq filters
    BY <1>1, <1>5, ActsAreTheSteps, ActsOnLab DEF LabChange, world
  <2>2. dangled' = dangled
    BY <1>1, <1>5, CommandOnLab
  <2>3. Lifecycle!Withdraw
    BY <2>1, <2>2, LabShrinks DEF Lifecycle!Withdraw
  <2>4. QED
    BY <2>3
<1>6. QED
  BY <1>3, <1>4, <1>5

LEMMA CrashImplements ==
  ASSUME NEW r \in Runs, InjTypeOK, CommandsFit, ScenTypeOK, Crash(r)
  PROVE  [Lifecycle!Next]_Lifecycle!lifecycle
<1>1. PhaseOf(r) \in {"idle", "active"} /\ PhaseOf(r)' = "lost"
  BY DEF Crash, Ended, PhaseOf, GotoStage, ScenTypeOK
<1>2. AllPhases' = [AllPhases EXCEPT ![r] = "lost"] /\ AllPhases[r] = PhaseOf(r)
  BY <1>1, OnePhaseMoves DEF DriverStep, AllPhases
<1>3. AllFootprints' = AllFootprints /\ rollbackError' = rollbackError
  BY SameWorldSameFootprints DEF Crash, Dies, results
<1>4. dangled' = dangled \/ dangled' = [dangled EXCEPT ![r] = TRUE]
  BY DEF Crash, Dies, LeftBehind
<1>5. Lifecycle!Lose(r)
  BY <1>1, <1>2, <1>3, <1>4 DEF Lifecycle!Lose, Lifecycle!Ends, AllPhases, AllFootprints
<1>6. QED
  BY <1>5 DEF Lifecycle!Next

\* A stray command that still adds something belongs to a run that cannot pass.
LEMMA LabImplements ==
  ASSUME InjTypeOK, CommandsFit, ScenarioInv, RefinementInv, LabStep
  PROVE  [Lifecycle!Next]_Lifecycle!lifecycle
<1>1. UNCHANGED <<pc, results, dangled>>
  BY LabKeepsAccounts
<1>2. AllPhases' = AllPhases /\ rollbackError' = rollbackError
  BY <1>1 DEF AllPhases, PhaseOf, results
<1> USE <1>1, <1>2 DEF Lifecycle!Next, AllPhases, AllFootprints
<1>3. CASE qdiscs' \subseteq qdiscs /\ filters' \subseteq filters
  <2>1. Lifecycle!Withdraw
    BY <1>3, LabShrinks DEF Lifecycle!Withdraw
  <2>2. QED
    BY <2>1
<1>4. CASE ~(qdiscs' \subseteq qdiscs /\ filters' \subseteq filters)
  <2>1. PICK o \in orphans : Effect(o.cmd, Target(o.run), Type(o.run), o.run)
    BY <1>4 DEF LabStep, ContainerRestarts, NetnsGone, OrphanEnds, world
  <2>2. /\ o.cmd \in {"addClsact", "addFilter"}
        /\ \/ qdiscs' = qdiscs \union {<<Target(o.run), o.run>>} /\ filters' = filters
           \/ /\ filters' = filters \union {<<Target(o.run), Type(o.run), o.run>>}
              /\ qdiscs' = qdiscs
    BY <1>4, <2>1 DEF Effect, Booted, NetnsGone, world
  <2>3. o.run \in Runs /\ dangled[o.run]
    BY DEF CommandsFit, InjTypeOK, OrphansTypeOK
  <2>4. Spoiled(o.run)
    BY <2>2 DEF ScenarioInv, LateApplySpoils, ApplyCommands
  <2>5. PhaseOf(o.run) \in {"active", "failed", "lost"}
    <3>1. ~Early(o.run)
      BY <2>3 DEF RefinementInv, EarlyUntouched
    <3>2. status[o.run] # "PASS"
      BY <2>3, <2>4 DEF ScenarioInv, PassIsFinal
    <3>3. QED
      BY <3>1, <3>2 DEF Early, PhaseOf
  <2>6. \E thing \in TcObjects :
          AllFootprints' = [AllFootprints EXCEPT ![o.run] = @ \union {thing}]
    BY <2>2, <2>3, AddedFootprint
  <2>7. Lifecycle!Install(o.run)
    BY <2>3, <2>5, <2>6 DEF Lifecycle!Install
  <2>8. QED
    BY <2>3, <2>7
<1>5. QED
  BY <1>3, <1>4

\* execute_fault_scenario keeps the promise of FaultLifecycle, whatever its
\* commands do and however runs interleave.  (orchestration.py:343-499)
THEOREM ScenarioImplementsLifecycle == Spec => ImplementsLifecycle
<1>1. Init => Lifecycle!Init
  BY RunsAssumption DEF Init, InjInit, LabInit, InjectorInit, Lifecycle!Init, PhaseOf,
     FootprintOf, OwnQdiscs, OwnFilters
<1>2. TypeOK /\ InjInv /\ ScenarioInv /\ RefinementInv /\ [Next]_vars =>
        [Lifecycle!Next]_Lifecycle!lifecycle
  <2> SUFFICES ASSUME TypeOK, InjInv, ScenarioInv, RefinementInv, [Next]_vars
               PROVE  [Lifecycle!Next]_Lifecycle!lifecycle
    OBVIOUS
  <2>1. InjTypeOK /\ ScenTypeOK /\ CommandsFit /\ CallsInStage
    BY DEF TypeOK, ScenTypeOK, InjInv, ScenarioInv
  <2>2. ASSUME NEW r \in Runs, DriverStep(r)
        PROVE  [Lifecycle!Next]_Lifecycle!lifecycle
    BY <2>1, <2>2, DriverImplements, InjectorImplements, CrashImplements DEF DriverStep
  <2>3. CASE LabStep
    BY <2>1, <2>3, LabImplements
  <2>4. CASE UNCHANGED vars
    BY <2>4 DEF Lifecycle!lifecycle, vars, injVars, results, world, PhaseOf, FootprintOf,
       OwnQdiscs, OwnFilters
  <2>5. QED
    BY <2>2, <2>3, <2>4 DEF Next, DriverStep
<1>3. QED
  BY <1>1, <1>2, ScenarioTypeCorrect, ScenarioInvariant, ScenarioUsesInjector,
     InjectorInvariant, RefinementInvariant, PTL DEF Spec, ImplementsLifecycle, Lifecycle!Spec

\* So its verdicts can be trusted: Honest, read through the mapping.
THEOREM VerdictsAreHonest == Spec => []Lifecycle!Honest
BY ScenarioImplementsLifecycle, Lifecycle!LifecycleIsHonest, PTL DEF ImplementsLifecycle

-----------------------------------------------------------------------------
(* What a run does with the results of its calls.                            *)

\* What each call may come back with, and the driver goes on from.
ResultsOf ==
  [apply |-> {"ok", "error", "uncaught", "interrupt"},
   verify |-> {"true", "false", "error", "uncaught", "interrupt"},
   remove |-> {"ok", "error", "uncaught"},
   verifyRemoved |-> {"true", "false", "uncaught"}]

Waiting == {"apply", "verify", "remove", "verifyRemoved"}
Protected == {"guarded", "remove", "verifyRemoved", "restore"}

\* A result is there when the driver looks for one, it is one of those that the
\* try statement around the call tells apart, and signals are ignored exactly
\* from the two statements at the start of the finally clause to its end.
ClientRun(r) ==
  /\ op[r] = "dead" <=> pc[r] = "crashed"
  /\ op[r] \notin {"idle", "dead"} => pc[r] \in Waiting
  /\ op[r] = "idle" /\ pc[r] \in Waiting => ret[r] \in ResultsOf[pc[r]]
  /\ pc[r] \in {"start", "boundary"} => ret[r] = "none"
  /\ pc[r] \in {"settle", "collect", "except", "finally", "finally2"} \union Protected =>
       ret[r] # "none"
  /\ pc[r] # "crashed" => (masked[r] <=> pc[r] \in Protected)

ClientInv == \A r \in Runs : ClientRun(r)

\* A run's own signal mask and control, seen from the others.
LEMMA OthersKeepMask ==
  ASSUME NEW r \in Runs, InjTypeOK, DriverStep(r)
  PROVE  \A q \in Runs : q # r => masked'[q] = masked[q]
<1>1. CASE Mask(r)
  BY <1>1 DEF Mask, InjTypeOK, ControlTypeOK
<1>2. CASE Call(r)
  BY <1>2 DEF Call, CallApply, CallVerifyApplied, CallRemove, CallVerifyRemoved
<1>3. CASE InjectorStep(r)
  <2>1. UNCHANGED masked
    BY <1>3 DEF InjectorStep, Step, InspectBefore, ShowFilter, ShowQdisc, VerifyApplied,
       CheckFilter, CheckClsact, VerifyRunning, VerifyFilterGone, VerifyClsactGone,
       ReadEscapes, Reading, ServiceCommand, AddClsact, AddFilter, StartService,
       DelFilter, DelClsact, Escapes, Succeeds, Fails
  <2>2. QED
    BY <2>1
<1>4. CASE Crash(r) \/ UNCHANGED injVars
  BY <1>4 DEF Crash, Dies, injVars
<1>5. QED
  BY <1>1, <1>2, <1>3, <1>4, DriveIsClient DEF DrivesInjector, DriverStep

\* How a command of a call ends the call, if it does.
LEMMA CallsEndWell ==
  ASSUME NEW r \in Runs, InjTypeOK, Step(r), ClientRun(r), CallsInStage
  PROVE  /\ pc[r] \in Waiting
         /\ op'[r] = "idle" => ret'[r] \in ResultsOf[pc[r]]
         /\ op'[r] # "idle" => ret'[r] = ret[r]
         /\ op'[r] # "dead" /\ UNCHANGED masked
<1> USE DEF InjTypeOK, ControlTypeOK, Return, Goto, FinishRemove, AfterFilter
<1>1. op[r] \notin {"idle", "dead"}
  BY StepIsBusy
<1>2. /\ pc[r] \in Waiting
      /\ op[r] \in ApplyCommands => pc[r] = "apply"
      /\ op[r] = "verifyApplied" => pc[r] = "verify"
      /\ op[r] \in RemoveCommands => pc[r] = "remove"
      /\ op[r] \in VerifyRemovedCommands => pc[r] = "verifyRemoved"
  BY <1>1 DEF ClientRun, CallsInStage, InStage
<1>3. masked[r] <=> pc[r] \in {"remove", "verifyRemoved"}
  BY <1>2 DEF ClientRun, Waiting, Protected
<1>4. CASE InspectBefore(r) \/ ShowFilter(r) \/ ShowQdisc(r) \/ ServiceCommand(r)
           \/ AddClsact(r) \/ AddFilter(r)
  <2>1. op[r] \in ApplyCommands
    BY <1>4 DEF InspectBefore, ShowFilter, ShowQdisc, ServiceCommand, AddClsact, AddFilter,
       Reading, Succeeds, Fails, ApplyCommands
  <2>2. /\ op'[r] = "idle" => ret'[r] \in {"ok", "error"}
        /\ op'[r] # "idle" => ret'[r] = ret[r]
        /\ op'[r] # "dead" /\ UNCHANGED masked
    BY <1>4 DEF InspectBefore, ShowFilter, ShowQdisc, ServiceCommand, AddClsact, AddFilter,
       Reading, Succeeds, Fails
  <2>3. QED
    BY <1>2, <2>1, <2>2 DEF ResultsOf
<1>5. CASE VerifyApplied(r)
  BY <1>2, <1>5 DEF VerifyApplied, Reading, ResultsOf
<1>6. CASE StartService(r) \/ DelFilter(r) \/ CheckFilter(r) \/ DelClsact(r) \/ CheckClsact(r)
  <2>1. op[r] \in RemoveCommands
    BY <1>6 DEF StartService, DelFilter, CheckFilter, DelClsact, CheckClsact, Reading,
       Succeeds, Fails, RemoveCommands
  <2>2. /\ op'[r] = "idle" => ret'[r] \in {"ok", "error"}
        /\ op'[r] # "idle" => ret'[r] = ret[r]
        /\ op'[r] # "dead" /\ UNCHANGED masked
    BY <1>6 DEF StartService, DelFilter, CheckFilter, DelClsact, CheckClsact, Reading,
       Succeeds, Fails
  <2>3. QED
    BY <1>2, <2>1, <2>2 DEF ResultsOf
<1>7. CASE VerifyRunning(r) \/ VerifyFilterGone(r) \/ VerifyClsactGone(r)
  <2>1. op[r] \in VerifyRemovedCommands
    BY <1>7 DEF VerifyRunning, VerifyFilterGone, VerifyClsactGone, Reading,
       VerifyRemovedCommands
  <2>2. /\ op'[r] = "idle" => ret'[r] \in {"true", "false"}
        /\ op'[r] # "idle" => ret'[r] = ret[r]
        /\ op'[r] # "dead" /\ UNCHANGED masked
    BY <1>7 DEF VerifyRunning, VerifyFilterGone, VerifyClsactGone, Reading
  <2>3. QED
    BY <1>2, <2>1, <2>2 DEF ResultsOf
<1>8. CASE Escapes(r, op[r]) \/ ReadEscapes(r)
  <2>1. op'[r] = "idle" /\ UNCHANGED masked
        /\ (ret'[r] = "uncaught" \/ (ret'[r] = "interrupt" /\ ~masked[r]))
    BY <1>8 DEF Escapes, ReadEscapes, CanInterrupt
  <2>2. QED
    BY <1>2, <1>3, <2>1 DEF ResultsOf, Waiting
<1>9. QED
  BY <1>4, <1>5, <1>6, <1>7, <1>8 DEF Step

\* A call that returns at once returns what its caller handles.
LEMMA CallsStartWell ==
  ASSUME NEW r \in Runs, InjTypeOK, Call(r)
  PROVE  /\ CallApply(r) /\ op'[r] = "idle" => ret'[r] \in ResultsOf["apply"]
         /\ CallVerifyApplied(r) /\ op'[r] = "idle" => ret'[r] \in ResultsOf["verify"]
         /\ CallRemove(r) /\ op'[r] = "idle" => ret'[r] \in ResultsOf["remove"]
         /\ CallVerifyRemoved(r) /\ op'[r] = "idle" => ret'[r] \in ResultsOf["verifyRemoved"]
         /\ op'[r] # "dead" /\ UNCHANGED masked
         /\ ret[r] # "none" => ret'[r] # "none"
<1> USE DEF InjTypeOK, ControlTypeOK, Return, Goto, FinishRemove, AfterFilter, ResultsOf
<1>1. CallApply(r) /\ op'[r] = "idle" => ret'[r] \in ResultsOf["apply"]
  BY DEF CallApply
<1>2. CallVerifyApplied(r) /\ op'[r] = "idle" => ret'[r] \in ResultsOf["verify"]
  BY DEF CallVerifyApplied
<1>3. CallRemove(r) /\ op'[r] = "idle" => ret'[r] \in ResultsOf["remove"]
  BY DEF CallRemove
<1>4. CallVerifyRemoved(r) /\ op'[r] = "idle" => ret'[r] \in ResultsOf["verifyRemoved"]
  BY DEF CallVerifyRemoved
<1>5. op'[r] # "dead" /\ UNCHANGED masked
  BY DEF Call, CallApply, CallVerifyApplied, CallRemove, CallVerifyRemoved
<1>6. ret[r] # "none" => ret'[r] # "none"
  BY DEF Call, CallApply, CallVerifyApplied, CallRemove, CallVerifyRemoved
<1>7. QED
  BY <1>1, <1>2, <1>3, <1>4, <1>5, <1>6

LEMMA DriverKeepsOwnClient ==
  ASSUME NEW r \in Runs, InjTypeOK, CommandsFit, ScenTypeOK, CallsInStage, ClientRun(r),
         DriverStep(r)
  PROVE  ClientRun(r)'
<1> USE DEF ScenTypeOK, GotoStage, At, ClientRun, Waiting, Protected
<1>1. CASE \/ PreFault(r) \/ MutationBlocked(r) \/ AfterVerify(r) \/ Traffic(r) \/ Collect(r)
           \/ Except(r) \/ IgnoreSigint(r) \/ AfterVerifyRemoved(r)
           \/ RecoveryTraffic(r) \/ RecoveryFinal(r) \/ Report(r) \/ InterruptOutside(r)
  <2>1. UNCHANGED <<op, ret, masked>> /\ op[r] = "idle"
    <3>1. UNCHANGED injVars /\ op[r] = "idle"
      BY <1>1, Zenon DEF PreFault, MutationBlocked, AfterVerify, Traffic, Collect, Except,
         IgnoreSigint, AfterVerifyRemoved, RecoveryTraffic, RecoveryFinal, Report,
         InterruptOutside
    <3>2. QED
      BY <3>1 DEF injVars
  <2>2. CASE pc[r] \in {"start", "boundary", "settle", "collect", "except", "finally"}
    BY <1>1, <2>1, <2>2 DEF PreFault, MutationBlocked, AfterVerify, Traffic, Collect, Except,
       IgnoreSigint, AfterVerifyRemoved, RecoveryTraffic, RecoveryFinal, Report, InterruptOutside
  <2>3. CASE pc[r] = "verify"
    BY <1>1, <2>1, <2>3 DEF PreFault, MutationBlocked, AfterVerify, Traffic, Collect, Except,
       IgnoreSigint, AfterVerifyRemoved, RecoveryTraffic, RecoveryFinal, Report,
       InterruptOutside, Raised, ResultsOf
  <2>4. CASE pc[r] = "verifyRemoved"
    BY <1>1, <2>1, <2>4 DEF PreFault, MutationBlocked, AfterVerify, Traffic, Collect, Except,
       IgnoreSigint, AfterVerifyRemoved, RecoveryTraffic, RecoveryFinal, Report,
       InterruptOutside, ResultsOf
  <2>5. CASE pc[r] \in {"recovery", "recoveryFinal", "report"}
    BY <1>1, <2>1, <2>5 DEF PreFault, MutationBlocked, AfterVerify, Traffic, Collect, Except,
       IgnoreSigint, AfterVerifyRemoved, RecoveryTraffic, RecoveryFinal, Report, InterruptOutside
  <2>6. QED
    BY <1>1, <2>2, <2>3, <2>4, <2>5 DEF PreFault, MutationBlocked, AfterVerify, Traffic,
       Collect, Except, IgnoreSigint, AfterVerifyRemoved, RecoveryTraffic, RecoveryFinal,
       Report, InterruptOutside
<1>2. CASE Apply(r)
  <2>1. pc[r] = "boundary" /\ pc'[r] = "apply" /\ CallApply(r)
    BY <1>2 DEF Apply
  <2>2. QED
    BY <2>1, CallsStartWell DEF Call
<1>3. CASE AfterApply(r)
  <2>1. CASE CallVerifyApplied(r) /\ pc'[r] = "verify" /\ pc[r] = "apply"
    BY <2>1, CallsStartWell DEF Call
  <2>2. CASE Raised(r) /\ UNCHANGED injVars /\ pc[r] = "apply" /\ op[r] = "idle"
    BY <2>2 DEF Raised, injVars
  <2>3. QED
    BY <1>3, <2>1, <2>2 DEF AfterApply
<1>4. CASE IgnoreSigterm(r) \/ Restore(r)
  <2>1. UNCHANGED <<op, ret>> /\ op[r] = "idle"
    BY <1>4 DEF IgnoreSigterm, Restore, Mask, injVars
  <2>2. \/ masked' = masked /\ pc[r] = "finally2" /\ pc'[r] = "escaped"
        \/ masked' = [masked EXCEPT ![r] = ~@] /\ pc[r] = "finally2" /\ pc'[r] = "guarded"
        \/ /\ masked' = [masked EXCEPT ![r] = ~@]
           /\ pc[r] = "restore" /\ pc'[r] \in {"escaped", "recovery", "report"}
    BY <1>4 DEF IgnoreSigterm, Restore, Mask, injVars
  <2>3. masked \in [Runs -> BOOLEAN]
    BY DEF InjTypeOK, ControlTypeOK
  <2>4. masked'[r] <=> pc'[r] = "guarded"
    BY <2>2, <2>3 DEF ResultsOf
  <2>5. QED
    BY <2>1, <2>2, <2>4
<1>5. CASE Remove(r)
  <2>1. CASE CallRemove(r) /\ pc'[r] = "remove" /\ pc[r] = "guarded"
    BY <2>1, CallsStartWell DEF Call
  <2>2. CASE UNCHANGED injVars /\ pc'[r] = "restore" /\ pc[r] = "guarded" /\ op[r] = "idle"
    BY <2>2 DEF injVars
  <2>3. QED
    BY <1>5, <2>1, <2>2 DEF Remove
<1>6. CASE AfterRemove(r)
  <2>1. CASE CallVerifyRemoved(r) /\ pc'[r] = "verifyRemoved" /\ pc[r] = "remove"
    BY <2>1, CallsStartWell DEF Call
  <2>2. CASE UNCHANGED injVars /\ pc'[r] = "restore" /\ pc[r] = "remove" /\ op[r] = "idle"
    BY <2>2 DEF injVars
  <2>3. QED
    BY <1>6, <2>1, <2>2 DEF AfterRemove
<1>7. CASE InjectorStep(r)
  <2>1. pc' = pc /\ Step(r)
    BY <1>7 DEF InjectorStep
  <2>2. /\ pc[r] \in Waiting
        /\ op'[r] = "idle" => ret'[r] \in ResultsOf[pc[r]]
        /\ op'[r] # "idle" => ret'[r] = ret[r]
        /\ op'[r] # "dead" /\ UNCHANGED masked
    BY <2>1, CallsEndWell
  <2>3. "none" \notin ResultsOf[pc[r]]
    BY <2>2 DEF ResultsOf
  <2>4. QED
    BY <2>1, <2>2, <2>3
<1>8. CASE Crash(r)
  BY <1>8 DEF Crash, Dies, InjTypeOK, ControlTypeOK
<1>9. QED
  BY <1>1, <1>2, <1>3, <1>4, <1>5, <1>6, <1>7, <1>8 DEF DriverStep, Drive

\* The control of every run: a result is there when the driver looks for one, it
\* is one that the code after the call handles, and signals are ignored in the
\* clean-up and nowhere else.  (orchestration.py:395-446)
THEOREM ClientInvariant == Spec => []ClientInv
<1>1. Init => ClientInv
  BY DEF Init, InjInit, InjectorInit, ClientInv, ClientRun, Waiting, Protected
<1>2. TypeOK /\ CommandsFit /\ ScenarioInv /\ ClientInv /\ [Next]_vars => ClientInv'
  <2> SUFFICES ASSUME TypeOK, CommandsFit, ScenarioInv, ClientInv, [Next]_vars
               PROVE  ClientInv'
    OBVIOUS
  <2>1. InjTypeOK /\ ScenTypeOK /\ CallsInStage
    BY DEF TypeOK, ScenTypeOK, ScenarioInv
  <2>2. ASSUME NEW r \in Runs, DriverStep(r)
        PROVE  ClientInv'
    <3>1. ClientRun(r)'
      BY <2>1, <2>2, DriverKeepsOwnClient DEF ClientInv
    <3>2. \A q \in Runs : q # r =>
            pc'[q] = pc[q] /\ op'[q] = op[q] /\ ret'[q] = ret[q] /\ masked'[q] = masked[q]
      BY <2>1, <2>2, OtherScenariosUntouched, OthersKeepMask DEF SameScenario, SameRun
    <3>3. \A q \in Runs : q # r => ClientRun(q)'
      BY <3>2 DEF ClientInv, ClientRun
    <3>4. QED
      BY <3>1, <3>3 DEF ClientInv
  <2>3. CASE LabStep \/ UNCHANGED vars
    <3>1. UNCHANGED <<pc, op, ret, masked>>
      BY <2>3 DEF LabStep, ContainerRestarts, OrphanEnds, vars, injVars
    <3>2. QED
      BY <3>1 DEF ClientInv, ClientRun
  <2>4. QED
    BY <2>2, <2>3 DEF Next, DriverStep
<1>3. QED
  BY <1>1, <1>2, ScenarioTypeCorrect, ScenarioInvariant, ScenarioUsesInjector, InjTypeCorrect, PTL
  DEF Spec

-----------------------------------------------------------------------------
(* Every run comes to an end: the half of Terminates that does not need       *)
(* fairness.  A run takes a bounded number of steps, and as long as it lives  *)
(* it never waits for a result that its driver does not handle.              *)

\* How many stages are still before a run, and commands before a call's end.
StagesLeft ==
  [start |-> 16, boundary |-> 15, apply |-> 14, verify |-> 13, settle |-> 12,
   collect |-> 11, except |-> 10, finally |-> 9, finally2 |-> 8, guarded |-> 7,
   remove |-> 6, verifyRemoved |-> 5, restore |-> 4, recovery |-> 3,
   recoveryFinal |-> 2, report |-> 1, reported |-> 0, escaped |-> 0, crashed |-> 0]

CommandsLeft(command) ==
  CASE command \in {"showFilter", "delFilter"} -> 4
    [] command \in {"showQdisc", "checkFilter"} -> 3
    [] command \in {"inspectBefore", "addClsact", "delClsact", "verifyFilterGone"} -> 2
    [] command \in {"restart", "stop", "start", "addFilter", "checkClsact", "verifyApplied",
                    "verifyRunning", "verifyClsactGone"} -> 1
    [] OTHER -> 0

\* No call issues more than four commands.
StepsLeft(r) == 5 * StagesLeft[pc[r]] + CommandsLeft(op[r])

LEMMA StepsAreCounted ==
  ASSUME NEW r \in Runs, TypeOK
  PROVE  /\ StagesLeft[pc[r]] \in 0 .. 16 /\ CommandsLeft(op[r]) \in 0 .. 4
         /\ pc[r] \notin Ended => StagesLeft[pc[r]] > 0
<1>1. pc[r] \in Stages
  BY DEF TypeOK
<1>2. StagesLeft[pc[r]] \in 0 .. 16 /\ (pc[r] \notin Ended => StagesLeft[pc[r]] > 0)
  BY <1>1 DEF StagesLeft, Stages, Ended
<1>3. CommandsLeft(op[r]) \in 0 .. 4
  BY DEF CommandsLeft
<1>4. QED
  BY <1>2, <1>3

\* A command brings its call nearer to its end.
LEMMA CommandsRunOut ==
  ASSUME NEW r \in Runs, InjTypeOK, Step(r)
  PROVE  CommandsLeft(op'[r]) < CommandsLeft(op[r])
<1> USE DEF InjTypeOK, ControlTypeOK, Return, Goto, FinishRemove, AfterFilter, CommandsLeft
<1>1. CASE ReadStep(r)
  BY <1>1 DEF ReadStep, InspectBefore, ShowFilter, ShowQdisc, VerifyApplied,
     CheckFilter, CheckClsact, VerifyRunning, VerifyFilterGone, VerifyClsactGone,
     ReadEscapes, Reading, Reads
<1>2. CASE WriteStep(r)
  BY <1>2 DEF WriteStep, ServiceCommand, AddClsact, AddFilter, StartService,
     DelFilter, DelClsact, Escapes, Succeeds, Fails, Mutations
<1>3. QED
  BY <1>1, <1>2 DEF Step, ReadStep, WriteStep

\* A stage that is left, for another one or for a call, is left for a later one.
LEMMA StagesRunOut ==
  ASSUME NEW r \in Runs, TypeOK, Drive(r) \/ InterruptOutside(r) \/ Crash(r)
  PROVE  StagesLeft[pc'[r]] < StagesLeft[pc[r]]
<1> USE DEF TypeOK, GotoStage, At, StagesLeft
<1>1. CASE \/ PreFault(r) \/ MutationBlocked(r) \/ Apply(r) \/ AfterApply(r)
           \/ AfterVerify(r) \/ Traffic(r) \/ Collect(r) \/ Except(r)
  BY <1>1 DEF PreFault, MutationBlocked, Apply, AfterApply, AfterVerify, Traffic, Collect,
     Except, Raised
<1>2. CASE \/ IgnoreSigint(r) \/ IgnoreSigterm(r) \/ Remove(r) \/ AfterRemove(r)
           \/ AfterVerifyRemoved(r) \/ Restore(r)
  BY <1>2 DEF IgnoreSigint, IgnoreSigterm, Remove, AfterRemove, AfterVerifyRemoved, Restore
<1>3. CASE RecoveryTraffic(r) \/ RecoveryFinal(r) \/ Report(r) \/ InterruptOutside(r)
  <2>1. \/ pc[r] = "recovery" /\ pc'[r] = "recoveryFinal"
        \/ pc[r] = "recoveryFinal" /\ pc'[r] = "report"
        \/ pc[r] = "report" /\ pc'[r] = "reported"
        \/ /\ pc[r] \in {"start", "boundary", "recovery", "recoveryFinal", "report"}
           /\ pc'[r] = "escaped"
    BY <1>3 DEF RecoveryTraffic, RecoveryFinal, Report, InterruptOutside
  <2>2. QED
    BY <2>1
<1>4. CASE Crash(r)
  <2>1. pc'[r] = "crashed"
    BY <1>4 DEF Crash
  <2>2. StagesLeft[pc[r]] > 0
    BY <1>4, StepsAreCounted DEF Crash
  <2>3. QED
    BY <2>1, <2>2
<1>5. QED
  BY <1>1, <1>2, <1>3, <1>4 DEF Drive

LEMMA DriverRunsOut ==
  ASSUME NEW r \in Runs, TypeOK, TypeOK', DriverStep(r)
  PROVE  StepsLeft(r)' < StepsLeft(r)
<1>1. CASE InjectorStep(r)
  <2>1. CommandsLeft(op'[r]) < CommandsLeft(op[r]) /\ pc' = pc
    BY <1>1, CommandsRunOut DEF InjectorStep, TypeOK
  <2>2. QED
    BY <2>1, StepsAreCounted DEF StepsLeft, CommandsLeft
<1>2. CASE Drive(r) \/ InterruptOutside(r) \/ Crash(r)
  <2> DEFINE before == StagesLeft[pc[r]]
             after == StagesLeft[pc'[r]]
             commands == CommandsLeft(op[r])
             commandsAfter == CommandsLeft(op'[r])
  <2>1. after < before
    BY <1>2, StagesRunOut
  <2>2. before \in 0 .. 16 /\ after \in 0 .. 16 /\ commands \in 0 .. 4 /\ commandsAfter \in 0 .. 4
    <3>1. pc[r] \in Stages /\ pc'[r] \in Stages
      BY DEF TypeOK
    <3>2. before \in 0 .. 16 /\ after \in 0 .. 16
      BY <3>1 DEF StagesLeft, Stages
    <3>3. QED
      BY <3>2 DEF CommandsLeft
  <2>3. StepsLeft(r) = 5 * before + commands /\ StepsLeft(r)' = 5 * after + commandsAfter
    BY DEF StepsLeft, CommandsLeft
  <2> HIDE DEF before, after, commands, commandsAfter
  <2>4. QED
    BY <2>1, <2>2, <2>3
<1>3. QED
  BY <1>1, <1>2 DEF DriverStep

LEMMA StepsLeftNatural ==
  ASSUME NEW r \in Runs, TypeOK, TypeOK'
  PROVE  StepsLeft(r) \in Nat /\ StepsLeft(r)' \in Nat
<1>1. StepsLeft(r) \in Nat
  BY StepsAreCounted DEF StepsLeft
<1>2. pc'[r] \in Stages
  BY DEF TypeOK
<1>3. StagesLeft[pc'[r]] \in Nat /\ CommandsLeft(op'[r]) \in Nat
  BY <1>2 DEF StagesLeft, Stages, CommandsLeft
<1>4. StepsLeft(r)' = 5 * StagesLeft[pc'[r]] + CommandsLeft(op'[r])
  BY DEF StepsLeft, CommandsLeft, StagesLeft
<1>5. QED
  BY <1>1, <1>3, <1>4

\* What is left of a run's steps never grows, and each of its own steps uses
\* some of it up: whatever fails, restarts or is late, a run takes no more
\* than 80 commands and statements.  Nothing is retried without end.
\* (docs/failure_injection.md:30; orchestration.py:395-446)
OwnStepsUsedUp ==
  [][\A r \in Runs :
       /\ StepsLeft(r)' <= StepsLeft(r)
       /\ DriverStep(r) => StepsLeft(r)' < StepsLeft(r)]_vars

THEOREM RunsAreBounded == Spec => [](\A r \in Runs : StepsLeft(r) \in 0 .. 80) /\ OwnStepsUsedUp
<1>1. ASSUME TypeOK, NEW r \in Runs
      PROVE  StepsLeft(r) \in Nat
  BY <1>1, StepsAreCounted DEF StepsLeft
<1>2. Init => \A r \in Runs : StepsLeft(r) <= 80
  BY DEF Init, InjInit, InjectorInit, StepsLeft, StagesLeft, CommandsLeft
<1>3. TypeOK /\ TypeOK' /\ CommandsFit /\ [Next]_vars =>
        \A r \in Runs :
          /\ StepsLeft(r)' <= StepsLeft(r)
          /\ DriverStep(r) => StepsLeft(r)' < StepsLeft(r)
  <2> SUFFICES ASSUME TypeOK, TypeOK', CommandsFit, [Next]_vars, NEW r \in Runs
               PROVE  /\ StepsLeft(r)' <= StepsLeft(r)
                      /\ DriverStep(r) => StepsLeft(r)' < StepsLeft(r)
    OBVIOUS
  <2>1. StepsLeft(r) \in Nat /\ StepsLeft(r)' \in Nat
    BY StepsLeftNatural
  <2>2. CASE DriverStep(r)
    BY <2>1, <2>2, DriverRunsOut
  <2>3. CASE ~DriverStep(r)
    <3>1. pc'[r] = pc[r] /\ op'[r] = op[r]
      <4>1. ASSUME NEW q \in Runs, DriverStep(q)
            PROVE  pc'[r] = pc[r] /\ op'[r] = op[r]
        BY <2>3, <4>1, OtherScenariosUntouched DEF TypeOK, ScenTypeOK, SameScenario, SameRun
      <4>2. CASE LabStep \/ UNCHANGED vars
        BY <4>2 DEF LabStep, ContainerRestarts, OrphanEnds, vars, injVars
      <4>3. QED
        BY <4>1, <4>2 DEF Next, DriverStep
    <3>2. StepsLeft(r)' = StepsLeft(r)
      BY <3>1 DEF StepsLeft, CommandsLeft, StagesLeft
    <3>3. QED
      BY <2>1, <2>3, <3>2
  <2>4. QED
    BY <2>2, <2>3
<1>4. TypeOK /\ (\A r \in Runs : StepsLeft(r) <= 80) => \A r \in Runs : StepsLeft(r) \in 0 .. 80
  BY <1>1
<1>5. TypeOK /\ TypeOK' /\ CommandsFit /\ [Next]_vars /\ (\A r \in Runs : StepsLeft(r) <= 80) =>
        (\A r \in Runs : StepsLeft(r) <= 80)'
  <2> SUFFICES ASSUME TypeOK, TypeOK', CommandsFit, [Next]_vars,
                      \A r \in Runs : StepsLeft(r) <= 80,
                      NEW r \in Runs
               PROVE  StepsLeft(r)' <= 80
    OBVIOUS
  <2>1. StepsLeft(r)' <= StepsLeft(r) /\ StepsLeft(r) <= 80
    BY <1>3
  <2>2. QED
    BY <2>1, StepsLeftNatural
<1>6. QED
  BY <1>2, <1>3, <1>4, <1>5, ScenarioTypeCorrect, ScenarioUsesInjector, InjTypeCorrect, PTL
  DEF Spec, OwnStepsUsedUp

\* What FilterIsDealtWith comes to at the report: if anything of the run is
\* still in the lab, and no command of it was lost track of, its removal has been
\* tried, and the report says that it failed.  (docs/failure_injection.md:38)
LeftoverAdmitted ==
  \A r \in Runs :
    /\ pc[r] = "reported" /\ ~dangled[r]
    /\ OwnQdiscs(r) # {} \/ OwnFilters(r) # {}
    => recoveryAttempted[r] /\ rollbackError[r] /\ status[r] \in {"FAIL", "ERROR"}

THEOREM LeftoverIsAdmitted == Spec => []LeftoverAdmitted
<1>1. ArmedWhileInstalled /\ RollbackFailureReported => LeftoverAdmitted
  BY DEF ArmedWhileInstalled, RollbackFailureReported, LeftoverAdmitted
<1>2. QED
  BY <1>1, ScenarioUsesInjector, AlwaysArmed, ResidueIsReported, PTL
=============================================================================
