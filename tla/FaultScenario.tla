--------------------------- MODULE FaultScenario ---------------------------
(***************************************************************************)
(* execute_fault_scenario of src/fiveg_lab/orchestration.py, with the part  *)
(* of run_runtime_scenario around it: one process per run, which drives its *)
(* own FaultInjector through                                                *)
(*   pre-fault check, apply, verify applied, traffic, log collection,       *)
(*   remove, verify removed, recovery check, report.                        *)
(* SIGINT and SIGTERM may arrive at any point where they are not ignored,   *)
(* and the process may be killed at any point.                              *)
(***************************************************************************)
EXTENDS FaultInjector

CONSTANTS
  Exclusive,    \* the operator runs one scenario at a time
  UserPlane     \* the services the DN traffic passes through

ASSUME ScenarioAssumption == Exclusive \in BOOLEAN /\ UserPlane \subseteq Services

VARIABLES
  pc,           \* where execute_fault_scenario is
  infraError,   \* infrastructure_error is set
  rollbackError,
  faultApplied, faultVerified, rollbackVerified, recoveryAttempted,
  escaping,     \* an exception is propagating through the finally clause
  traffic,      \* the current run's traffic evidence
  recoveryOk,   \* every recovery assertion so far passed
  recovery,     \* recovery.status
  status,       \* result.status once the report is written
  expectedObserved, \* result.expected_failure_observed
  held          \* history: the fault was in force while the traffic ran

results == <<infraError, rollbackError, faultApplied, faultVerified,
             rollbackVerified, recoveryAttempted, escaping, traffic,
             recoveryOk, recovery, status, expectedObserved, held>>
vars == <<injVars, pc, results>>

Stages == {"start", "boundary", "apply", "verify", "settle", "collect",
           "except", "finally", "finally2", "guarded", "remove",
           "verifyRemoved", "restore", "recovery", "recoveryFinal", "report",
           "reported", "escaped", "crashed"}
Ended == {"reported", "escaped", "crashed"}
Statuses == {"none", "PASS", "FAIL", "ERROR", "BLOCKED"}

At(r, stage) == pc[r] = stage /\ op[r] = "idle"
GotoStage(r, stage) == pc' = [pc EXCEPT ![r] = stage]

-----------------------------------------------------------------------------
(* What validate_current_baseline can see of the lab.                       *)

\* The operator's own filters are not drop rules for N3.
N3Blocked == \E f \in filters : f[2] = "n3_impairment" /\ f[3] # Operator

\* Traffic reaches the DN only over running services and an open N3.
TrafficCanPass == ~N3Blocked /\ \A s \in UserPlane : up[s]

\* Required services running, NGAP, registration, session, tunnel, traffic.
\* An n2 filter need not be noticed: existing associations outlive it.
BaselineHealthy == TrafficCanPass /\ \A s \in Services : up[s]

\* Mutant: the restart counts are not looked at.
FinalHealthyNow == \A s \in Services : up[s]

\* The final core gate and the RAN inspection: running with zero restarts.
FinalHealthy == \A s \in Services : up[s] /\ restarts[s] = 0

-----------------------------------------------------------------------------
(* Before the fault.                                                        *)

\* Nothing else runs, and nothing a previous run left behind is pending.
Alone(r) ==
  /\ \A q \in Runs \ {r} : pc[q] \in Ended \union {"start"}
  /\ orphans = {}

\* Mutant: an unhealthy baseline is reported as skipped.
PreFaultSkipped(r) ==
  /\ At(r, "start")
  /\ Exclusive => Alone(r)
  /\ \/ /\ BaselineHealthy /\ FinalHealthy
        /\ GotoStage(r, "boundary")
        /\ UNCHANGED status
     \/ /\ GotoStage(r, "reported")
        /\ status' = [status EXCEPT ![r] = "SKIPPED"]
  /\ UNCHANGED <<injVars, infraError, rollbackError, faultApplied, faultVerified,
                 rollbackVerified, recoveryAttempted, escaping, traffic,
                 recoveryOk, recovery, expectedObserved, held>>

\* run_runtime_scenario: a fault needs a currently healthy baseline.
PreFault(r) ==
  /\ At(r, "start")
  /\ Exclusive => Alone(r)
  /\ \/ /\ BaselineHealthy /\ FinalHealthy
        /\ GotoStage(r, "boundary")
        /\ UNCHANGED status
     \/ /\ GotoStage(r, "reported")
        /\ status' = [status EXCEPT ![r] = "BLOCKED"]
  /\ UNCHANGED <<injVars, infraError, rollbackError, faultApplied, faultVerified,
                 rollbackVerified, recoveryAttempted, escaping, traffic,
                 recoveryOk, recovery, expectedObserved, held>>

\* Declarative mutation faults are never injected.
MutationBlocked(r) ==
  /\ At(r, "boundary") /\ Type(r) \in MutationFaults
  /\ GotoStage(r, "reported")
  /\ status' = [status EXCEPT ![r] = "BLOCKED"]
  /\ UNCHANGED <<injVars, infraError, rollbackError, faultApplied, faultVerified,
                 rollbackVerified, recoveryAttempted, escaping, traffic,
                 recoveryOk, recovery, expectedObserved, held>>

\* The boundary file is written, the SIGTERM handler installed, apply() called.
Apply(r) ==
  /\ At(r, "boundary") /\ Type(r) \notin MutationFaults
  /\ CallApply(r)
  /\ GotoStage(r, "apply")
  /\ UNCHANGED results

-----------------------------------------------------------------------------
(* The try block.                                                           *)

\* RuntimeError and KeyboardInterrupt reach the except clause; ValueError and
\* OSError are not caught and propagate through the finally clause.
Raised(r) ==
  \/ ret[r] \in {"error", "interrupt"} /\ GotoStage(r, "except") /\ UNCHANGED escaping
  \/ /\ ret[r] = "uncaught"
     /\ GotoStage(r, "finally")
     /\ escaping' = [escaping EXCEPT ![r] = TRUE]

AfterApply(r) ==
  /\ At(r, "apply")
  /\ \/ /\ ret[r] = "ok"
        /\ faultApplied' = [faultApplied EXCEPT ![r] = applied[r]]
        /\ CallVerifyApplied(r)
        /\ GotoStage(r, "verify")
        /\ UNCHANGED escaping
     \/ Raised(r) /\ UNCHANGED <<injVars, faultApplied>>
  /\ UNCHANGED <<infraError, rollbackError, faultVerified, rollbackVerified,
                 recoveryAttempted, traffic, recoveryOk, recovery, status,
                 expectedObserved, held>>

\* Mutant: a fault that cannot be verified is taken as not applied.
AfterVerifyForgets(r) ==
  /\ At(r, "verify")
  /\ \/ /\ ret[r] = "true"
        /\ faultVerified' = [faultVerified EXCEPT ![r] = TRUE]
        /\ GotoStage(r, "settle")
        /\ UNCHANGED <<injVars, escaping>>
     \/ /\ ret[r] = "false" /\ GotoStage(r, "except")
        /\ applied' = [applied EXCEPT ![r] = FALSE]
        /\ UNCHANGED <<faultVerified, escaping, world, orphans, fault, op, ret,
                       masked, dangled, cleanupRequired, createdClsact,
                       filterCleanup, restartFrom, failed>>
     \/ Raised(r) /\ UNCHANGED <<faultVerified, injVars>>
  /\ UNCHANGED <<infraError, rollbackError, faultApplied, rollbackVerified,
                 recoveryAttempted, traffic, recoveryOk, recovery, status,
                 expectedObserved, held>>

AfterVerify(r) ==
  /\ At(r, "verify")
  /\ \/ /\ ret[r] = "true"
        /\ faultVerified' = [faultVerified EXCEPT ![r] = TRUE]
        /\ GotoStage(r, "settle")
        /\ UNCHANGED escaping
     \/ ret[r] = "false" /\ GotoStage(r, "except") /\ UNCHANGED <<faultVerified, escaping>>
     \/ Raised(r) /\ UNCHANGED faultVerified
  /\ UNCHANGED <<injVars, infraError, rollbackError, faultApplied, rollbackVerified,
                 recoveryAttempted, traffic, recoveryOk, recovery, status,
                 expectedObserved, held>>

\* The traffic probe after the settle time: it reaches the DN, fails to (exit
\* 4), or leaves no usable evidence.
Traffic(r) ==
  /\ At(r, "settle")
  /\ \/ /\ \E t \in {"success", "failure", "broken"} :
             /\ t = "success" => TrafficCanPass
             /\ traffic' = [traffic EXCEPT ![r] = t]
        /\ held' = [held EXCEPT ![r] = Type(r) = "none" \/ FaultInForce(r)]
        /\ GotoStage(r, "collect")
     \/ GotoStage(r, "except") /\ UNCHANGED <<traffic, held>>
  /\ UNCHANGED <<injVars, infraError, rollbackError, faultApplied, faultVerified,
                 rollbackVerified, recoveryAttempted, escaping,
                 recoveryOk, recovery, status, expectedObserved>>

\* Mutant: the traffic evidence is not looked at.
CollectAnyTraffic(r) ==
  /\ At(r, "collect")
  /\ GotoStage(r, "finally") \/ GotoStage(r, "except")
  /\ UNCHANGED <<injVars, results>>

\* Logs are collected after the traffic; a failed collection, unusable traffic
\* evidence or an interrupt is an infrastructure error.
Collect(r) ==
  /\ At(r, "collect")
  /\ \/ traffic[r] # "broken" /\ GotoStage(r, "finally")
     \/ GotoStage(r, "except")
  /\ UNCHANGED <<injVars, results>>

\* A second signal inside the except clause replaces the handled exception.
Except(r) ==
  /\ At(r, "except")
  /\ GotoStage(r, "finally")
  /\ \/ infraError' = [infraError EXCEPT ![r] = TRUE] /\ UNCHANGED escaping
     \/ escaping' = [escaping EXCEPT ![r] = TRUE] /\ UNCHANGED infraError
  /\ UNCHANGED <<injVars, rollbackError, faultApplied, faultVerified,
                 rollbackVerified, recoveryAttempted, traffic, recoveryOk,
                 recovery, status, expectedObserved, held>>

-----------------------------------------------------------------------------
(* The finally clause.                                                      *)

\* SIGINT is ignored first, then SIGTERM; both statements stand before the
\* inner try, so a signal that is still handled there leaves the function.
IgnoreSigint(r) ==
  /\ At(r, "finally")
  /\ GotoStage(r, "finally2") \/ GotoStage(r, "escaped")
  /\ UNCHANGED <<injVars, results>>

IgnoreSigterm(r) ==
  /\ At(r, "finally2")
  /\ \/ Mask(r) /\ GotoStage(r, "guarded")
     \/ GotoStage(r, "escaped") /\ UNCHANGED injVars
  /\ UNCHANGED results

\* Mutant: only a completed apply() is rolled back.
RemoveApplied(r) ==
  /\ At(r, "guarded")
  /\ \/ /\ applied[r]
        /\ recoveryAttempted' = [recoveryAttempted EXCEPT ![r] = TRUE]
        /\ CallRemove(r)
        /\ GotoStage(r, "remove")
     \/ /\ ~applied[r]
        /\ GotoStage(r, "restore")
        /\ UNCHANGED <<injVars, recoveryAttempted>>
  /\ UNCHANGED <<infraError, rollbackError, faultApplied, faultVerified,
                 rollbackVerified, escaping, traffic, recoveryOk, recovery,
                 status, expectedObserved, held>>

Remove(r) ==
  /\ At(r, "guarded")
  /\ \/ /\ applied[r] \/ cleanupRequired[r]
        /\ recoveryAttempted' = [recoveryAttempted EXCEPT ![r] = TRUE]
        /\ CallRemove(r)
        /\ GotoStage(r, "remove")
     \/ /\ ~applied[r] /\ ~cleanupRequired[r]
        /\ GotoStage(r, "restore")
        /\ UNCHANGED <<injVars, recoveryAttempted>>
  /\ UNCHANGED <<infraError, rollbackError, faultApplied, faultVerified,
                 rollbackVerified, escaping, traffic, recoveryOk, recovery,
                 status, expectedObserved, held>>

\* Mutant: the error of a failed rollback is dropped.
AfterRemoveSilent(r) ==
  /\ At(r, "remove")
  /\ \/ /\ ret[r] = "ok"
        /\ CallVerifyRemoved(r)
        /\ GotoStage(r, "verifyRemoved")
        /\ UNCHANGED escaping
     \/ /\ ret[r] = "error"
        /\ GotoStage(r, "restore")
        /\ UNCHANGED <<injVars, escaping>>
     \/ /\ ret[r] = "uncaught"
        /\ escaping' = [escaping EXCEPT ![r] = TRUE]
        /\ GotoStage(r, "restore")
        /\ UNCHANGED injVars
  /\ UNCHANGED <<infraError, rollbackError, faultApplied, faultVerified,
                 rollbackVerified, recoveryAttempted, traffic, recoveryOk,
                 recovery, status, expectedObserved, held>>

AfterRemove(r) ==
  /\ At(r, "remove")
  /\ \/ /\ ret[r] = "ok"
        /\ CallVerifyRemoved(r)
        /\ GotoStage(r, "verifyRemoved")
        /\ UNCHANGED <<rollbackError, escaping>>
     \/ /\ ret[r] = "error"
        /\ rollbackError' = [rollbackError EXCEPT ![r] = TRUE]
        /\ GotoStage(r, "restore")
        /\ UNCHANGED <<injVars, escaping>>
     \/ /\ ret[r] = "uncaught"
        /\ escaping' = [escaping EXCEPT ![r] = TRUE]
        /\ GotoStage(r, "restore")
        /\ UNCHANGED <<injVars, rollbackError>>
  /\ UNCHANGED <<infraError, faultApplied, faultVerified, rollbackVerified,
                 recoveryAttempted, traffic, recoveryOk, recovery, status,
                 expectedObserved, held>>

AfterVerifyRemoved(r) ==
  /\ At(r, "verifyRemoved")
  /\ GotoStage(r, "restore")
  /\ \/ /\ ret[r] = "true"
        /\ rollbackVerified' = [rollbackVerified EXCEPT ![r] = TRUE]
        /\ UNCHANGED <<rollbackError, escaping>>
     \/ /\ ret[r] = "false"
        /\ rollbackError' = [rollbackError EXCEPT ![r] = TRUE]
        /\ UNCHANGED <<rollbackVerified, escaping>>
     \/ /\ ret[r] = "uncaught"
        /\ escaping' = [escaping EXCEPT ![r] = TRUE]
        /\ UNCHANGED <<rollbackVerified, rollbackError>>
  /\ UNCHANGED <<injVars, infraError, faultApplied, faultVerified,
                 recoveryAttempted, traffic, recoveryOk, recovery, status,
                 expectedObserved, held>>

\* Mutant: a run without recovery check is not carried on to its report.
RestoreOnly(r) ==
  /\ At(r, "restore")
  /\ Mask(r)
  /\ \/ escaping[r] /\ GotoStage(r, "escaped")
     \/ /\ ~escaping[r] /\ faultVerified[r] /\ rollbackVerified[r]
        /\ GotoStage(r, "recovery")
  /\ UNCHANGED results

\* The inner finally restores the handlers; a pending exception propagates.
Restore(r) ==
  /\ At(r, "restore")
  /\ Mask(r)
  /\ \/ escaping[r] /\ GotoStage(r, "escaped")
     \/ /\ ~escaping[r] /\ faultVerified[r] /\ rollbackVerified[r]
        /\ GotoStage(r, "recovery")
     \/ /\ ~escaping[r] /\ ~(faultVerified[r] /\ rollbackVerified[r])
        /\ GotoStage(r, "report")
  /\ UNCHANGED results

-----------------------------------------------------------------------------
(* After the fault.                                                         *)

\* validate_recovered_baseline runs all its checks, whatever fails: first the
\* services, the RAN state and the traffic, then the final health gate.
RecoveryTraffic(r) ==
  /\ At(r, "recovery")
  /\ \E ok \in {BaselineHealthy, FALSE} : recoveryOk' = [recoveryOk EXCEPT ![r] = ok]
  /\ GotoStage(r, "recoveryFinal")
  /\ UNCHANGED <<injVars, infraError, rollbackError, faultApplied, faultVerified,
                 rollbackVerified, recoveryAttempted, escaping, traffic,
                 recovery, status, expectedObserved, held>>

RecoveryFinal(r) ==
  /\ At(r, "recoveryFinal")
  /\ \E ok \in {FinalHealthy, FALSE} :
       recovery' = [recovery EXCEPT ![r] = IF recoveryOk[r] /\ ok THEN "PASS" ELSE "FAIL"]
  /\ GotoStage(r, "report")
  /\ UNCHANGED <<injVars, infraError, rollbackError, faultApplied, faultVerified,
                 rollbackVerified, recoveryAttempted, escaping, traffic,
                 recoveryOk, status, expectedObserved, held>>

\* The scenario's expected and forbidden events, over this run's own logs and
\* traffic file.  n3_impairment expects user_plane_failure.
EventsPass(r) == Type(r) = "n3_impairment" => traffic[r] = "failure"

\* Mutant: the status of the events alone.
FinalStatusOfEvents(r, eventsPass) ==
  IF infraError[r] THEN "ERROR" ELSE IF eventsPass THEN "PASS" ELSE "FAIL"

FinalStatus(r, eventsPass) ==
  IF infraError[r] THEN "ERROR"
  ELSE IF rollbackError[r] \/ ~rollbackVerified[r] \/ ~eventsPass \/ recovery[r] # "PASS"
    THEN "FAIL"
  ELSE "PASS"

Report(r) ==
  /\ At(r, "report")
  /\ \E eventsPass \in {EventsPass(r), FALSE} :
       /\ status' = [status EXCEPT ![r] = FinalStatus(r, eventsPass)]
       /\ expectedObserved' = [expectedObserved EXCEPT ![r] = ~infraError[r] /\ eventsPass]
  /\ GotoStage(r, "reported")
  /\ UNCHANGED <<injVars, infraError, rollbackError, faultApplied, faultVerified,
                 rollbackVerified, recoveryAttempted, escaping, traffic,
                 recoveryOk, recovery, held>>

\* Outside the try block a signal ends the process without a report.
InterruptOutside(r) ==
  /\ pc[r] \in {"start", "boundary", "recovery", "recoveryFinal", "report"}
  /\ op[r] = "idle"
  /\ GotoStage(r, "escaped")
  /\ UNCHANGED <<injVars, results>>

-----------------------------------------------------------------------------

Crash(r) ==
  /\ pc[r] \notin Ended
  /\ Dies(r)
  /\ GotoStage(r, "crashed")
  /\ UNCHANGED results

Init ==
  /\ InjInit
  /\ pc = [r \in Runs |-> "start"]
  /\ infraError = [r \in Runs |-> FALSE]
  /\ rollbackError = [r \in Runs |-> FALSE]
  /\ faultApplied = [r \in Runs |-> FALSE]
  /\ faultVerified = [r \in Runs |-> FALSE]
  /\ rollbackVerified = [r \in Runs |-> FALSE]
  /\ recoveryAttempted = [r \in Runs |-> FALSE]
  /\ escaping = [r \in Runs |-> FALSE]
  /\ traffic = [r \in Runs |-> "none"]
  /\ recoveryOk = [r \in Runs |-> FALSE]
  /\ recovery = [r \in Runs |-> "SKIPPED"]
  /\ status = [r \in Runs |-> "none"]
  /\ expectedObserved = [r \in Runs |-> FALSE]
  /\ held = [r \in Runs |-> FALSE]

\* A step of the injector inside a call of the driver.
InjectorStep(r) == Step(r) /\ UNCHANGED <<pc, results>>

Drive(r) ==
  \/ PreFault(r) \/ MutationBlocked(r) \/ Apply(r)
  \/ AfterApply(r) \/ AfterVerify(r) \/ Traffic(r) \/ Collect(r) \/ Except(r)
  \/ IgnoreSigint(r) \/ IgnoreSigterm(r)
  \/ Remove(r) \/ AfterRemove(r) \/ AfterVerifyRemoved(r) \/ Restore(r)
  \/ RecoveryTraffic(r) \/ RecoveryFinal(r) \/ Report(r)

LabStep ==
  /\ \/ \E s \in Services : ContainerRestarts(s)
     \/ \E o \in orphans : OrphanEnds(o)
  /\ UNCHANGED <<pc, results>>

Next ==
  \/ \E r \in Runs : Drive(r) \/ InjectorStep(r) \/ InterruptOutside(r) \/ Crash(r)
  \/ LabStep

Spec == Init /\ [][Next]_vars

\* Every command is bounded by a timeout, so a live process goes on.  Nothing
\* is assumed of signals, crashes, docker, or an operator starting a run.
Proceeds(r) == pc[r] # "start" /\ (Drive(r) \/ InjectorStep(r))
FairSpec == Spec /\ \A r \in Runs : WF_vars(Proceeds(r))
-----------------------------------------------------------------------------
(* Properties                                                               *)

\* Type correctness of execute_fault_scenario's locals and of its result.
TypeOK ==
  /\ InjTypeOK
  /\ pc \in [Runs -> Stages]
  /\ infraError \in [Runs -> BOOLEAN]
  /\ rollbackError \in [Runs -> BOOLEAN]
  /\ faultApplied \in [Runs -> BOOLEAN]
  /\ faultVerified \in [Runs -> BOOLEAN]
  /\ rollbackVerified \in [Runs -> BOOLEAN]
  /\ recoveryAttempted \in [Runs -> BOOLEAN]
  /\ escaping \in [Runs -> BOOLEAN]
  /\ traffic \in [Runs -> {"none", "success", "failure", "broken"}]
  /\ recoveryOk \in [Runs -> BOOLEAN]
  /\ recovery \in [Runs -> {"SKIPPED", "PASS", "FAIL"}]
  /\ status \in [Runs -> Statuses]
  /\ expectedObserved \in [Runs -> BOOLEAN]
  /\ held \in [Runs -> BOOLEAN]

\* A run reported PASS has nothing of its own left in the lab, and never will
\* have: neither a filter nor a clsact, whatever its commands' failures and
\* late effects and whatever other runs do.
\* (orchestration.py: the finally clause and the status computation)
PassMeansReverted ==
  \A r \in Runs : status[r] = "PASS" => OwnQdiscs(r) = {} /\ OwnFilters(r) = {}

\* A PASS was earned under the fault: the fault was in force when the traffic
\* ran, although it is verified only before, because a container that lost it
\* by restarting fails the recovery check.  (orchestration.py:399-409, 695-720)
PassMeansHeld == \A r \in Runs : status[r] = "PASS" => held[r]

\* PASS is only reported of a lab whose services all run again.
\* (orchestration.py:448-450, 471)
PassLeavesLabRunning ==
  [][\A r \in Runs : status'[r] = "PASS" /\ status[r] # "PASS" => \A s \in Services : up[s]]_vars

\* A report of a run whose cleanup is still armed says so: removal was
\* attempted, its failure is recorded, and the verdict is FAIL or ERROR.
\* (docs/failure_injection.md:30, :38; orchestration.py:430-443, 465-472)
RollbackFailureReported ==
  \A r \in Runs :
    pc[r] = "reported" /\ (applied[r] \/ cleanupRequired[r]) =>
      recoveryAttempted[r] /\ rollbackError[r] /\ status[r] \in {"FAIL", "ERROR"}

\* expected_failure_observed rests on this run's evidence: the fault had been
\* verified, the traffic probe of this run left usable evidence, and for the
\* N3 fault that evidence is a failure.  (orchestration.py:418-424, 454-457)
ExpectedFailureIsCurrent ==
  \A r \in Runs :
    expectedObserved[r] =>
      /\ faultVerified[r]
      /\ traffic[r] \in {"success", "failure"}
      /\ Type(r) = "n3_impairment" => traffic[r] = "failure"

\* With one scenario at a time, a rollback takes out only what its own run put
\* in: tc state of the operator or of a crashed earlier run goes only with its
\* container.  (fault_injection.py:189-212)
OnlyOwnRemoved ==
  [][\A x \in (qdiscs \ qdiscs') \union (filters \ filters') :
       \/ up'[x[1]] = FALSE \/ startedAt'[x[1]] # startedAt[x[1]]
       \/ \E r \in Runs :
            /\ x = <<x[1], r>> \/ x = <<x[1], Type(r), r>>
            /\ \/ op[r] \in {"delFilter", "delClsact"}
               \/ \E c \in {"delFilter", "delClsact"} : [run |-> r, cmd |-> c] \in orphans]_vars

\* docs/pre_merge_audit.md:10: SIGTERM during an active fault triggers the
\* rollback and the cleanup is protected from repeated interruption.  A run
\* that ends in an orderly way with its cleanup armed has attempted it.
CleanupAttempted ==
  \A r \in Runs :
    pc[r] \in {"reported", "escaped"} /\ cleanupRequired[r] => recoveryAttempted[r]

\* A run that passed its pre-fault check comes to an end.
\* (orchestration.py: bounded commands, no retry loop)
Terminates == \A r \in Runs : pc[r] = "boundary" ~> pc[r] \in Ended

\* A filter in the lab is taken out, or the failure to do so is reported,
\* unless the run was killed, left by an exception, or lost a client.
\* (docs/failure_injection.md:38)
FilterIsDealtWith ==
  \A r \in Runs :
    OwnFilters(r) # {} ~>
      \/ OwnFilters(r) = {}
      \/ pc[r] \in {"escaped", "crashed"} \/ dangled[r]
      \/ pc[r] = "reported" /\ rollbackError[r]

-----------------------------------------------------------------------------
(* The inductive invariant behind PassMeansReverted, on top of InjInv.      *)

ApplyCommands == {"inspectBefore", "restart", "stop", "showFilter", "showQdisc",
                  "addClsact", "addFilter"}
RemoveCommands == {"start", "delFilter", "checkFilter", "delClsact", "checkClsact"}
VerifyRemovedCommands == {"verifyRunning", "verifyFilterGone", "verifyClsactGone"}

\* A command runs inside the call its stage is waiting for.
InStage(command, stage) ==
  /\ command \in ApplyCommands => stage = "apply"
  /\ command = "verifyApplied" => stage = "verify"
  /\ command \in RemoveCommands => stage = "remove"
  /\ command \in VerifyRemovedCommands => stage = "verifyRemoved"

CallsInStage == \A r \in Runs : InStage(op[r], pc[r])

\* Run r has met an error it cannot forget: it will not be reported PASS.
Spoiled(r) ==
  \/ infraError[r] \/ escaping[r] \/ pc[r] \in {"except", "escaped", "crashed"}
  \/ pc[r] = "apply" /\ op[r] = "idle" /\ ret[r] \in {"error", "interrupt"}

\* A command of apply() that may still take effect was left behind by a spoiled
\* run.
LateApplySpoils == \A o \in orphans : o.cmd \in ApplyCommands => Spoiled(o.run)

SeenRemoved(r) == At(r, "verifyRemoved") /\ ret[r] = "true"

\* A verified rollback has left nothing, and nothing comes back.
CleanWhenVerified ==
  \A r \in Runs : ~Spoiled(r) =>
    /\ rollbackVerified[r] \/ SeenRemoved(r) => OwnQdiscs(r) = {} /\ OwnFilters(r) = {}
    /\ op[r] = "verifyClsactGone" => OwnFilters(r) = {}
    /\ rollbackVerified[r] =>
         pc[r] \in {"restore", "recovery", "recoveryFinal", "report", "reported"}

PassIsFinal ==
  \A r \in Runs :
    /\ pc[r] \in {"recovery", "recoveryFinal", "report"} => ~escaping[r]
    /\ status[r] = "PASS" =>
         pc[r] = "reported" /\ rollbackVerified[r] /\ ~Spoiled(r)

ScenarioInv == CallsInStage /\ LateApplySpoils /\ CleanWhenVerified /\ PassIsFinal
=============================================================================
