---------------------- MODULE FaultScenarioRefinement ----------------------
(***************************************************************************)
(* How execute_fault_scenario keeps the promise of FaultLifecycle: the       *)
(* refinement mapping from the driver, its injector and the lab.             *)
(***************************************************************************)
EXTENDS FaultScenario

\* Refused before apply(), under way, ended with a verdict, or ended without.
PhaseOf(r) ==
  CASE pc[r] \in {"start", "boundary"} -> "idle"
    [] pc[r] \in {"escaped", "crashed"} -> "lost"
    [] pc[r] = "reported" /\ status[r] = "BLOCKED" -> "blocked"
    [] pc[r] = "reported" /\ status[r] = "PASS" -> "passed"
    [] pc[r] = "reported" /\ status[r] \notin {"BLOCKED", "PASS"} -> "failed"
    [] OTHER -> "active"

TcObjects == {"clsact", "filter"}

FootprintOf(r) ==
  {thing \in TcObjects :
     \/ thing = "clsact" /\ OwnQdiscs(r) # {}
     \/ thing = "filter" /\ OwnFilters(r) # {}}

Lifecycle ==
  INSTANCE FaultLifecycle WITH
    Things <- TcObjects,
    phase <- [r \in Runs |-> PhaseOf(r)],
    footprint <- [r \in Runs |-> FootprintOf(r)],
    admitted <- rollbackError,
    stray <- dangled

\* A fault scenario keeps the lifecycle it promises: a refused run never
\* touches the lab, PASS needs a clean lab and is final, and any other verdict
\* admits a failed rollback, whatever commands fail or take effect late.
\* (orchestration.py:343-499, fault_injection.py:44-212)
ImplementsLifecycle == Lifecycle!Spec

-----------------------------------------------------------------------------
(* The inductive invariant behind the refinement, on top of InjInv and        *)
(* ScenarioInv.                                                              *)

Early(r) ==
  \/ pc[r] \in {"start", "boundary"}
  \/ pc[r] = "reported" /\ status[r] = "BLOCKED"

\* Before apply(), and for ever when it is never called, the object is new.
EarlyUntouched ==
  \A r \in Runs : Early(r) =>
    /\ op[r] \in {"idle", "dead"} /\ ret[r] = "none"
    /\ ~applied[r] /\ ~cleanupRequired[r] /\ ~dangled[r]
    /\ ~rollbackError[r] /\ ~escaping[r]
    /\ OwnQdiscs(r) = {} /\ OwnFilters(r) = {}

AfterRollback == {"restore", "recovery", "recoveryFinal", "report", "reported"}

\* A cleanup that is still armed after the rollback has been tried, and its
\* failure is recorded or still propagating.
ArmedIsAccounted ==
  \A r \in Runs :
    /\ pc[r] \in {"remove", "verifyRemoved"} \/ rollbackError[r] => recoveryAttempted[r]
    /\ (pc[r] = "remove" /\ op[r] = "idle" /\ ret[r] = "ok") \/ pc[r] = "verifyRemoved" =>
         ~applied[r] /\ ~cleanupRequired[r]
    /\ pc[r] \in AfterRollback /\ (applied[r] \/ cleanupRequired[r]) =>
         rollbackError[r] \/ escaping[r]
    /\ pc[r] = "reported" => ~escaping[r]
    /\ pc[r] = "reported" /\ rollbackError[r] => status[r] \in {"FAIL", "ERROR"}

RefinementInv == EarlyUntouched /\ ArmedIsAccounted
=============================================================================
