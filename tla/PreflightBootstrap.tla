------------------------- MODULE PreflightBootstrap -------------------------
(***************************************************************************)
(* The UPF bootstrap script where the lab runs it, in the order of           *)
(* docs/runtime_validation.md: first with --check as the bootstrap probe of  *)
(* RuntimePreflight, then as the entrypoint of the UPF container, and then,  *)
(* by an operator, with --check again inside the running container.  A       *)
(* container has a network namespace of its own, new with every start.       *)
(***************************************************************************)
EXTENDS RuntimePreflight

VARIABLES
  place,        \* where the script runs: probe, entrypoint or manual
  tun, configured, nat, mode, natEnabled, at, exitTrap, createdTun, createdNat,
  failed, marker, code, foreign, misread, deleteFailed, unguarded,
  exercised

Upf == INSTANCE UpfBootstrap
upfVars == <<tun, configured, nat, mode, natEnabled, at, exitTrap, createdTun, createdNat,
             failed, marker, code, foreign, misread, deleteFailed, unguarded, exercised>>
allVars == <<vars, place, upfVars>>

IsBootstrap(i) == Plan[i] = "bootstrap"

CInit ==
  /\ Init
  /\ place = "probe"
  /\ Upf!Init

\* run_probe takes the probe for passed on its marker and a zero exit status.
ProbeOutcome == IF marker' /\ code' = 0 THEN "passed" ELSE "failed"

\* In the bootstrap probe's container the script is this script; it is gone
\* with the container.
ProbeStep(i) ==
  /\ place = "probe" /\ IsBootstrap(i)
  /\ <<i, "probe">> \in present /\ script[i] = "started"
  /\ Upf!Next
  /\ script' = IF at' = "ended" THEN [script EXCEPT ![i] = ProbeOutcome] ELSE script
  /\ UNCHANGED <<present, files, late, volume, pc, probe, results, escaping, verdict,
                 cleanupFailed, lingering, place>>

\* The other containers, and docker itself.
OtherDockerStep ==
  /\ \/ Created
     \/ \E i \in Probes : (~IsBootstrap(i) /\ ScriptRuns(i)) \/ AutoRemoved(i)
     \/ \E c \in late : LateCreation(c)
  /\ UNCHANGED <<place, upfVars>>

PreflightStep ==
  /\ Preflight \/ InterruptOutside \/ Crash
  /\ UNCHANGED <<place, upfVars>>

\* The UPF container is started once the preflight has passed, and again
\* whenever its main process, the script or the daemon, ended (restart:
\* unless-stopped).
ContainerStarts ==
  /\ \/ place = "probe" /\ verdict = "PASS"
     \/ place = "entrypoint" /\ at \in {"ended", "daemon"}
  /\ place' = "entrypoint"
  /\ \E enabled \in BOOLEAN : Upf!Restarts("daemon", enabled, FALSE, 0)
  /\ UNCHANGED vars

\* The operator probes the running container by hand.
ManualCheck ==
  /\ place = "entrypoint" /\ at = "daemon"
  /\ place' = "manual"
  /\ Upf!Restarts("check", natEnabled, tun, nat)
  /\ UNCHANGED vars

LabScript ==
  /\ place # "probe"
  /\ Upf!Next
  /\ UNCHANGED <<vars, place>>

CNext ==
  \/ \E i \in Probes : ProbeStep(i)
  \/ OtherDockerStep \/ PreflightStep
  \/ ContainerStarts \/ ManualCheck \/ LabScript

CSpec == CInit /\ [][CNext]_allVars

-----------------------------------------------------------------------------
(* Properties                                                               *)

\* Type correctness of the preflight and of the bootstrap script.
CTypeOK == TypeOK /\ Upf!TypeOK /\ place \in {"probe", "entrypoint", "manual"}

MarkerMeansClean == Upf!MarkerMeansClean
ForeignKept == Upf!ForeignKept
ResidueExplained == Upf!ResidueExplained

\* docs/runtime_findings.md:61: a preflight that passed has seen every probe's
\* script succeed, and the bootstrap check had a configured tunnel, and the NAT
\* rule if it is enabled, before it took them down, printed its marker and
\* exited with zero.  (runtime_preflight.py:224-228, 286-295; upf-entrypoint.sh:39-78)
PassMeansSetUp ==
  verdict = "PASS" /\ place = "probe" =>
    \A i \in Probes :
      /\ script[i] = "passed"
      /\ IsBootstrap(i) => marker /\ code = 0 /\ exercised
=============================================================================
