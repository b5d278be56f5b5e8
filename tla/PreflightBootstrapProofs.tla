---------------------- MODULE PreflightBootstrapProofs ----------------------
(***************************************************************************)
(* What holds of the runtime preflight for any plan of probes and any number *)
(* of requests left behind, of the UPF bootstrap script in a namespace, as a *)
(* probe, as entrypoint and by hand, whatever fails and whenever a signal    *)
(* arrives, and that a preflight that passed has seen the script set up the   *)
(* data plane and take it down.                                             *)
(***************************************************************************)
EXTENDS PreflightBootstrap, SequenceTheorems, TLAPS

-----------------------------------------------------------------------------
(* The preflight                                                            *)

PreStages == {"tools", "resolve", "images", "volume"}

\* No probe has been started yet.
Untouched ==
  /\ probe = 1 /\ present = {} /\ files = {} /\ late = {} /\ ~lingering
  /\ \A i \in Probes : script[i] = "none"

BeforeProbes == pc \in PreStages \/ "BLOCKED" \in results => Untouched

\* A blocked check is the end, and the verdict is that of the checks.
VerdictOfChecks ==
  /\ "BLOCKED" \in results => pc \in Ended
  /\ verdict # "none" => pc = "done" /\ verdict = CapabilityStatus(results)

\* A request left behind and a failed cleanup are failures on the record, or
\* the run ends without a verdict.
FailuresRecorded ==
  /\ late # {} => lingering
  /\ lingering => "FAIL" \in results \/ escaping \/ pc \in {"except", "escaped", "crashed"}
  /\ cleanupFailed => "FAIL" \in results
  /\ pc \in PreStages \union {"probe"} => "FAIL" \notin results /\ ~escaping
  /\ escaping => pc # "done"

Gone(i) == <<i, "probe">> \notin present /\ <<i, "helper">> \notin present /\ i \notin files

\* Nothing is left of the probes before the current one, nothing is there yet
\* of the ones after it.
OthersGone ==
  /\ \A i \in Probes : i # probe => Gone(i)
  /\ \A c \in late : c[1] = probe
  /\ \A i \in Probes : i > probe => script[i] = "none"

\* How far the cleanup of the current probe has come, if nothing went wrong.
CleanupSoFar ==
  ~lingering /\ ~cleanupFailed =>
    /\ pc \in {"clean", "rmHelper", "psHelper", "restore", "done"} => Self \notin present
    /\ pc \notin {"rmHelper", "psHelper", "escaped", "crashed"} => Helper \notin present
    /\ Role # "logs" \/ pc \in {"rmHelper", "psHelper", "restore", "done"} => probe \notin files

FilesOfLogProbes == \A i \in files : Plan[i] = "logs"

\* The inductive invariant.
PreflightInv ==
  /\ BeforeProbes /\ VerdictOfChecks /\ FailuresRecorded /\ OthersGone /\ CleanupSoFar
  /\ FilesOfLogProbes
-----------------------------------------------------------------------------
(* Type correctness                                                         *)

LEMMA RoleOfProbe == ASSUME TypeOK PROVE Role \in Roles
  BY PlanAssumption DEF TypeOK, Role, Probes

LEMMA SelfAndHelper == ASSUME TypeOK PROVE Self \in Containers /\ Helper \in Containers
  BY DEF TypeOK, Self, Helper, Containers

LEMMA FirstProbe == 1 \in Probes
  BY PlanAssumption, EmptySeq, LenProperties DEF Probes

LEMMA LateType ==
  ASSUME TypeOK, NEW c \in Containers, LeftBehind(c)
  PROVE  late' \subseteq Containers /\ lingering' \in BOOLEAN
  BY DEF TypeOK, LeftBehind

LEMMA CapabilityType == ASSUME NEW checks PROVE CapabilityStatus(checks) \in {"FAIL", "BLOCKED", "PASS"}
  BY DEF CapabilityStatus

\* A step of docker keeps the types.
LEMMA DockerType == ASSUME TypeOK, DockerStep PROVE TypeOK'
<1>1. CASE Created
  BY <1>1 DEF TypeOK, Created, Self, Containers
<1>2. ASSUME NEW i \in Probes, ScriptRuns(i) PROVE TypeOK'
  <2>1. script' \in [Probes -> {"none", "started", "wrote", "passed", "failed"}]
    BY <1>2 DEF TypeOK, ScriptRuns
  <2>2. files' \subseteq Probes
    BY <1>2 DEF TypeOK, ScriptRuns
  <2>3. QED
    BY <1>2, <2>1, <2>2 DEF TypeOK, ScriptRuns
<1>3. ASSUME NEW i \in Probes, AutoRemoved(i) PROVE TypeOK'
  BY <1>3 DEF TypeOK, AutoRemoved
<1>4. ASSUME NEW c \in late, LateCreation(c) PROVE TypeOK'
  <2>1. c \in Containers /\ c[1] \in Probes
    BY DEF TypeOK, Containers
  <2>2. present' \subseteq Containers /\ late' \subseteq Containers /\ files' \subseteq Probes
    BY <1>4, <2>1 DEF TypeOK, LateCreation
  <2>3. script' \in [Probes -> {"none", "started", "wrote", "passed", "failed"}]
    BY <1>4, <2>1 DEF TypeOK, LateCreation
  <2>4. QED
    BY <1>4, <2>2, <2>3 DEF TypeOK, LateCreation
<1>5. QED
  BY <1>1, <1>2, <1>3, <1>4 DEF DockerStep

\* A step of the preflight keeps the types.
LEMMA PreflightType == ASSUME TypeOK, Preflight PROVE TypeOK'
<1> USE DEF Stages
<1>1. CASE Tools \/ Resolve \/ Images
  BY <1>1, CapabilityType DEF TypeOK, Tools, Resolve, Images, Checked, Returned, docker
<1>2. CASE PrepareVolume
  BY <1>2, CapabilityType DEF TypeOK, PrepareVolume, Checked, Returned
<1>3. CASE ClientEnds
  BY <1>3, SelfAndHelper, LateType DEF TypeOK, ClientEnds
<1>4. CASE ClientInterrupted
  BY <1>4, SelfAndHelper, LateType DEF TypeOK, ClientInterrupted
<1>5. CASE Except \/ IgnoreSignals
  BY <1>5 DEF TypeOK, Except, IgnoreSignals, docker
<1>6. CASE RemoveContainer
  BY <1>6 DEF TypeOK, RemoveContainer
<1>7. CASE CheckAbsent
  BY <1>7 DEF TypeOK, CheckAbsent, CleanupCheck, docker
<1>8. CASE CleanFile
  <2>1. present' \subseteq Containers /\ files' \subseteq Probes /\ late' \subseteq Containers
    BY <1>8 DEF TypeOK, CleanFile, LeftBehind, Helper, Containers
  <2>2. lingering' \in BOOLEAN
    BY <1>8 DEF TypeOK, CleanFile, LeftBehind
  <2>3. results' \subseteq {"PASS", "FAIL", "BLOCKED"} /\ cleanupFailed' \in BOOLEAN
    BY <1>8 DEF TypeOK, CleanFile, CleanupCheck
  <2>4. QED
    BY <1>8, <2>1, <2>2, <2>3 DEF TypeOK, CleanFile
<1>9. CASE Restore
  <2>1. probe' \in Probes
    BY <1>9, PlanAssumption DEF TypeOK, Restore, Probes
  <2>2. QED
    BY <1>9, <2>1, CapabilityType DEF TypeOK, Restore, Returned, docker
<1>10. QED
  BY <1>1, <1>2, <1>3, <1>4, <1>5, <1>6, <1>7, <1>8, <1>9 DEF Preflight

LEMMA TypeStep == ASSUME TypeOK, [Next]_vars PROVE TypeOK'
<1>1. CASE InterruptOutside
  BY <1>1 DEF TypeOK, InterruptOutside, Stages, docker
<1>2. CASE Crash
  BY <1>2, SelfAndHelper, LateType DEF TypeOK, Crash, Stages
<1>3. CASE UNCHANGED vars
  BY <1>3 DEF TypeOK, vars, docker
<1>4. QED
  BY <1>1, <1>2, <1>3, DockerType, PreflightType DEF Next

LEMMA TypeInit == ASSUME Init PROVE TypeOK
  BY FirstProbe DEF Init, TypeOK, Stages

\* The state of the probes, of docker and of the log volume has its type.
\* (runtime_preflight.py: run_runtime_preflight, run_probe)
THEOREM TypeCorrect == Spec => []TypeOK
  BY TypeInit, TypeStep, PTL DEF Spec
-----------------------------------------------------------------------------
(* The inductive invariant                                                  *)

\* What a check before the probes does.
LEMMA CheckedFacts ==
  ASSUME NEW status, NEW next, Checked(status, next), next \notin Ended, verdict = "none"
  PROVE  /\ pc' \in {next, "done"}
         /\ pc' = next => {"FAIL", "BLOCKED"} \intersect results' = {} /\ verdict' = "none"
         /\ pc' = "done" => verdict' = CapabilityStatus(results')
         /\ results' = results \union {status}
  BY DEF Checked, Returned, CapabilityStatus, Ended

\* While the preflight runs there is no verdict and nothing blocked.
LEMMA Running ==
  ASSUME VerdictOfChecks, pc \notin Ended
  PROVE  verdict = "none" /\ "BLOCKED" \notin results
  BY DEF VerdictOfChecks, Ended

\* A step of run_probe: no check of it blocks, and it does not go back.
LEMMA ProbeStage ==
  ASSUME TypeOK, VerdictOfChecks,
         ClientEnds \/ ClientInterrupted \/ Except \/ IgnoreSignals
           \/ RemoveContainer \/ CheckAbsent \/ CleanFile \/ Restore
  PROVE  pc \notin Ended \union PreStages /\ pc' \notin PreStages
         /\ "BLOCKED" \notin results'
<1>1. pc \notin Ended \union PreStages /\ pc' \notin PreStages
  BY DEF ClientEnds, ClientInterrupted, Except, IgnoreSignals, RemoveContainer, CheckAbsent,
         CleanFile, Restore, Returned, Ended, PreStages
<1>2. results' \in {results, results \union {"PASS"}, results \union {"FAIL"}}
  BY DEF ClientEnds, ClientInterrupted, Except, IgnoreSignals, RemoveContainer, CheckAbsent,
         CleanFile, Restore, CleanupCheck
<1>3. QED
  BY <1>1, <1>2, Running

LEMMA BeforeProbesStep == ASSUME TypeOK, PreflightInv, Next PROVE BeforeProbes'
<1> USE DEF PreflightInv
<1>1. CASE Tools \/ Resolve \/ Images \/ PrepareVolume \/ InterruptOutside
  <2>1. Untouched
    BY <1>1 DEF BeforeProbes, PreStages, Tools, Resolve, Images, PrepareVolume, InterruptOutside
  <2>2. UNCHANGED <<probe, present, files, late, lingering, script>>
    BY <1>1 DEF Tools, Resolve, Images, PrepareVolume, InterruptOutside, docker
  <2>3. QED
    BY <2>1, <2>2 DEF BeforeProbes, Untouched
<1>2. CASE ClientEnds \/ ClientInterrupted \/ Except \/ IgnoreSignals
             \/ RemoveContainer \/ CheckAbsent \/ CleanFile \/ Restore
  BY <1>2, ProbeStage DEF BeforeProbes
<1>3. CASE Crash
  BY <1>3, Running DEF BeforeProbes, Crash, PreStages
<1>4. CASE Created
  <2>1. pc = "probe" /\ pc' = pc /\ results' = results
    BY <1>4 DEF Created
  <2>2. QED
    BY <2>1, Running DEF BeforeProbes, PreStages, Ended
<1>5. CASE \E i \in Probes : ScriptRuns(i) \/ AutoRemoved(i)
  BY <1>5 DEF BeforeProbes, Untouched, ScriptRuns, AutoRemoved
<1>6. CASE \E c \in late : LateCreation(c)
  BY <1>6 DEF BeforeProbes, Untouched, LateCreation
<1>7. QED
  BY <1>1, <1>2, <1>3, <1>4, <1>5, <1>6 DEF Next, Preflight, DockerStep

\* A check before the probes keeps the records of verdict and failures.
LEMMA CheckedRecords ==
  ASSUME TypeOK, PreflightInv, pc \in PreStages,
         NEW status, NEW next \in {"resolve", "images", "volume", "probe"}, Checked(status, next),
         UNCHANGED <<late, lingering, escaping, cleanupFailed>>
  PROVE  VerdictOfChecks' /\ FailuresRecorded'
<1>1. verdict = "none" /\ next \notin Ended /\ ~lingering /\ late = {} /\ ~escaping
  BY Running DEF PreflightInv, PreStages, Ended, FailuresRecorded, BeforeProbes, Untouched
<1>2. VerdictOfChecks'
  BY <1>1, CheckedFacts DEF VerdictOfChecks, Ended
<1>3. FailuresRecorded'
  BY <1>1, CheckedFacts DEF PreflightInv, FailuresRecorded, PreStages
<1>4. QED
  BY <1>2, <1>3

LEMMA RecordsStep ==
  ASSUME TypeOK, PreflightInv, Next PROVE VerdictOfChecks' /\ FailuresRecorded'
<1> USE DEF PreflightInv
<1>1. CASE Tools \/ Resolve \/ Images \/ PrepareVolume
  BY <1>1, CheckedRecords DEF Tools, Resolve, Images, PrepareVolume, PreStages, docker
<1>2. CASE ClientEnds \/ ClientInterrupted
  BY <1>2 DEF ClientEnds, ClientInterrupted, LeftBehind, VerdictOfChecks, FailuresRecorded,
              Ended, PreStages
<1>3. CASE Except \/ IgnoreSignals
  BY <1>3 DEF Except, IgnoreSignals, docker, VerdictOfChecks, FailuresRecorded, Ended, PreStages
<1>4. CASE RemoveContainer \/ CheckAbsent \/ CleanFile
  <2>1. verdict = "none" /\ "BLOCKED" \notin results' /\ verdict' = verdict
    BY <1>4, Running, ProbeStage DEF RemoveContainer, CheckAbsent, CleanFile, Ended
  <2>2. VerdictOfChecks'
    BY <2>1 DEF VerdictOfChecks
  <2>3. /\ pc' \notin Ended \union PreStages \union {"probe", "except"}
        /\ pc \notin {"except", "escaped", "crashed"} /\ escaping' = escaping
        /\ results \subseteq results'
    BY <1>4 DEF RemoveContainer, CheckAbsent, CleanFile, CleanupCheck, Ended, PreStages
  <2>4. cleanupFailed' => cleanupFailed \/ "FAIL" \in results'
    BY <1>4 DEF RemoveContainer, CheckAbsent, CleanFile, CleanupCheck
  <2>5. /\ late' # {} => late # {} \/ lingering'
        /\ lingering' => lingering \/ "FAIL" \in results'
    <3>1. CASE RemoveContainer \/ CheckAbsent
      <4>1. late' = late /\ lingering' = lingering
        BY <3>1 DEF RemoveContainer, CheckAbsent, docker
      <4>2. QED
        BY <4>1
    <3>2. CASE CleanFile /\ UNCHANGED <<late, lingering>>
      BY <3>2
    <3>3. CASE CleanFile /\ LeftBehind(Helper)
      <4>1. "FAIL" \in results' \/ UNCHANGED <<late, lingering>>
        BY <3>3 DEF CleanFile, CleanupCheck
      <4>2. QED
        BY <3>3, <4>1 DEF LeftBehind
    <3>4. QED
      BY <1>4, <3>1, <3>2, <3>3 DEF CleanFile
  <2>6. lingering => lingering'
    BY <1>4 DEF RemoveContainer, CheckAbsent, CleanFile, LeftBehind
  <2>7. lingering' => "FAIL" \in results' \/ escaping'
    BY <2>3, <2>5 DEF FailuresRecorded
  <2>8. late' # {} => lingering'
    BY <2>5, <2>6 DEF FailuresRecorded
  <2>9. cleanupFailed' => "FAIL" \in results'
    BY <2>3, <2>4 DEF FailuresRecorded
  <2>10. FailuresRecorded'
    BY <2>3, <2>7, <2>8, <2>9 DEF FailuresRecorded, Ended
  <2>11. QED
    BY <2>2, <2>10
<1>5. CASE Restore
  <2>1. verdict = "none" /\ "BLOCKED" \notin results
    BY <1>5, Running DEF Restore, Ended
  <2>2. VerdictOfChecks'
    BY <1>5, <2>1 DEF Restore, Returned, VerdictOfChecks, Ended
  <2>3. pc' = "probe" => "FAIL" \notin results' /\ ~escaping'
    BY <1>5 DEF Restore, Returned, CapabilityStatus
  <2>4. pc' \in {"probe", "done", "escaped"} /\ (escaping => pc' = "escaped")
    BY <1>5 DEF Restore, Returned
  <2>5. UNCHANGED <<late, lingering, cleanupFailed, escaping, results>>
    BY <1>5 DEF Restore, docker
  <2>6. pc = "restore"
    BY <1>5 DEF Restore
  <2>7. FailuresRecorded'
    BY <2>3, <2>4, <2>5, <2>6 DEF FailuresRecorded, PreStages
  <2>8. QED
    BY <2>2, <2>7
<1>6. CASE InterruptOutside \/ Crash
  BY <1>6 DEF InterruptOutside, Crash, LeftBehind, docker, VerdictOfChecks, FailuresRecorded,
              Ended, PreStages
<1>7. CASE DockerStep
  <2>1. UNCHANGED <<pc, results, escaping, verdict, cleanupFailed, lingering>>
    BY <1>7 DEF DockerStep, Created, ScriptRuns, AutoRemoved, LateCreation
  <2>2. late' \subseteq late
    BY <1>7 DEF DockerStep, Created, ScriptRuns, AutoRemoved, LateCreation
  <2>3. QED
    BY <2>1, <2>2 DEF VerdictOfChecks, FailuresRecorded
<1>8. QED
  BY <1>1, <1>2, <1>3, <1>4, <1>5, <1>6, <1>7 DEF Next, Preflight

\* Without a failure on the record the current probe has been cleaned up when
\* the handlers are restored.
LEMMA CleanAtRestore ==
  ASSUME TypeOK, PreflightInv, pc = "restore", ~escaping, "FAIL" \notin results
  PROVE  Gone(probe) /\ late = {} /\ ~lingering /\ ~cleanupFailed
<1>1. ~lingering /\ ~cleanupFailed /\ late = {}
  BY DEF PreflightInv, FailuresRecorded
<1>2. QED
  BY <1>1 DEF PreflightInv, CleanupSoFar, Gone, Self, Helper

\* The step to the next probe.
LEMMA Advance ==
  ASSUME TypeOK, PreflightInv, Restore, probe' # probe
  PROVE  /\ probe' = probe + 1 /\ pc' = "probe" /\ late' = {}
         /\ \A i \in Probes : Gone(i)'
         /\ script' = script
<1>1. /\ probe' = probe + 1 /\ pc' = "probe" /\ pc = "restore" /\ ~escaping
      /\ "FAIL" \notin results /\ UNCHANGED docker
  BY DEF Restore, CapabilityStatus
<1>2. \A i \in Probes : Gone(i)
  BY <1>1, CleanAtRestore DEF PreflightInv, OthersGone
<1>3. QED
  BY <1>1, <1>2, CleanAtRestore DEF Gone, docker

LEMMA OthersGoneStep == ASSUME TypeOK, PreflightInv, Next PROVE OthersGone'
<1> USE DEF PreflightInv
<1>1. CASE Tools \/ Resolve \/ Images \/ PrepareVolume \/ InterruptOutside \/ Except
             \/ IgnoreSignals \/ RemoveContainer \/ CheckAbsent
  BY <1>1 DEF Tools, Resolve, Images, PrepareVolume, InterruptOutside, Except, IgnoreSignals,
              RemoveContainer, CheckAbsent, docker, OthersGone, Gone
<1>2. CASE ClientEnds \/ ClientInterrupted \/ Crash
  <2>1. late' \in {late, late \union {Self}}
    BY <1>2 DEF ClientEnds, ClientInterrupted, Crash, LeftBehind
  <2>2. QED
    BY <1>2, <2>1 DEF ClientEnds, ClientInterrupted, Crash, OthersGone, Gone, Self
<1>3. CASE CleanFile
  <2>1. late' \in {late, late \union {Helper}}
    BY <1>3 DEF CleanFile, LeftBehind
  <2>2. QED
    BY <1>3, <2>1 DEF CleanFile, OthersGone, Gone, Helper
<1>4. CASE Restore
  <2>1. CASE probe' = probe
    BY <1>4, <2>1 DEF Restore, docker, OthersGone, Gone
  <2>2. CASE probe' # probe
    <3>1. \A i \in Probes : i > probe' => script'[i] = "none"
      BY <1>4, <2>2, Advance DEF OthersGone, TypeOK, Probes
    <3>2. QED
      BY <1>4, <2>2, <3>1, Advance DEF OthersGone
  <2>3. QED
    BY <2>1, <2>2
<1>5. CASE Created
  <2>1. present' = present \union {<<probe, "probe">>} /\ UNCHANGED <<files, late, probe>>
    BY <1>5 DEF Created, Self
  <2>2. \A i \in Probes : i # probe => Gone(i)'
    BY <2>1 DEF OthersGone, Gone
  <2>3. \A i \in Probes : i > probe => script'[i] = "none"
    BY <1>5 DEF Created, OthersGone, TypeOK, Probes
  <2>4. QED
    BY <2>1, <2>2, <2>3 DEF OthersGone
<1>6. ASSUME NEW i \in Probes, ScriptRuns(i) \/ AutoRemoved(i) PROVE OthersGone'
  BY <1>6 DEF ScriptRuns, AutoRemoved, OthersGone, Gone, TypeOK, Probes
<1>7. ASSUME NEW c \in late, LateCreation(c) PROVE OthersGone'
  <2>1. c[1] = probe /\ c \in Containers
    BY DEF OthersGone, TypeOK
  <2>2. /\ present' \in {present, present \union {c}}
        /\ files' \in {files, files \ {probe}}
        /\ late' = late \ {c} /\ probe' = probe
        /\ \A i \in Probes : i # probe => script'[i] = script[i]
    BY <1>7, <2>1 DEF LateCreation, TypeOK
  <2>3. \A i \in Probes : i # probe => Gone(i)'
    BY <2>1, <2>2 DEF OthersGone, Gone
  <2>4. QED
    BY <2>2, <2>3 DEF OthersGone, TypeOK, Probes
<1>8. QED
  BY <1>1, <1>2, <1>3, <1>4, <1>5, <1>6, <1>7 DEF Next, Preflight, DockerStep

LEMMA CleanupSoFarStep == ASSUME TypeOK, PreflightInv, Next PROVE CleanupSoFar'
<1> USE DEF PreflightInv, Self, Helper, Role
<1>1. CASE Tools \/ Resolve \/ Images \/ PrepareVolume \/ InterruptOutside
  <2>1. Untouched
    BY <1>1 DEF BeforeProbes, PreStages, Tools, Resolve, Images, PrepareVolume, InterruptOutside
  <2>2. present' = {} /\ files' = {}
    BY <1>1, <2>1 DEF Untouched, Tools, Resolve, Images, PrepareVolume, InterruptOutside, docker
  <2>3. QED
    BY <2>2 DEF CleanupSoFar
<1>2. CASE ClientEnds \/ ClientInterrupted \/ Crash
  BY <1>2 DEF ClientEnds, ClientInterrupted, Crash, LeftBehind, CleanupSoFar, Ended
<1>3. CASE Except \/ IgnoreSignals
  BY <1>3 DEF Except, IgnoreSignals, docker, CleanupSoFar
<1>4. CASE RemoveContainer
  BY <1>4 DEF RemoveContainer, CleanupSoFar
<1>5. CASE CheckAbsent
  BY <1>5 DEF CheckAbsent, CleanupCheck, docker, CleanupSoFar
<1>6. CASE CleanFile
  <2>1. pc = "clean" /\ pc' = "rmHelper" /\ probe' = probe
    BY <1>6 DEF CleanFile
  <2>2. ~cleanupFailed' => ~cleanupFailed /\ probe \notin files'
    BY <1>6 DEF CleanFile, CleanupCheck
  <2>3. present' \in {present, present \union {<<probe, "helper">>}}
        /\ (~lingering' => ~lingering)
    BY <1>6 DEF CleanFile, LeftBehind
  <2>4. QED
    BY <2>1, <2>2, <2>3 DEF CleanupSoFar
<1>7. CASE Restore
  <2>1. CASE probe' = probe
    BY <1>7, <2>1 DEF Restore, Returned, docker, CleanupSoFar
  <2>2. CASE probe' # probe
    <3>1. probe' \in Probes
      BY TypeStep DEF TypeOK
    <3>2. QED
      BY <1>7, <2>2, <3>1, Advance DEF CleanupSoFar, Gone
  <2>3. QED
    BY <2>1, <2>2
<1>8. CASE Created
  BY <1>8 DEF Created, CleanupSoFar
<1>9. ASSUME NEW i \in Probes, ScriptRuns(i) \/ AutoRemoved(i) PROVE CleanupSoFar'
  BY <1>9 DEF ScriptRuns, AutoRemoved, CleanupSoFar, TypeOK
<1>10. ASSUME NEW c \in late, LateCreation(c) PROVE CleanupSoFar'
  BY <1>10 DEF LateCreation, FailuresRecorded, CleanupSoFar
<1>11. QED
  BY <1>1, <1>2, <1>3, <1>4, <1>5, <1>6, <1>7, <1>8, <1>9, <1>10 DEF Next, Preflight, DockerStep

LEMMA FilesStep == ASSUME TypeOK, PreflightInv, Next PROVE FilesOfLogProbes'
<1>1. CASE Preflight \/ InterruptOutside \/ Crash
  <2>1. files' \subseteq files
    BY <1>1 DEF Preflight, InterruptOutside, Crash, Tools, Resolve, Images, PrepareVolume,
                ClientEnds, ClientInterrupted, Except, IgnoreSignals, RemoveContainer,
                CheckAbsent, CleanFile, Restore, docker
  <2>2. QED
    BY <2>1 DEF PreflightInv, FilesOfLogProbes
<1>2. CASE DockerStep
  BY <1>2 DEF DockerStep, Created, ScriptRuns, AutoRemoved, LateCreation, PreflightInv,
              FilesOfLogProbes
<1>3. QED
  BY <1>1, <1>2 DEF Next

LEMMA InvInit == ASSUME Init PROVE PreflightInv
  BY FirstProbe DEF Init, PreflightInv, BeforeProbes, Untouched, VerdictOfChecks, FailuresRecorded,
                    OthersGone, Gone, CleanupSoFar, PreStages, Ended, FilesOfLogProbes

LEMMA InvStep == ASSUME TypeOK, PreflightInv, [Next]_vars PROVE PreflightInv'
<1>1. CASE Next
  BY <1>1, BeforeProbesStep, RecordsStep, OthersGoneStep, CleanupSoFarStep,
     FilesStep DEF PreflightInv
<1>2. CASE UNCHANGED vars
  BY <1>2 DEF vars, docker, PreflightInv, BeforeProbes, Untouched, VerdictOfChecks,
              FailuresRecorded, OthersGone, Gone, CleanupSoFar, FilesOfLogProbes, Self, Helper,
              Role
<1>3. QED
  BY <1>1, <1>2

\* What has been cleaned up is gone, and what went wrong is on the record.
\* (runtime_preflight.py:224-228, 296-314, 345-360)
THEOREM CleanupIsAccounted == Spec => []PreflightInv
  BY TypeInit, TypeStep, InvInit, InvStep, PTL DEF Spec

-----------------------------------------------------------------------------
(* The properties of the runs                                               *)

LEMMA NothingLeft ==
  ASSUME TypeOK, \A i \in Probes : Gone(i) PROVE present = {} /\ files = {}
<1>1. \A c \in present : FALSE
  <2>1. SUFFICES ASSUME NEW c \in present PROVE FALSE
    OBVIOUS
  <2>2. PICK i \in Probes, k \in {"probe", "helper"} : c = <<i, k>>
    BY DEF TypeOK, Containers
  <2>3. QED
    BY <2>2 DEF Gone
<1>2. \A i \in files : FALSE
  BY DEF TypeOK, Gone
<1>3. QED
  BY <1>1, <1>2

\* A preflight that passed has left neither a container nor a file, and none
\* will come.  (runtime_preflight.py: run_probe, cleanup_probe, cleanup_log_file)
THEOREM PassLeavesNothingHolds == Spec => []PassLeavesNothing
<1>1. ASSUME TypeOK, PreflightInv, verdict = "PASS" PROVE present = {} /\ files = {} /\ late = {}
  <2>1. pc = "done" /\ {"FAIL", "BLOCKED"} \intersect results = {}
    BY <1>1 DEF PreflightInv, VerdictOfChecks, CapabilityStatus
  <2>2. ~lingering /\ ~cleanupFailed /\ late = {}
    BY <1>1, <2>1 DEF PreflightInv, FailuresRecorded
  <2>3. \A i \in Probes : Gone(i)
    BY <1>1, <2>1, <2>2 DEF PreflightInv, OthersGone, CleanupSoFar, Gone, Self, Helper
  <2>4. QED
    BY <1>1, <2>2, <2>3, NothingLeft
<1>2. TypeOK /\ PreflightInv => PassLeavesNothing
  BY <1>1 DEF PassLeavesNothing
<1>3. QED
  BY <1>2, TypeCorrect, CleanupIsAccounted, PTL

\* A container or file that an orderly preflight leaves behind is reported as a
\* failed cleanup, unless the request of a killed client is involved.
\* (runtime_preflight.py:310-313, 345-360)
THEOREM ResidueReportedHolds == Spec => []ResidueReported
<1>1. ASSUME TypeOK, PreflightInv, pc = "done", ~lingering, ~cleanupFailed
      PROVE  present = {} /\ files = {}
  <2>1. \A i \in Probes : Gone(i)
    BY <1>1 DEF PreflightInv, OthersGone, CleanupSoFar, Gone, Self, Helper
  <2>2. QED
    BY <1>1, <2>1, NothingLeft
<1>2. TypeOK /\ PreflightInv => ResidueReported
  BY <1>1 DEF ResidueReported
<1>3. QED
  BY <1>2, TypeCorrect, CleanupIsAccounted, PTL

\* A blocked preflight has not started any container.
\* (runtime_preflight.py:170-222; docs/runtime_validation.md:37)
THEOREM BlockedBeforeProbesHolds == Spec => []BlockedBeforeProbes
<1>1. PreflightInv => BlockedBeforeProbes
  BY DEF PreflightInv, VerdictOfChecks, CapabilityStatus, BeforeProbes, Untouched,
         BlockedBeforeProbes
<1>2. QED
  BY <1>1, CleanupIsAccounted, PTL

\* A probe starts on a clean slate.  (runtime_preflight.py:224-228)
THEOREM ProbesOneByOneHolds == Spec => []ProbesOneByOne
<1>1. TypeOK /\ PreflightInv => ProbesOneByOne
  BY DEF TypeOK, Probes, PreflightInv, OthersGone, Gone, ProbesOneByOne
<1>2. QED
  BY <1>1, TypeCorrect, CleanupIsAccounted, PTL

-----------------------------------------------------------------------------
(* What a preflight that passed has seen                                    *)

AfterClient == {"finally", "finally2", "rm", "ps", "clean", "rmHelper", "psHelper", "restore"}

\* A record without failures stands for scripts that have passed.
PassedSoFar ==
  "FAIL" \notin results /\ ~escaping =>
    /\ \A i \in Probes : i < probe => script[i] = "passed"
    /\ pc \in AfterClient => script[probe] = "passed"
    /\ pc = "done" /\ "BLOCKED" \notin results => probe = Len(Plan) /\ script[probe] = "passed"

\* Docker does not take back what a script has reported.
LEMMA PassedStays ==
  ASSUME TypeOK, DockerStep
  PROVE  /\ \A i \in Probes : script[i] = "passed" => script'[i] = "passed"
         /\ UNCHANGED <<pc, probe, results, escaping>>
<1>1. CASE Created
  BY <1>1 DEF Created, TypeOK
<1>2. CASE \E i \in Probes : ScriptRuns(i) \/ AutoRemoved(i)
  BY <1>2 DEF ScriptRuns, AutoRemoved, TypeOK
<1>3. CASE \E c \in late : LateCreation(c)
  BY <1>3 DEF LateCreation, TypeOK
<1>4. QED
  BY <1>1, <1>2, <1>3 DEF DockerStep

LEMMA PassedInit == ASSUME Init PROVE PassedSoFar
  BY FirstProbe DEF Init, PassedSoFar, AfterClient, Probes

LEMMA PassedStep == ASSUME TypeOK, PassedSoFar, [Next]_vars PROVE PassedSoFar'
<1> USE DEF AfterClient
<1>1. CASE Tools \/ Resolve \/ Images \/ PrepareVolume
  <2>1. PICK status \in {"PASS", "FAIL", "BLOCKED"},
             next \in {"resolve", "images", "volume", "probe"} : Checked(status, next)
    BY <1>1 DEF Tools, Resolve, Images, PrepareVolume
  <2>2. UNCHANGED <<script, probe, escaping>> /\ results \subseteq results'
    BY <1>1, <2>1 DEF Tools, Resolve, Images, PrepareVolume, docker, Checked
  <2>3. pc' = next \/ (pc' = "done" /\ {"FAIL", "BLOCKED"} \intersect results' # {})
    BY <2>1 DEF Checked, Returned, CapabilityStatus
  <2>4. QED
    BY <2>2, <2>3 DEF PassedSoFar
<1>2. CASE ClientEnds
  BY <1>2 DEF ClientEnds, PassedSoFar
<1>3. CASE ClientInterrupted \/ Except \/ InterruptOutside \/ Crash
  BY <1>3 DEF ClientInterrupted, Except, InterruptOutside, Crash, docker, PassedSoFar
<1>4. CASE IgnoreSignals \/ RemoveContainer \/ CheckAbsent \/ CleanFile
  <2>1. UNCHANGED <<script, probe, escaping>> /\ results \subseteq results'
    BY <1>4 DEF IgnoreSignals, RemoveContainer, CheckAbsent, CleanFile, CleanupCheck, docker
  <2>2. pc \in AfterClient /\ pc' \in AfterClient \union {"escaped"}
    BY <1>4 DEF IgnoreSignals, RemoveContainer, CheckAbsent, CleanFile
  <2>3. QED
    BY <2>1, <2>2 DEF PassedSoFar
<1>5. CASE Restore
  <2>1. UNCHANGED <<script, results, escaping>> /\ pc = "restore"
    BY <1>5 DEF Restore, docker
  <2>2. CASE escaping
    BY <2>1, <2>2 DEF PassedSoFar
  <2>3. CASE ~escaping /\ pc' = "probe" /\ probe' = probe + 1
    BY <2>1, <2>3 DEF PassedSoFar, TypeOK, Probes
  <2>4. CASE ~escaping /\ pc' = "done" /\ probe' = probe
               /\ ({"FAIL", "BLOCKED"} \intersect results # {} \/ probe = Len(Plan))
    BY <2>1, <2>4 DEF PassedSoFar
  <2>5. QED
    BY <1>5, <2>2, <2>3, <2>4 DEF Restore, Returned, CapabilityStatus
<1>6. CASE DockerStep
  BY <1>6, PassedStays DEF PassedSoFar, TypeOK
<1>7. CASE UNCHANGED vars
  BY <1>7 DEF vars, docker, PassedSoFar
<1>8. QED
  BY <1>1, <1>2, <1>3, <1>4, <1>5, <1>6, <1>7 DEF Next, Preflight

-----------------------------------------------------------------------------
(* The preflight inside the composition                                     *)

\* A step of the composition is a step of the preflight or none.
LEMMA CompositionStep == ASSUME TypeOK, PreflightInv, [CNext]_allVars PROVE [Next]_vars
<1>1. ASSUME NEW i \in Probes, ProbeStep(i) PROVE [Next]_vars
  <2>1. Plan[i] = "bootstrap" /\ <<i, "probe">> \in present /\ script[i] = "started"
        /\ UNCHANGED <<present, files, late, volume, pc, probe, results, escaping, verdict,
                       cleanupFailed, lingering>>
    BY <1>1 DEF ProbeStep, IsBootstrap
  <2>2. CASE script' = script
    BY <2>1, <2>2 DEF vars, docker
  <2>3. CASE script' = [script EXCEPT ![i] = "passed"]
    <3>1. files \ {i} = files
      BY <2>1 DEF PreflightInv, FilesOfLogProbes
    <3>2. QED
      BY <2>1, <2>3, <3>1 DEF ScriptRuns, Next, DockerStep
  <2>4. CASE script' = [script EXCEPT ![i] = "failed"]
    BY <2>1, <2>4 DEF ScriptRuns, Next, DockerStep
  <2>5. QED
    BY <1>1, <2>2, <2>3, <2>4 DEF ProbeStep, ProbeOutcome
<1>2. CASE OtherDockerStep
  BY <1>2 DEF OtherDockerStep, Next, DockerStep
<1>3. CASE PreflightStep
  BY <1>3 DEF PreflightStep, Next
<1>4. CASE ContainerStarts \/ ManualCheck \/ LabScript
  BY <1>4 DEF ContainerStarts, ManualCheck, LabScript
<1>5. CASE UNCHANGED allVars
  BY <1>5 DEF allVars
<1>6. QED
  BY <1>1, <1>2, <1>3, <1>4, <1>5 DEF CNext

\* What holds of the preflight holds of the composition.
LEMMA PreflightOfComposition == CSpec => Spec
<1>1. CInit => Init
  BY DEF CInit
<1>2. TypeOK /\ PreflightInv /\ [CNext]_allVars => [Next]_vars
  BY CompositionStep
<1>3. Init => TypeOK /\ PreflightInv
  BY TypeInit, InvInit
<1>4. TypeOK /\ PreflightInv /\ [Next]_vars => TypeOK' /\ PreflightInv'
  BY TypeStep, InvStep
<1>5. QED
  BY <1>1, <1>2, <1>3, <1>4, PTL DEF CSpec, Spec

-----------------------------------------------------------------------------
(* The bootstrap script                                                     *)

Before == {"sysctl", "lookTun", "addTun", "configure", "lookNat", "addNat"}

\* Whatever the script has put there is flagged.
Owned == (tun /\ ~foreign.tun => createdTun) /\ (nat > foreign.nat => createdNat)

\* Only what the script has put there is flagged, unless a lookup failed.
Spared ==
  ~misread =>
    /\ createdTun => ~foreign.tun
    /\ createdNat => foreign.nat = 0
    /\ foreign.tun => tun
    /\ nat >= foreign.nat

TrapInv ==
  /\ at \in Before \union {"verifyNat", "lookAgain", "sleep"} => exitTrap = "armed"
  /\ at \in {"pass", "exit", "exec"} => exitTrap = "reset"
  /\ at \in {"delNat", "delTun"} => exitTrap = "running" \/ (exitTrap = "armed" /\ mode = "check")

\* One rule at most is added, and taken out again by a check that succeeds.
CountInv ==
  /\ nat <= foreign.nat + 1
  /\ at \in Before => nat = foreign.nat
  /\ at \in {"sysctl", "lookTun", "addTun"} => (tun <=> foreign.tun)
  /\ at \in Before \ {"addNat"} => ~createdNat
  /\ (at = "addTun" => createdTun) /\ (at = "addNat" => createdNat)
  /\ at = "verifyNat" \/ (at = "delNat" /\ exitTrap = "armed") =>
       nat = IF createdNat THEN foreign.nat + 1 ELSE foreign.nat
  /\ at = "delTun" /\ ~failed => nat <= foreign.nat
  /\ at = "delTun" /\ exitTrap = "armed" /\ ~failed => nat = foreign.nat

\* A check refuses a tunnel that it finds.
RefusalInv ==
  /\ mode = "check"
  /\ \/ at \in {"configure", "lookNat", "addNat", "verifyNat"}
     \/ at \in {"delNat", "delTun"} /\ exitTrap = "armed"
  => ~foreign.tun

Restored == ~createdTun /\ ~createdNat /\ nat = foreign.nat /\ ~foreign.tun

ReportInv ==
  /\ at \in {"lookAgain", "pass", "exit"} => Restored
  /\ marker => at \in {"exit", "ended"} /\ Restored

EndInv ==
  at = "ended" => (~createdTun /\ ~createdNat) \/ (code = 1 /\ (deleteFailed \/ unguarded))

\* A check takes down only what was set up.
SetUpInv ==
  /\ at = "configure" => tun
  /\ at \in {"lookNat", "addNat", "verifyNat"} => tun /\ configured
  /\ at = "delNat" /\ exitTrap = "armed" => tun /\ configured /\ (natEnabled => nat > 0)
  /\ at = "delTun" /\ exitTrap = "armed" => exercised
  /\ at \in {"lookAgain", "pass", "exit"} \/ marker => exercised

\* The inductive invariant of the script.
ScriptInv ==
  /\ Upf!TypeOK
  /\ Owned /\ Spared /\ TrapInv /\ CountInv /\ RefusalInv /\ ReportInv /\ EndInv
  /\ SetUpInv

\* The entrypoint starts in a new namespace.
PlaceInv ==
  /\ place \in {"probe", "entrypoint", "manual"}
  /\ place = "entrypoint" => foreign.nat = 0

-----------------------------------------------------------------------------

\* In a new namespace the script has put nothing and flagged nothing.
LEMMA ScriptInit == Upf!Init => ScriptInv
<1> SUFFICES ASSUME Upf!Init PROVE ScriptInv
  OBVIOUS
<1>1. foreign \in [tun : BOOLEAN, nat : 0 .. 1] /\ foreign.tun = FALSE /\ foreign.nat = 0
  BY DEF Upf!Init
<1>2. Upf!TypeOK
  <2>1. nat \in 0 .. 2 /\ code \in 0 .. 2
    BY DEF Upf!Init
  <2>2. at \in Upf!Commands \union {"ended", "daemon"} /\ mode \in {"check", "daemon"}
        /\ exitTrap \in {"armed", "running", "reset"}
    BY DEF Upf!Init, Upf!Commands
  <2>3. tun \in BOOLEAN /\ configured \in BOOLEAN /\ natEnabled \in BOOLEAN
        /\ createdTun \in BOOLEAN /\ createdNat \in BOOLEAN /\ failed \in BOOLEAN
        /\ marker \in BOOLEAN /\ misread \in BOOLEAN /\ deleteFailed \in BOOLEAN
        /\ unguarded \in BOOLEAN /\ exercised \in BOOLEAN
    BY Zenon DEF Upf!Init
  <2>4. QED
    BY <1>1, <2>1, <2>2, <2>3, Zenon DEF Upf!TypeOK
<1>3. Owned /\ Spared
  BY <1>1 DEF Upf!Init, Owned, Spared
<1>4. TrapInv /\ RefusalInv /\ ReportInv /\ EndInv /\ SetUpInv
  BY <1>1 DEF SetUpInv, Upf!Init, TrapInv, RefusalInv, ReportInv, EndInv, Before, Restored
<1>5. CountInv
  <2>1. at = "sysctl" /\ nat = 0 /\ tun = FALSE /\ createdNat = FALSE
    BY DEF Upf!Init
  <2>2. QED
    BY <1>1, <2>1 DEF CountInv, Before
<1>6. QED
  BY <1>2, <1>3, <1>4, <1>5 DEF ScriptInv

\* Each command keeps the types: the rule is added at most once to what was
\* there.  What the script found is never rewritten.
LEMMA ScriptTypes == ASSUME ScriptInv, Upf!Next PROVE Upf!TypeOK' /\ foreign' = foreign
<1> USE DEF Upf!Next, Upf!Sysctl, Upf!LookTun, Upf!AddTun, Upf!Configure, Upf!LookNat,
            Upf!AddNat, Upf!VerifyNat, Upf!DelNat, Upf!DelTun, Upf!LookAgain, Upf!Pass,
            Upf!Daemon, Upf!Signal, Upf!namespace, Upf!flags, Upf!history, Upf!Goto,
            Upf!Exits, Upf!Cleaned, Upf!Looks, Upf!SetUp, Upf!Records
<1>0. Upf!TypeOK /\ (at = "addNat" => nat <= 1)
  BY DEF ScriptInv, Upf!TypeOK, CountInv, Before
<1>1. foreign' = foreign /\ mode' = mode /\ natEnabled' = natEnabled
  OBVIOUS
<1>2. at' \in Upf!Commands \union {"ended", "daemon"} /\ exitTrap' \in {"armed", "running", "reset"}
  BY <1>0 DEF Upf!TypeOK, Upf!Commands
<1>3. nat' \in 0 .. 2
  <2>1. \/ nat' = nat
        \/ at = "addNat" /\ nat' = nat + 1
        \/ nat > 0 /\ nat' = nat - 1
    BY Zenon
  <2>2. nat \in 0 .. 2
    BY <1>0 DEF Upf!TypeOK
  <2>3. QED
    BY ONLY <1>0, <2>1, <2>2
<1>4. code' \in 0 .. 2
  <2>1. code' \in {code, 0, 1}
    BY Zenon
  <2>2. QED
    BY ONLY <1>0, <2>1 DEF Upf!TypeOK
<1>5. tun' \in BOOLEAN /\ configured' \in BOOLEAN /\ createdTun' \in BOOLEAN
      /\ createdNat' \in BOOLEAN
  BY <1>0, Zenon DEF Upf!TypeOK
<1>6. failed' \in BOOLEAN /\ marker' \in BOOLEAN /\ misread' \in BOOLEAN
      /\ deleteFailed' \in BOOLEAN /\ unguarded' \in BOOLEAN /\ exercised' \in BOOLEAN
  BY <1>0, Zenon DEF Upf!TypeOK
<1>7. QED
  BY ONLY <1>0, <1>1, <1>2, <1>3, <1>4, <1>5, <1>6, Zenon DEF Upf!TypeOK

\* Each command of the script, and a signal before any of them, preserves the
\* inductive invariant.
LEMMA ScriptStep == ASSUME ScriptInv, Upf!Next PROVE ScriptInv'
<1>1. /\ Upf!TypeOK /\ Upf!TypeOK' /\ foreign' = foreign
      /\ Owned /\ Spared /\ TrapInv /\ CountInv /\ RefusalInv /\ ReportInv /\ EndInv
      /\ SetUpInv
  BY ScriptTypes DEF ScriptInv
<1>2. TrapInv' /\ RefusalInv' /\ EndInv'
  <2> USE DEF Upf!Next, Upf!Sysctl, Upf!LookTun, Upf!AddTun, Upf!Configure, Upf!LookNat,
              Upf!AddNat, Upf!VerifyNat, Upf!DelNat, Upf!DelTun, Upf!LookAgain, Upf!Pass,
              Upf!Daemon, Upf!Signal, Upf!namespace, Upf!flags, Upf!history, Upf!Goto,
              Upf!Exits, Upf!Cleaned, Upf!Looks, Upf!SetUp, Upf!Records
  <2>1. TrapInv'
    BY <1>1, Zenon DEF Upf!TypeOK, TrapInv, Before
  <2>2. RefusalInv'
    BY <1>1, Zenon DEF Upf!TypeOK, RefusalInv, CountInv, TrapInv, Before
  <2>3. EndInv'
    BY <1>1, Zenon DEF Upf!TypeOK, EndInv, ReportInv, Restored, TrapInv, Before
  <2>4. QED
    BY ONLY <2>1, <2>2, <2>3
<1>3. Owned' /\ Spared' /\ CountInv' /\ ReportInv'
  <2> USE DEF Owned, Spared, CountInv, ReportInv, Restored, Before,
              Upf!namespace, Upf!flags, Upf!history, Upf!Goto, Upf!Exits
  <2>1. CASE Upf!Sysctl
    BY <1>1, <2>1, SMT DEF Upf!TypeOK, Upf!Sysctl
  <2>2. CASE Upf!LookTun
    <3>1. Owned' /\ Spared' /\ ReportInv'
      BY <1>1, <2>2, SMT DEF Upf!TypeOK, Upf!LookTun, Upf!Looks
    <3>2. CountInv'
      BY <1>1, <2>2, Zenon DEF Upf!TypeOK, Upf!LookTun, Upf!Looks
    <3>3. QED
      BY ONLY <3>1, <3>2
  <2>3. CASE Upf!AddTun
    BY <1>1, <2>3, SMT DEF Upf!TypeOK, Upf!AddTun
  <2>4. CASE Upf!Configure
    BY <1>1, <2>4, SMT DEF Upf!TypeOK, Upf!Configure, Upf!SetUp
  <2>5. CASE Upf!LookNat
    <3>1. Owned' /\ Spared' /\ ReportInv'
      BY <1>1, <2>5, SMT DEF Upf!TypeOK, Upf!LookNat, Upf!Looks
    <3>2. CountInv'
      BY <1>1, <2>5, Zenon DEF Upf!TypeOK, Upf!LookNat, Upf!Looks
    <3>3. QED
      BY ONLY <3>1, <3>2
  <2>6. CASE Upf!AddNat
    BY <1>1, <2>6, SMT DEF Upf!TypeOK, Upf!AddNat
  <2>7. CASE Upf!VerifyNat
    BY <1>1, <2>7, SMT DEF Upf!TypeOK, Upf!VerifyNat, Upf!SetUp
  <2>8. CASE Upf!DelNat
    BY <1>1, <2>8, SMT DEF Upf!TypeOK, TrapInv, RefusalInv, Upf!DelNat, Upf!Records
  <2>9. CASE Upf!DelTun
    BY <1>1, <2>9, SMT DEF Upf!TypeOK, TrapInv, RefusalInv, Upf!DelTun, Upf!Cleaned
  <2>10. CASE Upf!LookAgain
    BY <1>1, <2>10, SMT DEF Upf!TypeOK, TrapInv, RefusalInv, Upf!LookAgain, Upf!Looks
  <2>11. CASE Upf!Pass
    BY <1>1, <2>11, SMT DEF Upf!TypeOK, TrapInv, RefusalInv, Upf!Pass
  <2>12. CASE Upf!Daemon
    BY <1>1, <2>12, SMT DEF Upf!TypeOK, Upf!Daemon
  <2>13. CASE Upf!Signal
    <3>1. Owned' /\ Spared' /\ CountInv'
      BY <1>1, <2>13, SMT DEF Upf!TypeOK, TrapInv, Upf!Signal
    <3>2. /\ at \in Upf!Commands /\ UNCHANGED <<createdTun, createdNat, nat, foreign, marker>>
          /\ (exitTrap = "armed" /\ at' = "delNat") \/ (exitTrap # "armed" /\ at' = "ended")
      BY <2>13, Zenon DEF Upf!Signal
    <3>3. exitTrap = "armed" => ~marker
      BY <1>1, <3>2, Zenon DEF TrapInv, Upf!Commands
    <3>4. ReportInv'
      BY <3>2, <3>3, <1>1, Zenon DEF Upf!Commands
    <3>5. QED
      BY ONLY <3>1, <3>4
  <2>14. QED
    BY ONLY Upf!Next, <2>1, <2>2, <2>3, <2>4, <2>5, <2>6, <2>7, <2>8, <2>9, <2>10,
            <2>11, <2>12, <2>13
       DEF Upf!Next
<1>4. SetUpInv'
  <2> USE DEF SetUpInv, Before, Upf!namespace, Upf!flags, Upf!history, Upf!Goto, Upf!Exits,
              Upf!SetUp
  <2>1. CASE Upf!Sysctl \/ Upf!LookTun \/ Upf!AddTun
    BY <1>1, <2>1, Zenon DEF Upf!TypeOK, TrapInv, ReportInv, Upf!Sysctl, Upf!LookTun, Upf!AddTun,
                             Upf!Looks
  <2>2. CASE Upf!Configure
    BY <1>1, <2>2, SMT DEF Upf!TypeOK, CountInv, TrapInv, ReportInv, Upf!Configure
  <2>3. CASE Upf!LookNat \/ Upf!AddNat
    BY <1>1, <2>3, Zenon DEF Upf!TypeOK, TrapInv, ReportInv, Upf!LookNat, Upf!AddNat
  <2>4. CASE Upf!VerifyNat
    BY <1>1, <2>4, SMT DEF Upf!TypeOK, TrapInv, ReportInv, Upf!VerifyNat
  <2>5. CASE Upf!DelNat
    BY <1>1, <2>5, SMT DEF Upf!TypeOK, TrapInv, ReportInv, Upf!DelNat, Upf!Records
  <2>6. CASE Upf!DelTun
    BY <1>1, <2>6, Zenon DEF Upf!TypeOK, TrapInv, ReportInv, Upf!DelTun, Upf!Cleaned
  <2>7. CASE Upf!LookAgain
    BY <1>1, <2>7, SMT DEF Upf!TypeOK, TrapInv, ReportInv, Upf!LookAgain, Upf!Looks
  <2>8. CASE Upf!Pass
    BY <1>1, <2>8, SMT DEF Upf!TypeOK, TrapInv, ReportInv, Upf!Pass
  <2>9. CASE Upf!Daemon
    BY <1>1, <2>9, SMT DEF Upf!TypeOK, TrapInv, ReportInv, Upf!Daemon
  <2>10. CASE Upf!Signal
    BY <1>1, <2>10, SMT DEF Upf!TypeOK, TrapInv, ReportInv, Upf!Signal, Upf!Commands
  <2>11. QED
    BY ONLY Upf!Next, <2>1, <2>2, <2>3, <2>4, <2>5, <2>6, <2>7, <2>8, <2>9, <2>10 DEF Upf!Next
<1>5. QED
  BY <1>1, <1>2, <1>3, <1>4 DEF ScriptInv

\* A new script starts on what is in its namespace.
LEMMA ScriptRestart ==
  ASSUME NEW m \in {"check", "daemon"}, NEW enabled \in BOOLEAN, NEW hasTun \in BOOLEAN,
         NEW rules \in 0 .. 1, Upf!Restarts(m, enabled, hasTun, rules)
  PROVE  ScriptInv' /\ foreign'.nat = rules
<1>1. foreign' \in [tun : BOOLEAN, nat : 0 .. 1] /\ foreign'.tun = hasTun /\ foreign'.nat = rules
  BY DEF Upf!Restarts
<1>2. Upf!TypeOK'
  <2>1. nat' \in 0 .. 2 /\ code' \in 0 .. 2
    BY DEF Upf!Restarts
  <2>2. /\ at' = "sysctl" /\ at' \in Upf!Commands \union {"ended", "daemon"}
        /\ mode' \in {"check", "daemon"} /\ exitTrap' = "armed"
    BY DEF Upf!Restarts, Upf!Commands
  <2>3. /\ tun' \in BOOLEAN /\ configured' \in BOOLEAN /\ natEnabled' \in BOOLEAN
        /\ createdTun' \in BOOLEAN /\ createdNat' \in BOOLEAN /\ failed' \in BOOLEAN
        /\ marker' \in BOOLEAN /\ misread' \in BOOLEAN /\ deleteFailed' \in BOOLEAN
        /\ unguarded' \in BOOLEAN /\ exercised' \in BOOLEAN
    BY Zenon DEF Upf!Restarts
  <2>4. QED
    BY <1>1, <2>1, <2>2, <2>3, Zenon DEF Upf!TypeOK
<1>3. /\ at' = "sysctl" /\ exitTrap' = "armed" /\ ~marker' /\ ~createdTun' /\ ~createdNat'
      /\ nat' = foreign'.nat /\ (tun' <=> foreign'.tun)
  BY <1>1, Zenon DEF Upf!Restarts
<1>4. TrapInv' /\ RefusalInv' /\ ReportInv' /\ EndInv' /\ SetUpInv'
  BY <1>3, Zenon DEF SetUpInv, TrapInv, RefusalInv, ReportInv, EndInv, Before
<1>5. Owned' /\ Spared' /\ CountInv'
  BY ONLY <1>1, <1>3, rules \in 0 .. 1, hasTun \in BOOLEAN DEF Owned, Spared, CountInv, Before
<1>6. QED
  BY <1>1, <1>2, <1>4, <1>5 DEF ScriptInv

-----------------------------------------------------------------------------
(* The script where the lab runs it                                         *)

\* So does every step of the composition: the lab's other steps leave the script
\* alone, and a new container or a manual check starts a script of its own.
LEMMA PlacesStep ==
  ASSUME ScriptInv, PlaceInv, [CNext]_allVars PROVE ScriptInv' /\ PlaceInv'
<1>1. CASE UNCHANGED <<place, upfVars>>
  BY <1>1 DEF upfVars, ScriptInv, Upf!TypeOK, Owned, Spared, TrapInv, CountInv, RefusalInv,
              ReportInv, Restored, EndInv, SetUpInv, PlaceInv
<1>2. ASSUME UNCHANGED place, Upf!Next PROVE ScriptInv' /\ PlaceInv'
  BY <1>2, ScriptStep, ScriptTypes DEF PlaceInv
<1>3. CASE ContainerStarts
  <2>1. PICK enabled \in BOOLEAN : Upf!Restarts("daemon", enabled, FALSE, 0)
    BY <1>3 DEF ContainerStarts
  <2>2. "daemon" \in {"check", "daemon"} /\ FALSE \in BOOLEAN /\ 0 \in 0 .. 1
    OBVIOUS
  <2>3. ScriptInv' /\ foreign'.nat = 0
    BY <2>1, <2>2, ScriptRestart, Zenon
  <2>4. QED
    BY <1>3, <2>3 DEF ContainerStarts, PlaceInv
<1>4. CASE ManualCheck
  <2>1. natEnabled \in BOOLEAN /\ tun \in BOOLEAN /\ nat \in 0 .. 1
    BY <1>4 DEF ManualCheck, ScriptInv, Upf!TypeOK, CountInv, PlaceInv
  <2>2. ScriptInv'
    BY <1>4, <2>1, ScriptRestart DEF ManualCheck
  <2>3. QED
    BY <1>4, <2>2 DEF ManualCheck, PlaceInv
<1>5. ASSUME NEW i \in Probes, ProbeStep(i) PROVE ScriptInv' /\ PlaceInv'
  BY <1>2, <1>5 DEF ProbeStep
<1>6. CASE LabScript
  BY <1>2, <1>6 DEF LabScript
<1>7. CASE OtherDockerStep \/ PreflightStep \/ UNCHANGED allVars
  BY <1>1, <1>7 DEF OtherDockerStep, PreflightStep, allVars
<1>8. QED
  BY <1>3, <1>4, <1>5, <1>6, <1>7 DEF CNext

\* The inductive invariant holds in every place the script runs.
THEOREM ScriptInvariant == CSpec => []ScriptInv
<1>1. CInit => ScriptInv /\ PlaceInv
  BY ScriptInit DEF CInit, PlaceInv
<1>2. ScriptInv /\ PlaceInv /\ [CNext]_allVars => ScriptInv' /\ PlaceInv'
  BY PlacesStep
<1>3. QED
  BY <1>1, <1>2, PTL DEF CSpec

\* docs/runtime_findings.md:53-63: the probe's marker is printed only when the
\* tunnel and the rule that the check set up are gone and what was there before
\* still is.  (upf-entrypoint.sh:67-75)
THEOREM MarkerIsHonest == CSpec => []MarkerMeansClean
<1>1. ScriptInv => MarkerMeansClean
  BY DEF ScriptInv, Upf!TypeOK, Owned, ReportInv, Restored, MarkerMeansClean,
         Upf!MarkerMeansClean, Upf!OwnResidue
<1>2. QED
  BY <1>1, ScriptInvariant, PTL

\* Unless a lookup failed to see it, the script leaves alone what it found.
\* (upf-entrypoint.sh:13-24, 39-47, 60-63)
THEOREM ForeignIsKept == CSpec => []ForeignKept
<1>1. ScriptInv => ForeignKept
  BY DEF ScriptInv, Spared, ForeignKept, Upf!ForeignKept
<1>2. QED
  BY <1>1, ScriptInvariant, PTL

\* Residue is never silent: the script failed, and it said so or no EXIT trap
\* stood by any more.  (upf-entrypoint.sh:13-26, 80)
THEOREM ResidueIsExplained == CSpec => []ResidueExplained
<1>1. ScriptInv => ResidueExplained
  BY DEF ScriptInv, Upf!TypeOK, Owned, EndInv, ResidueExplained, Upf!ResidueExplained,
         Upf!OwnResidue
<1>2. QED
  BY <1>1, ScriptInvariant, PTL

\* A bootstrap probe that passed has printed the marker and exited with zero.
ProbeInv ==
  place = "probe" =>
    \A i \in Probes :
      IsBootstrap(i) /\ script[i] = "passed" => at = "ended" /\ marker /\ code = 0

LEMMA ProbeInvStep == ASSUME TypeOK, ProbeInv, [CNext]_allVars PROVE ProbeInv'
<1>1. ASSUME NEW i \in Probes, ProbeStep(i) PROVE ProbeInv'
  <2>1. at # "ended"
    BY <1>1, Zenon
       DEF ProbeStep, Upf!Next, Upf!Sysctl, Upf!LookTun, Upf!AddTun, Upf!Configure, Upf!LookNat,
           Upf!AddNat, Upf!VerifyNat, Upf!DelNat, Upf!DelTun, Upf!LookAgain, Upf!Pass,
           Upf!Daemon, Upf!Signal, Upf!Commands
  <2>2. \A j \in Probes : IsBootstrap(j) => script[j] # "passed"
    BY <1>1, <2>1 DEF ProbeStep, ProbeInv
  <2>3. ASSUME NEW j \in Probes, IsBootstrap(j), script'[j] = "passed"
        PROVE  at' = "ended" /\ marker' /\ code' = 0
    BY <1>1, <2>2, <2>3 DEF ProbeStep, ProbeOutcome, TypeOK, IsBootstrap
  <2>4. QED
    BY <2>3 DEF ProbeInv, IsBootstrap
<1>2. CASE OtherDockerStep
  <2>1. \A j \in Probes : IsBootstrap(j) /\ script'[j] = "passed" => script[j] = "passed"
    BY <1>2 DEF OtherDockerStep, Created, ScriptRuns, AutoRemoved, LateCreation, TypeOK,
                IsBootstrap
  <2>2. UNCHANGED <<place, at, marker, code>>
    BY <1>2 DEF OtherDockerStep, upfVars
  <2>3. QED
    BY <2>1, <2>2 DEF ProbeInv, IsBootstrap
<1>3. CASE PreflightStep
  <2>1. script' = script
    BY <1>3 DEF PreflightStep, Preflight, Tools, Resolve, Images, PrepareVolume, ClientEnds,
                ClientInterrupted, Except, IgnoreSignals, RemoveContainer, CheckAbsent,
                CleanFile, Restore, InterruptOutside, Crash, docker
  <2>2. UNCHANGED <<place, at, marker, code>>
    BY <1>3 DEF PreflightStep, upfVars
  <2>3. QED
    BY <2>1, <2>2 DEF ProbeInv, IsBootstrap
<1>4. CASE ContainerStarts \/ ManualCheck \/ LabScript
  BY <1>4 DEF ContainerStarts, ManualCheck, LabScript, ProbeInv
<1>5. CASE UNCHANGED allVars
  BY <1>5 DEF allVars, vars, docker, upfVars, ProbeInv, IsBootstrap
<1>6. QED
  BY <1>1, <1>2, <1>3, <1>4, <1>5 DEF CNext

\* docs/runtime_findings.md:61: behind a preflight that passed stand the scripts
\* of all its probes, and a bootstrap check that had the tunnel and the NAT rule up
\* before it took them down.  (runtime_preflight.py:224-228, 286-295;
\* upf-entrypoint.sh:39-78)
THEOREM PassMeansSetUpHolds == CSpec => []PassMeansSetUp
<1>1. CInit => ProbeInv
  BY DEF CInit, Init, ProbeInv
<1>2. TypeOK /\ ProbeInv /\ [CNext]_allVars => ProbeInv'
  BY ProbeInvStep
<1>3. Spec => [](TypeOK /\ PreflightInv /\ PassedSoFar)
  <2>1. Init => TypeOK /\ PassedSoFar
    BY TypeInit, PassedInit
  <2>2. TypeOK /\ PassedSoFar /\ [Next]_vars => TypeOK' /\ PassedSoFar'
    BY TypeStep, PassedStep
  <2>3. QED
    BY <2>1, <2>2, CleanupIsAccounted, PTL DEF Spec
<1>4. ASSUME TypeOK, PreflightInv, PassedSoFar, ScriptInv, ProbeInv PROVE PassMeansSetUp
  <2>1. SUFFICES ASSUME verdict = "PASS", place = "probe", NEW i \in Probes
                 PROVE  /\ script[i] = "passed"
                        /\ IsBootstrap(i) => marker /\ code = 0 /\ exercised
    BY DEF PassMeansSetUp
  <2>2. pc = "done" /\ {"FAIL", "BLOCKED"} \intersect results = {} /\ ~escaping
    BY <1>4, <2>1 DEF PreflightInv, VerdictOfChecks, FailuresRecorded, CapabilityStatus
  <2>3. script[i] = "passed"
    BY <1>4, <2>2 DEF PassedSoFar, Probes, TypeOK
  <2>4. QED
    BY <1>4, <2>1, <2>3 DEF ProbeInv, ScriptInv, SetUpInv
<1>5. QED
  BY <1>1, <1>2, <1>3, <1>4, PreflightOfComposition, ScriptInvariant, PTL DEF CSpec

\* Type correctness of preflight and bootstrap script together.
THEOREM CompositionTypeCorrect == CSpec => []CTypeOK
<1>1. CInit => ScriptInv /\ PlaceInv
  BY ScriptInit DEF CInit, PlaceInv
<1>2. ScriptInv /\ PlaceInv /\ [CNext]_allVars => ScriptInv' /\ PlaceInv'
  BY PlacesStep
<1>3. TypeOK /\ ScriptInv /\ PlaceInv => CTypeOK
  BY DEF ScriptInv, PlaceInv, CTypeOK
<1>4. Spec => []TypeOK
  BY TypeCorrect
<1>5. CSpec => Spec
  BY PreflightOfComposition
<1>6. QED
  BY <1>1, <1>2, <1>3, <1>4, <1>5, PTL DEF CSpec
=============================================================================
