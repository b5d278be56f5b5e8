-------------------------- MODULE RuntimePreflight --------------------------
(***************************************************************************)
(* run_runtime_preflight of src/fiveg_lab/runtime_preflight.py: disposable  *)
(* probe containers that write to the lab's log volume, one after the       *)
(* other, each cleaned up in the finally clause of run_probe.               *)
(*                                                                         *)
(* The client of a probe can fail, time out or be interrupted while the     *)
(* container and the script in it go on; a killed client may even leave a   *)
(* request behind that creates the container later.                        *)
(***************************************************************************)
EXTENDS Naturals, Sequences, FiniteSets

CONSTANTS
  Plan,         \* the roles of the probes, in order (init, logs, bootstrap, mongo)
  MaxLate       \* bound: creation requests left behind

Roles == {"init", "logs", "bootstrap", "mongo"}

ASSUME PlanAssumption == Plan \in Seq(Roles) /\ Plan # <<>>
ASSUME LateAssumption == MaxLate \in Nat

Probes == 1 .. Len(Plan)
Containers == Probes \X {"probe", "helper"}

VARIABLES
  \* docker and the log volume
  present,      \* containers that exist
  script,       \* script[i]: how far the script in the container of probe i is
  files,        \* probe files on the log volume
  late,         \* containers whose creation was requested by a killed client
  volume,       \* the log volume has been created
  \* run_runtime_preflight and run_probe
  pc, probe,
  results,      \* the statuses of the checks so far
  escaping,     \* an exception is propagating through the finally clause
  verdict,      \* capability_status of the returned checks
  \* history
  cleanupFailed, \* a cleanup check has failed
  lingering      \* a creation request was ever left behind

docker == <<present, script, files, late, volume>>
vars == <<docker, pc, probe, results, escaping, verdict, cleanupFailed, lingering>>

Self == <<probe, "probe">>
Helper == <<probe, "helper">>
Role == Plan[probe]
Stages == {"tools", "resolve", "images", "volume", "probe", "except", "finally",
           "finally2", "rm", "ps", "clean", "rmHelper", "psHelper", "restore",
           "done", "escaped", "crashed"}
Ended == {"done", "escaped", "crashed"}

-----------------------------------------------------------------------------
(* The containers.                                                          *)

\* The daemon creates the container of the running client.
Created ==
  /\ pc = "probe" /\ script[probe] = "none"
  /\ present' = present \union {Self}
  /\ script' = [script EXCEPT ![probe] = "started"]
  /\ UNCHANGED <<files, late, volume, pc, probe, results, escaping, verdict,
                 cleanupFailed, lingering>>

\* A script runs in a container that exists.  Only the log probe writes a file;
\* a script that fails removes it by its trap unless it is killed.
ScriptRuns(i) ==
  /\ <<i, "probe">> \in present
  /\ \/ /\ script[i] = "started" /\ Plan[i] = "logs"
        /\ script' = [script EXCEPT ![i] = "wrote"]
        /\ files' = files \union {i}
     \/ /\ script[i] = IF Plan[i] = "logs" THEN "wrote" ELSE "started"
        /\ script' = [script EXCEPT ![i] = "passed"]
        /\ files' = files \ {i}
     \/ /\ script[i] \in {"started", "wrote"}
        /\ script' = [script EXCEPT ![i] = "failed"]
        /\ files' \in {files, files \ {i}}
  /\ UNCHANGED <<present, late, volume, pc, probe, results, escaping, verdict,
                 cleanupFailed, lingering>>

\* --rm takes a container away whose script has ended.
AutoRemoved(i) ==
  /\ <<i, "probe">> \in present /\ script[i] \in {"passed", "failed"}
  /\ present' = present \ {<<i, "probe">>}
  /\ UNCHANGED <<script, files, late, volume, pc, probe, results, escaping,
                 verdict, cleanupFailed, lingering>>

\* A request left behind by a killed client is carried out, or dropped.
LateCreation(c) ==
  /\ late' = late \ {c}
  /\ \/ UNCHANGED <<present, script, files>>
     \/ /\ c[2] = "probe" /\ script[c[1]] = "none"
        /\ present' = present \union {c}
        /\ script' = [script EXCEPT ![c[1]] = "started"]
        /\ UNCHANGED files
     \/ /\ c[2] = "helper"
        /\ present' \in {present, present \union {c}}
        /\ files' = files \ {c[1]}
        /\ UNCHANGED script
  /\ UNCHANGED <<volume, pc, probe, results, escaping, verdict, cleanupFailed, lingering>>

DockerStep ==
  \/ Created
  \/ \E i \in Probes : ScriptRuns(i) \/ AutoRemoved(i)
  \/ \E c \in late : LateCreation(c)

\* The client of container c is killed before docker has created it.
LeftBehind(c) ==
  /\ Cardinality(late) < MaxLate
  /\ late' = late \union {c}
  /\ lingering' = TRUE

-----------------------------------------------------------------------------
(* Before the probes.                                                       *)

CapabilityStatus(checks) ==
  IF "FAIL" \in checks THEN "FAIL"
  ELSE IF "BLOCKED" \in checks THEN "BLOCKED" ELSE "PASS"

\* The checks are returned and the CLI computes their status.
Returned(checks) ==
  /\ pc' = "done"
  /\ verdict' = CapabilityStatus(checks)

\* The next check has been made; only an unblemished list goes on.
Checked(status, next) ==
  /\ results' = results \union {status}
  /\ \/ CapabilityStatus(results') = "PASS" /\ pc' = next /\ UNCHANGED verdict
     \/ CapabilityStatus(results') # "PASS" /\ Returned(results')

\* Not Linux, no daemon or no compose: blocked.
Tools ==
  /\ pc = "tools"
  /\ \E status \in {"PASS", "BLOCKED"} : Checked(status, "resolve")
  /\ UNCHANGED <<docker, probe, escaping, cleanupFailed, lingering>>

\* An unresolvable or invalid Compose contract fails.
Resolve ==
  /\ pc = "resolve"
  /\ \E status \in {"PASS", "FAIL"} : Checked(status, "images")
  /\ UNCHANGED <<docker, probe, escaping, cleanupFailed, lingering>>

\* A missing native image blocks.
Images ==
  /\ pc = "images"
  /\ \E status \in {"PASS", "BLOCKED"} : Checked(status, "volume")
  /\ UNCHANGED <<docker, probe, escaping, cleanupFailed, lingering>>

PrepareVolume ==
  /\ pc = "volume"
  /\ \E status \in {"PASS", "FAIL"} :
       /\ volume' \in {volume, TRUE}
       /\ status = "PASS" => volume'
       /\ Checked(status, "probe")
  /\ UNCHANGED <<present, script, files, late, probe, escaping, cleanupFailed, lingering>>

-----------------------------------------------------------------------------
(* run_probe                                                                *)

\* The client ends: the marker was printed and the status is zero, or the
\* probe has failed or timed out.
ClientEnds ==
  /\ pc = "probe"
  /\ pc' = "finally"
  /\ \/ /\ script[probe] = "passed"
        /\ results' = results \union {"PASS"}
        /\ UNCHANGED <<late, lingering>>
     \/ /\ results' = results \union {"FAIL"}
        /\ \/ script[probe] = "none" /\ LeftBehind(Self)
           \/ UNCHANGED <<late, lingering>>
  /\ UNCHANGED <<present, script, files, volume, probe, escaping, verdict, cleanupFailed>>

\* SIGINT or SIGTERM: execute kills the client, the except clause records it.
ClientInterrupted ==
  /\ pc = "probe"
  /\ pc' = "except"
  /\ \/ script[probe] = "none" /\ LeftBehind(Self)
     \/ UNCHANGED <<late, lingering>>
  /\ UNCHANGED <<present, script, files, volume, probe, results, escaping, verdict, cleanupFailed>>

\* A second signal inside the except clause propagates through the finally.
Except ==
  /\ pc = "except"
  /\ pc' = "finally"
  /\ \/ results' = results \union {"FAIL"} /\ UNCHANGED escaping
     \/ escaping' = TRUE /\ UNCHANGED results
  /\ UNCHANGED <<docker, probe, verdict, cleanupFailed, lingering>>

\* The two statements that ignore signals stand before the inner try.
IgnoreSignals ==
  /\ \/ pc = "finally" /\ pc' \in {"finally2", "escaped"}
     \/ pc = "finally2" /\ pc' \in {"rm", "escaped"}
  /\ UNCHANGED <<docker, probe, results, escaping, verdict, cleanupFailed, lingering>>

\* docker rm --force kills the script where it is, or fails.
RemoveContainer ==
  /\ \/ pc = "rm" /\ pc' = "ps" /\ present' \in {present, present \ {Self}}
     \/ pc = "rmHelper" /\ pc' = "psHelper" /\ present' \in {present, present \ {Helper}}
  /\ UNCHANGED <<script, files, late, volume, probe, results, escaping, verdict,
                 cleanupFailed, lingering>>

\* The cleanup check of one container or of the probe file.
CleanupCheck(ok) ==
  /\ results' = results \union {IF ok THEN "PASS" ELSE "FAIL"}
  /\ cleanupFailed' = (cleanupFailed \/ ~ok)

\* Mutant: the status of docker rm instead of the list of containers.
CheckAbsentTrusting ==
  /\ \/ pc = "ps" /\ pc' = IF Role = "logs" THEN "clean" ELSE "restore"
     \/ pc = "psHelper" /\ pc' = "restore"
  /\ \E ok \in BOOLEAN : CleanupCheck(ok)
  /\ UNCHANGED <<docker, probe, escaping, verdict, lingering>>

\* cleanup_probe: docker ps must succeed and list nothing.
CheckAbsent ==
  /\ \/ /\ pc = "ps" /\ pc' = IF Role = "logs" THEN "clean" ELSE "restore"
        /\ \E ok \in {Self \notin present, FALSE} : CleanupCheck(ok)
     \/ /\ pc = "psHelper" /\ pc' = "restore"
        /\ \E ok \in {Helper \notin present, FALSE} : CleanupCheck(ok)
  /\ UNCHANGED <<docker, probe, escaping, verdict, lingering>>

\* Mutant: the helper's status is not looked at.
CleanFileBlind ==
  /\ pc = "clean" /\ pc' = "rmHelper"
  /\ \E removed, stays \in BOOLEAN :
       /\ files' = IF removed THEN files \ {probe} ELSE files
       /\ present' = IF stays THEN present \union {Helper} ELSE present
       /\ CleanupCheck(TRUE)
  /\ UNCHANGED <<script, late, lingering, volume, probe, escaping, verdict>>

\* cleanup_log_file: a second container removes the file and tests that it is
\* gone; whatever happens to its client, it may stay.
CleanFile ==
  /\ pc = "clean" /\ pc' = "rmHelper"
  /\ \E removed, reported, stays \in BOOLEAN :
       /\ reported => removed
       /\ files' = IF removed THEN files \ {probe} ELSE files
       /\ present' = IF stays THEN present \union {Helper} ELSE present
       /\ CleanupCheck(reported)
       /\ \/ ~reported /\ ~removed /\ LeftBehind(Helper)
          \/ UNCHANGED <<late, lingering>>
  /\ UNCHANGED <<script, volume, probe, escaping, verdict>>

\* Mutant: one probe too many.
RestorePastEnd ==
  /\ pc = "restore"
  /\ \/ escaping /\ pc' = "escaped" /\ UNCHANGED <<probe, verdict>>
     \/ /\ ~escaping /\ CapabilityStatus(results) = "PASS"
        /\ pc' = "probe" /\ probe' = probe + 1
        /\ UNCHANGED verdict
     \/ /\ ~escaping /\ CapabilityStatus(results) # "PASS"
        /\ Returned(results)
        /\ UNCHANGED probe
  /\ UNCHANGED <<docker, results, escaping, cleanupFailed, lingering>>

\* The handlers are restored; the next probe runs only if all checks passed.
Restore ==
  /\ pc = "restore"
  /\ \/ escaping /\ pc' = "escaped" /\ UNCHANGED <<probe, verdict>>
     \/ /\ ~escaping /\ CapabilityStatus(results) = "PASS" /\ probe < Len(Plan)
        /\ pc' = "probe" /\ probe' = probe + 1
        /\ UNCHANGED verdict
     \/ /\ ~escaping /\ (CapabilityStatus(results) # "PASS" \/ probe = Len(Plan))
        /\ Returned(results)
        /\ UNCHANGED probe
  /\ UNCHANGED <<docker, results, escaping, cleanupFailed, lingering>>

\* A signal while no probe runs ends the process.
InterruptOutside ==
  /\ pc \in {"tools", "resolve", "images", "volume"}
  /\ pc' = "escaped"
  /\ UNCHANGED <<docker, probe, results, escaping, verdict, cleanupFailed, lingering>>

\* The process is killed.
Crash ==
  /\ pc \notin Ended
  /\ pc' = "crashed"
  /\ \/ UNCHANGED <<late, lingering>>
     \/ pc = "probe" /\ script[probe] = "none" /\ LeftBehind(Self)
  /\ UNCHANGED <<present, script, files, volume, probe, results, escaping, verdict, cleanupFailed>>

-----------------------------------------------------------------------------

Init ==
  /\ present = {} /\ files = {} /\ late = {}
  /\ script = [i \in Probes |-> "none"]
  /\ volume \in BOOLEAN
  /\ pc = "tools" /\ probe = 1
  /\ results = {}
  /\ escaping = FALSE
  /\ verdict = "none"
  /\ cleanupFailed = FALSE /\ lingering = FALSE

Preflight ==
  \/ Tools \/ Resolve \/ Images \/ PrepareVolume
  \/ ClientEnds \/ ClientInterrupted \/ Except \/ IgnoreSignals
  \/ RemoveContainer \/ CheckAbsent \/ CleanFile \/ Restore

Next == Preflight \/ DockerStep \/ InterruptOutside \/ Crash

Spec == Init /\ [][Next]_vars

-----------------------------------------------------------------------------
(* Properties                                                               *)

\* Type correctness of run_runtime_preflight and run_probe.
TypeOK ==
  /\ present \subseteq Containers /\ late \subseteq Containers
  /\ script \in [Probes -> {"none", "started", "wrote", "passed", "failed"}]
  /\ files \subseteq Probes
  /\ volume \in BOOLEAN
  /\ pc \in Stages /\ probe \in Probes
  /\ results \subseteq {"PASS", "FAIL", "BLOCKED"}
  /\ escaping \in BOOLEAN
  /\ verdict \in {"none", "PASS", "FAIL", "BLOCKED"}
  /\ cleanupFailed \in BOOLEAN /\ lingering \in BOOLEAN

\* docs/runtime_findings.md:63: cleanup errors cannot yield PASS.  A preflight
\* that passed has left neither a container nor a file, and none will come.
\* (runtime_preflight.py: run_probe, cleanup_probe, cleanup_log_file)
PassLeavesNothing ==
  verdict = "PASS" => present = {} /\ files = {} /\ late = {}

\* A container or file that an orderly preflight leaves behind is reported as a
\* failed cleanup, unless the request of a killed client is involved.
\* (runtime_preflight.py:310-313, 345-360)
ResidueReported ==
  pc = "done" /\ ~lingering /\ (present # {} \/ files # {}) => cleanupFailed

\* docs/runtime_validation.md:37: only missing prerequisites and images produce
\* BLOCKED: a blocked preflight has not started any container.
BlockedBeforeProbes ==
  verdict = "BLOCKED" => probe = 1 /\ \A i \in Probes : script[i] = "none"

\* A probe starts only on a clean slate: nothing of the probes before it is in
\* docker or on the log volume any more.  (runtime_preflight.py:224-228)
ProbesOneByOne ==
  \A i \in Probes : i < probe =>
    /\ <<i, "probe">> \notin present /\ <<i, "helper">> \notin present /\ i \notin files
=============================================================================
