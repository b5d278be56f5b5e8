---------------------------- MODULE RuntimeGate ----------------------------
(***************************************************************************)
(* run_runtime_scenario of src/fiveg_lab/orchestration.py over a sequence   *)
(* of command-line runs: the context fingerprint, the baseline gate, the    *)
(* baseline run with its stages and its health checks, and the check of the *)
(* running lab before a fault.  The lab lives on between the runs: it       *)
(* connects, registers, crashes and is restarted, and the operator edits    *)
(* the checkout, starts and stops it.                                       *)
(*                                                                         *)
(* What a fault scenario does between injection and recovery is one step    *)
(* here (FaultScenario has its detail), and so is one poll sequence of      *)
(* wait_core_ready (CoreReadiness).                                         *)
(***************************************************************************)
EXTENDS Integers, Sequences, FiniteSets

CONSTANTS
  Configs, Commits,   \* contents of the YAML files; commits of the checkout
  MaxRuns,            \* bound: runtime runs
  MaxEdits,           \* bound: changes of the checkout
  MaxTroubles         \* bound: crashes and lost connections

ASSUME ContextsAssumption == "unknown" \notin Commits /\ "none" \notin Configs
ASSUME BoundsAssumption == {MaxRuns, MaxEdits, MaxTroubles} \subseteq Nat

VARIABLES
  \* the checkout and the lab
  disk,        \* the files and the commit now
  core,        \* the core containers, and the configuration they have loaded
  gnb, ue,     \* the RAN containers
  subscriber,  \* the subscriber is in the database
  log,         \* AMF log: registration outcomes, and whether this run saw them
  edits, troubles,
  \* the command line
  pc, runs,
  scenario,    \* "baseline_e2e" or "fault"
  print,       \* the run's context fingerprint
  step,        \* the health check at hand
  failed,      \* stage_failed
  bad,         \* some assertion of the run has failed
  held,        \* the core's stability window is open and undisturbed
  events,      \* what the collected logs show
  results,     \* the result files
  \* history
  used,        \* the file passed as --baseline-result
  began,       \* the checkout when the run began
  crashed,     \* containers that crashed since the run began or created them
  missed,      \* those of them that had crashed when last inspected
  own,         \* the RAN containers that this run has created
  ngSeen       \* the gNB that this run has created has reported NG Setup

checkout == <<disk, edits>>
lab == <<core, gnb, ue, subscriber, log, troubles, crashed>>
run == <<scenario, print, began, used>>
progress == <<step, failed, bad, events, missed, own, ngSeen>>
vars == <<checkout, lab, pc, runs, run, progress, held, results>>

NoPrint == [config |-> "none", commit |-> "none"]
NoFile == [scenario |-> "none", status |-> "none", ready |-> FALSE, print |-> NoPrint,
           runtime |-> FALSE, context |-> NoPrint]

AbsentCore == [state |-> "absent", restarts |-> 0, config |-> "none"]
NewCore == [state |-> "starting", restarts |-> 0, config |-> disk.config]
NewGnb == [state |-> "running", restarts |-> 0, ngap |-> FALSE]
NewUe == [state |-> "running", restarts |-> 0, registered |-> FALSE, session |-> FALSE]
NoGnb == [NewGnb EXCEPT !.state = "absent"]
NoUe == [NewUe EXCEPT !.state = "absent"]

\* Every core service runs.
CoreUp == core.state \notin {"absent", "stopped"}

\* A line of the log: of the run at hand, of the UE that it has created.
Entry(event) == [event |-> event, now |-> TRUE, own |-> "ue" \in own]
Old(entries) == {[entry EXCEPT !.now = FALSE, !.own = FALSE] : entry \in entries}

-----------------------------------------------------------------------------
(* The lab.  Containers have the restart policy unless-stopped: a crash is  *)
(* a restart, which docker counts and which reads the mounted files again.  *)

InLab(changed) ==
  /\ changed
  /\ UNCHANGED <<checkout, pc, runs, run, progress, results>>

CoreInitialises ==
  InLab(/\ core.state = "starting"
        /\ core' = [core EXCEPT !.state = "ready"]
        /\ UNCHANGED <<gnb, ue, subscriber, log, troubles, crashed, held>>)

GnbConnects ==
  InLab(/\ core.state = "ready" /\ gnb.state = "running" /\ ~gnb.ngap
        /\ gnb' = [gnb EXCEPT !.ngap = TRUE]
        /\ UNCHANGED <<core, ue, subscriber, log, troubles, crashed, held>>)

Reachable == core.state = "ready" /\ gnb.ngap /\ ue.state = "running"

UeRegisters ==
  InLab(/\ Reachable /\ ~ue.registered
        /\ ue' = [ue EXCEPT !.registered = subscriber]
        /\ log' = log \union {Entry(IF subscriber THEN "accept" ELSE "reject")}
        /\ UNCHANGED <<core, gnb, subscriber, troubles, crashed, held>>)

UeOpensSession ==
  InLab(/\ Reachable /\ ue.registered /\ ~ue.session
        /\ ue' = [ue EXCEPT !.session = TRUE]
        /\ UNCHANGED <<core, gnb, subscriber, log, troubles, crashed, held>>)

Trouble(changed) ==
  InLab(/\ troubles < MaxTroubles
        /\ troubles' = troubles + 1
        /\ changed
        /\ UNCHANGED <<subscriber, log>>)

CoreCrashes ==
  Trouble(/\ CoreUp
          /\ core' = [NewCore EXCEPT !.restarts = core.restarts + 1]
          /\ gnb' = [gnb EXCEPT !.ngap = FALSE]
          /\ crashed' = crashed \union {"core"}
          /\ held' = FALSE
          /\ UNCHANGED ue)

GnbCrashes ==
  Trouble(/\ gnb.state = "running"
          /\ gnb' = [NewGnb EXCEPT !.restarts = gnb.restarts + 1]
          /\ crashed' = crashed \union {"gnb"}
          /\ UNCHANGED <<core, ue, held>>)

UeCrashes ==
  Trouble(/\ ue.state = "running"
          /\ ue' = [NewUe EXCEPT !.restarts = ue.restarts + 1]
          /\ crashed' = crashed \union {"ue"}
          /\ UNCHANGED <<core, gnb, held>>)

\* An association of the core, the N2 connection or the registration is lost.
ConnectionLost ==
  Trouble(/\ \/ /\ core.state = "ready"
                /\ core' = [core EXCEPT !.state = "starting"]
                /\ held' = FALSE
                /\ UNCHANGED <<gnb, ue>>
             \/ /\ gnb' = [gnb EXCEPT !.ngap = FALSE]
                /\ UNCHANGED <<core, ue, held>>
             \/ /\ ue' = [ue EXCEPT !.registered = FALSE, !.session = FALSE]
                /\ UNCHANGED <<core, gnb, held>>
          /\ UNCHANGED crashed)

LabStep ==
  \/ CoreInitialises \/ GnbConnects \/ UeRegisters \/ UeOpensSession
  \/ CoreCrashes \/ GnbCrashes \/ UeCrashes \/ ConnectionLost

-----------------------------------------------------------------------------
(* The operator.                                                            *)

\* An edit of a mounted file, or a checkout of another commit, at any time.
\* The running core keeps what it has loaded.
Edit ==
  /\ edits < MaxEdits
  /\ edits' = edits + 1
  /\ disk' \in [config : Configs, commit : Commits] \ {disk}
  /\ UNCHANGED <<lab, pc, runs, run, progress, held, results>>

\* make lab-up, docker compose --profile ran up -d, make lab-down.
ByHand ==
  /\ pc = "idle"
  /\ \/ /\ ~CoreUp
        /\ core' = NewCore
        /\ UNCHANGED <<gnb, ue, log>>
     \/ /\ core # AbsentCore
        /\ \/ gnb.state # "running" /\ gnb' = NewGnb /\ UNCHANGED ue
           \/ ue.state # "running" /\ ue' = NewUe /\ UNCHANGED gnb
        /\ UNCHANGED <<core, log>>
     \/ /\ core # AbsentCore
        /\ core' = AbsentCore /\ gnb' = NoGnb /\ ue' = NoUe
        /\ log' = {}
  /\ UNCHANGED <<checkout, subscriber, troubles, crashed, pc, runs, run, progress,
                 held, results>>

-----------------------------------------------------------------------------
(* The runs.                                                                *)

\* Back to the shell; no local of the run survives.
Leave ==
  /\ pc' = "idle"
  /\ scenario' = "none" /\ print' = NoPrint /\ began' = NoPrint /\ used' = NoFile
  /\ step' = 0 /\ failed' = FALSE /\ bad' = FALSE /\ events' = {}
  /\ held' = FALSE /\ missed' = {} /\ own' = {} /\ ngSeen' = FALSE
  /\ crashed' = {}
  /\ log' = Old(log)

WriteResult(status, ready) ==
  results' = results \union
    {[scenario |-> scenario, status |-> status, ready |-> ready, print |-> print,
      runtime |-> TRUE, context |-> began]}

\* A run on fixture logs of a healthy baseline: no fingerprint.
FixtureRun ==
  /\ pc = "idle"
  /\ results' = results \union
       {[NoFile EXCEPT !.scenario = "baseline_e2e", !.status = "PASS", !.ready = TRUE]}
  /\ UNCHANGED <<checkout, lab, pc, runs, run, progress, held>>

\* Everything logged before the run began is old to it.
StartRun(s) ==
  /\ pc = "idle" /\ runs < MaxRuns
  /\ runs' = runs + 1
  /\ pc' = "context"
  /\ scenario' = s
  /\ used' \in IF s = "fault" THEN results \union {NoFile} ELSE {NoFile}
  /\ log' = Old(log)
  /\ UNCHANGED <<checkout, core, gnb, ue, subscriber, troubles, print, began,
                 progress, held, results>>
  /\ crashed' = {}

\* Mutant: the return code of git is not looked at.
ReadContextUnchecked ==
  /\ pc = "context"
  /\ \E commit \in {disk.commit, ""} :
       print' = [config |-> disk.config, commit |-> commit]
  /\ began' = disk
  /\ pc' = "blocking"
  /\ UNCHANGED <<checkout, lab, runs, scenario, used, progress, held, results>>

\* runtime_context_manifest; a git command that fails reads as "unknown".
ReadContext ==
  /\ pc = "context"
  /\ \E commit \in {disk.commit, "unknown"} :
       print' = [config |-> disk.config, commit |-> commit]
  /\ began' = disk
  /\ pc' = "blocking"
  /\ UNCHANGED <<checkout, lab, runs, scenario, used, progress, held, results>>

\* The host preflight, the configuration validator and the effective Compose
\* configuration.
Blocked ==
  /\ pc = "blocking"
  /\ WriteResult("BLOCKED", FALSE)
  /\ Leave
  /\ UNCHANGED <<checkout, core, gnb, ue, subscriber, troubles, runs>>

Unblocked ==
  /\ pc = "blocking"
  /\ pc' = IF scenario = "baseline_e2e" THEN "prior" ELSE "gate"
  /\ UNCHANGED <<checkout, lab, runs, run, progress, held, results>>

\* Mutant: the fingerprint is not compared.
GateAcceptsAny(file) ==
  /\ file.print # NoPrint
  /\ file.scenario = "baseline_e2e" /\ file.status = "PASS" /\ file.ready

\* validate_baseline_result: a file that is missing, malformed, of a fixture,
\* of another scenario, not passed or of another context is refused.
GateAccepts(file) ==
  /\ file.print # NoPrint
  /\ file.scenario = "baseline_e2e" /\ file.status = "PASS" /\ file.ready
  /\ file.print = print

Gate ==
  /\ pc = "gate"
  /\ IF GateAccepts(used)
     THEN /\ pc' = "check" /\ step' = 1
          /\ UNCHANGED <<lab, run, failed, bad, events, missed, own, ngSeen, held, results>>
     ELSE /\ WriteResult("BLOCKED", FALSE)
          /\ Leave
          /\ UNCHANGED <<core, gnb, ue, subscriber, troubles>>
  /\ UNCHANGED <<checkout, runs>>

-----------------------------------------------------------------------------
(* execute_baseline.  A command that fails or is killed at its timeout may  *)
(* have had its effect all the same.                                        *)

\* Mutant: of the UE, only its container is looked at.
ChecksWithoutUe == <<"services", "n2", "final core", "final n2", "final ran">>

Checks == <<"services", "n2", "registered", "session", "tunnel", "traffic", "final core",
            "final n2", "final registered", "final session", "final ran">>

\* One command of the stages list: the effect, then the next stage, or
\* straight to collecting the logs with stage_failed.
Stage(name, next, effect, otherwise) ==
  /\ pc = name
  /\ \E ok, done \in BOOLEAN :
       /\ ok => done
       /\ IF done THEN effect ELSE otherwise
       /\ failed' = ~ok
       /\ pc' = IF ok THEN next ELSE "collect"
  /\ UNCHANGED <<checkout, troubles, runs, run, step, bad, events, missed, results>>

\* The logs so far, into a directory that no assertion reads.
CollectPrior ==
  Stage("prior", "stop ran", TRUE, TRUE)
  /\ UNCHANGED <<core, gnb, ue, subscriber, log, crashed, held, own, ngSeen>>

Stopped(container) == [container EXCEPT !.state = "stopped"]

StopRan ==
  Stage("stop ran", "start core",
        /\ gnb' = IF gnb = NoGnb THEN gnb ELSE [Stopped(gnb) EXCEPT !.ngap = FALSE]
        /\ ue' = IF ue = NoUe THEN ue
                 ELSE [Stopped(ue) EXCEPT !.registered = FALSE, !.session = FALSE],
        UNCHANGED <<gnb, ue>>)
  /\ UNCHANGED <<core, subscriber, log, crashed, held, own, ngSeen>>

\* start_lab.sh: docker compose up leaves a running container alone whose
\* service definition has not changed, and then waits for the core.
StartCore ==
  Stage("start core", "core ready",
        IF CoreUp THEN UNCHANGED <<core, crashed>>
        ELSE core' = NewCore /\ crashed' = crashed \ {"core"},
        UNCHANGED <<core, crashed>>)
  /\ UNCHANGED <<gnb, ue, subscriber, log, held, own, ngSeen>>

\* wait_core_ready: the first poll of a stability window, and the last.
CoreLooksReady == core.state = "ready" /\ core.restarts = 0

WindowOpens ==
  /\ pc = "core ready" \/ (pc = "check" /\ step \in DOMAIN Checks /\ Checks[step] = "final core")
  /\ CoreLooksReady /\ ~held
  /\ held' = TRUE
  /\ UNCHANGED <<checkout, lab, pc, runs, run, progress, results>>

CoreReady ==
  /\ pc = "core ready"
  /\ held' = FALSE
  /\ \E ok \in {FALSE, held} :
       /\ failed' = ~ok
       /\ pc' = IF ok THEN "subscriber" ELSE "collect"
  /\ UNCHANGED <<checkout, lab, runs, run, step, bad, events, missed, own, ngSeen,
                 results>>

AddSubscriber ==
  Stage("subscriber", "gnb up", subscriber' = TRUE, UNCHANGED subscriber)
  /\ UNCHANGED <<core, gnb, ue, log, crashed, held, own, ngSeen>>

\* Mutant: without --force-recreate, a gNB that is there is started again.
GnbUpKeeping ==
  Stage("gnb up", "ng setup",
        /\ gnb' = NewGnb /\ crashed' = crashed \ {"gnb"}
        /\ own' = IF gnb = NoGnb THEN own \union {"gnb"} ELSE own,
        UNCHANGED <<gnb, crashed, own>>)
  /\ UNCHANGED <<core, ue, subscriber, log, held, ngSeen>>

GnbUp ==
  Stage("gnb up", "ng setup",
        gnb' = NewGnb /\ crashed' = crashed \ {"gnb"} /\ own' = own \union {"gnb"},
        UNCHANGED <<gnb, crashed, own>>)
  /\ UNCHANGED <<core, ue, subscriber, log, held, ngSeen>>

\* wait_for_ng_setup: polls until the gNB reports NG Setup or the deadline
\* passes; a poll may fail although NG Setup is there.
NgSetup ==
  /\ pc = "ng setup"
  /\ \/ /\ gnb.state = "running" /\ gnb.ngap
        /\ ngSeen' = ("gnb" \in own)
        /\ pc' = "ue up"
        /\ UNCHANGED bad
     \/ pc' = "collect" /\ bad' = TRUE /\ UNCHANGED ngSeen
  /\ UNCHANGED <<checkout, lab, runs, run, step, failed, events, missed, own, held,
                 results>>

UeUp ==
  /\ pc = "ue up"
  /\ \E ok, done \in BOOLEAN :
       /\ ok => done
       /\ ue' = IF done THEN NewUe ELSE ue
       /\ crashed' = IF done THEN crashed \ {"ue"} ELSE crashed
       /\ own' = IF done THEN own \union {"ue"} ELSE own
       /\ failed' = ~ok
       /\ pc' = IF ok THEN "check" ELSE "collect"
       /\ step' = IF ok THEN 1 ELSE 0
  /\ UNCHANGED <<checkout, core, gnb, subscriber, log, troubles, runs, run, bad, events,
                 missed, ngSeen, held, results>>

-----------------------------------------------------------------------------
(* validate_current_baseline and validate_final_health.                     *)

Running(container) == container.state = "running"

\* Mutant: the restart counts of the RAN containers are not looked at.
HoldsRunning(check) ==
  CASE check = "services" -> CoreUp /\ Running(gnb) /\ Running(ue)
    [] check \in {"n2", "final n2"} -> Running(gnb) /\ gnb.ngap
    [] check \in {"registered", "final registered"} -> Running(ue) /\ ue.registered
    [] check \in {"session", "final session", "tunnel"} -> Running(ue) /\ ue.session
    [] check = "traffic" -> Running(ue) /\ ue.session /\ Running(gnb) /\ core.state # "absent"
    [] check = "final core" -> held
    [] check = "final ran" -> Running(gnb) /\ Running(ue)

Holds(check) ==
  CASE check = "services" -> CoreUp /\ Running(gnb) /\ Running(ue)
    [] check \in {"n2", "final n2"} -> Running(gnb) /\ gnb.ngap
    [] check \in {"registered", "final registered"} -> Running(ue) /\ ue.registered
    [] check \in {"session", "final session", "tunnel"} -> Running(ue) /\ ue.session
    [] check = "traffic" -> Running(ue) /\ ue.session /\ Running(gnb) /\ core.state # "absent"
    [] check = "final core" -> held
    [] check = "final ran" -> \A c \in {gnb, ue} : Running(c) /\ c.restarts = 0

Inspected(check) ==
  CASE check = "final core" -> {"core"} [] check = "final ran" -> {"gnb", "ue"}
    [] OTHER -> {}

\* Each check is made, whatever the ones before it found.
Check ==
  /\ pc = "check" /\ step \in DOMAIN Checks
  /\ \E ok \in {FALSE, Holds(Checks[step])} : bad' = (bad \/ ~ok)
  /\ missed' = missed \union (crashed \intersect Inspected(Checks[step]))
  /\ held' = FALSE
  /\ step' = step + 1
  /\ UNCHANGED <<checkout, lab, pc, runs, run, failed, events, own, ngSeen, results>>

Checked ==
  /\ pc = "check" /\ step > Len(Checks)
  /\ IF scenario = "baseline_e2e" \/ ~bad
     THEN /\ pc' = IF scenario = "baseline_e2e" THEN "collect" ELSE "fault"
          /\ step' = 0
          /\ UNCHANGED <<lab, run, failed, bad, events, missed, own, ngSeen, held, results>>
     ELSE /\ WriteResult("BLOCKED", FALSE)
          /\ Leave
          /\ UNCHANGED <<core, gnb, ue, subscriber, troubles>>
  /\ UNCHANGED <<checkout, runs>>

\* docker compose logs --since started_at.
SinceStart(entries) == {entry \in entries : entry.now}

\* collect_logs.sh: a service whose docker compose ps fails counts as not
\* created and is skipped without an error.
Collect ==
  /\ pc = "collect"
  /\ events' \in {{}, SinceStart(log)}
  /\ \E ok \in BOOLEAN : failed' = (failed \/ ~ok)
  /\ pc' = "report"
  /\ UNCHANGED <<checkout, lab, runs, run, step, bad, missed, own, ngSeen, held, results>>

Saw(event) == \E entry \in events : entry.event = event

Status ==
  IF failed THEN "ERROR"
  ELSE IF bad \/ ~Saw("accept") \/ Saw("reject") THEN "FAIL" ELSE "PASS"

Report ==
  /\ pc = "report"
  /\ WriteResult(Status, Status = "PASS")
  /\ Leave
  /\ UNCHANGED <<checkout, core, gnb, ue, subscriber, troubles, runs>>

-----------------------------------------------------------------------------
(* execute_fault_scenario as one step.                                      *)

\* A service is stopped and started again or restarted, N2 traffic is lost, or
\* only user traffic is.  An operator's restart resets the count of docker.
Disturbed ==
  \/ /\ core' = NewCore
     /\ gnb' \in {gnb, [gnb EXCEPT !.ngap = FALSE]}
     /\ UNCHANGED ue
  \/ gnb' \in {gnb, NewGnb, [gnb EXCEPT !.ngap = FALSE]} /\ UNCHANGED <<core, ue>>
  \/ ue' = NewUe /\ UNCHANGED <<core, gnb>>

\* A service is stopped, and starting it again fails or is never tried.
LeftStopped ==
  \/ /\ core' = Stopped(core)
     /\ gnb' \in {gnb, [gnb EXCEPT !.ngap = FALSE]}
     /\ UNCHANGED ue
  \/ gnb' = [Stopped(gnb) EXCEPT !.ngap = FALSE] /\ UNCHANGED <<core, ue>>
  \/ /\ ue' = [Stopped(ue) EXCEPT !.registered = FALSE, !.session = FALSE]
     /\ UNCHANGED <<core, gnb>>

\* A configuration fault is blocked; a service left stopped is no PASS; and a
\* run that is killed, or interrupted outside its try, writes nothing.
Fault ==
  /\ pc = "fault"
  /\ \/ WriteResult("BLOCKED", FALSE) /\ UNCHANGED <<core, gnb, ue>>
     \/ Disturbed /\ \E status \in {"PASS", "FAIL", "ERROR"} : WriteResult(status, TRUE)
     \/ LeftStopped /\ \E status \in {"FAIL", "ERROR"} : WriteResult(status, TRUE)
     \/ (Disturbed \/ LeftStopped) /\ UNCHANGED results
  /\ Leave
  /\ UNCHANGED <<checkout, subscriber, troubles, runs>>

\* Control-C, SIGTERM or SIGKILL before the fault: no result file.
Interrupted ==
  /\ pc \notin {"idle", "fault"}
  /\ Leave
  /\ UNCHANGED <<checkout, core, gnb, ue, subscriber, troubles, runs, results>>

-----------------------------------------------------------------------------

Init ==
  /\ disk \in [config : Configs, commit : Commits]
  /\ core = AbsentCore /\ gnb = NoGnb /\ ue = NoUe
  /\ subscriber \in BOOLEAN
  /\ log = {}
  /\ edits = 0 /\ troubles = 0
  /\ pc = "idle" /\ runs = 0
  /\ scenario = "none" /\ print = NoPrint /\ began = NoPrint /\ used = NoFile
  /\ step = 0 /\ failed = FALSE /\ bad = FALSE /\ events = {}
  /\ held = FALSE /\ missed = {} /\ own = {} /\ ngSeen = FALSE /\ crashed = {}
  /\ results = {}

BaselineStep ==
  \/ CollectPrior \/ StopRan \/ StartCore \/ CoreReady \/ AddSubscriber
  \/ GnbUp \/ NgSetup \/ UeUp \/ Collect \/ Report

RunStep ==
  \/ \E s \in {"baseline_e2e", "fault"} : StartRun(s)
  \/ ReadContext \/ Blocked \/ Unblocked \/ Gate
  \/ BaselineStep \/ WindowOpens \/ Check \/ Checked \/ Fault

Next == LabStep \/ Edit \/ ByHand \/ FixtureRun \/ RunStep \/ Interrupted

Spec == Init /\ [][Next]_vars

-----------------------------------------------------------------------------
(* Properties                                                               *)

Points == {"idle", "context", "blocking", "gate", "prior", "stop ran", "start core",
           "core ready", "subscriber", "gnb up", "ng setup", "ue up", "check", "fault",
           "collect", "report"}
Prints == [config : Configs, commit : Commits \union {"unknown"}]
Statuses == {"PASS", "FAIL", "BLOCKED", "ERROR"}

\* Type correctness; every recorded fingerprint of a runtime run is complete.
\* (orchestration.py: run_runtime_scenario, execute_baseline)
TypeOK ==
  /\ disk \in [config : Configs, commit : Commits]
  /\ pc \in Points /\ runs \in 0..MaxRuns
  /\ step \in 0..Len(Checks) + 1 /\ (step > 0 => pc = "check")
  /\ {failed, bad, held, ngSeen, subscriber} \subseteq BOOLEAN
  /\ pc \in {"idle", "context"} \/ (print \in Prints /\ began \in [config : Configs, commit : Commits])
  /\ \A r \in results : r.status \in Statuses /\ (r.runtime => r.print \in Prints)
  /\ crashed \union missed \subseteq {"core", "gnb", "ue"} /\ own \subseteq {"gnb", "ue"}
  /\ \A entry \in log \union events : entry.event \in {"accept", "reject"}

\* A fault is injected only when a runtime baseline, never a fixture run or
\* another fault run, has passed on the configuration of this run, and on its
\* commit unless git could not be read.  (orchestration.py:111-122, 885-925)
FaultOnTestedContext ==
  pc = "fault" =>
    /\ used.runtime /\ used.scenario = "baseline_e2e" /\ used.status = "PASS"
    /\ used.context.config = began.config
    /\ print.commit # "unknown" => used.context.commit = began.commit

\* A baseline that passes, and a lab in which a fault is injected, had no crash
\* of a container since the run began or created it that its last inspection
\* missed, however quickly docker restarted it.  (orchestration.py:663-720)
NoCrashMissed ==
  (pc = "report" /\ Status = "PASS") \/ pc = "fault" => missed = {}

\* A run starts its UE only when a gNB that it has itself created, not one that
\* an earlier run or the operator has left, has reported NG Setup.
\* (orchestration.py:236-276, 325-345)
UeAfterNgSetup ==
  [][pc = "ue up" /\ ue' # ue /\ pc' \in {"check", "collect"} => ngSeen]_vars

\* The registration that a passing baseline counts is one of its own: it has
\* created both RAN containers, the UE after NG Setup, and the core has accepted
\* this UE, though the UE of an earlier attempt may still register, and be
\* logged, after the run began.  (orchestration.py:212-276, 285-293)
PassOnOwnRan ==
  pc = "report" /\ Status = "PASS" =>
    /\ own = {"gnb", "ue"} /\ ngSeen
    /\ \E entry \in log : entry.event = "accept" /\ entry.own

\* docs/runtime_validation.md:101: "Re-run `baseline_e2e` after any relevant
\* change instead of reusing a stale result."  A baseline that passes while
\* the files are left alone has run the core on the configuration that its
\* fingerprint names.  (orchestration.py:220-227, start_lab.sh:31)
PassRanItsConfig ==
  pc = "report" /\ Status = "PASS" /\ disk = began => core.config = print.config

=============================================================================
