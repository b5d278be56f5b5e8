# Formal models of the 5G SA lab harness

The repository runs a one-UE 5G standalone lab (Open5GS, UERANSIM, docker
compose) and a Python harness, `fiveg_lab`, that decides whether the lab is
healthy, injects a fault, takes it out again, and reports a verdict. The lab
components are third-party programs; what this project models is the harness and
its scripts, against a lab that may do anything docker and the network functions
can do to it.

The harness is one sequential process per command. What makes it hard:

- every command it runs can fail, time out, be interrupted, or be killed and
  still take effect later in the docker daemon;
- containers restart by themselves (`restart: unless-stopped`) between any two
  commands, and lose what was installed in them;
- signals arrive between any two statements, and the process can be killed with
  the fault in place;
- the verdict is put together from observations made at different moments, from
  logs that outlive runs and containers;
- several runs follow each other, or overlap, on the same lab;
- the configuration repeats each value in several files, and a running container
  keeps the value it has read.

## Components

| Component | State | Operations | Correct when | Module |
| --- | --- | --- | --- | --- |
| Fault injector, `fault_injection.py` | flags `applied`, `cleanup_required`, `_created_clsact`, `_filter_cleanup_required`; tc state and service state of the lab | `apply`, `verify_applied`, `remove`, `verify_removed` | whatever it put in stays armed for clean-up; the operator's tc state is not touched | `FaultInjector` |
| Fault scenario, `orchestration.py: execute_fault_scenario` | stage, the errors so far, the evidence, signal handlers | one run from pre-fault check to report | PASS means that the fault was in force, is gone, and the lab has recovered; failed clean-up is reported | `FaultScenario`, `FaultLifecycle` |
| Core readiness, `readiness.py` | `stable_since`, identities, logs of the poll | `wait_core_ready` | a ready core ran undisturbed for the window; the wait is bounded | `CoreReadiness` |
| Runtime preflight, `runtime_preflight.py` | checks so far; probe containers; files on the log volume | `run_runtime_preflight`, `run_probe`, clean-up | PASS leaves nothing behind; residue is reported | `RuntimePreflight` |
| UPF bootstrap, `upf-entrypoint.sh` | `created_tun`, `created_nat`, the traps; interface and NAT rule | set up, check only, clean up | it removes what it created and nothing else; its marker is true | `UpfBootstrap` |
| Gate and baseline, `orchestration.py: run_runtime_scenario`, `execute_baseline`, `validate_*` | fingerprint, `stage_failed`, assertions, result files; checkout, core, RAN and logs | baseline run, fault run, fixture run | a baseline passes on what its own containers did; a fault is let in only on a lab that a baseline of the same context has shown healthy and that is healthy now | `RuntimeGate` |
| Logs to verdict, `collect_logs.sh`, `traffic_test.sh`, `parser.py`, `assertions.py` | collected files, events | collect, classify, compare, measure durations | a PASS rests on what this run logged, and nothing forbidden was overlooked | `LogEvidence` |
| Configuration validator, `config.py` | none | `validate_repo` | every disagreement between places that it compares is refused, so that what it accepts fails to attach only for a place it does not read or a key taken out; renaming a value everywhere is accepted | `ConfigContract` |
| Command runner, `run_command`, `execute` | process group, SIGTERM handler | run one command | timeouts and interrupts leave no client behind | as outcomes of commands in all modules |
| Other lab scripts, `scripts/*.sh` | – | start, stop, add subscriber, prepare the volume | | as stages in `RuntimeGate`, `FaultScenario`, `CoreReadiness` |
| Scenario files, host preflight, evidence writer | none | pure functions of files and host | | their verdicts only |

Components interact by function calls inside one process, by commands to docker,
and by files: the baseline result is read by the next run, the YAML files are read
by the containers when they start, the logs are read by the assertions.

## Modules

Each module states what it models at its head; each action names the code in
`PROJECT.json`, "map". Definitions commented as mutants are broken variants of the
definition that follows them; substituted for it, they show that a property can
fail.

- **FaultInjector** – one action per command the injector issues (`ShowFilter`,
  `AddClsact`, `DelFilter`, ...). `op[r]` is the command in progress of run `r`,
  `ret[r]` what the last method returned or raised. The tc state is the pair of sets
  `qdiscs` and `filters`, whose elements carry the owner, a run or the operator.
  A command ends in success, in failure with or without its effect, or leaves an
  *orphan*: a request whose client is gone and which takes effect later
  (`OrphanEnds`). A run that left an orphan is `dangled`. `InjSpec` drives the
  injector with a client that calls any method at any time.
- **FaultScenario** – EXTENDS FaultInjector. `pc[r]` walks through the statements
  of `execute_fault_scenario`: the stages `finally` and `finally2` are the two
  statements that ignore SIGINT and SIGTERM, where signals still get through.
  `escaping[r]` is an exception on its way through the finally clause, the
  `ValueError` of a target that the injector rejects among them. Health and
  traffic are functions of the services that run and the filters in place.
- **FaultLifecycle** – the abstract specification: a run is idle, active, or has been
  blocked, passed, failed or lost; it installs and withdraws things, admits a failed
  rollback, or loses track of a command. A run may pass only with an empty
  footprint and nothing admitted; it may fail with something in the lab only when it
  admits that or a command is astray.
- **FaultScenarioRefinement** – EXTENDS FaultScenario with the mapping: the phase
  is read off `pc` and `status`, the footprint is the run's own tc objects, a failed
  rollback is admitted by `rollback_error`, and a command is astray once its run is
  `dangled`.
- **CoreReadiness** – the reader's poll (`List`, `Inspect`, `Logs`, `Evaluate`,
  `Sleep`) in parallel with containers that start, log, and restart. Time is a
  clock in ticks that passes only in commands and sleeps; each command has the
  budget `min(10 s, ceil(remaining))`.
- **RuntimePreflight** – a plan of probes of four kinds; the client, the container,
  and the script in it progress independently, and a killed client can leave a
  request that creates the container late. The stages `rm`, `ps`, `clean`,
  `rmHelper`, `psHelper` are the commands of the clean-up.
- **UpfBootstrap** – the entrypoint script command by command. `at` is the next
  command; every command may fail, a lookup may also fail for reasons of its own and
  is then taken for absence, and a signal's trap runs when the command in progress
  has ended. `exitTrap` is the EXIT trap: armed, running or reset.
- **PreflightBootstrap** – composes the two: the bootstrap probe of the preflight is
  the script with `--check`, in a namespace that starts empty; after the preflight
  the script runs as the entrypoint of the UPF container, and then by hand in it,
  where it finds an interface that is not its own.
- **RuntimeGate** – several command-line runs one after the other on a lab that
  lives on. The fingerprint is the pair of configuration and commit, "unknown"
  when git fails. The core remembers the configuration it loaded when it started.
  A baseline is its eight stages, eleven checks and the report. Log entries are
  registration outcomes in the AMF log, which outlives runs, marked as belonging
  to the current run or not, and to the UE that this run has created or to one that
  was there before; `own` are the RAN containers that it has created. A fault scenario is one step: it leaves a service
  started anew, N2 lost or the lab as it was (`Disturbed`), or a service stopped
  (`LeftStopped`), with or without a result file, and the next run meets what is
  left. A stability window (`WindowOpens` to `CoreReady` or the check "final core")
  stands for the polls of CoreReadiness.
- **LogEvidence** – services that log to standard output and to their file on the
  volume, and lose their containers, while `collect_logs.sh` copies one service
  after the other. A line is what it reports (a request, an acceptance, a failure, an
  acceptance quoted in a failure, nothing), `Classify` applies the positive and
  negative patterns, `Summarize` sorts as the parser does, by the text of the
  timestamp, and takes the duration from the first events. The parser's command line
  on files of any origin is a mode of its own.
- **ConfigContract** – the configuration is a function from places (which value, in
  which file) to "old", "new", malformed or missing; `Validate` is `validate_repo`. The
  places of a value are those it compares (`Checked`) and those that only a component
  reads (`Unread`), such as the UE's session slice, its gNB search list, the AMF's TAI
  or the defaults with which `add_subscriber.sh` fills the database. What the
  components do with the values when the UE attaches (`NgSetup`, `Registers`,
  `OpensSession`, `CarriesTraffic`) is external and written from what they exchange,
  each value read where the component reads it.
  The timer T3512 is a number, so that the validator's test (`config.py:579-604`) meets
  the encoding of TS 24.008: a value of 1 to 31 in one of seven units.
- **...Proofs** – theorems. **MC...** – constants of the TLC instances.

## Runs

| Run | Shows | Bounds |
| --- | --- | --- |
| ScenarioSingle | what is installed is armed for removal; the operator's filters and clsact survive; PASS means reverted, the fault held during the traffic, and a running lab; failed rollback is reported; an expected failure rests on this run's evidence; the driver implements `InjSpec` and `FaultLifecycle`; under fairness it ends, and its filter is removed or reported | one run of every kind on gNB and AMF, one restart, an orphan, signals, crash |
| ScenarioSequence | a rollback takes out only its own run's tc state | two impairment runs in sequence, the first may crash, one orphan |
| Readiness | a ready verdict is about processes that never changed up to the last inspection; the stability window was free of pending conditions; the wait overruns its timeout by less than a second | MongoDB and one network function with a PFCP association, one restart, commands of up to 2 s, timeout 2 s, window 1 s, 2 ticks per second |
| Preflight | PASS leaves no container and no file; residue is reported; the script's marker is true, it keeps what it found, and explains what it leaves; PASS means that the check had a verified tunnel and NAT rule | one probe of each kind, the script three times, one late creation |
| Gate | a fault needs a passed runtime baseline of the same context; no crash goes unnoticed by a passing validation; the UE waits for NG Setup of the gNB that the run has created; a pass counts the registration of the run's own UE | two runtime runs plus fixture runs, one edit, one crash or lost connection |
| Evidence | as far as `docker compose ps` answers, a PASS has missed no forbidden event of a service that kept its container; its expected events are current; durations are between the first events | two services, two lines in a run, three lines in given files |
| Config | with what the validator accepts the UE attaches, unless the edit was made where no check looks or took a key out everywhere; consistent renaming is accepted | two edits, five timer values |

Five runs end in a counterexample; each is listed with its documentation line under
"findings" in `PROJECT.json`:

- **ScenarioSignal** – a signal just before the two statements at the start of the
  finally clause leaves with the fault in place (`orchestration.py:428`).
- **ScenarioRace** – of two impairment scenarios started together, the one whose
  `tc qdisc add` fails deletes the other's clsact (`fault_injection.py:206`).
- **ReadinessGap** – a restart after the last inspection, during the log reads that
  follow it, is inside the window that the verdict calls free of restarts
  (`readiness.py:143`).
- **EvidenceSkipped** – `docker compose ps` fails for one service, `collect_logs.sh`
  takes it for not created, skips its log and exits with 0: the fault run passes
  although the log holds a forbidden event (`collect_logs.sh:23`).
- **GateStaleCore** – a baseline re-run after an edit of the YAML files passes
  although the core was not restarted (`orchestration.py:226`, `start_lab.sh:31`):
  `docker compose up -d` recreates a container when its service definition changes,
  not when a bind-mounted file does.

### Why the bounds are enough

The injector keeps no counters and its commands form one short sequence, so a second
restart or a third orphan repeats a situation that the first has produced in every
state; runs interact only through the tc state of a shared target, which two runs
exhibit. In CoreReadiness one restart in every position of a window of a few
ticks covers all orders of inspection, log read and restart; one network function
is enough because the verdict treats services one by one, conjunctively.
RuntimePreflight runs each kind of probe once, in the code's order. In RuntimeGate a
gate decision involves one baseline and one fault run; the model has an edit, a
crash or a loss at every point between them. For all of these the proofs remove the
bounds; they stand only behind what is model-checked alone.

In LogEvidence a wrong verdict needs one line that is overlooked or misjudged and one
service that is read before or after it; the lab logs during the run and between the
reads of the collection, and each service loses its container at most once. A
duration depends on two first events and a third line that sorts between them. In
ConfigContract a comparison involves two places, so two edits reach every
disagreement, and every disagreement hidden by a second one; the five timer values are
the default, the smallest unit's limit and the value after it, zero, and a value between units.

Services, configurations and commits are interchangeable where a `SYMMETRY` says so.
`CHECK_DEADLOCK FALSE` is there because runs end.

### Fairness

Only ScenarioSingle's `FairSpec` has fairness: weak fairness of `Proceeds(r)`, the
steps of a living harness process. The code justifies it: every command has a timeout,
after which `run_command` kills its process group and returns, and there is no retry
loop. Nothing is assumed of docker, of signals, of restarts or of orphans, and a killed
process takes no step. CoreReadiness needs no fairness: its clock makes the deadline a
safety property.

## Refinement

- `InjSpec`: the driver is a client of the injector. That the injector is safe with a client
  that calls in any order is what `FaultInjectorProofs` proves; TLC meets only the
  calls of the driver.
- `ImplementsLifecycle`: the driver implements FaultLifecycle.

Both are checked by TLC and proved.

## Proofs

All constants are arbitrary: any set of runs, services, faults and probes, any bounds
and timeouts. The assumptions are the named ASSUMEs of the modules: the operator is not
a run, the sentinel is not a service, faults and probes have known types, MongoDB is not
a network function, times and bounds are natural numbers.

- **FaultInjectorProofs.** `InjTypeCorrect`: types, together with `CommandsFit`: each
  command in progress or left behind suits the fault type of its run. The two need each
  other, because the effect of a tc command is typed only on a real target.
  `InjectorInvariant`: `InjInv`, the inductive invariant. `ArmedWhileInstalled`
  alone is not inductive: a state with a filter in place, `_filter_cleanup_required`
  unset and the removal about to skip the filter is armed, and disarms in the next
  step. `ClsactFlagged` and `FilterFlagged` say that an object, a command in progress
  or an orphan of a run implies that the run has set the flag; `Armed` says that on
  an error-free way to the deletion of the clsact the filter is gone;
  `OperatorOutOfReach` that no run holds the flags with which it would delete the
  operator's objects; `Fresh` that an injector is used for one fault. `AlwaysArmed`
  and `OperatorStateSafe` follow from it. `InjectionIsScoped` is about every single step,
  late ones included: containers are stopped or started only by a service fault on its
  own target (or by docker), and tc state is added only on the target of an impairment,
  of its kind.
- **FaultScenarioProofs.** `ScenarioUsesInjector`: each step of the driver is a step of
  `InjSpec` or leaves its variables alone, so `InjInv` holds in scenarios without being
  proved again. `ScenarioInvariant`, `PassIsClean`: a PASS has left nothing of its own.
  The difficulty is a late command: `verify_removed` may have seen the lab clean before
  an orphan adds the filter again. `LateApplySpoils` says that a command of `apply` is
  left behind only by a run whose `apply` raised, and such a run stays *spoiled*: it
  cannot become PASS. `CleanWhenVerified` and `PassIsFinal` carry the rest.
  `ExpectedFailureOnEvidence` is its companion on the evidence side.
  `ClientInvariant` says that the driver finds a result wherever it looks for one, that it
  is one the surrounding try handles, and that signals are masked exactly in the clean-up,
  so that no call of the clean-up ends interrupted. `RunsAreBounded` gives each run a
  number of steps left, five for each stage to come and one for each command of the call
  at hand: never more than 80, never growing, and lowered by every step of the run.
  `LeftoverIsAdmitted`: what a run leaves in the lab when it reports, it has tried to
  remove, and says so.

  The others assume `Exclusive`, as the procedure of one scenario at a time has it.
  `HeldInvariant` says that the run under way has the lab and the stray commands for
  itself (`OneAtATime`), that nothing is pending before its finally clause unless it is
  spoiled (`NothingLate`), that the restart it waits for is later than the one it has seen
  (`RestartSeen`), and that the verified fault is in force until the traffic has run, or
  its container shows a restart, which the recovery check would reject (`HeldRun`).
  `PassIsEarned` and `PassLeavesServices` follow. `ClaimInvariant` says that a clsact that
  the run has created, and the place of its filter once it was seen free, hold only its
  own objects for as long as a command of it may take effect; `RollbackTakesOwn` follows.
- **FaultLifecycle, FaultScenarioProofs (second half).** `LifecycleIsHonest` is the abstract
  promise. `RefinementInvariant` adds to `ScenarioInv` that before `apply` a run owns
  nothing and that a cleanup still armed after the rollback is on the record, which is
  what the step from active to failed needs; `ResidueIsReported` is its other use.
  `ScenarioImplementsLifecycle` then has one case per action of the driver, the injector
  and the lab, and `VerdictsAreHonest` reads the promise back.
- **PreflightBootstrapProofs.** First the preflight. `CleanupIsAccounted`: for any plan,
  what the clean-up ended on is gone or on the record, and a request of a killed client
  spoils the run like a late command does a scenario. `PassLeavesNothingHolds`,
  `ResidueReportedHolds`, `BlockedBeforeProbesHolds`, `ProbesOneByOneHolds` follow; a
  lemma, `PreflightOfComposition`, carries them over to the composition with the script.
  Then the script. `ScriptInvariant`: flags, traps and namespace agree at every command;
  `MarkerIsHonest`, `ForeignIsKept`, `ResidueIsExplained` follow. The work is in the
  clean-up that runs twice, once from the check and once from the EXIT trap.
  `PassMeansSetUpHolds` joins the two: the preflight passes only if each script ended
  with zero and the bootstrap's printed its marker, and the script gets to its marker only
  over the verified interface and NAT rule that its clean-up takes down again.
- **CoreReadinessProofs.** `ReadinessInvariant` joins four parts: `PollInv` (a
  poll judges exactly the containers it has inspected), `TimeInv` (a command
  never starts past the deadline, so the clock exceeds it by at most one command's
  rounding), `WindowInv` (nothing has been pending since `stable_since`),
  `IdentityInv` (the identities compared are those of the processes first seen).
  `ReadyIsUndisturbed`, `WindowIsReady`, `WaitIsBounded` follow.
- **RuntimeGateProofs.** `GateInvariant`: a result's fingerprint names the context it was
  taken in, except for a commit git could not read; what was decided before each stage
  (`StageInv`); a crash shows in a restart count until the container is replaced
  (`CrashInv`), which is why a check that looks at the count cannot miss it.
  `FaultsOnTestedContext` and `NoCrashIsMissed` follow. `OwnInv` is about the containers
  that the run has created: NG Setup was reported by one of them, the UE is one only
  after that, and once it is registered its acceptance is in the log; the check of the
  registration therefore looks at the UE that the run has created, and not at one whose
  acceptance merely falls into the run. `UeWaits` and `PassesOnOwnRan` follow.

- **LogEvidenceProofs.** `EvidenceInvariant` joins the types with `StageInv` (what has
  been decided when a stage is reached), `WitnessInv` (a forbidden line that the lab
  logged in time is still in the log of its container, unless that is gone, and once its
  service was copied it is in the file) and `CurrentInv` (what is in a file was logged
  after the boundary). `NoForbiddenMissedHolds` follows the second from the lab to the
  events, `PassOnCurrentLinesHolds` the third from the events to the lab.
  `DurationFromFirstHolds` needs that a non-empty set of times has a least one (the
  well-foundedness of `<`), and that the order of the timestamps' texts is the order of
  times as soon as the seconds differ.
- **ConfigContractProofs.** A name is settled when its compared places agree, the
  meeting point of both directions. `AcceptedIsSettled`: the checks, which each compare
  a few places, together settle every name. `AcceptedMeansAttached`: with settled names,
  of which none is overlooked at a place that nobody compares or taken out everywhere,
  and accepted settings, every pair of places that the components bring together
  agrees. `AcceptedAttachesHolds` follows: the comparisons of the validator leave no gap
  among the places they read. `RenamesKeepAgreement` is the invariant of renaming, and
  `RenamedIsAccepted` says that the checks compare the names and never ask for a
  particular value. All hold after any number of edits.

Only model-checked: liveness (`Terminates`, `FilterIsDealtWith`), which the proof system
does not cover. Its safety half is proved: `RunsAreBounded` leaves of `Terminates` only
that a step is taken at all, which is the fairness; `LeftoverIsAdmitted` is what
`FilterIsDealtWith` asks of the end that `Terminates` promises.

## Abstractions

- tc rules are their owner and kind; preference, handle and match are fixed by the
  kind. Output parsing of `tc` and `docker inspect` yields the fact it looks for.
- The compose files of the probes, report rendering, printed text and artefact names
  are left out. In RuntimeGate `--since` is the mark "of this run"; LogEvidence has
  the boundary and times.
- In RuntimeGate reading the context is one step; a command killed at its timeout
  has its effect before the next step or not at all (FaultInjector and
  RuntimePreflight have late effects); all services' logs are one log.
- The harness can be interrupted anywhere in a baseline run, which then ends without
  a result.
- In LogEvidence the lab acts while the logs are collected: lines of before the run are
  there from the start, those of the run before its traffic ended are taken together
  with the later ones, and nobody reads what comes after. Times are complete;
  the parser adds the current year to Open5GS's lines, which have none
  (`parser.py:179`), so that lines around New Year sort wrongly.
- ConfigContract groups settings by the function that checks them; each has the
  repository's value, another accepted one where the check leaves a choice (`Choices`),
  and a wrong one. `nfIp` stands for the address of any of the network functions whose
  own file is not compared. An inconsistency at a place of `Unread` is accepted by the
  validator, and the property says so instead of excluding it: what is accepted and does
  not attach is `Overlooked` or `TakenOut`.

Two things the models contain, a run can pass with, and documents speak
against:

- a service whose `docker compose ps` fails is skipped by `collect_logs.sh` without an
  error (`docs/pre_merge_audit.md:7`, "fails closed"): the finding EvidenceSkipped;
- git that fails both in the baseline run and in the fault run reads as "unknown" twice,
  and the fingerprints match across commits (`orchestration.py:1009`), while
  `docs/runtime_validation.md:101` has a baseline "valid only on the same git commit".
  `FaultOnTestedContext` excepts it.

Met on the way, in the models or excepted by a property, and contradicting no document:

- a target that the injector rejects ends the run in a traceback without a report
  (`orchestration.py:425`); the scenario schema keeps such targets out;
- a key missing in every file that repeats it counts as consistent (`config.py:126`);
- a value edited only where a component reads it and no check does is accepted;
- files edited during a run, after its fingerprint was taken, are not what the
  fingerprint names (`orchestration.py:94`);
- a lookup of the bootstrap script that fails is taken for absence, so that its
  clean-up deletes what was there (`upf-entrypoint.sh:45`), in a namespace that holds
  nothing but its own things unless the script is run by hand;
- within one second, event 12.5 sorts before event 12 (`parser.py:359`);
- `KeyboardInterrupt` right after `passed = True` in `wait_core_ready` gives a passed
  result with a failure's detail;
- `run_probe` has the signal window of the finding ScenarioSignal too;
- the application files that `collect_logs.sh` and the log volume keep are copied as
  artefacts and are not classified, so their age does not matter
  (`orchestration.py:848-857`).

## Not modelled

- Packet capture: `capture_start.sh` and `capture_stop.sh` are two manual commands around
  a PID file, `pcap.py` a summary of tshark's output.
- Scenario schema validation and the host preflight: sequential checks without state to
  interleave; their verdicts are inputs of the runs.
- Report rendering, CSV and JSON output, regular expressions as such, and the analysis
  notebook: formatting.
- Open5GS, UERANSIM and docker are external and appear through what is observed of them.

## What is left

RuntimeGate's fault step shown to allow whatever FaultScenario can do to the lab.
