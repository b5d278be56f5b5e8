--------------------------- MODULE CoreReadiness ---------------------------
(***************************************************************************)
(* wait_core_ready of src/fiveg_lab/readiness.py: a reader that polls the   *)
(* core containers with docker commands, while the containers start, log,   *)
(* lose associations, restart and are restarted.                            *)
(*                                                                         *)
(* One poll is docker ps, docker inspect, one docker logs per network       *)
(* function, and the evaluation.  Only commands and sleeps take time.       *)
(***************************************************************************)
EXTENDS Integers, Sequences, FiniteSets

CONSTANTS
  NFs,            \* OPEN5GS_NFS of the instance
  Mongo,          \* the database, which has a health check and no log rules
  Needs,          \* Needs[s]: the associations container s must hold (NRF, PFCP)
  TicksPerSecond, \* resolution of time.monotonic()
  Timeout, StableSeconds, Interval, \* arguments of wait_core_ready, in ticks
  CommandLimit,   \* the 10 seconds one command may take at most, in seconds
  MaxRestarts     \* bound: restarts of all containers together

ASSUME NFsAssumption == Mongo \notin NFs
ASSUME TimesAssumption ==
  /\ TicksPerSecond \in Nat \ {0} /\ CommandLimit \in Nat \ {0} /\ MaxRestarts \in Nat
  /\ {Timeout, StableSeconds, Interval} \subseteq Nat \ {0}
  /\ StableSeconds < Timeout

Services == NFs \union {Mongo}

ASSUME NeedsAssumption == DOMAIN Needs = Services /\ Needs[Mongo] = {}

VARIABLES
  \* the lab
  clock,        \* ticks since wait_core_ready started
  logInit,      \* the one-shot log-init container
  proc,         \* proc[s]: State.Status of container s
  log,          \* log[s]: what each process of container s has logged, oldest first
  restartCount, \* restartCount[s]: its RestartCount
  healthy,      \* the health status of MongoDB
  \* wait_core_ready and read_core
  pc,
  until,        \* when the running command times out, or the sleep ends
  listed,       \* the containers docker ps returned
  snapshot,     \* what docker inspect returned for them
  toRead,       \* NFs whose logs are still to be read in this poll
  seen,         \* the log lines read in this poll
  stableSince, identities, passed, detail,
  \* history
  firstSeen,    \* the process of s that the first inspection found running
  pendingAt     \* when a poll last found something pending

lab == <<clock, logInit, proc, log, restartCount, healthy>>
poll == <<listed, snapshot, toRead, seen>>
verdict == <<stableSince, identities, passed, detail, firstSeen, pendingAt>>
vars == <<lab, pc, until, poll, verdict>>

Never == -1
NoProcess == 0
Process(s) == Len(log[s])

Quiet(s) == [init |-> FALSE, fatal |-> FALSE, assoc |-> [k \in Needs[s] |-> "none"]]
LastLine(s) == log[s][Process(s)]

-----------------------------------------------------------------------------
(* The lab.                                                                 *)

LogInitEnds ==
  /\ logInit = "running"
  /\ logInit' \in {"done", "failed"}
  /\ UNCHANGED <<clock, proc, log, restartCount, healthy, pc, until, poll, verdict>>

\* docker compose up creates the containers of the project.
ComposeUp ==
  /\ \A s \in Services : proc[s] = "missing"
  /\ proc' = [s \in Services |-> "created"]
  /\ UNCHANGED <<clock, logInit, log, restartCount, healthy, pc, until, poll, verdict>>

ContainerStarts(s) ==
  /\ proc[s] = "created" /\ logInit = "done"
  /\ proc' = [proc EXCEPT ![s] = "running"]
  /\ log' = [log EXCEPT ![s] = Append(@, Quiet(s))]
  /\ UNCHANGED <<clock, logInit, restartCount, healthy, pc, until, poll, verdict>>

\* A process logs its initialisation, an association gained or lost, or a
\* fatal error; MongoDB becomes healthy.
ProcessLogs(s) ==
  /\ s \in NFs /\ proc[s] = "running"
  /\ LET now == LastLine(s) IN
     /\ ~now.fatal
     /\ \E next \in
         {[now EXCEPT !.fatal = TRUE], [now EXCEPT !.init = TRUE]}
         \union {[now EXCEPT !.assoc[k] = IF @ = "up" THEN "down" ELSE "up"] :
                   k \in IF now.init THEN Needs[s] ELSE {}} :
       /\ next # now
       /\ log' = [log EXCEPT ![s][Process(s)] = next]
  /\ UNCHANGED <<clock, logInit, proc, restartCount, healthy, pc, until, poll, verdict>>

MongoBecomesHealthy ==
  /\ proc[Mongo] = "running" /\ ~healthy
  /\ healthy' = TRUE
  /\ UNCHANGED <<clock, logInit, proc, log, restartCount, pc, until, poll, verdict>>

\* Docker restarts a process that died, and counts it; an operator's restart
\* resets the count.
ProcessRestarts(s) ==
  /\ proc[s] = "running"
  /\ Cardinality({e \in Services \X (2 .. MaxRestarts + 1) : e[2] <= Process(e[1])}) < MaxRestarts
  /\ log' = [log EXCEPT ![s] = Append(@, Quiet(s))]
  /\ \E count \in {0, restartCount[s] + 1} :
       restartCount' = [restartCount EXCEPT ![s] = count]
  /\ healthy' = (healthy /\ s # Mongo)
  /\ UNCHANGED <<clock, logInit, proc, pc, until, poll, verdict>>

ContainerExits(s) ==
  /\ proc[s] = "running"
  /\ proc' = [proc EXCEPT ![s] = "exited"]
  /\ UNCHANGED <<clock, logInit, log, restartCount, healthy, pc, until, poll, verdict>>

LabStep ==
  \/ ComposeUp \/ LogInitEnds \/ MongoBecomesHealthy
  \/ \E s \in Services :
       ContainerStarts(s) \/ ProcessLogs(s) \/ ProcessRestarts(s) \/ ContainerExits(s)

Waiting == pc \in {"list", "inspect", "logs", "sleep"}

Tick ==
  /\ Waiting /\ clock < until
  /\ clock' = clock + 1
  /\ UNCHANGED <<logInit, proc, log, restartCount, healthy, pc, until, poll, verdict>>

\* Between two polls, and after the last, nothing of a poll is used any more.
NoSnapshot == [init |-> "none", of |-> [s \in {} |-> {}]]
NoLogs == [s \in {} |-> {}]
Forget == listed' = {} /\ snapshot' = NoSnapshot /\ toRead' = {} /\ seen' = NoLogs

-----------------------------------------------------------------------------
(* Commands of read_core.                                                   *)

Least(a, b) == IF a < b THEN a ELSE b
Ceiling(ticks) == (ticks + TicksPerSecond - 1) \div TicksPerSecond

\* Mutant: the remaining time does not bound the command.
BudgetFixed(remaining) == CommandLimit * TicksPerSecond

\* timeout = max(1, min(10, ceil(remaining))) seconds.
Budget(remaining) ==
  TicksPerSecond * (IF Ceiling(remaining) < 1 THEN 1 ELSE Least(CommandLimit, Ceiling(remaining)))

Finish(why) ==
  /\ pc' = "done"
  /\ detail' = why
  /\ until' = 0

\* The next command, unless the deadline has passed: then a RuntimeError.
Command(c) ==
  \/ /\ clock < Timeout
     /\ pc' = c
     /\ until' = clock + Budget(Timeout - clock)
     /\ UNCHANGED detail
  \/ clock >= Timeout /\ Finish("failed")

\* The loop condition, after the start and after each sleep.
Loop ==
  /\ pc = "loop"
  /\ \/ clock < Timeout /\ Command("list")
     \/ clock >= Timeout /\ Finish(detail)
  /\ UNCHANGED <<lab, poll, stableSince, identities, passed, firstSeen, pendingAt>>

\* docker compose ps: no container at all ends the poll with nothing.
List ==
  /\ pc = "list"
  /\ listed' = {s \in Services : proc[s] # "missing"}
  /\ \/ listed' = {} /\ pc' = "evaluate" /\ until' = 0 /\ UNCHANGED detail
     \/ listed' # {} /\ Command("inspect")
  /\ UNCHANGED <<lab, snapshot, seen, toRead, stableSince, identities, passed, firstSeen, pendingAt>>

Inspection(s) ==
  [process |-> Process(s), status |-> proc[s], restarts |-> restartCount[s],
   healthy |-> s = Mongo /\ healthy]

Inspect ==
  /\ pc = "inspect"
  /\ snapshot' = [init |-> logInit, of |-> [s \in listed |-> Inspection(s)]]
  /\ toRead' = {s \in NFs \intersect listed : proc[s] # "created"}
  /\ firstSeen' = [s \in Services |->
       IF firstSeen[s] = NoProcess /\ s \in listed /\ proc[s] = "running"
       THEN Process(s) ELSE firstSeen[s]]
  /\ \/ toRead' = {} /\ pc' = "evaluate" /\ until' = 0 /\ UNCHANGED detail
     \/ toRead' # {} /\ Command("logs")
  /\ UNCHANGED <<lab, listed, seen, stableSince, identities, passed, pendingAt>>

\* docker logs --since StartedAt: the lines of the inspected process and of
\* every later one; of an association the latest line counts.
LinesSince(s, process) ==
  LET lines == {log[s][i] : i \in process .. Process(s)}
      latest(k) ==
        \E i \in process .. Process(s) :
          /\ log[s][i].assoc[k] = "up"
          /\ \A j \in (i + 1) .. Process(s) : log[s][j].assoc[k] = "none"
  IN [init |-> \E l \in lines : l.init,
      fatal |-> \E l \in lines : l.fatal,
      associated |-> \A k \in Needs[s] : latest(k)]

Logs ==
  /\ pc = "logs"
  /\ \E s \in toRead :
       /\ seen' = [t \in (DOMAIN seen) \union {s} |->
                     IF t = s THEN LinesSince(s, snapshot.of[s].process) ELSE seen[t]]
       /\ toRead' = toRead \ {s}
  /\ \/ toRead' = {} /\ pc' = "evaluate" /\ until' = 0 /\ UNCHANGED detail
     \/ toRead' # {} /\ Command("logs")
  /\ UNCHANGED <<lab, listed, snapshot, stableSince, identities, passed, firstSeen, pendingAt>>

\* A command fails, or times out: RuntimeError.
CommandFails ==
  /\ pc \in {"list", "inspect", "logs"}
  /\ Finish("failed")
  /\ Forget
  /\ UNCHANGED <<lab, stableSince, identities, passed, firstSeen, pendingAt>>

-----------------------------------------------------------------------------
(* core_issues and the rest of the loop body.                               *)

Initialised(s) == s \in DOMAIN seen /\ seen[s].init /\ seen[s].associated
Running(s) == s \in listed /\ snapshot.of[s].status = "running"

Fatal ==
  \/ snapshot.init = "failed"
  \/ \E s \in listed : snapshot.of[s].restarts # 0 \/ snapshot.of[s].status = "exited"
  \/ \E s \in DOMAIN seen : seen[s].fatal

Pending ==
  \/ snapshot.init # "done"
  \/ \E s \in Services : ~Running(s)
  \/ Mongo \in listed /\ ~snapshot.of[Mongo].healthy
  \/ \E s \in NFs : ~Initialised(s)

\* Mutant: the processes of two polls are not compared.
NoIdentityChange == FALSE

\* A container runs another process than the one seen before.
IdentityChanged ==
  \E s \in Services :
    Running(s) /\ identities[s] \notin {NoProcess, snapshot.of[s].process}

\* Mutant: the time left is not kept from becoming negative.
SleepPastDeadline ==
  /\ pc' = "sleep"
  /\ until' = Least(Interval, Timeout - clock)

Sleep ==
  /\ pc' = "sleep"
  /\ until' = clock + Least(Interval, IF clock < Timeout THEN Timeout - clock ELSE 0)

\* Mutant: a pending poll does not start the window anew.
EvaluateSticky ==
  /\ pc = "evaluate"
  /\ identities' = [s \in Services |->
       IF Running(s) THEN snapshot.of[s].process ELSE identities[s]]
  /\ \/ /\ Fatal \/ IdentityChanged
        /\ Finish("fatal") /\ Forget
        /\ UNCHANGED <<stableSince, passed, pendingAt>>
     \/ /\ ~Fatal /\ ~IdentityChanged /\ Pending
        /\ detail' = "pending"
        /\ pendingAt' = clock
        /\ Sleep /\ Forget
        /\ UNCHANGED <<passed, stableSince>>
     \/ /\ ~Fatal /\ ~IdentityChanged /\ ~Pending
        /\ stableSince' = IF stableSince = Never THEN clock ELSE stableSince
        /\ IF clock - stableSince' >= StableSeconds /\ clock < Timeout
           THEN passed' = TRUE /\ pc' = "passing" /\ UNCHANGED <<until, detail, poll>>
           ELSE detail' = "unstable" /\ Sleep /\ Forget /\ UNCHANGED passed
        /\ UNCHANGED pendingAt
  /\ UNCHANGED <<lab, firstSeen>>

Evaluate ==
  /\ pc = "evaluate"
  /\ identities' = [s \in Services |->
       IF Running(s) THEN snapshot.of[s].process ELSE identities[s]]
  /\ \/ /\ Fatal \/ IdentityChanged
        /\ Finish("fatal") /\ Forget
        /\ UNCHANGED <<stableSince, passed, pendingAt>>
     \/ /\ ~Fatal /\ ~IdentityChanged /\ Pending
        /\ stableSince' = Never
        /\ detail' = "pending"
        /\ pendingAt' = clock
        /\ Sleep /\ Forget
        /\ UNCHANGED passed
     \/ /\ ~Fatal /\ ~IdentityChanged /\ ~Pending
        /\ stableSince' = IF stableSince = Never THEN clock ELSE stableSince
        /\ IF clock - stableSince' >= StableSeconds /\ clock < Timeout
           THEN passed' = TRUE /\ pc' = "passing" /\ UNCHANGED <<until, detail, poll>>
           ELSE detail' = "unstable" /\ Sleep /\ Forget /\ UNCHANGED passed
        /\ UNCHANGED pendingAt
  /\ UNCHANGED <<lab, firstSeen>>

\* The detail text is assigned after passed.
Pass ==
  /\ pc = "passing"
  /\ Finish("ready")
  /\ Forget
  /\ UNCHANGED <<lab, stableSince, identities, passed, firstSeen, pendingAt>>

Wake ==
  /\ pc = "sleep" /\ clock = until
  /\ pc' = "loop"
  /\ until' = 0
  /\ UNCHANGED <<lab, poll, verdict>>

\* KeyboardInterrupt anywhere in the try block.
Interrupt ==
  /\ pc # "done"
  /\ Finish("failed")
  /\ Forget
  /\ UNCHANGED <<lab, stableSince, identities, passed, firstSeen, pendingAt>>

-----------------------------------------------------------------------------

Init ==
  /\ clock = 0
  /\ logInit \in {"running", "done"}
  /\ proc \in [Services -> {"missing"}] \union [Services -> {"created"}]
  /\ log = [s \in Services |-> <<>>]
  /\ restartCount = [s \in Services |-> 0]
  /\ healthy = FALSE
  /\ pc = "loop"
  /\ until = 0
  /\ listed = {}
  /\ snapshot = NoSnapshot
  /\ toRead = {}
  /\ seen = NoLogs
  /\ stableSince = Never
  /\ identities = [s \in Services |-> NoProcess]
  /\ passed = FALSE
  /\ detail = "timeout"
  /\ firstSeen = [s \in Services |-> NoProcess]
  /\ pendingAt = Never

Reader ==
  \/ Loop \/ List \/ Inspect \/ Logs \/ CommandFails
  \/ Evaluate \/ Pass \/ Wake

Next == (pc # "done" /\ LabStep) \/ Tick \/ Reader \/ Interrupt

Spec == Init /\ [][Next]_vars

-----------------------------------------------------------------------------
(* Properties                                                               *)

Stages == {"loop", "list", "inspect", "logs", "evaluate", "passing", "sleep", "done"}
Details == {"timeout", "pending", "unstable", "fatal", "failed", "ready"}

\* Type correctness of the reader's locals.  (readiness.py: wait_core_ready)
TypeOK ==
  /\ clock \in Nat /\ until \in Nat
  /\ pc \in Stages /\ detail \in Details
  /\ listed \subseteq Services /\ toRead \subseteq NFs
  /\ DOMAIN snapshot.of \subseteq listed /\ DOMAIN seen \subseteq NFs
  /\ \A s \in DOMAIN seen : s \in DOMAIN snapshot.of
  /\ identities \in [Services -> Nat] /\ firstSeen \in [Services -> Nat]
  /\ stableSince \in Nat \union {Never} /\ pendingAt \in Nat \union {Never}
  /\ passed \in BOOLEAN

\* A core that is found ready runs, at the last inspection, the very processes
\* that the first inspections found, and docker has counted no restart:
\* whatever was restarted in between was noticed, although an operator's
\* restart resets the count.  (readiness.py:82, 133-139)
PassedUndisturbed ==
  pc = "passing" => \A s \in Services :
    Running(s) /\ snapshot.of[s].process = firstSeen[s] /\ snapshot.of[s].restarts = 0

\* For the whole stability window before the verdict no poll found anything
\* pending: an association that was lost in the meantime starts the window
\* anew.  (readiness.py:144-149)
ReadyThroughout ==
  passed => pendingAt = Never \/ clock - pendingAt >= StableSeconds

\* The wait ends within its timeout and less than the second by which the last
\* command's timeout is rounded up.  (readiness.py:35-38, 155)
BoundedWait == clock < Timeout + TicksPerSecond

\* readiness.py:151-154: "no restarts for {stable_seconds}s".  When the verdict
\* is reached, every container still runs the process first seen.
NoRestartInWindow ==
  [][passed' /\ ~passed => \A s \in Services : Process(s) = firstSeen[s]]_vars
=============================================================================
