---------------------------- MODULE LogEvidence ----------------------------
(***************************************************************************)
(* From log lines to a verdict: scripts/collect_logs.sh copies the standard *)
(* output of each service since the run's boundary, parser.py classifies the *)
(* lines, assertions.py compares the events with the scenario's contract,    *)
(* and the parser's command line takes durations from the sorted events.    *)
(* Services log, and their containers are recreated, all the while.         *)
(***************************************************************************)
EXTENDS Integers, FiniteSets

CONSTANTS
  Services,     \* services whose logs are collected
  MaxEntries,   \* bound: lines logged during a run
  MaxTime,      \* bound: the clock of a run
  MaxGiven,     \* bound: lines in the files given to the command line
  MaxStamp      \* bound: their timestamps, in half seconds

ASSUME BoundsAssumption ==
  /\ MaxEntries \in Nat /\ MaxTime \in Nat \ {0}
  /\ MaxGiven \in Nat /\ MaxStamp \in Nat /\ MaxTime <= MaxStamp

VARIABLES
  \* the lab
  clock,
  created,      \* services that have a container
  log,          \* standard output of each service's container
  volume,       \* lines in the application files, which survive containers
  \* the run
  scenario, pc,
  boundary,     \* the time handed to docker compose logs --since
  traffic,      \* exit status and marked lines of traffic_test.sh
  todo,         \* services not collected yet
  files,        \* lines in <service>.log
  nfFiles,      \* lines in the files under nf-files
  failed,       \* stage_failed, infrastructure_error or collected.returncode
  observed,     \* events in the collected files
  verdict,
  duration,     \* registration_duration_ms of the parser's summary
  \* history
  witnessed,    \* forbidden lines logged between the boundary and the collection
  misread,      \* services whose docker compose ps failed
  lost          \* services that lost a container since the boundary

lab == <<clock, created, log, volume, lost>>
run == <<scenario, pc, boundary, traffic, todo, files, nfFiles, failed, observed, verdict,
         duration, misread>>
vars == <<lab, run, witnessed>>

-----------------------------------------------------------------------------
(* Lines and events                                                         *)

\* Lines of a service, and the lines traffic_test.sh writes.
ServiceLines == {"request", "accept", "acceptFailed", "reject"}
TrafficLines == {"up", "down"}

\* The patterns a line matches: an accept that failed still reads "accept".
Matches(line) == IF line = "acceptFailed" THEN {"accept"} ELSE {line}
Negative(line) == line \in {"acceptFailed", "reject", "down"}
Positive == {"accept", "up"}

Classify(line) == {e \in Matches(line) : ~(e \in Positive /\ Negative(line))}

\* A line without a timestamp, or with one that parse_timestamp cannot read.
NoTime == MaxStamp + 1

Entries == [service : Services, line : ServiceLines, time : 0 .. NoTime]
EventsOf(entries) == UNION {Classify(e.line) : e \in entries}

\* The contracts of baseline_e2e, smf_unavailable and upf_unavailable.
Scenarios == {"baseline", "smf", "upf"}
Expected == [baseline |-> {"request", "accept", "up"}, smf |-> {"reject"}, upf |-> {"down"}]
Forbidden == [baseline |-> {"reject", "down"}, smf |-> {"accept", "up"}, upf |-> {"up"}]

-----------------------------------------------------------------------------
(* The lab                                                                  *)

Emit(s, line) ==
  /\ s \in created
  /\ Cardinality(volume) < MaxEntries
  /\ LET entry == [service |-> s, line |-> line, time |-> clock]
     IN  /\ log' = [log EXCEPT ![s] = @ \union {entry}]
         /\ volume' = volume \union {entry}
         /\ witnessed' = IF pc = "collect" /\ Classify(line) \intersect Forbidden[scenario] # {}
                         THEN witnessed \union {entry} ELSE witnessed
  /\ UNCHANGED <<clock, created, lost, run>>

Tick ==
  /\ clock < MaxTime
  /\ clock' = clock + 1
  /\ UNCHANGED <<created, log, volume, lost, run, witnessed>>

\* docker compose up --force-recreate, or down, once per service: the output goes
\* with the container.
Replaced(s) ==
  /\ s \notin lost
  /\ created' \in {created \union {s}, created \ {s}}
  /\ log' = [log EXCEPT ![s] = {}]
  /\ lost' = lost \union {s}
  /\ UNCHANGED <<clock, volume, run, witnessed>>

\* Lines logged before the run begins are there from the start, those logged
\* before the end of the traffic are taken together with those after it, and
\* nobody reads what is logged once the collection is over.
Lab ==
  /\ pc \in {"collect", "copy"}
  /\ \/ \E s \in Services : Replaced(s) \/ \E line \in ServiceLines : Emit(s, line)
     \/ Tick

-----------------------------------------------------------------------------
(* The run                                                                  *)

\* utc_now before the first change to the lab.
Begin ==
  /\ pc = "start"
  /\ clock' = clock + 1 /\ boundary' = clock + 1
  /\ pc' = "work"
  /\ UNCHANGED <<created, log, volume, lost, witnessed, scenario, traffic, todo, files, nfFiles,
                 failed, observed, verdict, duration, misread>>

\* The traffic probe ends with its marker, or fails or is killed on the way.
TrafficTest ==
  /\ pc = "work" /\ pc' = "collect"
  /\ traffic' \in [code : {0}, lines : {{"up"}}] \union [code : {4}, lines : {{"down"}}]
                    \union [code : {1}, lines : {{}, {"down"}, {"up"}}]
  /\ UNCHANGED <<lab, witnessed, scenario, boundary, todo, files, nfFiles, failed, observed,
                 verdict, duration, misread>>

\* A stage before the traffic fails: a baseline collects its logs all the same.
StageFails ==
  /\ pc = "work" /\ pc' = IF scenario = "baseline" THEN "collect" ELSE "parse"
  /\ failed' = TRUE
  /\ UNCHANGED <<lab, witnessed, scenario, boundary, traffic, todo, files, nfFiles, observed,
                 verdict, duration, misread>>

\* collect_logs.sh cannot talk to docker, or is killed at its timeout.
CollectFails ==
  /\ pc \in {"collect", "copy"} /\ pc' = "parse"
  /\ failed' = TRUE
  /\ UNCHANGED <<lab, witnessed, scenario, boundary, traffic, todo, files, nfFiles, observed,
                 verdict, duration, misread>>

StartCollect ==
  /\ pc = "collect" /\ pc' = "copy"
  /\ UNCHANGED <<lab, witnessed, scenario, boundary, traffic, todo, files, nfFiles, failed,
                 observed, verdict, duration, misread>>

Since(entries) == {e \in entries : e.time >= boundary}

\* docker compose ps does not list the service, or fails: the log is skipped.
Skip(s) ==
  /\ pc = "copy" /\ s \in todo
  /\ todo' = todo \ {s}
  /\ misread' = IF s \in created THEN misread \union {s} ELSE misread
  /\ UNCHANGED <<lab, witnessed, scenario, pc, boundary, traffic, files, nfFiles, failed,
                 observed, verdict, duration>>

\* Mutant: a log that breaks off counts as collected.
CopyAnyway(s) ==
  /\ pc = "copy" /\ s \in todo
  /\ todo' = todo \ {s}
  /\ files' \in {[files EXCEPT ![s] = Since(log[s])],
                [files EXCEPT ![s] = {e \in Since(log[s]) : e.time < clock}]}
  /\ UNCHANGED <<lab, witnessed, scenario, pc, boundary, traffic, nfFiles, failed, observed,
                 verdict, duration, misread>>

\* The lines since the boundary are copied, or the copy breaks off.
Copy(s) ==
  /\ pc = "copy" /\ s \in todo
  /\ todo' = todo \ {s}
  /\ \/ files' = [files EXCEPT ![s] = Since(log[s])] /\ UNCHANGED failed
     \/ /\ files' = [files EXCEPT ![s] = {e \in Since(log[s]) : e.time < clock}]
        /\ failed' = TRUE
  /\ UNCHANGED <<lab, witnessed, scenario, pc, boundary, traffic, nfFiles, observed, verdict,
                 duration, misread>>

\* The application files are exported for diagnosis, as far as that works.
EndCollect ==
  /\ pc = "copy" /\ todo = {}
  /\ pc' = "parse"
  /\ nfFiles' \in {{}, volume}
  /\ UNCHANGED <<lab, witnessed, scenario, boundary, traffic, todo, files, failed, observed,
                 verdict, duration, misread>>

Collected == UNION {files[s] : s \in Services}

\* Mutant: the directory of the logs is searched recursively.
ParsedDeep == EventsOf(Collected \union nfFiles) \union UNION {Classify(l) : l \in traffic.lines}

\* parse_runtime_events takes the .log files of the directory and the traffic
\* artifact.
Parsed == EventsOf(Collected) \union UNION {Classify(l) : l \in traffic.lines}

\* An unreadable file is an exception that ends the run.
Parse ==
  /\ pc = "parse"
  /\ \/ observed' = Parsed /\ pc' = "report"
     \/ pc' = "escaped" /\ UNCHANGED observed
  /\ UNCHANGED <<lab, witnessed, scenario, boundary, traffic, todo, files, nfFiles, failed,
                 verdict, duration, misread>>

\* scenario_status of the contract's assertions.
ContractHolds ==
  Expected[scenario] \subseteq observed /\ Forbidden[scenario] \intersect observed = {}

\* The traffic evidence of a fault has to be a success or an observed failure;
\* that of a baseline is one of its assertions.
TrafficUsable == traffic.code \in {0, 4} \/ scenario = "baseline"
TrafficHolds == scenario = "baseline" => traffic.code = 0 /\ "up" \in traffic.lines

\* Everything else the verdict depends on (rollback, recovery, health) is free.
Report ==
  /\ pc = "report" /\ pc' = "reported"
  /\ verdict' \in
       IF failed \/ ~TrafficUsable THEN {"ERROR"}
       ELSE IF ContractHolds /\ TrafficHolds THEN {"PASS", "FAIL", "ERROR"}
       ELSE {"FAIL", "ERROR"}
  /\ UNCHANGED <<lab, witnessed, scenario, boundary, traffic, todo, files, nfFiles, failed,
                 observed, duration, misread>>

-----------------------------------------------------------------------------
(* The parser's command line                                                *)

\* The place of a time in the sorted events: isoformat leaves out a fraction of
\* zero, and "12.500000Z" sorts before "12Z".
SortKey(t) == 2 * (t \div 2) + (IF t % 2 = 1 THEN 0 ELSE 1)

\* The times of the events of a kind; those without a timestamp are passed over.
Stamps(event) == {e.time : e \in {f \in Collected : event \in Classify(f.line)}} \ {NoTime}

\* Mutant: the last event of a kind.
LastTimestamp(event) ==
  LET times == Stamps(event)
  IN  IF times = {} THEN NoTime
      ELSE CHOOSE t \in times : \A u \in times : SortKey(u) <= SortKey(t)

\* first_timestamp over the sorted events.
FirstTimestamp(event) ==
  LET times == Stamps(event)
  IN  IF times = {} THEN NoTime
      ELSE CHOOSE t \in times : \A u \in times : SortKey(t) <= SortKey(u)

\* Mutant: missing events and a wrong order are not noticed.
DurationUnchecked(start, end) == end - start

\* duration_ms: none if one of the events is missing or they are out of order.
Duration(start, end) ==
  IF start = NoTime \/ end = NoTime \/ end < start THEN NoTime ELSE end - start

\* The files given to parse_attach_logs.py are parsed, sorted and summarized.
Summarize ==
  /\ pc = "given" /\ pc' = "summarized"
  /\ duration' = Duration(FirstTimestamp("request"), FirstTimestamp("accept"))
  /\ UNCHANGED <<lab, witnessed, scenario, boundary, traffic, todo, files, nfFiles, failed,
                 observed, verdict, misread>>

-----------------------------------------------------------------------------

\* Before a run begins, with or without an old line in a log.
RunInit ==
  /\ pc = "start" /\ created \in SUBSET Services
  /\ volume \in {{}} \union {{e} : e \in [service : created, line : ServiceLines, time : {0}]}
  /\ log = [s \in Services |-> {e \in volume : e.service = s}]
  /\ scenario \in Scenarios
  /\ files = [s \in Services |-> {}]

\* Or the parser's command line is given the log of some service.
FilesInit ==
  /\ pc = "given" /\ created = {} /\ volume = {} /\ log = [s \in Services |-> {}]
  /\ scenario = "baseline"
  /\ \E s \in Services :
       \E lines \in SUBSET [service : {s}, line : ServiceLines, time : 0 .. NoTime] :
         /\ Cardinality(lines) <= MaxGiven
         /\ files = [t \in Services |-> IF t = s THEN lines ELSE {}]

Init ==
  /\ RunInit \/ FilesInit
  /\ clock = 0 /\ boundary = 0
  /\ traffic = [code |-> 1, lines |-> {}]
  /\ todo = Services /\ nfFiles = {}
  /\ failed = FALSE /\ observed = {} /\ verdict = "none" /\ duration = NoTime
  /\ witnessed = {} /\ misread = {} /\ lost = {}

Run ==
  \/ Begin \/ TrafficTest \/ StageFails \/ StartCollect \/ CollectFails
  \/ \E s \in Services : Skip(s) \/ Copy(s)
  \/ EndCollect \/ Parse \/ Report \/ Summarize

Next == Lab \/ Run

Spec == Init /\ [][Next]_vars

-----------------------------------------------------------------------------
(* Properties                                                               *)

\* Type correctness of collection, parsing and verdict; a duration is never
\* negative.
TypeOK ==
  /\ clock \in 0 .. MaxTime /\ created \subseteq Services
  /\ log \in [Services -> SUBSET Entries] /\ volume \subseteq Entries
  /\ scenario \in Scenarios /\ boundary \in 0 .. MaxTime
  /\ pc \in {"start", "work", "collect", "copy", "parse", "report", "reported", "escaped",
             "given", "summarized"}
  /\ traffic \in [code : {0, 1, 4}, lines : SUBSET TrafficLines]
  /\ todo \subseteq Services /\ misread \subseteq Services /\ lost \subseteq Services
  /\ files \in [Services -> SUBSET Entries] /\ nfFiles \subseteq Entries
  /\ failed \in BOOLEAN
  /\ observed \subseteq UNION {Classify(l) : l \in ServiceLines \union TrafficLines}
  /\ verdict \in {"none", "PASS", "FAIL", "ERROR"}
  /\ duration \in 0 .. NoTime
  /\ witnessed \subseteq volume

\* As far as docker compose ps answers: a run that passed has seen every
\* forbidden event that was logged between its boundary and the collection by a
\* service that kept its container, although a copy may break off and lines are
\* logged while others are copied.  (collect_logs.sh:24-26, 48;
\* orchestration.py:283-299, 411-419, 454-456)
NoForbiddenMissed ==
  verdict = "PASS" =>
    \A e \in witnessed : e.service \in misread \union lost

\* docs/pre_merge_audit.md:7: "A UTC Docker-log boundary is recorded immediately
\* before injection; collection uses that boundary and fails closed."  A fault
\* run that passed has missed no forbidden line of a service that kept its
\* container.  (collect_logs.sh:22-30, 48)
CollectionFailsClosed ==
  verdict = "PASS" /\ scenario # "baseline" =>
    \A e \in witnessed : e.service \in lost

\* docs/pre_merge_audit.md:7: no verdict on old logs.  Each event a passing run
\* expected is on a line logged after its boundary, or in its own traffic
\* artifact, and a line that reports a negative outcome is no evidence of a
\* success.  (parser.py:223-230; orchestration.py:848-857)
PassOnCurrentLines ==
  verdict = "PASS" =>
    \A event \in Expected[scenario] :
      LET Shows(line) == event \in Matches(line) /\ (event \in Positive => ~Negative(line))
      IN  \/ \E e \in volume : e.time >= boundary /\ Shows(e.line)
          \/ \E line \in traffic.lines : Shows(line)

\* Of logs with requests and acceptances in different seconds the duration is
\* from the first request to the first acceptance that have a timestamp.
\* (parser.py:264-280, 331-333, 359)
DurationFromFirst ==
  LET Times(event) ==
        {e.time : e \in {f \in Collected : event \in Classify(f.line)}} \ {NoTime}
      times == Times("request") \union Times("accept")
      Earliest(ts) == CHOOSE t \in ts : \A u \in ts : t <= u
  IN  /\ pc = "summarized" /\ Times("request") # {} /\ Times("accept") # {}
      /\ \A t, u \in times : t # u => t \div 2 # u \div 2
      => LET start == Earliest(Times("request"))
             end == Earliest(Times("accept"))
         IN  duration = IF start <= end THEN end - start ELSE NoTime
=============================================================================
