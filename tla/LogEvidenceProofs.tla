------------------------- MODULE LogEvidenceProofs -------------------------
(***************************************************************************)
(* What the verdict of a run and the duration of a summary say about the     *)
(* logs, for any services and any number of lines, with containers that log  *)
(* and are recreated while collect_logs.sh copies.                          *)
(***************************************************************************)
EXTENDS LogEvidence, WellFoundedInduction, TLAPS

\* Nothing is collected before the traffic is over, everything is collected
\* when a run that has not failed is parsed, and a verdict comes last.
StageInv ==
  /\ pc = "start" => clock = 0
  /\ boundary <= clock
  /\ pc \in {"start", "work"} => witnessed = {}
  /\ pc \in {"start", "work", "collect"} =>
       todo = Services /\ \A s \in Services : files[s] = {}
  /\ pc \in {"parse", "report", "reported"} /\ ~failed => todo = {}
  /\ pc \in {"report", "reported"} => observed = Parsed
  /\ verdict # "none" => pc = "reported"
  /\ verdict = "PASS" => ~failed /\ ContractHolds
  /\ pc = "summarized" =>
       duration = Duration(FirstTimestamp("request"), FirstTimestamp("accept"))

\* A forbidden line stays in its container's log for as long as there is one.
Kept(e) == e \in log[e.service] /\ e.service \in created

\* It is on its way to a file, in the file, or the run has failed or missed it.
Traced(e) ==
  failed \/ e.service \in todo \union misread \union lost \/ e \in files[e.service]

WitnessInv ==
  \A e \in witnessed :
    /\ Classify(e.line) \intersect Forbidden[scenario] # {}
    /\ e.time >= boundary
    /\ e.service \in lost \/ Kept(e)
    /\ Traced(e)

\* Whatever a run has copied was logged after its boundary.
CurrentInv ==
  pc \notin {"given", "summarized"} =>
    \A s \in Services : log[s] \subseteq volume /\ files[s] \subseteq Since(volume)

EvidenceInv == TypeOK /\ StageInv /\ WitnessInv /\ CurrentInv

-----------------------------------------------------------------------------
(* Times and durations                                                      *)

\* A set of times has a least one.
LEMMA LeastTime ==
  ASSUME NEW T \in SUBSET Nat, T # {}
  PROVE  \E t \in T : \A u \in T : t <= u
<1>1. PICK t \in T : \A u \in T : ~(<<u, t>> \in OpToRel(<, Nat))
  BY NatLessThanWellFounded, WFMin, Zenon
<1>2. \A u \in T : ~(u < t)
  BY <1>1 DEF OpToRel
<1>3. QED
  BY <1>2

\* The place of a time in the sorted events is a number.
LEMMA SortKeyNat == \A t \in Nat : SortKey(t) \in Nat
  BY DEF SortKey

\* The sorted events have a first one.
LEMMA LeastKey ==
  ASSUME NEW T \in SUBSET Nat, T # {}
  PROVE  \E t \in T : \A u \in T : SortKey(t) <= SortKey(u)
<1> DEFINE K == {SortKey(t) : t \in T}
<1>1. K \in SUBSET Nat /\ K # {}
  BY SortKeyNat
<1>2. PICK k \in K : \A l \in K : k <= l
  <2> HIDE DEF K
  <2> QED BY <1>1, LeastTime
<1>3. PICK t \in T : k = SortKey(t)
  OBVIOUS
<1>4. QED
  BY <1>2, <1>3

\* The order of the sorted events is the order of their seconds.
LEMMA KeysOfSeconds ==
  ASSUME NEW t \in Nat, NEW u \in Nat, SortKey(t) <= SortKey(u), t \div 2 # u \div 2
  PROVE  t < u
  BY DEF SortKey

\* Timestamps are those of the clock or of a file.
LEMMA StampsTyped ==
  ASSUME TypeOK, NEW event
  PROVE  Stamps(event) \subseteq 0 .. MaxStamp
<1>1. MaxStamp \in Nat /\ NoTime = MaxStamp + 1
  BY BoundsAssumption DEF NoTime
<1>2. \A e \in Collected : e.time \in 0 .. NoTime
  BY DEF TypeOK, Collected, Entries
<1>3. \A t \in Stamps(event) : t \in 0 .. NoTime /\ t # NoTime
  BY <1>2 DEF Stamps
<1>4. QED
  BY <1>1, <1>3

\* first_timestamp is the first of the sorted events of a kind, if there is one.
LEMMA FirstIsFirst ==
  ASSUME TypeOK, NEW event
  PROVE  IF Stamps(event) = {} THEN FirstTimestamp(event) = NoTime
         ELSE /\ FirstTimestamp(event) \in Stamps(event)
              /\ \A u \in Stamps(event) : SortKey(FirstTimestamp(event)) <= SortKey(u)
<1>1. CASE Stamps(event) = {}
  BY <1>1 DEF FirstTimestamp
<1>2. CASE Stamps(event) # {}
  <2>1. Stamps(event) \in SUBSET Nat
    BY StampsTyped, BoundsAssumption
  <2>2. \E t \in Stamps(event) : \A u \in Stamps(event) : SortKey(t) <= SortKey(u)
    BY <1>2, <2>1, LeastKey
  <2>3. FirstTimestamp(event) =
          CHOOSE t \in Stamps(event) : \A u \in Stamps(event) : SortKey(t) <= SortKey(u)
    BY <1>2, Zenon DEF FirstTimestamp
  <2>4. QED
    BY <1>2, <2>2, <2>3, Zenon
<1>3. QED
  BY <1>1, <1>2

\* A duration is none or not negative.
LEMMA DurationTyped ==
  ASSUME TypeOK
  PROVE  Duration(FirstTimestamp("request"), FirstTimestamp("accept")) \in 0 .. NoTime
<1>1. MaxStamp \in Nat /\ NoTime = MaxStamp + 1
  BY BoundsAssumption DEF NoTime
<1>2. ASSUME NEW event
      PROVE  FirstTimestamp(event) \in 0 .. NoTime
  BY <1>1, StampsTyped, FirstIsFirst
<1>3. \A a, b \in 0 .. NoTime : Duration(a, b) \in 0 .. NoTime
  BY <1>1 DEF Duration
<1>4. QED
  BY <1>2, <1>3

-----------------------------------------------------------------------------
(* Types                                                                    *)

\* What is collected can be parsed to events that some pattern matches.
LEMMA ParsedTyped ==
  ASSUME TypeOK
  PROVE  Parsed \subseteq UNION {Classify(l) : l \in ServiceLines \union TrafficLines}
<1>1. \A e \in Collected : e.line \in ServiceLines
  BY DEF TypeOK, Collected, Entries
<1>2. traffic.lines \subseteq TrafficLines
  BY DEF TypeOK
<1>3. QED
  BY <1>1, <1>2 DEF Parsed, EventsOf

\* The lab: lines, the clock, containers.
LEMMA LabTypes ==
  ASSUME TypeOK, Lab
  PROVE  TypeOK'
<1>1. MaxTime \in Nat /\ MaxStamp \in Nat /\ MaxTime <= MaxStamp /\ NoTime = MaxStamp + 1
  BY BoundsAssumption DEF NoTime
<1>2. ASSUME NEW s \in Services, Replaced(s)
      PROVE  TypeOK'
  <2>1. /\ created' \subseteq Services /\ lost' \subseteq Services
        /\ log' \in [Services -> SUBSET Entries]
    BY <1>2 DEF Replaced, TypeOK
  <2>2. QED
    BY <1>2, <2>1 DEF Replaced, TypeOK, run
<1>3. ASSUME NEW s \in Services, NEW line \in ServiceLines, Emit(s, line)
      PROVE  TypeOK'
  <2> DEFINE entry == [service |-> s, line |-> line, time |-> clock]
  <2>1. entry \in Entries
    BY <1>1 DEF TypeOK, Entries
  <2>2. /\ log' = [log EXCEPT ![s] = @ \union {entry}]
        /\ volume' = volume \union {entry}
        /\ witnessed' \in {witnessed \union {entry}, witnessed}
    BY <1>3 DEF Emit
  <2> HIDE DEF entry
  <2>3. /\ log' \in [Services -> SUBSET Entries] /\ volume' \subseteq Entries
        /\ witnessed' \subseteq volume'
    BY <2>1, <2>2 DEF TypeOK
  <2>4. QED
    BY <1>3, <2>3 DEF Emit, TypeOK, run
<1>4. CASE Tick
  BY <1>1, <1>4 DEF Tick, TypeOK, run
<1>5. QED
  BY <1>2, <1>3, <1>4 DEF Lab

\* The run, stage by stage.
LEMMA RunTypes ==
  ASSUME TypeOK, pc = "start" => clock = 0, Run
  PROVE  TypeOK'
<1>1. MaxTime \in Nat \ {0}
  BY BoundsAssumption
<1>2. CASE Begin
  BY <1>1, <1>2 DEF Begin, TypeOK
<1>3. CASE TrafficTest
  <2>1. traffic' \in [code : {0, 1, 4}, lines : SUBSET TrafficLines]
    BY <1>3 DEF TrafficTest, TrafficLines
  <2>2. QED
    BY <1>3, <2>1 DEF TrafficTest, TypeOK, lab
<1>4. CASE StageFails \/ StartCollect \/ CollectFails
  BY <1>4 DEF StageFails, StartCollect, CollectFails, TypeOK, lab
<1>5. ASSUME NEW s \in Services, Skip(s)
      PROVE  TypeOK'
  BY <1>5 DEF Skip, TypeOK, lab
<1>6. ASSUME NEW s \in Services, Copy(s)
      PROVE  TypeOK'
  <2>1. files' \in [Services -> SUBSET Entries] /\ failed' \in BOOLEAN
    BY <1>6 DEF Copy, TypeOK, Since
  <2>2. QED
    BY <1>6, <2>1 DEF Copy, TypeOK, lab
<1>7. CASE EndCollect
  BY <1>7 DEF EndCollect, TypeOK, lab
<1>8. CASE Parse
  BY <1>8, ParsedTyped DEF Parse, TypeOK, lab
<1>9. CASE Report
  BY <1>9 DEF Report, TypeOK, lab
<1>10. CASE Summarize
  BY <1>10, DurationTyped DEF Summarize, TypeOK, lab
<1>11. QED
  BY <1>2, <1>3, <1>4, <1>5, <1>6, <1>7, <1>8, <1>9, <1>10 DEF Run

-----------------------------------------------------------------------------
(* Stages of a run                                                          *)

\* What a state function is made of decides its value.
LEMMA Frames ==
  /\ UNCHANGED <<files, traffic>> => Parsed' = Parsed
  /\ UNCHANGED <<scenario, observed>> => ContractHolds' = ContractHolds
  /\ UNCHANGED files => \A event : FirstTimestamp(event)' = FirstTimestamp(event)
<1>1. UNCHANGED files => Collected' = Collected
  BY DEF Collected
<1>2. UNCHANGED <<files, traffic>> => Parsed' = Parsed
  BY <1>1 DEF Parsed, EventsOf
<1>3. UNCHANGED <<scenario, observed>> => ContractHolds' = ContractHolds
  BY DEF ContractHolds
<1>4. UNCHANGED files => \A event : FirstTimestamp(event)' = FirstTimestamp(event)
  BY <1>1 DEF FirstTimestamp, Stamps
<1>5. QED
  BY <1>2, <1>3, <1>4

\* While logs are collected no stage ends by what the lab does.
LEMMA LabStages ==
  ASSUME TypeOK, StageInv, Lab
  PROVE  StageInv'
<1>1. /\ pc \in {"collect", "copy"} /\ clock' \in Nat /\ clock <= clock'
      /\ UNCHANGED run
  BY BoundsAssumption DEF Lab, Replaced, Emit, Tick, TypeOK
<1>2. QED
  BY <1>1, BoundsAssumption DEF StageInv, TypeOK, run

\* A stage of the run does what the next one relies on.
LEMMA RunStages ==
  ASSUME TypeOK, StageInv, Run
  PROVE  StageInv'
<1>1. CASE Begin
  BY <1>1, Frames, BoundsAssumption DEF Begin, StageInv, TypeOK
<1>2. CASE TrafficTest \/ StageFails \/ StartCollect \/ CollectFails
  BY <1>2, Frames DEF TrafficTest, StageFails, StartCollect, CollectFails, StageInv, TypeOK, lab
<1>3. ASSUME NEW s \in Services, Skip(s) \/ Copy(s)
      PROVE  StageInv'
  BY <1>3 DEF Skip, Copy, StageInv, TypeOK, lab
<1>4. CASE EndCollect
  BY <1>4 DEF EndCollect, StageInv, TypeOK, lab
<1>5. CASE Parse
  BY <1>5, Frames DEF Parse, StageInv, TypeOK, lab
<1>6. CASE Report
  BY <1>6, Frames DEF Report, StageInv, TypeOK, lab
<1>7. CASE Summarize
  <2>1. duration' = Duration(FirstTimestamp("request"), FirstTimestamp("accept"))'
    BY <1>7, Frames DEF Summarize, Duration
  <2>2. QED
    BY <1>7, <2>1 DEF Summarize, StageInv, TypeOK, lab
<1>8. QED
  BY <1>1, <1>2, <1>3, <1>4, <1>5, <1>6, <1>7 DEF Run

-----------------------------------------------------------------------------
(* Lines on their way into the files                                        *)

\* A forbidden line that is logged is one more to be collected; a container that
\* goes takes its lines with it and is on the record.
LEMMA LabTraces ==
  ASSUME TypeOK, StageInv, WitnessInv, CurrentInv, Lab
  PROVE  WitnessInv' /\ CurrentInv'
<1>1. \A e \in witnessed : e.service \in Services
  BY DEF TypeOK, Entries
<1>2. ASSUME NEW s \in Services, Replaced(s)
      PROVE  WitnessInv' /\ CurrentInv'
  <2>1. ASSUME NEW e \in witnessed
        PROVE  e.service \in lost' \/ Kept(e)'
    <3>1. CASE e.service = s
      BY <1>2, <3>1 DEF Replaced
    <3>2. CASE e.service # s
      BY <1>1, <1>2, <3>2 DEF Replaced, WitnessInv, Kept, TypeOK
    <3>3. QED
      BY <3>1, <3>2
  <2>2. WitnessInv'
    BY <1>2, <2>1 DEF Replaced, WitnessInv, Traced, run
  <2>3. CurrentInv'
    BY <1>2 DEF Replaced, CurrentInv, Since, TypeOK, run
  <2>4. QED
    BY <2>2, <2>3
<1>3. ASSUME NEW s \in Services, NEW line \in ServiceLines, Emit(s, line)
      PROVE  WitnessInv' /\ CurrentInv'
  <2>1. PICK entry : entry = [service |-> s, line |-> line, time |-> clock]
    OBVIOUS
  <2>2. /\ s \in created /\ entry.service = s /\ entry.time >= boundary
        /\ log' = [log EXCEPT ![s] = @ \union {entry}]
        /\ volume' = volume \union {entry}
        /\ entry.line = line
        /\ witnessed' \in {witnessed, witnessed \union {entry}}
        /\ witnessed' # witnessed =>
             pc = "collect" /\ Classify(line) \intersect Forbidden[scenario] # {}
        /\ UNCHANGED <<clock, created, lost, run>>
    BY <1>3, <2>1 DEF Emit, StageInv, TypeOK
  <2>3. \A t \in Services : log[t] \subseteq log'[t] /\ log'[t] \subseteq log[t] \union {entry}
    BY <2>2 DEF TypeOK
  <2>4. entry \in log'[s]
    BY <2>2 DEF TypeOK
  <2>5. ASSUME NEW e \in witnessed
        PROVE  /\ e.service \in lost' \/ Kept(e)'
               /\ Traced(e)'
    BY <1>1, <2>2, <2>3 DEF WitnessInv, Kept, Traced, run
  <2>6. witnessed' # witnessed => Kept(entry)' /\ Traced(entry)'
    BY <2>2, <2>4 DEF Kept, Traced, StageInv, run
  <2>7. WitnessInv'
    BY <2>2, <2>5, <2>6 DEF WitnessInv, run
  <2>8. CurrentInv'
    BY <2>2, <2>3 DEF CurrentInv, Since, run
  <2>9. QED
    BY <2>7, <2>8
<1>4. CASE Tick
  BY <1>4 DEF Tick, WitnessInv, Kept, Traced, CurrentInv, Since, run
<1>5. QED
  BY <1>2, <1>3, <1>4 DEF Lab

\* A service is passed over because it has lost its container or docker compose
\* ps failed, and a log that breaks off fails the run.
LEMMA RunTraces ==
  ASSUME TypeOK, StageInv, WitnessInv, CurrentInv, Run
  PROVE  WitnessInv' /\ CurrentInv'
<1>1. CASE Begin
  BY <1>1 DEF Begin, StageInv, WitnessInv, CurrentInv, Since
<1>2. CASE \/ TrafficTest \/ StageFails \/ StartCollect \/ CollectFails \/ EndCollect
           \/ Parse \/ Report \/ Summarize
  <2>1. UNCHANGED <<lab, witnessed, scenario, boundary, files, todo, misread>>
    BY <1>2 DEF TrafficTest, StageFails, StartCollect, CollectFails, EndCollect, Parse, Report,
       Summarize
  <2>2. failed => failed'
    BY <1>2 DEF TrafficTest, StageFails, StartCollect, CollectFails, EndCollect, Parse, Report,
       Summarize
  <2>3. pc' \notin {"given", "summarized"} => pc \notin {"given", "summarized"}
    BY <1>2 DEF TrafficTest, StageFails, StartCollect, CollectFails, EndCollect, Parse, Report,
       Summarize
  <2>4. QED
    BY <2>1, <2>2, <2>3 DEF WitnessInv, Kept, Traced, CurrentInv, Since, lab
<1>3. ASSUME NEW s \in Services, Skip(s)
      PROVE  WitnessInv' /\ CurrentInv'
  <2>1. ASSUME NEW e \in witnessed
        PROVE  Traced(e)'
    BY <1>3 DEF Skip, WitnessInv, Kept, Traced, lab
  <2>2. WitnessInv'
    BY <1>3, <2>1 DEF Skip, WitnessInv, Kept, lab
  <2>3. CurrentInv'
    BY <1>3 DEF Skip, CurrentInv, Since, lab
  <2>4. QED
    BY <2>2, <2>3
<1>4. ASSUME NEW s \in Services, Copy(s)
      PROVE  WitnessInv' /\ CurrentInv'
  <2>1. PICK copied \in SUBSET Since(log[s]) :
          /\ files' = [files EXCEPT ![s] = copied]
          /\ ~failed' => ~failed /\ copied = Since(log[s])
    BY <1>4 DEF Copy
  <2>2. \A t \in Services : files'[t] = IF t = s THEN copied ELSE files[t]
    BY <2>1 DEF TypeOK
  <2>3. UNCHANGED <<lab, witnessed, scenario, pc, boundary, misread>> /\ todo' = todo \ {s}
    BY <1>4 DEF Copy
  <2>4. ASSUME NEW e \in witnessed
        PROVE  Traced(e)'
    <3>1. e.service \in Services /\ e.time >= boundary
      BY DEF TypeOK, Entries, WitnessInv
    <3>2. CASE e.service = s
      BY <2>1, <2>2, <2>3, <3>1, <3>2 DEF WitnessInv, Kept, Traced, Since, lab
    <3>3. CASE e.service # s
      BY <2>1, <2>2, <2>3, <3>1, <3>3 DEF WitnessInv, Traced, lab
    <3>4. QED
      BY <3>2, <3>3
  <2>5. WitnessInv'
    BY <2>3, <2>4 DEF WitnessInv, Kept, lab
  <2>6. CurrentInv'
    <3>1. pc \notin {"given", "summarized"} => copied \subseteq Since(volume)
      BY <2>1 DEF CurrentInv, Since
    <3>2. QED
      BY <2>2, <2>3, <3>1 DEF CurrentInv, Since, lab
  <2>7. QED
    BY <2>5, <2>6
<1>5. QED
  BY <1>1, <1>2, <1>3, <1>4 DEF Run

-----------------------------------------------------------------------------
(* Theorems                                                                 *)

\* The inductive invariant of collection, parsing and verdict.
THEOREM EvidenceInvariant == Spec => []EvidenceInv
<1>1. Init => EvidenceInv
  <2> SUFFICES ASSUME Init
               PROVE  EvidenceInv
    OBVIOUS
  <2>1. /\ clock \in 0 .. MaxTime /\ boundary \in 0 .. MaxTime /\ boundary <= clock
        /\ NoTime \in 0 .. NoTime /\ 0 \in 0 .. NoTime
    BY BoundsAssumption DEF Init, NoTime
  <2>2. /\ created \subseteq Services /\ scenario \in Scenarios /\ pc \in {"start", "given"}
        /\ volume \subseteq Entries /\ log \in [Services -> SUBSET Entries]
        /\ files \in [Services -> SUBSET Entries]
    <3>1. CASE RunInit
      <4>1. volume \subseteq Entries
        BY <2>1, <3>1 DEF RunInit, Entries
      <4>2. QED
        BY <3>1, <4>1 DEF RunInit
    <3>2. CASE FilesInit
      <4>1. PICK s \in Services :
              \E lines \in SUBSET [service : {s}, line : ServiceLines, time : 0 .. NoTime] :
                files = [t \in Services |-> IF t = s THEN lines ELSE {}]
        BY <3>2 DEF FilesInit
      <4>2. [service : {s}, line : ServiceLines, time : 0 .. NoTime] \subseteq Entries
        BY DEF Entries
      <4>3. files \in [Services -> SUBSET Entries]
        BY <4>1, <4>2
      <4>4. QED
        BY <3>2, <4>3 DEF FilesInit, Scenarios
    <3>3. QED
      BY <3>1, <3>2 DEF Init
  <2>3. TypeOK
    BY <2>1, <2>2 DEF Init, TypeOK
  <2>4. StageInv
    BY <2>1, <2>2 DEF Init, RunInit, FilesInit, StageInv
  <2>5. WitnessInv /\ CurrentInv
    BY DEF Init, RunInit, FilesInit, WitnessInv, CurrentInv
  <2>6. QED
    BY <2>3, <2>4, <2>5 DEF EvidenceInv
<1>2. ASSUME EvidenceInv, [Next]_vars
      PROVE  EvidenceInv'
  <2>1. CASE Lab
    BY <1>2, <2>1, LabTypes, LabStages, LabTraces DEF EvidenceInv
  <2>2. CASE Run
    BY <1>2, <2>2, RunTypes, RunStages, RunTraces DEF EvidenceInv, StageInv
  <2>3. CASE UNCHANGED vars
    <3>1. TypeOK' /\ WitnessInv' /\ CurrentInv'
      BY <1>2, <2>3 DEF EvidenceInv, TypeOK, WitnessInv, Kept, Traced, CurrentInv, Since, vars,
         lab, run
    <3>2. StageInv'
      BY <1>2, <2>3, Frames DEF EvidenceInv, StageInv, Duration, vars, lab, run
    <3>3. QED
      BY <3>1, <3>2 DEF EvidenceInv
  <2>4. QED
    BY <1>2, <2>1, <2>2, <2>3 DEF Next
<1>3. QED
  BY <1>1, <1>2, PTL DEF Spec

\* TypeOK: types, and a duration is none or not negative.
THEOREM EvidenceTypeCorrect == Spec => []TypeOK
<1>1. EvidenceInv => TypeOK
  BY DEF EvidenceInv
<1>2. QED
  BY <1>1, EvidenceInvariant, PTL

\* NoForbiddenMissed: a forbidden line that a passing run did not see was lost
\* with its container, or docker compose ps failed.  (collect_logs.sh:22-30, 48)
THEOREM NoForbiddenMissedHolds == Spec => []NoForbiddenMissed
<1>1. EvidenceInv => NoForbiddenMissed
  <2> SUFFICES ASSUME EvidenceInv, verdict = "PASS", NEW e \in witnessed,
                      e.service \notin misread \union lost
               PROVE  FALSE
    BY DEF NoForbiddenMissed
  <2>1. /\ pc = "reported" /\ ~failed /\ todo = {} /\ observed = Parsed /\ ContractHolds
    BY DEF EvidenceInv, StageInv
  <2>2. e.service \in Services
    BY DEF EvidenceInv, TypeOK, Entries
  <2>3. e \in Collected
    BY <2>1, <2>2 DEF EvidenceInv, WitnessInv, Traced, Collected
  <2>4. Classify(e.line) \subseteq observed
    BY <2>1, <2>3 DEF Parsed, EventsOf
  <2>5. Classify(e.line) \intersect Forbidden[scenario] # {}
    BY DEF EvidenceInv, WitnessInv
  <2>6. QED
    BY <2>1, <2>4, <2>5 DEF ContractHolds
<1>2. QED
  BY <1>1, EvidenceInvariant, PTL

\* PassOnCurrentLines: what a passing run expected was logged after its boundary
\* or is in its own traffic artifact.  (parser.py:223-230; orchestration.py:848-857)
THEOREM PassOnCurrentLinesHolds == Spec => []PassOnCurrentLines
<1>1. EvidenceInv => PassOnCurrentLines
  <2> DEFINE Shows(event, line) ==
        event \in Matches(line) /\ (event \in Positive => ~Negative(line))
  <2> SUFFICES ASSUME EvidenceInv, verdict = "PASS", NEW event \in Expected[scenario]
               PROVE  \/ \E e \in volume : e.time >= boundary /\ Shows(event, e.line)
                      \/ \E line \in traffic.lines : Shows(event, line)
    BY DEF PassOnCurrentLines
  <2>1. pc = "reported" /\ observed = Parsed /\ ContractHolds
    BY DEF EvidenceInv, StageInv
  <2>2. event \in Parsed
    BY <2>1 DEF ContractHolds
  <2>3. \A line : event \in Classify(line) => Shows(event, line)
    BY DEF Classify
  <2>4. \A e \in Collected : e \in volume /\ e.time >= boundary
    BY <2>1 DEF EvidenceInv, CurrentInv, Collected, Since
  <2> HIDE DEF Shows
  <2>5. QED
    BY <2>2, <2>3, <2>4 DEF Parsed, EventsOf
<1>2. QED
  BY <1>1, EvidenceInvariant, PTL

\* DurationFromFirst: the text order of the sorted timestamps is the order of time
\* as long as the seconds differ.  (parser.py:264-280, 331-333, 359)
THEOREM DurationFromFirstHolds == Spec => []DurationFromFirst
<1>1. EvidenceInv => DurationFromFirst
  <2> DEFINE Earliest(ts) == CHOOSE t \in ts : \A u \in ts : t <= u
             times == Stamps("request") \union Stamps("accept")
  <2> SUFFICES ASSUME EvidenceInv, pc = "summarized",
                      Stamps("request") # {}, Stamps("accept") # {},
                      \A t, u \in times : t # u => t \div 2 # u \div 2
               PROVE  duration = IF Earliest(Stamps("request")) <= Earliest(Stamps("accept"))
                                 THEN Earliest(Stamps("accept")) - Earliest(Stamps("request"))
                                 ELSE NoTime
    BY Zenon DEF DurationFromFirst, Stamps
  <2>1. MaxStamp \in Nat /\ NoTime = MaxStamp + 1
    BY BoundsAssumption DEF NoTime
  <2>2. ASSUME NEW event \in {"request", "accept"}
        PROVE  /\ FirstTimestamp(event) \in 0 .. MaxStamp
               /\ FirstTimestamp(event) = Earliest(Stamps(event))
    <3> DEFINE first == FirstTimestamp(event)
    <3>1. Stamps(event) \subseteq 0 .. MaxStamp /\ Stamps(event) \subseteq times
      BY StampsTyped DEF EvidenceInv
    <3>2. first \in Stamps(event) /\ \A u \in Stamps(event) : SortKey(first) <= SortKey(u)
      BY FirstIsFirst DEF EvidenceInv
    <3> HIDE DEF first, times
    <3>3. \A u \in Stamps(event) : first <= u
      BY <2>1, <3>1, <3>2, KeysOfSeconds
    <3>4. \A t \in Stamps(event) : (\A u \in Stamps(event) : t <= u) => t = first
      BY <2>1, <3>1, <3>2, <3>3
    <3>5. first = Earliest(Stamps(event))
      BY <3>2, <3>3, <3>4
    <3>6. QED
      BY <3>1, <3>2, <3>5 DEF first
  <2>3. duration = Duration(FirstTimestamp("request"), FirstTimestamp("accept"))
    BY DEF EvidenceInv, StageInv
  <2> HIDE DEF Earliest
  <2>4. QED
    BY <2>1, <2>2, <2>3 DEF Duration
<1>2. QED
  BY <1>1, EvidenceInvariant, PTL
=============================================================================
