------------------------ MODULE CoreReadinessProofs ------------------------
(***************************************************************************)
(* What a ready verdict of wait_core_ready means, and how long it may take,  *)
(* for any core, any timeouts and any number of restarts.                   *)
(***************************************************************************)
EXTENDS CoreReadiness, SequenceTheorems, TLAPS

BetweenPolls == {"loop", "list", "inspect", "sleep"}

LogLines(s) ==
  [init : BOOLEAN, fatal : BOOLEAN, assoc : [Needs[s] -> {"none", "up", "down"}]]

\* What the containers have logged, and what a poll holds at each stage.
PollInv ==
  /\ DOMAIN log = Services /\ \A s \in Services : log[s] \in Seq(LogLines(s))
  /\ pc \in BetweenPolls => DOMAIN snapshot.of = {} /\ DOMAIN seen = {} /\ toRead = {}
  /\ pc \in {"logs", "evaluate", "passing"} => DOMAIN snapshot.of = listed
  /\ toRead \subseteq DOMAIN snapshot.of
  /\ \A s \in DOMAIN snapshot.of : snapshot.of[s].process \in Nat

\* A command or sleep ends before the deadline that its timeout was rounded to.
TimeInv ==
  /\ Waiting => clock <= until /\ until < Timeout + TicksPerSecond
  /\ clock < Timeout + TicksPerSecond

\* The stability window begins after the last pending poll.
WindowInv ==
  /\ pendingAt # Never => pendingAt <= clock
  /\ stableSince # Never => stableSince <= clock
  /\ stableSince # Never /\ pendingAt # Never => pendingAt <= stableSince
  /\ passed => /\ pc \in {"passing", "done"}
               /\ stableSince # Never /\ clock - stableSince >= StableSeconds

\* The identities compared are those of the processes first seen: each
\* inspection that lets the wait go on has been evaluated.
IdentityInv ==
  /\ pc \in BetweenPolls => identities = firstSeen
  /\ pc \in {"logs", "evaluate"} => \A s \in Services :
       firstSeen[s] = IF identities[s] = NoProcess /\ Running(s)
                      THEN snapshot.of[s].process ELSE identities[s]
  /\ PassedUndisturbed

-----------------------------------------------------------------------------
(* Types                                                                    *)

\* The lab acts on its own state only.
LEMMA LabFrame == LabStep => UNCHANGED <<clock, pc, until, poll, verdict>>
  BY DEF LabStep, ComposeUp, LogInitEnds, MongoBecomesHealthy, ContainerStarts, ProcessLogs,
         ProcessRestarts, ContainerExits

\* A timeout is a whole number of seconds, less than a second above the time
\* that remains.
LEMMA BudgetBound ==
  ASSUME NEW remaining \in Nat \ {0}
  PROVE  Budget(remaining) \in Nat /\ Budget(remaining) < remaining + TicksPerSecond
<1>1. TicksPerSecond \in Nat \ {0} /\ CommandLimit \in Nat \ {0}
  BY TimesAssumption
<1>2. /\ Ceiling(remaining) \in Nat /\ Ceiling(remaining) >= 1
      /\ TicksPerSecond * Ceiling(remaining) < remaining + TicksPerSecond
  BY <1>1 DEF Ceiling
<1>3. PICK seconds \in Nat :
        Budget(remaining) = TicksPerSecond * seconds /\ seconds <= Ceiling(remaining)
  BY <1>1, <1>2 DEF Budget, Least
<1>4. TicksPerSecond * seconds <= TicksPerSecond * Ceiling(remaining)
  BY <1>1, <1>2, <1>3
<1>5. TicksPerSecond * seconds \in Nat
  BY <1>1
<1>6. QED
  BY <1>1, <1>2, <1>3, <1>4, <1>5

\* What is appended or changed is a log line.
LEMMA LogsTyped ==
  ASSUME PollInv, LabStep
  PROVE  DOMAIN log' = Services /\ \A s \in Services : log'[s] \in Seq(LogLines(s))
<1>1. \A s \in Services : Quiet(s) \in LogLines(s)
  BY DEF Quiet, LogLines
<1>2. ASSUME NEW s \in Services, log' = [log EXCEPT ![s] = Append(@, Quiet(s))]
      PROVE  DOMAIN log' = Services /\ \A t \in Services : log'[t] \in Seq(LogLines(t))
  BY <1>1, <1>2 DEF PollInv
<1>3. ASSUME NEW s \in Services, ProcessLogs(s)
      PROVE  DOMAIN log' = Services /\ \A t \in Services : log'[t] \in Seq(LogLines(t))
  <2>1. log[s] \in Seq(LogLines(s)) /\ Process(s) = Len(log[s]) /\ Process(s) \in Nat
    BY <1>3 DEF PollInv, Process, ProcessLogs, Services
  <2>2. PICK next : /\ log' = [log EXCEPT ![s][Process(s)] = next]
                    /\ Process(s) > 0 => next \in LogLines(s)
    <3> DEFINE Nexts(now) ==
          {[now EXCEPT !.fatal = TRUE], [now EXCEPT !.init = TRUE]}
          \union {[now EXCEPT !.assoc[k] = IF @ = "up" THEN "down" ELSE "up"] :
                    k \in IF now.init THEN Needs[s] ELSE {}}
    <3>1. Process(s) > 0 => LastLine(s) \in LogLines(s)
      BY <2>1 DEF LastLine
    <3>2. \A now \in LogLines(s) : Nexts(now) \subseteq LogLines(s)
      <4>1. ASSUME NEW now \in LogLines(s)
            PROVE  /\ [now EXCEPT !.fatal = TRUE] \in LogLines(s)
                   /\ [now EXCEPT !.init = TRUE] \in LogLines(s)
                   /\ \A k \in Needs[s] :
                        [now EXCEPT !.assoc[k] = IF @ = "up" THEN "down" ELSE "up"]
                          \in LogLines(s)
        BY DEF LogLines
      <4>2. QED
        BY <4>1, Zenon
    <3>3. \E next \in Nexts(LastLine(s)) : log' = [log EXCEPT ![s][Process(s)] = next]
      BY <1>3, Zenon DEF ProcessLogs
    <3> HIDE DEF Nexts
    <3>4. QED
      BY ONLY <3>1, <3>2, <3>3, Zenon
  <2>3. [log[s] EXCEPT ![Process(s)] = next] \in Seq(LogLines(s))
    <3>1. CASE Process(s) > 0
      BY <2>1, <2>2, <3>1, ExceptSeq
    <3>2. CASE Process(s) = 0
      <4>1. [log[s] EXCEPT ![Process(s)] = next] = log[s]
        BY <2>1, <3>2
      <4>2. QED
        BY <2>1, <4>1
    <3>3. QED
      BY <2>1, <3>1, <3>2
  <2>4. QED
    BY <2>2, <2>3 DEF PollInv
<1>4. QED
  BY <1>2, <1>3 DEF LabStep, ComposeUp, LogInitEnds, MongoBecomesHealthy, ContainerStarts,
     ProcessRestarts, ContainerExits, PollInv

-----------------------------------------------------------------------------

\* Initially.
LEMMA ReaderInit == Init => TypeOK /\ PollInv /\ TimeInv /\ WindowInv /\ IdentityInv
<1> SUFFICES ASSUME Init PROVE TypeOK /\ PollInv /\ TimeInv /\ WindowInv /\ IdentityInv
  OBVIOUS
<1> USE DEF Init
<1>1. TypeOK
  BY DEF TypeOK, Stages, Details, NoSnapshot, NoLogs, NoProcess
<1>2. PollInv
  BY DEF PollInv, BetweenPolls, NoSnapshot, NoLogs
<1>3. TimeInv
  BY TimesAssumption DEF TimeInv, Waiting
<1>4. WindowInv
  BY DEF WindowInv
<1>5. IdentityInv
  BY DEF IdentityInv, PassedUndisturbed, BetweenPolls
<1>6. QED
  BY ONLY <1>1, <1>2, <1>3, <1>4, <1>5

\* Each step of the reader and of the lab keeps the types.
LEMMA TypesStep == ASSUME TypeOK, PollInv, [Next]_vars PROVE TypeOK' /\ PollInv'
<1>1. CASE UNCHANGED vars
  BY <1>1 DEF TypeOK, PollInv, vars, lab, poll, verdict
<1>2. CASE LabStep
  BY <1>2, LabFrame, LogsTyped DEF TypeOK, PollInv, poll, verdict
<1>3. CASE Tick
  BY <1>3 DEF Tick, TypeOK, PollInv, poll, verdict
<1>4. \A c \in Stages : Command(c) => until' \in Nat /\ pc' \in {c, "done"} /\ detail' \in Details
  BY BudgetBound, TimesAssumption DEF Command, Finish, TypeOK, Details
<1>5. CASE Loop
  BY <1>4, <1>5 DEF Loop, Finish, TypeOK, PollInv, lab, poll, BetweenPolls, Stages, Details
<1>6. CASE List
  BY <1>4, <1>6 DEF List, TypeOK, PollInv, lab, BetweenPolls, Stages, Details
<1>7. CASE Inspect
  <2>1. \A s \in Services : Process(s) \in Nat
    BY DEF PollInv, Process
  <2>2. QED
    BY <1>4, <1>7, <2>1
       DEF Inspect, Inspection, TypeOK, PollInv, lab, BetweenPolls, Stages, Details, Services
<1>8. CASE Logs
  BY <1>4, <1>8 DEF Logs, TypeOK, PollInv, lab, BetweenPolls, Stages, Details, Services
<1>9. CASE CommandFails
  BY <1>9 DEF CommandFails, Finish, Forget, NoSnapshot, NoLogs, TypeOK, PollInv, lab,
              BetweenPolls, Stages, Details
<1>10. CASE Evaluate
  <2>1. identities' \in [Services -> Nat]
    BY <1>10 DEF Evaluate, TypeOK, PollInv, Running
  <2>2. Sleep => until' \in Nat /\ pc' = "sleep"
    BY TimesAssumption DEF Sleep, Least, TypeOK
  <2>3. CASE pc' = "passing"
    <3>1. UNCHANGED <<until, poll, lab, firstSeen>> /\ passed' = TRUE /\ pc = "evaluate"
          /\ stableSince' \in {stableSince, clock} /\ UNCHANGED <<pendingAt, detail>>
      BY <1>10, <2>3 DEF Evaluate, Finish, Sleep
    <3>2. QED
      BY <2>1, <2>3, <3>1 DEF TypeOK, PollInv, lab, poll, BetweenPolls, Stages
  <2>4. CASE pc' # "passing"
    <3>1. Forget /\ UNCHANGED <<lab, firstSeen, passed>> /\ pc' \in {"sleep", "done"}
          /\ until' \in Nat /\ detail' \in Details
          /\ stableSince' \in {stableSince, Never, clock} /\ pendingAt' \in {pendingAt, clock}
      BY <1>10, <2>2, <2>4 DEF Evaluate, Finish, Sleep, Details
    <3>2. QED
      BY <2>1, <3>1 DEF Forget, NoSnapshot, NoLogs, TypeOK, PollInv, lab, BetweenPolls, Stages
  <2>5. QED
    BY <2>3, <2>4
<1>11. CASE Pass
  BY <1>11 DEF Pass, Finish, Forget, NoSnapshot, NoLogs, TypeOK, PollInv, lab,
              BetweenPolls, Stages, Details
<1>12. CASE Wake
  BY <1>12 DEF Wake, TypeOK, PollInv, lab, poll, verdict, BetweenPolls, Stages
<1>13. CASE Interrupt
  BY <1>13 DEF Interrupt, Finish, Forget, NoSnapshot, NoLogs, TypeOK, PollInv, lab,
              BetweenPolls, Stages, Details
<1>14. QED
  BY <1>1, <1>2, <1>3, <1>5, <1>6, <1>7, <1>8, <1>9, <1>10, <1>11, <1>12, <1>13
     DEF Next, Reader

\* The next command ends before the rounded deadline.
LEMMA CommandTime ==
  ASSUME TypeOK, clock < Timeout, NEW c, Command(c)
  PROVE  pc' = c /\ clock <= until' /\ until' < Timeout + TicksPerSecond /\ UNCHANGED detail
<1>1. Timeout - clock \in Nat \ {0} /\ clock \in Nat
  BY TimesAssumption DEF TypeOK
<1>2. /\ Budget(Timeout - clock) \in Nat
      /\ Budget(Timeout - clock) < (Timeout - clock) + TicksPerSecond
  BY <1>1, BudgetBound
<1>3. until' = clock + Budget(Timeout - clock) /\ pc' = c /\ UNCHANGED detail
  BY <1>1, TimesAssumption DEF Command
<1>4. QED
  BY <1>1, <1>2, <1>3, TimesAssumption

\* Time passes only before a deadline.
LEMMA TimeStep == ASSUME TypeOK, TimeInv, [Next]_vars PROVE TimeInv'
<1> USE DEF TimeInv, Waiting
<1>1. CASE UNCHANGED vars \/ LabStep
  BY <1>1, LabFrame DEF vars, lab
<1>2. CASE Tick
  BY <1>2, TimesAssumption DEF Tick, TypeOK
<1>3. ASSUME NEW c, Command(c), UNCHANGED clock PROVE TimeInv'
  <2>1. CASE clock < Timeout
    BY <1>3, <2>1, CommandTime
  <2>2. CASE ~(clock < Timeout)
    BY <1>3, <2>2 DEF Command, Finish
  <2>3. QED
    BY <2>1, <2>2
<1>4. ASSUME UNCHANGED clock, pc' \notin {"list", "inspect", "logs", "sleep"} PROVE TimeInv'
  BY <1>4
<1>5. CASE Loop \/ List \/ Inspect \/ Logs
  BY <1>3, <1>4, <1>5 DEF Loop, List, Inspect, Logs, lab, Finish
<1>6. CASE CommandFails \/ Pass \/ Interrupt \/ Wake
  BY <1>4, <1>6 DEF CommandFails, Pass, Interrupt, Wake, lab, Finish
<1>7. CASE Evaluate
  <2>1. UNCHANGED clock /\ (Sleep \/ pc' \in {"done", "passing"})
    BY <1>7 DEF Evaluate, Finish, lab
  <2>2. CASE Sleep
    BY <2>1, <2>2, TimesAssumption DEF Sleep, Least, TypeOK
  <2>3. QED
    BY <1>4, <2>1, <2>2
<1>8. QED
  BY <1>1, <1>2, <1>5, <1>6, <1>7 DEF Next, Reader

\* A poll that finds something pending closes the window; only a later one opens
\* it again.
LEMMA WindowStep == ASSUME TypeOK, WindowInv, [Next]_vars PROVE WindowInv'
<1> USE DEF WindowInv, Never
<1>1. ASSUME UNCHANGED <<stableSince, pendingAt, passed, clock>>,
             passed => pc' \in {"passing", "done"}
      PROVE  WindowInv'
  BY <1>1
<1>2. CASE UNCHANGED vars \/ LabStep
  BY <1>1, <1>2, LabFrame DEF vars, lab, verdict
<1>3. CASE Tick
  BY <1>3 DEF Tick, Waiting, TypeOK, verdict
<1>4. CASE Loop \/ List \/ Inspect \/ Logs \/ Wake
  BY <1>1, <1>4 DEF Loop, List, Inspect, Logs, Wake, lab, verdict
<1>5. CASE CommandFails \/ Pass \/ Interrupt
  BY <1>1, <1>5 DEF CommandFails, Pass, Interrupt, Finish, lab
<1>6. CASE Evaluate
  <2>1. ~passed /\ UNCHANGED clock /\ clock \in Nat /\ StableSeconds \in Nat
    BY <1>6, TimesAssumption DEF Evaluate, TypeOK, lab
  <2>2. \/ UNCHANGED <<stableSince, passed, pendingAt>>
        \/ stableSince' = Never /\ pendingAt' = clock /\ UNCHANGED passed
        \/ /\ stableSince' = IF stableSince = Never THEN clock ELSE stableSince
           /\ UNCHANGED pendingAt
           /\ UNCHANGED passed
              \/ (clock - stableSince' >= StableSeconds /\ pc' = "passing" /\ passed' = TRUE)
    BY <1>6 DEF Evaluate
  <2>3. QED
    BY <2>1, <2>2 DEF TypeOK
<1>7. QED
  BY <1>2, <1>3, <1>4, <1>5, <1>6 DEF Next, Reader

\* An inspection sees the process first seen or the evaluation that follows it
\* notices another one.
LEMMA IdentityStep == ASSUME TypeOK, PollInv, IdentityInv, [Next]_vars PROVE IdentityInv'
<1> USE DEF IdentityInv, BetweenPolls, PassedUndisturbed
<1>1. CASE UNCHANGED vars \/ LabStep \/ Tick
  <2>1. UNCHANGED <<pc, poll, verdict>>
    BY <1>1, LabFrame DEF vars, Tick
  <2>2. QED
    BY <2>1 DEF poll, verdict, Running
<1>2. CASE pc' = "done"
  BY <1>2
<1>3. CASE Loop
  BY <1>3 DEF Loop, Command, Finish, poll, Running
<1>4. CASE List
  BY <1>4 DEF List, Command, Finish, poll, Running
<1>5. CASE Inspect
  BY <1>5, <1>2 DEF Inspect, Inspection, Command, Finish, TypeOK, Running
<1>6. CASE Logs
  BY <1>6, <1>2 DEF Logs, Command, Finish, Running
<1>7. CASE Evaluate
  <2>1. CASE pc' = "sleep"
    <3>1. ~IdentityChanged /\ UNCHANGED firstSeen /\ pc = "evaluate"
          /\ identities' = [s \in Services |->
                             IF Running(s) THEN snapshot.of[s].process ELSE identities[s]]
      BY <1>7, <2>1 DEF Evaluate, Finish
    <3>2. \A s \in Services : identities'[s] = firstSeen'[s]
      BY <3>1 DEF IdentityChanged
    <3>3. firstSeen' \in [Services -> Nat] /\ identities' = [s \in Services |-> identities'[s]]
      BY <3>1 DEF TypeOK
    <3>4. identities' = firstSeen'
      BY <3>2, <3>3
    <3>5. QED
      BY <2>1, <3>4
  <2>2. CASE pc' = "passing"
    <3>1. ~Fatal /\ ~IdentityChanged /\ ~Pending /\ UNCHANGED <<firstSeen, poll>> /\ pc = "evaluate"
      BY <1>7, <2>2 DEF Evaluate, Finish, Sleep
    <3>2. \A s \in Services :
            Running(s) /\ snapshot.of[s].process = firstSeen[s] /\ snapshot.of[s].restarts = 0
      BY <3>1 DEF Fatal, Pending, IdentityChanged, Running
    <3>3. QED
      BY <2>2, <3>1, <3>2 DEF poll, Running
  <2>3. QED
    BY <1>2, <1>7, <2>1, <2>2 DEF Evaluate, Finish, Sleep
<1>8. CASE Wake
  BY <1>8 DEF Wake, verdict
<1>9. CASE CommandFails \/ Pass \/ Interrupt
  BY <1>2, <1>9 DEF CommandFails, Pass, Interrupt, Finish
<1>10. QED
  BY <1>1, <1>3, <1>4, <1>5, <1>6, <1>7, <1>8, <1>9 DEF Next, Reader

-----------------------------------------------------------------------------

ReadinessInv == TypeOK /\ PollInv /\ TimeInv /\ WindowInv /\ IdentityInv

\* The inductive invariant of the wait: types, deadlines, the window and the
\* identities compared.  (readiness.py:27-88, 107-168)
THEOREM ReadinessInvariant == Spec => []ReadinessInv
<1>1. Init => ReadinessInv
  BY ReaderInit DEF ReadinessInv
<1>2. ReadinessInv /\ [Next]_vars => ReadinessInv'
  BY TypesStep, TimeStep, WindowStep, IdentityStep DEF ReadinessInv
<1>3. QED
  BY <1>1, <1>2, PTL DEF Spec

\* The reader's locals have their types.  (readiness.py: wait_core_ready)
THEOREM ReaderTypeCorrect == Spec => []TypeOK
  BY ReadinessInvariant, PTL DEF ReadinessInv

\* A core found ready runs the processes first seen, with no restart counted,
\* as far as the last inspection can tell.  (readiness.py:82, 133-139)
THEOREM ReadyIsUndisturbed == Spec => []PassedUndisturbed
<1>1. ReadinessInv => PassedUndisturbed
  BY DEF ReadinessInv, IdentityInv
<1>2. QED
  BY <1>1, ReadinessInvariant, PTL

\* Nothing was pending for the length of the window.  (readiness.py:144-149)
THEOREM WindowIsReady == Spec => []ReadyThroughout
<1>1. ReadinessInv => ReadyThroughout
  BY TimesAssumption DEF ReadinessInv, WindowInv, ReadyThroughout, TypeOK, Never
<1>2. QED
  BY <1>1, ReadinessInvariant, PTL

\* The wait overruns its timeout by less than a second, whatever docker does.
\* (readiness.py:35-38, 155)
THEOREM WaitIsBounded == Spec => []BoundedWait
<1>1. ReadinessInv => BoundedWait
  BY DEF ReadinessInv, TimeInv, BoundedWait
<1>2. QED
  BY <1>1, ReadinessInvariant, PTL
=============================================================================
