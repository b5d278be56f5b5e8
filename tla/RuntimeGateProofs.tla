------------------------- MODULE RuntimeGateProofs -------------------------
(***************************************************************************)
(* On what evidence a baseline passes and a fault is let in, for any number  *)
(* of runs, edits, crashes and lost connections.                            *)
(***************************************************************************)
EXTENDS RuntimeGate, TLAPS

Contexts == [config : Configs, commit : Commits]

BaselineStages == {"prior", "stop ran", "start core", "core ready", "subscriber", "gnb up",
                   "ng setup", "ue up", "collect", "report"}

\* The containers as docker inspect shows them.
CoreType == [state : {"absent", "starting", "ready", "stopped"}, restarts : Nat,
             config : Configs \union {"none"}]
GnbType == [state : {"absent", "running", "stopped"}, restarts : Nat, ngap : BOOLEAN]
UeType == [state : {"absent", "running", "stopped"}, restarts : Nat,
           registered : BOOLEAN, session : BOOLEAN]
EntryType == [event : {"accept", "reject"}, now : BOOLEAN, own : BOOLEAN]
LabTyped ==
  /\ core \in CoreType /\ gnb \in GnbType /\ ue \in UeType
  /\ log \subseteq EntryType /\ events \subseteq EntryType

\* A fingerprint names the context it was taken in; git may be unreadable.
Names(fingerprint, context) ==
  fingerprint.config = context.config /\ fingerprint.commit \in {context.commit, "unknown"}

PrintInv == pc \notin {"idle", "context"} => Names(print, began)

\* Only runtime runs have written fingerprints, each its own.
FilesInv ==
  /\ used \in results \union {NoFile}
  /\ \A r \in results : r.print # NoPrint => r.runtime /\ Names(r.print, r.context)

\* What has been decided before each stage.
StageInv ==
  /\ pc \in BaselineStages => scenario = "baseline_e2e"
  /\ pc = "fault" \/ (pc = "check" /\ scenario # "baseline_e2e") => GateAccepts(used)
  /\ pc = "fault" => ~bad

\* A crash shows in the restart count until the container is replaced.
CrashInv ==
  /\ pc # "idle" => /\ "core" \in crashed => core.restarts > 0
                    /\ "gnb" \in crashed => gnb.restarts > 0
                    /\ "ue" \in crashed => ue.restarts > 0
  /\ held => "core" \notin crashed
  /\ missed # {} => bad

GateInv ==
  TypeOK /\ LabTyped /\ PrintInv /\ FilesInv /\ StageInv /\ CrashInv

-----------------------------------------------------------------------------

\* What docker does to a record of the core.
LEMMA CoreEdits ==
  ASSUME disk \in Contexts, NEW c \in CoreType
  PROVE  /\ NewCore \in CoreType /\ AbsentCore \in CoreType
         /\ NewCore.restarts = 0
         /\ [NewCore EXCEPT !.restarts = c.restarts + 1] \in CoreType
         /\ [NewCore EXCEPT !.restarts = c.restarts + 1].restarts = c.restarts + 1
         /\ \A st \in {"starting", "ready"} :
              /\ [c EXCEPT !.state = st] \in CoreType
              /\ [c EXCEPT !.state = st].restarts = c.restarts
         /\ Stopped(c) \in CoreType
  BY DEF CoreType, NewCore, AbsentCore, Contexts, Stopped

\* Of the gNB: it keeps its restart count unless it is new or crashed.
LEMMA GnbEdits ==
  ASSUME NEW c \in GnbType
  PROVE  /\ NewGnb \in GnbType /\ NoGnb \in GnbType /\ NewGnb.restarts = 0
         /\ [NewGnb EXCEPT !.restarts = c.restarts + 1] \in GnbType
         /\ [NewGnb EXCEPT !.restarts = c.restarts + 1].restarts = c.restarts + 1
         /\ \A b \in BOOLEAN : /\ [c EXCEPT !.ngap = b] \in GnbType
                              /\ [c EXCEPT !.ngap = b].restarts = c.restarts
         /\ [Stopped(c) EXCEPT !.ngap = FALSE] \in GnbType
         /\ [Stopped(c) EXCEPT !.ngap = FALSE].restarts = c.restarts
<1>1. NewGnb \in GnbType /\ NewGnb.restarts = 0
  BY DEF GnbType, NewGnb
<1>2. ASSUME NEW d \in GnbType
      PROVE  /\ \A n \in Nat : /\ [d EXCEPT !.restarts = n] \in GnbType
                             /\ [d EXCEPT !.restarts = n].restarts = n
             /\ \A b \in BOOLEAN : /\ [d EXCEPT !.ngap = b] \in GnbType
                                  /\ [d EXCEPT !.ngap = b].restarts = d.restarts
             /\ \A st \in {"absent", "stopped"} :
                  /\ [d EXCEPT !.state = st] \in GnbType
                  /\ [d EXCEPT !.state = st].restarts = d.restarts
  BY DEF GnbType
<1>3. c.restarts + 1 \in Nat
  BY DEF GnbType
<1>4. NoGnb \in GnbType
  BY <1>1, <1>2, Zenon DEF NoGnb
<1>5. Stopped(c) \in GnbType /\ Stopped(c).restarts = c.restarts
  BY <1>2, Zenon DEF Stopped
<1>6. QED
  BY <1>1, <1>2, <1>3, <1>4, <1>5, Zenon

\* And of the UE.
LEMMA UeEdits ==
  ASSUME NEW c \in UeType
  PROVE  /\ NewUe \in UeType /\ NoUe \in UeType /\ NewUe.restarts = 0
         /\ [NewUe EXCEPT !.restarts = c.restarts + 1] \in UeType
         /\ [NewUe EXCEPT !.restarts = c.restarts + 1].restarts = c.restarts + 1
         /\ \A b \in BOOLEAN : /\ [c EXCEPT !.registered = b] \in UeType
                              /\ [c EXCEPT !.registered = b].restarts = c.restarts
                              /\ [c EXCEPT !.session = b] \in UeType
                              /\ [c EXCEPT !.session = b].restarts = c.restarts
         /\ [c EXCEPT !.registered = FALSE, !.session = FALSE] \in UeType
         /\ [c EXCEPT !.registered = FALSE, !.session = FALSE].restarts = c.restarts
         /\ [Stopped(c) EXCEPT !.registered = FALSE, !.session = FALSE] \in UeType
         /\ [Stopped(c) EXCEPT !.registered = FALSE, !.session = FALSE].restarts = c.restarts
<1>1. NewUe \in UeType /\ NewUe.restarts = 0
  BY DEF UeType, NewUe
<1>2. ASSUME NEW d \in UeType
      PROVE  /\ \A n \in Nat : /\ [d EXCEPT !.restarts = n] \in UeType
                             /\ [d EXCEPT !.restarts = n].restarts = n
             /\ \A b \in BOOLEAN : /\ [d EXCEPT !.registered = b] \in UeType
                                  /\ [d EXCEPT !.registered = b].restarts = d.restarts
                                  /\ [d EXCEPT !.session = b] \in UeType
                                  /\ [d EXCEPT !.session = b].restarts = d.restarts
             /\ [d EXCEPT !.registered = FALSE, !.session = FALSE] \in UeType
             /\ [d EXCEPT !.registered = FALSE, !.session = FALSE].restarts = d.restarts
             /\ \A st \in {"absent", "stopped"} :
                  /\ [d EXCEPT !.state = st] \in UeType
                  /\ [d EXCEPT !.state = st].restarts = d.restarts
  BY DEF UeType
<1>3. c.restarts + 1 \in Nat
  BY DEF UeType
<1>4. NoUe \in UeType
  BY <1>1, <1>2, Zenon DEF NoUe
<1>5. Stopped(c) \in UeType /\ Stopped(c).restarts = c.restarts
  BY <1>2, Zenon DEF Stopped
<1>6. QED
  BY <1>1, <1>2, <1>3, <1>4, <1>5, Zenon

-----------------------------------------------------------------------------

\* A container that was never created.
LEMMA NoRan == NoGnb \in GnbType /\ NoUe \in UeType
<1>1. NewGnb \in GnbType /\ NewUe \in UeType
  BY DEF GnbType, NewGnb, UeType, NewUe
<1>2. QED
  BY <1>1, GnbEdits, UeEdits, Zenon

\* Initially.
LEMMA GateInit == Init => GateInv
<1> SUFFICES ASSUME Init PROVE GateInv
  OBVIOUS
<1> USE DEF Init
<1>1. TypeOK
  <2>1. pc \in Points /\ runs \in 0 .. MaxRuns /\ step \in 0 .. Len(Checks) + 1
    BY BoundsAssumption DEF Points, Checks
  <2>2. {failed, bad, held, ngSeen, subscriber} \subseteq BOOLEAN
    BY Zenon
  <2>3. QED
    BY <2>1, <2>2 DEF TypeOK
<1>2. LabTyped
  BY NoRan DEF LabTyped, CoreType, AbsentCore
<1>3. PrintInv /\ FilesInv /\ StageInv /\ CrashInv
  BY DEF PrintInv, FilesInv, StageInv, CrashInv, BaselineStages
<1>4. QED
  BY <1>1, <1>2, <1>3 DEF GateInv

\* What the lab does by itself: a crash shows in a restart count, and ends the
\* stability window if the core is concerned.
LEMMA LabEffects ==
  ASSUME GateInv, LabStep
  PROVE  /\ LabTyped' /\ CrashInv'
         /\ UNCHANGED <<checkout, pc, runs, run, progress, results, subscriber>>
         /\ held' \in BOOLEAN /\ crashed' \subseteq {"core", "gnb", "ue"}
<1> USE DEF GateInv, LabTyped
<1> Entry("accept") \in EntryType /\ Entry("reject") \in EntryType
  BY DEF Entry, EntryType
<1> disk \in Contexts /\ held \in BOOLEAN /\ crashed \subseteq {"core", "gnb", "ue"}
  BY DEF TypeOK, Contexts
<1>1. CASE CoreInitialises
  BY <1>1, CoreEdits DEF CoreInitialises, InLab, CrashInv, progress, checkout
<1>2. CASE GnbConnects
  BY <1>2, GnbEdits DEF GnbConnects, InLab, CrashInv, progress, checkout
<1>3. CASE UeRegisters
  <2>1. subscriber \in BOOLEAN
    BY DEF TypeOK
  <2>2. QED
    BY <1>3, <2>1, UeEdits DEF UeRegisters, InLab, CrashInv, progress, checkout
<1>4. CASE UeOpensSession
  BY <1>4, UeEdits DEF UeOpensSession, InLab, CrashInv, progress, checkout
<1> DEFINE Frame == UNCHANGED <<checkout, pc, runs, run, progress, results, subscriber, log>>
<1>5. CASE CoreCrashes
  <2>1. /\ Frame
        /\ core' = [NewCore EXCEPT !.restarts = core.restarts + 1]
        /\ gnb' = [gnb EXCEPT !.ngap = FALSE] /\ UNCHANGED ue
        /\ crashed' = crashed \union {"core"} /\ held' = FALSE
    BY <1>5, Zenon DEF CoreCrashes, Trouble, InLab
  <2>2. core'.restarts = core.restarts + 1 /\ core.restarts \in Nat /\ core' \in CoreType
    BY <2>1, CoreEdits DEF CoreType
  <2>3. gnb'.restarts = gnb.restarts /\ gnb' \in GnbType
    BY <2>1, FALSE \in BOOLEAN, GnbEdits, Zenon
  <2>4. core'.restarts > 0
    BY <2>2
  <2>5. LabTyped' /\ CrashInv'
    BY <2>1, <2>2, <2>3, <2>4, Zenon DEF CrashInv, progress
  <2>6. QED
    BY <2>1, <2>5, Zenon DEF progress
<1>6. CASE GnbCrashes
  <2>1. /\ Frame
        /\ gnb' = [NewGnb EXCEPT !.restarts = gnb.restarts + 1]
        /\ crashed' = crashed \union {"gnb"} /\ UNCHANGED <<core, ue, held>>
    BY <1>6, Zenon DEF GnbCrashes, Trouble, InLab
  <2>2. gnb'.restarts = gnb.restarts + 1 /\ gnb.restarts \in Nat /\ gnb' \in GnbType
    BY <2>1, GnbEdits DEF GnbType
  <2>3. QED
    BY <2>1, <2>2 DEF CrashInv, progress
<1>7. CASE UeCrashes
  <2>1. /\ Frame
        /\ ue' = [NewUe EXCEPT !.restarts = ue.restarts + 1]
        /\ crashed' = crashed \union {"ue"} /\ UNCHANGED <<core, gnb, held>>
    BY <1>7, Zenon DEF UeCrashes, Trouble, InLab
  <2>2. ue'.restarts = ue.restarts + 1 /\ ue.restarts \in Nat /\ ue' \in UeType
    BY <2>1, UeEdits DEF UeType
  <2>3. QED
    BY <2>1, <2>2 DEF CrashInv, progress
<1>8. CASE ConnectionLost
  <2>1. /\ Frame /\ UNCHANGED crashed
        /\ \/ /\ core' = [core EXCEPT !.state = "starting"] /\ held' = FALSE
              /\ UNCHANGED <<gnb, ue>>
           \/ gnb' = [gnb EXCEPT !.ngap = FALSE] /\ UNCHANGED <<core, ue, held>>
           \/ /\ ue' = [ue EXCEPT !.registered = FALSE, !.session = FALSE]
              /\ UNCHANGED <<core, gnb, held>>
    BY <1>8, Zenon DEF ConnectionLost, Trouble, InLab
  <2>2. /\ core' \in CoreType /\ core'.restarts = core.restarts
        /\ gnb' \in GnbType /\ gnb'.restarts = gnb.restarts
        /\ ue' \in UeType /\ ue'.restarts = ue.restarts
    <3>1. "starting" \in {"starting", "ready"} /\ FALSE \in BOOLEAN
      OBVIOUS
    <3>2. QED
      BY <2>1, <3>1, CoreEdits, GnbEdits, UeEdits, Zenon
  <2>3. (held' => held) /\ UNCHANGED <<pc, crashed, bad, missed, log, events>> /\ CrashInv
    <3>1. held' => held
      BY <2>1
    <3>2. UNCHANGED <<pc, crashed, bad, missed, log, events>>
      BY <2>1, Zenon DEF progress
    <3>3. QED
      BY <3>1, <3>2
  <2>4. LabTyped' /\ CrashInv'
    BY ONLY <2>2, <2>3, LabTyped, Zenon DEF CrashInv, LabTyped
  <2>5. held' \in BOOLEAN
    BY <2>1, Zenon
  <2>6. QED
    BY <2>1, <2>4, <2>5, Zenon
<1>9. QED
  BY <1>1, <1>2, <1>3, <1>4, <1>5, <1>6, <1>7, <1>8 DEF LabStep

Parties == {"core", "gnb", "ue"}

\* A step that leaves the run's own decisions alone.
LEMMA Undecided ==
  ASSUME GateInv, LabTyped', CrashInv', UNCHANGED <<pc, runs, run, progress, results>>,
         disk' \in Contexts, held' \in BOOLEAN, subscriber' \in BOOLEAN, crashed' \subseteq Parties
  PROVE  GateInv'
<1>1. PrintInv' /\ FilesInv' /\ StageInv'
  BY DEF GateInv, run, progress, PrintInv, FilesInv, StageInv, GateAccepts
<1>2. TypeOK'
  <2>1. {failed, bad, held, ngSeen, subscriber}' \subseteq BOOLEAN
    BY Zenon DEF GateInv, TypeOK, progress
  <2>2. \A entry \in log' \union events' : entry.event \in {"accept", "reject"}
    BY DEF GateInv, TypeOK, LabTyped, EntryType, progress
  <2>3. crashed' \union missed' \subseteq Parties
    BY DEF GateInv, TypeOK, progress, Parties
  <2>4. QED
    BY <2>1, <2>2, <2>3 DEF GateInv, TypeOK, run, progress, Contexts, Parties
<1>3. QED
  BY <1>1, <1>2 DEF GateInv

\* The lab by itself, the operator, and a run on fixture logs.
LEMMA OutsideStep ==
  ASSUME GateInv, LabStep \/ Edit \/ ByHand \/ FixtureRun \/ UNCHANGED vars PROVE GateInv'
<1> disk \in Contexts /\ held \in BOOLEAN /\ subscriber \in BOOLEAN /\ crashed \subseteq Parties
  BY DEF GateInv, TypeOK, Contexts, Parties
<1>1. CASE LabStep
  BY <1>1, LabEffects, Undecided DEF checkout, Parties
<1>2. CASE Edit
  <2>1. LabTyped' /\ CrashInv'
    BY <1>2 DEF Edit, GateInv, LabTyped, CrashInv, lab, progress
  <2>2. QED
    BY <1>2, <2>1, Undecided DEF Edit, lab, Contexts
<1>3. CASE ByHand
  <2>1. LabTyped' /\ CrashInv'
    BY <1>3, CoreEdits, NoRan, GnbEdits, UeEdits DEF ByHand, GateInv, LabTyped, CrashInv, progress
  <2>2. QED
    BY <1>3, <2>1, Undecided DEF ByHand, checkout
<1>4. CASE UNCHANGED vars
  BY <1>4, Undecided DEF vars, checkout, lab, progress, GateInv, LabTyped, CrashInv
<1>5. CASE FixtureRun
  <2> DEFINE file == [NoFile EXCEPT !.scenario = "baseline_e2e", !.status = "PASS", !.ready = TRUE]
  <2>1. file.print = NoPrint /\ file.status = "PASS" /\ file.runtime = FALSE
    BY DEF NoFile
  <2>2. /\ results' = results \union {file}
        /\ UNCHANGED <<checkout, lab, pc, runs, run, progress, held>>
    BY <1>5 DEF FixtureRun
  <2> HIDE DEF file
  <2>3. FilesInv'
    BY <2>1, <2>2 DEF GateInv, FilesInv, run
  <2>4. TypeOK'
    BY <2>1, <2>2 DEF GateInv, TypeOK, Statuses, checkout, lab, run, progress
  <2>5. LabTyped' /\ PrintInv' /\ StageInv' /\ CrashInv'
    BY <2>2 DEF GateInv, LabTyped, PrintInv, StageInv, CrashInv, GateAccepts,
                lab, run, progress
  <2>6. QED
    BY <2>3, <2>4, <2>5 DEF GateInv
<1>6. QED
  BY <1>1, <1>2, <1>3, <1>4, <1>5

-----------------------------------------------------------------------------
(* The runs                                                                 *)

\* Aging an entry leaves its event alone.
LEMMA Aged ==
  ASSUME log \subseteq EntryType
  PROVE  Old(log) \subseteq EntryType
<1>1. ASSUME NEW entry \in EntryType PROVE [entry EXCEPT !.now = FALSE, !.own = FALSE] \in EntryType
  BY DEF EntryType
<1>2. QED
  BY <1>1 DEF Old

\* A result file that is in order.
Orderly(file) ==
  /\ file.status \in Statuses /\ (file.runtime => file.print \in Prints)
  /\ file.print # NoPrint => file.runtime /\ Names(file.print, file.context)

\* A run's fingerprint goes into its result with the context it was taken in.
LEMMA WriteKeeps ==
  ASSUME GateInv, pc \notin {"idle", "context"}, NEW status \in Statuses, NEW ready,
         WriteResult(status, ready)
  PROVE  \A r \in results' : Orderly(r)
<1> DEFINE file == [scenario |-> scenario, status |-> status, ready |-> ready, print |-> print,
                    runtime |-> TRUE, context |-> began]
<1>1. Orderly(file)
  BY DEF GateInv, TypeOK, PrintInv, Orderly, Prints
<1>2. results' = results \union {file}
  BY DEF WriteResult
<1> HIDE DEF file
<1>3. QED
  BY <1>1, <1>2 DEF GateInv, TypeOK, FilesInv, Orderly

\* Back to the shell.
LEMMA LeaveKeeps ==
  ASSUME GateInv, Leave, UNCHANGED <<checkout, subscriber, runs>>,
         core' \in CoreType, gnb' \in GnbType, ue' \in UeType, \A r \in results' : Orderly(r)
  PROVE  GateInv'
<1> USE DEF Leave
<1>1. LabTyped'
  BY Aged DEF LabTyped, GateInv
<1>2. TypeOK'
  <2>1. {failed, bad, held, ngSeen, subscriber}' \subseteq BOOLEAN
    BY Zenon DEF GateInv, TypeOK
  <2>2. \A entry \in log' \union events' : entry.event \in {"accept", "reject"}
    BY <1>1 DEF LabTyped, EntryType
  <2>3. step' \in 0 .. Len(Checks) + 1 /\ step' = 0 /\ pc' \in Points
    BY DEF Checks, Points
  <2>4. QED
    BY <2>1, <2>2, <2>3 DEF GateInv, TypeOK, checkout, Orderly
<1>3. PrintInv' /\ FilesInv' /\ StageInv' /\ CrashInv'
  BY DEF PrintInv, FilesInv, StageInv, CrashInv, Orderly, BaselineStages
<1>4. QED
  BY <1>1, <1>2, <1>3 DEF GateInv

\* One stage of a baseline after another, up to the report.
LEMMA Onward ==
  ASSUME GateInv, LabTyped', CrashInv', UNCHANGED <<disk, runs, run, results>>,
         pc \in BaselineStages, pc' \in BaselineStages \union {"check"},
         step' \in 0 .. Len(Checks) + 1, step' > 0 => pc' = "check",
         failed' \in BOOLEAN, bad' \in BOOLEAN, held' \in BOOLEAN, ngSeen' \in BOOLEAN,
         subscriber' \in BOOLEAN, crashed' \union missed' \subseteq Parties,
         own' \subseteq {"gnb", "ue"}
  PROVE  GateInv'
<1>1. TypeOK'
  <2>1. {failed, bad, held, ngSeen, subscriber}' \subseteq BOOLEAN
    BY Zenon
  <2>2. \A entry \in log' \union events' : entry.event \in {"accept", "reject"}
    BY DEF LabTyped, EntryType
  <2>3. pc' \in Points /\ pc \notin {"idle", "context"} /\ pc' \notin {"idle", "context"}
    BY DEF BaselineStages, Points
  <2>4. QED
    BY <2>1, <2>2, <2>3 DEF GateInv, TypeOK, run, Parties
<1>2. PrintInv' /\ FilesInv' /\ StageInv'
  BY DEF GateInv, PrintInv, FilesInv, StageInv, BaselineStages, run
<1>3. QED
  BY <1>1, <1>2 DEF GateInv

\* The eight stages of a baseline, wait_for_ng_setup, the logs.
LEMMA StageStep ==
  ASSUME GateInv,
         \/ CollectPrior \/ StopRan \/ StartCore \/ CoreReady \/ AddSubscriber
         \/ GnbUp \/ NgSetup \/ UeUp \/ Collect
  PROVE  GateInv'
<1> USE DEF GateInv
<1>1. /\ disk \in Contexts /\ failed \in BOOLEAN /\ bad \in BOOLEAN /\ held \in BOOLEAN
      /\ ngSeen \in BOOLEAN /\ subscriber \in BOOLEAN /\ crashed \union missed \subseteq Parties
      /\ own \subseteq {"gnb", "ue"}
      /\ step \in 0 .. Len(Checks) + 1 /\ (step > 0 => pc = "check")
  BY DEF TypeOK, Contexts, Parties
<1>2. CASE CollectPrior
  <2>1. /\ UNCHANGED <<disk, runs, run, results, lab, held, own, ngSeen, bad, missed, step, events>>
        /\ pc = "prior" /\ pc' \in {"stop ran", "collect"} /\ failed' \in BOOLEAN
    BY <1>2, Zenon DEF CollectPrior, Stage, checkout, lab
  <2>2. LabTyped' /\ CrashInv'
    BY <2>1 DEF LabTyped, CrashInv, lab
  <2>3. QED
    BY <1>1, <2>1, <2>2, Onward DEF BaselineStages, lab
<1>3. CASE StopRan
  <2>1. /\ UNCHANGED <<disk, runs, run, results, core, subscriber, log, crashed, held, own, ngSeen,
                       bad, missed, step, events>>
        /\ pc = "stop ran" /\ pc' \in {"start core", "collect"} /\ failed' \in BOOLEAN
        /\ gnb' \in {gnb, [Stopped(gnb) EXCEPT !.ngap = FALSE]}
        /\ ue' \in {ue, [Stopped(ue) EXCEPT !.registered = FALSE, !.session = FALSE]}
    BY <1>3, Zenon DEF StopRan, Stage, checkout
  <2>2. /\ gnb' \in GnbType /\ gnb'.restarts = gnb.restarts
        /\ ue' \in UeType /\ ue'.restarts = ue.restarts
    BY <2>1, GnbEdits, UeEdits, Zenon DEF LabTyped
  <2>3. LabTyped' /\ CrashInv'
    BY <2>1, <2>2 DEF LabTyped, CrashInv
  <2>4. QED
    BY <1>1, <2>1, <2>3, Onward DEF BaselineStages
<1>4. CASE StartCore
  <2>1. /\ UNCHANGED <<disk, runs, run, results, gnb, ue, subscriber, log, held, own, ngSeen,
                       bad, missed, step, events>>
        /\ pc = "start core" /\ pc' \in {"core ready", "collect"} /\ failed' \in BOOLEAN
        /\ \/ UNCHANGED <<core, crashed>>
           \/ core' = NewCore /\ crashed' = crashed \ {"core"}
    BY <1>4, Zenon DEF StartCore, Stage, checkout
  <2>2. core' \in CoreType /\ crashed' \subseteq crashed
        /\ ("core" \in crashed' => UNCHANGED core)
    BY <1>1, <2>1, CoreEdits DEF LabTyped
  <2>3. LabTyped' /\ CrashInv'
    BY <2>1, <2>2 DEF LabTyped, CrashInv
  <2>4. QED
    BY <1>1, <2>1, <2>2, <2>3, Onward DEF BaselineStages
<1>5. CASE CoreReady
  <2>1. /\ UNCHANGED <<disk, runs, run, results, lab, own, ngSeen, bad, missed, step, events>>
        /\ pc = "core ready" /\ pc' \in {"subscriber", "collect"} /\ failed' \in BOOLEAN
        /\ held' = FALSE
    BY <1>5, Zenon DEF CoreReady, checkout
  <2>2. LabTyped' /\ CrashInv'
    BY <2>1 DEF LabTyped, CrashInv, lab
  <2>3. QED
    BY <1>1, <2>1, <2>2, Onward DEF BaselineStages, lab
<1>6. CASE AddSubscriber
  <2>1. /\ UNCHANGED <<disk, runs, run, results, core, gnb, ue, log, crashed, held, own, ngSeen,
                       bad, missed, step, events>>
        /\ pc = "subscriber" /\ pc' \in {"gnb up", "collect"} /\ failed' \in BOOLEAN
        /\ subscriber' \in {TRUE, subscriber}
    BY <1>6, Zenon DEF AddSubscriber, Stage, checkout
  <2>2. LabTyped' /\ CrashInv'
    BY <2>1 DEF LabTyped, CrashInv
  <2>3. QED
    BY <1>1, <2>1, <2>2, Onward DEF BaselineStages
<1>7. CASE GnbUp
  <2>1. /\ UNCHANGED <<disk, runs, run, results, core, ue, subscriber, log, held, ngSeen, bad,
                       missed, step, events>>
        /\ pc = "gnb up" /\ pc' \in {"ng setup", "collect"} /\ failed' \in BOOLEAN
        /\ \/ gnb' = NewGnb /\ crashed' = crashed \ {"gnb"} /\ own' = own \union {"gnb"}
           \/ UNCHANGED <<gnb, crashed, own>>
    BY <1>7, Zenon DEF GnbUp, Stage, checkout
  <2>2. LabTyped' /\ CrashInv'
    BY <2>1, GnbEdits DEF LabTyped, CrashInv
  <2>3. QED
    BY <1>1, <2>1, <2>2, Onward DEF BaselineStages
<1>8. CASE NgSetup
  <2>1. /\ UNCHANGED <<disk, runs, run, results, lab, held, failed, missed, own, step, events>>
        /\ pc = "ng setup" /\ pc' \in {"ue up", "collect"}
        /\ bad' \in {TRUE, bad} /\ ngSeen' \in {"gnb" \in own, ngSeen}
    BY <1>8, Zenon DEF NgSetup, checkout
  <2>2. bad' \in BOOLEAN /\ ngSeen' \in BOOLEAN /\ (bad => bad')
    <3>1. ("gnb" \in own) \in BOOLEAN
      OBVIOUS
    <3>2. bad' = TRUE \/ bad' = bad
      BY <2>1
    <3>3. ngSeen' = ("gnb" \in own) \/ ngSeen' = ngSeen
      BY <2>1
    <3>4. QED
      BY <1>1, <3>1, <3>2, <3>3, Zenon
  <2>3. LabTyped' /\ CrashInv'
    BY <2>1, <2>2 DEF LabTyped, CrashInv, lab
  <2>4. /\ UNCHANGED <<disk, runs, run, results, lab, held, failed, missed, own, step>>
        /\ pc = "ng setup" /\ pc' \in {"ue up", "collect"}
    BY <2>1
  <2>5. QED
    BY <1>1, <2>2, <2>3, <2>4, Onward DEF BaselineStages, lab
<1>9. CASE UeUp
  <2>1. /\ UNCHANGED <<disk, runs, run, results, core, gnb, subscriber, log, held, ngSeen, bad,
                       missed, events>>
        /\ pc = "ue up" /\ failed' \in BOOLEAN
        /\ (pc' = "check" /\ step' = 1) \/ (pc' = "collect" /\ step' = 0)
        /\ \/ ue' = NewUe /\ crashed' = crashed \ {"ue"} /\ own' = own \union {"ue"}
           \/ UNCHANGED <<ue, crashed, own>>
    BY <1>9, Zenon DEF UeUp, checkout
  <2>2. LabTyped' /\ CrashInv'
    BY <2>1, UeEdits DEF LabTyped, CrashInv
  <2>3. Len(Checks) + 1 = 12
    BY DEF Checks
  <2>4. step' \in 0 .. Len(Checks) + 1 /\ (step' > 0 => pc' = "check")
    <3>1. step' \in 0 .. 12 /\ (step' > 0 => pc' = "check")
      <4>1. CASE pc' = "check" /\ step' = 1
        BY <4>1
      <4>2. CASE pc' = "collect" /\ step' = 0
        BY <4>2
      <4>3. QED
        BY <2>1, <4>1, <4>2
    <3>2. QED
      BY <2>3, <3>1, Zenon
  <2>5. crashed' \union missed' \subseteq Parties /\ own' \subseteq {"gnb", "ue"}
    BY <1>1, <2>1
  <2>6. /\ pc \in BaselineStages /\ pc' \in BaselineStages \union {"check"}
    BY <2>1 DEF BaselineStages
  <2>7. QED
    BY <1>1, <2>1, <2>2, <2>4, <2>5, <2>6, Onward
<1>10. CASE Collect
  <2>1. /\ UNCHANGED <<disk, runs, run, results, lab, held, own, ngSeen, bad, missed, step>>
        /\ pc = "collect" /\ pc' = "report" /\ failed' \in BOOLEAN
        /\ events' \in {{}, SinceStart(log)}
    BY <1>10, <1>1, Zenon DEF Collect, checkout
  <2>2. LabTyped' /\ CrashInv'
    BY <2>1 DEF LabTyped, CrashInv, lab, SinceStart
  <2>3. QED
    BY <1>1, <2>1, <2>2, Onward DEF BaselineStages, lab
<1>11. QED
  BY <1>2, <1>3, <1>4, <1>5, <1>6, <1>7, <1>8, <1>9, <1>10

\* A run begins; what was logged before is old to it.
LEMMA StartStep ==
  ASSUME GateInv, NEW s \in {"baseline_e2e", "fault"}, StartRun(s) PROVE GateInv'
<1> USE DEF GateInv
<1>1. /\ pc = "idle" /\ pc' = "context" /\ runs' \in 0 .. MaxRuns /\ scenario' = s
      /\ used' \in results \union {NoFile}
      /\ log' = Old(log)
      /\ UNCHANGED <<disk, core, gnb, ue, subscriber, progress, held, results>>
      /\ crashed' = {}
  BY BoundsAssumption DEF StartRun, checkout, TypeOK
<1>2. LabTyped'
  BY <1>1, Aged DEF LabTyped, progress
<1>3. TypeOK'
  <2>1. {failed, bad, held, ngSeen, subscriber}' \subseteq BOOLEAN
    BY <1>1, Zenon DEF TypeOK, progress
  <2>2. \A entry \in log' \union events' : entry.event \in {"accept", "reject"}
    BY <1>2 DEF LabTyped, EntryType
  <2>3. step' \in 0 .. Len(Checks) + 1 /\ (step' > 0 => pc' = "check") /\ pc' \in Points
    BY <1>1 DEF TypeOK, progress, Points
  <2>4. QED
    BY <1>1, <2>1, <2>2, <2>3 DEF TypeOK, progress
<1>4. PrintInv' /\ FilesInv' /\ StageInv' /\ CrashInv'
  BY <1>1 DEF PrintInv, FilesInv, StageInv, CrashInv, BaselineStages, progress
<1>5. QED
  BY <1>2, <1>3, <1>4

\* The fingerprint is taken, and nothing blocks the run.
LEMMA ContextStep ==
  ASSUME GateInv, ReadContext \/ Unblocked PROVE GateInv'
<1> USE DEF GateInv
<1>1. LabTyped' /\ CrashInv'
  BY DEF ReadContext, Unblocked, LabTyped, CrashInv, lab, progress
<1>2. {failed, bad, held, ngSeen, subscriber}' \subseteq BOOLEAN
  BY Zenon DEF ReadContext, Unblocked, TypeOK, lab, progress
<1>3. CASE ReadContext
  <2>1. /\ pc' = "blocking" /\ disk \in Contexts /\ began' = disk
        /\ print' \in Prints /\ Names(print', began')
        /\ UNCHANGED <<disk, lab, runs, scenario, used, progress, held, results>>
    BY <1>3 DEF ReadContext, checkout, TypeOK, Contexts, Prints, Names
  <2>2. TypeOK'
    BY <1>2, <2>1, <1>3 DEF ReadContext, TypeOK, Contexts, lab, progress, Points
  <2>3. PrintInv' /\ FilesInv' /\ StageInv'
    BY <2>1 DEF PrintInv, FilesInv, StageInv, BaselineStages
  <2>4. QED
    BY <1>1, <2>2, <2>3
<1>4. CASE Unblocked
  <2>1. /\ pc = "blocking" /\ pc' \in {"prior", "gate"}
        /\ pc' = "prior" => scenario = "baseline_e2e"
        /\ UNCHANGED <<disk, lab, runs, run, progress, held, results>>
    BY <1>4, Zenon DEF Unblocked, checkout
  <2>2. TypeOK'
    <3>1. pc \notin {"idle", "context"} /\ pc' \in Points /\ pc' # "check" /\ pc # "check"
      BY <2>1 DEF Points
    <3>2. step' \in 0 .. Len(Checks) + 1 /\ (step' > 0 => pc' = "check")
      BY <2>1, <3>1 DEF TypeOK, progress
    <3>3. /\ crashed' \union missed' \subseteq {"core", "gnb", "ue"}
          /\ own' \subseteq {"gnb", "ue"}
          /\ \A entry \in log' \union events' : entry.event \in {"accept", "reject"}
          /\ \A r \in results' : r.status \in Statuses /\ (r.runtime => r.print \in Prints)
      BY <2>1 DEF TypeOK, lab, progress
    <3>4. disk' \in Contexts /\ runs' \in 0 .. MaxRuns /\ print' \in Prints /\ began' \in Contexts
      BY <2>1, <3>1 DEF TypeOK, Contexts, run
    <3>5. QED
      BY <1>2, <3>1, <3>2, <3>3, <3>4, Zenon DEF TypeOK, Contexts
  <2>3. PrintInv' /\ FilesInv' /\ StageInv'
    BY <2>1 DEF PrintInv, FilesInv, StageInv, BaselineStages, run
  <2>4. QED
    BY <1>1, <2>2, <2>3
<1>5. QED
  BY <1>3, <1>4

\* A run that ends: what the lab's containers are then.
LEMMA EndStep ==
  ASSUME GateInv, Blocked \/ Report \/ Interrupted \/ Fault PROVE GateInv'
<1> USE DEF GateInv
<1>1. \A r \in results : Orderly(r)
  BY DEF FilesInv, TypeOK, Orderly
<1>2. CASE Blocked
  <2>1. \A r \in results' : Orderly(r)
    BY <1>2, WriteKeeps DEF Blocked, Statuses
  <2>2. QED
    BY <1>2, <2>1, LeaveKeeps DEF Blocked, checkout, LabTyped
<1>3. CASE Report
  <2>1. Status \in Statuses
    BY Zenon DEF Status, Statuses
  <2>2. \A r \in results' : Orderly(r)
    BY <1>3, <2>1, WriteKeeps DEF Report
  <2>3. QED
    BY <1>3, <2>2, LeaveKeeps DEF Report, checkout, LabTyped
<1>4. CASE Interrupted
  BY <1>1, <1>4, LeaveKeeps DEF Interrupted, checkout, LabTyped
<1>5. CASE Fault
  <2>1. /\ pc = "fault" /\ Leave /\ UNCHANGED <<checkout, subscriber, runs>>
        /\ core' \in {core, NewCore, Stopped(core)}
        /\ gnb' \in {gnb, NewGnb, [gnb EXCEPT !.ngap = FALSE], [Stopped(gnb) EXCEPT !.ngap = FALSE]}
        /\ ue' \in {ue, NewUe, [Stopped(ue) EXCEPT !.registered = FALSE, !.session = FALSE]}
    <3>1. /\ pc = "fault" /\ Leave /\ UNCHANGED <<checkout, subscriber, runs>>
          /\ UNCHANGED <<core, gnb, ue>> \/ Disturbed \/ LeftStopped
      BY <1>5, Zenon DEF Fault
    <3>2. QED
      BY <3>1, Zenon DEF Disturbed, LeftStopped
  <2>2. core' \in CoreType /\ gnb' \in GnbType /\ ue' \in UeType
    <3>1. disk \in Contexts /\ FALSE \in BOOLEAN
      BY DEF TypeOK, Contexts
    <3>2. QED
      BY <2>1, <3>1, CoreEdits, GnbEdits, UeEdits, Zenon DEF LabTyped
  <2>3. \A r \in results' : Orderly(r)
    <3>1. \/ UNCHANGED results
          \/ \E status \in Statuses, ready \in BOOLEAN : WriteResult(status, ready)
      BY <1>5, Zenon DEF Fault, Statuses
    <3>2. CASE UNCHANGED results
      BY <1>1, <3>2
    <3>3. CASE \E status \in Statuses, ready \in BOOLEAN : WriteResult(status, ready)
      BY <2>1, <3>3, WriteKeeps
    <3>4. QED
      BY <3>1, <3>2, <3>3
  <2>4. QED
    BY <2>1, <2>2, <2>3, LeaveKeeps
<1>6. QED
  BY <1>2, <1>3, <1>4, <1>5

\* validate_baseline_result: refused files end the run, an accepted one is
\* followed by the check of the running lab.
LEMMA GateStep == ASSUME GateInv, Gate PROVE GateInv'
<1> USE DEF GateInv
<1>1. CASE GateAccepts(used)
  <2>1. /\ pc = "gate" /\ pc' = "check" /\ step' = 1
        /\ UNCHANGED <<disk, lab, runs, run, failed, bad, events, missed, own, ngSeen, held,
                       results>>
    BY <1>1, Zenon DEF Gate, checkout
  <2>2. {failed, bad, held, ngSeen, subscriber}' \subseteq BOOLEAN
    BY <2>1, Zenon DEF TypeOK, lab
  <2>3. 1 \in 0 .. Len(Checks) + 1
    <3>1. Len(Checks) + 1 = 12 /\ 1 \in 0 .. 12
      BY DEF Checks
    <3>2. QED
      BY <3>1, Zenon
  <2>4. TypeOK'
    <3>1. /\ crashed' \union missed' \subseteq {"core", "gnb", "ue"}
          /\ own' \subseteq {"gnb", "ue"}
          /\ \A entry \in log' \union events' : entry.event \in {"accept", "reject"}
          /\ \A r \in results' : r.status \in Statuses /\ (r.runtime => r.print \in Prints)
      BY <2>1 DEF TypeOK, lab
    <3>2. disk' \in Contexts /\ runs' \in 0 .. MaxRuns /\ print' \in Prints /\ began' \in Contexts
      BY <2>1 DEF TypeOK, Contexts, run
    <3>3. pc' \in Points
      BY <2>1 DEF Points
    <3>4. QED
      BY <2>1, <2>2, <2>3, <3>1, <3>2, <3>3, Zenon DEF TypeOK, Contexts
  <2>5. GateAccepts(used)'
    BY <1>1, <2>1 DEF GateAccepts, run
  <2>6. LabTyped' /\ PrintInv' /\ FilesInv' /\ CrashInv'
    BY <2>1 DEF LabTyped, PrintInv, FilesInv, CrashInv, lab, run
  <2>7. StageInv'
    BY <2>1, <2>5 DEF StageInv, BaselineStages
  <2>8. QED
    BY <2>4, <2>6, <2>7
<1>2. CASE ~GateAccepts(used)
  <2>1. /\ pc = "gate" /\ Leave /\ WriteResult("BLOCKED", FALSE)
        /\ UNCHANGED <<checkout, subscriber, runs, core, gnb, ue>>
    BY <1>2, Zenon DEF Gate
  <2>2. \A r \in results' : Orderly(r)
    BY <2>1, WriteKeeps DEF Statuses
  <2>3. QED
    BY <2>1, <2>2, LeaveKeeps DEF LabTyped
<1>3. QED
  BY <1>1, <1>2

\* A window opens only on a core that has not restarted.
LEMMA WindowStep == ASSUME GateInv, WindowOpens PROVE GateInv'
<1>1. /\ core.restarts = 0 /\ held' = TRUE /\ pc # "idle"
      /\ UNCHANGED <<disk, lab, pc, runs, run, progress, results>>
  BY DEF WindowOpens, CoreLooksReady, checkout
<1>2. "core" \notin crashed
  BY <1>1 DEF GateInv, CrashInv
<1>3. LabTyped' /\ CrashInv'
  BY <1>1, <1>2 DEF GateInv, LabTyped, CrashInv, lab, progress
<1>4. /\ disk' \in Contexts /\ held' \in BOOLEAN /\ subscriber' \in BOOLEAN
      /\ crashed' \subseteq Parties
  BY <1>1 DEF GateInv, TypeOK, Contexts, Parties, lab
<1>5. QED
  BY <1>1, <1>3, <1>4, Undecided

\* An inspection sees the crash of what it inspects.
LEMMA Inspection ==
  ASSUME GateInv, pc = "check", NEW check \in {Checks[i] : i \in DOMAIN Checks}, Holds(check)
  PROVE  crashed \intersect Inspected(check) = {}
<1> USE DEF GateInv, CrashInv
<1>1. "core" \in crashed => ~held
  OBVIOUS
<1>2. ("gnb" \in crashed => gnb.restarts # 0) /\ ("ue" \in crashed => ue.restarts # 0)
  BY DEF LabTyped, GnbType, UeType
<1>3. CASE check = "final core"
  BY <1>1, <1>3 DEF Inspected, Holds
<1>4. CASE check = "final ran"
  BY <1>2, <1>4 DEF Inspected, Holds
<1>5. CASE check \notin {"final core", "final ran"}
  BY <1>5 DEF Inspected
<1>6. QED
  BY <1>3, <1>4, <1>5

\* One health check.
LEMMA CheckStep == ASSUME GateInv, Check PROVE GateInv'
<1> USE DEF GateInv
<1>1. /\ pc = "check" /\ pc' = "check" /\ step \in DOMAIN Checks /\ step' = step + 1
      /\ held' = FALSE /\ missed' = missed \union (crashed \intersect Inspected(Checks[step]))
      /\ UNCHANGED <<disk, lab, runs, run, failed, events, own, ngSeen, results>>
  BY DEF Check, checkout
<1>2. bad' \in BOOLEAN /\ (bad => bad') /\ (~bad' => Holds(Checks[step]))
  <2>1. PICK ok \in {FALSE, Holds(Checks[step])} : bad' = (bad \/ ~ok)
    BY DEF Check
  <2>2. bad \in BOOLEAN
    BY DEF TypeOK
  <2>3. QED
    BY <2>1, <2>2, Zenon
<1>3. ~bad' => missed' = {}
  <2>1. ~bad' => crashed \intersect Inspected(Checks[step]) = {}
    BY <1>1, <1>2, Inspection
  <2>2. QED
    BY <1>1, <1>2, <2>1 DEF CrashInv
<1>4. LabTyped' /\ PrintInv' /\ FilesInv'
  BY <1>1 DEF LabTyped, PrintInv, FilesInv, lab, run
<1>5. CrashInv'
  BY <1>1, <1>3 DEF CrashInv, lab
<1>6. StageInv'
  BY <1>1 DEF StageInv, BaselineStages, GateAccepts, run
<1>7. TypeOK'
  <2>1. {failed, bad, held, ngSeen, subscriber}' \subseteq BOOLEAN
    BY <1>1, <1>2, Zenon DEF TypeOK, lab
  <2>2. step' \in 0 .. Len(Checks) + 1 /\ (step' > 0 => pc' = "check")
    <3>1. Len(Checks) = 11 /\ DOMAIN Checks = 1 .. 11
      BY DEF Checks
    <3>2. step' \in 0 .. 12
      BY <1>1, <3>1
    <3>3. 0 .. Len(Checks) + 1 = 0 .. 12
      BY <3>1
    <3>4. QED
      BY <1>1, <3>2, <3>3
  <2>3. /\ crashed' \union missed' \subseteq {"core", "gnb", "ue"}
          /\ own' \subseteq {"gnb", "ue"}
        /\ \A entry \in log' \union events' : entry.event \in {"accept", "reject"}
        /\ \A r \in results' : r.status \in Statuses /\ (r.runtime => r.print \in Prints)
    BY <1>1 DEF TypeOK, lab
  <2>4. disk' \in Contexts /\ runs' \in 0 .. MaxRuns /\ print' \in Prints /\ began' \in Contexts
    BY <1>1 DEF TypeOK, Contexts, run
  <2>5. pc' \in Points
    BY <1>1 DEF Points
  <2>6. QED
    BY <2>1, <2>2, <2>3, <2>4, <2>5, Zenon DEF TypeOK, Contexts
<1>8. QED
  BY <1>4, <1>5, <1>6, <1>7

\* After the last check: the logs, the fault, or no fault because of a failure.
LEMMA CheckedStep == ASSUME GateInv, Checked PROVE GateInv'
<1> USE DEF GateInv
<1>1. CASE scenario = "baseline_e2e" \/ ~bad
  <2>1. /\ pc = "check" /\ step' = 0
        /\ pc' = IF scenario = "baseline_e2e" THEN "collect" ELSE "fault"
        /\ UNCHANGED <<disk, lab, runs, run, failed, bad, events, missed, own, ngSeen, held,
                       results>>
    BY <1>1, Zenon DEF Checked, checkout
  <2>2. TypeOK'
    <3>1. {failed, bad, held, ngSeen, subscriber}' \subseteq BOOLEAN
      BY <2>1, Zenon DEF TypeOK, lab
    <3>2. 0 \in 0 .. Len(Checks) + 1 /\ ~(0 > 0)
      BY DEF Checks
    <3>3. /\ crashed' \union missed' \subseteq {"core", "gnb", "ue"}
          /\ own' \subseteq {"gnb", "ue"}
          /\ \A entry \in log' \union events' : entry.event \in {"accept", "reject"}
          /\ \A r \in results' : r.status \in Statuses /\ (r.runtime => r.print \in Prints)
      BY <2>1 DEF TypeOK, lab
    <3>4. disk' \in Contexts /\ runs' \in 0 .. MaxRuns /\ print' \in Prints /\ began' \in Contexts
      BY <2>1 DEF TypeOK, Contexts, run
    <3>5. pc' \in Points
      BY <2>1 DEF Points
    <3>6. QED
      BY <2>1, <3>1, <3>2, <3>3, <3>4, <3>5, Zenon DEF TypeOK, Contexts
  <2>3. LabTyped' /\ PrintInv' /\ FilesInv' /\ CrashInv'
    BY <2>1 DEF LabTyped, PrintInv, FilesInv, CrashInv, lab, run
  <2>4. StageInv'
    BY <1>1, <2>1 DEF StageInv, BaselineStages, GateAccepts, run
  <2>5. QED
    BY <2>2, <2>3, <2>4
<1>2. CASE ~(scenario = "baseline_e2e" \/ ~bad)
  <2>1. /\ pc = "check" /\ Leave /\ WriteResult("BLOCKED", FALSE)
        /\ UNCHANGED <<checkout, subscriber, runs, core, gnb, ue>>
    BY <1>2, Zenon DEF Checked
  <2>2. \A r \in results' : Orderly(r)
    BY <2>1, WriteKeeps DEF Statuses
  <2>3. QED
    BY <2>1, <2>2, LeaveKeeps DEF LabTyped
<1>3. QED
  BY <1>1, <1>2

-----------------------------------------------------------------------------
(* The theorems                                                             *)

\* Every step of the lab, the operator and the command line preserves the
\* invariant.
LEMMA GateInvStep == GateInv /\ [Next]_vars => GateInv'
<1> SUFFICES ASSUME GateInv, [Next]_vars PROVE GateInv'
  OBVIOUS
<1>1. CASE LabStep \/ Edit \/ ByHand \/ FixtureRun \/ UNCHANGED vars
  BY <1>1, OutsideStep
<1>2. CASE RunStep
  <2>1. CASE \E s \in {"baseline_e2e", "fault"} : StartRun(s)
    BY <2>1, StartStep
  <2>2. CASE ReadContext \/ Unblocked
    BY <2>2, ContextStep
  <2>3. CASE Blocked \/ Report \/ Fault
    BY <2>3, EndStep
  <2>4. CASE \/ CollectPrior \/ StopRan \/ StartCore \/ CoreReady \/ AddSubscriber
             \/ GnbUp \/ NgSetup \/ UeUp \/ Collect
    BY <2>4, StageStep
  <2>5. CASE Gate
    BY <2>5, GateStep
  <2>6. CASE WindowOpens
    BY <2>6, WindowStep
  <2>7. CASE Check \/ Checked
    BY <2>7, CheckStep, CheckedStep
  <2>8. QED
    BY <1>2, <2>1, <2>2, <2>3, <2>4, <2>5, <2>6, <2>7, Zenon DEF RunStep, BaselineStep
<1>3. CASE Interrupted
  BY <1>3, EndStep
<1>4. QED
  BY <1>1, <1>2, <1>3 DEF Next

\* What the lab, the result files and the run at hand are to each other, in
\* every reachable state.  (orchestration.py: run_runtime_scenario)
THEOREM GateInvariant == Spec => []GateInv
<1>1. QED
  BY GateInit, GateInvStep, PTL DEF Spec

\* The log says that the core has accepted the UE of this run.
OwnAccept == [event |-> "accept", now |-> TRUE, own |-> TRUE]

\* What a run has created, and what these containers have shown.
OwnInv ==
  /\ pc = "idle" => own = {}
  /\ pc = "gate" => scenario # "baseline_e2e"
  /\ pc = "ng setup" \/ ngSeen => "gnb" \in own
  /\ pc = "ue up" \/ "ue" \in own => ngSeen
  /\ "ue" \in own /\ ue.registered => OwnAccept \in log
  /\ pc = "check" /\ scenario = "baseline_e2e" =>
       "ue" \in own /\ (step > 3 /\ ~bad => OwnAccept \in log)
  /\ pc \in {"collect", "report"} /\ ~failed /\ ~bad => "ue" \in own /\ OwnAccept \in log

\* The lab logs the acceptance of a UE with its registration.
LEMMA Logged ==
  ASSUME GateInv, LabStep
  PROVE  /\ log \subseteq log'
         /\ "ue" \in own /\ ue'.registered /\ ~ue.registered => OwnAccept \in log'
<1>1. ue \in UeType
  BY DEF GateInv, LabTyped
<1>2. CASE UeRegisters
  <2>1. /\ ue' = [ue EXCEPT !.registered = subscriber]
        /\ log' = log \union {Entry(IF subscriber THEN "accept" ELSE "reject")}
    BY <1>2, Zenon DEF UeRegisters, InLab
  <2>2. ue'.registered = subscriber
    BY <1>1, <2>1 DEF UeType
  <2>3. "ue" \in own => Entry("accept") = OwnAccept
    <3>1. "ue" \in own => ("ue" \in own) = TRUE
      BY Zenon
    <3>2. QED
      BY <3>1, Zenon DEF Entry, OwnAccept
  <2>4. QED
    BY <2>1, <2>2, <2>3, Zenon
<1>3. CASE CoreInitialises \/ GnbConnects \/ CoreCrashes \/ GnbCrashes
  BY <1>3, Zenon DEF CoreInitialises, GnbConnects, CoreCrashes, GnbCrashes, InLab, Trouble
<1>4. CASE UeOpensSession
  BY <1>1, <1>4 DEF UeOpensSession, InLab, UeType
<1>5. CASE UeCrashes
  <2>1. ue' = [NewUe EXCEPT !.restarts = ue.restarts + 1] /\ UNCHANGED log
    BY <1>5, Zenon DEF UeCrashes, Trouble, InLab
  <2>2. ~ue'.registered
    BY <2>1 DEF NewUe
  <2>3. QED
    BY <2>1, <2>2
<1>6. CASE ConnectionLost
  <2>1. /\ UNCHANGED log
        /\ ue' = ue \/ ue' = [ue EXCEPT !.registered = FALSE, !.session = FALSE]
    BY <1>6, Zenon DEF ConnectionLost, Trouble, InLab
  <2>2. QED
    BY <1>1, <2>1 DEF UeType
<1>7. QED
  BY <1>2, <1>3, <1>4, <1>5, <1>6 DEF LabStep

\* The stages of a baseline: both containers are created before the checks.
LEMMA OwnStages ==
  ASSUME GateInv, OwnInv,
         \/ CollectPrior \/ StopRan \/ StartCore \/ CoreReady \/ AddSubscriber
         \/ GnbUp \/ NgSetup \/ UeUp \/ Collect
  PROVE  OwnInv'
<1> USE DEF OwnInv
<1>1. ue \in UeType /\ scenario \in {scenario}
  BY DEF GateInv, LabTyped
<1>2. CASE CollectPrior \/ StartCore \/ CoreReady \/ AddSubscriber
  <2>1. /\ pc' \in {"stop ran", "core ready", "subscriber", "gnb up"} \/ (pc' = "collect" /\ failed')
        /\ UNCHANGED <<run, own, ngSeen, ue, log>>
    BY <1>2, Zenon DEF CollectPrior, StartCore, CoreReady, AddSubscriber, Stage, lab
  <2>2. QED
    BY <2>1
<1>3. CASE StopRan
  <2>1. /\ pc' = "start core" \/ (pc' = "collect" /\ failed')
        /\ ue' \in {ue, [Stopped(ue) EXCEPT !.registered = FALSE, !.session = FALSE]}
        /\ UNCHANGED <<own, ngSeen, log>>
    BY <1>3, Zenon DEF StopRan, Stage
  <2>2. ue'.registered => ue.registered
    BY <1>1, <2>1 DEF UeType, Stopped
  <2>3. QED
    BY <2>1, <2>2
<1>4. CASE GnbUp
  <2>1. /\ \/ pc' = "ng setup" /\ own' = own \union {"gnb"}
           \/ pc' = "collect" /\ failed' /\ own' \in {own, own \union {"gnb"}}
        /\ UNCHANGED <<ngSeen, log, ue>>
    BY <1>4, Zenon DEF GnbUp, Stage
  <2>2. QED
    BY <2>1
<1>5. CASE NgSetup
  <2>1. /\ \/ pc' = "ue up" /\ ngSeen' = ("gnb" \in own)
           \/ pc' = "collect" /\ bad' /\ ngSeen' = ngSeen
        /\ pc = "ng setup" /\ UNCHANGED <<own, log, ue>>
    BY <1>5, Zenon DEF NgSetup, lab
  <2>2. QED
    BY <2>1
<1>6. CASE UeUp
  <2>1. /\ \/ pc' = "check" /\ step' = 1 /\ ue' = NewUe /\ own' = own \union {"ue"}
           \/ pc' = "collect" /\ failed' /\ UNCHANGED <<ue, own>>
           \/ pc' = "collect" /\ failed' /\ ue' = NewUe /\ own' = own \union {"ue"}
        /\ pc = "ue up" /\ UNCHANGED <<ngSeen, log>>
    BY <1>6, Zenon DEF UeUp
  <2>2. ~NewUe.registered
    BY DEF NewUe
  <2>3. ~(step' > 3) \/ pc' # "check"
    <3>1. CASE step' = 1
      BY ONLY <3>1
    <3>2. CASE pc' = "collect"
      BY ONLY <3>2
    <3>3. QED
      BY <2>1, <3>1, <3>2
  <2>4. ngSeen' /\ "gnb" \in own'
    BY <2>1
  <2>5. "ue" \in own' /\ ue'.registered => OwnAccept \in log'
    BY <2>1, <2>2
  <2>6. pc' = "check" => "ue" \in own'
    BY <2>1
  <2>7. pc' \in {"collect", "report"} => failed'
    BY <2>1
  <2>8. pc' \notin {"idle", "gate", "ng setup", "ue up"}
    BY <2>1
  <2>9. QED
    BY <2>3, <2>4, <2>5, <2>6, <2>7, <2>8
<1>7. CASE Collect
  <2>1. /\ pc = "collect" /\ pc' = "report" /\ (failed => failed')
        /\ UNCHANGED <<bad, own, ngSeen, ue, log>>
    BY <1>7, Zenon DEF Collect, lab
  <2>2. QED
    BY <2>1
<1>8. QED
  BY <1>2, <1>3, <1>4, <1>5, <1>6, <1>7

\* A check of the UE's registration is one of the UE that the run has created.
LEMMA OwnChecks == ASSUME GateInv, OwnInv, Check \/ Checked PROVE OwnInv'
<1>1. Len(Checks) = 11 /\ Checks[3] = "registered"
  BY DEF Checks
<1>2. step \in Nat /\ bad \in BOOLEAN
  BY <1>1 DEF GateInv, TypeOK
<1>3. CASE Check
  <2>1. /\ pc = "check" /\ pc' = "check" /\ step' = step + 1
        /\ UNCHANGED <<lab, run, own, ngSeen>>
    BY <1>3, Zenon DEF Check
  <2>2. ~bad' => ~bad /\ Holds(Checks[step])
    <3>1. PICK ok \in {FALSE, Holds(Checks[step])} : bad' = (bad \/ ~ok)
      BY <1>3, Zenon DEF Check
    <3>2. QED
      BY <1>2, <3>1, Zenon
  <2>3. Holds("registered") => ue.registered
    BY DEF Holds
  <2>4. UNCHANGED <<scenario, ue, log>>
    BY <2>1 DEF lab, run
  <2>5. step' > 3 => step = 3 \/ step > 3
    BY <1>2, <2>1
  <2>6. QED
    BY <1>1, <2>1, <2>2, <2>3, <2>4, <2>5 DEF OwnInv
<1>4. CASE Checked
  <2>1. CASE scenario = "baseline_e2e" \/ ~bad
    <3>1. /\ pc = "check" /\ step > 11
          /\ \/ pc' = "collect" /\ scenario = "baseline_e2e"
             \/ pc' = "fault"
          /\ UNCHANGED <<lab, run, failed, bad, own, ngSeen>>
      BY <1>1, <1>4, <2>1 DEF Checked
    <3>2. UNCHANGED <<scenario, ue, log>> /\ step > 3
      BY <1>2, <3>1 DEF lab, run
    <3>3. QED
      BY <3>1, <3>2 DEF OwnInv
  <2>2. CASE ~(scenario = "baseline_e2e" \/ ~bad)
    <3>1. Leave
      BY <1>4, <2>2, Zenon DEF Checked
    <3>2. QED
      BY <3>1 DEF Leave, OwnInv
  <2>3. QED
    BY <2>1, <2>2
<1>5. QED
  BY <1>3, <1>4

\* Every step keeps the account of what the run has created.
LEMMA OwnInvStep == GateInv /\ OwnInv /\ [Next]_vars => OwnInv'
<1> SUFFICES ASSUME GateInv, OwnInv, [Next]_vars PROVE OwnInv'
  OBVIOUS
<1> USE DEF OwnInv
<1>1. CASE LabStep
  <2>1. UNCHANGED <<pc, runs, run, progress>>
    BY <1>1, LabEffects
  <2>2. QED
    BY <1>1, <2>1, Logged DEF run, progress
<1>2. CASE Edit \/ FixtureRun \/ WindowOpens \/ UNCHANGED vars
  <2>1. UNCHANGED <<lab, pc, run, progress>>
    BY <1>2, Zenon DEF Edit, FixtureRun, WindowOpens, vars
  <2>2. QED
    BY <2>1 DEF lab, run, progress
<1>3. CASE ByHand \/ \E s \in {"baseline_e2e", "fault"} : StartRun(s)
  <2>1. pc = "idle" /\ pc' \in {"idle", "context"} /\ UNCHANGED progress
    BY <1>3, Zenon DEF ByHand, StartRun
  <2>2. QED
    BY <2>1 DEF progress
<1>4. CASE ReadContext \/ Unblocked
  <2>1. /\ pc' \in {"blocking", "prior"} \/ (pc' = "gate" /\ scenario # "baseline_e2e")
        /\ UNCHANGED <<lab, scenario, progress>>
    BY <1>4 DEF ReadContext, Unblocked, run
  <2>2. QED
    BY <2>1 DEF lab, progress
<1>5. CASE Gate
  <2>1. \/ Leave
        \/ pc = "gate" /\ pc' = "check" /\ UNCHANGED <<lab, run, failed, bad, own, ngSeen>>
    BY <1>5, Zenon DEF Gate
  <2>2. CASE Leave
    BY <2>2 DEF Leave
  <2>3. CASE pc = "gate" /\ pc' = "check" /\ UNCHANGED <<lab, run, failed, bad, own, ngSeen>>
    BY <2>3 DEF lab, run
  <2>4. QED
    BY <2>1, <2>2, <2>3
<1>6. CASE Blocked \/ Report \/ Fault \/ Interrupted
  <2>1. Leave
    BY <1>6, Zenon DEF Blocked, Report, Fault, Interrupted
  <2>2. QED
    BY <2>1 DEF Leave
<1>7. CASE Check \/ Checked
  BY <1>7, OwnChecks
<1>8. CASE \/ CollectPrior \/ StopRan \/ StartCore \/ CoreReady \/ AddSubscriber
           \/ GnbUp \/ NgSetup \/ UeUp \/ Collect
  BY <1>8, OwnStages
<1>9. QED
  BY <1>1, <1>2, <1>3, <1>4, <1>5, <1>6, <1>7, <1>8, Zenon DEF Next, RunStep, BaselineStep

LEMMA OwnInvariant == Spec => []OwnInv
<1>1. Init => OwnInv
  BY DEF Init, OwnInv
<1>2. QED
  BY <1>1, GateInvariant, OwnInvStep, PTL DEF Spec

\* Type correctness: every runtime result has a complete fingerprint.
\* (orchestration.py:80-122)
THEOREM GateTypeCorrect == Spec => []TypeOK
<1>1. GateInv => TypeOK
  BY DEF GateInv
<1>2. QED
  BY <1>1, GateInvariant, PTL

\* A fault is injected only on the configuration, and if git could be read on
\* the commit, that a runtime baseline has passed on.
\* (orchestration.py:111-122, 885-925)
THEOREM FaultsOnTestedContext == Spec => []FaultOnTestedContext
<1>1. GateInv => FaultOnTestedContext
  <2> SUFFICES ASSUME GateInv, pc = "fault" PROVE FaultOnTestedContext
    BY DEF FaultOnTestedContext
  <2>1. GateAccepts(used) /\ Names(print, began) /\ print # NoPrint
    BY DEF GateInv, StageInv, PrintInv, GateAccepts
  <2>2. used \in results
    BY <2>1 DEF GateInv, FilesInv, GateAccepts, NoFile
  <2>3. used.runtime /\ Names(used.print, used.context)
    BY <2>1, <2>2 DEF GateInv, FilesInv, GateAccepts
  <2>4. QED
    BY <2>1, <2>3 DEF FaultOnTestedContext, GateAccepts, Names
<1>2. QED
  BY <1>1, GateInvariant, PTL

\* No crash goes unnoticed behind a pass, or in a lab a fault is injected in.
\* (orchestration.py:663-720)
THEOREM NoCrashIsMissed == Spec => []NoCrashMissed
<1>1. GateInv => NoCrashMissed
  <2> SUFFICES ASSUME GateInv, (pc = "report" /\ Status = "PASS") \/ pc = "fault"
               PROVE missed = {}
    BY DEF NoCrashMissed
  <2>1. ~bad
    BY DEF GateInv, StageInv, Status
  <2>2. QED
    BY <2>1 DEF GateInv, CrashInv
<1>2. QED
  BY <1>1, GateInvariant, PTL

\* A run's UE is created only after a gNB that the run has itself created has
\* reported NG Setup.  (orchestration.py:236-276, 325-345)
THEOREM UeWaits == Spec => UeAfterNgSetup
<1>1. OwnInv => [pc = "ue up" /\ ue' # ue /\ pc' \in {"check", "collect"} => ngSeen]_vars
  BY DEF OwnInv
<1>2. QED
  BY <1>1, OwnInvariant, PTL DEF UeAfterNgSetup

\* A baseline that passes has registered the UE that it has itself created, on
\* the gNB that it has itself created.  (orchestration.py:212-276, 285-293)
THEOREM PassesOnOwnRan == Spec => []PassOnOwnRan
<1>1. GateInv /\ OwnInv => PassOnOwnRan
  <2> SUFFICES ASSUME GateInv, OwnInv, pc = "report", Status = "PASS"
               PROVE  /\ own = {"gnb", "ue"} /\ ngSeen
                      /\ \E entry \in log : entry.event = "accept" /\ entry.own
    BY Zenon DEF PassOnOwnRan
  <2>1. ~failed /\ ~bad
    BY DEF Status
  <2>2. "ue" \in own /\ OwnAccept \in log /\ ngSeen /\ "gnb" \in own
    BY <2>1 DEF OwnInv
  <2>3. own \subseteq {"gnb", "ue"}
    BY DEF GateInv, TypeOK
  <2>4. OwnAccept.event = "accept" /\ OwnAccept.own
    BY DEF OwnAccept
  <2>5. QED
    BY <2>2, <2>3, <2>4
<1>2. QED
  BY <1>1, GateInvariant, OwnInvariant, PTL
=============================================================================
