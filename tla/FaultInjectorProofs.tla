------------------------ MODULE FaultInjectorProofs ------------------------
(***************************************************************************)
(* What holds of the fault injector for any number of runs, any services    *)
(* and any bounds.                                                         *)
(***************************************************************************)
EXTENDS FaultInjector, TLAPS

Commands == Mutations \union Reads

\* The container of s was stopped or booted by the step.
NetnsLost(s) == up'[s] = FALSE \/ startedAt'[s] # startedAt[s]

\* What one command of run r can do to the lab: it adds at most r's own clsact
\* or filter on r's target, and what goes without its container being stopped
\* or booted goes by r's delClsact or delFilter.
LabChange(c, r) ==
  /\ LabTypeOK'
  /\ qdiscs' \subseteq qdiscs \union {<<Target(r), r>>}
  /\ filters' \subseteq filters \union {<<Target(r), Type(r), r>>}
  /\ c # "addClsact" => qdiscs' \subseteq qdiscs
  /\ c # "addFilter" => filters' \subseteq filters
  /\ \A f \in filters' : <<f[1], Operator>> \in qdiscs => <<f[1], Operator>> \in qdiscs'
  /\ \A q \in qdiscs : q \notin qdiscs' =>
       NetnsLost(q[1]) \/ (c = "delClsact" /\ q[1] = Target(r))
  /\ \A f \in filters : f \notin filters' =>
       \/ NetnsLost(f[1])
       \/ c = "delClsact" /\ f[1] = Target(r)
       \/ c = "delFilter" /\ f[1] = Target(r) /\ f[2] = Type(r)

LEMMA EffectIsLabChange ==
  ASSUME NEW r \in Runs, NEW c \in Mutations, LabTypeOK, Fits(r, c),
         Effect(c, Target(r), Type(r), r)
  PROVE  LabChange(c, r)
<1> USE DEF LabTypeOK, LabChange, Fits, Valid, Owners, TcCommands, world, NetnsLost
<1>1. CASE c \in {"restart", "start"} /\ Booted(Target(r))
  BY <1>1 DEF Booted, NetnsGone
<1>2. CASE c = "start" /\ UNCHANGED world
  BY <1>2
<1>3. CASE c = "stop"
  BY <1>3 DEF Effect, NetnsGone
<1>4. CASE c = "addClsact"
  BY <1>4 DEF Effect
<1>5. CASE c = "addFilter"
  BY <1>5 DEF Effect
<1>6. CASE c = "delFilter"
  BY <1>6 DEF Effect
<1>7. CASE c = "delClsact"
  BY <1>7 DEF Effect, NetnsGone
<1>8. QED
  BY <1>1, <1>2, <1>3, <1>4, <1>5, <1>6, <1>7 DEF Effect

\* What a command that did not report success leaves.
LEMMA UnreportedLab ==
  ASSUME NEW r \in Runs, NEW c \in Mutations, LabTypeOK, OrphansTypeOK, Fits(r, c),
         Unreported(c, r)
  PROVE  /\ LabChange(c, r)
         /\ OrphansTypeOK'
         /\ orphans' \subseteq orphans \union {[run |-> r, cmd |-> c]}
         /\ \A q \in Runs : dangled[q] => dangled'[q]
         /\ \A q \in Runs : q # r => dangled'[q] = dangled[q]
         /\ orphans' # orphans => dangled'[r]
         /\ [run |-> r, cmd |-> c] \in orphans' \ orphans => UNCHANGED world
<1>1. CASE UNCHANGED <<world, orphans, dangled>>
  BY <1>1 DEF world, LabChange, LabTypeOK, OrphansTypeOK
<1>2. CASE Effect(c, Target(r), Type(r), r) /\ UNCHANGED <<orphans, dangled>>
  BY <1>2, EffectIsLabChange DEF OrphansTypeOK
<1>3. CASE LeftBehind(r, c) /\ UNCHANGED world
  BY <1>3 DEF LeftBehind, world, LabChange, LabTypeOK, OrphansTypeOK
<1>4. QED
  BY <1>1, <1>2, <1>3 DEF Unreported

-----------------------------------------------------------------------------
(* Type correctness.                                                        *)

\* The end of a rollback, and the decision to delete the clsact.
LEMMA FinishTypes ==
  ASSUME NEW r \in Runs, NEW err \in BOOLEAN, FlagsTypeOK, ControlTypeOK,
         FinishRemove(r, err) \/ AfterFilter(r, err),
         UNCHANGED <<createdClsact, filterCleanup, restartFrom, masked>>
  PROVE  FlagsTypeOK' /\ ControlTypeOK'
<1>1. CASE FinishRemove(r, err)
  <2>1. /\ (applied[r] /\ err) \in BOOLEAN /\ (cleanupRequired[r] /\ err) \in BOOLEAN
        /\ (IF err THEN "error" ELSE "ok") \in Results
    BY DEF Results
  <2>2. applied' \in [Runs -> BOOLEAN] /\ cleanupRequired' \in [Runs -> BOOLEAN]
    BY <1>1, <2>1 DEF FinishRemove, FlagsTypeOK
  <2>3. failed' \in [Runs -> BOOLEAN] /\ ControlTypeOK'
    BY <1>1, <2>1 DEF FinishRemove, Return, FlagsTypeOK, ControlTypeOK
  <2>4. QED
    BY <2>2, <2>3 DEF FlagsTypeOK
<1>2. CASE Goto(r, "delClsact") /\ failed' = [failed EXCEPT ![r] = err]
           /\ UNCHANGED <<applied, cleanupRequired>>
  BY <1>2 DEF Goto, FlagsTypeOK, ControlTypeOK, Mutations
<1>3. QED
  BY <1>1, <1>2 DEF AfterFilter

\* The four calls touch flags and control only.
LEMMA CallTypes ==
  ASSUME NEW r \in Runs, InjTypeOK, Call(r)
  PROVE  InjTypeOK'
<1> USE DEF InjTypeOK, FlagsTypeOK, ControlTypeOK, OrphansTypeOK, LabTypeOK,
            Return, Goto, Mutations, Reads, Results, flags, world
<1>1. CASE CallApply(r)
  BY <1>1 DEF CallApply
<1>2. CASE CallVerifyApplied(r)
  BY <1>2 DEF CallVerifyApplied
<1>3. CASE CallRemove(r)
  BY <1>3 DEF CallRemove, FinishRemove, AfterFilter
<1>4. CASE CallVerifyRemoved(r)
  BY <1>4 DEF CallVerifyRemoved
<1>5. QED
  BY <1>1, <1>2, <1>3, <1>4 DEF Call

\* So do the commands that only read.
ReadStep(r) ==
  \/ InspectBefore(r) \/ ShowFilter(r) \/ ShowQdisc(r) \/ VerifyApplied(r)
  \/ CheckFilter(r) \/ CheckClsact(r)
  \/ VerifyRunning(r) \/ VerifyFilterGone(r) \/ VerifyClsactGone(r)
  \/ op[r] \in Reads /\ ReadEscapes(r)

WriteStep(r) ==
  \/ ServiceCommand(r) \/ AddClsact(r) \/ AddFilter(r)
  \/ StartService(r) \/ DelFilter(r) \/ DelClsact(r)
  \/ op[r] \in Mutations /\ Escapes(r, op[r])

LEMMA ReadTypes ==
  ASSUME NEW r \in Runs, InjTypeOK, CommandsFit, ReadStep(r)
  PROVE  InjTypeOK'
<1> USE DEF InjTypeOK, FlagsTypeOK, ControlTypeOK, OrphansTypeOK, LabTypeOK,
            Return, Goto, Mutations, Reads, Results, flags, world, Reading
<1>1. CASE InspectBefore(r)
  <2>1. Target(r) \in Services
    BY <1>1 DEF InspectBefore, CommandsFit, Fits, Valid
  <2>2. startedAt[Target(r)] \in Nat
    BY <2>1
  <2>3. QED
    BY <1>1, <2>2 DEF InspectBefore
<1>2. CASE ShowFilter(r) \/ ShowQdisc(r) \/ VerifyApplied(r)
  BY <1>2 DEF ShowFilter, ShowQdisc, VerifyApplied
<1>3. CASE CheckFilter(r) \/ CheckClsact(r)
  <2>1. failed[r] \in BOOLEAN
    OBVIOUS
  <2>2. QED
    BY <1>3, <2>1, FinishTypes DEF CheckFilter, CheckClsact
<1>4. CASE VerifyRunning(r) \/ VerifyFilterGone(r) \/ VerifyClsactGone(r)
  BY <1>4 DEF VerifyRunning, VerifyFilterGone, VerifyClsactGone
<1>5. CASE ReadEscapes(r)
  BY <1>5 DEF ReadEscapes
<1>6. QED
  BY <1>1, <1>2, <1>3, <1>4, <1>5 DEF ReadStep

\* What a write command does to the lab, whatever becomes of its client.
LEMMA WriteLab ==
  ASSUME NEW r \in Runs, InjTypeOK, CommandsFit, WriteStep(r)
  PROVE  /\ op[r] \in Mutations
         /\ Fits(r, op[r])
         /\ \/ Unreported(op[r], r)
            \/ Effect(op[r], Target(r), Type(r), r) /\ UNCHANGED <<orphans, dangled>>
<1>1. op[r] \in Mutations
  BY DEF WriteStep, ServiceCommand, AddClsact, AddFilter, StartService, DelFilter,
         DelClsact, Succeeds, Fails, Mutations
<1>2. Fits(r, op[r])
  BY <1>1 DEF CommandsFit, Mutations
<1>3. \/ Unreported(op[r], r)
      \/ Effect(op[r], Target(r), Type(r), r) /\ UNCHANGED <<orphans, dangled>>
  BY DEF WriteStep, ServiceCommand, AddClsact, AddFilter, StartService, DelFilter,
         DelClsact, Succeeds, Fails, Escapes, Unreported
<1>4. QED
  BY <1>1, <1>2, <1>3

LEMMA WriteTypes ==
  ASSUME NEW r \in Runs, InjTypeOK, CommandsFit, WriteStep(r)
  PROVE  InjTypeOK'
<1>1. LabTypeOK' /\ OrphansTypeOK'
  <2>1. CASE Unreported(op[r], r)
    BY <2>1, WriteLab, UnreportedLab DEF InjTypeOK, LabChange
  <2>2. CASE Effect(op[r], Target(r), Type(r), r) /\ UNCHANGED <<orphans, dangled>>
    BY <2>2, WriteLab, EffectIsLabChange DEF InjTypeOK, LabChange, OrphansTypeOK
  <2>3. QED
    BY <2>1, <2>2, WriteLab
<1>2. FlagsTypeOK' /\ ControlTypeOK' /\ UNCHANGED fault
  <2> USE DEF InjTypeOK, FlagsTypeOK, ControlTypeOK, Return, Goto, Mutations, Reads,
              Results, flags, Succeeds, Fails
  <2>1. CASE ServiceCommand(r) \/ AddClsact(r) \/ AddFilter(r)
    BY <2>1 DEF ServiceCommand, AddClsact, AddFilter
  <2>2. CASE StartService(r)
    BY <2>2, FinishTypes DEF StartService
  <2>3. CASE DelFilter(r) \/ DelClsact(r)
    <3>1. failed[r] \in BOOLEAN
      OBVIOUS
    <3>2. QED
      BY <2>3, <3>1, FinishTypes DEF DelFilter, DelClsact
  <2>4. CASE Escapes(r, op[r])
    BY <2>4 DEF Escapes
  <2>5. QED
    BY <2>1, <2>2, <2>3, <2>4 DEF WriteStep
<1>3. QED
  BY <1>1, <1>2 DEF InjTypeOK

LEMMA EnvironmentTypes ==
  ASSUME InjTypeOK, CommandsFit, Environment
  PROVE  InjTypeOK'
<1> USE DEF InjTypeOK, FlagsTypeOK, ControlTypeOK, flags
<1>1. ASSUME NEW s \in Services, ContainerRestarts(s)
      PROVE  InjTypeOK'
  BY <1>1 DEF ContainerRestarts, NetnsGone, LabTypeOK, OrphansTypeOK
<1>2. ASSUME NEW o \in orphans, OrphanEnds(o)
      PROVE  InjTypeOK'
  <2>1. o.run \in Runs /\ o.cmd \in Mutations /\ Fits(o.run, o.cmd)
    BY DEF OrphansTypeOK, CommandsFit
  <2>2. LabTypeOK'
    BY <1>2, <2>1, EffectIsLabChange DEF OrphanEnds, LabChange, LabTypeOK, world
  <2>3. QED
    BY <1>2, <2>2 DEF OrphanEnds, OrphansTypeOK
<1>3. ASSUME NEW r \in Runs, Dies(r)
      PROVE  InjTypeOK'
  <2>1. LabTypeOK' /\ FlagsTypeOK' /\ ControlTypeOK' /\ fault' = fault
    BY <1>3 DEF Dies, LabTypeOK, world
  <2>2. CASE UNCHANGED <<orphans, dangled>>
    BY <2>1, <2>2 DEF OrphansTypeOK
  <2>3. CASE op[r] \in Mutations /\ LeftBehind(r, op[r])
    <3>1. [run |-> r, cmd |-> op[r]] \in [run : Runs, cmd : Mutations]
      BY <2>3
    <3>2. QED
      BY <2>1, <2>3, <3>1 DEF LeftBehind, OrphansTypeOK
  <2>4. QED
    BY <1>3, <2>2, <2>3 DEF Dies
<1>4. QED
  BY <1>1, <1>2, <1>3 DEF Environment

-----------------------------------------------------------------------------
(* The steps of a run, seen from the other runs and from its own flags.     *)

Acts(r) == Call(r) \/ ReadStep(r) \/ WriteStep(r)

LEMMA ActsAreTheSteps ==
  ASSUME NEW r \in Runs
  PROVE  Call(r) \/ Step(r) <=> Acts(r)
BY DEF Acts, Step, ReadStep, WriteStep

SameRun(q) ==
  /\ op'[q] = op[q] /\ ret'[q] = ret[q]
  /\ applied'[q] = applied[q] /\ cleanupRequired'[q] = cleanupRequired[q]
  /\ createdClsact'[q] = createdClsact[q] /\ filterCleanup'[q] = filterCleanup[q]
  /\ failed'[q] = failed[q]

\* Nobody touches the object of another run, or the FaultSpecs.
LEMMA OthersUntouched ==
  ASSUME NEW r \in Runs, InjTypeOK, Acts(r)
  PROVE  UNCHANGED fault /\ \A q \in Runs : q # r => SameRun(q)
<1> USE DEF InjTypeOK, FlagsTypeOK, ControlTypeOK, Return, Goto, flags, SameRun,
            FinishRemove, AfterFilter, Succeeds, Fails, Reading
<1>1. CASE Call(r)
  BY <1>1 DEF Call, CallApply, CallVerifyApplied, CallRemove, CallVerifyRemoved
<1>2. CASE ReadStep(r)
  BY <1>2 DEF ReadStep, InspectBefore, ShowFilter, ShowQdisc, VerifyApplied,
     CheckFilter, CheckClsact, VerifyRunning, VerifyFilterGone, VerifyClsactGone, ReadEscapes
<1>3. CASE WriteStep(r)
  BY <1>3 DEF WriteStep, ServiceCommand, AddClsact, AddFilter, StartService,
     DelFilter, DelClsact, Escapes
<1>4. QED
  BY <1>1, <1>2, <1>3 DEF Acts

LEMMA QuietSteps ==
  ASSUME NEW r \in Runs, Call(r) \/ ReadStep(r)
  PROVE  UNCHANGED <<world, orphans, dangled>>
BY DEF Call, CallApply, CallVerifyApplied, CallRemove, CallVerifyRemoved,
   ReadStep, InspectBefore, ShowFilter, ShowQdisc, VerifyApplied, CheckFilter,
   CheckClsact, VerifyRunning, VerifyFilterGone, VerifyClsactGone, ReadEscapes, Reading

\* The next command of a run fits its fault, and an armed impairment has a
\* container to act on.
LEMMA OwnCommandFits ==
  ASSUME NEW r \in Runs, InjTypeOK, CommandsFit, Acts(r)
  PROVE  /\ op'[r] \notin {"idle", "dead"} => Fits(r, op'[r])
         /\ (applied'[r] \/ cleanupRequired'[r]) /\ Type(r) \in Impairments => Valid(r)
<1> USE DEF InjTypeOK, FlagsTypeOK, ControlTypeOK, CommandsFit, Fits, Return, Goto,
            flags, Mutations, Reads, TcCommands, ServiceCommands, Impairments,
            ServiceFaults, MutationFaults, FinishRemove, AfterFilter
<1>1. CASE Call(r)
  BY <1>1 DEF Call, CallApply, CallVerifyApplied, CallRemove, CallVerifyRemoved
<1>2. CASE ReadStep(r)
  BY <1>2 DEF ReadStep, InspectBefore, ShowFilter, ShowQdisc, VerifyApplied,
     CheckFilter, CheckClsact, VerifyRunning, VerifyFilterGone, VerifyClsactGone,
     ReadEscapes, Reading
<1>3. CASE WriteStep(r)
  BY <1>3 DEF WriteStep, ServiceCommand, AddClsact, AddFilter, StartService,
     DelFilter, DelClsact, Escapes, Succeeds, Fails
<1>4. QED
  BY <1>1, <1>2, <1>3 DEF Acts

\* What a step of run r leaves of the lab: a write command's change at most.
LEMMA ActsOnLab ==
  ASSUME NEW r \in Runs, InjTypeOK, CommandsFit, Acts(r)
  PROVE  /\ UNCHANGED <<world, orphans, dangled>> \/ LabChange(op[r], r)
         /\ \/ orphans' \subseteq orphans
            \/ /\ op[r] \in Mutations
               /\ Fits(r, op[r])
               /\ dangled'[r]
               /\ orphans' \subseteq orphans \union {[run |-> r, cmd |-> op[r]]}
         /\ \A q \in Runs : dangled[q] => dangled'[q]
<1>1. CASE Call(r) \/ ReadStep(r)
  BY <1>1, QuietSteps
<1>2. CASE WriteStep(r)
  <2>1. CASE Unreported(op[r], r)
    BY <1>2, <2>1, WriteLab, UnreportedLab DEF InjTypeOK
  <2>2. CASE Effect(op[r], Target(r), Type(r), r) /\ UNCHANGED <<orphans, dangled>>
    BY <1>2, <2>2, WriteLab, EffectIsLabChange DEF InjTypeOK
  <2>3. QED
    BY <1>2, <2>1, <2>2, WriteLab
<1>3. QED
  BY <1>1, <1>2 DEF Acts

\* The two flags of a run are only ever raised, and before the commands they
\* speak about.
LEMMA FlagsRaised ==
  ASSUME NEW r \in Runs, InjTypeOK, CommandsFit, ClsactFlagged, FilterFlagged, Acts(r)
  PROVE  /\ createdClsact[r] => createdClsact'[r]
         /\ filterCleanup[r] => filterCleanup'[r]
         /\ op'[r] \in {"addClsact", "delClsact", "checkClsact"} => createdClsact'[r]
         /\ op'[r] \in {"addFilter", "delFilter", "checkFilter"} => filterCleanup'[r]
         /\ createdClsact'[r] => Type(r) \in Impairments
<1> USE DEF InjTypeOK, FlagsTypeOK, ControlTypeOK, CommandsFit, Fits, TcCommands,
            ClsactFlagged, FilterFlagged, Return, Goto,
            flags, Mutations, Reads, FinishRemove, AfterFilter
<1>1. CASE Call(r)
  BY <1>1 DEF Call, CallApply, CallVerifyApplied, CallRemove, CallVerifyRemoved
<1>2. CASE ReadStep(r)
  BY <1>2 DEF ReadStep, InspectBefore, ShowFilter, ShowQdisc, VerifyApplied,
     CheckFilter, CheckClsact, VerifyRunning, VerifyFilterGone, VerifyClsactGone,
     ReadEscapes, Reading
<1>3. CASE WriteStep(r)
  BY <1>3 DEF WriteStep, ServiceCommand, AddClsact, AddFilter, StartService,
     DelFilter, DelClsact, Escapes, Succeeds, Fails
<1>4. QED
  BY <1>1, <1>2, <1>3 DEF Acts

LEMMA ActsKeepFits ==
  ASSUME NEW r \in Runs, InjTypeOK, CommandsFit, Acts(r)
  PROVE  CommandsFit'
<1>1. fault' = fault /\ \A q \in Runs : q # r => SameRun(q)
  BY OthersUntouched
<1>2. \A q \in Runs, c \in Commands : Fits(q, c)' <=> Fits(q, c)
  BY <1>1 DEF Fits, Valid, Target, Type
<1>3. (\A q \in Runs : op[q] \notin {"idle", "dead"} => Fits(q, op[q]))'
  BY <1>1, OwnCommandFits DEF CommandsFit, SameRun, Fits, Valid, Target, Type
<1>4. (\A o \in orphans : Fits(o.run, o.cmd) /\ dangled[o.run])'
  BY <1>1, ActsOnLab DEF CommandsFit, InjTypeOK, OrphansTypeOK, Fits, Valid, Target, Type
<1>5. (\A q \in Runs : (applied[q] \/ cleanupRequired[q]) /\ Type(q) \in Impairments => Valid(q))'
  BY <1>1, OwnCommandFits DEF CommandsFit, SameRun, Valid, Target, Type
<1>6. QED
  BY <1>3, <1>4, <1>5 DEF CommandsFit

LEMMA EnvironmentKeepsFits ==
  ASSUME InjTypeOK, CommandsFit, Environment
  PROVE  CommandsFit'
<1> USE DEF CommandsFit, InjTypeOK, Fits, Valid, Target, Type, flags
<1>1. ASSUME NEW s \in Services, ContainerRestarts(s)
      PROVE  CommandsFit'
  BY <1>1 DEF ContainerRestarts
<1>2. ASSUME NEW o \in orphans, OrphanEnds(o)
      PROVE  CommandsFit'
  BY <1>2 DEF OrphanEnds
<1>3. ASSUME NEW r \in Runs, Dies(r)
      PROVE  CommandsFit'
  BY <1>3 DEF Dies, LeftBehind, ControlTypeOK, OrphansTypeOK, Mutations
<1>4. QED
  BY <1>1, <1>2, <1>3 DEF Environment

\* FaultInjector fields keep their types under every interleaving of the runs'
\* calls, command failures, interrupts, deaths and container restarts; the
\* commands a run has yet to issue fit its fault.  (fault_injection.py)
THEOREM InjTypeCorrect == InjSpec => [](InjTypeOK /\ CommandsFit)
<1>1. InjInit => InjTypeOK /\ CommandsFit
  BY FaultsAssumption DEF InjInit, LabInit, InjectorInit, InjTypeOK, LabTypeOK, Owners,
     FlagsTypeOK, ControlTypeOK, OrphansTypeOK, CommandsFit, Results
<1>2. InjTypeOK /\ CommandsFit /\ [InjNext]_injVars => InjTypeOK' /\ CommandsFit'
  <2> SUFFICES ASSUME InjTypeOK, CommandsFit, [InjNext]_injVars
               PROVE  InjTypeOK' /\ CommandsFit'
    OBVIOUS
  <2>1. ASSUME NEW r \in Runs, Call(r) \/ Step(r)
        PROVE  InjTypeOK' /\ CommandsFit'
    BY <2>1, ActsAreTheSteps, CallTypes, ReadTypes, WriteTypes, ActsKeepFits DEF Acts
  <2>2. ASSUME NEW r \in Runs, Mask(r)
        PROVE  InjTypeOK' /\ CommandsFit'
    BY <2>2 DEF Mask, InjTypeOK, LabTypeOK, FlagsTypeOK, ControlTypeOK, OrphansTypeOK,
       CommandsFit, Fits, Valid, Target, Type, world, flags
  <2>3. CASE Environment
    BY <2>3, EnvironmentTypes, EnvironmentKeepsFits
  <2>4. CASE UNCHANGED injVars
    BY <2>4 DEF injVars, InjTypeOK, LabTypeOK, FlagsTypeOK, ControlTypeOK, OrphansTypeOK,
       CommandsFit, Fits, Valid, Target, Type, world, flags
  <2>5. QED
    BY <2>1, <2>2, <2>3, <2>4 DEF InjNext
<1>3. QED
  BY <1>1, <1>2, PTL DEF InjSpec

-----------------------------------------------------------------------------
(* The flags and the lab.                                                   *)

LEMMA ActsAddOwn ==
  ASSUME NEW r \in Runs, InjTypeOK, CommandsFit, Acts(r)
  PROVE  /\ \A q \in qdiscs' :
              q \in qdiscs \/ (q = <<Target(r), r>> /\ op[r] = "addClsact")
         /\ \A f \in filters' :
              f \in filters \/ (f = <<Target(r), Type(r), r>> /\ op[r] = "addFilter")
<1>1. CASE UNCHANGED <<world, orphans, dangled>>
  BY <1>1 DEF world
<1>2. CASE LabChange(op[r], r)
  BY <1>2 DEF LabChange
<1>3. QED
  BY <1>1, <1>2, ActsOnLab

LEMMA ActsKeepFlagged ==
  ASSUME NEW r \in Runs, InjTypeOK, CommandsFit, ClsactFlagged, FilterFlagged, Acts(r)
  PROVE  ClsactFlagged' /\ FilterFlagged'
<1>1. fault' = fault /\ \A q \in Runs : q # r => SameRun(q)
  BY OthersUntouched
<1>2. \A q \in Runs : Target(q)' = Target(q) /\ Type(q)' = Type(q)
  BY <1>1 DEF Target, Type
<1>3. \A q \in Runs : /\ createdClsact[q] => createdClsact'[q]
                      /\ filterCleanup[q] => filterCleanup'[q]
  BY <1>1, FlagsRaised DEF SameRun
<1>4. /\ \A q \in qdiscs' :
           q \in qdiscs \/ (q = <<Target(r), r>> /\ op[r] = "addClsact")
      /\ \A f \in filters' :
           f \in filters \/ (f = <<Target(r), Type(r), r>> /\ op[r] = "addFilter")
  BY ActsAddOwn
<1>5. \A o \in orphans' :
        o \in orphans \/ o = [run |-> r, cmd |-> op[r]]
  BY ActsOnLab
<1>6. ClsactFlagged'
  <2>1. (\A q \in qdiscs : q[2] \in Runs => createdClsact[q[2]] /\ q[1] = Target(q[2]))'
    BY <1>2, <1>3, <1>4 DEF ClsactFlagged
  <2>2. (\A q \in Runs : op[q] \in {"addClsact", "delClsact", "checkClsact"} => createdClsact[q])'
    BY <1>1, FlagsRaised DEF ClsactFlagged, SameRun
  <2>3. (\A o \in orphans : o.cmd \in {"addClsact", "delClsact"} => createdClsact[o.run])'
    BY <1>3, <1>5 DEF ClsactFlagged, InjTypeOK, OrphansTypeOK
  <2>4. (\A q \in Runs : createdClsact[q] => Type(q) \in Impairments)'
    BY <1>1, <1>2, FlagsRaised DEF ClsactFlagged, SameRun
  <2>5. QED
    BY <2>1, <2>2, <2>3, <2>4 DEF ClsactFlagged
<1>7. FilterFlagged'
  <2>1. (\A f \in filters :
           f[3] \in Runs => filterCleanup[f[3]] /\ f[1] = Target(f[3]) /\ f[2] = Type(f[3]))'
    BY <1>2, <1>3, <1>4 DEF FilterFlagged
  <2>2. (\A q \in Runs : op[q] \in {"addFilter", "delFilter", "checkFilter"} => filterCleanup[q])'
    BY <1>1, FlagsRaised DEF FilterFlagged, SameRun
  <2>3. (\A o \in orphans : o.cmd \in {"addFilter", "delFilter"} => filterCleanup[o.run])'
    BY <1>3, <1>5 DEF FilterFlagged, InjTypeOK, OrphansTypeOK
  <2>4. QED
    BY <2>1, <2>2, <2>3 DEF FilterFlagged
<1>8. QED
  BY <1>6, <1>7

\* What the lab and the other runs look like after an environment step.
LEMMA EnvironmentOnLab ==
  ASSUME InjTypeOK, CommandsFit, Environment
  PROVE  /\ UNCHANGED <<fault, flags, ret>>
         /\ \A r \in Runs : op'[r] \in {op[r], "dead"} /\ (dangled[r] => dangled'[r])
         /\ \A q \in qdiscs' :
              \/ q \in qdiscs
              \/ \E o \in orphans : o.cmd = "addClsact" /\ q = <<Target(o.run), o.run>>
         /\ \A f \in filters' :
              \/ f \in filters
              \/ \E o \in orphans :
                   o.cmd = "addFilter" /\ f = <<Target(o.run), Type(o.run), o.run>>
         /\ \A f \in filters' : <<f[1], Operator>> \in qdiscs => <<f[1], Operator>> \in qdiscs'
         /\ \A o \in orphans' : o \in orphans \/ o.cmd = op[o.run]
<1>1. ASSUME NEW s \in Services, ContainerRestarts(s)
      PROVE  /\ UNCHANGED <<fault, flags, op, ret, orphans, dangled>>
             /\ qdiscs' \subseteq qdiscs /\ filters' \subseteq filters
             /\ \A f \in filters' : <<f[1], Operator>> \in qdiscs => <<f[1], Operator>> \in qdiscs'
  BY <1>1 DEF ContainerRestarts, NetnsGone
<1>2. ASSUME NEW o \in orphans, OrphanEnds(o)
      PROVE  /\ UNCHANGED <<fault, flags, op, ret, dangled>>
             /\ orphans' \subseteq orphans
             /\ LabChange(o.cmd, o.run) \/ UNCHANGED world
  BY <1>2, EffectIsLabChange DEF OrphanEnds, OrphansTypeOK, CommandsFit, InjTypeOK
<1>3. ASSUME NEW r \in Runs, Dies(r)
      PROVE  /\ UNCHANGED <<fault, flags, ret, world>>
             /\ op' = [op EXCEPT ![r] = "dead"]
             /\ orphans' \subseteq orphans \union {[run |-> r, cmd |-> op[r]]}
             /\ dangled' \in {dangled, [dangled EXCEPT ![r] = TRUE]}
  BY <1>3 DEF Dies, LeftBehind
<1>4. CASE \E s \in Services : ContainerRestarts(s)
  BY <1>1, <1>4 DEF flags
<1>5. CASE \E o \in orphans : OrphanEnds(o)
  BY <1>2, <1>5 DEF LabChange, flags, world
<1>6. CASE \E r \in Runs : Dies(r)
  BY <1>3, <1>6 DEF InjTypeOK, OrphansTypeOK, ControlTypeOK, flags, world
<1>7. QED
  BY <1>4, <1>5, <1>6 DEF Environment

LEMMA EnvironmentKeepsFlagged ==
  ASSUME InjTypeOK, CommandsFit, ClsactFlagged, FilterFlagged, Environment
  PROVE  ClsactFlagged' /\ FilterFlagged'
<1>1. ClsactFlagged'
  BY EnvironmentOnLab, EnvironmentTypes
  DEF ClsactFlagged, InjTypeOK, OrphansTypeOK, ControlTypeOK, Target, Type, flags
<1>2. FilterFlagged'
  BY EnvironmentOnLab, EnvironmentTypes
  DEF FilterFlagged, InjTypeOK, OrphansTypeOK, ControlTypeOK, Target, Type, flags
<1>3. QED
  BY <1>1, <1>2

-----------------------------------------------------------------------------
(* The operator's clsact and filters stay out of reach.                     *)

\* A run takes over a clsact, or the preference of its filter, only after it
\* saw it free.
LEMMA ClaimsAreFree ==
  ASSUME NEW r \in Runs, InjTypeOK, CommandsFit, Acts(r)
  PROVE  /\ createdClsact'[r] => createdClsact[r] \/ ~HasClsact(Target(r))
         /\ filterCleanup'[r] \/ op'[r] \in {"showQdisc", "addClsact"} =>
              \/ filterCleanup[r] \/ op[r] \in {"showQdisc", "addClsact"}
              \/ ~HasFilter(Target(r), Type(r))
<1> USE DEF InjTypeOK, FlagsTypeOK, ControlTypeOK, Return, Goto,
            flags, Mutations, Reads, FinishRemove, AfterFilter
<1>1. CASE Call(r)
  BY <1>1 DEF Call, CallApply, CallVerifyApplied, CallRemove, CallVerifyRemoved
<1>2. CASE ReadStep(r)
  BY <1>2 DEF ReadStep, InspectBefore, ShowFilter, ShowQdisc, VerifyApplied,
     CheckFilter, CheckClsact, VerifyRunning, VerifyFilterGone, VerifyClsactGone,
     ReadEscapes, Reading
<1>3. CASE WriteStep(r)
  BY <1>3 DEF WriteStep, ServiceCommand, AddClsact, AddFilter, StartService,
     DelFilter, DelClsact, Escapes, Succeeds, Fails
<1>4. QED
  BY <1>1, <1>2, <1>3 DEF Acts

LEMMA ActsOutOfReach ==
  ASSUME NEW r \in Runs, InjTypeOK, CommandsFit, OperatorOutOfReach, Acts(r)
  PROVE  OperatorOutOfReach'
<1>1. fault' = fault /\ \A q \in Runs : q # r => SameRun(q)
  BY OthersUntouched
<1>2. \A q \in Runs : Target(q)' = Target(q) /\ Type(q)' = Type(q)
  BY <1>1 DEF Target, Type
<1>3. /\ \A q \in qdiscs' : q[2] = Operator => q \in qdiscs
      /\ \A f \in filters' : f[3] = Operator => f \in filters
  BY ActsAddOwn, RunsAssumption
<1>4. \A f \in filters' : <<f[1], Operator>> \in qdiscs => <<f[1], Operator>> \in qdiscs'
  BY ActsOnLab DEF LabChange, world
<1>5. ASSUME NEW q \in qdiscs', q[2] = Operator, NEW p \in Runs, createdClsact'[p]
      PROVE  Target(p) # q[1]
  <2>1. CASE p # r
    BY <1>1, <1>3, <1>5, <2>1 DEF OperatorOutOfReach, SameRun
  <2>2. CASE p = r
    BY <1>3, <1>5, <2>2, ClaimsAreFree DEF OperatorOutOfReach, HasClsact
  <2>3. QED
    BY <2>1, <2>2
<1>6. ASSUME NEW f \in filters', f[3] = Operator, NEW p \in Runs,
             filterCleanup'[p] \/ op'[p] \in {"showQdisc", "addClsact"}
      PROVE  ~(Target(p) = f[1] /\ Type(p) = f[2])
  <2>1. CASE p # r
    BY <1>1, <1>3, <1>6, <2>1 DEF OperatorOutOfReach, SameRun
  <2>2. CASE p = r
    BY <1>3, <1>6, <2>2, ClaimsAreFree DEF OperatorOutOfReach, HasFilter
  <2>3. QED
    BY <2>1, <2>2
<1>7. \A f \in filters' : f[3] = Operator => <<f[1], Operator>> \in qdiscs'
  BY <1>3, <1>4 DEF OperatorOutOfReach
<1>8. QED
  BY <1>2, <1>5, <1>6, <1>7 DEF OperatorOutOfReach

LEMMA EnvironmentOutOfReach ==
  ASSUME InjTypeOK, CommandsFit, OperatorOutOfReach, Environment
  PROVE  OperatorOutOfReach'
<1>1. /\ \A q \in qdiscs' : q[2] = Operator => q \in qdiscs
      /\ \A f \in filters' : f[3] = Operator => f \in filters
  BY EnvironmentOnLab, RunsAssumption DEF InjTypeOK, OrphansTypeOK
<1>2. /\ \A r \in Runs : op'[r] \in {"showQdisc", "addClsact"} => op'[r] = op[r]
      /\ UNCHANGED <<fault, createdClsact, filterCleanup>>
  BY EnvironmentOnLab DEF flags
<1>3. \A f \in filters' : f[3] = Operator => <<f[1], Operator>> \in qdiscs'
  BY <1>1, EnvironmentOnLab DEF OperatorOutOfReach
<1>4. QED
  BY <1>1, <1>2, <1>3 DEF OperatorOutOfReach, Target, Type

\* The step property: what goes, goes with the network namespace.
LEMMA OperatorStateStep ==
  ASSUME InjTypeOK, CommandsFit, ClsactFlagged, FilterFlagged, OperatorOutOfReach,
         NEW s \in Services, [InjNext]_injVars
  PROVE  \/ NetnsLost(s)
         \/ /\ \A q \in qdiscs : q = <<s, Operator>> => q \in qdiscs'
            /\ \A f \in filters : f[1] = s /\ f[3] = Operator => f \in filters'
<1> DEFINE Kept == /\ \A q \in qdiscs : q = <<s, Operator>> => q \in qdiscs'
                   /\ \A f \in filters : f[1] = s /\ f[3] = Operator => f \in filters'
<1>1. CASE UNCHANGED world
  BY <1>1 DEF world
<1>2. ASSUME NEW r \in Runs, NEW c \in Mutations, LabChange(c, r),
             c = "delClsact" => createdClsact[r],
             c = "delFilter" => filterCleanup[r]
      PROVE  NetnsLost(s) \/ Kept
  BY <1>2 DEF LabChange, OperatorOutOfReach
<1>3. ASSUME NEW r \in Runs, Call(r) \/ Step(r)
      PROVE  NetnsLost(s) \/ Kept
  <2>1. CASE Call(r) \/ ReadStep(r)
    BY <1>1, <2>1, QuietSteps
  <2>2. CASE WriteStep(r)
    <3>1. op[r] \in Mutations
      BY <2>2, WriteLab
    <3>2. UNCHANGED world \/ LabChange(op[r], r)
      BY <2>2, ActsOnLab DEF Acts
    <3>3. QED
      BY <1>1, <1>2, <3>1, <3>2 DEF ClsactFlagged, FilterFlagged
  <2>3. QED
    BY <1>3, <2>1, <2>2, ActsAreTheSteps DEF Acts
<1>4. CASE \E x \in Services : ContainerRestarts(x)
  BY <1>4 DEF ContainerRestarts, NetnsGone, NetnsLost, InjTypeOK, LabTypeOK
<1>5. CASE \E o \in orphans : OrphanEnds(o)
  <2>1. PICK o \in orphans : OrphanEnds(o)
    BY <1>5
  <2>2. o.run \in Runs /\ o.cmd \in Mutations
    BY DEF InjTypeOK, OrphansTypeOK
  <2>3. UNCHANGED world \/ LabChange(o.cmd, o.run)
    BY <2>1, <2>2, EffectIsLabChange DEF OrphanEnds, CommandsFit, InjTypeOK
  <2>4. QED
    BY <1>1, <1>2, <2>2, <2>3 DEF ClsactFlagged, FilterFlagged
<1>6. CASE \E r \in Runs : Dies(r) \/ Mask(r)
  BY <1>1, <1>6 DEF Dies, Mask
<1>7. QED
  BY <1>1, <1>3, <1>4, <1>5, <1>6 DEF InjNext, Environment, injVars

-----------------------------------------------------------------------------
(* The cleanup is armed as long as anything of the run is in place.         *)

\* Own objects are on the run's target; one of their deletions or absences
\* seen there is enough.
LEMMA OwnOnTarget ==
  ASSUME NEW r \in Runs, ClsactFlagged, FilterFlagged
  PROVE  /\ \A q \in OwnQdiscs(r) : q[1] = Target(r) /\ createdClsact[r]
         /\ \A f \in OwnFilters(r) : f[1] = Target(r) /\ f[2] = Type(r) /\ filterCleanup[r]
         /\ ~HasClsact(Target(r)) => OwnQdiscs(r) = {}
         /\ ~HasFilter(Target(r), Type(r)) => OwnFilters(r) = {}
         /\ ~createdClsact[r] => OwnQdiscs(r) = {}
         /\ ~filterCleanup[r] => OwnFilters(r) = {}
BY DEF ClsactFlagged, FilterFlagged, OwnQdiscs, OwnFilters, HasClsact, HasFilter

\* A run whose fault is not an impairment has nothing in the lab.
LEMMA OnlyImpairmentsOwn ==
  ASSUME NEW r \in Runs, LabTypeOK, ClsactFlagged, FilterFlagged, Type(r) \notin Impairments
  PROVE  OwnQdiscs(r) = {} /\ OwnFilters(r) = {}
BY DEF ClsactFlagged, FilterFlagged, OwnQdiscs, OwnFilters, LabTypeOK

ArmedRun(r) ==
  /\ op[r] \in {"addClsact", "addFilter"} => cleanupRequired[r]
  /\ OwnQdiscs(r) # {} \/ OwnFilters(r) # {} => cleanupRequired[r]
  /\ op[r] \in {"delClsact", "checkClsact"} /\ ~failed[r] => OwnFilters(r) = {}

LEMMA CallsStayArmed ==
  ASSUME NEW r \in Runs, InjTypeOK, ClsactFlagged, FilterFlagged, Fresh,
         ArmedRun(r), Call(r)
  PROVE  ArmedRun(r)'
<1>1. OwnQdiscs(r)' = OwnQdiscs(r) /\ OwnFilters(r)' = OwnFilters(r)
  BY QuietSteps DEF OwnQdiscs, OwnFilters, world
<1> USE <1>1 DEF ArmedRun, InjTypeOK, FlagsTypeOK, ControlTypeOK, Return, Goto, flags
<1>2. CASE CallApply(r)
  <2>1. ~createdClsact[r] /\ ~filterCleanup[r]
    BY <1>2 DEF CallApply, Fresh
  <2>2. OwnQdiscs(r)' = {} /\ OwnFilters(r)' = {}
    BY <1>1, <2>1, OwnOnTarget
  <2>3. op'[r] \notin {"addClsact", "addFilter"}
    BY <1>2 DEF CallApply
  <2>4. QED
    BY <2>2, <2>3
<1>3. CASE CallVerifyApplied(r)
  BY <1>3 DEF CallVerifyApplied
<1>4. CASE CallRemove(r)
  BY <1>4, OwnOnTarget, OnlyImpairmentsOwn
  DEF CallRemove, FinishRemove, AfterFilter, Impairments, MutationFaults
<1>5. CASE CallVerifyRemoved(r)
  BY <1>5 DEF CallVerifyRemoved
<1>6. QED
  BY <1>2, <1>3, <1>4, <1>5 DEF Call

\* Every call ends with a result.
LEMMA ActsKeepFresh ==
  ASSUME NEW r \in Runs, InjTypeOK, Fresh, Acts(r)
  PROVE  Fresh'
<1>1. ~(op'[r] = "idle" /\ ret'[r] = "none")
  <2> USE DEF InjTypeOK, ControlTypeOK, Return, Goto, FinishRemove, AfterFilter
  <2>1. CASE Call(r)
    BY <2>1 DEF Call, CallApply, CallVerifyApplied, CallRemove, CallVerifyRemoved
  <2>2. CASE ReadStep(r)
    BY <2>2 DEF ReadStep, InspectBefore, ShowFilter, ShowQdisc, VerifyApplied,
       CheckFilter, CheckClsact, VerifyRunning, VerifyFilterGone, VerifyClsactGone, ReadEscapes
  <2>3. CASE WriteStep(r)
    BY <2>3 DEF WriteStep, ServiceCommand, AddClsact, AddFilter, StartService,
       DelFilter, DelClsact, Escapes
  <2>4. QED
    BY <2>1, <2>2, <2>3 DEF Acts
<1>2. QED
  BY <1>1, OthersUntouched DEF Fresh, SameRun

LEMMA ReadsStayArmed ==
  ASSUME NEW r \in Runs, InjTypeOK, ClsactFlagged, FilterFlagged,
         ArmedRun(r), ReadStep(r)
  PROVE  ArmedRun(r)'
<1>1. OwnQdiscs(r)' = OwnQdiscs(r) /\ OwnFilters(r)' = OwnFilters(r)
  BY QuietSteps DEF OwnQdiscs, OwnFilters, world
<1> USE <1>1 DEF ArmedRun, InjTypeOK, FlagsTypeOK, ControlTypeOK, Return, Goto, flags, Reading
<1>2. CASE InspectBefore(r)
  BY <1>2 DEF InspectBefore
<1>3. CASE ShowFilter(r) \/ ShowQdisc(r) \/ VerifyApplied(r)
  BY <1>3 DEF ShowFilter, ShowQdisc, VerifyApplied
<1>4. CASE CheckFilter(r)
  BY <1>4, OwnOnTarget DEF CheckFilter, AfterFilter, FinishRemove
<1>5. CASE CheckClsact(r)
  BY <1>5, OwnOnTarget DEF CheckClsact, FinishRemove
<1>6. CASE VerifyRunning(r) \/ VerifyFilterGone(r) \/ VerifyClsactGone(r)
  BY <1>6 DEF VerifyRunning, VerifyFilterGone, VerifyClsactGone
<1>7. CASE op[r] \in Reads /\ ReadEscapes(r)
  BY <1>7 DEF ReadEscapes
<1>8. QED
  BY <1>2, <1>3, <1>4, <1>5, <1>6, <1>7 DEF ReadStep

LEMMA WritesStayArmed ==
  ASSUME NEW r \in Runs, InjTypeOK, CommandsFit, ClsactFlagged, FilterFlagged,
         ArmedRun(r), WriteStep(r)
  PROVE  ArmedRun(r)'
<1>1. /\ op[r] # "addClsact" => OwnQdiscs(r)' \subseteq OwnQdiscs(r)
      /\ op[r] # "addFilter" => OwnFilters(r)' \subseteq OwnFilters(r)
  BY ActsAddOwn DEF Acts, OwnQdiscs, OwnFilters
<1> USE <1>1 DEF ArmedRun, InjTypeOK, FlagsTypeOK, ControlTypeOK, Return, Goto, flags,
                 Succeeds, Fails
<1>2. CASE ServiceCommand(r) \/ AddClsact(r) \/ AddFilter(r)
  BY <1>2 DEF ServiceCommand, AddClsact, AddFilter
<1>3. CASE StartService(r)
  <2>1. OwnQdiscs(r) = {} /\ OwnFilters(r) = {}
    BY <1>3, OnlyImpairmentsOwn
    DEF StartService, CommandsFit, Fits, ServiceCommands, ServiceFaults, Impairments
  <2>2. OwnQdiscs(r)' = {} /\ OwnFilters(r)' = {}
    BY <1>3, <2>1 DEF StartService
  <2>3. QED
    BY <1>3, <2>2 DEF StartService, FinishRemove
<1>4. CASE DelFilter(r)
  <2>1. CASE Succeeds(r, "delFilter") /\ AfterFilter(r, failed[r])
    <3>1. OwnFilters(r)' = {}
      BY <2>1, OwnOnTarget DEF Effect, OwnFilters
    <3>2. ~createdClsact[r] => OwnQdiscs(r)' = {}
      BY <2>1, OwnOnTarget
    <3>3. QED
      BY <2>1, <3>1, <3>2 DEF AfterFilter, FinishRemove
  <2>2. CASE Fails(r, "delFilter") /\ Goto(r, "checkFilter")
             /\ UNCHANGED <<applied, cleanupRequired, failed>>
    BY <2>2
  <2>3. QED
    BY <1>4, <2>1, <2>2 DEF DelFilter
<1>5. CASE DelClsact(r)
  <2>1. CASE Succeeds(r, "delClsact") /\ FinishRemove(r, failed[r])
    <3>1. OwnFilters(r)' = {} /\ OwnQdiscs(r)' = {}
      BY <2>1, OwnOnTarget DEF Effect, NetnsGone, OwnFilters, OwnQdiscs
    <3>2. QED
      BY <2>1, <3>1 DEF FinishRemove
  <2>2. CASE Fails(r, "delClsact") /\ Goto(r, "checkClsact")
             /\ UNCHANGED <<applied, cleanupRequired, failed>>
    BY <2>2
  <2>3. QED
    BY <1>5, <2>1, <2>2 DEF DelClsact
<1>6. CASE op[r] \in Mutations /\ Escapes(r, op[r])
  BY <1>6 DEF Escapes
<1>7. QED
  BY <1>2, <1>3, <1>4, <1>5, <1>6 DEF WriteStep

LEMMA ActsKeepArmed ==
  ASSUME NEW r \in Runs, InjTypeOK, CommandsFit, ClsactFlagged, FilterFlagged, Fresh,
         Armed, Acts(r)
  PROVE  Armed'
<1>1. \A q \in Runs : dangled[q] => dangled'[q]
  BY ActsOnLab
<1>2. ASSUME NEW q \in Runs, q # r, ~dangled[q]
      PROVE  ArmedRun(q)'
  <2>1. OwnQdiscs(q)' \subseteq OwnQdiscs(q) /\ OwnFilters(q)' \subseteq OwnFilters(q)
    BY <1>2, ActsAddOwn DEF OwnQdiscs, OwnFilters
  <2>2. QED
    BY <1>2, <2>1, OthersUntouched DEF Armed, ArmedRun, SameRun
<1>3. ~dangled[r] => ArmedRun(r)'
  BY CallsStayArmed, ReadsStayArmed, WritesStayArmed DEF Acts, Armed, ArmedRun
<1>4. QED
  BY <1>1, <1>2, <1>3 DEF Armed, ArmedRun

LEMMA EnvironmentKeepsArmed ==
  ASSUME InjTypeOK, CommandsFit, Armed, Environment
  PROVE  Armed'
<1>1. ASSUME NEW r \in Runs, ~dangled[r]
      PROVE  ArmedRun(r)'
  <2>1. OwnQdiscs(r)' \subseteq OwnQdiscs(r) /\ OwnFilters(r)' \subseteq OwnFilters(r)
    <3>1. \A o \in orphans : o.run # r
      BY <1>1 DEF CommandsFit
    <3>2. QED
      BY <3>1, EnvironmentOnLab DEF OwnQdiscs, OwnFilters
  <2>2. QED
    BY <1>1, <2>1, EnvironmentOnLab DEF Armed, ArmedRun, flags
<1>2. QED
  BY <1>1, EnvironmentOnLab DEF Armed, ArmedRun

-----------------------------------------------------------------------------
(* The theorems.                                                            *)

\* The inductive invariant of the injector: the flags of every object cover
\* what it may have put into the lab, and nothing of the operator's is in
\* reach of a rollback.  (fault_injection.py: apply, remove)
THEOREM InjectorInvariant == InjSpec => [](InjTypeOK /\ InjInv)
<1>1. InjInit => InjInv
  BY RunsAssumption DEF InjInit, LabInit, InjectorInit, InjInv, CommandsFit, ClsactFlagged,
     FilterFlagged, Fresh, Armed, OperatorOutOfReach, OwnQdiscs, OwnFilters, HasClsact
<1>2. InjTypeOK /\ InjInv /\ InjTypeOK' /\ [InjNext]_injVars => InjInv'
  <2> SUFFICES ASSUME InjTypeOK, InjInv, [InjNext]_injVars
               PROVE  InjInv'
    OBVIOUS
  <2>1. ASSUME NEW r \in Runs, Call(r) \/ Step(r)
        PROVE  InjInv'
    BY <2>1, ActsAreTheSteps, ActsKeepFits, ActsKeepFlagged, ActsKeepFresh, ActsKeepArmed,
       ActsOutOfReach DEF InjInv
  <2>2. CASE Environment
    <3>1. Fresh'
      BY <2>2, EnvironmentOnLab DEF InjInv, Fresh, flags
    <3>2. QED
      BY <2>2, <3>1, EnvironmentKeepsFits, EnvironmentKeepsFlagged, EnvironmentKeepsArmed,
         EnvironmentOutOfReach DEF InjInv
  <2>3. CASE \/ UNCHANGED injVars
             \/ \E r \in Runs : Mask(r)
    <3>1. UNCHANGED <<world, orphans, dangled, flags, fault, op, ret>>
      BY <2>3 DEF Mask, injVars
    <3>2. QED
      BY <3>1 DEF InjInv, CommandsFit, Fits, Valid, Target, Type, ClsactFlagged, FilterFlagged,
         Fresh, Armed, OperatorOutOfReach, OwnQdiscs, OwnFilters, world, flags
  <2>4. QED
    BY <2>1, <2>2, <2>3 DEF InjNext
<1>3. QED
  BY <1>1, <1>2, InjTypeCorrect, PTL DEF InjSpec

\* A run's cleanup is armed as long as its tc state is in place, for any number
\* of runs on the same containers.  (fault_injection.py: _apply_impairment, remove)
THEOREM AlwaysArmed == InjSpec => []ArmedWhileInstalled
<1>1. InjInv => ArmedWhileInstalled
  BY DEF InjInv, Armed, ArmedWhileInstalled
<1>2. QED
  BY <1>1, InjectorInvariant, PTL

\* No rollback of any run, whatever its commands fail with and however late
\* they take effect, takes out a clsact that was there before or the filters
\* under it.  (fault_injection.py: _apply_impairment, rollback_commands)
THEOREM OperatorStateSafe == InjSpec => OperatorStateKept
<1>1. InjTypeOK /\ InjInv /\ [InjNext]_injVars =>
        [\A s \in Services :
           \/ up'[s] = FALSE \/ startedAt'[s] # startedAt[s]
           \/ /\ \A q \in qdiscs : q = <<s, Operator>> => q \in qdiscs'
              /\ \A f \in filters : f[1] = s /\ f[3] = Operator => f \in filters']_injVars
  BY OperatorStateStep DEF InjInv, NetnsLost
<1>2. QED
  BY <1>1, InjectorInvariant, PTL DEF InjSpec, OperatorStateKept

-----------------------------------------------------------------------------
(* A run acts on its target only.                                            *)

\* Run r has command c in progress, or has left it behind.
Issued(r, c) == op[r] = c \/ [run |-> r, cmd |-> c] \in orphans

\* What a command of run r that is not one of the service commands, or not on
\* service s, leaves of s.
LEMMA EffectOnTarget ==
  ASSUME LabTypeOK, NEW r \in Runs, NEW c \in Mutations, Fits(r, c),
         Effect(c, Target(r), Type(r), r), NEW s \in Services
  PROVE  \/ up'[s] = up[s] /\ startedAt'[s] = startedAt[s]
         \/ c \in {"restart", "stop", "start"} /\ Target(r) = s /\ Type(r) \in ServiceFaults
<1> USE DEF LabTypeOK, Fits, Valid, ServiceCommands
<1>1. CASE c \in {"restart", "start"} /\ Booted(Target(r))
  BY <1>1 DEF Booted
<1>2. CASE c = "start" /\ UNCHANGED world
  BY <1>2 DEF world
<1>3. CASE c = "stop"
  BY <1>3 DEF Effect
<1>4. CASE c \in {"addClsact", "addFilter", "delFilter", "delClsact"}
  BY <1>4 DEF Effect
<1>5. QED
  BY <1>1, <1>2, <1>3, <1>4 DEF Effect

\* The same of what it adds.
LEMMA EffectAddsOwn ==
  ASSUME NEW r \in Runs, NEW c \in Mutations, LabTypeOK, Fits(r, c),
         Effect(c, Target(r), Type(r), r)
  PROVE  /\ \A q \in qdiscs' \ qdiscs :
              c = "addClsact" /\ q = <<Target(r), r>> /\ Type(r) \in Impairments
         /\ \A f \in filters' \ filters :
              c = "addFilter" /\ f = <<Target(r), Type(r), r>> /\ Type(r) \in Impairments
<1>1. LabChange(c, r)
  BY EffectIsLabChange
<1>2. QED
  BY <1>1 DEF LabChange, Fits, TcCommands

\* The step property: whose doing it is.
Disturbed(s) == up'[s] # up[s] \/ startedAt'[s] # startedAt[s]

ByDocker(s) == up[s] /\ up'[s] /\ restarts'[s] = restarts[s] + 1

ByRun(s) ==
  \E r \in Runs, c \in {"restart", "stop", "start"} :
    Target(r) = s /\ Type(r) \in ServiceFaults /\ Issued(r, c)

AddedByRun ==
  /\ \A q \in qdiscs' \ qdiscs :
       \E r \in Runs :
         q = <<Target(r), r>> /\ Type(r) \in Impairments /\ Issued(r, "addClsact")
  /\ \A f \in filters' \ filters :
       \E r \in Runs :
         f = <<Target(r), Type(r), r>> /\ Type(r) \in Impairments /\ Issued(r, "addFilter")

Scoped == (\A s \in Services : Disturbed(s) => ByDocker(s) \/ ByRun(s)) /\ AddedByRun

LEMMA CommandIsScoped ==
  ASSUME InjTypeOK, NEW r \in Runs, NEW c \in Mutations, Issued(r, c), Fits(r, c),
         Effect(c, Target(r), Type(r), r)
  PROVE  Scoped
<1>1. \A s \in Services : Disturbed(s) => ByRun(s)
  BY EffectOnTarget DEF InjTypeOK, Disturbed, ByRun
<1>2. AddedByRun
  BY EffectAddsOwn DEF InjTypeOK, AddedByRun
<1>3. QED
  BY <1>1, <1>2 DEF Scoped

LEMMA StepIsScoped ==
  ASSUME InjTypeOK, CommandsFit, [InjNext]_injVars
  PROVE  Scoped
<1>1. CASE UNCHANGED world
  BY <1>1 DEF world, Scoped, Disturbed, AddedByRun
<1>2. ASSUME NEW r \in Runs, Call(r) \/ Step(r)
      PROVE  Scoped
  <2>1. CASE Call(r) \/ ReadStep(r)
    BY <1>1, <2>1, QuietSteps
  <2>2. CASE WriteStep(r)
    <3>1. Issued(r, op[r])
      BY DEF Issued
    <3>2. QED
      BY <1>1, <2>2, <3>1, WriteLab, CommandIsScoped DEF Unreported
  <2>3. QED
    BY <1>2, <2>1, <2>2, ActsAreTheSteps DEF Acts
<1>3. ASSUME NEW x \in Services, ContainerRestarts(x)
      PROVE  Scoped
  BY <1>3 DEF ContainerRestarts, NetnsGone, InjTypeOK, LabTypeOK, Scoped, Disturbed, ByDocker,
     AddedByRun
<1>4. ASSUME NEW o \in orphans, OrphanEnds(o)
      PROVE  Scoped
  <2>1. o.run \in Runs /\ o.cmd \in Mutations /\ o = [run |-> o.run, cmd |-> o.cmd]
    BY DEF InjTypeOK, OrphansTypeOK
  <2>2. Issued(o.run, o.cmd) /\ Fits(o.run, o.cmd)
    BY <2>1 DEF Issued, CommandsFit
  <2>3. QED
    BY <1>1, <1>4, <2>1, <2>2, CommandIsScoped DEF OrphanEnds
<1>5. ASSUME NEW r \in Runs, Dies(r) \/ Mask(r)
      PROVE  Scoped
  BY <1>1, <1>5 DEF Dies, Mask
<1>6. QED
  BY <1>1, <1>2, <1>3, <1>4, <1>5 DEF InjNext, Environment, injVars

\* Failure injection is scoped: whatever the runs do and in whatever order, and
\* however late, a container is stopped or booted by docker's restart policy or
\* by a service fault on that container, and a clsact or a filter is added only
\* by an impairment, on its target and of its type.
\* (docs/failure_injection.md, "Safety restrictions"; fault_injection.py:44-129)
LabScoped == [][Scoped]_injVars

THEOREM InjectionIsScoped == InjSpec => LabScoped
<1>1. InjTypeOK /\ CommandsFit /\ [InjNext]_injVars => [Scoped]_injVars
  BY StepIsScoped
<1>2. QED
  BY <1>1, InjTypeCorrect, PTL DEF InjSpec, LabScoped
=============================================================================
