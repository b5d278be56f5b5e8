--------------------------- MODULE FaultInjector ---------------------------
(***************************************************************************)
(* The fault injector of src/fiveg_lab/fault_injection.py: one FaultInjector *)
(* object per scenario run, all acting on the same docker-compose lab.      *)
(*                                                                         *)
(* A method call is started by a Call action and then executes one docker   *)
(* or tc command per step; op[r] names the next command of run r and ret[r] *)
(* is how its last call ended.  A command can fail without effect, take     *)
(* effect and still be reported as failed, be interrupted, or be left       *)
(* behind by a killed client and take effect later (orphans).  Any number   *)
(* of runs interleave, because nothing in the code excludes it.             *)
(***************************************************************************)
EXTENDS Naturals, FiniteSets

CONSTANTS
  Runs,         \* scenario runs: one process and one FaultInjector object each
  Operator,     \* owner of the tc state that was there before any run
  Services,     \* the containers of ALLOWED_SERVICES that the instance has
  NoService,    \* a target that validated_service rejects
  Faults,       \* the FaultSpecs the runs may carry
  MaxRestarts,  \* bound: spontaneous restarts per container
  MaxOrphans    \* bound: commands left behind at any one time

\* IMPAIRMENT_RULES, the declarative mutation types, and parser.FAULT_TYPES.
Impairments == {"n2_impairment", "n3_impairment"}
MutationFaults == {"subscriber_key_mismatch", "unknown_subscriber",
                   "dnn_mismatch", "snssai_mismatch"}
ServiceFaults == {"restart_service", "stop_service"}
FaultTypes == {"none"} \union MutationFaults \union ServiceFaults \union Impairments

ASSUME RunsAssumption == Operator \notin Runs
ASSUME ServicesAssumption == NoService \notin Services
ASSUME FaultsAssumption ==
  Faults \subseteq [type : FaultTypes, target : Services \union {NoService}]
ASSUME BoundsAssumption == MaxRestarts \in Nat /\ MaxOrphans \in Nat

VARIABLES
  \* the lab: what docker and the kernel hold
  up,           \* up[s]: container s is running
  startedAt,    \* startedAt[s]: its State.StartedAt, as a counter
  restarts,     \* restarts[s]: its RestartCount (restart: unless-stopped)
  qdiscs,       \* clsact qdiscs in place: <<service, owner>>
  filters,      \* flower filters in place: <<service, type, owner>>
  orphans,      \* commands whose client was killed, still to take effect
  \* one FaultInjector object per run
  fault,        \* self.fault
  applied, cleanupRequired, createdClsact, filterCleanup,
  restartFrom,  \* _restart_started_at
  failed,       \* remove() has collected an error
  op, ret,      \* control: the next command, the result of the last call
  masked,       \* the process ignores SIGINT and SIGTERM
  dangled       \* history: a command of the run was ever left behind

world == <<up, startedAt, restarts, qdiscs, filters>>
flags == <<applied, cleanupRequired, createdClsact, filterCleanup, restartFrom, failed>>
injVars == <<world, orphans, fault, flags, op, ret, masked, dangled>>

\* The commands that change the lab, and the ones that only read it.
Mutations == {"restart", "stop", "start", "addClsact", "addFilter", "delFilter", "delClsact"}
Reads == {"inspectBefore", "showFilter", "showQdisc", "verifyApplied",
          "checkFilter", "checkClsact", "verifyFilterGone", "verifyClsactGone",
          "verifyRunning"}
Results == {"none", "ok", "true", "false", "error", "uncaught", "interrupt"}

Type(r) == fault[r].type
Target(r) == fault[r].target
Valid(r) == Target(r) \in Services

-----------------------------------------------------------------------------
(* The lab as the injector's commands see it.                               *)

HasClsact(s) == \E q \in qdiscs : q[1] = s
HasFilter(s, t) == \E f \in filters : f[1] = s /\ f[2] = t

\* The traffic control state lives in the container's network namespace.
NetnsGone(s) ==
  /\ qdiscs' = {q \in qdiscs : q[1] # s}
  /\ filters' = {f \in filters : f[1] # s}

Booted(s) ==
  /\ up' = [up EXCEPT ![s] = TRUE]
  /\ startedAt' = [startedAt EXCEPT ![s] = @ + 1]
  /\ restarts' = [restarts EXCEPT ![s] = 0]
  /\ NetnsGone(s)

\* What command c does on service s for run r with impairment type t.
\* compose exec needs a running container, tc refuses a second object.
Effect(c, s, t, r) ==
  \/ c = "restart" /\ Booted(s)
  \/ c = "start" /\ ~up[s] /\ Booted(s)
  \/ c = "start" /\ up[s] /\ UNCHANGED world
  \/ /\ c = "stop"
     /\ up' = [up EXCEPT ![s] = FALSE]
     /\ NetnsGone(s)
     /\ UNCHANGED <<startedAt, restarts>>
  \/ /\ c = "addClsact" /\ up[s] /\ ~HasClsact(s)
     /\ qdiscs' = qdiscs \union {<<s, r>>}
     /\ UNCHANGED <<up, startedAt, restarts, filters>>
  \/ /\ c = "addFilter" /\ up[s] /\ HasClsact(s) /\ ~HasFilter(s, t)
     /\ filters' = filters \union {<<s, t, r>>}
     /\ UNCHANGED <<up, startedAt, restarts, qdiscs>>
  \/ /\ c = "delFilter" /\ up[s] /\ HasFilter(s, t)
     /\ filters' = {f \in filters : ~(f[1] = s /\ f[2] = t)}
     /\ UNCHANGED <<up, startedAt, restarts, qdiscs>>
  \/ /\ c = "delClsact" /\ up[s] /\ HasClsact(s)
     /\ NetnsGone(s)
     /\ UNCHANGED <<up, startedAt, restarts>>

\* The client of a command is killed (timeout, interrupt, death of the run)
\* while the command itself lives on in docker or in the container.
LeftBehind(r, c) ==
  /\ Cardinality(orphans) < MaxOrphans
  /\ orphans' = orphans \union {[run |-> r, cmd |-> c]}
  /\ dangled' = [dangled EXCEPT ![r] = TRUE]

\* A command that did not report success: it may have had no effect, its
\* effect, or be running still although its client is gone.
Unreported(c, r) ==
  \/ UNCHANGED <<world, orphans, dangled>>
  \/ Effect(c, Target(r), Type(r), r) /\ UNCHANGED <<orphans, dangled>>
  \/ LeftBehind(r, c) /\ UNCHANGED world

-----------------------------------------------------------------------------
(* Control: a call returns, or goes on to its next command.                 *)

Return(r, result) ==
  /\ op' = [op EXCEPT ![r] = "idle"]
  /\ ret' = [ret EXCEPT ![r] = result]

Goto(r, command) ==
  /\ op' = [op EXCEPT ![r] = command]
  /\ UNCHANGED ret

\* SIGINT and SIGTERM raise KeyboardInterrupt unless both are ignored.
CanInterrupt(r) == ~masked[r]

\* Exceptions no method of the injector handles: KeyboardInterrupt, and the
\* OSError of a client that cannot be started.
Escapes(r, c) ==
  /\ \/ CanInterrupt(r) /\ Unreported(c, r) /\ Return(r, "interrupt")
     \/ UNCHANGED <<world, orphans, dangled>> /\ Return(r, "uncaught")
  /\ UNCHANGED <<flags, fault, masked>>

ReadEscapes(r) ==
  /\ \/ CanInterrupt(r) /\ Return(r, "interrupt")
     \/ Return(r, "uncaught")
  /\ UNCHANGED <<world, orphans, dangled, flags, fault, masked>>

\* A mutating command of _run: zero status, nonzero status, or an escape.
Succeeds(r, c) ==
  /\ op[r] = c
  /\ Effect(c, Target(r), Type(r), r)
  /\ UNCHANGED <<orphans, dangled, fault, masked>>

Fails(r, c) ==
  /\ op[r] = c
  /\ Unreported(c, r)
  /\ UNCHANGED <<fault, masked>>

\* A reading command leaves the lab as it is.
Reading(r, c) ==
  /\ op[r] = c
  /\ UNCHANGED <<world, orphans, dangled, fault, masked>>

-----------------------------------------------------------------------------
(* apply()                                                                  *)

\* The call up to its first command.  stop_service arms the cleanup before it
\* looks at the target, the other types reject a bad target unarmed.
CallApply(r) ==
  /\ op[r] = "idle" /\ ret[r] = "none"
  /\ cleanupRequired' = [cleanupRequired EXCEPT ![r] = (Type(r) = "stop_service")]
  /\ applied' = [applied EXCEPT ![r] = Type(r) \in MutationFaults \union {"none"}]
  /\ \/ Type(r) \in MutationFaults \union {"none"} /\ Return(r, "ok")
     \/ Type(r) = "restart_service" /\ Valid(r) /\ Goto(r, "inspectBefore")
     \/ Type(r) = "stop_service" /\ Valid(r) /\ Goto(r, "stop")
     \/ Type(r) \in Impairments /\ Valid(r) /\ Goto(r, "showFilter")
     \/ Type(r) \in ServiceFaults \union Impairments /\ ~Valid(r) /\ Return(r, "uncaught")
  /\ UNCHANGED <<world, orphans, dangled, fault, masked,
                 createdClsact, filterCleanup, restartFrom, failed>>

\* restart_service: the container must be running; its StartedAt is recorded
\* and the cleanup armed before the restart command.
InspectBefore(r) ==
  /\ Reading(r, "inspectBefore")
  /\ \/ /\ up[Target(r)]
        /\ restartFrom' = [restartFrom EXCEPT ![r] = startedAt[Target(r)]]
        /\ cleanupRequired' = [cleanupRequired EXCEPT ![r] = TRUE]
        /\ Goto(r, "restart")
     \/ Return(r, "error") /\ UNCHANGED <<restartFrom, cleanupRequired>>
  /\ UNCHANGED <<applied, createdClsact, filterCleanup, failed>>

\* restart and stop: the last command of apply() for a service fault.
ServiceCommand(r) ==
  \E c \in {"restart", "stop"} :
    /\ \/ /\ Succeeds(r, c)
          /\ applied' = [applied EXCEPT ![r] = TRUE]
          /\ Return(r, "ok")
       \/ Fails(r, c) /\ Return(r, "error") /\ UNCHANGED applied
    /\ UNCHANGED <<cleanupRequired, createdClsact, filterCleanup, restartFrom, failed>>

\* Mutant: the occupied preference is not refused.
ShowFilterAnyway(r) ==
  /\ Reading(r, "showFilter")
  /\ Goto(r, "showQdisc") \/ Return(r, "error")
  /\ UNCHANGED flags

\* _apply_impairment refuses to touch an occupied preference.
ShowFilter(r) ==
  /\ Reading(r, "showFilter")
  /\ \/ ~HasFilter(Target(r), Type(r)) /\ Goto(r, "showQdisc")
     \/ Return(r, "error")
  /\ UNCHANGED flags

\* An absent clsact is recorded as created by this run before it is added; a
\* present one is not, and the filter is armed at once.
ShowQdisc(r) ==
  /\ Reading(r, "showQdisc")
  /\ \/ /\ ~HasClsact(Target(r))
        /\ createdClsact' = [createdClsact EXCEPT ![r] = TRUE]
        /\ cleanupRequired' = [cleanupRequired EXCEPT ![r] = TRUE]
        /\ Goto(r, "addClsact")
        /\ UNCHANGED filterCleanup
     \/ /\ HasClsact(Target(r))
        /\ cleanupRequired' = [cleanupRequired EXCEPT ![r] = TRUE]
        /\ filterCleanup' = [filterCleanup EXCEPT ![r] = TRUE]
        /\ Goto(r, "addFilter")
        /\ UNCHANGED createdClsact
     \/ Return(r, "error") /\ UNCHANGED <<createdClsact, cleanupRequired, filterCleanup>>
  /\ UNCHANGED <<applied, restartFrom, failed>>

AddClsact(r) ==
  /\ \/ /\ Succeeds(r, "addClsact")
        /\ filterCleanup' = [filterCleanup EXCEPT ![r] = TRUE]
        /\ Goto(r, "addFilter")
     \/ Fails(r, "addClsact") /\ Return(r, "error") /\ UNCHANGED filterCleanup
  /\ UNCHANGED <<applied, cleanupRequired, createdClsact, restartFrom, failed>>

AddFilter(r) ==
  /\ \/ /\ Succeeds(r, "addFilter")
        /\ applied' = [applied EXCEPT ![r] = TRUE]
        /\ Return(r, "ok")
     \/ Fails(r, "addFilter") /\ Return(r, "error") /\ UNCHANGED applied
  /\ UNCHANGED <<cleanupRequired, createdClsact, filterCleanup, restartFrom, failed>>

-----------------------------------------------------------------------------
(* verify_applied()                                                         *)

CallVerifyApplied(r) ==
  /\ op[r] = "idle" /\ ret[r] # "none"
  /\ \/ Type(r) = "none" /\ Return(r, "true")
     \/ Type(r) \in MutationFaults /\ Return(r, "false")
     \/ Type(r) \in ServiceFaults \union Impairments /\ ~Valid(r) /\ Return(r, "false")
     \/ Type(r) \in ServiceFaults \union Impairments /\ Valid(r) /\ Goto(r, "verifyApplied")
  /\ UNCHANGED <<world, orphans, dangled, flags, fault, masked>>

\* What the inspection of the container or of the filter list must show.
FaultInForce(r) ==
  \/ Type(r) = "stop_service" /\ ~up[Target(r)]
  \/ Type(r) = "restart_service" /\ up[Target(r)] /\ startedAt[Target(r)] # restartFrom[r]
  \/ Type(r) \in Impairments /\ HasFilter(Target(r), Type(r))

VerifyApplied(r) ==
  /\ Reading(r, "verifyApplied")
  /\ \/ FaultInForce(r) /\ Return(r, "true")
     \/ Return(r, "false")
  /\ UNCHANGED flags

-----------------------------------------------------------------------------
(* remove()                                                                 *)

\* After the last rollback command: errors keep the cleanup armed.
FinishRemove(r, err) ==
  /\ Return(r, IF err THEN "error" ELSE "ok")
  /\ applied' = [applied EXCEPT ![r] = @ /\ err]
  /\ cleanupRequired' = [cleanupRequired EXCEPT ![r] = @ /\ err]
  /\ failed' = [failed EXCEPT ![r] = err]

\* Mutant: the rollback deletes the clsact whoever created it.
AfterFilterAlways(r, err) ==
  /\ Goto(r, "delClsact")
  /\ failed' = [failed EXCEPT ![r] = err]
  /\ UNCHANGED <<applied, cleanupRequired>>

\* rollback_commands: the clsact is only deleted by the run that created it.
AfterFilter(r, err) ==
  \/ /\ createdClsact[r]
     /\ Goto(r, "delClsact")
     /\ failed' = [failed EXCEPT ![r] = err]
     /\ UNCHANGED <<applied, cleanupRequired>>
  \/ ~createdClsact[r] /\ FinishRemove(r, err)

CallRemove(r) ==
  /\ op[r] = "idle" /\ ret[r] # "none"
  /\ LET armed == applied[r] \/ cleanupRequired[r] IN
     \/ ~armed /\ Return(r, "ok") /\ UNCHANGED flags
     \/ /\ armed /\ Type(r) \in MutationFaults \union {"none"}
        /\ FinishRemove(r, FALSE)
        /\ UNCHANGED <<createdClsact, filterCleanup, restartFrom>>
     \/ /\ armed /\ Type(r) \in ServiceFaults
        /\ IF Valid(r) THEN Goto(r, "start") ELSE Return(r, "uncaught")
        /\ UNCHANGED flags
     \/ /\ armed /\ Type(r) \in Impairments /\ filterCleanup[r]
        /\ Goto(r, "delFilter")
        /\ failed' = [failed EXCEPT ![r] = FALSE]
        /\ UNCHANGED <<applied, cleanupRequired, createdClsact, filterCleanup, restartFrom>>
     \/ /\ armed /\ Type(r) \in Impairments /\ ~filterCleanup[r]
        /\ AfterFilter(r, FALSE)
        /\ UNCHANGED <<createdClsact, filterCleanup, restartFrom>>
  /\ UNCHANGED <<world, orphans, dangled, fault, masked>>

StartService(r) ==
  /\ \/ Succeeds(r, "start") /\ FinishRemove(r, FALSE)
     \/ Fails(r, "start") /\ FinishRemove(r, TRUE)
  /\ UNCHANGED <<createdClsact, filterCleanup, restartFrom>>

DelFilter(r) ==
  /\ \/ Succeeds(r, "delFilter") /\ AfterFilter(r, failed[r])
     \/ /\ Fails(r, "delFilter") /\ Goto(r, "checkFilter")
        /\ UNCHANGED <<applied, cleanupRequired, failed>>
  /\ UNCHANGED <<createdClsact, filterCleanup, restartFrom>>

\* Mutant: a failed deletion is taken for absence.
CheckFilterTrusting(r) ==
  /\ Reading(r, "checkFilter")
  /\ AfterFilter(r, failed[r])
  /\ UNCHANGED <<createdClsact, filterCleanup, restartFrom>>

\* A failed deletion is accepted only when the filter list is seen empty.
CheckFilter(r) ==
  /\ Reading(r, "checkFilter")
  /\ \/ ~HasFilter(Target(r), Type(r)) /\ AfterFilter(r, failed[r])
     \/ AfterFilter(r, TRUE)
  /\ UNCHANGED <<createdClsact, filterCleanup, restartFrom>>

DelClsact(r) ==
  /\ \/ Succeeds(r, "delClsact") /\ FinishRemove(r, failed[r])
     \/ /\ Fails(r, "delClsact") /\ Goto(r, "checkClsact")
        /\ UNCHANGED <<applied, cleanupRequired, failed>>
  /\ UNCHANGED <<createdClsact, filterCleanup, restartFrom>>

CheckClsact(r) ==
  /\ Reading(r, "checkClsact")
  /\ \/ ~HasClsact(Target(r)) /\ FinishRemove(r, failed[r])
     \/ FinishRemove(r, TRUE)
  /\ UNCHANGED <<createdClsact, filterCleanup, restartFrom>>

-----------------------------------------------------------------------------
(* verify_removed()                                                         *)

CallVerifyRemoved(r) ==
  /\ op[r] = "idle" /\ ret[r] # "none"
  /\ \/ Type(r) = "none" /\ Return(r, "true")
     \/ Type(r) \in MutationFaults /\ Return(r, "false")
     \/ Type(r) \in ServiceFaults \union Impairments /\ ~Valid(r) /\ Return(r, "false")
     \/ Type(r) \in ServiceFaults /\ Valid(r) /\ Goto(r, "verifyRunning")
     \/ Type(r) \in Impairments /\ Valid(r) /\ Goto(r, "verifyFilterGone")
  /\ UNCHANGED <<world, orphans, dangled, flags, fault, masked>>

\* Mutant: the container's status word instead of a Boolean.
VerifyRunningWord(r) ==
  /\ Reading(r, "verifyRunning")
  /\ \/ up[Target(r)] /\ Return(r, "running")
     \/ Return(r, "false")
  /\ UNCHANGED flags

VerifyRunning(r) ==
  /\ Reading(r, "verifyRunning")
  /\ \/ up[Target(r)] /\ Return(r, "true")
     \/ Return(r, "false")
  /\ UNCHANGED flags

VerifyFilterGone(r) ==
  /\ Reading(r, "verifyFilterGone")
  /\ \/ ~HasFilter(Target(r), Type(r)) /\ ~createdClsact[r] /\ Return(r, "true")
     \/ ~HasFilter(Target(r), Type(r)) /\ createdClsact[r] /\ Goto(r, "verifyClsactGone")
     \/ Return(r, "false")
  /\ UNCHANGED flags

VerifyClsactGone(r) ==
  /\ Reading(r, "verifyClsactGone")
  /\ \/ ~HasClsact(Target(r)) /\ Return(r, "true")
     \/ Return(r, "false")
  /\ UNCHANGED flags

-----------------------------------------------------------------------------
(* The environment.                                                         *)

\* Docker restarts a container whose process died.
ContainerRestarts(s) ==
  /\ up[s] /\ restarts[s] < MaxRestarts
  /\ startedAt' = [startedAt EXCEPT ![s] = @ + 1]
  /\ restarts' = [restarts EXCEPT ![s] = @ + 1]
  /\ NetnsGone(s)
  /\ UNCHANGED <<up, orphans, fault, flags, op, ret, masked, dangled>>

\* A command whose client was killed takes effect, or comes to nothing.
OrphanEnds(o) ==
  /\ orphans' = orphans \ {o}
  /\ Effect(o.cmd, Target(o.run), Type(o.run), o.run) \/ UNCHANGED world
  /\ UNCHANGED <<fault, flags, op, ret, masked, dangled>>

\* The process is killed (SIGKILL, power loss) and its flags are lost with it.
\* The command it was running may be left behind.
Dies(r) ==
  /\ op[r] # "dead"
  /\ op' = [op EXCEPT ![r] = "dead"]
  /\ \/ UNCHANGED <<orphans, dangled>>
     \/ op[r] \in Mutations /\ LeftBehind(r, op[r])
  /\ UNCHANGED <<world, fault, flags, ret, masked>>

-----------------------------------------------------------------------------
(* The component: any client that calls apply() once and then the other     *)
(* methods in any order, masking and unmasking signals as it likes.         *)

\* All containers run; the operator may have installed a clsact, with filters
\* of its own, on any of them.
LabInit ==
  /\ up = [s \in Services |-> TRUE]
  /\ startedAt = [s \in Services |-> 0]
  /\ restarts = [s \in Services |-> 0]
  /\ qdiscs \in SUBSET (Services \X {Operator})
  /\ filters \in SUBSET {f \in Services \X Impairments \X {Operator} : HasClsact(f[1])}
  /\ orphans = {}

InjectorInit ==
  /\ fault \in [Runs -> Faults]
  /\ applied = [r \in Runs |-> FALSE]
  /\ cleanupRequired = [r \in Runs |-> FALSE]
  /\ createdClsact = [r \in Runs |-> FALSE]
  /\ filterCleanup = [r \in Runs |-> FALSE]
  /\ restartFrom = [r \in Runs |-> 0]
  /\ failed = [r \in Runs |-> FALSE]
  /\ op = [r \in Runs |-> "idle"]
  /\ ret = [r \in Runs |-> "none"]
  /\ masked = [r \in Runs |-> FALSE]
  /\ dangled = [r \in Runs |-> FALSE]

InjInit == LabInit /\ InjectorInit

\* The commands of a call in progress.
Step(r) ==
  \/ InspectBefore(r) \/ ServiceCommand(r)
  \/ ShowFilter(r) \/ ShowQdisc(r) \/ AddClsact(r) \/ AddFilter(r)
  \/ VerifyApplied(r)
  \/ StartService(r) \/ DelFilter(r) \/ CheckFilter(r) \/ DelClsact(r) \/ CheckClsact(r)
  \/ VerifyRunning(r) \/ VerifyFilterGone(r) \/ VerifyClsactGone(r)
  \/ op[r] \in Mutations /\ Escapes(r, op[r])
  \/ op[r] \in Reads /\ ReadEscapes(r)

Call(r) == CallApply(r) \/ CallVerifyApplied(r) \/ CallRemove(r) \/ CallVerifyRemoved(r)

\* signal.signal(..., SIG_IGN) and back, by the client.
Mask(r) ==
  /\ op[r] = "idle"
  /\ masked' = [masked EXCEPT ![r] = ~@]
  /\ UNCHANGED <<world, orphans, dangled, flags, fault, op, ret>>

Environment ==
  \/ \E s \in Services : ContainerRestarts(s)
  \/ \E o \in orphans : OrphanEnds(o)
  \/ \E r \in Runs : Dies(r)

InjNext ==
  \/ \E r \in Runs : Call(r) \/ Step(r) \/ Mask(r)
  \/ Environment

InjSpec == InjInit /\ [][InjNext]_injVars

-----------------------------------------------------------------------------
(* Properties                                                               *)

Owners == Runs \union {Operator}

LabTypeOK ==
  /\ up \in [Services -> BOOLEAN]
  /\ startedAt \in [Services -> Nat]
  /\ restarts \in [Services -> Nat]
  /\ qdiscs \subseteq Services \X Owners
  /\ filters \subseteq Services \X Impairments \X Owners

FlagsTypeOK ==
  /\ applied \in [Runs -> BOOLEAN]
  /\ cleanupRequired \in [Runs -> BOOLEAN]
  /\ createdClsact \in [Runs -> BOOLEAN]
  /\ filterCleanup \in [Runs -> BOOLEAN]
  /\ restartFrom \in [Runs -> Nat]
  /\ failed \in [Runs -> BOOLEAN]

ControlTypeOK ==
  /\ op \in [Runs -> {"idle", "dead"} \union Mutations \union Reads]
  /\ ret \in [Runs -> Results]
  /\ masked \in [Runs -> BOOLEAN]

OrphansTypeOK ==
  /\ orphans \subseteq [run : Runs, cmd : Mutations]
  /\ dangled \in [Runs -> BOOLEAN]

\* Type correctness of the lab and of every FaultInjector field
\* (fault_injection.py, FaultInjector).
InjTypeOK ==
  /\ LabTypeOK /\ FlagsTypeOK /\ ControlTypeOK /\ OrphansTypeOK
  /\ fault \in [Runs -> Faults]

\* What run r has put into the lab and not taken out again.
OwnQdiscs(r) == {q \in qdiscs : q[2] = r}
OwnFilters(r) == {f \in filters : f[3] = r}

\* apply() arms the cleanup before each tc mutation and remove() disarms only
\* when deletion or exact absence was observed: as long as tc state of a run is
\* in place its cleanup is armed, unless a command was left behind by a killed
\* client.  (fault_injection.py: apply, _apply_impairment, remove)
ArmedWhileInstalled ==
  \A r \in Runs :
    (OwnQdiscs(r) # {} \/ OwnFilters(r) # {}) /\ ~dangled[r] => cleanupRequired[r]

\* A pre-existing clsact and the filters under it survive every rollback of
\* every run: they disappear only with the container's network namespace.
\* (fault_injection.py: _apply_impairment, rollback_commands)
OperatorStateKept ==
  [][\A s \in Services :
       \/ up'[s] = FALSE \/ startedAt'[s] # startedAt[s]
       \/ /\ \A q \in qdiscs : q = <<s, Operator>> => q \in qdiscs'
          /\ \A f \in filters : f[1] = s /\ f[3] = Operator => f \in filters']_injVars

\* docs/failure_injection.md:20: the rollback removes clsact only when that
\* injector created it.  A clsact that goes while its container keeps running
\* is being deleted by the run that added it.
ClsactRemovedByCreator ==
  [][\A q \in qdiscs \ qdiscs' :
       \/ up'[q[1]] = FALSE \/ startedAt'[q[1]] # startedAt[q[1]]
       \/ /\ q[2] \in Runs
          /\ op[q[2]] = "delClsact" \/ [run |-> q[2], cmd |-> "delClsact"] \in orphans]_injVars

-----------------------------------------------------------------------------
(* The inductive invariant behind ArmedWhileInstalled and OperatorStateKept. *)

TcCommands == {"showFilter", "showQdisc", "addClsact", "addFilter", "delFilter",
               "checkFilter", "delClsact", "checkClsact", "verifyFilterGone",
               "verifyClsactGone"}

ServiceCommands == {"inspectBefore", "restart", "stop", "start", "verifyRunning"}

\* Command c makes sense for run r: its target is a container, tc commands
\* belong to impairments and container commands to the service faults.
Fits(r, c) ==
  /\ Valid(r)
  /\ c \in TcCommands => Type(r) \in Impairments
  /\ c \in ServiceCommands => Type(r) \in ServiceFaults

CommandsFit ==
  /\ \A r \in Runs : op[r] \notin {"idle", "dead"} => Fits(r, op[r])
  /\ \A o \in orphans : Fits(o.run, o.cmd) /\ dangled[o.run]
  /\ \A r \in Runs :
       (applied[r] \/ cleanupRequired[r]) /\ Type(r) \in Impairments => Valid(r)

\* A run has set the flag of an object before it can have put it into the lab.
ClsactFlagged ==
  /\ \A q \in qdiscs : q[2] \in Runs => createdClsact[q[2]] /\ q[1] = Target(q[2])
  /\ \A r \in Runs : op[r] \in {"addClsact", "delClsact", "checkClsact"} => createdClsact[r]
  /\ \A o \in orphans : o.cmd \in {"addClsact", "delClsact"} => createdClsact[o.run]
  /\ \A r \in Runs : createdClsact[r] => Type(r) \in Impairments

FilterFlagged ==
  /\ \A f \in filters :
       f[3] \in Runs => filterCleanup[f[3]] /\ f[1] = Target(f[3]) /\ f[2] = Type(f[3])
  /\ \A r \in Runs : op[r] \in {"addFilter", "delFilter", "checkFilter"} => filterCleanup[r]
  /\ \A o \in orphans : o.cmd \in {"addFilter", "delFilter"} => filterCleanup[o.run]

\* The cleanup is armed while the adding commands run and as long as anything
\* is in place.  On the way to delClsact without an error, the filter is gone.
Armed ==
  \A r \in Runs : ~dangled[r] =>
    /\ op[r] \in {"addClsact", "addFilter"} => cleanupRequired[r]
    /\ OwnQdiscs(r) # {} \/ OwnFilters(r) # {} => cleanupRequired[r]
    /\ op[r] \in {"delClsact", "checkClsact"} /\ ~failed[r] => OwnFilters(r) = {}

\* No run has the flags that would let its commands reach the operator's
\* clsact or the filters under it.
OperatorOutOfReach ==
  /\ \A q \in qdiscs : q[2] = Operator =>
       \A r \in Runs : createdClsact[r] => Target(r) # q[1]
  /\ \A f \in filters : f[3] = Operator =>
       /\ <<f[1], Operator>> \in qdiscs
       /\ \A r \in Runs :
            filterCleanup[r] \/ op[r] \in {"showQdisc", "addClsact"} =>
              ~(Target(r) = f[1] /\ Type(r) = f[2])

\* apply() is called on a new object.
Fresh ==
  \A r \in Runs :
    op[r] = "idle" /\ ret[r] = "none" => ~createdClsact[r] /\ ~filterCleanup[r]

InjInv ==
  /\ CommandsFit /\ ClsactFlagged /\ FilterFlagged /\ Fresh /\ Armed
  /\ OperatorOutOfReach

=============================================================================
