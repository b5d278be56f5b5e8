--------------------------- MODULE FaultLifecycle ---------------------------
(***************************************************************************)
(* What a fault scenario promises its user, without saying how: a run that   *)
(* is refused never touches the lab, a run that passes has left the lab as   *)
(* it was and will not touch it again, and a run that fails admits what it   *)
(* may have left, unless one of its commands got out of its hands.           *)
(* (docs/failure_injection.md:30-38; scenarios.py, ScenarioResult)           *)
(***************************************************************************)
EXTENDS TLAPS

CONSTANTS Runs, Things    \* the runs, and what a run may put into the lab

VARIABLES
  phase,      \* phase[r]: idle, active, or how run r ended
  footprint,  \* footprint[r]: what run r has in the lab
  admitted,   \* admitted[r]: run r has recorded a failed rollback
  stray       \* stray[r]: a command of run r has outlived its client

lifecycle == <<phase, footprint, admitted, stray>>

Phases == {"idle", "active", "blocked", "passed", "failed", "lost"}

Init ==
  /\ phase = [r \in Runs |-> "idle"]
  /\ footprint = [r \in Runs |-> {}]
  /\ admitted = [r \in Runs |-> FALSE]
  /\ stray = [r \in Runs |-> FALSE]

\* Run r goes from one phase to another; the lab stays as it is.
Ends(r, from, to) ==
  /\ phase[r] \in from
  /\ phase' = [phase EXCEPT ![r] = to]
  /\ UNCHANGED <<footprint, admitted>>

Begin(r) == Ends(r, {"idle"}, "active") /\ UNCHANGED stray
Block(r) == Ends(r, {"idle"}, "blocked") /\ UNCHANGED stray

Pass(r) ==
  /\ footprint[r] = {} /\ ~admitted[r]
  /\ Ends(r, {"active"}, "passed")
  /\ UNCHANGED stray

\* What is still in the lab is admitted, or put there by a stray command.
Fail(r) ==
  /\ footprint[r] # {} => admitted[r] \/ stray[r]
  /\ Ends(r, {"active"}, "failed")
  /\ UNCHANGED stray

\* The run dies or is left by an exception: no verdict.
Lose(r) ==
  /\ Ends(r, {"idle", "active"}, "lost")
  /\ UNCHANGED stray \/ stray' = [stray EXCEPT ![r] = TRUE]

\* A run installs while it is active; a stray command does so afterwards, but
\* only for a run that did not pass.
Install(r) ==
  /\ phase[r] = "active" \/ (stray[r] /\ phase[r] \in {"failed", "lost"})
  /\ \E thing \in Things : footprint' = [footprint EXCEPT ![r] = @ \union {thing}]
  /\ UNCHANGED <<phase, admitted, stray>>

\* Rollbacks, whoever's, and containers that restart only take away.
Withdraw ==
  /\ footprint' \in [Runs -> SUBSET Things]
  /\ \A r \in Runs : footprint'[r] \subseteq footprint[r]
  /\ UNCHANGED <<phase, admitted, stray>>

Admit(r) ==
  /\ phase[r] = "active"
  /\ admitted' = [admitted EXCEPT ![r] = TRUE]
  /\ UNCHANGED <<phase, footprint, stray>>

Stray(r) ==
  /\ phase[r] = "active"
  /\ stray' = [stray EXCEPT ![r] = TRUE]
  /\ UNCHANGED <<phase, footprint, admitted>>

Next ==
  \/ \E r \in Runs :
       \/ Begin(r) \/ Block(r) \/ Pass(r) \/ Fail(r) \/ Lose(r)
       \/ Install(r) \/ Admit(r) \/ Stray(r)
  \/ Withdraw

Spec == Init /\ [][Next]_lifecycle

-----------------------------------------------------------------------------

\* The verdict can be trusted: what a run that was refused or that passed owns
\* is nothing, and what a failed run owns it has admitted or lost track of.
\* (docs/failure_injection.md:30, :38)
Honest ==
  \A r \in Runs :
    /\ phase[r] \in {"idle", "blocked", "passed"} => footprint[r] = {}
    /\ phase[r] = "failed" /\ footprint[r] # {} => admitted[r] \/ stray[r]

LifecycleTypeOK ==
  /\ phase \in [Runs -> Phases]
  /\ footprint \in [Runs -> SUBSET Things]
  /\ admitted \in [Runs -> BOOLEAN]
  /\ stray \in [Runs -> BOOLEAN]

\* The abstract specification keeps its promise.
THEOREM LifecycleIsHonest == Spec => []Honest
<1>1. Init => LifecycleTypeOK /\ Honest
  BY DEF Init, LifecycleTypeOK, Phases, Honest
<1>2. LifecycleTypeOK /\ Honest /\ [Next]_lifecycle => (LifecycleTypeOK /\ Honest)'
  <2> SUFFICES ASSUME LifecycleTypeOK, Honest, [Next]_lifecycle
               PROVE  (LifecycleTypeOK /\ Honest)'
    OBVIOUS
  <2> USE DEF LifecycleTypeOK, Phases, Honest
  <2>1. ASSUME NEW r \in Runs, Begin(r) \/ Block(r) \/ Pass(r) \/ Fail(r) \/ Lose(r)
        PROVE  (LifecycleTypeOK /\ Honest)'
    BY <2>1 DEF Begin, Block, Pass, Fail, Lose, Ends
  <2>2. ASSUME NEW r \in Runs, Install(r)
        PROVE  (LifecycleTypeOK /\ Honest)'
    BY <2>2 DEF Install
  <2>3. ASSUME NEW r \in Runs, Admit(r) \/ Stray(r)
        PROVE  (LifecycleTypeOK /\ Honest)'
    BY <2>3 DEF Admit, Stray
  <2>4. CASE Withdraw
    BY <2>4 DEF Withdraw
  <2>5. CASE UNCHANGED lifecycle
    BY <2>5 DEF lifecycle
  <2>6. QED
    BY <2>1, <2>2, <2>3, <2>4, <2>5 DEF Next
<1>3. QED
  BY <1>1, <1>2, PTL DEF Spec
=============================================================================
