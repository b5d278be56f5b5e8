---------------------------- MODULE UpfBootstrap ----------------------------
(***************************************************************************)
(* scripts/upf-entrypoint.sh: it sets up the UPF's tunnel and NAT rule, then *)
(* becomes the daemon, or, with --check, takes everything down again and     *)
(* reports.  A command may fail at every step (set -e ends the script, the   *)
(* EXIT trap cleans up), a lookup may fail for reasons of its own and is     *)
(* then taken for absence, and INT or TERM may arrive at any point: the      *)
(* shell runs their trap, exit 1, when the command in progress has ended.    *)
(***************************************************************************)
EXTENDS Naturals

VARIABLES
  \* the network namespace of the container
  tun, configured,  \* ogstun exists; it has its addresses and is up
  nat,              \* how often the MASQUERADE rule is installed
  \* the script
  mode, natEnabled, \* --check or the daemon's command; ENABLE_NAT
  at,               \* the next command
  exitTrap,         \* the EXIT trap: armed, running or reset
  createdTun, createdNat, failed,
  marker, code,     \* UPF_BOOTSTRAP_PASS was printed; the exit status, 2 before
  \* history
  foreign,          \* what was in the namespace before the script
  misread,          \* a lookup did not see what was there
  deleteFailed,     \* UPF_BOOTSTRAP_CLEANUP_FAILED was printed
  unguarded,        \* the script ended while no EXIT trap stood by
  exercised         \* tunnel and rule were up when the cleanup began

namespace == <<tun, configured, nat>>
flags == <<createdTun, createdNat, failed>>
history == <<foreign, misread, deleteFailed, unguarded, exercised>>
upfVars == <<namespace, mode, natEnabled, at, exitTrap, flags, marker, code, history>>

Commands == {"sysctl", "lookTun", "addTun", "configure", "lookNat", "addNat", "verifyNat",
             "delNat", "delTun", "lookAgain", "pass", "exit", "sleep", "exec"}

\* The first script, in a new namespace.
Init ==
  /\ mode = "check" /\ natEnabled \in BOOLEAN
  /\ tun = FALSE /\ configured = FALSE /\ nat = 0 /\ foreign = [tun |-> FALSE, nat |-> 0]
  /\ at = "sysctl" /\ exitTrap = "armed"
  /\ createdTun = FALSE /\ createdNat = FALSE /\ failed = FALSE
  /\ marker = FALSE /\ code = 2
  /\ misread = FALSE /\ deleteFailed = FALSE /\ unguarded = FALSE /\ exercised = FALSE

\* Another script, in a namespace with or without a tunnel and with some rules.
Restarts(m, enabled, hasTun, rules) ==
  /\ mode' = m /\ natEnabled' = enabled
  /\ tun' = hasTun /\ configured' = hasTun /\ nat' = rules
  /\ foreign' = [tun |-> hasTun, nat |-> rules]
  /\ at' = "sysctl" /\ exitTrap' = "armed"
  /\ createdTun' = FALSE /\ createdNat' = FALSE /\ failed' = FALSE
  /\ marker' = FALSE /\ code' = 2
  /\ misread' = FALSE /\ deleteFailed' = FALSE /\ unguarded' = FALSE /\ exercised' = FALSE

-----------------------------------------------------------------------------

Goto(command) == at' = command /\ UNCHANGED <<exitTrap, code>>

\* The shell exits with status c: the EXIT trap runs cleanup if it is armed.
Exits(c) ==
  /\ code' = c
  /\ \/ exitTrap = "armed" /\ exitTrap' = "running" /\ at' = "delNat"
     \/ exitTrap # "armed" /\ at' = "ended" /\ UNCHANGED exitTrap

SetUp == IF mode = "check" THEN "delNat" ELSE "sleep"

\* require_sysctl, three times.
Sysctl ==
  /\ at = "sysctl"
  /\ Goto("lookTun") \/ Exits(1)
  /\ UNCHANGED <<namespace, mode, natEnabled, flags, marker, history>>

\* A lookup sees what is there, or fails.
Looks(present, seen) ==
  /\ seen \in {present, FALSE}
  /\ misread' = (misread \/ seen # present)

\* Mutant: the flag is set whatever the lookup says.
LookTunFlagged ==
  /\ at = "lookTun"
  /\ \E seen \in BOOLEAN :
       /\ Looks(tun, seen)
       /\ createdTun' = TRUE
       /\ \/ ~seen /\ Goto("addTun")
          \/ seen /\ IF mode = "check" THEN Exits(1) ELSE Goto("configure")
  /\ UNCHANGED <<namespace, mode, natEnabled, createdNat, failed, marker, foreign, deleteFailed,
                 unguarded, exercised>>

\* The flag is set before the command that creates the interface.
LookTun ==
  /\ at = "lookTun"
  /\ \E seen \in BOOLEAN :
       /\ Looks(tun, seen)
       /\ createdTun' = ~seen
       /\ \/ ~seen /\ Goto("addTun")
          \/ seen /\ IF mode = "check" THEN Exits(1) ELSE Goto("configure")
  /\ UNCHANGED <<namespace, mode, natEnabled, createdNat, failed, marker, foreign, deleteFailed,
                 unguarded, exercised>>

\* ip refuses to add an interface that exists.
AddTun ==
  /\ at = "addTun"
  /\ \/ ~tun /\ tun' = TRUE /\ Goto("configure")
     \/ Exits(1) /\ UNCHANGED tun
  /\ UNCHANGED <<configured, nat, mode, natEnabled, flags, marker, history>>

\* Mutant: the status of the greps is lost.
ConfigureUnverified ==
  /\ at = "configure"
  /\ configured' \in BOOLEAN
  /\ Goto(IF natEnabled THEN "lookNat" ELSE SetUp) \/ Exits(1)
  /\ UNCHANGED <<tun, nat, mode, natEnabled, flags, marker, history>>

\* Addresses, link up, and the greps that verify them.
Configure ==
  /\ at = "configure"
  /\ \/ configured' = TRUE /\ Goto(IF natEnabled THEN "lookNat" ELSE SetUp)
     \/ configured' \in BOOLEAN /\ Exits(1)
  /\ UNCHANGED <<tun, nat, mode, natEnabled, flags, marker, history>>

LookNat ==
  /\ at = "lookNat"
  /\ \E seen \in BOOLEAN :
       /\ Looks(nat > 0, seen)
       /\ createdNat' = ~seen
       /\ Goto(IF seen THEN "verifyNat" ELSE "addNat")
  /\ UNCHANGED <<namespace, mode, natEnabled, createdTun, failed, marker, foreign, deleteFailed,
                 unguarded, exercised>>

\* iptables appends a rule whether or not it is there already.
AddNat ==
  /\ at = "addNat"
  /\ \/ nat' = nat + 1 /\ Goto("verifyNat")
     \/ Exits(1) /\ UNCHANGED nat
  /\ UNCHANGED <<tun, configured, mode, natEnabled, flags, marker, history>>

VerifyNat ==
  /\ at = "verifyNat"
  /\ (nat > 0 /\ Goto(SetUp)) \/ Exits(1)
  /\ UNCHANGED <<namespace, mode, natEnabled, flags, marker, history>>

-----------------------------------------------------------------------------
(* cleanup, called by the script itself or by the EXIT trap.                *)

\* History: what a cleanup finds set up.
Records ==
  /\ exercised' = (exercised \/ (tun /\ configured /\ (natEnabled => nat > 0)))
  /\ UNCHANGED <<foreign, misread, deleteFailed, unguarded>>

\* Mutant: only the tunnel is taken down.
DelNatSkipped ==
  /\ at = "delNat"
  /\ Goto("delTun")
  /\ failed' = FALSE
  /\ Records
  /\ UNCHANGED <<namespace, mode, natEnabled, createdTun, createdNat, marker>>

DelNat ==
  /\ at = "delNat"
  /\ Goto("delTun")
  /\ \/ ~createdNat /\ failed' = FALSE /\ UNCHANGED nat
     \/ createdNat /\ nat > 0 /\ nat' = nat - 1 /\ failed' = FALSE
     \/ createdNat /\ failed' = TRUE /\ UNCHANGED nat
  /\ Records
  /\ UNCHANGED <<tun, configured, mode, natEnabled, createdTun, createdNat, marker>>

\* Mutant: a failed cleanup is not returned.
CleanedRegardless ==
  /\ deleteFailed' = (deleteFailed \/ failed')
  /\ createdTun' = FALSE /\ createdNat' = FALSE
  /\ IF exitTrap = "armed" THEN Goto("lookAgain") ELSE Exits(code)

\* After the last deletion.  A cleanup without error lets the script go on, or
\* exit with the status it had; a failed one exits 1.
Cleaned ==
  /\ deleteFailed' = (deleteFailed \/ failed')
  /\ \/ failed' /\ Exits(1) /\ UNCHANGED <<createdTun, createdNat>>
     \/ /\ ~failed' /\ createdTun' = FALSE /\ createdNat' = FALSE
        /\ IF exitTrap = "armed" THEN Goto("lookAgain") ELSE Exits(code)

DelTun ==
  /\ at = "delTun"
  /\ \/ ~createdTun /\ UNCHANGED <<failed, tun, configured>>
     \/ createdTun /\ tun /\ tun' = FALSE /\ configured' = FALSE /\ UNCHANGED failed
     \/ createdTun /\ failed' = TRUE /\ UNCHANGED <<tun, configured>>
  /\ Cleaned
  /\ UNCHANGED <<nat, mode, natEnabled, marker, foreign, misread, unguarded, exercised>>

-----------------------------------------------------------------------------
(* --check reports, the daemon is started.                                  *)

LookAgain ==
  /\ at = "lookAgain"
  /\ \E seen \in BOOLEAN :
       /\ Looks(tun, seen)
       /\ \/ seen /\ Exits(1)
          \/ /\ ~seen /\ exitTrap' = "reset" /\ at' = "pass"
             /\ UNCHANGED code
  /\ UNCHANGED <<namespace, mode, natEnabled, flags, marker, foreign, deleteFailed,
                 unguarded, exercised>>

Pass ==
  /\ \/ at = "pass" /\ marker' = TRUE /\ Goto("exit")
     \/ at = "exit" /\ Exits(0) /\ UNCHANGED marker
  /\ UNCHANGED <<namespace, mode, natEnabled, flags, history>>

\* Ten seconds, then the traps are reset and exec replaces the shell, or fails.
Daemon ==
  /\ \/ at = "sleep" /\ at' = "exec" /\ exitTrap' = "reset" /\ UNCHANGED <<code, unguarded>>
     \/ at = "exec" /\ Goto("daemon") /\ UNCHANGED unguarded
     \/ at = "exec" /\ Exits(1) /\ unguarded' = TRUE
  /\ UNCHANGED <<namespace, mode, natEnabled, flags, marker, foreign, misread, deleteFailed,
                 exercised>>

\* INT or TERM before the next command.
Signal ==
  /\ at \in Commands
  /\ Exits(1)
  /\ unguarded' = (exitTrap # "armed")
  /\ UNCHANGED <<namespace, mode, natEnabled, flags, marker, foreign, misread, deleteFailed,
                 exercised>>

Next ==
  \/ Sysctl \/ LookTun \/ AddTun \/ Configure \/ LookNat \/ AddNat \/ VerifyNat
  \/ DelNat \/ DelTun \/ LookAgain \/ Pass \/ Daemon \/ Signal

-----------------------------------------------------------------------------
(* Properties                                                               *)

TypeOK ==
  /\ tun \in BOOLEAN /\ configured \in BOOLEAN /\ nat \in 0 .. 2
  /\ mode \in {"check", "daemon"} /\ natEnabled \in BOOLEAN
  /\ at \in Commands \union {"ended", "daemon"}
  /\ exitTrap \in {"armed", "running", "reset"}
  /\ createdTun \in BOOLEAN /\ createdNat \in BOOLEAN /\ failed \in BOOLEAN
  /\ marker \in BOOLEAN /\ code \in 0 .. 2
  /\ foreign \in [tun : BOOLEAN, nat : 0 .. 1]
  /\ misread \in BOOLEAN /\ deleteFailed \in BOOLEAN /\ unguarded \in BOOLEAN
  /\ exercised \in BOOLEAN

OwnResidue == (tun /\ ~foreign.tun) \/ nat > foreign.nat

\* The marker is printed only when everything the check has set up is gone.
\* (docs/runtime_findings.md:53-63; upf-entrypoint.sh:67-75)
MarkerMeansClean == marker => ~OwnResidue /\ (foreign.tun => tun) /\ nat = foreign.nat

\* What the script found in the namespace it leaves there, in both modes,
\* unless a lookup failed to see it: then the flag that is set before the
\* creating command makes the cleanup delete it.  (upf-entrypoint.sh:39-47, 60-64)
ForeignKept == ~misread => (foreign.tun => tun) /\ nat >= foreign.nat

\* An ended script that leaves something of its own has failed, and has said
\* that its cleanup failed unless it was ended while no EXIT trap stood by.
\* (upf-entrypoint.sh:13-26, 73, 80)
ResidueExplained == at = "ended" /\ OwnResidue => code = 1 /\ (deleteFailed \/ unguarded)
=============================================================================
