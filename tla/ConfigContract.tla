--------------------------- MODULE ConfigContract ---------------------------
(***************************************************************************)
(* validate_repo of src/fiveg_lab/config.py: is the lab's configuration, a   *)
(* value that several files repeat at a time, consistent?  Its answer is     *)
(* compared with what the lab's components do with those values when the UE  *)
(* attaches.  An operator edits one place, or renames a value everywhere, or *)
(* takes a key out, starting from the repository's configuration.           *)
(***************************************************************************)
EXTENDS Integers

CONSTANTS
  MaxEdits,     \* bound: edits in a row
  Timers        \* the values tried for amf.time.t3512

ASSUME ContractAssumption == MaxEdits \in Nat /\ Timers \subseteq Nat /\ 540 \in Timers

Credentials == {"supi", "key", "opc", "authField"}
Addresses == {"amfIp", "gnbIp", "upfIp", "pcfIp", "bsfIp", "nrfIp", "nfIp"}

\* The places of a value that validate_repo reads.  "nat" and "tun" are the UPF's
\* environment variables, "ngap" and "gtp" two keys of gnb.yaml; nfIp stands for
\* the address of an NF whose own file is not compared (AUSF, UDM, UDR, SMF).
Checked ==
  [mcc |-> {"nrf", "amf", "gnb", "ue", "subscriber"},
   mnc |-> {"nrf", "amf", "gnb", "ue", "subscriber"},
   tac |-> {"amf", "gnb"},
   sst |-> {"amf", "gnb", "ue", "subscriber", "smf"},
   sd |-> {"amf", "gnb", "ue", "subscriber", "smf"},
   dnn |-> {"smf", "upf", "subscriber", "ue"},
   pool |-> {"smf", "upf", "subscriber", "nat", "tun"},
   gateway |-> {"upf", "tun"},
   supi |-> {"ue", "subscriber"}, key |-> {"ue", "subscriber"},
   opc |-> {"ue", "subscriber"}, authField |-> {"ue", "subscriber"},
   amfIp |-> {"compose", "amf", "gnb"}, gnbIp |-> {"compose", "ngap", "gtp"},
   upfIp |-> {"compose", "smf"}, pcfIp |-> {"compose", "pcf"},
   bsfIp |-> {"compose", "bsf"}, nrfIp |-> {"compose", "bsf"}, nfIp |-> {"compose"}]

\* The places that a component reads and validate_repo does not: the AMF's TAI and
\* PLMN support, the UE's session slice, default NSSAI and gNB search list, the
\* gNB's link address, what add_subscriber.sh puts into the database, dn-server's
\* route, the UPF's own PFCP and GTP-U addresses, the AMF's SBI address, the NRF's
\* own address and its URI in the NFs that registration and sessions need.
Unread ==
  [mcc |-> {"tai", "support"}, mnc |-> {"tai", "support"}, tac |-> {},
   sst |-> {"session", "default", "db"}, sd |-> {"session", "default", "db"},
   dnn |-> {"db"}, pool |-> {"route"}, gateway |-> {},
   supi |-> {"db"}, key |-> {"db"}, opc |-> {"db"}, authField |-> {},
   amfIp |-> {"sbi"}, gnbIp |-> {"link", "search"}, upfIp |-> {"pfcp", "gtpu"},
   pcfIp |-> {}, bsfIp |-> {}, nrfIp |-> {"own", "registration", "sessions"},
   nfIp |-> {"own"}]

Names == DOMAIN Checked
Places == [n \in Names |-> Checked[n] \union Unread[n]]

LabSettings == {"services", "noNssf", "images"}
DatabaseSettings ==
  {"pcfDbUri", "udrDbUri", "sectionDbUri", "pcfDbEnvironment", "udrDbEnvironment"}
UeSettings == {"publicKey", "integrityMaxRate"}
BsfSettings == {"bsfService"}
RuntimeSettings == {"rseq", "upfUser", "netAdmin", "tunDevice", "privileged"}
LoggingSettings == {"logInitializer", "runtimeLogs"}
BootstrapSettings == {"upfEntrypoint", "sysctls", "enableNat", "ipv6Tun"}
Settings ==
  LabSettings \union DatabaseSettings \union UeSettings \union BsfSettings
  \union RuntimeSettings \union LoggingSettings \union BootstrapSettings

\* The repository's value, another one, one that is malformed (or, of an
\* address, another container's), and none.
Missing == "missing"
Values == {"old", "new", "bad", Missing}

\* The settings that leave a choice: another pinned image, another public key or
\* none, privileged: false, no NAT, another IPv6 address, the other rate.  The name
\* of an image that is missing is the text "None", which is not a floating one.
Choices ==
  [images |-> {"old", "new", Missing}, publicKey |-> {"old", "new", Missing},
   privileged |-> {"old", "new"}, enableNat |-> {"old", "new"},
   ipv6Tun |-> {"old", "new"}, integrityMaxRate |-> {"old", "new"}]

Fields == (UNION {{n} \X Places[n] : n \in Names}) \union ({"setting"} \X Settings)

VARIABLES
  config,       \* the value at each place
  dnns,         \* the DNNs that the SMF advertises for its slice
  timer,        \* amf.time.t3512.value
  edits,
  renamedOnly,  \* history: every edit renamed a value everywhere
  verdict       \* of validate_repo: none, PASS or FAIL

vars == <<config, dnns, timer, edits, renamedOnly, verdict>>

-----------------------------------------------------------------------------
(* validate_repo                                                            *)

At(n, p) == config[<<n, p>>]

\* str() of an absent key is "None" everywhere: absent is equal to absent.
Same(n, places) == \A p, q \in places : At(n, p) = At(n, q)

\* A container's address is read without str(): an absent one equals nothing.
MatchesCompose(n, p) == At(n, "compose") # Missing /\ At(n, p) = At(n, "compose")

PlmnChecks == Same("mcc", Checked.mcc) /\ Same("mnc", Checked.mnc) /\ Same("tac", Checked.tac)

RanAddressChecks ==
  /\ MatchesCompose("amfIp", "amf") /\ At("amfIp", "gnb") = At("amfIp", "amf")
  /\ MatchesCompose("gnbIp", "ngap") /\ MatchesCompose("gnbIp", "gtp")

\* Mutant: the DNN has to be the one the repository uses.
SessionChecksFixed ==
  /\ \A p \in Checked.dnn : At("dnn", p) = "old"
  /\ Same("pool", {"smf", "upf", "subscriber"})
  /\ MatchesCompose("upfIp", "smf")

SessionChecks ==
  /\ Same("dnn", Checked.dnn)
  /\ Same("pool", {"smf", "upf", "subscriber"})
  /\ MatchesCompose("upfIp", "smf")

\* Mutant: the chain of comparisons ends before the UE.
SliceChecksShort ==
  \A n \in {"sst", "sd"} : Same(n, {"amf", "gnb", "subscriber"})

SliceChecks == \A n \in {"sst", "sd"} : Same(n, {"amf", "gnb", "ue", "subscriber"})

CredentialChecks ==
  /\ \A n \in Credentials : Same(n, Checked[n])
  /\ At("supi", "ue") \in {"old", "new"} /\ At("key", "subscriber") \in {"old", "new"}

\* No two containers share an address, and every address parses.
AddressChecks == \A n \in Addresses : At(n, "compose") # "bad"

\* NSSF is left out only while the SMF advertises the AMF's slice and its own DNN.
SliceSelectionChecks ==
  /\ \A n \in {"sst", "sd"} : At(n, "smf") = At(n, "amf")
  /\ At("dnn", "smf") \in dnns

PcfCheck == MatchesCompose("pcfIp", "pcf")

\* The BSF's own address is compared as it is: absent is equal to absent.
BsfCheck == Same("bsfIp", Checked.bsfIp) /\ MatchesCompose("nrfIp", "bsf")

TimerUnits == {2, 30, 60, 600, 3600, 36000, 1152000}

\* GPRS Timer 3: five bits of a unit.
TimerCheck == \E u \in TimerUnits : timer % u = 0 /\ timer \div u \in 1 .. 31

SettingChecks ==
  \A s \in Settings : At("setting", s) \in IF s \in DOMAIN Choices THEN Choices[s] ELSE {"old"}

\* The tunnel's network and gateway, and the NAT rule's subnet, are the session's.
TunnelChecks ==
  /\ At("pool", "upf") \in {"old", "new"} /\ Same("pool", {"upf", "tun", "nat"})
  /\ At("gateway", "tun") \in {"old", "new"} /\ Same("gateway", Checked.gateway)

Accepts ==
  /\ PlmnChecks /\ RanAddressChecks /\ SessionChecks /\ SliceChecks /\ CredentialChecks
  /\ AddressChecks /\ SliceSelectionChecks /\ PcfCheck /\ BsfCheck /\ TimerCheck
  /\ SettingChecks /\ TunnelChecks

Validate ==
  /\ verdict = "none"
  /\ verdict' = IF Accepts THEN "PASS" ELSE "FAIL"
  /\ UNCHANGED <<config, dnns, timer, edits, renamedOnly>>

-----------------------------------------------------------------------------
(* The operator                                                             *)

\* Values that make sense at a place: "bad" where a format is checked.
Admits(n) == IF n \in {"supi", "key", "pool", "setting"} \union Addresses
             THEN Values ELSE Values \ {"bad"}

Edit(n, p, v) ==
  /\ v # At(n, p)
  /\ config' = [config EXCEPT ![<<n, p>>] = v]
  /\ renamedOnly' = FALSE
  /\ UNCHANGED <<dnns, timer>>

\* A value is changed, or its key taken out, in all places.
EditAll(n, v) ==
  /\ \E p \in Places[n] : At(n, p) # v
  /\ config' = [f \in Fields |-> IF f[1] = n THEN v ELSE config[f]]
  /\ renamedOnly' = (renamedOnly /\ v # Missing)
  /\ dnns' = IF n = "dnn" /\ v # Missing THEN {v} ELSE dnns
  /\ UNCHANGED timer

Advertise(names) ==
  /\ names # dnns /\ dnns' = names
  /\ renamedOnly' = FALSE
  /\ UNCHANGED <<config, timer>>

SetTimer(t) ==
  /\ t # timer /\ timer' = t
  /\ renamedOnly' = FALSE
  /\ UNCHANGED <<config, dnns>>

Operator ==
  /\ verdict = "none" /\ edits < MaxEdits
  /\ edits' = edits + 1
  /\ \/ \E n \in Names : \/ \E p \in Places[n], v \in Admits(n) : Edit(n, p, v)
                         \/ \E v \in {"old", "new", Missing} : EditAll(n, v)
     \/ \E s \in Settings, v \in Values : Edit("setting", s, v)
     \/ \E names \in SUBSET {"old", "new"} : Advertise(names)
     \/ \E t \in Timers : SetTimer(t)
  /\ UNCHANGED verdict

Init ==
  /\ config = [f \in Fields |-> "old"]
  /\ dnns = {"old"} /\ timer = 540
  /\ edits = 0 /\ renamedOnly = TRUE /\ verdict = "none"

Next == Operator \/ Validate

Spec == Init /\ [][Next]_vars

-----------------------------------------------------------------------------
(* What the components make of the configuration                            *)

\* Two places hold the same value, and there is one.
Agree(n, p, q) == At(n, p) = At(n, q) /\ At(n, p) # Missing

\* The gNB reaches the AMF and serves its area and slice.
NgSetup ==
  /\ At("setting", "images") # Missing
  /\ Agree("amfIp", "gnb", "compose") /\ Agree("amfIp", "amf", "compose")
  /\ Agree("gnbIp", "ngap", "compose")
  /\ \A n \in {"mcc", "mnc"} : Agree(n, "gnb", "tai") /\ Agree(n, "gnb", "support")
  /\ \A n \in {"tac", "sst", "sd"} : Agree(n, "gnb", "amf")

\* The UE finds the gNB; the AMF has a timer to send and reaches the NFs of the
\* registration through the NRF; in the database is a subscriber with the UE's
\* credentials, network and slice.  The helper that writes it there is given no
\* authentication field: it stores its own, the repository's.
Registers ==
  /\ Agree("gnbIp", "search", "link") /\ Agree("gnbIp", "link", "compose")
  /\ \E u \in TimerUnits, k \in 1 .. 31 : timer = u * k
  /\ Agree("amfIp", "sbi", "compose") /\ Agree("nfIp", "own", "compose")
  /\ Agree("nrfIp", "own", "compose") /\ Agree("nrfIp", "registration", "compose")
  /\ \A n \in {"mcc", "mnc"} : Agree(n, "ue", "gnb") /\ Agree(n, "amf", "nrf")
  /\ \A n \in {"supi", "key", "opc"} : Agree(n, "ue", "db")
  /\ At("authField", "ue") = "old"
  /\ \A n \in {"sst", "sd"} : \A p \in {"ue", "default", "db"} : Agree(n, p, "amf")

\* The AMF finds the SMF, its DNN is subscribed, PCF, BSF and UPF are reached.
OpensSession ==
  /\ \A n \in {"sst", "sd"} : Agree(n, "session", "smf") /\ Agree(n, "session", "db")
  /\ Agree("dnn", "ue", "db") /\ Agree("dnn", "ue", "smf") /\ At("dnn", "ue") \in dnns
  /\ Agree("pcfIp", "pcf", "compose") /\ Agree("bsfIp", "bsf", "compose")
  /\ Agree("nrfIp", "bsf", "compose") /\ Agree("nrfIp", "sessions", "compose")
  /\ Agree("upfIp", "smf", "compose") /\ Agree("upfIp", "pfcp", "compose")

\* The address the SMF gives out is routed by the UPF, and is translated by it or
\* known to dn-server.
CarriesTraffic ==
  /\ Agree("dnn", "smf", "upf")
  /\ Agree("gnbIp", "gtp", "compose") /\ Agree("upfIp", "gtpu", "compose")
  /\ Agree("pool", "smf", "upf") /\ Agree("pool", "upf", "tun")
  /\ Agree("gateway", "upf", "tun")
  /\ \/ At("setting", "enableNat") = "old" /\ Agree("pool", "upf", "nat")
     \/ Agree("pool", "upf", "route")

Attaches == NgSetup /\ Registers /\ OpensSession /\ CarriesTraffic

-----------------------------------------------------------------------------
(* Properties                                                               *)

\* What validate_repo does not read: a place that holds none of the checked values,
\* and an authentication field that the database is not going to have.
Overlooked ==
  \/ \E n \in Names : \E p \in Unread[n] : \A q \in Checked[n] : At(n, p) # At(n, q)
  \/ At("authField", "ue") # "old"

\* A key that is missing wherever it is read: the comparisons take that for
\* agreement, and a missing image for one that is not floating.
TakenOut ==
  \/ \E n \in Names : \A p \in Checked[n] : At(n, p) = Missing
  \/ At("setting", "images") = Missing

\* docs/system_validation.md:3: the harness checks configuration consistency.
\* A configuration that passes and in which the components still do not find each
\* other, or the UE does not attach, goes wrong at a place that validate_repo does
\* not read or by a key taken out everywhere, never at two places that it compares.
\* (config.py:120-274, 540-576, 579-604, 654-674; scripts/add_subscriber.sh:7-44)
AcceptedAttaches == verdict = "PASS" => Attaches \/ Overlooked \/ TakenOut

\* The checks compare, they do not fix values: a configuration in which values
\* were renamed everywhere is accepted.  (config.py:120-268, 466-486, 551-562)
RenamingAccepted == renamedOnly => verdict # "FAIL"
=============================================================================
