----------------------- MODULE ConfigContractProofs -----------------------
(***************************************************************************)
(* What a verdict of validate_repo says about the lab, after any number of   *)
(* edits and for any timer.  The two directions meet in one notion: a name   *)
(* is settled when all the places that are compared hold the same value.     *)
(***************************************************************************)
EXTENDS ConfigContract, TLAPS

Settled(n) == Same(n, Checked[n])

\* The verdict is the answer of the checks, and nothing changes after it.
VerdictOfChecks ==
  /\ timer \in Nat
  /\ verdict \in {"none", "PASS", "FAIL"}
  /\ verdict = "PASS" => Accepts
  /\ verdict = "FAIL" => ~Accepts

\* Renaming keeps every name settled and touches nothing else.
OnlyRenamed ==
  renamedOnly =>
    /\ \A n \in Names : Same(n, Places[n]) /\ \A p \in Places[n] : At(n, p) \in {"old", "new"}
    /\ \A s \in Settings : At("setting", s) = "old"
    /\ timer = 540
    /\ At("dnn", "smf") \in dnns

-----------------------------------------------------------------------------
(* The checks and the places                                                *)

\* The names, the places of each that are compared, and the ones that are not.
LEMMA PlacesOfNames ==
  /\ Names = {"mcc", "mnc", "tac", "sst", "sd", "dnn", "pool", "gateway"}
             \union Credentials \union Addresses
  /\ Checked["mcc"] = {"nrf", "amf", "gnb", "ue", "subscriber"}
  /\ Checked["mnc"] = {"nrf", "amf", "gnb", "ue", "subscriber"}
  /\ Checked["tac"] = {"amf", "gnb"}
  /\ Checked["sst"] = {"amf", "gnb", "ue", "subscriber", "smf"}
  /\ Checked["sd"] = {"amf", "gnb", "ue", "subscriber", "smf"}
  /\ Checked["dnn"] = {"smf", "upf", "subscriber", "ue"}
  /\ Checked["pool"] = {"smf", "upf", "subscriber", "nat", "tun"}
  /\ Checked["gateway"] = {"upf", "tun"}
  /\ \A n \in Credentials : Checked[n] = {"ue", "subscriber"}
  /\ Checked["amfIp"] = {"compose", "amf", "gnb"}
  /\ Checked["gnbIp"] = {"compose", "ngap", "gtp"}
  /\ Checked["upfIp"] = {"compose", "smf"}
  /\ Checked["pcfIp"] = {"compose", "pcf"}
  /\ Checked["bsfIp"] = {"compose", "bsf"}
  /\ Checked["nrfIp"] = {"compose", "bsf"}
  /\ Checked["nfIp"] = {"compose"}
  BY DEF Names, Checked, Credentials, Addresses

LEMMA UnreadOfNames ==
  /\ \A n \in {"mcc", "mnc"} : Unread[n] = {"tai", "support"}
  /\ \A n \in {"sst", "sd"} : Unread[n] = {"session", "default", "db"}
  /\ Unread["dnn"] = {"db"} /\ Unread["pool"] = {"route"}
  /\ \A n \in {"supi", "key", "opc"} : Unread[n] = {"db"}
  /\ Unread["amfIp"] = {"sbi"} /\ Unread["gnbIp"] = {"link", "search"}
  /\ Unread["upfIp"] = {"pfcp", "gtpu"}
  /\ Unread["nrfIp"] = {"own", "registration", "sessions"} /\ Unread["nfIp"] = {"own"}
  BY DEF Unread

LEMMA AllPlaces == \A n \in Names : Places[n] = Checked[n] \union Unread[n]
  BY DEF Places

\* A place is a field, and a setting is the place of no name.
LEMMA PlacesAreFields ==
  /\ \A n \in Names : \A p \in Places[n] : <<n, p>> \in Fields /\ n # "setting"
  /\ \A s \in Settings : <<"setting", s>> \in Fields
<1>1. \A n \in Names : n # "setting"
  BY PlacesOfNames DEF Credentials, Addresses
<1>2. ASSUME NEW n \in Names, NEW p \in Places[n]
      PROVE  <<n, p>> \in Fields
  <2>1. <<n, p>> \in {n} \X Places[n]
    OBVIOUS
  <2>2. <<n, p>> \in UNION {{m} \X Places[m] : m \in Names}
    BY <2>1, Zenon
  <2>3. QED
    BY <2>2, Zenon DEF Fields
<1>3. ASSUME NEW s \in Settings
      PROVE  <<"setting", s>> \in Fields
  <2>1. <<"setting", s>> \in {"setting"} \X Settings
    OBVIOUS
  <2>2. QED
    BY <2>1, Zenon DEF Fields
<1>4. QED
  BY <1>1, <1>2, <1>3

\* The checks of validate_repo leave no place out that they read.
LEMMA AcceptedIsSettled ==
  ASSUME Accepts
  PROVE  \A n \in Names : Settled(n)
<1>1. Settled("mcc") /\ Settled("mnc") /\ Settled("tac") /\ Settled("dnn")
  BY DEF Accepts, PlmnChecks, SessionChecks, Settled
<1>2. \A n \in {"sst", "sd"} : Settled(n)
  BY PlacesOfNames DEF Accepts, SliceChecks, SliceSelectionChecks, Settled, Same
<1>3. Settled("pool") /\ Settled("gateway")
  BY PlacesOfNames DEF Accepts, SessionChecks, TunnelChecks, Settled, Same
<1>4. \A n \in Credentials : Settled(n)
  BY DEF Accepts, CredentialChecks, Settled
<1>5. \A n \in Addresses : Settled(n)
  BY PlacesOfNames DEF Accepts, RanAddressChecks, SessionChecks, PcfCheck, BsfCheck,
     MatchesCompose, Addresses, Settled, Same
<1>6. QED
  BY <1>1, <1>2, <1>3, <1>4, <1>5, PlacesOfNames

\* With nothing overlooked and no key taken out, any two places of a name agree.
LEMMA SettledAgrees ==
  ASSUME NEW n \in Names, Settled(n), ~Overlooked, ~TakenOut
  PROVE  \A p, q \in Places[n] : Agree(n, p, q)
<1>1. PICK c \in Checked[n] : At(n, c) # Missing
  BY DEF TakenOut
<1>2. \A p \in Checked[n] : At(n, p) = At(n, c)
  BY DEF Settled, Same
<1>3. \A p \in Unread[n] : \E q \in Checked[n] : At(n, p) = At(n, q)
  BY DEF Overlooked
<1>4. \A p \in Places[n] : At(n, p) = At(n, c)
  BY <1>2, <1>3, AllPlaces
<1>5. QED
  BY <1>1, <1>4 DEF Agree

\* A timer that passes is one the AMF can send: a count of 1 to 31 of a unit.
LEMMA AcceptedTimer ==
  ASSUME timer \in Nat, TimerCheck
  PROVE  \E u \in TimerUnits, k \in 1 .. 31 : timer = u * k
<1>1. PICK u \in TimerUnits : timer % u = 0 /\ timer \div u \in 1 .. 31
  BY DEF TimerCheck
<1>2. timer = u * (timer \div u)
  <2>1. \A n \in Nat : n % 2 = 0 => n = 2 * (n \div 2)
    OBVIOUS
  <2>2. \A n \in Nat : n % 30 = 0 => n = 30 * (n \div 30)
    OBVIOUS
  <2>3. \A n \in Nat : n % 60 = 0 => n = 60 * (n \div 60)
    OBVIOUS
  <2>4. \A n \in Nat : n % 600 = 0 => n = 600 * (n \div 600)
    OBVIOUS
  <2>5. \A n \in Nat : n % 3600 = 0 => n = 3600 * (n \div 3600)
    OBVIOUS
  <2>6. \A n \in Nat : n % 36000 = 0 => n = 36000 * (n \div 36000)
    OBVIOUS
  <2>7. \A n \in Nat : n % 1152000 = 0 => n = 1152000 * (n \div 1152000)
    OBVIOUS
  <2>8. QED
    BY <1>1, <2>1, <2>2, <2>3, <2>4, <2>5, <2>6, <2>7 DEF TimerUnits
<1>3. QED
  BY <1>1, <1>2

\* The components look at pairs of places of one name, so they agree on them.
LEMMA AcceptedMeansAttached ==
  ASSUME timer \in Nat, Accepts, ~Overlooked, ~TakenOut
  PROVE  Attaches
<1>1. \A n \in Names : \A p, q \in Checked[n] \union Unread[n] : Agree(n, p, q)
  BY AcceptedIsSettled, SettledAgrees, AllPlaces
<1>2. NgSetup
  <2>1. At("setting", "images") # Missing
    BY DEF TakenOut
  <2>2. /\ Agree("amfIp", "gnb", "compose") /\ Agree("amfIp", "amf", "compose")
        /\ Agree("gnbIp", "ngap", "compose")
    BY <1>1, PlacesOfNames DEF Addresses
  <2>3. \A n \in {"mcc", "mnc"} : Agree(n, "gnb", "tai") /\ Agree(n, "gnb", "support")
    BY <1>1, PlacesOfNames, UnreadOfNames
  <2>4. \A n \in {"tac", "sst", "sd"} : Agree(n, "gnb", "amf")
    BY <1>1, PlacesOfNames
  <2>5. QED
    BY <2>1, <2>2, <2>3, <2>4 DEF NgSetup
<1>3. Registers
  <2>1. \E u \in TimerUnits, k \in 1 .. 31 : timer = u * k
    BY AcceptedTimer DEF Accepts
  <2>2. /\ Agree("gnbIp", "search", "link") /\ Agree("gnbIp", "link", "compose")
        /\ Agree("amfIp", "sbi", "compose") /\ Agree("nfIp", "own", "compose")
        /\ Agree("nrfIp", "own", "compose") /\ Agree("nrfIp", "registration", "compose")
    BY <1>1, PlacesOfNames, UnreadOfNames DEF Addresses
  <2>3. \A n \in {"mcc", "mnc"} : Agree(n, "ue", "gnb") /\ Agree(n, "amf", "nrf")
    BY <1>1, PlacesOfNames
  <2>4. \A n \in {"supi", "key", "opc"} : Agree(n, "ue", "db")
    BY <1>1, PlacesOfNames, UnreadOfNames DEF Credentials
  <2>5. At("authField", "ue") = "old"
    BY DEF Overlooked
  <2>6. \A n \in {"sst", "sd"} : \A p \in {"ue", "default", "db"} : Agree(n, p, "amf")
    BY <1>1, PlacesOfNames, UnreadOfNames
  <2>7. QED
    BY <2>1, <2>2, <2>3, <2>4, <2>5, <2>6, Zenon DEF Registers
<1>4. OpensSession
  <2>1. At("dnn", "ue") = At("dnn", "smf")
    BY <1>1, PlacesOfNames DEF Agree
  <2>2. At("dnn", "ue") \in dnns
    BY <2>1 DEF Accepts, SliceSelectionChecks
  <2>3. \A n \in {"sst", "sd"} : Agree(n, "session", "smf") /\ Agree(n, "session", "db")
    BY <1>1, PlacesOfNames, UnreadOfNames
  <2>4. /\ Agree("dnn", "ue", "db") /\ Agree("dnn", "ue", "smf")
        /\ Agree("pcfIp", "pcf", "compose") /\ Agree("bsfIp", "bsf", "compose")
        /\ Agree("nrfIp", "bsf", "compose") /\ Agree("nrfIp", "sessions", "compose")
        /\ Agree("upfIp", "smf", "compose") /\ Agree("upfIp", "pfcp", "compose")
    BY <1>1, PlacesOfNames, UnreadOfNames DEF Addresses
  <2>5. QED
    BY <2>2, <2>3, <2>4 DEF OpensSession
<1>5. CarriesTraffic
  BY <1>1, PlacesOfNames, UnreadOfNames DEF CarriesTraffic, Addresses
<1>6. QED
  BY <1>2, <1>3, <1>4, <1>5 DEF Attaches

\* Nothing but the agreement of the places, the settings and the timer is checked.
LEMMA RenamedIsAccepted ==
  ASSUME OnlyRenamed, renamedOnly
  PROVE  Accepts
<1>1. \A n \in Names : \A p, q \in Checked[n] :
        At(n, p) = At(n, q) /\ At(n, p) \in {"old", "new"}
  BY AllPlaces DEF OnlyRenamed, Same
<1>2. \A v \in {"old", "new"} : v # Missing /\ v # "bad"
  BY DEF Missing
<1>3. PlmnChecks /\ SliceChecks
  BY <1>1, PlacesOfNames DEF PlmnChecks, SliceChecks, Same
<1>4. RanAddressChecks /\ PcfCheck /\ BsfCheck /\ AddressChecks
  BY <1>1, <1>2, PlacesOfNames DEF RanAddressChecks, PcfCheck, BsfCheck, AddressChecks,
     MatchesCompose, Addresses, Same
<1>5. SessionChecks
  BY <1>1, <1>2, PlacesOfNames DEF SessionChecks, MatchesCompose, Addresses, Same
<1>6. CredentialChecks
  BY <1>1, PlacesOfNames DEF CredentialChecks, Credentials, Same
<1>7. SliceSelectionChecks
  BY <1>1, PlacesOfNames DEF SliceSelectionChecks, OnlyRenamed
<1>8. TimerCheck
  <2>1. 540 % 60 = 0 /\ 540 \div 60 \in 1 .. 31
    OBVIOUS
  <2>2. QED
    BY <2>1 DEF TimerCheck, TimerUnits, OnlyRenamed
<1>9. SettingChecks
  BY DEF SettingChecks, OnlyRenamed, Choices
<1>10. TunnelChecks
  BY <1>1, PlacesOfNames DEF TunnelChecks, Same
<1>11. QED
  BY <1>3, <1>4, <1>5, <1>6, <1>7, <1>8, <1>9, <1>10 DEF Accepts

-----------------------------------------------------------------------------
(* The operator and the validator                                           *)

\* The checks are run on the configuration as the operator left it.
LEMMA VerdictIsAnswer == Spec => []VerdictOfChecks
<1>1. Init => VerdictOfChecks
  BY DEF Init, VerdictOfChecks
<1>2. ASSUME VerdictOfChecks, [Next]_vars
      PROVE  VerdictOfChecks'
  <2>1. CASE Operator
    <3>1. timer' \in Nat
      BY <1>2, <2>1, ContractAssumption
      DEF Operator, VerdictOfChecks, Edit, EditAll, Advertise, SetTimer
    <3>2. verdict' = "none"
      BY <2>1 DEF Operator
    <3>3. QED
      BY <3>1, <3>2 DEF VerdictOfChecks
  <2>2. CASE Validate
    <3>1. UNCHANGED <<config, dnns, timer>>
      BY <2>2 DEF Validate
    <3>2. Accepts' = Accepts
      BY <3>1 DEF Accepts, PlmnChecks, RanAddressChecks, SessionChecks, SliceChecks,
         CredentialChecks, AddressChecks, SliceSelectionChecks, PcfCheck, BsfCheck,
         TimerCheck, SettingChecks, TunnelChecks, Same, MatchesCompose, At
    <3>3. QED
      BY <1>2, <2>2, <3>1, <3>2 DEF Validate, VerdictOfChecks
  <2>3. CASE UNCHANGED vars
    <3>1. Accepts' = Accepts
      BY <2>3 DEF vars, Accepts, PlmnChecks, RanAddressChecks, SessionChecks, SliceChecks,
         CredentialChecks, AddressChecks, SliceSelectionChecks, PcfCheck, BsfCheck,
         TimerCheck, SettingChecks, TunnelChecks, Same, MatchesCompose, At
    <3>2. QED
      BY <1>2, <2>3, <3>1 DEF vars, VerdictOfChecks
  <2>4. QED
    BY <1>2, <2>1, <2>2, <2>3 DEF Next
<1>3. QED
  BY <1>1, <1>2, PTL DEF Spec

\* AcceptedAttaches: when a configuration that passes does not bring the UE up, the
\* reason is a place that validate_repo does not read or a key taken out everywhere,
\* never a difference between two places that it compares.
\* (config.py:120-274, 540-604, 654-674; scripts/add_subscriber.sh:7-44)
THEOREM AcceptedAttachesHolds == Spec => []AcceptedAttaches
<1>1. VerdictOfChecks => AcceptedAttaches
  BY AcceptedMeansAttached DEF VerdictOfChecks, AcceptedAttaches
<1>2. QED
  BY <1>1, VerdictIsAnswer, PTL

\* A rename writes the new value to every place of its name and to no other.
LEMMA EditAllFields ==
  ASSUME NEW n \in Names, NEW v, EditAll(n, v)
  PROVE  /\ \A m \in Names : \A p \in Places[m] :
              At(m, p)' = IF m = n THEN v ELSE At(m, p)
         /\ \A s \in Settings : At("setting", s)' = At("setting", s)
<1>1. \A f \in Fields : config'[f] = IF f[1] = n THEN v ELSE config[f]
  BY DEF EditAll
<1>2. ASSUME NEW m \in Names, NEW p \in Places[m]
      PROVE  At(m, p)' = IF m = n THEN v ELSE At(m, p)
  <2>1. <<m, p>> \in Fields /\ <<m, p>>[1] = m
    BY PlacesAreFields
  <2>2. QED
    BY <1>1, <2>1 DEF At
<1>3. ASSUME NEW s \in Settings
      PROVE  At("setting", s)' = At("setting", s)
  <2>1. <<"setting", s>> \in Fields /\ <<"setting", s>>[1] = "setting" /\ n # "setting"
    BY PlacesOfNames, PlacesAreFields DEF Credentials, Addresses
  <2>2. QED
    BY <1>1, <2>1 DEF At
<1>4. QED
  BY <1>2, <1>3

\* The inductive invariant of a series of renames.
THEOREM RenamesKeepAgreement == Spec => []OnlyRenamed
<1>1. Init => OnlyRenamed
  <2>1. ASSUME Init
        PROVE  /\ \A n \in Names : \A p \in Places[n] : At(n, p) = "old"
               /\ \A s \in Settings : At("setting", s) = "old"
    BY <2>1, PlacesAreFields DEF Init, At
  <2>2. ASSUME Init
        PROVE  timer = 540 /\ At("dnn", "smf") \in dnns
    BY <2>1, <2>2, PlacesOfNames, AllPlaces DEF Init
  <2>3. QED
    BY <2>1, <2>2 DEF OnlyRenamed, Same
<1>2. ASSUME OnlyRenamed, [Next]_vars
      PROVE  OnlyRenamed'
  <2>1. CASE UNCHANGED <<config, dnns, timer, renamedOnly>>
    BY <1>2, <2>1 DEF OnlyRenamed, Same, At
  <2>2. ASSUME NEW n \in Names, NEW v \in {"old", "new", Missing}, EditAll(n, v), renamedOnly'
        PROVE  OnlyRenamed'
    <3>1. renamedOnly /\ v \in {"old", "new"} /\ timer' = timer
      BY <2>2 DEF EditAll
    <3>2. \A m \in Names : Same(m, Places[m])' /\ \A p \in Places[m] : At(m, p)' \in {"old", "new"}
      BY <1>2, <2>2, <3>1, EditAllFields DEF OnlyRenamed, Same
    <3>3. At("dnn", "smf")' \in dnns'
      <4>1. At("dnn", "smf")' = IF n = "dnn" THEN v ELSE At("dnn", "smf")
        BY <2>2, EditAllFields, PlacesOfNames, AllPlaces
      <4>2. At("dnn", "smf") \in dnns
        BY <1>2, <3>1 DEF OnlyRenamed
      <4>3. v # Missing
        BY <3>1 DEF Missing
      <4>4. dnns' = IF n = "dnn" THEN {v} ELSE dnns
        BY <2>2, <4>3 DEF EditAll
      <4>5. QED
        BY <4>1, <4>2, <4>4
    <3>4. QED
      BY <1>2, <2>2, <3>1, <3>2, <3>3, EditAllFields DEF OnlyRenamed
  <2>3. CASE Operator
    BY <2>2, <2>3 DEF Operator, Edit, Advertise, SetTimer, OnlyRenamed
  <2>4. QED
    BY <1>2, <2>1, <2>3 DEF Next, Validate, vars
<1>3. QED
  BY <1>1, <1>2, PTL DEF Spec

\* RenamingAccepted: the checks compare and do not fix values.
\* (config.py:120-268, 466-486, 551-562)
THEOREM RenamingAcceptedHolds == Spec => []RenamingAccepted
<1>1. VerdictOfChecks /\ OnlyRenamed => RenamingAccepted
  BY RenamedIsAccepted DEF VerdictOfChecks, RenamingAccepted
<1>2. QED
  BY <1>1, VerdictIsAnswer, RenamesKeepAgreement, PTL
=============================================================================
