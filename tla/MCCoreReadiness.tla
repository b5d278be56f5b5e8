-------------------------- MODULE MCCoreReadiness --------------------------
(* The TLC instances of CoreReadiness: MongoDB and the SMF.                 *)
EXTENDS CoreReadiness

CONSTANTS smf, mongo

MCNFs == {smf}
MCNeeds == [s \in {smf, mongo} |-> IF s = smf THEN {"PFCP"} ELSE {}]
=============================================================================
