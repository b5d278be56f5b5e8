--------------------------- MODULE MCLogEvidence ---------------------------
(* The TLC instance of LogEvidence.                                         *)
EXTENDS LogEvidence, TLC

CONSTANTS amf, smf

MCServices == {amf, smf}

\* No action and no property tells the services apart.
Symmetry == Permutations(MCServices)
=============================================================================
