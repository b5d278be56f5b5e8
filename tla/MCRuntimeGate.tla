--------------------------- MODULE MCRuntimeGate ---------------------------
(* The TLC instances of RuntimeGate.                                        *)
EXTENDS RuntimeGate, TLC

CONSTANTS c1, c2, k1, k2

MCConfigs == {c1, c2}
MCCommits == {k1, k2}
MCCommit == {k1}
Symmetry == Permutations(MCConfigs) \union Permutations(MCCommits)
=============================================================================
