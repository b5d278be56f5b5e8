-------------------------- MODULE MCConfigContract --------------------------
(* The TLC instance of ConfigContract.                                      *)
EXTENDS ConfigContract

\* The default, the largest value of the smallest unit, the next one, zero and
\* a value between units.
MCTimers == {540, 62, 64, 0, 541}
=============================================================================
