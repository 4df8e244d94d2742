----------------------------- MODULE MCNightly -----------------------------
(* Small instances of Nightly for TLC.                                      *)
EXTENDS Nightly, TLC
Symmetric == Permutations(Answer)
=============================================================================
