-------------------------- MODULE MCResponseCache --------------------------
(* Small instances of ResponseCache for TLC.                                *)
EXTENDS ResponseCache, TLC

Symmetric == Permutations(Doc) \cup Permutations(Job)
=============================================================================
