----------------------------- MODULE MCSessions -----------------------------
(* Small instances of Sessions for TLC.                                     *)
EXTENDS Sessions, TLC

Symmetric == Permutations(Tab) \cup Permutations(User)
=============================================================================
