----------------------------- MODULE MCMembers -----------------------------
(* Small instances of Members for TLC.                                      *)
EXTENDS Members, TLC

Symmetric == Permutations(Request) \cup Permutations(User \ {Founder})
=============================================================================
