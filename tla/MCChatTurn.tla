----------------------------- MODULE MCChatTurn -----------------------------
(* Small instances of ChatTurn for TLC.                                     *)
EXTENDS ChatTurn, TLC

Symmetric == Permutations(Turn) \cup Permutations(Rater) \cup Permutations(Staff)
=============================================================================
