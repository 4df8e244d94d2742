---------------------------- MODULE MCWidgetGate ----------------------------
(* Small instances of WidgetGate for TLC.                                   *)
EXTENDS WidgetGate, TLC
Symmetric == Permutations(Request) \cup Permutations(Key) \cup Permutations(Revoker)
=============================================================================
