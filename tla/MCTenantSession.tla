-------------------------- MODULE MCTenantSession --------------------------
(* Small instances of TenantSession for TLC.                                *)
EXTENDS TenantSession, TLC

Symmetric == Permutations(Org) \cup Permutations(ApiConn) \cup Permutations(WorkerConn)
             \cup Permutations(Request) \cup Permutations(Job)
=============================================================================
