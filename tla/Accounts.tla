------------------------------ MODULE Accounts ------------------------------
(* The users of an installation (models/tenancy.py), whom Sessions signs   *)
(* in and whose memberships Members is about.                              *)
CONSTANTS User, NoUser
ASSUME AccountsAssumption == NoUser \notin User
=============================================================================
