-------------------------- MODULE MCLockdownClient --------------------------
(* TLC instance of LockdownClient: two services. *)
EXTENDS LockdownClient
=============================================================================
