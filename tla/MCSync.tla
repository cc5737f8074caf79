------------------------------- MODULE MCSync -------------------------------
(* The replicas of one workspace by themselves, for TLC. *)
EXTENDS Sync

Spec == SyncInit /\ [][SyncNext]_syncVars
=============================================================================
