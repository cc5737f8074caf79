------------------------------- MODULE MCTeam -------------------------------
(* The team of one workspace by itself, for TLC. *)
EXTENDS Team

Spec == TeamInit /\ [][TeamNext]_teamVars
=============================================================================
