---------------------------- MODULE MCPoolServer ----------------------------
(* Instances of PoolServer for TLC. *)
EXTENDS PoolServer

MCPrograms == AllPrograms
=============================================================================
