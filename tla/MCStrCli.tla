------------------------------ MODULE MCStrCli ------------------------------
(* All clients: twelve that differ. *)
EXTENDS StrCli

MCPrograms == AllPrograms
=============================================================================
