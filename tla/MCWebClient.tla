---------------------------- MODULE MCWebClient ----------------------------
(* Instances of WebClient for TLC. *)
EXTENDS WebClient

MCPrograms == {web01, web02, web03, web}
=============================================================================
