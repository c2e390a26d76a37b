----------------------------- MODULE MCForkServer -----------------------------
(* A small instance of ForkServer; the values are in the .cfg file. *)
EXTENDS ForkServer

MCProgs == AllServers
===============================================================================
