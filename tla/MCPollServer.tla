----------------------------- MODULE MCPollServer -----------------------------
(* Small instances of PollServer; the values are in the .cfg files. *)
EXTENDS PollServer
===============================================================================
