---------------------------- MODULE MCSelectServer ----------------------------
(* Small instances of SelectServer; the values are in the .cfg files. *)
EXTENDS SelectServer
===============================================================================
