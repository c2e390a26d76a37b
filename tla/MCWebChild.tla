----------------------------- MODULE MCWebChild -----------------------------
(* A small instance of WebChild: two requests in a row, a line that is too *)
(* long, a number without its newline, requests that are refused.          *)
EXTENDS WebChild

MCPrograms == AllServers
ScriptsDef == {<<1, NL, 2, NL>>, <<0, 0, 1, NL>>, <<2>>, <<4, NL>>, <<NL>>}
=============================================================================
