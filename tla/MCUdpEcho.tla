----------------------------- MODULE MCUdpEcho -----------------------------
(* Two clients of one server: the programs that differ, in pairs.          *)
EXTENDS UdpEcho, TLC

CONSTANTS c1, c2

Pair(p, q) == (c1 :> p) @@ (c2 :> q)

MCClients == {c1, c2}
MCSystems ==
    {<<Pair(dg_cli, dg_cli_connect), dg_ehco>>,
     <<Pair(lib_dg_cli, daytimeudpcli2), dg_echo>>,
     <<Pair(dgcliaddr, dgcliconnect), dgecho01>>,
     <<Pair(dg_cli_loop1, dg_cli), dgecho01>>,
     <<Pair(dg_cli_loop1, daytimeudpcli1), dg_echo_loop1>>,
     <<Pair(dgcliloop3, dgclibig), dgecholoop2>>}

\* Every client and every server is one of these.
ASSUME EveryProgram ==
    /\ \A p \in AllClients : \E s \in MCSystems, c \in MCClients : p = s[1][c]
    /\ \A q \in AllServers : \E s \in MCSystems : q = s[2]
=============================================================================
