------------------------------ MODULE MCAddrWalk ------------------------------
(* A small instance of AddrWalk: walks of every kind against each other,   *)
(* and host_serv called in every way.                                      *)
EXTENDS AddrWalk

a4 == Addr("inet", "h1")
b4 == Addr("inet", "h2")
a6 == Addr("inet6", "h1")

HostsDef ==
    {[inet |-> <<a4>>, inet6 |-> <<a6>>], [inet |-> <<a4, b4>>, inet6 |-> <<>>],
     [inet |-> <<>>, inet6 |-> <<a6>>]}

StacksDef == {{"inet"}, {"inet6", "local"}, {"inet", "inet6", "local"}}

TcpServers == {Call(tcp_listen, "none", "both"), Call(tcp_listen, "name", "tcp")}
TcpClients == {Call(tcp_connect, "name", "both"), Call(tcp_connect, "name", "port"),
               Call(daytimetcpcli1, "name", "tcp"), Call(daytime_tcp_cli, "v4", "port"),
               Call(daytime_tcp_cli6, "v6", "port"),
               Call([tcp_connect EXCEPT !.by = "saved"], "name", "tcp"),
               Call([tcp_connect EXCEPT !.by = "libfree"], "v4", "tcp")}
UdpServers == {Call(udp_server, "name", "udp")}
UdpClients == {Call(udp_connect, "name", "udp"), Call(udp_client, "name", "both")}
Local      == {<<Call(tcp_listen, "local", "path"), Call(f, "local", "path")>> :
                  f \in {tcp_connect, unix_daytimetcpcli}}

\* host_serv with any hints, and getaddrinfo with AI_PASSIVE, in each version.
Lists == {Call([host_serv EXCEPT !.by = v, !.family = f, !.socktype = t, !.passive = q], h, s) :
             v \in {"libgai", "libfree", "saved"}, f \in {"unspec", "inet", "inet6", "local"}, t \in {"any", "stream", "dgram", "raw"},
             q \in BOOLEAN, h \in {"none", "name", "v4", "v6", "local"},
             s \in {"none", "port", "tcp", "udp", "both", "unknown", "path"}}

Case(h, server, client, s, c, u) ==
    [prog   |-> [p \in Procs |-> IF p = "server" THEN server ELSE client],
     dns    |-> h,
     stack  |-> [p \in Procs |-> IF p = "server" THEN s ELSE c],
     usable |-> u]

PairsDef == TcpServers \X TcpClients \cup UdpServers \X UdpClients \cup Local

\* Every walk is one of these.
ASSUME EveryWalk ==
    \A f \in AllWalks : \E p \in PairsDef, q \in 1..2 : \A k \in DOMAIN f : f[k] = p[q][k]

\* Walks with any stacks and any usable families; the lists need neither.
MCCases ==
    {Case(h, p[1], p[2], s, c, u) : h \in HostsDef, p \in PairsDef, s \in StacksDef, c \in StacksDef,
                                    u \in SUBSET {"inet", "inet6"}}
    \cup {Case(h, Call(udp_server, "none", "port"), c, {"inet"}, {"inet"}, {"inet"}) :
             h \in HostsDef, c \in Lists}
===============================================================================
