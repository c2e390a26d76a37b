------------------------------- MODULE AddrWalk -------------------------------
(***************************************************************************)
(* The functions that call getaddrinfo and walk the list it returns: a     *)
(* server process in tcp_listen or udp_server, and a client process in     *)
(* tcp_connect, udp_connect, udp_client, host_serv or a daytime client,    *)
(* looking for that server at the same time.  A host has addresses of      *)
(* families that each side may or may not support.                         *)
(***************************************************************************)
EXTENDS GetAddrInfo

CONSTANT
    Cases   \* records: prog, per process the function and its arguments; dns, per
            \* family the addresses the DNS has; stack, per process the families
            \* it can make sockets for; usable, the families the server can bind in

Procs == {"server", "client"}

-----------------------------------------------------------------------------
(* The functions.  by: how the name is looked up; nosocket: what happens   *)
(* if socket fails; then: what is done with the socket; hints as above.    *)

Walks == [by |-> "libgai", nosocket |-> "next", then |-> "connect",
          passive |-> FALSE, canon |-> FALSE, family |-> "unspec", socktype |-> "stream"]

tcp_connect == Walks
tcp_listen  == [Walks EXCEPT !.then = "listen", !.passive = TRUE]
udp_client  == [Walks EXCEPT !.then = "nothing", !.socktype = "dgram"]
udp_connect == [Walks EXCEPT !.then = "connect_dgram", !.socktype = "dgram"]
udp_server  == [Walks EXCEPT !.then = "bind", !.passive = TRUE, !.socktype = "dgram"]

lib_tcp_connect == tcp_connect
lib_tcp_listen  == tcp_listen
lib_udp_client  == udp_client
lib_udp_connect == udp_connect
lib_udp_server  == udp_server
udp_server_reuseaddr == udp_server

\* Returns the list; the caller gives family and socket type.
host_serv       == [Walks EXCEPT !.then = "list", !.canon = TRUE, !.socktype = "any"]
lib_host_serv   == host_serv

\* gethostbyname, and the wrapper Socket: err_sys.
daytimetcpcli1  == [Walks EXCEPT !.by = "gethostbyname", !.nosocket = "fatal", !.family = "inet"]
names_daytimetcpcli1 == daytimetcpcli1
names_daytimetcpcli2 == daytimetcpcli1
names_daytimetcpcli3 == daytimetcpcli1

\* The daytime clients that take an address: a list of one.
daytime_tcp_cli    == [daytimetcpcli1 EXCEPT !.by = "inet_pton"]
daytime_tcp_cli6   == [daytime_tcp_cli EXCEPT !.family = "inet6"]
intro_daytimetcpcli    == daytime_tcp_cli
intro_daytimetcpcli1   == daytime_tcp_cli
intro_daytimetcpcli2   == daytime_tcp_cli
intro_daytimetcpcli3   == daytime_tcp_cli
intro_daytimetcpcliv6  == daytime_tcp_cli6
nonblock_daytimetcpcli == daytime_tcp_cli

\* Tcp_connect, then Read until the server closes.
daytimetcpcli       == tcp_connect
names_daytimetcpcli == tcp_connect
advio_daytimetcpcli == tcp_connect
unix_daytimetcpcli  == [daytime_tcp_cli EXCEPT !.family = "local"]

AllWalks ==
    {tcp_connect, tcp_listen, udp_client, udp_connect, udp_server, lib_tcp_connect,
     lib_tcp_listen, lib_udp_client, lib_udp_connect, lib_udp_server, udp_server_reuseaddr,
     daytimetcpcli1, names_daytimetcpcli1, names_daytimetcpcli2, names_daytimetcpcli3,
     daytime_tcp_cli, daytime_tcp_cli6, intro_daytimetcpcli, intro_daytimetcpcli1,
     intro_daytimetcpcli2, intro_daytimetcpcli3, intro_daytimetcpcliv6,
     nonblock_daytimetcpcli, daytimetcpcli, names_daytimetcpcli, advio_daytimetcpcli,
     unix_daytimetcpcli}

\* A function called with a host and a service.
Call(f, host, serv) == f @@ [host |-> host, serv |-> serv]

\* The DNS has addresses of the family asked for; the functions that call
\* the wrapper Socket look the name up by hand.
ASSUME WalkAssumption ==
    \A c \in Cases :
        /\ \A f \in {"inet", "inet6"} : c.dns[f] \in Seq([family : {f}, id : STRING])
        /\ c.stack \in [Procs -> SUBSET Families] /\ c.usable \subseteq Families
        /\ \A p \in Procs : c.prog[p].nosocket = "fatal" => c.prog[p].by \in {"gethostbyname", "inet_pton"}

-----------------------------------------------------------------------------
VARIABLES
    prog,     \* per process: the function and its arguments
    dns,      \* what the DNS has for the name
    stack,    \* per process: families socket() supports
    usable,   \* families in which the server can bind
    pc,       \* per process: the next call, or how it ended
    list,     \* per process: what getaddrinfo returned
    res,      \* per process: position in the list
    open,     \* per process: how many descriptors it has opened and not closed
    early     \* the server was ready before the client began

hostVars == <<prog, dns, stack, usable>>
vars     == <<hostVars, pc, list, res, open, early>>

Ends == {"done", "unresolved", "failed"}

TypeOK ==
    /\ DOMAIN prog = Procs /\ stack \in [Procs -> SUBSET Families] /\ usable \subseteq Families
    /\ pc \in [Procs -> {"getaddrinfo", "socket", "try", "close", "listen"} \cup Ends]
    /\ \A p \in Procs : res[p] \in 1..(IF list[p] = <<>> THEN 1 ELSE Len(list[p]))
    /\ open \in [Procs -> Nat] /\ early \in BOOLEAN

Init ==
    /\ \E c \in Cases : prog = c.prog /\ dns = c.dns /\ stack = c.stack /\ usable = c.usable
    /\ pc = [p \in Procs |-> "getaddrinfo"] /\ res = [p \in Procs |-> 1]
    /\ list = [p \in Procs |-> <<>>]
    /\ open = [p \in Procs |-> 0] /\ early = FALSE

-----------------------------------------------------------------------------
At(p) == list[p][res[p]].addr
Goto(p, where) == pc' = [pc EXCEPT ![p] = where]

\* while ((res = res->ai_next) != NULL): the next address; err_sys after the
\* last.
NextAddr(p) ==
    IF res[p] = Len(list[p])
      THEN Goto(p, "failed") /\ res' = res
      ELSE Goto(p, "socket") /\ res' = [res EXCEPT ![p] = @ + 1]

\* gethostbyname, or inet_aton for digits; inet_pton.
ByHand(c) ==
    LET addrs == IF c.by = "gethostbyname" /\ c.host = "name" THEN dns["inet"]
                 ELSE <<Addr(c.family, IF c.family = "local" THEN "path" ELSE "host")>>
    IN  IF addrs = <<>> \/ c.serv = "unknown" THEN Error("err_quit")
        ELSE Returns(AiList(c, addrs))

Resolve(c) ==
    CASE c.by = "libgai"  -> getaddrinfo(c, dns)
      [] c.by = "libfree" -> libfree_getaddrinfo(c, dns)
      [] c.by = "saved"   -> saved_getaddrinfo(c, dns)
      [] OTHER            -> ByHand(c)

\* getaddrinfo returns the list, or an error (err_quit).
Getaddrinfo(p) ==
    /\ pc[p] = "getaddrinfo"
    /\ LET r == Resolve(prog[p]) IN
          /\ list' = [list EXCEPT ![p] = r.list]
          /\ Goto(p, IF r.err # "none" THEN "unresolved"
                     ELSE IF prog[p].then = "list" THEN "done" ELSE "socket")
    /\ early' = IF p = "client" THEN pc["server"] = "done" ELSE early
    /\ UNCHANGED <<hostVars, res, open>>

\* udp_client needs nothing but a socket.
AfterSocket(p) == IF prog[p].then = "nothing" THEN "done" ELSE "try"

\* continue, unless the wrapper Socket was called.
NoSocket(p) ==
    IF prog[p].nosocket = "fatal" THEN Goto(p, "failed") /\ res' = res ELSE NextAddr(p)

Socket(p) ==
    /\ pc[p] = "socket"
    /\ IF At(p).family \in stack[p]
         THEN /\ open' = [open EXCEPT ![p] = @ + 1]
              /\ Goto(p, AfterSocket(p)) /\ res' = res
         ELSE /\ open' = open
              /\ NoSocket(p)
    /\ UNCHANGED <<hostVars, list, early>>

\* The server accepts connections at this address; the wildcard stands for
\* every address of its family.
Serves(a) ==
    /\ pc["server"] = "done" /\ prog["server"].then = "listen"
    /\ At("server").family = a.family /\ At("server").id \in {a.id, "any"}

\* Mutant: connect takes the head of the list (ressave) every time.
ConnectWorksFirst(p) == prog[p].then = "connect_dgram" \/ Serves(list[p][1].addr)

\* connect of a datagram socket succeeds whether there is a server or not.
ConnectWorks(p) == prog[p].then = "connect_dgram" \/ Serves(At(p))

\* getaddrinfo has removed the pathname: ga_aistruct, AI_PASSIVE.
BindWorks(p) == At(p).family \in usable \cup {"local"}

AfterTry(p) == IF prog[p].then = "listen" THEN "listen" ELSE "done"

\* bind or connect.
Try(p) ==
    /\ pc[p] = "try"
    /\ Goto(p, IF (IF p = "server" THEN BindWorks(p) ELSE ConnectWorks(p))
               THEN AfterTry(p) ELSE "close")
    /\ UNCHANGED <<hostVars, list, res, open, early>>

OpenAfterCloseNot(p) == open  \* mutant: the socket that failed stays open
OpenAfterClose(p)    == [open EXCEPT ![p] = @ - 1]

\* "ignore this one": Close, then the next address.
Close(p) ==
    /\ pc[p] = "close"
    /\ open' = OpenAfterClose(p)
    /\ NextAddr(p)
    /\ UNCHANGED <<hostVars, list, early>>

\* tcp_listen: Listen after the loop.
Listen(p) ==
    /\ pc[p] = "listen"
    /\ Goto(p, "done")
    /\ UNCHANGED <<hostVars, list, res, open, early>>

Walk(p) == Getaddrinfo(p) \/ Socket(p) \/ Try(p) \/ Close(p) \/ Listen(p)

\* Both have returned or ended.
Ended == (\A p \in Procs : pc[p] \in Ends) /\ UNCHANGED vars

Next == Ended \/ \E p \in Procs : Walk(p)

Spec == Init /\ [][Next]_vars

-----------------------------------------------------------------------------
(* Properties. *)

\* "ignore this one": a walk never holds more than one descriptor, whatever
\* fails on the way, and returns with exactly one.
OneDescriptor ==
    \A p \in Procs : /\ open[p] <= 1
                     /\ pc[p] = "done" /\ prog[p].then # "list" => open[p] = 1

\* The server is found: a TCP client that starts after the server listens
\* fails only if its host does not support the family of the server's
\* address, or its list does not have an address the server listens at.  (The
\* clients that call Socket do not get past an address of another family.)
ServerFound ==
    LET c == "client" IN
    early /\ prog[c].then = "connect" /\ pc[c] = "failed" =>
        \A j \in 1..Len(list[c]) :
            Serves(list[c][j].addr) =>
                \/ list[c][j].addr.family \notin stack[c]
                \/ prog[c].nosocket = "fatal" /\ list[c][1].addr.family \notin stack[c]

\* The addresses a call asks for, as a set.
Wanted(c) ==
    {a \in [family : {"inet", "inet6"}, id : {"any", "loop", "host", "h1", "h2"}] :
        /\ c.family \in {"unspec", a.family}
        /\ CASE c.host = "none" -> a.id = (IF c.passive THEN "any" ELSE "loop")
             [] c.host = "name" ->
                  \/ \E j \in 1..Len(dns[a.family]) : dns[a.family][j] = a
                  \/ /\ c.family = "inet6" /\ dns["inet6"] = <<>>
                     /\ \E j \in 1..Len(dns["inet"]) : dns["inet"][j].id = a.id
             [] c.host = "v4" -> a = Addr("inet", "host")
             [] c.host = "v6" -> a = Addr("inet6", "host")
             [] OTHER -> FALSE}

\* The socket types it asks for, with a port.
Offered(c) ==
    {t \in {"stream", "dgram", "raw"} :
        /\ c.socktype \in {"any", t}
        /\ \/ c.serv = "port" /\ (c.socktype = "any" => t # "raw")
           \/ c.serv \in {"tcp", "both"} /\ t = "stream"
           \/ c.serv \in {"udp", "both"} /\ t = "dgram"}

\* "we need to return *four* addrinfo structures": for an Internet host and a
\* service getaddrinfo returns every address with every socket type the
\* service has, each once and with its port, those of one address together;
\* and when it returns an error there was nothing to return.
ListComplete ==
    \A p \in Procs : LET c == prog[p]  l == list[p]  Pos == 1..Len(l) IN
        pc[p] # "getaddrinfo" /\ c.by = "libgai" /\ c.host # "local" /\ c.serv \notin {"none", "path"} =>
            /\ {<<l[j].addr, l[j].socktype, l[j].port>> : j \in Pos}
                   = {<<a, t, t>> : a \in Wanted(c), t \in Offered(c)}
            /\ \A i, j \in Pos : i # j => <<l[i].addr, l[i].socktype>> # <<l[j].addr, l[j].socktype>>
            /\ \A i, j \in Pos : i < j /\ l[i].addr = l[j].addr =>
                   \A k \in i..j : l[k].addr = l[i].addr
===============================================================================
