----------------------------- MODULE GetAddrInfo -----------------------------
(***************************************************************************)
(* getaddrinfo, in the three versions the repository has: libgai, which    *)
(* searches for a name in each family, the copy of it saved on the way,    *)
(* and the older libfree.  The functions take a call, a record with        *)
(*   host   "none", "name" (for the DNS), "v4" or "v6" (an address of the  *)
(*          host, in letters), or "local" ("/local" or a pathname)         *)
(*   serv   "none", "port" (digits), "tcp", "udp", "both" (a name and the  *)
(*          protocols the services file has it for), "unknown", "path"     *)
(*   passive, canon, family, socktype   the hints; "unspec", "any" are 0   *)
(* and the addresses the DNS has for the name, per family.  They return    *)
(* the list of addrinfo{}, or an error.                                    *)
(***************************************************************************)
EXTENDS Naturals, SequencesExt

Families == {"inet", "inet6", "local"}

\* An address of a family: of the host the name stands for, the wildcard, the
\* loopback address, or a pathname.
Addr(f, id) == [family |-> f, id |-> id]

Returns(list) == [err |-> "none", list |-> list]
\* goto bad: freeaddrinfo, and the error.
Error(e)      == [err |-> e, list |-> <<>>]

\* BIND: gethostbyname2 asks for one family; gethostbyname with RES_USE_INET6
\* maps IPv4 addresses if there is none of IPv6.
Lookup(dns, f)       == dns[f]
Mapped(addrs)        == [j \in 1..Len(addrs) |-> [addrs[j] EXCEPT !.family = "inet6"]]
LookupMapped(dns, f) == IF f = "inet6" /\ dns[f] = <<>> THEN Mapped(dns["inet"]) ELSE dns[f]

-----------------------------------------------------------------------------
(* Parts that are the same in both. *)

\* The socket type is valid for the family.
ga_echeck(c) ==
    IF c.host = "none" /\ c.serv = "none" THEN "EAI_NONAME"
    ELSE IF c.family = "local" /\ c.socktype = "raw" THEN "EAI_SOCKTYPE"
    ELSE "none"

\* One addrinfo{}; if the caller gives no socket type it may be cloned.
ga_aistruct(c, addr) ==
    [addr |-> addr, socktype |-> c.socktype, clone |-> c.socktype = "any", port |-> "unset"]

AiList(c, addrs) == [j \in 1..Len(addrs) |-> ga_aistruct(c, addrs[j])]

\* Inserted after the original; it is not cloned again.
ga_clone(ai) == [ai EXCEPT !.clone = FALSE]

Fill(ai, socktype, port) == [ai EXCEPT !.socktype = socktype, !.port = port]

\* Mutant: an entry that got a type for another service is taken again.
ga_portOver(list, port, socktype) ==
    [j \in 1..Len(list) |-> IF list[j].clone \/ list[j].socktype = socktype
                            THEN Fill(list[j], socktype, port) ELSE list[j]]

\* Sets the port in every entry of the type; an entry that waits for a type
\* gets it, and one that has got another is cloned.
ga_port(list, port, socktype) ==
    FlattenSeq([j \in 1..Len(list) |->
        LET ai == list[j] IN
        IF ai.clone
          THEN IF ai.socktype = "any" THEN <<Fill(ai, socktype, port)>>
               ELSE <<ai, Fill(ga_clone(ai), socktype, port)>>
          ELSE IF ai.socktype = socktype THEN <<Fill(ai, socktype, port)>> ELSE <<ai>>])

\* The socket types a service name is looked up for, TCP before UDP.
Served(c) ==
    LET Want(t) == c.socktype \in {"any", t}
    IN  (IF Want("stream") /\ c.serv \in {"tcp", "both"} THEN <<"stream">> ELSE <<>>)
        \o (IF Want("dgram") /\ c.serv \in {"udp", "both"} THEN <<"dgram">> ELSE <<>>)

\* The types ga_port is called for, one after the other, with the port.
PortsOf(types, list) ==
    FoldLeft(LAMBDA l, t : ga_port(l, t, t), list, types)

-----------------------------------------------------------------------------
(* libgai. *)

\* What to look for: the address written out or a name, in each family.
ga_nsearch(c) ==
    LET In(f) == CASE c.host = "none" /\ c.passive -> [kind |-> f, id |-> "any", family |-> f]
                   [] c.host = "none" /\ ~c.passive ->
                        [kind |-> IF f = "inet6" THEN f ELSE "name", id |-> "loop", family |-> f]
                   [] c.host = "name" -> [kind |-> "name", id |-> "host", family |-> f]
                   [] c.host = "v4" -> [kind |-> "inet", id |-> "host", family |-> f]
                   [] c.host = "v6" -> [kind |-> "inet6", id |-> "host", family |-> f]
                   [] c.host = "local" -> [kind |-> "name", id |-> "nowhere", family |-> f]
    IN  CASE c.family = "unspec" -> <<In("inet6"), In("inet")>>
          [] c.family \in {"inet", "inet6"} -> <<In(c.family)>>
          [] c.family = "local" -> <<>>

\* What gethostbyname2 (of two searches) or gethostbyname returns.
Hostent(dns, s, n) ==
    CASE s.id = "loop"    -> <<Addr(s.family, "loop")>>
      [] s.id = "nowhere" -> <<>>
      [] OTHER            -> IF n = 2 THEN Lookup(dns, s.family) ELSE LookupMapped(dns, s.family)

\* What one search finds, or an error.
Search(c, dns, s, n) ==
    IF s.kind # "name"
      THEN IF c.family \notin {"unspec", s.kind} THEN Error("EAI_ADDRFAMILY")
           ELSE IF s.family # s.kind THEN Returns(<<>>)
           ELSE Returns(AiList(c, <<Addr(s.kind, s.id)>>))
      ELSE LET addrs == Hostent(dns, s, n)
           IN  IF addrs = <<>> /\ n # 2 THEN Error("EAI_NONAME") ELSE Returns(AiList(c, addrs))

\* Socket types for the port of a service: a number is good for TCP and UDP.
ga_servTypes(c) ==
    IF c.serv = "port"
      THEN IF c.socktype = "any" THEN <<"stream", "dgram">> ELSE <<c.socktype>>
      ELSE Served(c)

\* nfound counts entries of the Internet families, and there are no others.
ga_serv(c, list) ==
    IF ga_servTypes(c) = <<>>
      THEN Error(IF c.socktype = "any" THEN "EAI_NONAME" ELSE "EAI_SERVICE")
      ELSE Returns(PortsOf(ga_servTypes(c), list))

\* "/local" and a pathname; what it has allocated it does not free.
ga_unix(c) ==
    IF c.family \notin {"unspec", "local"} THEN Error("EAI_ADDRFAMILY")
    ELSE LET One(t) == [ga_aistruct(c, Addr("local", "path")) EXCEPT !.socktype = t, !.clone = FALSE]
         IN  Returns(IF c.socktype = "any" THEN <<One("stream"), One("dgram")>>
                     ELSE <<One(c.socktype)>>)

\* err_quit("nsearch = %d").
Quits == Error("err_quit")

getaddrinfo(c, dns) ==
    LET searches == ga_nsearch(c)
        found    == FoldLeft(LAMBDA r, s :
                        IF r.err # "none" THEN r
                        ELSE LET more == Search(c, dns, s, Len(searches))
                             IN  IF more.err # "none" THEN more ELSE Returns(r.list \o more.list),
                        Returns(<<>>), searches)
    IN  IF ga_echeck(c) # "none" THEN Error(ga_echeck(c))
        ELSE IF c.host = "local" /\ c.serv = "path" THEN ga_unix(c)
        ELSE IF searches = <<>> THEN Quits
        ELSE IF found.err # "none" THEN found
        ELSE IF found.list = <<>> THEN Error("EAI_NONAME")
        ELSE IF c.serv = "none" THEN found
        ELSE ga_serv(c, found.list)

-----------------------------------------------------------------------------
(* libfree: one search.  (Every error before "aihead = NULL" goes to bad   *)
(* as well, where freeaddrinfo gets the uninitialized aihead: what happens *)
(* then is undefined, and left out here.)                                  *)

\* The family after an address written out has set it.
FamilyOf(c) ==
    IF c.family # "unspec" \/ c.host \notin {"v4", "v6"} THEN c.family
    ELSE IF c.host = "v4" THEN "inet" ELSE "inet6"

\* A name without a family is looked up for IPv4.
getaddrinfo_host(c, dns) ==
    CASE c.host = "none" /\ c.passive -> <<Addr(c.family, "any")>>
      [] c.host = "none" /\ ~c.passive ->
           <<Addr(IF c.family = "inet6" THEN "inet6" ELSE "inet", "loop")>>
      [] c.host = "v4"   -> <<Addr("inet", "host")>>
      [] c.host = "v6"   -> <<Addr("inet6", "host")>>
      [] c.host = "name" -> LookupMapped(dns, IF c.family = "inet6" THEN "inet6" ELSE "inet")

\* A number needs a socket type: without one it is a service name, unknown.
getaddrinfo_serv(c, list) ==
    LET types == IF c.serv = "port" THEN (IF c.socktype = "any" THEN <<>> ELSE <<c.socktype>>)
                 ELSE Served(c)
    IN  IF types = <<>> THEN Error(IF c.socktype = "any" THEN "EAI_NONAME" ELSE "EAI_SERVICE")
        ELSE Returns(PortsOf(types, list))

addrinfo_local(c) ==
    IF c.socktype = "any" THEN Error("EAI_SOCKTYPE")
    ELSE Returns(<<[ga_aistruct(c, Addr("local", "path")) EXCEPT !.clone = FALSE]>>)

libfree_getaddrinfo(c, dns) ==
    LET addrs == getaddrinfo_host(c, dns) IN
    IF ga_echeck(c) # "none" THEN Error(ga_echeck(c))
    ELSE IF c.host = "none" /\ c.passive
            /\ (c.family = "unspec" \/ (c.family = "local" /\ c.serv # "path"))
      THEN Error("EAI_ADDRFAMILY")
    ELSE IF c.host = "local" \/ c.serv = "path" THEN addrinfo_local(c)
    ELSE IF addrs = <<>> THEN Error("EAI_NONAME")
    ELSE IF FamilyOf(c) \notin {"unspec", addrs[1].family} THEN Error("EAI_ADDRFAMILY")
    ELSE IF c.serv = "none" THEN Returns(AiList(c, addrs))
    ELSE getaddrinfo_serv(c, AiList(c, addrs))

-----------------------------------------------------------------------------
(* The saved copy of libgai: aihead is set after the first checks; no      *)
(* search may fail; an address written out is entered by each search,      *)
(* whatever its family; and every address of a name gets an empty          *)
(* addrinfo{} before its own.                                              *)

EmptyAi == [addr |-> Addr("none", "none"), socktype |-> "none", clone |-> FALSE, port |-> "unset"]

saved_Search(c, dns, s, n) ==
    LET addrs == Hostent(dns, s, n) IN
    IF s.kind # "name" THEN Returns(AiList(c, <<Addr(s.kind, s.id)>>))
    ELSE IF addrs = <<>> THEN Error("EAI_NONAME")
    ELSE Returns(FlattenSeq([j \in 1..Len(addrs) |-> <<EmptyAi, ga_aistruct(c, addrs[j])>>]))

\* "we cannot tell socket type from service".
saved_ga_unix(c) ==
    IF c.socktype = "any" THEN Error("EAI_SOCKTYPE")
    ELSE Returns(<<[ga_aistruct(c, Addr("local", "path")) EXCEPT !.clone = FALSE]>>)

\* The canonical name of an address written out is read through hptr, unset.
saved_getaddrinfo(c, dns) ==
    LET searches == ga_nsearch(c)
        found    == FoldLeft(LAMBDA r, s :
                        IF r.err # "none" THEN r
                        ELSE LET more == saved_Search(c, dns, s, Len(searches))
                             IN  IF more.err # "none" THEN more ELSE Returns(r.list \o more.list),
                        Returns(<<>>), searches)
    IN  IF ga_echeck(c) # "none" THEN Error(ga_echeck(c))
        ELSE IF {c.host, c.serv} \in {{"local", "none"}, {"none", "path"}} THEN saved_ga_unix(c)
        ELSE IF searches = <<>> THEN Quits
        ELSE IF found.err # "none" THEN found
        ELSE IF c.canon /\ c.host \in {"v4", "v6"} THEN Error("undefined")
        ELSE IF c.serv = "none" THEN found
        ELSE getaddrinfo_serv(c, found.list)
=============================================================================
