------------------------------- MODULE UdpEcho -------------------------------
(***************************************************************************)
(* The UDP programs: clients that send lines and read replies, and the     *)
(* servers that echo or count what they receive.  The network loses,       *)
(* duplicates and reorders datagrams, other hosts may send to a client's   *)
(* port, and the server may be killed.  No program here has a timeout or a *)
(* sequence number.  prog and serv are the records of what the programs    *)
(* do.                                                                     *)
(***************************************************************************)
EXTENDS Naturals, FiniteSets, Sequences, Functions

CONSTANTS
    Clients,    \* client processes
    Nobody,     \* not a client
    Systems,    \* pairs: the program of each client, and the server
    Lines,      \* bound: lines each user types
    QSIZE,      \* size of the input queue of dgecho01
    MaxFaults,  \* bound: datagrams lost, duplicated or sent by other hosts
    MayDie      \* the server may be killed

ASSUME UdpAssumption ==
    /\ Nobody \notin Clients /\ IsFiniteSet(Clients)
    /\ Lines \in Nat /\ MaxFaults \in Nat /\ QSIZE \in Nat \ {0}
    /\ MayDie \in BOOLEAN

-----------------------------------------------------------------------------
(* The clients: whether the socket is connected, whether the sender of a   *)
(* reply is compared with the server, and what they send: all "lines", one *)
(* datagram, or a "flood" without reading replies.                         *)

Unchecked == [connect |-> FALSE, check |-> FALSE, sends |-> "lines"]
dg_cli          == [Unchecked EXCEPT !.check = TRUE]
dg_cli_connect  == [Unchecked EXCEPT !.connect = TRUE]
dg_cli_loop1    == [Unchecked EXCEPT !.sends = "flood"]
daytimeudpcli1  == [Unchecked EXCEPT !.sends = "one"]
udp_cli01       == dg_cli

lib_dg_cli      == Unchecked
dgcliaddr       == [Unchecked EXCEPT !.check = TRUE]
dgcliconnect    == [Unchecked EXCEPT !.connect = TRUE]
dgcliinetaddr   == Unchecked                     \* prints the address only
dgclibig        == [Unchecked EXCEPT !.sends = "one"]
dgcliloop1      == [Unchecked EXCEPT !.sends = "flood"]
dgcliloop3      == [Unchecked EXCEPT !.sends = "flood"]
sigio_dgcli01   == Unchecked
names_daytimeudpcli1 == [Unchecked EXCEPT !.sends = "one"]
daytimeudpcli2  == [Unchecked EXCEPT !.sends = "one", !.connect = TRUE]
daytimeudpcli3  == [Unchecked EXCEPT !.sends = "one"]            \* MSG_PEEK first
daytimeudpcli4  == [Unchecked EXCEPT !.sends = "one", !.connect = TRUE]
\* The main functions that open a socket for a dg_cli.
udpcli01  == lib_dg_cli
udpcli02  == lib_dg_cli
udpcli03  == lib_dg_cli
udpcli04  == dgcliaddr
udpcli05  == lib_dg_cli
udpcli06  == dgcliloop1
udpcli08  == dgcliconnect
udpcli10  == lib_dg_cli
unixdgcli01     == lib_dg_cli
ipopts_udpcli01 == lib_dg_cli
sigio_udpcli01  == lib_dg_cli

(* The servers: "echo" each datagram, "count" them, or echo them from a    *)
(* queue that a SIGIO handler fills; intr is what SIGINT does to them.     *)

Echo  == [does |-> "echo", intr |-> "kill"]
Count == [does |-> "count", intr |-> "exit"]
dg_ehco        == Echo
dg_echo_loop1  == [Count EXCEPT !.intr = "return"]
dg_echo_loop2  == [Count EXCEPT !.intr = "return"]
daytimeudpsrv2 == Echo
udp_serv01     == dg_ehco

dg_echo        == Echo
rtt_dg_echo    == Echo
dgecholoop1    == Count
dgecholoop2    == Count
dgechoaddr     == Echo
dgecho01       == [Echo EXCEPT !.does = "sigio"]
mydg_echo      == Echo                           \* udpserv03, one for each address
udpserv04      == Echo
names_daytimeudpsrv2 == Echo
names_daytimeudpsrv3 == Echo
udpserv01       == dg_echo
udpserv06       == dgecholoop1
udpserv07       == dgecholoop2
advio_udpserv01 == dgechoaddr
ipopts_udpserv01 == dg_echo
mcast_udpserv01 == dg_echo
unixdgserv01    == dg_echo
sigio_udpserv01 == dgecho01

AllClients ==
    {dg_cli, dg_cli_connect, dg_cli_loop1, daytimeudpcli1, udp_cli01, lib_dg_cli, dgcliaddr,
     dgcliconnect, dgcliinetaddr, dgclibig, dgcliloop1, dgcliloop3, sigio_dgcli01,
     names_daytimeudpcli1, daytimeudpcli2, daytimeudpcli3, daytimeudpcli4, udpcli01,
     udpcli02, udpcli03, udpcli04, udpcli05, udpcli06, udpcli08, udpcli10, unixdgcli01,
     ipopts_udpcli01, sigio_udpcli01}
AllServers ==
    {dg_ehco, dg_echo_loop1, dg_echo_loop2, daytimeudpsrv2, udp_serv01, dg_echo, rtt_dg_echo,
     dgecholoop1, dgecholoop2, dgechoaddr, dgecho01, mydg_echo, udpserv04,
     names_daytimeudpsrv2, names_daytimeudpsrv3, udpserv01, udpserv06, udpserv07,
     advio_udpserv01, ipopts_udpserv01, mcast_udpserv01, unixdgserv01, sigio_udpserv01}

\* No other programs are meant.
ASSUME SystemsAssumption == Systems \subseteq [Clients -> AllClients] \X AllServers

-----------------------------------------------------------------------------
\* A datagram of the service is the line of a user, whoever it is sent to.
Dgrams == Clients \X (1..Lines)

VARIABLES
    prog,   \* per client: its program
    serv,   \* the server's program
    cpc,    \* per client: "fgets", "recv", or how it ended
    sent,   \* per client: lines read from fp and sent
    out,    \* per client: what it wrote to stdout
    err,    \* per client: an error is pending on its (connected) socket
    spc,    \* the server: "recv", "send", "count", or "dead"; dgecho01:
            \* "start", "async", "nonblock", "suspend" (SIGIO blocked), "send",
            \* "sent"
    mesg,   \* its mesg[], one datagram or empty
    peer,   \* *pcliaddr
    count, told,             \* datagrams counted; the number last printed
    dg, iget, iput, nqueue,  \* the queue of dgecho01
    sigio, inHandler,        \* SIGIO is pending; sig_io runs
    taken, answered,         \* datagrams the server has read and answered
    reqs,   \* copies of each datagram on the way to the server
    reps,   \* per client, copies of each datagram on the way to it
    strays, \* per client, datagrams from elsewhere on the way to it
    lost, dups, strayed  \* per client: what went wrong so far

clientVars == <<prog, cpc, sent, out>>
ringVars   == <<dg, iget, iput, nqueue, inHandler>>
countVars  == <<count, told>>
serverVars == <<serv, spc, mesg, peer, count, told, dg, iget, iput, nqueue, inHandler, taken, answered>>
faultVars  == <<lost, dups, strayed>>
netVars    == <<reqs, reps, strays, err, sigio>>
vars       == <<clientVars, serverVars, netVars, faultVars>>

TypeOK ==
    /\ <<prog, serv>> \in Systems
    /\ cpc \in [Clients -> {"fgets", "recv", "done", "err_sys"}]
    /\ sent \in [Clients -> 0..Lines]
    /\ out \in [Clients -> Seq(Clients \X (0..Lines))]
    /\ \A c \in Clients : Len(out[c]) <= sent[c]
    /\ err \in [Clients -> BOOLEAN]
    /\ spc \in {"recv", "send", "count", "start", "async", "nonblock", "suspend", "sent", "dead"}
    /\ count \in Nat /\ told \in Nat /\ taken \in Nat /\ answered \in Nat
    /\ dg \in [0..(QSIZE - 1) -> Dgrams \cup {<<>>}]
    /\ iget \in 0..(QSIZE - 1) /\ iput \in 0..(QSIZE - 1) /\ nqueue \in 0..QSIZE
    /\ sigio \in BOOLEAN /\ inHandler \in BOOLEAN
    /\ mesg \in Dgrams \cup {<<>>} /\ peer \in Clients \cup {Nobody}
    /\ reqs \in [Dgrams -> Nat] /\ reps \in [Clients \X Dgrams -> Nat]
    /\ strays \in [Clients -> Nat]
    /\ lost \in [Clients -> Nat] /\ dups \in [Clients -> Nat] /\ strayed \in [Clients -> Nat]

\* The server's socket is bound: datagrams arrive.
Init ==
    /\ \E sys \in Systems : prog = sys[1] /\ serv = sys[2]
    /\ cpc = [c \in Clients |-> "fgets"]
    /\ sent = [c \in Clients |-> 0] /\ out = [c \in Clients |-> <<>>]
    /\ err = [c \in Clients |-> FALSE]
    /\ spc = IF serv.does = "sigio" THEN "start" ELSE "recv"
    /\ mesg = <<>> /\ peer = Nobody
    /\ count = 0 /\ told = 0 /\ taken = 0 /\ answered = 0
    /\ dg = [i \in 0..(QSIZE - 1) |-> <<>>] /\ iget = 0 /\ iput = 0 /\ nqueue = 0
    /\ sigio = FALSE /\ inHandler = FALSE
    /\ reqs = [d \in Dgrams |-> 0] /\ reps = [p \in Clients \X Dgrams |-> 0]
    /\ strays = [c \in Clients |-> 0]
    /\ lost = [c \in Clients |-> 0] /\ dups = [c \in Clients |-> 0]
    /\ strayed = [c \in Clients |-> 0]

-----------------------------------------------------------------------------
(* The clients. *)

Connected(c) == prog[c].connect

\* The kernel sends SIGIO when a datagram arrives, once FIOASYNC is set.
Arrives == sigio' = (serv.does = "sigio" /\ spc # "start")

\* Fgets, then Sendto or Write; the flood does not wait.
SendLine(c) ==
    /\ cpc[c] = "fgets" /\ sent[c] < Lines /\ ~err[c]
    /\ sent' = [sent EXCEPT ![c] = @ + 1]
    /\ reqs' = [reqs EXCEPT ![<<c, sent'[c]>>] = @ + 1]
    /\ prog[c].sends = "one" => sent[c] = 0
    /\ cpc' = [cpc EXCEPT ![c] = IF prog[c].sends = "flood" THEN "fgets" ELSE "recv"]
    /\ Arrives
    /\ UNCHANGED <<prog, out, reps, strays, err, serverVars, faultVars>>

\* Fgets returns NULL.
FgetsEof(c) ==
    /\ cpc[c] = "fgets"
    /\ cpc' = [cpc EXCEPT ![c] = "done"]
    /\ UNCHANGED <<prog, sent, out, serverVars, netVars, faultVars>>

\* Recvfrom or Read returns a datagram of the server: Fputs.
Receive(c) ==
    /\ cpc[c] = "recv" /\ ~err[c]
    /\ \E d \in Dgrams :
          /\ reps[<<c, d>>] > 0
          /\ reps' = [reps EXCEPT ![<<c, d>>] = @ - 1]
          /\ out' = [out EXCEPT ![c] = Append(@, d)]
    /\ cpc' = [cpc EXCEPT ![c] = "fgets"]
    /\ UNCHANGED <<prog, sent, reqs, strays, err, sigio, serverVars, faultVars>>

\* A datagram from elsewhere.  dg_cli: "(ignored)", and continue, to the next
\* Fgets; the programs that do not look print it as the reply.
Ignore(c) ==
    /\ cpc[c] = "recv" /\ strays[c] > 0
    /\ strays' = [strays EXCEPT ![c] = @ - 1]
    /\ out' = IF prog[c].check THEN out ELSE [out EXCEPT ![c] = Append(@, <<c, 0>>)]
    /\ cpc' = [cpc EXCEPT ![c] = "fgets"]
    /\ UNCHANGED <<prog, sent, reqs, reps, err, sigio, serverVars, faultVars>>

\* The pending ECONNREFUSED is returned to Read or Write: err_sys.
Refused(c) ==
    /\ cpc[c] \in {"fgets", "recv"} /\ err[c]
    /\ cpc' = [cpc EXCEPT ![c] = "err_sys"]
    /\ UNCHANGED <<prog, sent, out, serverVars, netVars, faultVars>>

Client(c) == SendLine(c) \/ Receive(c) \/ Ignore(c) \/ Refused(c)

-----------------------------------------------------------------------------
(* The servers that call Recvfrom: dg_ehco, dg_echo_loop1. *)

\* Mutant: the buffer of the last round is sent.
MesgAfterKept(d) == IF mesg = <<>> THEN d ELSE mesg

PeerAfter(d) == d[1]
MesgAfter(d) == d

Recvfrom ==
    /\ spc = "recv"
    /\ \E d \in Dgrams :
          /\ reqs[d] > 0
          /\ reqs' = [reqs EXCEPT ![d] = @ - 1]
          /\ mesg' = MesgAfter(d) /\ peer' = PeerAfter(d)
    /\ spc' = IF serv.does = "count" THEN "count" ELSE "send"
    /\ taken' = taken + 1
    /\ UNCHANGED <<serv, countVars, ringVars, answered, reps, strays, err, sigio, clientVars, faultVars>>

Sendto ==
    /\ spc = "send" /\ serv.does = "echo"
    /\ reps' = [reps EXCEPT ![<<peer, mesg>>] = @ + 1]
    /\ answered' = answered + 1
    /\ spc' = "recv"
    /\ UNCHANGED <<serv, mesg, peer, countVars, ringVars, taken, reqs, strays, err, sigio, clientVars, faultVars>>

CountedNot == count  \* mutant: a reply that is not counted
Counted    == count + 1

CountOne ==
    /\ spc = "count"
    /\ count' = Counted
    /\ spc' = "recv"
    /\ UNCHANGED <<serv, mesg, peer, told, ringVars, taken, answered, netVars, clientVars, faultVars>>

-----------------------------------------------------------------------------
(* dgecho01: a queue filled by the SIGIO handler. *)

\* The start: Signal(SIGIO), F_SETOWN and FIOASYNC ...
Async ==
    /\ spc = "start"
    /\ spc' = "async"
    /\ UNCHANGED <<serv, mesg, peer, countVars, ringVars, taken, answered, netVars, clientVars, faultVars>>

\* ... then FIONBIO: until here recvfrom blocks, in the handler too ...
Nonblock ==
    /\ spc = "async" /\ ~inHandler
    /\ spc' = "nonblock"
    /\ UNCHANGED <<serv, mesg, peer, countVars, ringVars, taken, answered, netVars, clientVars, faultVars>>

\* ... and SIGIO is blocked for the main loop.
Block ==
    /\ spc = "nonblock" /\ ~inHandler
    /\ spc' = "suspend"
    /\ UNCHANGED <<serv, mesg, peer, countVars, ringVars, taken, answered, netVars, clientVars, faultVars>>

\* while (nqueue == 0) sigsuspend(&zeromask); then unblock SIGIO.
Unblock ==
    /\ spc = "suspend" /\ ~inHandler /\ nqueue > 0
    /\ spc' = "send"
    /\ UNCHANGED <<serv, mesg, peer, countVars, ringVars, taken, answered, netVars, clientVars, faultVars>>

\* Sendto(dg[iget]) and ++iget, with SIGIO unblocked.
SendtoQueued ==
    /\ spc = "send" /\ serv.does = "sigio" /\ ~inHandler
    /\ reps' = [reps EXCEPT ![<<dg[iget][1], dg[iget]>>] = @ + 1]
    /\ iget' = (iget + 1) % QSIZE
    /\ answered' = answered + 1
    /\ spc' = "sent"
    /\ UNCHANGED <<serv, mesg, peer, countVars, dg, iput, nqueue, inHandler, taken,
                   reqs, strays, err, sigio, clientVars, faultVars>>

\* Block SIGIO, nqueue--.
Dequeue ==
    /\ spc = "sent" /\ ~inHandler
    /\ nqueue' = nqueue - 1
    /\ spc' = "suspend"
    /\ UNCHANGED <<serv, mesg, peer, countVars, dg, iget, iput, inHandler, taken, answered,
                   netVars, clientVars, faultVars>>

\* Mutant: SIGIO stays blocked while the main loop waits (pause for sigsuspend).
UnblockedAlways == spc \in {"async", "nonblock", "send", "sent"}

\* SIGIO is delivered in sigsuspend and while it is unblocked.
Unblocked ==
    \/ spc \in {"async", "nonblock", "send", "sent"}
    \/ spc = "suspend" /\ nqueue = 0

SigIo ==
    /\ sigio /\ ~inHandler /\ Unblocked
    /\ inHandler' = TRUE /\ sigio' = FALSE
    /\ UNCHANGED <<serv, spc, mesg, peer, countVars, dg, iget, iput, nqueue, taken, answered,
                   reqs, reps, strays, err, clientVars, faultVars>>

FullOver == nqueue > QSIZE  \* mutant: one datagram too many
Full     == nqueue >= QSIZE

\* One recvfrom of the handler.
QueueOne ==
    /\ inHandler /\ ~Full
    /\ \E d \in Dgrams :
          /\ reqs[d] > 0
          /\ reqs' = [reqs EXCEPT ![d] = @ - 1]
          /\ dg' = [dg EXCEPT ![iput] = d]
    /\ iput' = (iput + 1) % QSIZE /\ nqueue' = nqueue + 1
    /\ taken' = taken + 1
    /\ UNCHANGED <<serv, spc, mesg, peer, countVars, iget, inHandler, answered,
                   reps, strays, err, sigio, clientVars, faultVars>>

\* EWOULDBLOCK: no more queued to read.
QueueEnd ==
    /\ inHandler /\ spc # "async"
    /\ ~Full /\ \A d \in Dgrams : reqs[d] = 0
    /\ inHandler' = FALSE
    /\ UNCHANGED <<serv, spc, mesg, peer, countVars, dg, iget, iput, nqueue, taken, answered,
                   netVars, clientVars, faultVars>>

\* The slots of the queue that have not been sent.
Queued == {(iget + j) % QSIZE : j \in 0..((IF spc = "sent" THEN nqueue - 1 ELSE nqueue) - 1)}

\* What the server has read from a client and not answered.
Unanswered(c) ==
    IF serv.does = "sigio" THEN Cardinality({i \in Queued : dg[i][1] = c})
    ELSE IF spc = "send" /\ peer = c THEN 1 ELSE 0

\* The server ends; what it has not answered is lost, and so is what had
\* arrived in its socket's buffer.
Ends ==
    /\ spc' = "dead" /\ inHandler' = FALSE
    /\ \E arrived \in SUBSET {d \in Dgrams : reqs[d] > 0} :
          /\ reqs' = [d \in Dgrams |-> IF d \in arrived THEN 0 ELSE reqs[d]]
          /\ lost' = [c \in Clients |->
                         lost[c] + Unanswered(c) + Cardinality({d \in arrived : d[1] = c})]
    /\ UNCHANGED <<serv, mesg, peer, count, dg, iget, iput, nqueue, taken, answered,
                   dups, strayed, reps, strays, err, sigio, clientVars>>

\* err_quit("receive overflow"), looked at before EWOULDBLOCK.
Overflow == inHandler /\ Full /\ Ends /\ told' = told

Server ==
    \/ Recvfrom \/ Sendto \/ CountOne \/ Async \/ Nonblock \/ Block \/ Unblock \/ SendtoQueued \/ Dequeue
    \/ SigIo \/ QueueOne \/ QueueEnd \/ Overflow

\* recvfrom_int, between any two instructions: printf, and return or exit(0).
recvfrom_int ==
    /\ serv.does = "count" /\ spc # "dead" /\ told # count
    /\ told' = count
    /\ IF serv.intr = "exit" THEN Ends
       ELSE UNCHANGED <<serv, spc, mesg, peer, count, ringVars, taken, answered,
                        netVars, clientVars, faultVars>>

Die == MayDie /\ spc # "dead" /\ Ends /\ told' = told

-----------------------------------------------------------------------------
(* The network. *)

\* Whether the network may do one more thing wrong.
MayFail == SumFunction(lost) + SumFunction(dups) + SumFunction(strayed) < MaxFaults

\* A datagram for a port nobody has: an ICMP error comes back, which the
\* kernel reports to a connected socket only.
Refuse ==
    /\ spc = "dead"
    /\ \E d \in Dgrams :
          /\ reqs[d] > 0
          /\ reqs' = [reqs EXCEPT ![d] = @ - 1]
          /\ IF Connected(d[1])
               THEN err' = [err EXCEPT ![d[1]] = TRUE] /\ lost' = lost
               ELSE lost' = [lost EXCEPT ![d[1]] = @ + 1] /\ err' = err
    /\ UNCHANGED <<reps, strays, sigio, dups, strayed, clientVars, serverVars>>

LoseRequest(d) ==
    /\ reqs[d] > 0 /\ MayFail
    /\ reqs' = [reqs EXCEPT ![d] = @ - 1]
    /\ lost' = [lost EXCEPT ![d[1]] = @ + 1]
    /\ UNCHANGED <<reps, strays, err, sigio, dups, strayed, clientVars, serverVars>>

LoseReply(c, d) ==
    /\ reps[<<c, d>>] > 0 /\ MayFail
    /\ reps' = [reps EXCEPT ![<<c, d>>] = @ - 1]
    /\ lost' = [lost EXCEPT ![c] = @ + 1]
    /\ UNCHANGED <<reqs, strays, err, sigio, dups, strayed, clientVars, serverVars>>

Duplicate(d) ==
    /\ reqs[d] > 0 /\ MayFail
    /\ reqs' = [reqs EXCEPT ![d] = @ + 1]
    /\ dups' = [dups EXCEPT ![d[1]] = @ + 1]
    /\ Arrives
    /\ UNCHANGED <<reps, strays, err, lost, strayed, clientVars, serverVars>>

\* Some other host sends to the client's port; the kernel does not let that
\* through to a connected socket.
Stray(c) ==
    /\ ~Connected(c) /\ MayFail /\ cpc[c] \in {"fgets", "recv"}
    /\ strays' = [strays EXCEPT ![c] = @ + 1]
    /\ strayed' = [strayed EXCEPT ![c] = @ + 1]
    /\ UNCHANGED <<reqs, reps, err, sigio, lost, dups, clientVars, serverVars>>

Faults ==
    \/ \E d \in Dgrams : LoseRequest(d) \/ Duplicate(d) \/ \E c \in Clients : LoseReply(c, d)
    \/ \E c \in Clients : Stray(c)

Next ==
    \/ \E c \in Clients : Client(c) \/ FgetsEof(c)
    \/ Server \/ recvfrom_int \/ Die \/ Refuse \/ Faults

Spec == Init /\ [][Next]_vars

\* The processes run and datagrams that are not lost arrive; users need not
\* type.
FairSpec ==
    /\ Spec /\ WF_vars(Server) /\ WF_vars(Refuse)
    /\ \A c \in Clients : WF_vars((Receive(c) \/ Refused(c)) /\ cpc[c] = "recv")

-----------------------------------------------------------------------------
(* Properties. *)

\* The j-th line a client prints is the j-th line it sent: loss alone never
\* puts dg_cli out of step, nor do other clients of the server, the order in
\* which dgecho01's handler and main loop share its queue or, with a connected
\* socket, other hosts.  (A duplicate does, and so does a datagram that dg_cli
\* ignores, because it does not go back to Recvfrom.)
InStep ==
    \A c \in Clients : dups[c] = 0 /\ strayed[c] = 0
        => \A j \in 1..Len(out[c]) : out[c][j] = <<c, j>>

\* dgecho01 waits in its first sigsuspend with datagrams in its socket: they
\* came before FIOASYNC, without a SIGIO.
Overlooked ==
    /\ serv.does = "sigio" /\ spc = "suspend" /\ taken = 0
    /\ nqueue = 0 /\ ~sigio /\ ~inHandler
    /\ \E d \in Dgrams : reqs[d] > 0

\* Its handler is in a recvfrom that blocks: SIGIO came before FIONBIO.
Stuck == serv.does = "sigio" /\ spc = "async" /\ inHandler /\ \A d \in Dgrams : reqs[d] = 0

\* A client that waits gets something, unless a datagram of its own is lost.
\* For dgecho01: no datagram is left in the socket or in the queue because
\* SIGIO came between the test of nqueue and sigsuspend; the server may stand
\* still only in the two states its start can leave it in, for as long as no
\* other datagram comes.
Answered ==
    \A c \in Clients :
        cpc[c] = "recv" ~> \/ cpc[c] # "recv" \/ lost[c] > 0 \/ serv.does = "count"
                          \/ [](Overlooked \/ Stuck)

\* "received %d datagrams": whenever SIGINT comes, the number printed is at
\* most one short of the datagrams read, and never too high.
CountTold == serv.does = "count" => count \in {taken - 1, taken} /\ told <= taken

\* The queue of dgecho01: nqueue is what has been read and not answered, with
\* the one just sent until SIGIO is blocked again; sig_io never takes more
\* than there are slots, so it never writes over one the main loop has to send.
QueueKept ==
    serv.does = "sigio" /\ spc # "dead" =>
        /\ nqueue = (taken - answered) + (IF spc = "sent" THEN 1 ELSE 0)
        /\ taken - answered <= QSIZE
        /\ spc # "sent" => iput = (iget + nqueue) % QSIZE
=============================================================================
