----------------------------- MODULE ForkServer -----------------------------
(***************************************************************************)
(* The servers that accept one connection after the other and serve each   *)
(* in a child, in a thread or themselves.  They differ in the accept they  *)
(* call, in what happens to children that have terminated, and in who is   *)
(* hit when serving a client fails.  The SIGCHLD handler interrupts the    *)
(* parent anywhere, and several SIGCHLDs that arrive while one is pending  *)
(* or being handled count once.  prog, chosen in Init, is the record of    *)
(* what a server does.                                                     *)
(***************************************************************************)
EXTENDS Naturals, FiniteSets

CONSTANTS
    Conns,       \* connections, also the processes that serve them
    NoConn,      \* not a connection
    Progs,       \* the programs considered
    MaxProcs,    \* children, zombies included, the system lets the user have
    MaxFds,      \* connected descriptors the server may have (RLIMIT_NOFILE)
    MaxDgrams    \* bound: datagrams waiting for udp_serv_select01

ASSUME ForkAssumption ==
    /\ NoConn \notin Conns /\ IsFiniteSet(Conns)
    /\ MaxProcs \in Nat /\ MaxFds \in Nat \ {0} /\ MaxDgrams \in Nat

-----------------------------------------------------------------------------
(* The servers.                                                            *)
(*   accept  "Accept", the wrapper that goes on after ECONNABORTED;        *)
(*           "accept", whose caller goes on after EINTR; "select" on the   *)
(*           listening and a UDP socket, then Accept; "peeloff" of the     *)
(*           SCTP association a message came from                          *)
(*   chld    the SIGCHLD handler: "no", one "wait", or the "waitpid" loop  *)
(*   serve   in a "fork"ed child, in a "thread", or in the server itself:  *)
(*           "request"s until the client closes, or one "reply"            *)
(*   web     the client is served by web_child, whose err_quit ends the    *)
(*           process it runs in when the number in a request is no good    *)

Accepts     == [accept |-> "Accept", chld |-> "no", serve |-> "fork", web |-> FALSE]
Concurrent  == [accept |-> "accept", chld |-> "waitpid", serve |-> "fork", web |-> FALSE]
Threaded    == [Accepts EXCEPT !.serve = "thread"]
Daytime     == [Accepts EXCEPT !.serve = "reply"]

tcp_serv01        == Accepts
tcp_serv04        == Concurrent
model_serv01      == [Concurrent EXCEPT !.chld = "no", !.web = TRUE]  \* Signal is commented out
udp_serv_select01 == [Concurrent EXCEPT !.accept = "select"]
daytime_tcp_srv   == Daytime
daytime_tcp_srv1  == Daytime
daytimetcpsrv1    == Daytime
daytimetcpsrv2    == Daytime

\* The imported servers; a name that occurs twice has its directory in front.
tcpserv01         == Accepts
tcpserv02         == [Accepts EXCEPT !.chld = "wait"]
tcpserv03         == [Concurrent EXCEPT !.chld = "wait"]
tcpserv04         == Concurrent
tcpserv08         == Concurrent
tcpserv09         == Concurrent
advio_tcpserv02   == Concurrent
oob_tcpserv02     == Concurrent
unixstrserv01     == Concurrent
unixstrserv02     == Concurrent
ipopts_tcpserv01  == Concurrent
udpservselect01   == [Concurrent EXCEPT !.accept = "select"]
sctpserv_fork     == [Accepts EXCEPT !.accept = "peeloff"]
serv00            == [Accepts EXCEPT !.serve = "request", !.web = TRUE]
serv01            == [Concurrent EXCEPT !.web = TRUE]
serv06            == [Threaded EXCEPT !.web = TRUE]
threads_tcpserv01 == Threaded
threads_tcpserv02 == Threaded
intro_daytimetcpsrv   == Daytime
intro_daytimetcpsrv1  == Daytime
intro_daytimetcpsrv2  == Daytime
intro_daytimetcpsrv3  == Daytime
intro_daytimetcpsrvv6 == Daytime
names_daytimetcpsrv1  == Daytime
names_daytimetcpsrv2  == Daytime
names_daytimetcpsrv3  == Daytime
names_daytimetcpsrv4  == Daytime
inetd_daytimetcpsrv2  == Daytime
unixdomain_daytimetcpsrv2 == Daytime

AllServers ==
    {tcp_serv01, tcp_serv04, model_serv01, udp_serv_select01, daytime_tcp_srv,
     daytime_tcp_srv1, daytimetcpsrv1, daytimetcpsrv2, tcpserv01, tcpserv02, tcpserv03,
     tcpserv04, tcpserv08, tcpserv09, advio_tcpserv02, oob_tcpserv02, unixstrserv01,
     unixstrserv02, ipopts_tcpserv01, udpservselect01, sctpserv_fork, serv00,
     serv01, serv06, threads_tcpserv01, threads_tcpserv02, intro_daytimetcpsrv,
     intro_daytimetcpsrv1, intro_daytimetcpsrv2, intro_daytimetcpsrv3, intro_daytimetcpsrvv6,
     names_daytimetcpsrv1, names_daytimetcpsrv2, names_daytimetcpsrv3, names_daytimetcpsrv4,
     inetd_daytimetcpsrv2, unixdomain_daytimetcpsrv2}

\* No other programs are meant.
ASSUME ProgsAssumption == Progs \subseteq AllServers

-----------------------------------------------------------------------------
VARIABLES
    prog,    \* the program that runs
    pc,      \* the parent's next call, or how it ended
    rset,    \* what select left in rset (udp_serv_select01)
    connfd,  \* the connection the parent has just accepted
    intr,    \* the call was interrupted by the handler
    hpc,     \* the handler: "idle" or in its waitpid loop
    sigpend, \* SIGCHLD is pending
    state,   \* per connection: "idle", "queued" or "accepted"
    closed,  \* connections whose client has closed its end
    udpq,    \* datagrams waiting at udpfd
    holders, \* per connection: who has a descriptor for it
    proc     \* per child: "none", "run" or "zombie"

parentVars == <<pc, rset, connfd>>
sigVars    == <<intr, hpc, sigpend>>
netVars    == <<state, closed, udpq>>
vars       == <<prog, parentVars, sigVars, netVars, holders, proc>>

Parent == NoConn   \* the parent, as a holder of descriptors
Ends   == {"accept_error", "fork_error", "serve_error", "sctp_error"}

CatchesChld == prog.chld # "no"
Selects     == prog.accept = "select"
Wrapped     == prog.accept \in {"Accept", "select"}

\* The top of the parent's loop.
LoopHead == IF Selects THEN "select" ELSE "accept"

TypeOK ==
    /\ prog \in Progs
    /\ pc \in {"select", "accept", "fork", "serve", "close", "recvfrom"} \cup Ends
    /\ rset \subseteq {"listenfd", "udpfd"} /\ udpq \in 0..MaxDgrams
    /\ connfd \in IF pc \in {"fork", "serve", "close"} THEN Conns ELSE Conns \cup {NoConn}
    /\ intr \in BOOLEAN /\ hpc \in {"idle", "waitpid"} /\ sigpend \in BOOLEAN
    /\ state \in [Conns -> {"idle", "queued", "accepted"}]
    /\ closed \subseteq Conns
    /\ holders \in [Conns -> SUBSET (Conns \cup {Parent})]
    /\ proc \in [Conns -> {"none", "run", "zombie"}]

Init ==
    /\ prog \in Progs
    /\ pc = LoopHead /\ rset = {} /\ connfd = NoConn /\ udpq = 0
    /\ intr = FALSE /\ hpc = "idle" /\ sigpend = FALSE
    /\ state = [c \in Conns |-> "idle"] /\ closed = {}
    /\ holders = [c \in Conns |-> {}]
    /\ proc = [c \in Conns |-> "none"]

-----------------------------------------------------------------------------
(* The parent.  It does not run while the handler does. *)

Runs(where) == hpc = "idle" /\ pc = where

\* udp_serv_select01: select blocks until one of the two is readable.
Select ==
    /\ Runs("select") /\ ~intr
    /\ rset' = {fd \in {"listenfd", "udpfd"} :
                  IF fd = "udpfd" THEN udpq > 0 ELSE \E c \in Conns : state[c] = "queued"}
    /\ rset' # {}
    /\ pc' = IF "listenfd" \in rset' THEN "accept" ELSE "recvfrom"
    /\ UNCHANGED <<prog, connfd, sigVars, netVars, holders, proc>>

\* The connected descriptors of the process.
Held == {c \in Conns : Parent \in holders[c]}

Accept(c) ==
    /\ Runs("accept") /\ ~intr /\ state[c] = "queued" /\ Cardinality(Held) < MaxFds
    /\ state' = [state EXCEPT ![c] = "accepted"]
    /\ holders' = [holders EXCEPT ![c] = {Parent}]
    /\ connfd' = c /\ pc' = "fork"
    /\ UNCHANGED <<prog, rset, sigVars, closed, udpq, proc>>

\* continue where EINTR is looked for: around accept and around select, but
\* not in the wrapper Accept.
AfterIntr == IF Wrapped /\ pc = "accept" THEN "accept_error" ELSE LoopHead

Interrupted ==
    /\ Runs("accept") \/ Runs("select")
    /\ intr
    /\ intr' = FALSE
    /\ pc' = AfterIntr
    /\ UNCHANGED <<prog, rset, connfd, hpc, sigpend, netVars, holders, proc>>

\* EMFILE: accept's callers and the wrapper call err_sys.
AcceptFails ==
    /\ Runs("accept") /\ ~intr /\ Cardinality(Held) >= MaxFds
    /\ pc' = "accept_error"
    /\ UNCHANGED <<prog, rset, connfd, sigVars, netVars, holders, proc>>

\* ECONNABORTED: the wrapper goes back to accept, accept's callers only look
\* for EINTR.  sctpserv_fork goes on when sctp_peeloff fails, but before it
\* comes to that, Sctp_recvmsg or Sctp_sendmsg may end it.
AfterAbort ==
    CASE prog.accept = "accept"  -> {"accept_error"}
      [] prog.accept = "peeloff" -> {"accept", "sctp_error"}
      [] OTHER -> {"accept"}

\* The client aborted the connection before it was accepted.
AcceptAborted(c) ==
    /\ Runs("accept") /\ ~intr /\ state[c] = "queued"
    /\ state' = [state EXCEPT ![c] = "idle"]
    /\ closed' = closed \ {c}
    /\ pc' \in AfterAbort
    /\ UNCHANGED <<prog, rset, connfd, udpq, sigVars, holders, proc>>

Procs == {c \in Conns : proc[c] # "none"}

\* The child gets a copy of every descriptor the parent has.
Fork ==
    /\ Runs("fork") /\ prog.serve = "fork" /\ Cardinality(Procs) < MaxProcs
    /\ proc' = [proc EXCEPT ![connfd] = "run"]
    /\ holders' = [c \in Conns |-> IF Parent \in holders[c]
                                   THEN holders[c] \cup {connfd} ELSE holders[c]]
    /\ pc' = "close"
    /\ UNCHANGED <<prog, rset, connfd, sigVars, netVars>>

\* Pthread_create: the thread uses the descriptor of the process.
CreateThread ==
    /\ Runs("fork") /\ prog.serve = "thread" /\ Cardinality(Procs) < MaxProcs
    /\ proc' = [proc EXCEPT ![connfd] = "run"]
    /\ pc' = LoopHead /\ connfd' = NoConn
    /\ UNCHANGED <<prog, rset, sigVars, netVars, holders>>

\* Fork and Pthread_create end the process; sctpserv_fork calls fork and
\* takes its failure for the parent's branch.
ForkError ==
    /\ Runs("fork") /\ prog.serve \in {"fork", "thread"} /\ Cardinality(Procs) >= MaxProcs
    /\ pc' = IF prog.accept = "peeloff" THEN "close" ELSE "fork_error"
    /\ UNCHANGED <<prog, rset, connfd, sigVars, netVars, holders, proc>>

ServeItself ==
    /\ Runs("fork") /\ prog.serve \in {"request", "reply"}
    /\ pc' = "serve"
    /\ UNCHANGED <<prog, rset, connfd, sigVars, netVars, holders, proc>>

\* web_child returns when the client has closed; a Write of the time of day
\* does not wait for the client.
Served ==
    /\ Runs("serve") /\ (prog.serve = "request" => connfd \in closed)
    /\ pc' = "close"
    /\ UNCHANGED <<prog, rset, connfd, sigVars, netVars, holders, proc>>

\* Serving c may end the process: its client has reset the connection and
\* Readline, Writen or Write fail, or it is still connected and asks
\* web_child for no byte or for more than MAXN.
MayFail(c) == c \in closed \/ prog.web

\* Here the process is the whole server.
ServeFails ==
    /\ Runs("serve") /\ MayFail(connfd)
    /\ pc' = "serve_error"
    /\ UNCHANGED <<prog, rset, connfd, sigVars, netVars, holders, proc>>

AfterCloseTop == LoopHead  \* mutant: the second FD_ISSET is an else branch

\* On to the second FD_ISSET, or back to the top.
AfterClose == IF Selects /\ "udpfd" \in rset THEN "recvfrom" ELSE LoopHead

HoldersLeak == holders  \* mutant: the parent keeps connfd
HoldersLeft == [holders EXCEPT ![connfd] = @ \ {Parent}]

CloseConnfd ==
    /\ Runs("close")
    /\ holders' = HoldersLeft
    /\ pc' = AfterClose /\ connfd' = NoConn
    /\ UNCHANGED <<prog, rset, sigVars, netVars, proc>>

\* Recvfrom and Sendto.
Recvfrom ==
    /\ Runs("recvfrom") /\ udpq > 0
    /\ udpq' = udpq - 1
    /\ pc' = "select"
    /\ UNCHANGED <<prog, rset, connfd, sigVars, state, closed, holders, proc>>

-----------------------------------------------------------------------------
(* sig_chld_wait_pid. *)

\* The signal is delivered: it is no longer pending, and blocked until the
\* handler returns.
Deliver ==
    /\ sigpend /\ hpc = "idle" /\ pc \notin Ends
    /\ hpc' = "waitpid" /\ sigpend' = FALSE
    /\ UNCHANGED <<prog, intr, parentVars, netVars, holders, proc>>

AfterWaitOnce == "idle"  \* mutant: sig_chld_wait, one wait per signal
AfterWait     == IF prog.chld = "wait" THEN "idle" ELSE "waitpid"

\* select returns EINTR after the handler; so does accept on systems without
\* SA_RESTART, which Signal asks for.
IntrAfter == {intr, (pc \in {"select", "accept"})}

WaitPid(c) ==
    /\ hpc = "waitpid" /\ proc[c] = "zombie"
    /\ proc' = [proc EXCEPT ![c] = "none"]
    /\ hpc' = AfterWait
    /\ intr' \in IF hpc' = "idle" THEN IntrAfter ELSE {intr}
    /\ UNCHANGED <<prog, sigpend, parentVars, netVars, holders>>

\* Mutant: waitpid without WNOHANG waits for the children that run.
NoMoreBlocks == prog.chld = "waitpid" /\ \A c \in Conns : proc[c] = "none"
NoMore       == prog.chld = "waitpid" /\ \A c \in Conns : proc[c] # "zombie"

\* waitpid with WNOHANG returns 0 or -1.
HandlerReturns ==
    /\ hpc = "waitpid" /\ NoMore
    /\ hpc' = "idle"
    /\ intr' \in IntrAfter
    /\ UNCHANGED <<prog, sigpend, parentVars, netVars, holders, proc>>

-----------------------------------------------------------------------------
(* Children and clients. *)

\* str_echo or web_child returns because the client has closed, or the child
\* is killed or gives up.  Its descriptors are closed, the parent is told.
Exit(c) ==
    /\ proc[c] = "run" /\ prog.serve = "fork"
    /\ proc' = [proc EXCEPT ![c] = "zombie"]
    /\ holders' = [d \in Conns |-> holders[d] \ {c}]
    /\ sigpend' = CatchesChld
    /\ UNCHANGED <<prog, intr, hpc, parentVars, netVars>>

\* doit: str_echo or web_child returns, Close.
ThreadEnds(c) ==
    /\ proc[c] = "run" /\ prog.serve = "thread" /\ c \in closed /\ pc \notin Ends
    /\ proc' = [proc EXCEPT ![c] = "none"]
    /\ holders' = [holders EXCEPT ![c] = {}]
    /\ UNCHANGED <<prog, sigVars, parentVars, netVars>>

\* err_sys or err_quit ends the process with all its threads.
ThreadFails(c) ==
    /\ proc[c] = "run" /\ prog.serve = "thread" /\ MayFail(c) /\ pc \notin Ends
    /\ pc' = "serve_error"
    /\ UNCHANGED <<prog, rset, connfd, sigVars, netVars, holders, proc>>

Connect(c) ==
    /\ state[c] = "idle" /\ proc[c] = "none" /\ pc \notin Ends
    /\ state' = [state EXCEPT ![c] = "queued"]
    /\ UNCHANGED <<prog, closed, udpq, parentVars, sigVars, holders, proc>>

SendDgram ==
    /\ Selects /\ udpq < MaxDgrams /\ pc \notin Ends
    /\ udpq' = udpq + 1
    /\ UNCHANGED <<prog, state, closed, parentVars, sigVars, holders, proc>>

CloseClient(c) ==
    /\ state[c] # "idle"
    /\ closed' = closed \cup {c}
    /\ UNCHANGED <<prog, state, udpq, parentVars, sigVars, holders, proc>>

\* The last descriptor is closed: the client gets the FIN, the connection is
\* over once both ends have closed.
ConnOver(c) ==
    /\ state[c] = "accepted" /\ holders[c] = {} /\ c \in closed
    /\ state' = [state EXCEPT ![c] = "idle"]
    /\ closed' = closed \ {c}
    /\ UNCHANGED <<prog, udpq, parentVars, sigVars, holders, proc>>

ParentSteps ==
    \/ \E c \in Conns : Accept(c) \/ AcceptAborted(c)
    \/ Select \/ AcceptFails \/ Interrupted \/ Fork \/ CreateThread \/ ForkError \/ ServeItself \/ Served
    \/ ServeFails \/ CloseConnfd \/ Recvfrom
Handler == Deliver \/ HandlerReturns \/ \E c \in Conns : WaitPid(c)
Others  ==
    \/ SendDgram
    \/ \E c \in Conns : \/ Exit(c) \/ ThreadEnds(c) \/ ThreadFails(c)
                        \/ Connect(c) \/ CloseClient(c) \/ ConnOver(c)

\* The parent has ended.
Ended == pc \in Ends /\ UNCHANGED vars

Next == ParentSteps \/ Handler \/ Others \/ Ended

Spec == Init /\ [][Next]_vars

\* The parent and its handler run; a child ends once its client has closed.
FairSpec ==
    /\ Spec /\ WF_vars(ParentSteps) /\ WF_vars(Handler)
    /\ \A c \in Conns : WF_vars(Exit(c) /\ c \in closed)

-----------------------------------------------------------------------------
(* Properties. *)

\* "must call waitpid()": no zombie is forgotten.  Whenever no SIGCHLD is
\* pending and the handler is not running, every terminated child has been
\* collected, however many of them terminated behind one signal.  With one
\* wait for each signal children may be forgotten, but wait always finds one:
\* the handler never blocks in it.
NoneForgotten ==
    /\ prog.chld = "waitpid" /\ ~sigpend /\ hpc = "idle" => \A c \in Conns : proc[c] # "zombie"
    /\ prog.chld = "wait" /\ hpc = "waitpid" => \E c \in Conns : proc[c] = "zombie"

\* What may end the parent.  A terminating child: only tcpserv02 and
\* udp_serv_select01, and only where accept is not restarted (they catch
\* SIGCHLD, but Accept does not look for EINTR).  A client: one that aborts
\* the connection before accept, where the wrapper is not used, or while
\* sctpserv_fork answers it; the client a thread or the server itself serves,
\* by a reset, and if web_child serves it, by a bad request.  The number of
\* clients: servers with threads, when the descriptors run out; those that
\* fork never run out of them, they end for want of processes.
ParentSurvives ==
    [][pc' # pc =>
         /\ pc' = "accept_error" =>
               \/ ~Wrapped /\ \E c \in Conns : state[c] = "queued" /\ state'[c] = "idle"
               \/ prog \in {tcpserv02, udpservselect01} /\ intr
               \/ prog.serve = "thread" /\ Cardinality(Held) >= MaxFds
         /\ pc' = "sctp_error" =>
               prog = sctpserv_fork /\ \E c \in Conns : state[c] = "queued" /\ state'[c] = "idle"
         /\ pc' = "fork_error" => Cardinality(Procs) = MaxProcs /\ hpc = "idle"
         /\ pc' = "serve_error" =>
               \/ prog \in {serv00, serv06}
               \/ /\ prog \in {threads_tcpserv01, daytime_tcp_srv}
                  /\ \E c \in closed : c = connfd \/ proc[c] = "run"]_vars

\* udp_serv_select01 gets to every datagram, however many connections arrive
\* and children terminate meanwhile, unless the parent ends or is held in
\* Accept because every connection select told of is aborted by its client.
UdpServed ==
    \/ <>[](pc = "accept")
    \/ udpq > 0 ~> pc \in Ends \cup {"recvfrom"}

Waiting == \E c \in Conns : state[c] = "queued"

\* While clients wait the server takes one up, whatever the clients it serves
\* do and however often SIGCHLD comes, unless it ends or meets nothing but
\* aborted connections.  Not so serv00: a client that stays connected keeps
\* it from all others.
TurnComes ==
    \/ <>[](pc = "accept" /\ hpc = "idle")
    \/ (Waiting /\ prog # serv00) ~> (pc \in {"fork", "serve"} \cup Ends \/ ~Waiting)
=============================================================================
