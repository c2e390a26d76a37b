--------------------------- MODULE ForkServerProofs ---------------------------
(***************************************************************************)
(* The servers of ForkServer forget no zombie, never block in wait and do  *)
(* not end because a child terminates, for every number of connections and *)
(* every limit on processes.                                               *)
(*                                                                         *)
(* SIGCHLDs do not queue.  What takes their place in the argument: a       *)
(* zombie of a server that loops over waitpid is always behind a pending   *)
(* signal or a running handler; a server that calls wait once per signal   *)
(* has one zombie for the pending signal and another for the handler.      *)
(* Both need that a process is not started in the place of a zombie, that  *)
(* is, that a connection being accepted has no process yet.                *)
(***************************************************************************)
EXTENDS ForkServer, FiniteSetTheorems, TLAPS

Zombies == {c \in Conns : proc[c] = "zombie"}

\* A connection that waits, or was just accepted, has no process yet.
FreshInv ==
    /\ \A c \in Conns : state[c] = "queued" => proc[c] = "none"
    /\ pc = "fork" => /\ proc[connfd] = "none" /\ state[connfd] = "accepted"
                      /\ Parent \in holders[connfd]

\* Where the signal of a zombie is.
SignalInv ==
    /\ sigpend \/ hpc = "waitpid" \/ intr => CatchesChld
    /\ prog.chld = "waitpid" /\ Zombies # {} => sigpend \/ hpc = "waitpid"
    /\ prog.chld = "wait" /\ (sigpend \/ hpc = "waitpid") => Zombies # {}
    /\ prog.chld = "wait" /\ sigpend /\ hpc = "waitpid"
          => \E c, d \in Zombies : c # d

\* Who serves, and with how many processes.
ServeInv ==
    /\ pc = "serve" => prog.serve \in {"request", "reply"}
    /\ Cardinality(Procs) <= MaxProcs

\* A parent that uses no threads has no descriptor but the one at hand.
HeldInv ==
    /\ prog.serve # "thread" => Held \subseteq {connfd}
    /\ pc \notin {"fork", "serve", "close"} \cup Ends => connfd = NoConn

IInv == TypeOK /\ FreshInv /\ SignalInv /\ ServeInv /\ HeldInv

-----------------------------------------------------------------------------
USE ForkAssumption DEF Parent, Ends, parentVars, sigVars, netVars

\* The kinds of servers there are.
LEMMA Kinds ==
  AllServers = {Accepts, Concurrent, Threaded, Daytime, model_serv01, udpservselect01,
                tcpserv02, tcpserv03, sctpserv_fork, serv00, serv01, serv06}
BY DEF AllServers, tcp_serv01, tcp_serv04, udp_serv_select01, daytime_tcp_srv, daytime_tcp_srv1,
       daytimetcpsrv1, daytimetcpsrv2, tcpserv01, tcpserv04, tcpserv08, tcpserv09,
       advio_tcpserv02, oob_tcpserv02, unixstrserv01, unixstrserv02, ipopts_tcpserv01,
       udpservselect01, threads_tcpserv01, threads_tcpserv02,
       intro_daytimetcpsrv, intro_daytimetcpsrv1, intro_daytimetcpsrv2, intro_daytimetcpsrv3,
       intro_daytimetcpsrvv6, names_daytimetcpsrv1, names_daytimetcpsrv2,
       names_daytimetcpsrv3, names_daytimetcpsrv4, inetd_daytimetcpsrv2,
       unixdomain_daytimetcpsrv2

\* What the proofs use of the records of the servers.
Facts(p) ==
    /\ p.chld \in {"no", "wait", "waitpid"}
    /\ p.chld # "no" => p.serve = "fork"
    /\ p.chld # "no" /\ p.accept \in {"Accept", "select"} => p \in {tcpserv02, udpservselect01}
    /\ p.serve # "fork" => p \in {serv00, serv06, threads_tcpserv01, daytime_tcp_srv}
    /\ p.serve # "fork" /\ p.web => p \in {serv00, serv06}
    /\ p.accept = "peeloff" => p = sctpserv_fork

\* A server that catches SIGCHLD forks; of those only tcpserv02 and the
\* servers that select use the wrapper Accept.
LEMMA Programs ==
  ASSUME NEW p \in Progs
  PROVE  Facts(p)
<1>1. p \in AllServers
  BY ProgsAssumption
<1>2. CASE p = Accepts
  BY <1>2 DEF Facts, Accepts
<1>3. CASE p = Concurrent
  BY <1>3 DEF Facts, Concurrent
<1>4. CASE p = Threaded
  BY <1>4 DEF Facts, Threaded, Accepts, threads_tcpserv01
<1>5. CASE p = Daytime
  BY <1>5 DEF Facts, Daytime, Accepts, daytime_tcp_srv
<1>6. CASE p = model_serv01
  BY <1>6 DEF Facts, model_serv01, Concurrent
<1>7. CASE p = udpservselect01
  BY <1>7 DEF Facts, udpservselect01, Concurrent
<1>8. CASE p = tcpserv02
  BY <1>8 DEF Facts, tcpserv02, Accepts
<1>9. CASE p = tcpserv03
  BY <1>9 DEF Facts, tcpserv03, Concurrent
<1>10. CASE p = sctpserv_fork
  BY <1>10 DEF Facts, sctpserv_fork, Accepts
<1>11. CASE p = serv00
  BY <1>11 DEF Facts, serv00, Accepts
<1>12. CASE p = serv01
  BY <1>12 DEF Facts, serv01, Concurrent
<1>13. CASE p = serv06
  BY <1>13 DEF Facts, serv06, Threaded, Accepts
<1>14. QED
  BY <1>1, <1>2, <1>3, <1>4, <1>5, <1>6, <1>7, <1>8, <1>9, <1>10, <1>11, <1>12, <1>13, Kinds

LEMMA IntrType == TypeOK => IntrAfter \subseteq BOOLEAN
<1>1. (pc \in {"select", "accept"}) \in BOOLEAN
  OBVIOUS
<1>2. QED
  BY <1>1, Zenon DEF TypeOK, IntrAfter

LEMMA ProcsFinite ==
  IsFiniteSet(Procs) /\ Cardinality(Procs) \in Nat
<1>1. Procs \in SUBSET Conns
  BY DEF Procs
<1>2. QED
  BY <1>1, FS_Subset, FS_CardinalityType

\* A step that starts no process keeps within the limit.
LEMMA FewerProcs ==
  ASSUME Procs' \subseteq Procs, Cardinality(Procs) <= MaxProcs
  PROVE  Cardinality(Procs') <= MaxProcs
<1>1. /\ IsFiniteSet(Procs) /\ Cardinality(Procs) \in Nat
      /\ Cardinality(Procs') \in Nat /\ Cardinality(Procs') <= Cardinality(Procs)
  BY ProcsFinite, FS_Subset, FS_CardinalityType
<1>2. QED
  BY <1>1

-----------------------------------------------------------------------------
LEMMA InitIInv == Init => IInv
<1> SUFFICES ASSUME Init
             PROVE  IInv
  OBVIOUS
<1> USE DEF Init
<1>1. TypeOK
  <2>1. pc \in {"select", "accept"} /\ connfd = NoConn /\ rset = {} /\ udpq \in 0..MaxDgrams
    BY DEF LoopHead
  <2>2. intr \in BOOLEAN /\ sigpend \in BOOLEAN
    OBVIOUS
  <2>3. QED
    BY <2>1, <2>2 DEF TypeOK
<1>2. FreshInv /\ SignalInv
  BY DEF FreshInv, SignalInv, Zombies, LoopHead
<1>3. Procs = {}
  BY DEF Procs
<1>4. ServeInv
  BY <1>3, FS_EmptySet DEF ServeInv, LoopHead
<1>5. HeldInv
  BY DEF HeldInv, Held
<1>6. QED
  BY <1>1, <1>2, <1>4, <1>5 DEF IInv

\* The steps of the parent that touch neither processes nor signals.
LEMMA ParentIInv ==
  ASSUME IInv,
         \/ Select \/ AcceptFails \/ ForkError \/ ServeItself \/ Served \/ ServeFails
         \/ CloseConnfd \/ Recvfrom
  PROVE  IInv'
<1> USE DEF IInv, Runs
<1>1. UNCHANGED <<prog, proc, state, hpc, sigpend, intr>> /\ Procs' = Procs
  BY DEF Select, AcceptFails, ForkError, ServeItself, Served, ServeFails, CloseConnfd, Recvfrom, Procs
<1>2. pc' # "fork" /\ (pc' = "serve" => prog.serve \in {"request", "reply"})
  BY DEF Select, AcceptFails, ForkError, ServeItself, Served, ServeFails, CloseConnfd, Recvfrom,
         AfterClose, LoopHead
<1>3. TypeOK'
  <2>1. intr' \in BOOLEAN /\ sigpend' \in BOOLEAN
    BY <1>1 DEF TypeOK
  <2>2. holders' \in [Conns -> SUBSET (Conns \cup {Parent})]
    <3>1. CASE CloseConnfd
      BY <3>1 DEF TypeOK, CloseConnfd, HoldersLeft
    <3>2. CASE UNCHANGED holders
      BY <3>2 DEF TypeOK
    <3>3. QED
      BY <3>1, <3>2 DEF Select, AcceptFails, ForkError, ServeItself, Served, ServeFails, Recvfrom
  <2>3. udpq' \in 0..MaxDgrams /\ closed' \subseteq Conns /\ rset' \subseteq {"listenfd", "udpfd"}
    <3>1. CASE Select
      BY <3>1 DEF TypeOK, Select
    <3>2. CASE Recvfrom
      BY <3>2 DEF TypeOK, Recvfrom
    <3>3. CASE UNCHANGED <<udpq, closed, rset>>
      BY <3>3 DEF TypeOK
    <3>4. QED
      BY <3>1, <3>2, <3>3 DEF AcceptFails, ForkError, ServeItself, Served, ServeFails, CloseConnfd
  <2>4. /\ pc' \in {"select", "accept", "fork", "serve", "close", "recvfrom"} \cup Ends
        /\ connfd' \in IF pc' \in {"fork", "serve", "close"} THEN Conns ELSE Conns \cup {NoConn}
    BY DEF TypeOK, Select, AcceptFails, ForkError, ServeItself, Served, ServeFails, CloseConnfd, Recvfrom,
           AfterClose, LoopHead
  <2>5. QED
    BY <1>1, <2>1, <2>2, <2>3, <2>4 DEF TypeOK
<1>4. FreshInv'
  BY <1>1, <1>2 DEF FreshInv
<1>5. SignalInv'
  BY <1>1 DEF SignalInv, Zombies, CatchesChld
<1>6. ServeInv'
  BY <1>1, <1>2 DEF ServeInv
<1>7. HeldInv'
  <2>1. CASE CloseConnfd
    <3>1. connfd \in Conns /\ connfd' = NoConn /\ Held' = Held \ {connfd}
      BY <2>1 DEF CloseConnfd, HoldersLeft, Held, TypeOK
    <3>2. QED
      BY <1>1, <3>1 DEF HeldInv
  <2>2. CASE ~CloseConnfd
    <3>1. Held' = Held /\ connfd' = connfd
      BY <2>2 DEF Select, AcceptFails, ForkError, ServeItself, Served, ServeFails, Recvfrom, Held
    <3>2. pc' \notin {"fork", "serve", "close"} \cup Ends => pc \in {"select", "recvfrom"}
      BY <2>2 DEF Select, AcceptFails, ForkError, ServeItself, Served, ServeFails, Recvfrom
    <3>3. QED
      BY <1>1, <3>1, <3>2 DEF HeldInv
  <2>3. QED
    BY <2>1, <2>2
<1>8. QED
  BY <1>3, <1>4, <1>5, <1>6, <1>7

\* accept: a connection that was waiting has no process.
LEMMA AcceptIInv ==
  ASSUME IInv, NEW c \in Conns, Accept(c) \/ AcceptAborted(c)
  PROVE  IInv'
<1> USE DEF IInv, Runs, AfterAbort
<1>1. UNCHANGED <<prog, proc, hpc, sigpend, intr>> /\ Procs' = Procs /\ pc' # "serve"
  BY DEF Accept, AcceptAborted, Procs
<1>2. TypeOK'
  BY DEF TypeOK, Accept, AcceptAborted
<1>3. FreshInv'
  BY DEF TypeOK, FreshInv, Accept, AcceptAborted
<1>4. SignalInv'
  BY <1>1 DEF SignalInv, Zombies, CatchesChld
<1>5. ServeInv'
  BY <1>1 DEF ServeInv
<1>6. HeldInv'
  <2>1. CASE Accept(c)
    <3>1. connfd = NoConn /\ connfd' = c /\ pc' = "fork" /\ Held' = Held \cup {c}
      BY <2>1 DEF Accept, HeldInv, Held, TypeOK
    <3>2. NoConn \notin Held
      BY DEF Held
    <3>3. QED
      BY <1>1, <3>1, <3>2 DEF HeldInv
  <2>2. CASE AcceptAborted(c)
    BY <2>2 DEF AcceptAborted, HeldInv, Held
  <2>3. QED
    BY <2>1, <2>2
<1>7. QED
  BY <1>2, <1>3, <1>4, <1>5, <1>6

LEMMA InterruptedIInv ==
  ASSUME IInv, Interrupted
  PROVE  IInv'
<1> USE DEF IInv, Runs, Interrupted, AfterIntr, LoopHead
<1>1. TypeOK'
  BY DEF TypeOK
<1>2. FreshInv'
  BY DEF FreshInv
<1>3. SignalInv'
  BY DEF SignalInv, Zombies, CatchesChld
<1>4. ServeInv'
  BY DEF ServeInv, Procs
<1>5. HeldInv'
  BY DEF HeldInv, Held
<1>6. QED
  BY <1>1, <1>2, <1>3, <1>4, <1>5

\* fork and Pthread_create: the process is new.
LEMMA ForkIInv ==
  ASSUME IInv, Fork \/ CreateThread
  PROVE  IInv'
<1> USE DEF IInv, Runs
<1>1. /\ pc = "fork" /\ Cardinality(Procs) < MaxProcs
      /\ proc' = [proc EXCEPT ![connfd] = "run"]
      /\ UNCHANGED <<prog, state, hpc, sigpend, intr>>
      /\ pc' \notin {"fork", "serve"}
  BY DEF Fork, CreateThread, LoopHead
<1>2. connfd \in Conns /\ proc[connfd] = "none" /\ state[connfd] = "accepted"
  BY <1>1 DEF TypeOK, FreshInv
<1>3. TypeOK'
  <2>1. intr' \in BOOLEAN /\ sigpend' \in BOOLEAN
    BY <1>1 DEF TypeOK
  <2>2. holders' \in [Conns -> SUBSET (Conns \cup {Parent})]
    BY <1>2 DEF TypeOK, Fork, CreateThread
  <2>3. /\ pc' \in {"select", "accept", "close"}
        /\ connfd' \in IF pc' = "close" THEN Conns ELSE Conns \cup {NoConn}
    BY <1>2 DEF Fork, CreateThread, LoopHead
  <2>4. UNCHANGED <<rset, udpq, closed>>
    BY DEF Fork, CreateThread
  <2>5. QED
    BY <1>1, <1>2, <2>1, <2>2, <2>3, <2>4 DEF TypeOK
<1>4. FreshInv'
  BY <1>1, <1>2 DEF FreshInv, TypeOK
<1>5. Zombies' = Zombies
  BY <1>1, <1>2 DEF Zombies, TypeOK
<1>6. SignalInv'
  BY <1>1, <1>5 DEF SignalInv, CatchesChld
<1>7. Procs' = Procs \cup {connfd} /\ connfd \notin Procs
  BY <1>1, <1>2 DEF Procs, TypeOK
<1>8. Cardinality(Procs') <= MaxProcs
  <2>1. Cardinality(Procs') = Cardinality(Procs) + 1
    BY <1>7, ProcsFinite, FS_AddElement
  <2>2. QED
    BY <1>1, <2>1, ProcsFinite
<1>9. HeldInv'
  <2>1. CASE Fork
    <3>1. Held' = Held /\ connfd' = connfd /\ pc' = "close"
      BY <1>2, <2>1 DEF Fork, Held, TypeOK
    <3>2. QED
      BY <1>1, <3>1 DEF HeldInv
  <2>2. CASE CreateThread
    BY <2>2 DEF CreateThread, HeldInv
  <2>3. QED
    BY <2>1, <2>2
<1>10. QED
  BY <1>1, <1>3, <1>4, <1>6, <1>8, <1>9 DEF ServeInv

-----------------------------------------------------------------------------
\* The handler starts: the zombie behind the signal is now the handler's.
LEMMA DeliverIInv ==
  ASSUME IInv, Deliver
  PROVE  IInv'
<1> USE DEF IInv, Deliver
<1>1. TypeOK'
  BY DEF TypeOK
<1>2. FreshInv' /\ ServeInv' /\ HeldInv'
  BY DEF FreshInv, ServeInv, Procs, HeldInv, Held
<1>3. SignalInv'
  BY DEF SignalInv, Zombies, CatchesChld
<1>4. QED
  BY <1>1, <1>2, <1>3

\* One zombie is collected.  With wait, another one is left for the signal
\* that is pending, if one is.
LEMMA WaitPidIInv ==
  ASSUME IInv, NEW c \in Conns, WaitPid(c)
  PROVE  IInv'
<1> USE DEF IInv, WaitPid
<1>1. TypeOK'
  <2>1. intr' \in BOOLEAN
    <3>1. intr \in BOOLEAN /\ (intr' \in IntrAfter \/ intr' = intr)
      BY DEF TypeOK
    <3>2. QED
      BY <3>1, IntrType
  <2>2. hpc' \in {"idle", "waitpid"} /\ sigpend' \in BOOLEAN
    BY DEF TypeOK, AfterWait
  <2>3. QED
    BY <2>1, <2>2 DEF TypeOK
<1>2. FreshInv'
  BY DEF FreshInv, TypeOK
<1>3. Zombies' = Zombies \ {c} /\ c \in Zombies
  BY DEF Zombies, TypeOK
<1>4. SignalInv'
  BY <1>3 DEF SignalInv, AfterWait, CatchesChld, IntrAfter
<1>5. Procs' \subseteq Procs
  BY DEF Procs, TypeOK
<1>6. ServeInv'
  BY <1>5, FewerProcs DEF ServeInv
<1>7. HeldInv'
  BY DEF HeldInv, Held
<1>8. QED
  BY <1>1, <1>2, <1>4, <1>6, <1>7

\* waitpid found no zombie: no signal is missed.
LEMMA HandlerReturnsIInv ==
  ASSUME IInv, HandlerReturns
  PROVE  IInv'
<1> USE DEF IInv, HandlerReturns, NoMore
<1>1. TypeOK'
  <2>1. intr' \in BOOLEAN /\ sigpend' \in BOOLEAN
    BY IntrType DEF TypeOK
  <2>2. QED
    BY <2>1 DEF TypeOK
<1>2. FreshInv' /\ ServeInv' /\ HeldInv'
  BY DEF FreshInv, ServeInv, Procs, HeldInv, Held
<1>3. SignalInv'
  BY DEF SignalInv, Zombies, CatchesChld
<1>4. QED
  BY <1>1, <1>2, <1>3

-----------------------------------------------------------------------------
\* A child terminates: a new zombie and a pending signal, in one step.
LEMMA ExitIInv ==
  ASSUME IInv, NEW c \in Conns, Exit(c)
  PROVE  IInv'
<1> USE DEF IInv, Exit
<1>1. TypeOK'
  BY DEF TypeOK, CatchesChld
<1>2. FreshInv'
  BY DEF FreshInv, TypeOK
<1>3. Zombies' = Zombies \cup {c} /\ c \notin Zombies
  BY DEF Zombies, TypeOK
<1>4. SignalInv'
  <2>1. sigpend' <=> prog.chld # "no"
    BY DEF CatchesChld
  <2>2. UNCHANGED <<prog, hpc, intr>>
    OBVIOUS
  <2>3. prog.chld = "wait" /\ hpc = "waitpid" => Zombies # {}
    BY DEF SignalInv
  <2>4. QED
    BY <1>3, <2>1, <2>2, <2>3 DEF SignalInv, CatchesChld
<1>5. Procs' \subseteq Procs
  BY DEF Procs, TypeOK
<1>6. ServeInv'
  BY <1>5, FewerProcs DEF ServeInv
<1>7. HeldInv'
  <2>1. Held' = Held
    BY DEF Held, TypeOK
  <2>2. QED
    BY <2>1 DEF HeldInv
<1>8. QED
  BY <1>1, <1>2, <1>4, <1>6, <1>7

\* Threads: the servers that use them do not catch SIGCHLD.
LEMMA ThreadIInv ==
  ASSUME IInv, NEW c \in Conns, ThreadEnds(c) \/ ThreadFails(c)
  PROVE  IInv'
<1> USE DEF IInv, ThreadEnds, ThreadFails
<1>1. TypeOK'
  BY DEF TypeOK
<1>2. FreshInv'
  BY DEF FreshInv, TypeOK
<1>3. Zombies' = Zombies
  BY DEF Zombies, TypeOK
<1>4. SignalInv'
  BY <1>3 DEF SignalInv, CatchesChld
<1>5. Procs' \subseteq Procs
  BY DEF Procs, TypeOK
<1>6. ServeInv'
  BY <1>5, FewerProcs DEF ServeInv
<1>7. HeldInv'
  BY DEF HeldInv, Held, TypeOK
<1>8. QED
  BY <1>1, <1>2, <1>4, <1>6, <1>7

\* The clients: a connection that is over may be made again only when its
\* process has been collected.
LEMMA ClientIInv ==
  ASSUME IInv, SendDgram \/ \E c \in Conns : Connect(c) \/ CloseClient(c) \/ ConnOver(c)
  PROVE  IInv'
<1> USE DEF IInv, SendDgram, Connect, CloseClient, ConnOver
<1>1. UNCHANGED <<prog, pc, rset, connfd, intr, hpc, sigpend, proc, holders>>
  OBVIOUS
<1>2. TypeOK'
  <2>1. udpq' \in 0..MaxDgrams /\ closed' \subseteq Conns
    BY DEF TypeOK
  <2>2. state' \in [Conns -> {"idle", "queued", "accepted"}]
    BY DEF TypeOK
  <2>3. QED
    BY <1>1, <2>1, <2>2 DEF TypeOK
<1>3. FreshInv'
  BY DEF FreshInv, TypeOK
<1>4. SignalInv' /\ ServeInv' /\ HeldInv'
  BY <1>1 DEF SignalInv, ServeInv, CatchesChld, Zombies, Procs, HeldInv, Held
<1>5. QED
  BY <1>2, <1>3, <1>4

LEMMA StepIInv == IInv /\ [Next]_vars => IInv'
<1> SUFFICES ASSUME IInv, [Next]_vars
             PROVE  IInv'
  OBVIOUS
<1>1. CASE ParentSteps
  BY <1>1, ParentIInv, AcceptIInv, InterruptedIInv, ForkIInv DEF ParentSteps
<1>2. CASE Handler
  BY <1>2, DeliverIInv, WaitPidIInv, HandlerReturnsIInv DEF Handler
<1>3. CASE Others
  BY <1>3, ExitIInv, ThreadIInv, ClientIInv DEF Others
<1>4. CASE UNCHANGED vars
  BY <1>4 DEF vars, IInv, TypeOK, FreshInv, SignalInv, ServeInv, HeldInv, Zombies, CatchesChld,
              Procs, Held
<1>5. QED
  BY <1>1, <1>2, <1>3, <1>4 DEF Next, Ended

\* What every reachable state of every server satisfies.
THEOREM Invariance == Spec => []IInv
BY InitIInv, StepIInv, PTL DEF Spec

-----------------------------------------------------------------------------
\* The variables of the servers keep their types; in particular connfd is a
\* connection wherever the parent is about to fork, to serve or to close it.
THEOREM TypeCorrect == Spec => []TypeOK
<1>1. IInv => TypeOK
  BY DEF IInv
<1>2. QED
  BY <1>1, Invariance, PTL

\* sig_chld_wait_pid forgets no zombie, and sig_chld_wait never blocks in
\* wait, however many children terminate behind one SIGCHLD.
THEOREM ZombiesCollected == Spec => []NoneForgotten
<1>1. IInv => NoneForgotten
  BY DEF IInv, SignalInv, NoneForgotten, TypeOK, Zombies
<1>2. QED
  BY <1>1, Invariance, PTL

\* Which step ends the parent, and how.
LEMMA EndsBy ==
  ASSUME Next, pc' # pc
  PROVE  /\ pc' = "accept_error" =>
               AcceptFails \/ Interrupted \/ \E c \in Conns : AcceptAborted(c)
         /\ pc' = "sctp_error" => \E c \in Conns : AcceptAborted(c)
         /\ pc' = "fork_error" => ForkError
         /\ pc' = "serve_error" => ServeFails \/ \E c \in Conns : ThreadFails(c)
<1> USE DEF Ends
<1>1. CASE ParentSteps
  BY <1>1 DEF ParentSteps, Select, Accept, AcceptFails, AcceptAborted, AfterAbort, Interrupted,
     AfterIntr, Fork, CreateThread, ForkError, ServeItself, Served, ServeFails, CloseConnfd,
     Recvfrom, LoopHead, AfterClose
<1>2. CASE Handler \/ Ended
  BY <1>2 DEF Handler, Deliver, HandlerReturns, WaitPid, Ended, vars
<1>3. CASE Others
  BY <1>3 DEF Others, SendDgram, Exit, ThreadEnds, ThreadFails, Connect, CloseClient, ConnOver
<1>4. QED
  BY <1>1, <1>2, <1>3 DEF Next

\* Only servers with threads run out of descriptors.
LEMMA FullMeansThreads ==
  ASSUME IInv, AcceptFails
  PROVE  prog.serve = "thread"
<1>1. SUFFICES ASSUME prog.serve # "thread"
               PROVE  FALSE
  OBVIOUS
<1>2. pc = "accept" /\ Cardinality(Held) >= MaxFds
  BY DEF AcceptFails, Runs
<1>3. connfd = NoConn /\ Held \subseteq {connfd}
  BY <1>1, <1>2 DEF IInv, HeldInv
<1>4. Held = {}
  BY <1>3 DEF Held
<1>5. QED
  BY <1>2, <1>4, FS_EmptySet

\* The parent of every server ends only for the reasons ParentSurvives names.
THEOREM ParentOnlyEndsFor == Spec => ParentSurvives
<1> DEFINE Aborted == \E c \in Conns : state[c] = "queued" /\ state'[c] = "idle"
           AcceptEnd ==
               \/ ~Wrapped /\ Aborted
               \/ prog \in {tcpserv02, udpservselect01} /\ intr
               \/ prog.serve = "thread" /\ Cardinality(Held) >= MaxFds
           ServeEnd ==
               \/ prog \in {serv00, serv06}
               \/ /\ prog \in {threads_tcpserv01, daytime_tcp_srv}
                  /\ \E c \in closed : c = connfd \/ proc[c] = "run"
           A ==
             pc' # pc =>
               /\ pc' = "accept_error" => AcceptEnd
               /\ pc' = "sctp_error" => prog = sctpserv_fork /\ Aborted
               /\ pc' = "fork_error" => Cardinality(Procs) = MaxProcs /\ hpc = "idle"
               /\ pc' = "serve_error" => ServeEnd
<1>1. ASSUME IInv, [Next]_vars
      PROVE  [A]_vars
  <2> SUFFICES ASSUME Next, pc' # pc
               PROVE  A
    BY <1>1
  <2> USE <1>1 DEF IInv, Runs
  <2>1. prog \in Progs
    BY DEF TypeOK
  <2>2. ASSUME NEW c \in Conns, AcceptAborted(c)
        PROVE  /\ Aborted
               /\ pc' = "accept_error" => ~Wrapped
               /\ pc' = "sctp_error" => prog = sctpserv_fork
    <3>1. state[c] = "queued" /\ state'[c] = "idle"
      BY <2>2 DEF AcceptAborted, TypeOK
    <3>2. pc' = "accept_error" => prog.accept = "accept"
      BY <2>2 DEF AcceptAborted, AfterAbort
    <3>3. pc' = "sctp_error" => prog.accept = "peeloff"
      BY <2>2 DEF AcceptAborted, AfterAbort
    <3>4. QED
      BY <2>1, <3>1, <3>2, <3>3, Programs DEF Facts, Wrapped
  <2>3. ASSUME pc' = "accept_error"
        PROVE  AcceptEnd
    <3>1. CASE Interrupted
      <4>1. Wrapped /\ intr /\ CatchesChld
        BY <2>3, <3>1 DEF Interrupted, AfterIntr, LoopHead, SignalInv
      <4>2. QED
        BY <2>1, <4>1, Programs DEF Facts, Wrapped, CatchesChld
    <3>2. CASE AcceptFails
      <4>1. prog.serve = "thread" /\ Cardinality(Held) >= MaxFds
        BY <3>2, FullMeansThreads DEF AcceptFails
      <4>2. QED
        BY <4>1
    <3>3. QED
      BY <2>2, <2>3, <3>1, <3>2, EndsBy
  <2>4. ASSUME pc' = "fork_error"
        PROVE  Cardinality(Procs) = MaxProcs /\ hpc = "idle"
    <3>1. ForkError
      BY <2>4, EndsBy
    <3>2. QED
      BY <3>1, ProcsFinite DEF ForkError, ServeInv
  <2>5. ASSUME pc' = "serve_error"
        PROVE  ServeEnd
    <3>1. ASSUME NEW c \in Conns, c = connfd \/ proc[c] = "run", MayFail(c), prog.serve # "fork"
          PROVE  ServeEnd
      <4>1. CASE prog.web
        BY <2>1, <3>1, <4>1, Programs DEF Facts
      <4>2. CASE c \in closed
        BY <2>1, <3>1, <4>2, Programs DEF Facts
      <4>3. QED
        BY <3>1, <4>1, <4>2 DEF MayFail
    <3>2. CASE ServeFails
      <4>1. connfd \in Conns /\ MayFail(connfd) /\ prog.serve # "fork"
        BY <3>2 DEF ServeFails, ServeInv, TypeOK
      <4>2. QED
        BY <3>1, <4>1
    <3>3. ASSUME NEW c \in Conns, ThreadFails(c)
          PROVE  ServeEnd
      BY <3>1, <3>3 DEF ThreadFails
    <3>4. QED
      BY <2>5, <3>2, <3>3, EndsBy
  <2>6. QED
    BY <2>2, <2>3, <2>4, <2>5, EndsBy
<1>2. QED
  BY <1>1, Invariance, PTL DEF Spec, ParentSurvives
===============================================================================
