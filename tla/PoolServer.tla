------------------------------ MODULE PoolServer ------------------------------
(***************************************************************************)
(* Servers with a fixed pool of N workers: model_serv02 and                *)
(* model_serv02_with_lock, and the programs serv02 to serv05 and serv07 to *)
(* serv09 they come from.  Workers are child processes or threads; a       *)
(* worker accepts by itself (with or without a lock around accept), or is  *)
(* handed connections by the parent, over a stream pipe (serv05) or        *)
(* through a ring of descriptors (serv08).  One spec runs all of them:     *)
(* prog, chosen in Init, is the record of what a program does.             *)
(***************************************************************************)
EXTENDS Naturals, Sequences, FiniteSets, FiniteSetsExt

CONSTANTS
    N,           \* nchildren, nthreads
    Programs,    \* the programs considered
    LISTENQ,     \* bound: connections waiting for accept
    MaxConn,     \* bound: connections made in all
    MAXNCLI,     \* entries of the ring clifd[]
    MayDie,      \* a worker may end: err_quit on a bad request, err_sys, SIGPIPE
    MayInterrupt \* SIGINT may be sent

ASSUME PoolAssumption ==
    /\ N \in Nat \ {0} /\ LISTENQ \in Nat \ {0}
    /\ MaxConn \in Nat \ {0} /\ MAXNCLI \in Nat \ {0, 1}
    /\ MayDie \in BOOLEAN /\ MayInterrupt \in BOOLEAN

-----------------------------------------------------------------------------
(* The programs.  Worker loops: "intake" is where the loop starts to get   *)
(* its next connection; "lock" what is held around accept.                 *)

child_main           == [intake |-> "accept",  lock |-> "none"]
child_main_with_lock == [intake |-> "lock",    lock |-> "fcntl"]
child02   == [intake |-> "accept",  lock |-> "none"]
child02l  == [intake |-> "select",  lock |-> "none"]
child02m  == [intake |-> "accept",  lock |-> "none"]
child03   == [intake |-> "lock",    lock |-> "fcntl"]
child03m  == [intake |-> "lock",    lock |-> "fcntl"]
child04   == [intake |-> "lock",    lock |-> "mutex"]
child05   == [intake |-> "read_fd", lock |-> "none"]
pthread07 == [intake |-> "lock",    lock |-> "mutex"]
pthread08 == [intake |-> "get",     lock |-> "none"]
pthread09 == [intake |-> "accept",  lock |-> "none"]

\* The mains: what the workers are and where the parent goes after Signal.
Pool(loop, kind, idle) == [loop |-> loop, workers |-> kind, idle |-> idle]

model_serv02           == Pool(child_main, "process", "pause")
model_serv02_with_lock == Pool(child_main, "process", "pause")  \* child_make calls child_main
serv02  == Pool(child02, "process", "pause")
serv02m == Pool(child02m, "process", "pause")
serv03  == Pool(child03, "process", "pause")
serv03m == Pool(child03m, "process", "pause")
serv04  == Pool(child04, "process", "pause")
serv05  == Pool(child05, "process", "select")
serv07  == Pool(pthread07, "thread", "pause")
serv08  == Pool(pthread08, "thread", "accept")
serv09  == Pool(pthread09, "thread", "pause")

AllPrograms ==
    {model_serv02, model_serv02_with_lock, Pool(child_main_with_lock, "process", "pause"),
     serv02, Pool(child02l, "process", "pause"), serv02m, serv03, serv03m, serv04, serv05, serv07, serv08, serv09}

\* No other programs are meant.
ASSUME ProgramsAssumption == Programs \subseteq AllPrograms

-----------------------------------------------------------------------------
VARIABLES
    prog,     \* the program
    pc,       \* the parent (main thread): "fork", its loop ("pause"; "select",
              \* "accept", "pass", "scan"; "put"), in sig_int "kill" and "wait",
              \* "done" after exit(0), "killed" by a signal or err_quit
    i,        \* index of the fork loop and of the kill loop
    pids,     \* pids[]: the process ID (1..N here) or 0
    child,    \* what each worker is doing
    conn,     \* the connection a worker serves, 0 if none
    holder,   \* the worker that has the lock around accept, 0 if none
    backlog,  \* connections waiting for accept
    made,     \* connections made so far
    accepted, \* connections accepted so far; connections are numbered so
    hand,     \* the connection the parent has accepted and not handed over, 0 if none
    taken,    \* connections some worker has started on
    status,   \* child_status of serv05: 1 = busy
    navail,   \* navail of serv05
    down, up, \* the stream pipes: descriptors to the child, ready bytes to the parent
    rset,     \* what Select reported and is not handled yet: children, 0 for listenfd
    ring, iget, iput \* clifd[], iget, iput of serv08

poolVars == <<pc, i, pids>>
netVars  == <<backlog, made>>
pipeVars == <<status, navail, down, up, rset>>
ringVars == <<ring, iget, iput>>
vars == <<prog, pc, i, pids, child, conn, holder, backlog, made, accepted, hand,
          taken, status, navail, down, up, rset, ring, iget, iput>>

Kids    == 1..N
Conns   == 1..MaxConn
Working == {"lock", "select", "accept", "unlock", "serve", "read_fd", "ready",
            "get", "cond_wait", "woken"}
Loop    == prog.loop
Threads == prog.workers = "thread"

TypeOK ==
    /\ prog \in Programs
    /\ pc \in {"fork", "pause", "select", "accept", "pass", "scan", "put",
               "kill", "wait", "done", "killed"}
    /\ i \in 1..(N + 1) /\ pids \in [Kids -> 0..N]
    /\ child \in [Kids -> Working \cup {"none", "zombie", "collected"}]
    /\ conn \in [Kids -> 0..MaxConn] /\ taken \subseteq Conns
    /\ holder \in 0..N /\ backlog \in 0..LISTENQ
    /\ made \in 0..MaxConn /\ accepted \in 0..made /\ hand \in 0..accepted
    /\ status \in [Kids -> 0..1] /\ navail \in 0..N
    /\ down \in [Kids -> Seq(Conns)] /\ up \in [Kids -> Nat]
    /\ rset \subseteq 0..N
    /\ ring \in [0..(MAXNCLI - 1) -> 0..MaxConn]
    /\ iget \in 0..(MAXNCLI - 1) /\ iput \in 0..(MAXNCLI - 1)

Init ==
    /\ prog \in Programs
    /\ pc = "fork" /\ i = 1
    /\ pids = [k \in Kids |-> 0]              \* Calloc
    /\ child = [k \in Kids |-> "none"] /\ conn = [k \in Kids |-> 0]
    /\ holder = 0 /\ backlog = 0 /\ made = 0 /\ accepted = 0 /\ hand = 0 /\ taken = {}
    /\ status = [k \in Kids |-> 0] /\ navail = N
    /\ down = [k \in Kids |-> <<>>] /\ up = [k \in Kids |-> 0] /\ rset = {}
    /\ ring = [s \in 0..(MAXNCLI - 1) |-> 0] /\ iget = 0 /\ iput = 0

-----------------------------------------------------------------------------
(* The parent: start and end. *)

ForkLoop == i <= N

\* pids[i] = child_make(i, ...), thread_make(i)
ChildMake ==
    /\ pc = "fork" /\ ForkLoop
    /\ pids' = [pids EXCEPT ![i] = i]
    /\ child' = [child EXCEPT ![i] = Loop.intake]
    /\ i' = i + 1
    /\ UNCHANGED <<prog, pc, conn, holder, netVars, accepted, hand, taken, pipeVars, ringVars>>

\* Signal(SIGINT, sig_int), after the loop.
InstallHandler ==
    /\ pc = "fork" /\ ~ForkLoop
    /\ pc' = prog.idle
    /\ UNCHANGED <<prog, i, pids, child, conn, holder, netVars, accepted, hand, taken,
                   pipeVars, ringVars>>

CaughtEarly == TRUE  \* mutant: Signal before the fork loop
Caught      == pc # "fork"

LockAfterDeathKept(dead) == holder  \* mutant: the lock stays with the dead

\* A record lock goes away with the process that holds it; a mutex in shared
\* memory (lock_pthread, my_th_lock_*) stays locked.
LockAfterDeath(dead) ==
    IF holder \in dead /\ Loop.lock = "fcntl" THEN 0 ELSE holder

Dies(dead) ==
    /\ child' = [k \in Kids |-> IF k \in dead /\ child[k] \in Working
                                THEN "zombie" ELSE child[k]]
    /\ conn' = [k \in Kids |-> IF k \in dead THEN 0 ELSE conn[k]]
    /\ holder' = LockAfterDeath(dead)

Live == pc \notin {"kill", "wait", "done", "killed"}

\* The end of a process is the end of its threads.
ProcessEnds(how) == Dies(IF Threads THEN Kids ELSE {}) /\ pc' = how

\* SIGINT, for the parent alone or (typed at the terminal) for the group.
\* Children have the default action; the parent has it until Signal.
\* sig_int of the threaded servers exits without further ado.
Interrupt ==
    /\ MayInterrupt /\ Live
    /\ IF Threads
       THEN /\ i' = i
            /\ ProcessEnds(IF Caught THEN "done" ELSE "killed")
       ELSE /\ \/ Dies({})
               \/ Dies(Kids)
            /\ IF Caught THEN pc' = "kill" /\ i' = 1
                         ELSE pc' = "killed" /\ i' = i
    /\ UNCHANGED <<prog, pids, netVars, accepted, hand, taken, pipeVars, ringVars>>

KillLoop == i <= N

\* kill(pids[i], SIGTERM); a pid of 0 would be the whole process group.
Kill ==
    /\ pc = "kill" /\ KillLoop
    /\ Dies(IF pids[i] = 0 THEN Kids ELSE {pids[i]})
    /\ pc' = IF pids[i] = 0 THEN "killed" ELSE "kill"
    /\ i' = i + 1
    /\ UNCHANGED <<prog, pids, netVars, accepted, hand, taken, pipeVars, ringVars>>

KilledAll ==
    /\ pc = "kill" /\ ~KillLoop
    /\ pc' = "wait"
    /\ UNCHANGED <<prog, i, pids, child, conn, holder, netVars, accepted, hand, taken,
                   pipeVars, ringVars>>

AfterWaitOnce == "done"  \* mutant: no loop around wait
AfterWait     == "wait"

Wait ==
    /\ pc = "wait"
    /\ \E k \in Kids : child[k] = "zombie" /\ child' = [child EXCEPT ![k] = "collected"]
    /\ pc' = AfterWait
    /\ UNCHANGED <<prog, i, pids, conn, holder, netVars, accepted, hand, taken, pipeVars, ringVars>>

\* wait fails with ECHILD: exit(0).
WaitDone ==
    /\ pc = "wait" /\ \A k \in Kids : child[k] \notin Working \cup {"zombie"}
    /\ pc' = "done"
    /\ UNCHANGED <<prog, i, pids, child, conn, holder, netVars, accepted, hand, taken,
                   pipeVars, ringVars>>

-----------------------------------------------------------------------------
(* The parent that accepts: serv05 and serv08. *)

Accepts ==
    /\ backlog > 0 /\ backlog' = backlog - 1
    /\ accepted' = accepted + 1

\* listenfd is left out of the set when no child is available.
Listens == navail > 0

\* A pipe is readable when the child has written, or is gone.
PipeReadable(k) == up[k] > 0 \/ child[k] \notin Working

Select ==
    /\ pc = "select"
    /\ LET ready == {k \in Kids : PipeReadable(k)}
                    \cup (IF Listens /\ backlog > 0 THEN {0} ELSE {})
       IN  /\ ready # {}
           /\ rset' = ready
           /\ pc' = IF 0 \in ready THEN "accept" ELSE "scan"
    /\ UNCHANGED <<prog, i, pids, child, conn, holder, netVars, accepted, hand, taken,
                   status, navail, down, up, ringVars>>

\* Accept, blocking: the connection reported may be gone by now.
ParentAccept ==
    /\ pc = "accept" /\ Accepts
    /\ hand' = accepted'
    /\ pc' = IF prog.idle = "select" THEN "pass" ELSE "put"
    /\ UNCHANGED <<prog, i, pids, child, conn, holder, made, taken, pipeVars, ringVars>>

\* The first child with child_status 0 gets the descriptor: Write_fd, Close.
\* SIGPIPE or EPIPE if that child is gone.
Pass ==
    /\ pc = "pass"
    /\ LET free == {k \in Kids : status[k] = 0}
           k    == Min(free)
       IN  IF free = {} \/ child[k] \notin Working  \* err_quit("no available children")
           THEN pc' = "killed" /\ UNCHANGED <<status, navail, down, hand, rset>>
           ELSE /\ status' = [status EXCEPT ![k] = 1]
                /\ down' = [down EXCEPT ![k] = Append(@, hand)]
                /\ navail' = navail - 1
                /\ rset' = rset \ {0}
                /\ pc' = IF rset = {0} THEN "select" ELSE "scan"
                /\ hand' = 0
    /\ UNCHANGED <<prog, i, pids, child, conn, holder, netVars, accepted, taken, up, ringVars>>

\* One byte, or err_quit("child %d terminated unexpectedly").  nsel is the
\* number of members of rset.
ScanPipe ==
    /\ pc = "scan"
    /\ LET k == Min(rset) IN
       /\ rset' = rset \ {k}
       /\ IF up[k] > 0
          THEN /\ up' = [up EXCEPT ![k] = @ - 1]
               /\ status' = [status EXCEPT ![k] = 0]
               /\ navail' = navail + 1
               /\ pc' = IF rset' = {} THEN "select" ELSE "scan"
          ELSE pc' = "killed" /\ UNCHANGED <<up, status, navail>>
    /\ UNCHANGED <<prog, i, pids, child, conn, holder, netVars, accepted, hand, taken, down, ringVars>>

Succ(s) == IF s + 1 = MAXNCLI THEN 0 ELSE s + 1

RingFullNever == FALSE  \* mutant: no test of iput against iget
RingFull      == Succ(iput) = iget

Waiting == {k \in Kids : child[k] = "cond_wait"}

CondSignalNot == child' = child  \* mutant: no Pthread_cond_signal
CondSignal ==
    \/ Waiting = {} /\ child' = child
    \/ \E k \in Waiting : child' = [child EXCEPT ![k] = "woken"]

\* Under clifd_mutex: put the descriptor, err_quit when the ring is full,
\* else wake one waiting thread (a signal nobody waits for is forgotten).
Put ==
    /\ pc = "put"
    /\ ring' = [ring EXCEPT ![iput] = hand]
    /\ iput' = Succ(iput)
    /\ IF RingFull
       THEN ProcessEnds("killed") /\ hand' = hand
       ELSE /\ pc' = "accept" /\ hand' = 0
            /\ CondSignal
            /\ UNCHANGED <<conn, holder>>
    /\ UNCHANGED <<prog, i, pids, netVars, accepted, taken, pipeVars, iget>>

Parent ==
    \/ ChildMake \/ InstallHandler \/ Kill \/ KilledAll \/ Wait \/ WaitDone
    \/ Select \/ ParentAccept \/ Pass \/ ScanPipe \/ Put

-----------------------------------------------------------------------------
(* The workers. *)

Starts(k, c) == conn' = [conn EXCEPT ![k] = c] /\ taken' = taken \cup {c}

LockFree == holder = 0

\* my_lock_wait: fcntl(lock_fd, F_SETLKW, &lock_it), again on EINTR; or
\* Pthread_mutex_lock.
LockWait(k) ==
    /\ child[k] = "lock" /\ LockFree
    /\ holder' = k
    /\ child' = [child EXCEPT ![k] = "accept"]
    /\ UNCHANGED <<prog, poolVars, conn, netVars, accepted, hand, taken, pipeVars, ringVars>>

\* child02l: every child waiting in Select is told of the same connection.
SelectListen(k) ==
    /\ child[k] = "select" /\ backlog > 0
    /\ child' = [child EXCEPT ![k] = "accept"]
    /\ UNCHANGED <<prog, poolVars, conn, holder, netVars, accepted, hand, taken, pipeVars, ringVars>>

Accept(k) ==
    /\ child[k] = "accept" /\ Accepts
    /\ Starts(k, accepted')
    /\ child' = [child EXCEPT ![k] = IF Loop.lock # "none" THEN "unlock" ELSE "serve"]
    /\ UNCHANGED <<prog, poolVars, holder, made, hand, pipeVars, ringVars>>

\* my_lock_release, Pthread_mutex_unlock
LockRelease(k) ==
    /\ child[k] = "unlock"
    /\ holder' = 0
    /\ child' = [child EXCEPT ![k] = "serve"]
    /\ UNCHANGED <<prog, poolVars, conn, netVars, accepted, hand, taken, pipeVars, ringVars>>

\* child05: Read_fd on the stream pipe.
ReadFd(k) ==
    /\ child[k] = "read_fd" /\ down[k] # <<>>
    /\ Starts(k, Head(down[k]))
    /\ down' = [down EXCEPT ![k] = Tail(@)]
    /\ child' = [child EXCEPT ![k] = "serve"]
    /\ UNCHANGED <<prog, poolVars, holder, netVars, accepted, hand, status, navail, up, rset, ringVars>>

\* The other end of child k's pipe is open in the parent and, inherited, in
\* the children forked after it.
ParentEndOpen(k) == pc \notin {"done", "killed"} \/ \E j \in Kids : j > k /\ child[j] \in Working

\* err_quit("read_fd returned 0")
ReadFdEof(k) ==
    /\ child[k] = "read_fd" /\ down[k] = <<>> /\ ~ParentEndOpen(k)
    /\ Dies({k})
    /\ UNCHANGED <<prog, poolVars, netVars, accepted, hand, taken, pipeVars, ringVars>>

Empty == iget = iput

Gets(k) == ~Empty

\* pthread08, under clifd_mutex: wait while the ring is empty ...
CondWait(k) ==
    /\ child[k] \in {"get", "woken"} /\ ~Gets(k)
    /\ child' = [child EXCEPT ![k] = "cond_wait"]
    /\ UNCHANGED <<prog, poolVars, conn, holder, netVars, accepted, hand, taken, pipeVars, ringVars>>

\* ... and take clifd[iget].
Get(k) ==
    /\ child[k] \in {"get", "woken"} /\ Gets(k)
    /\ Starts(k, ring[iget])
    /\ iget' = Succ(iget)
    /\ child' = [child EXCEPT ![k] = "serve"]
    /\ UNCHANGED <<prog, poolVars, holder, netVars, accepted, hand, pipeVars, ring, iput>>

\* pthread_cond_wait may return without a signal.
SpuriousWakeup(k) ==
    /\ child[k] = "cond_wait"
    /\ child' = [child EXCEPT ![k] = "woken"]
    /\ UNCHANGED <<prog, poolVars, conn, holder, netVars, accepted, hand, taken, pipeVars, ringVars>>

\* web_child returns when the client has closed; Close(connfd).
ServeDone(k) ==
    /\ child[k] = "serve"
    /\ conn' = [conn EXCEPT ![k] = 0]
    /\ child' = [child EXCEPT ![k] = IF Loop.intake = "read_fd" THEN "ready" ELSE Loop.intake]
    /\ UNCHANGED <<prog, poolVars, holder, netVars, accepted, hand, taken, pipeVars, ringVars>>

\* child05: Write(STDERR_FILENO, "", 1); SIGPIPE if the other end is closed.
WriteReady(k) ==
    /\ child[k] = "ready"
    /\ IF ~ParentEndOpen(k)
       THEN Dies({k}) /\ up' = up
       ELSE /\ up' = [up EXCEPT ![k] = @ + 1]
            /\ child' = [child EXCEPT ![k] = Loop.intake]
            /\ UNCHANGED <<conn, holder>>
    /\ UNCHANGED <<prog, poolVars, netVars, accepted, hand, taken, status, navail, down, rset, ringVars>>

\* err_quit or err_sys in web_child or Accept, SIGPIPE: nobody makes another
\* worker; a thread takes the whole process along.
ChildEnds(k) ==
    /\ MayDie /\ child[k] \in Working
    /\ IF Threads THEN ProcessEnds("killed") ELSE Dies({k}) /\ pc' = pc
    /\ UNCHANGED <<prog, i, pids, netVars, accepted, hand, taken, pipeVars, ringVars>>

Child(k) ==
    \/ LockWait(k) \/ SelectListen(k) \/ Accept(k) \/ LockRelease(k) \/ ServeDone(k)
    \/ ReadFd(k) \/ ReadFdEof(k) \/ WriteReady(k) \/ CondWait(k) \/ Get(k)

Connect ==
    /\ backlog < LISTENQ /\ made < MaxConn
    /\ backlog' = backlog + 1 /\ made' = made + 1
    /\ UNCHANGED <<prog, poolVars, child, conn, holder, accepted, hand, taken, pipeVars, ringVars>>

\* A client gives up before accept; the kernel drops the connection.
Abort ==
    /\ backlog > 0
    /\ backlog' = backlog - 1
    /\ UNCHANGED <<prog, poolVars, child, conn, holder, made, accepted, hand, taken, pipeVars, ringVars>>

NoWorker == \A k \in Kids : child[k] \notin Working

\* The mutex of lock_pthread, locked by a child that is gone.
Orphaned == holder # 0 /\ child[holder] \notin Working

\* Waiting for connections that no longer come, or ended.
Idle ==
    /\ made = MaxConn \/ pc \in {"done", "killed"} \/ NoWorker \/ Orphaned
    /\ UNCHANGED vars

Next ==
    \/ Parent \/ Interrupt \/ Connect \/ Abort \/ Idle
    \/ \E k \in Kids : Child(k) \/ SpuriousWakeup(k) \/ ChildEnds(k)

Spec == Init /\ [][Next]_vars

\* Processes and threads run; clients close their connections at some point.
FairSpec == Spec /\ WF_vars(Parent) /\ \A k \in Kids : WF_vars(Child(k))

-----------------------------------------------------------------------------
(* Properties. *)

\* sig_int signals its own children only: each pids[i] is the process ID of
\* a child that has not been waited for, never 0 and never a recycled ID.
KillsOwnChildren ==
    pc = "kill" => \A k \in i..N : pids[k] # 0 /\ child[pids[k]] \in Working \cup {"zombie"}

\* serv08: the descriptors between iget and iput are the connections accepted
\* and not taken yet, in order, except the one in main's hand.
RingKept ==
    Loop.intake = "get" /\ Live =>
        LET len == IF iput >= iget THEN iput - iget ELSE iput + MAXNCLI - iget
        IN  /\ {ring[(iget + s) % MAXNCLI] : s \in 0..(len - 1)} = (1..accepted) \ (taken \cup {hand})
            /\ \A s \in 0..(len - 2) : ring[(iget + s) % MAXNCLI] < ring[(iget + s + 1) % MAXNCLI]

\* Once sig_int runs in a preforking parent, the parent comes to its exit, and
\* leaves no child behind, running or zombie.
StopsEventually == pc = "kill" ~> (pc = "done" /\ \A k \in Kids : child[k] = "collected")

Down == NoWorker \/ (Orphaned /\ Loop.lock = "mutex") \/ pc \in {"done", "killed"}

\* Connections are accepted as long as a worker is left, unless a child of
\* serv04 ended with the mutex: the record lock of serv03 does not stay
\* behind with a child that ended inside accept.
Drains == backlog = LISTENQ ~> (backlog < LISTENQ \/ Down)

\* serv05 in its blocking Accept after the connection Select reported was
\* aborted: it does not see its pipes until another client comes.
HeldInAccept == Loop.intake = "read_fd" /\ pc = "accept" /\ backlog = 0

\* A connection the parent accepted (serv05, serv08) gets to a worker: no
\* wakeup is lost, no ready child forgotten.  Otherwise the server is down,
\* or a child died with the connection and serv05 is held in Accept.
Handed == \A c \in Conns : accepted >= c ~> (c \in taken \/ Down \/ HeldInAccept)
=============================================================================
