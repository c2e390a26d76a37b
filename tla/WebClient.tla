------------------------------ MODULE WebClient ------------------------------
(***************************************************************************)
(* The clients that fetch several files over at most maxnconn connections  *)
(* at a time: web01, web02, web03 with a thread for each file, and web     *)
(* with nonblocking connects and select.  The main thread starts as many   *)
(* fetches as it may and then collects what is finished.                   *)
(***************************************************************************)
EXTENDS Naturals, Integers, FiniteSets, FiniteSetsExt

CONSTANTS
    nfiles,    \* files to fetch
    maxnconn,  \* connections at a time
    Programs,  \* the programs considered
    MayFail    \* connections may be refused or reset

ASSUME WebClientAssumption ==
    nfiles \in Nat \ {0} /\ maxnconn \in Nat \ {0} /\ MayFail \in BOOLEAN

-----------------------------------------------------------------------------
(* The programs: whether f_flags is set to F_CONNECTING before or after    *)
(* the thread is created, and how main learns that a fetch is over.        *)

web01 == [mark |-> "before", collect |-> "thr_join"]
web02 == [mark |-> "after",  collect |-> "poll"]
web03 == [mark |-> "before", collect |-> "cond"]
web   == [mark |-> "before", collect |-> "select"]

AllPrograms == {web01, web02, web03, web}

ASSUME ProgramsAssumption == Programs \subseteq AllPrograms

VARIABLES
    prog,        \* the program
    pc,          \* main: "fill", "mark", "collect", "cond_wait", "scan",
                 \* "join", "exit", "quit" (err_quit, err_sys or SIGPIPE)
    i,           \* index of the loops over file[]
    f_flags,     \* "0", "F_CONNECTING", "F_READING", "F_DONE", "F_JOINED"
    thread,      \* "none", "connect", "write", "read", "count", "ended", "joined"
    nconn, nlefttoconn, nlefttoread,
    ndone,       \* number of terminated threads, under ndone_mutex
    server,      \* the connection: "none", "syn", "up", "refused", "data", "eof"
    rs           \* what Select reported: files, by their descriptors

counts == <<nconn, nlefttoconn, nlefttoread>>
vars == <<prog, pc, i, f_flags, thread, nconn, nlefttoconn, nlefttoread, ndone, server, rs>>

Files    == 1..nfiles
Threaded == prog.collect # "select"

TypeOK ==
    /\ prog \in Programs
    /\ pc \in {"fill", "mark", "collect", "cond_wait", "scan", "join", "exit", "quit"}
    /\ i \in 1..(nfiles + 1)
    /\ f_flags \in [Files -> {"0", "F_CONNECTING", "F_READING", "F_DONE", "F_JOINED"}]
    /\ thread \in [Files -> {"none", "connect", "write", "read", "count", "ended", "joined"}]
    /\ nconn \in 0..maxnconn /\ nlefttoconn \in 0..nfiles /\ nlefttoread \in 0..nfiles
    /\ ndone \in Int
    /\ server \in [Files -> {"none", "syn", "up", "refused", "data", "eof"}]
    /\ rs \subseteq Files

\* After home_page.
Init ==
    /\ prog \in Programs
    /\ pc = "fill" /\ i = 1
    /\ f_flags = [f \in Files |-> "0"] /\ thread = [f \in Files |-> "none"]
    /\ nconn = 0 /\ nlefttoconn = nfiles /\ nlefttoread = nfiles /\ ndone = 0
    /\ server = [f \in Files |-> "none"] /\ rs = {}

-----------------------------------------------------------------------------
(* Main. *)

RoomOver == nconn <= maxnconn /\ nlefttoconn > 0  \* mutant: one too many
Room     == nconn < maxnconn /\ nlefttoconn > 0

Unstarted == {f \in Files : f_flags[f] = "0"}

\* Pthread_create(&tid, NULL, &do_get_read, &file[i]), or start_connect, for
\* the first file not started; if there were none, err_quit("nlefttoconn = %d
\* but nothing found").
Start ==
    /\ pc = "fill" /\ nlefttoread > 0 /\ Room /\ Unstarted # {}
    /\ i' = Min(Unstarted)
    /\ server' = [server EXCEPT ![i'] = "syn"]
    /\ nconn' = nconn + 1 /\ nlefttoconn' = nlefttoconn - 1
    /\ thread' = IF Threaded THEN [thread EXCEPT ![i'] = "connect"] ELSE thread
    /\ \/ /\ prog.mark = "before"
          /\ f_flags' = [f_flags EXCEPT ![i'] = "F_CONNECTING"]
          /\ pc' = "fill"
       \/ /\ prog.mark = "after"
          /\ pc' = "mark" /\ f_flags' = f_flags
    /\ UNCHANGED <<prog, nlefttoread, ndone, rs>>

\* start_connect when connect is done at once: write_get_cmd.
StartConnected ==
    /\ pc = "fill" /\ nlefttoread > 0 /\ Room /\ Unstarted # {} /\ ~Threaded
    /\ i' = Min(Unstarted)
    /\ server' = [server EXCEPT ![i'] = "data"]
    /\ nconn' = nconn + 1 /\ nlefttoconn' = nlefttoconn - 1
    /\ f_flags' = [f_flags EXCEPT ![i'] = "F_READING"]
    /\ UNCHANGED <<prog, pc, thread, nlefttoread, ndone, rs>>

\* web02: file[i].f_flags = F_CONNECTING, with the thread running already.
Mark ==
    /\ pc = "mark"
    /\ f_flags' = [f_flags EXCEPT ![i] = "F_CONNECTING"]
    /\ pc' = "fill"
    /\ UNCHANGED <<prog, i, thread, counts, ndone, server, rs>>

Filled ==
    /\ pc = "fill" /\ ~(nlefttoread > 0 /\ Room)
    /\ pc' = IF nlefttoread = 0 THEN "exit" ELSE "collect"
    /\ UNCHANGED <<prog, i, f_flags, thread, counts, ndone, server, rs>>

Collected == nconn' = nconn - 1 /\ nlefttoread' = nlefttoread - 1

\* web01: thr_join(0, ...) gets any thread that has ended.
ThrJoin ==
    /\ pc = "collect" /\ prog.collect = "thr_join"
    /\ \E f \in Files : thread[f] = "ended" /\ thread' = [thread EXCEPT ![f] = "joined"]
    /\ Collected
    /\ pc' = "fill"
    /\ UNCHANGED <<prog, i, f_flags, nlefttoconn, ndone, server, rs>>

\* web02, web03: lock ndone_mutex; main has it in "scan" and "join".
LockNdone ==
    /\ pc = "collect" /\ prog.collect \in {"poll", "cond"}
    /\ i' = 1
    /\ pc' = IF ndone > 0 THEN "scan"
             ELSE IF prog.collect = "poll" THEN "fill" ELSE "cond_wait"
    /\ UNCHANGED <<prog, f_flags, thread, counts, ndone, server, rs>>

ScanFile ==
    /\ pc = "scan" /\ Threaded /\ i <= nfiles
    /\ \/ f_flags[i] = "F_DONE" /\ pc' = "join" /\ i' = i
       \/ f_flags[i] # "F_DONE" /\ pc' = "scan" /\ i' = i + 1
    /\ UNCHANGED <<prog, f_flags, thread, counts, ndone, server, rs>>

\* Pthread_join(file[i].f_tid, ...): waits for the end of that thread.
Join ==
    /\ pc = "join" /\ thread[i] = "ended"
    /\ thread' = [thread EXCEPT ![i] = "joined"]
    /\ f_flags' = [f_flags EXCEPT ![i] = "F_JOINED"]
    /\ ndone' = ndone - 1
    /\ Collected
    /\ pc' = "scan" /\ i' = i + 1
    /\ UNCHANGED <<prog, nlefttoconn, server, rs>>

Scanned ==
    /\ pc = "scan" /\ i > nfiles
    /\ pc' = "fill" /\ i' = 1
    /\ UNCHANGED <<prog, f_flags, thread, counts, ndone, server, rs>>

\* web: Select on rset and wset.
Select ==
    /\ pc = "collect" /\ prog.collect = "select"
    /\ LET ready == {f \in Files :
                       \/ f_flags[f] = "F_CONNECTING" /\ server[f] \in {"up", "refused"}
                       \/ f_flags[f] = "F_READING" /\ server[f] \in {"data", "eof", "refused"}}
       IN  ready # {} /\ rs' = ready
    /\ pc' = "scan" /\ i' = 1
    /\ UNCHANGED <<prog, f_flags, thread, counts, ndone, server>>

\* web: one round of the loop over file[].  A failed connect is reported and
\* then written to all the same: Writen fails, the program ends.
SelectScan ==
    /\ pc = "scan" /\ ~Threaded /\ i <= nfiles
    /\ \/ /\ i \in rs /\ server[i] = "refused"
          /\ pc' = "quit"
          /\ UNCHANGED <<i, f_flags, counts, server>>
       \/ /\ i \in rs /\ f_flags[i] = "F_CONNECTING" /\ server[i] # "refused"
          /\ f_flags' = [f_flags EXCEPT ![i] = "F_READING"]     \* write_get_cmd
          /\ i' = i + 1
          /\ UNCHANGED <<pc, counts, server>>
       \/ /\ i \in rs /\ f_flags[i] = "F_READING" /\ server[i] = "data"
          /\ server' = [server EXCEPT ![i] = "eof"]             \* what follows
          /\ i' = i + 1
          /\ UNCHANGED <<pc, f_flags, counts>>
       \/ /\ i \in rs /\ f_flags[i] = "F_READING" /\ server[i] = "eof"
          /\ f_flags' = [f_flags EXCEPT ![i] = "F_DONE"]
          /\ Collected
          /\ i' = i + 1
          /\ UNCHANGED <<pc, nlefttoconn, server>>
       \/ /\ i \notin rs
          /\ i' = i + 1
          /\ UNCHANGED <<pc, f_flags, counts, server>>
    /\ UNCHANGED <<prog, thread, ndone, rs>>

Main ==
    \/ Start \/ StartConnected \/ Mark \/ Filled \/ ThrJoin \/ LockNdone
    \/ ScanFile \/ Join \/ Scanned \/ Select \/ SelectScan

-----------------------------------------------------------------------------
(* The threads: do_get_read. *)

Running == pc \notin {"exit", "quit"}

\* Tcp_connect
TcpConnect(f) ==
    /\ Running /\ thread[f] = "connect" /\ server[f] = "up"
    /\ thread' = [thread EXCEPT ![f] = "write"]
    /\ UNCHANGED <<prog, pc, i, f_flags, counts, ndone, server, rs>>

\* write_get_cmd
WriteGetCmd(f) ==
    /\ Running /\ thread[f] = "write"
    /\ thread' = [thread EXCEPT ![f] = "read"]
    /\ f_flags' = [f_flags EXCEPT ![f] = "F_READING"]
    /\ UNCHANGED <<prog, pc, i, counts, ndone, server, rs>>

\* Read until it returns 0; Close; f_flags = F_DONE.
ReadToEof(f) ==
    /\ Running /\ thread[f] = "read" /\ server[f] = "eof"
    /\ f_flags' = [f_flags EXCEPT ![f] = "F_DONE"]
    /\ thread' = [thread EXCEPT ![f] = IF prog.collect = "thr_join" THEN "ended" ELSE "count"]
    /\ UNCHANGED <<prog, pc, i, counts, ndone, server, rs>>

SignalledNot == pc  \* mutant: no Pthread_cond_signal
Signalled    == IF pc = "cond_wait" THEN "collect" ELSE pc

\* ndone++ and Pthread_cond_signal under ndone_mutex; the thread returns.
Count(f) ==
    /\ Running /\ thread[f] = "count" /\ pc \notin {"scan", "join"}
    /\ ndone' = ndone + 1
    /\ pc' = Signalled
    /\ thread' = [thread EXCEPT ![f] = "ended"]
    /\ UNCHANGED <<prog, i, f_flags, counts, server, rs>>

\* Tcp_connect, Writen or Read fail: err_quit or err_sys, for all threads.
Fails(f) ==
    /\ Running /\ thread[f] \in {"connect", "write", "read"} /\ server[f] = "refused"
    /\ pc' = "quit"
    /\ UNCHANGED <<prog, i, f_flags, thread, counts, ndone, server, rs>>

Thread(f) == TcpConnect(f) \/ WriteGetCmd(f) \/ ReadToEof(f) \/ Count(f) \/ Fails(f)

-----------------------------------------------------------------------------
(* The servers. *)

Asked(f) == IF Threaded THEN thread[f] = "read" ELSE f_flags[f] = "F_READING"

\* Accept, and answer the GET with data and end of file; the threads read
\* both in one loop.
Serve(f) ==
    /\ \/ server[f] = "syn" /\ server' = [server EXCEPT ![f] = "up"]
       \/ server[f] = "up" /\ Asked(f)
          /\ server' = [server EXCEPT ![f] = IF Threaded THEN "eof" ELSE "data"]
    /\ UNCHANGED <<prog, pc, i, f_flags, thread, counts, ndone, rs>>

Refuse(f) ==
    /\ MayFail /\ server[f] \in {"syn", "up", "data"}
    /\ server' = [server EXCEPT ![f] = "refused"]
    /\ UNCHANGED <<prog, pc, i, f_flags, thread, counts, ndone, rs>>

\* Main holds ndone_mutex and waits for a thread that waits for ndone_mutex.
JoinDeadlock == pc = "join" /\ thread[i] = "count"

\* The thread's F_DONE was overwritten with F_CONNECTING: nobody will join it.
FlagLost == \E f \in Files : thread[f] = "ended" /\ f_flags[f] \in {"F_CONNECTING", "F_READING"}

Next ==
    \/ Main
    \/ \E f \in Files : Thread(f) \/ Serve(f) \/ Refuse(f)

Spec == Init /\ [][Next]_vars

\* Main and the threads run, a thread that wants the mutex gets it in the end
\* (web02 calls thr_yield for that), and servers answer.
FairSpec ==
    /\ Spec /\ WF_vars(Main)
    /\ \A f \in Files : SF_vars(Thread(f)) /\ WF_vars(Serve(f))

-----------------------------------------------------------------------------
(* Properties. *)

InFlight(f) ==
    IF Threaded THEN thread[f] \notin {"none", "joined"}
                ELSE f_flags[f] \in {"F_CONNECTING", "F_READING"}

\* The counters tell the truth about file[] whenever main decides by them, in
\* spite of threads that change f_flags and ndone: connections in use, files
\* to start, files to finish; the limit holds, and "nlefttoconn = %d but
\* nothing found" cannot happen.
CountsAgree ==
    pc \in {"fill", "collect", "exit"} =>
        /\ nconn = Cardinality({f \in Files : InFlight(f)}) /\ nconn <= maxnconn
        /\ nlefttoconn = Cardinality(Unstarted)
        /\ nlefttoread = nlefttoconn + nconn

\* All files are fetched and the program exits, or a connection failed.
\* web02 and web03 may instead stop for good in one of two ways: main joins
\* a thread that set F_DONE and is not counted yet, or (web02 only) main
\* overwrites F_DONE.
Finishes ==
    <>( \/ pc = "exit" /\ \A f \in Files : f_flags[f] \in {"F_DONE", "F_JOINED"}
        \/ pc = "quit"
        \/ JoinDeadlock /\ prog \in {web02, web03}
        \/ FlagLost /\ prog = web02 )
=============================================================================
