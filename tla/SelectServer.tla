----------------------------- MODULE SelectServer -----------------------------
(***************************************************************************)
(* tcp_serv_select01: one process that serves every client with select.    *)
(* Clients act between any two of its system calls, so what Select         *)
(* reported may be old when the server acts on it.                         *)
(***************************************************************************)
EXTENDS Connections, FiniteSets

CONSTANT FD_SETSIZE  \* number of entries of client[]

\* There are entries for all the descriptors accept can return: by default
\* both limits are 1024, and the descriptors up to ListenFd are taken.
ASSUME EntriesAssumption ==
    FD_SETSIZE \in Nat \ {0} /\ OpenMax - (ListenFd + 1) <= FD_SETSIZE

VARIABLES
    pc,      \* the next system call, or how the process ended
    client,  \* client[]: a connected descriptor or -1
    allset, rset, maxfd, maxi, nready,
    i        \* index of the loop over the clients

tables == <<client, allset, maxfd, maxi>>
vars   == <<pc, rset, nready, i, tables, connVars>>

Entries == 0..(FD_SETSIZE - 1)
Ends    == {"too many clients", "accept error", "read error", "sigpipe"}

TypeOK ==
    /\ ConnTypeOK
    /\ pc \in {"select", "accept", "scan", "write"} \cup Ends
    /\ client \in [Entries -> ConnFds \cup {-1}]
    /\ allset \subseteq ConnFds \cup {ListenFd}
    /\ rset \subseteq ConnFds \cup {ListenFd}
    /\ maxfd \in ListenFd..(OpenMax - 1)
    /\ maxi \in -1..(FD_SETSIZE - 1)
    /\ nready \in Nat
    /\ i \in 0..FD_SETSIZE

Init ==
    /\ ConnInit
    /\ pc = "select" /\ i = 0
    /\ client = [j \in Entries |-> -1]
    /\ maxfd = ListenFd /\ maxi = -1
    /\ allset = {ListenFd} /\ rset = {} /\ nready = 0

-----------------------------------------------------------------------------
Readable(fd)  == IF fd = ListenFd THEN backlog > 0 ELSE ReadReady(fd)

\* rset = allset, of which Select looks at the descriptors up to maxfd, blocks
\* until one is readable, and returns how many are.
Select ==
    /\ pc = "select"
    /\ rset' = {fd \in allset : fd <= maxfd /\ Readable(fd)}
    /\ rset' # {}
    /\ nready' = Cardinality(rset')
    /\ i' = 0
    /\ pc' = IF ListenFd \in rset' THEN "accept" ELSE "scan"
    /\ UNCHANGED <<tables, connVars>>

NewMaxfd(fd) == IF fd > maxfd THEN fd ELSE maxfd
NewMaxi(e)   == IF e > maxi THEN e ELSE maxi

\* "no more readable descriptors": continue after Accept, break after Read.
AfterAcceptEarly(n) == "select"  \* mutant: nready is not looked at
AfterAccept(n) == IF n <= 0 THEN "select" ELSE "scan"
AfterRead(n)   == IF n <= 0 THEN "select" ELSE "scan"

FreeEntries == {j \in Entries : client[j] < 0}

\* The first free entry of client[] takes the new descriptor; err_quit when
\* there is no such entry.
Accept ==
    /\ pc = "accept"
    /\ \E connfd \in ConnFds :
          /\ AcceptAs(connfd)
          /\ IF FreeEntries = {}
               THEN pc' = "too many clients" /\ UNCHANGED <<tables, nready>>
               ELSE \E e \in Lowest(FreeEntries) :
                      /\ client' = [client EXCEPT ![e] = connfd]
                      /\ allset' = allset \cup {connfd}
                      /\ maxfd' = NewMaxfd(connfd)
                      /\ maxi' = NewMaxi(e)
                      /\ nready' = nready - 1
                      /\ pc' = AfterAccept(nready')
    /\ UNCHANGED <<rset, i>>

\* No descriptor is left (EMFILE): Accept calls err_sys.
AcceptError ==
    /\ pc = "accept" /\ AcceptFails
    /\ pc' = "accept error"
    /\ UNCHANGED <<rset, nready, i, tables>>

\* The head of the loop: its end, or an entry that is free or not reported.
Scan ==
    /\ pc = "scan"
    /\ IF i > maxi
         THEN pc' = "select" /\ i' = i
         ELSE (client[i] < 0 \/ client[i] \notin rset) /\ i' = i + 1 /\ pc' = "scan"
    /\ UNCHANGED <<rset, nready, tables, connVars>>

\* The loop calls Read for entry i.
AtRead == pc = "scan" /\ i <= maxi /\ client[i] >= 0 /\ client[i] \in rset

ReadData ==
    /\ AtRead /\ ReadSome(client[i])
    /\ pc' = "write"
    /\ UNCHANGED <<rset, nready, i, tables>>

\* Writen returns; then --nready.
WriteBack ==
    /\ pc = "write" /\ WriteReply(client[i])
    /\ nready' = nready - 1
    /\ pc' = AfterRead(nready')
    /\ i' = i + 1
    /\ UNCHANGED <<rset, tables>>

\* The client has reset the connection: write raises SIGPIPE.
WriteReset ==
    /\ pc = "write" /\ client[i] \in rst
    /\ pc' = "sigpipe"
    /\ UNCHANGED <<rset, nready, i, tables, connVars>>

UnwatchedNot(fd) == allset  \* mutant: FD_CLR is forgotten

EntryFreedNot(fd) == client  \* mutant: the entry of a closed descriptor is kept

\* FD_CLR and client[i] = -1.
Unwatched(fd)  == allset \ {fd}
EntryFreed(fd) == [client EXCEPT ![i] = -1]

\* Read returns 0: Close, FD_CLR, the entry is free again.
ReadEof ==
    /\ AtRead /\ ReadsEof(client[i]) /\ CloseFd(client[i])
    /\ allset' = Unwatched(client[i])
    /\ client' = EntryFreed(client[i])
    /\ nready' = nready - 1
    /\ pc' = AfterRead(nready')
    /\ i' = i + 1
    /\ UNCHANGED <<rset, maxfd, maxi>>

\* Read fails with ECONNRESET: the wrapper calls err_sys and every client
\* loses its server.
ReadReset ==
    /\ AtRead /\ ReadsReset(client[i])
    /\ pc' = "read error"
    /\ UNCHANGED <<rset, nready, i, tables, connVars>>

Server ==
    \/ Select \/ Accept \/ AcceptError
    \/ Scan \/ ReadData \/ WriteBack \/ WriteReset
    \/ ReadEof \/ ReadReset

ClientStep == pc \notin Ends /\ Clients /\ UNCHANGED <<pc, rset, nready, i, tables>>

\* The process has ended.
Ended == pc \in Ends /\ UNCHANGED vars

Next == Server \/ ClientStep \/ Ended

Spec == Init /\ [][Next]_vars

\* The process runs, and clients read their replies.
FairSpec ==
    /\ Spec /\ WF_vars(Server)
    /\ \A fd \in ConnFds : WF_vars(Take(fd) /\ ClientStep)

-----------------------------------------------------------------------------
(* Properties. *)

Used == {j \in Entries : client[j] >= 0}

\* The four places that know the connections agree between any two system
\* calls: the descriptors the process holds, the entries of client[] up to
\* maxi (each descriptor once), and allset up to maxfd.
TablesAgree ==
    /\ open = {client[j] : j \in Used}
    /\ \A j, k \in Used : client[j] = client[k] => j = k
    /\ \A j \in Used : j <= maxi
    /\ allset = open \cup {ListenFd}
    /\ \A fd \in allset : fd <= maxfd

\* Read is only called on a descriptor that has something to return, even
\* after Accept and Close changed the tables in the same round: the one
\* process never blocks in Read while other clients wait.
NoBlockingRead == AtRead => ReadReady(client[i])

\* "no more readable descriptors": when the loop is left, by continue, by
\* break or at its end, every descriptor Select reported was served.
NoneSkipped == pc = "select" => nready = 0

\* A round serves exactly what Select reported: no more, so that Read never
\* blocks, and no less.
RoundExact == NoBlockingRead /\ NoneSkipped

\* err_quit("too many clients") is never reached: descriptors run out first.
NeverTooMany == pc # "too many clients"

\* Data that arrived on a connection is read, whatever the other clients do,
\* unless the process ends, or stays in Accept for good because each
\* connection that is to be accepted is aborted first.
Served ==
    \/ \A fd \in ConnFds : inq[fd] > 0 ~> (inq[fd] = 0 \/ pc \in Ends)
    \/ <>[](pc = "accept")

Owed == IF pc = "write" THEN {client[i]} ELSE {}

Service == INSTANCE ConnService WITH owed <- Owed, stopped <- pc \in Ends

\* Through all its tables and rounds the process is the service its clients
\* count on: every reply goes to the client whose data was read, and only a
\* client's reset or a lack of descriptors ends it.
ServiceKept == Service!Spec
=============================================================================
