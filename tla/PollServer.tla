----------------------------- MODULE PollServer -----------------------------
(***************************************************************************)
(* tcp_serv_poll01: the same service with poll.  struct pollfd client[] is *)
(* an uninitialized local array and only the .fd members are initialized:  *)
(* until poll has looked at an entry, its .revents is whatever the stack   *)
(* held.                                                                   *)
(***************************************************************************)
EXTENDS Connections, FiniteSets

CONSTANT OPEN_MAX  \* number of entries of client[]; entry 0 is listenfd

ASSUME PollEntriesAssumption ==
    OPEN_MAX \in Nat \ {0} /\ OpenMax - (ListenFd + 1) <= OPEN_MAX - 1

VARIABLES
    pc,       \* the next system call, or how the process ended
    fds,      \* client[i].fd
    revents,  \* the entries whose .revents has POLLRDNORM or POLLERR
    maxi, nready,
    i         \* index of the loop over the clients

vars == <<pc, fds, revents, maxi, nready, i, connVars>>

Entries == 1..(OPEN_MAX - 1)
Ends    == {"too many clients", "accept error", "read error", "sigpipe"}

TypeOK ==
    /\ ConnTypeOK
    /\ pc \in {"poll", "accept", "scan", "write"} \cup Ends
    /\ fds \in [Entries -> ConnFds \cup {-1}]
    /\ revents \subseteq Entries \cup {0}
    /\ maxi \in 0..(OPEN_MAX - 1)
    /\ nready \in Nat
    /\ i \in 1..OPEN_MAX

Init ==
    /\ ConnInit
    /\ pc = "poll" /\ i = 1 /\ maxi = 0 /\ nready = 0
    /\ fds = [j \in Entries |-> -1]
    /\ revents = {}

-----------------------------------------------------------------------------
\* Poll blocks until one of the entries 0..maxi is ready, sets .revents in
\* all of these (and in no other), and returns how many are ready.
Poll ==
    /\ pc = "poll"
    /\ LET ready == {j \in Entries : j <= maxi /\ fds[j] >= 0 /\ ReadReady(fds[j])}
                    \cup {j \in {0} : backlog > 0}
       IN  /\ ready # {}
           /\ revents' = ready \cup {j \in revents : j > maxi}
           /\ nready' = Cardinality(ready)
           /\ pc' = IF 0 \in ready THEN "accept" ELSE "scan"
    /\ i' = 1
    /\ UNCHANGED <<fds, maxi, connVars>>

NewMaxi(e) == IF e > maxi THEN e ELSE maxi

AfterAcceptScan(n) == "scan"  \* mutant: nready is not looked at after Accept

\* "no more readable descriptors": continue after Accept, break after read.
AfterAccept(n) == IF n <= 0 THEN "poll" ELSE "scan"
AfterRead(n)   == IF n <= 0 THEN "poll" ELSE "scan"

FreeEntries == {j \in Entries : fds[j] < 0}

\* The first free entry takes the new descriptor.  If poll has never looked
\* at the entry, its .revents may have any bits set.
Accept ==
    /\ pc = "accept"
    /\ \E connfd \in ConnFds :
          /\ AcceptAs(connfd)
          /\ IF FreeEntries = {}
               THEN pc' = "too many clients" /\ UNCHANGED <<fds, revents, maxi, nready>>
               ELSE \E e \in Lowest(FreeEntries) :
                      /\ fds' = [fds EXCEPT ![e] = connfd]
                      /\ maxi' = NewMaxi(e)
                      /\ \/ revents' = revents
                         \/ e > maxi /\ revents' = revents \cup {e}
                      /\ nready' = nready - 1
                      /\ pc' = AfterAccept(nready')
    /\ UNCHANGED i

\* No descriptor is left (EMFILE): Accept calls err_sys.
AcceptError ==
    /\ pc = "accept" /\ AcceptFails
    /\ pc' = "accept error"
    /\ UNCHANGED <<fds, revents, maxi, nready, i>>

\* The head of the loop: its end, or an entry that is free or not reported.
Scan ==
    /\ pc = "scan"
    /\ IF i > maxi
         THEN pc' = "poll" /\ i' = i
         ELSE (fds[i] < 0 \/ i \notin revents) /\ i' = i + 1 /\ pc' = "scan"
    /\ UNCHANGED <<fds, revents, maxi, nready, connVars>>

\* The loop calls read for entry i.
AtRead == pc = "scan" /\ i <= maxi /\ fds[i] >= 0 /\ i \in revents

ReadData ==
    /\ AtRead /\ ReadSome(fds[i])
    /\ pc' = "write"
    /\ UNCHANGED <<fds, revents, maxi, nready, i>>

\* Writen returns; then --nready.
WriteBack ==
    /\ pc = "write" /\ WriteReply(fds[i])
    /\ nready' = nready - 1
    /\ pc' = AfterRead(nready')
    /\ i' = i + 1
    /\ UNCHANGED <<fds, revents, maxi>>

\* The client has reset the connection: write raises SIGPIPE.
WriteReset ==
    /\ pc = "write" /\ fds[i] \in rst
    /\ pc' = "sigpipe"
    /\ UNCHANGED <<fds, revents, maxi, nready, i, connVars>>

EntryFreed == [fds EXCEPT ![i] = -1]

\* read returns 0 or ECONNRESET: the connection is closed, the others go on.
ReadGone ==
    /\ AtRead /\ (ReadsEof(fds[i]) \/ ReadsReset(fds[i])) /\ CloseFd(fds[i])
    /\ fds' = EntryFreed
    /\ nready' = nready - 1
    /\ pc' = AfterRead(nready')
    /\ i' = i + 1
    /\ UNCHANGED <<revents, maxi>>

\* errno is another one, ETIMEDOUT for a client that cannot be reached any
\* more: err_sys("read error").
ReadError ==
    /\ AtRead /\ ReadsReset(fds[i])
    /\ pc' = "read error"
    /\ UNCHANGED <<fds, revents, maxi, nready, i, connVars>>

Server ==
    \/ Poll \/ Accept \/ AcceptError \/ Scan
    \/ ReadData \/ WriteBack \/ WriteReset \/ ReadGone \/ ReadError

ClientStep == pc \notin Ends /\ Clients /\ UNCHANGED <<pc, fds, revents, maxi, nready, i>>

\* The process has ended.
Ended == pc \in Ends /\ UNCHANGED vars

Next == Server \/ ClientStep \/ Ended

Spec == Init /\ [][Next]_vars

\* The process runs, and clients read their replies.
FairSpec ==
    /\ Spec /\ WF_vars(Server)
    /\ \A fd \in ConnFds : WF_vars(Take(fd) /\ ClientStep)

-----------------------------------------------------------------------------
(* Properties. *)

\* read is only called on a descriptor that has something to return.  The
\* .revents that poll has not set yet would break this if the loop ever
\* reached it: --nready <= 0 always leaves the loop before.
NoBlockingRead == AtRead => ReadReady(fds[i])

\* Data that arrived on a connection is read, whatever the other clients do,
\* unless the process ends, or stays in Accept for good because each
\* connection that is to be accepted is aborted first.
Served ==
    \/ \A fd \in ConnFds : inq[fd] > 0 ~> (inq[fd] = 0 \/ pc \in Ends)
    \/ <>[](pc = "accept")

Owed == IF pc = "write" THEN {fds[i]} ELSE {}

Service == INSTANCE ConnService WITH owed <- Owed, stopped <- pc \in Ends

\* The same service as that of tcp_serv_select01: every reply goes to the
\* client whose data was read, and only a client that has reset the
\* connection or cannot be reached, or a lack of descriptors, ends it.
ServiceKept == Service!Spec
=============================================================================
