----------------------------- MODULE Connections -----------------------------
(***************************************************************************)
(* The TCP connections of a server process as its system calls see them,   *)
(* and the clients at their other ends.  Not code of the repository: what  *)
(* accept, read, write and close do for tcp_serv_select01 and              *)
(* tcp_serv_poll01.                                                        *)
(***************************************************************************)
EXTENDS Integers

CONSTANTS
    ListenFd,   \* the listening descriptor
    OpenMax,    \* descriptors are 0..OpenMax-1 (RLIMIT_NOFILE)
    LISTENQ,    \* bound: completed connections waiting for accept
    InCap,      \* bound: reads' worth of unread data per connection
    OutCap,     \* replies a client's window takes before Writen blocks
    MayAbort,   \* a client may abort a connection that waits for accept
    MayReset    \* a client may reset an accepted connection

ASSUME ConnAssumption ==
    /\ ListenFd \in Nat /\ OpenMax \in Nat /\ ListenFd < OpenMax
    /\ LISTENQ \in Nat \ {0} /\ InCap \in Nat \ {0} /\ OutCap \in Nat \ {0}
    /\ MayAbort \in BOOLEAN /\ MayReset \in BOOLEAN

VARIABLES
    open,    \* connected descriptors the process holds
    backlog, \* connections waiting for accept
    inq,     \* unread data, per descriptor
    fin,     \* descriptors whose client has closed
    rst,     \* descriptors whose client has reset the connection, or is
             \* unreachable (ETIMEDOUT)
    outq     \* replies the client has not taken yet, per descriptor

connVars == <<open, backlog, inq, fin, rst, outq>>

ConnFds == (ListenFd + 1)..(OpenMax - 1)

ConnTypeOK ==
    /\ open \subseteq ConnFds
    /\ backlog \in 0..LISTENQ
    /\ inq \in [ConnFds -> 0..InCap] /\ outq \in [ConnFds -> 0..OutCap]
    /\ fin \subseteq ConnFds /\ rst \subseteq ConnFds

ConnInit ==
    /\ open = {} /\ backlog = 0 /\ fin = {} /\ rst = {}
    /\ inq = [fd \in ConnFds |-> 0] /\ outq = [fd \in ConnFds |-> 0]

-----------------------------------------------------------------------------
(* System calls. *)

Lowest(S) == {x \in S : \A y \in S : x <= y}
FreeFds   == ConnFds \ open

\* read would return at once: data, end of file or an error.
ReadReady(fd) == inq[fd] > 0 \/ fd \in fin \/ fd \in rst

\* accept returns the lowest free descriptor.
AcceptAs(fd) ==
    /\ backlog > 0 /\ fd \in Lowest(FreeFds)
    /\ backlog' = backlog - 1
    /\ open' = open \cup {fd}
    /\ UNCHANGED <<inq, fin, rst, outq>>

AcceptFails == backlog > 0 /\ FreeFds = {} /\ UNCHANGED connVars

\* read returns some of the data, 0, or an error.
ReadSome(fd) ==
    /\ \E n \in 1..inq[fd] : inq' = [inq EXCEPT ![fd] = @ - n]
    /\ UNCHANGED <<open, backlog, fin, rst, outq>>

ReadsEof(fd)   == inq[fd] = 0 /\ fd \in fin /\ fd \notin rst
ReadsReset(fd) == inq[fd] = 0 /\ fd \in rst

WriteReplyLoops(fd) == FALSE  \* mutant: writen does not subtract what it wrote

\* Writen returns once the client's window has room.
WriteReply(fd) ==
    /\ fd \notin rst /\ outq[fd] < OutCap
    /\ outq' = [outq EXCEPT ![fd] = @ + 1]
    /\ UNCHANGED <<open, backlog, inq, fin, rst>>

CloseFd(fd) ==
    /\ open' = open \ {fd} /\ fin' = fin \ {fd} /\ rst' = rst \ {fd}
    /\ outq' = [outq EXCEPT ![fd] = 0]
    /\ UNCHANGED <<backlog, inq>>

-----------------------------------------------------------------------------
(* Clients. *)

Connect ==
    /\ backlog < LISTENQ
    /\ backlog' = backlog + 1
    /\ UNCHANGED <<open, inq, fin, rst, outq>>

\* A reset for a connection that waits for accept: it is gone, or accept gets
\* ECONNABORTED for it and the wrapper Accept starts again.
ClientAbort ==
    /\ MayAbort /\ backlog > 0
    /\ backlog' = backlog - 1
    /\ UNCHANGED <<open, inq, fin, rst, outq>>

Send(fd) ==
    /\ fd \in open \ (fin \cup rst) /\ inq[fd] < InCap
    /\ inq' = [inq EXCEPT ![fd] = @ + 1]
    /\ UNCHANGED <<open, backlog, fin, rst, outq>>

ClientClose(fd) ==
    /\ fd \in open \ (fin \cup rst)
    /\ fin' = fin \cup {fd}
    /\ UNCHANGED <<open, backlog, inq, rst, outq>>

ClientReset(fd) ==
    /\ MayReset /\ fd \in open \ rst
    /\ rst' = rst \cup {fd}
    /\ UNCHANGED <<open, backlog, inq, fin, outq>>

\* The client reads a reply.
Take(fd) ==
    /\ outq[fd] > 0
    /\ outq' = [outq EXCEPT ![fd] = @ - 1]
    /\ UNCHANGED <<open, backlog, inq, fin, rst>>

Clients ==
    \/ Connect \/ ClientAbort
    \/ \E fd \in ConnFds : Send(fd) \/ ClientClose(fd) \/ ClientReset(fd) \/ Take(fd)
=============================================================================
