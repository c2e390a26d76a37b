----------------------------- MODULE EchoSession -----------------------------
(***************************************************************************)
(* One echo session: str_cli_select02 on the client, a TCP connection with *)
(* finite buffers, and str_echo in the server child that tcp_serv01 and    *)
(* tcp_serv04 fork for the connection.                                     *)
(*                                                                         *)
(* Both programs use blocking calls: the client multiplexes only its       *)
(* reads, and either side may block in Writen when the buffers ahead of it *)
(* are full.  Bytes are counted, every queue is first-in first-out.        *)
(***************************************************************************)
EXTENDS Naturals

CONSTANTS
    MAXLINE,       \* size of buf on both sides (unp.h: 4096)
    UpCap,         \* client send buffer plus server receive buffer
    SndCap,        \* server send buffer
    RcvCap,        \* client receive buffer
    Total          \* bound: bytes the user may type

ASSUME SizesAssumption ==
    /\ MAXLINE \in Nat \ {0}
    /\ UpCap \in Nat \ {0}
    /\ SndCap \in Nat \ {0}
    /\ RcvCap \in Nat
    /\ Total \in Nat

\* The client's receive buffer holds two application buffers but one byte.
\* (4096-byte buffers against a default receive buffer of 128 kB.)
ASSUME RcvCapAssumption == 2 * MAXLINE <= RcvCap + 1

VARIABLES
    left,      \* bytes the user will still type
    typed,     \* bytes typed and not yet read: the queue behind fileno(fp)
    userEof,   \* the user has closed standard input
    cpc,       \* where the client is
    rset,      \* what Select left in rset
    stdineof,  \* the flag stdineof
    cbuf,      \* bytes of buf that Writen(sockfd, buf, n) has still to write
    got,       \* bytes read from fp
    out,       \* bytes written to the user
    up,        \* bytes in the client-to-server direction
    upFin,     \* the client's FIN is behind them
    spc,       \* where the server child is
    sbuf,      \* bytes of the server's buf not yet written back
    dsnd,      \* bytes in the server's send buffer
    drcv,      \* bytes in the client's receive buffer
    dfin,      \* the server's FIN: "none", "sent" (behind dsnd) or "arrived"
    rst,       \* the client's socket has been reset
    srst       \* the server child's socket has been reset

userVars   == <<left, typed, userEof>>
clientVars == <<cpc, rset, stdineof, cbuf, got, out>>
netVars    == <<up, upFin, dsnd, drcv, dfin, rst, srst>>
serverVars == <<spc, sbuf>>
vars       == <<userVars, clientVars, netVars, serverVars>>

Fds  == {"fp", "sock"}
Min(a, b) == IF a <= b THEN a ELSE b

ServerLost  == {"premature", "err_sys", "sigpipe"}
ClientEnds  == {"normal", "fp_error", "killed", "premature", "err_sys", "sigpipe"}
ClientSteps == {"select", "sock", "fp", "write"}
ServerSteps == {"read", "write"}
ServerEnds  == {"exit", "err_sys", "dead"}

TypeOK ==
    /\ left \in 0..Total /\ typed \in 0..Total /\ userEof \in BOOLEAN
    /\ cpc \in ClientSteps \cup ClientEnds
    /\ rset \in SUBSET Fds
    /\ stdineof \in BOOLEAN
    /\ cbuf \in 0..MAXLINE /\ got \in 0..Total /\ out \in 0..Total
    /\ up \in 0..UpCap /\ upFin \in BOOLEAN
    /\ spc \in ServerSteps \cup ServerEnds
    /\ sbuf \in 0..MAXLINE
    /\ dsnd \in 0..SndCap /\ drcv \in 0..RcvCap
    /\ dfin \in {"none", "sent", "arrived"}
    /\ rst \in BOOLEAN /\ srst \in BOOLEAN

\* tcp_cli04 has connected and calls str_cli_select02 with the first of its
\* connections; the other four stay idle.
Init ==
    /\ left = Total /\ typed = 0 /\ userEof = FALSE
    /\ cpc = "select" /\ rset = {} /\ stdineof = FALSE
    /\ cbuf = 0 /\ got = 0 /\ out = 0
    /\ up = 0 /\ upFin = FALSE
    /\ spc = "read" /\ sbuf = 0
    /\ dsnd = 0 /\ drcv = 0 /\ dfin = "none" /\ rst = FALSE /\ srst = FALSE

-----------------------------------------------------------------------------
(* The user. *)

Type ==
    /\ ~userEof
    /\ \E n \in 1..left : left' = left - n /\ typed' = typed + n
    /\ UNCHANGED <<userEof, clientVars, netVars, serverVars>>

CloseStdin ==
    /\ ~userEof
    /\ userEof' = TRUE
    /\ UNCHANGED <<left, typed, clientVars, netVars, serverVars>>

\* The user interrupts the client: no handler is installed, so it ends.
Interrupt ==
    /\ cpc \in ClientSteps
    /\ cpc' = "killed"
    /\ UNCHANGED <<rset, stdineof, cbuf, got, out, userVars, netVars, serverVars>>

-----------------------------------------------------------------------------
(* The client: str_cli_select02. *)

SockReadable == drcv > 0 \/ dfin = "arrived" \/ rst
FpReadable   == typed > 0 \/ userEof

\* rset is rebuilt (fp only while stdineof is 0) and Select reports every
\* descriptor that is readable now; it blocks while there is none.
Select ==
    /\ cpc = "select"
    /\ rset' = {fd \in Fds : \/ fd = "sock" /\ SockReadable
                             \/ fd = "fp" /\ ~stdineof /\ FpReadable}
    /\ rset' # {}
    /\ cpc' = "sock"
    /\ UNCHANGED <<stdineof, cbuf, got, out, userVars, netVars, serverVars>>

SkipSock ==
    /\ cpc = "sock" /\ "sock" \notin rset
    /\ cpc' = "fp"
    /\ UNCHANGED <<rset, stdineof, cbuf, got, out, userVars, netVars, serverVars>>

SockBytesOne == 1  \* mutant: a byte at a time

\* Read returns what the receive buffer holds, at most MAXLINE bytes.
SockBytes == Min(MAXLINE, drcv)

\* The bytes are read and written to fileno(fp), not to stdout: a terminal is
\* open for writing, but if a redirected file is not, Write calls err_sys.
ReadSock ==
    /\ cpc = "sock" /\ "sock" \in rset /\ drcv > 0
    /\ drcv' = drcv - SockBytes
    /\ \/ out' = out + SockBytes /\ cpc' = "fp"
       \/ out' = out /\ cpc' = "fp_error"
    /\ UNCHANGED <<rset, stdineof, cbuf, got, up, upFin, dsnd, dfin, rst,
                   srst, userVars, serverVars>>

\* Mutants: stdineof is not looked at; the end of file is not noticed.
AfterSockEofAlways == "premature"
AfterSockEofNot    == "fp"

\* A return if stdineof is set, err_quit otherwise.
AfterSockEof == IF stdineof THEN "normal" ELSE "premature"

\* Read returns 0.
SockEof ==
    /\ cpc = "sock" /\ "sock" \in rset /\ drcv = 0 /\ dfin = "arrived"
    /\ cpc' = AfterSockEof
    /\ UNCHANGED <<rset, stdineof, cbuf, got, out, userVars, netVars, serverVars>>

\* Read fails with ECONNRESET: the wrapper ends the process.
SockReset ==
    /\ cpc = "sock" /\ "sock" \in rset /\ drcv = 0 /\ rst
    /\ cpc' = "err_sys"
    /\ UNCHANGED <<rset, stdineof, cbuf, got, out, userVars, netVars, serverVars>>

SkipFp ==
    /\ cpc = "fp" /\ "fp" \notin rset
    /\ cpc' = "select"
    /\ UNCHANGED <<rset, stdineof, cbuf, got, out, userVars, netVars, serverVars>>

\* A terminal returns a line at a time, a file as much as fits in buf.
ReadFp ==
    /\ cpc = "fp" /\ "fp" \in rset
    /\ \E n \in 1..Min(MAXLINE, typed) :
          /\ typed' = typed - n
          /\ got' = got + n
          /\ cbuf' = n
    /\ cpc' = "write"
    /\ UNCHANGED <<left, userEof, rset, stdineof, out, netVars, serverVars>>

AfterFpEof == "select"  \* continue

\* End of file on fp: stdineof is set and the FIN is sent, fp leaves rset.
\* Shutdown of a socket that was reset fails: err_sys.
FpEof ==
    /\ cpc = "fp" /\ "fp" \in rset /\ typed = 0
    /\ stdineof' = TRUE
    /\ upFin' = TRUE
    /\ rset' = rset \ {"fp"}
    /\ cpc' = IF rst THEN "err_sys" ELSE AfterFpEof
    /\ UNCHANGED <<cbuf, got, out, up, dsnd, drcv, dfin, rst, srst, userVars, serverVars>>

\* Writen copies into the send buffer whatever fits and blocks for the rest.
WriteSock ==
    /\ cpc = "write" /\ ~rst
    /\ \E k \in 1..Min(cbuf, UpCap - up) :
          /\ up' = up + k
          /\ cbuf' = cbuf - k
          /\ cpc' = IF k = cbuf THEN "select" ELSE "write"
    /\ UNCHANGED <<rset, stdineof, got, out, upFin, dsnd, drcv, dfin, rst,
                   srst, userVars, serverVars>>

\* write on a socket that was reset fails, Writen calls err_sys, or it raises
\* SIGPIPE (when the server's FIN came before the reset).
WriteReset ==
    /\ cpc = "write" /\ rst
    /\ cpc' = IF dfin = "arrived" THEN "sigpipe" ELSE "err_sys"
    /\ UNCHANGED <<rset, stdineof, cbuf, got, out, userVars, netVars, serverVars>>

Client ==
    \/ Select \/ SkipSock \/ ReadSock \/ SockEof \/ SockReset
    \/ SkipFp \/ ReadFp \/ FpEof \/ WriteSock \/ WriteReset

-----------------------------------------------------------------------------
(* The server child: str_echo, then exit(0). *)

UpLeftPeek(k) == up  \* mutant: the bytes read are not consumed
UpLeft(k)     == up - k

\* read returns what has arrived, which may be any part of what was sent.  A
\* reset does not take away what the receive buffer holds.
EchoRead ==
    /\ spc = "read"
    /\ \E k \in 1..Min(MAXLINE, up) : up' = UpLeft(k) /\ sbuf' = k
    /\ spc' = "write"
    /\ UNCHANGED <<upFin, dsnd, drcv, dfin, rst, srst, userVars, clientVars>>

\* read returns 0: str_echo returns and the child's exit closes connfd.
EchoEof ==
    /\ spc = "read" /\ up = 0 /\ upFin /\ ~srst
    /\ spc' = "exit"
    /\ dfin' = "sent"
    /\ UNCHANGED <<sbuf, up, upFin, dsnd, drcv, rst, srst, userVars, clientVars>>

AfterReadErrorAgain == "read"  \* mutant: goto again, whatever errno is

\* err_sys("str_echo: read error"); only EINTR goes back to the read.
AfterReadError == "err_sys"

\* read fails with ECONNRESET.
EchoReadError ==
    /\ spc = "read" /\ up = 0 /\ srst
    /\ spc' = AfterReadError
    /\ UNCHANGED <<sbuf, netVars, userVars, clientVars>>

EchoWrite ==
    /\ spc = "write" /\ ~srst
    /\ \E k \in 1..Min(sbuf, SndCap - dsnd) :
          /\ dsnd' = dsnd + k
          /\ sbuf' = sbuf - k
          /\ spc' = IF k = sbuf THEN "read" ELSE "write"
    /\ UNCHANGED <<up, upFin, drcv, dfin, rst, srst, userVars, clientVars>>

\* write on the reset socket, also one that was blocked, fails or raises
\* SIGPIPE: Writen calls err_sys or the child is killed.
EchoWriteError ==
    /\ spc = "write" /\ srst
    /\ spc' = "err_sys"
    /\ sbuf' = 0
    /\ UNCHANGED <<netVars, userVars, clientVars>>

Server == EchoRead \/ EchoEof \/ EchoReadError \/ EchoWrite \/ EchoWriteError

\* The child is killed.  Its socket closes with a FIN if it had read all that
\* had arrived; otherwise the peer will get a reset (PeerReset).
Die ==
    /\ spc \in ServerSteps
    /\ spc' = "dead"
    /\ sbuf' = 0
    /\ dfin' = IF up = 0 THEN "sent" ELSE dfin
    /\ UNCHANGED <<up, upFin, dsnd, drcv, rst, srst, userVars, clientVars>>

-----------------------------------------------------------------------------
(* The connection. *)

Carry ==
    /\ cpc \notin ClientEnds
    /\ \E k \in 1..Min(dsnd, RcvCap - drcv) : dsnd' = dsnd - k /\ drcv' = drcv + k
    /\ UNCHANGED <<up, upFin, dfin, rst, srst, userVars, clientVars, serverVars>>

CarryFin ==
    /\ dfin = "sent" /\ dsnd = 0 /\ ~rst
    /\ dfin' = "arrived"
    /\ UNCHANGED <<up, upFin, dsnd, drcv, rst, srst, userVars, clientVars, serverVars>>

\* Bytes that reach a dead server are answered with a reset.
PeerReset ==
    /\ spc = "dead" /\ up > 0
    /\ rst' = TRUE
    /\ up' = 0
    /\ dsnd' = 0
    /\ UNCHANGED <<upFin, drcv, dfin, srst, userVars, clientVars, serverVars>>

\* The exit of the client closes its socket.  If it had read all that had
\* arrived, a FIN goes behind the bytes it had sent.
ExitFin ==
    /\ cpc \in ClientEnds /\ ~upFin /\ ~srst /\ drcv = 0
    /\ upFin' = TRUE
    /\ UNCHANGED <<up, dsnd, drcv, dfin, rst, srst, userVars, clientVars, serverVars>>

\* Bytes it had not read, or that reach its host later, are answered with a
\* reset; what the server's host has not received of up by then is lost.
ExitReset ==
    /\ cpc \in ClientEnds /\ spc \in ServerSteps /\ ~srst
    /\ drcv > 0 \/ dsnd > 0
    /\ srst' = TRUE
    /\ up' \in 0..up
    /\ drcv' = 0 /\ dsnd' = 0
    /\ UNCHANGED <<upFin, dfin, rst, userVars, clientVars, serverVars>>

Network == Carry \/ CarryFin \/ PeerReset \/ ExitFin \/ ExitReset

-----------------------------------------------------------------------------
\* The session is over: both programs have ended.
Terminated ==
    /\ cpc \in ClientEnds /\ spc \in ServerEnds
    /\ UNCHANGED vars

Next == Type \/ CloseStdin \/ Interrupt \/ Client \/ Server \/ Die \/ Network \/ Terminated

Spec == Init /\ [][Next]_vars

\* Two processes and a working network make progress; the user need not.
FairSpec == Spec /\ WF_vars(Client) /\ WF_vars(Server) /\ WF_vars(Network)

-----------------------------------------------------------------------------
(* Properties. *)

ClientBlocked == cpc = "write" /\ up = UpCap
ServerBlocked == spc = "write" /\ dsnd = SndCap

\* Deadlock freedom of the two blocking programs: when the client is blocked
\* in Writen and the server is blocked in its own Writen, the network can
\* still move bytes into the client's receive buffer.  str_cli_select02 does
\* not watch sockfd while it is in Writen, so nothing else would save it.
NoMutualBlock == ~(ClientBlocked /\ ServerBlocked /\ drcv = RcvCap)

\* The comment on the return of str_cli_select02 calls it the "normal
\* termination": every byte read from fp has come back by then, unless the
\* server child was killed after the client's FIN (its FIN then looks the
\* same, and the client does not notice).
NormalMeansEchoed == cpc = "normal" /\ spc # "dead" => out = got

\* The client gives the server up ("server terminated prematurely", an error
\* on the socket or SIGPIPE) only if the server child really was killed.
AbnormalMeansDead == cpc \in ServerLost => spc = "dead"

\* The client fails only if the server did: what the original of the program
\* ensures by writing the replies to stdout.
ErrorMeansDead == cpc \in ClientEnds \ {"normal", "killed"} => spc = "dead"

\* Once the user closes standard input, the client returns.
Returns == userEof ~> cpc \in ClientEnds

\* Wherever the client was interrupted or ended, the child that served it
\* ends too: whether it then sits in read or is blocked in Writen with both
\* buffers full, the FIN or the reset reaches it and str_echo gets out of its
\* loop.  A child that did not would never be collected by its parent.
ChildEnds == cpc \in ClientEnds ~> spc \in ServerEnds

\* The client has returned from a session that the server also ended.
Done == cpc = "normal" /\ spc = "exit"

Echo == INSTANCE EchoService WITH done <- Done

\* The session keeps the promise of EchoService: what comes back was sent
\* before, and it is done only when nothing is missing.
EchoRefinement == Echo!Spec
=============================================================================
