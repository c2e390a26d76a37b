------------------------------- MODULE StrCli -------------------------------
(***************************************************************************)
(* The interactive echo clients: what str_cli does in each of its          *)
(* versions, from stop-and-wait to select, nonblocking sockets, two        *)
(* processes and two threads, against a server child that echoes lines and *)
(* may be killed.  Lines are counted; BUF lines fit in a buffer.           *)
(***************************************************************************)
EXTENDS Naturals

CONSTANTS
    Programs,  \* the clients of this instance
    Total,     \* bound: lines the user may type
    BUF,       \* lines in MAXLINE bytes
    UpCap,     \* lines the buffers of each direction of the connection hold
    DownCap

ASSUME StrCliAssumption == Total \in Nat /\ {BUF, UpCap, DownCap} \subseteq Nat \ {0}

\* As in EchoSession: with less room, the clients that look at the socket
\* first may also wait for the server in Writen while it waits for them.
ASSUME RoomAssumption == 2 * BUF <= DownCap + 1

-----------------------------------------------------------------------------
(* The clients.  loop: the structure of the program; stdio: it uses Fgets  *)
(* and Readline, with buffers of their own, where the others call Read;    *)
(* ateof: what the end of standard input does; order: which descriptor is  *)
(* looked at first; lastread: kqueue, which gives no event at the end of a *)
(* file, so that the program goes by kev.data; skips: bad input is not sent; halves: a line is written in   *)
(* two parts; onend: what the reader does at the end of the connection.    *)

Waits == [loop |-> "stopwait", stdio |-> TRUE, ateof |-> "return", order |-> "sock",
          lastread |-> FALSE, skips |-> FALSE, halves |-> FALSE, onend |-> "check"]

str_cli   == Waits
str_cli11 == [Waits EXCEPT !.halves = TRUE]
str_cli09 == [Waits EXCEPT !.skips = TRUE]
tcp_cli01 == str_cli
lib_str_cli        == str_cli
tcpcliserv_cli08   == str_cli
tcpcliserv_cli09   == str_cli09
tcpcliserv_cli11   == str_cli11
tcpcliserv_tcpcli01 == str_cli
tcpcliserv_tcpcli04 == str_cli
tcpcliserv_tcpcli05 == str_cli
tcpcliserv_tcpcli08 == str_cli
tcpcliserv_tcpcli09 == str_cli09
tcpcliserv_tcpcli10 == str_cli
tcpcliserv_tcpcli11 == str_cli11
unixstrcli01        == str_cli

str_cli_select01 == [Waits EXCEPT !.loop = "select"]
strcliselect01   == str_cli_select01
select_tcpcli01  == str_cli_select01

\* The original of str_cli_select02 (module EchoSession), which writes to
\* stdout, and the version that has kept Fgets and Readline.
strcliselect02        == [str_cli_select01 EXCEPT !.stdio = FALSE, !.ateof = "shutdown"]
select_tcpcli02       == strcliselect02
advio_str_cli_select02 == [strcliselect02 EXCEPT !.stdio = TRUE]
advio_tcpcli01        == advio_str_cli_select02
advio_tcpcli02        == advio_str_cli_select02

\* /dev/poll keeps watching standard input after its end; kqueue does not.
str_cli_poll03   == [strcliselect02 EXCEPT !.order = "any", !.ateof = "again"]
str_cli_kqueue04 == [strcliselect02 EXCEPT !.order = "any", !.lastread = TRUE]
advio_tcpcli03   == str_cli_poll03
advio_tcpcli04   == str_cli_kqueue04

strclinonb        == [strcliselect02 EXCEPT !.loop = "nonblock"]
nonblock_tcpcli01 == strclinonb

\* Two processes, two threads, and two threads with the flag done.
strclifork        == [Waits EXCEPT !.loop = "fork", !.onend = "kill"]
strclithread      == [Waits EXCEPT !.loop = "thread", !.onend = "return"]
strclithread2     == [strclithread EXCEPT !.onend = "check"]
nonblock_tcpcli02 == strclifork
nonblock_tcpcli04 == str_cli
threads_tcpcli01  == strclithread
threads_tcpcli02  == strclithread2

AllPrograms ==
    {str_cli, str_cli11, str_cli09, tcp_cli01, lib_str_cli, tcpcliserv_cli08,
     tcpcliserv_cli09, tcpcliserv_cli11, tcpcliserv_tcpcli01, tcpcliserv_tcpcli04,
     tcpcliserv_tcpcli05, tcpcliserv_tcpcli08, tcpcliserv_tcpcli09, tcpcliserv_tcpcli10,
     tcpcliserv_tcpcli11, unixstrcli01, str_cli_select01, strcliselect01, select_tcpcli01,
     strcliselect02, select_tcpcli02, advio_str_cli_select02, advio_tcpcli01, advio_tcpcli02,
     str_cli_poll03, str_cli_kqueue04, advio_tcpcli03, advio_tcpcli04, strclinonb,
     nonblock_tcpcli01, strclifork, strclithread, strclithread2, nonblock_tcpcli02,
     nonblock_tcpcli04, threads_tcpcli01, threads_tcpcli02}

\* No other programs are meant.
ASSUME ProgramsAssumption == Programs \subseteq AllPrograms

-----------------------------------------------------------------------------
VARIABLES
    prog,      \* the client
    left,      \* lines the user will still type
    typed,     \* lines typed and not yet read
    userEof,   \* the user has closed standard input
    isfile,    \* str_cli_kqueue04: standard input is a regular file
    fbuf,      \* lines in the buffer of fp
    cpc,       \* where the client is; its reader, if it has two processes or threads
    wpc,       \* where its writer is
    rset,      \* what Select reported and is not handled yet
    stdineof,  \* stdineof, or done in strclithread2
    cbuf,      \* lines that Writen has still to write
    sent,      \* lines read to be sent
    rbuf,      \* lines in readline's buffer
    out,       \* replies shown
    to, fr,    \* strclinonb's buffers: positions i of the next read, o of the next write
    up, upFin, \* lines on their way to the server, and the client's FIN
    spc, sbuf, \* where the server child is, and the lines in its buf
    down, dfin,\* lines on their way back, and the server's FIN
    rst        \* the client's socket has been reset

userVars   == <<left, userEof, isfile>>
inVars     == <<typed, fbuf, sent>>
outVars    == <<rbuf, down, out>>
nbVars     == <<to, fr>>
serverVars == <<spc, sbuf, dfin, rst>>
vars == <<prog, userVars, inVars, outVars, nbVars, serverVars, cpc, wpc, rset, stdineof, cbuf, up, upFin>>

Min(a, b) == IF a <= b THEN a ELSE b
Split == prog.loop \in {"fork", "thread"}
Ends  == {"normal", "premature", "err_sys", "sigpipe", "sigterm"}

\* The client has ended: of two processes, the one that was started.
Ended == IF prog.loop = "fork" THEN wpc \in Ends ELSE cpc \in Ends
\* No process of it has the socket open.
Gone  == cpc \in Ends /\ (prog.loop = "fork" => wpc \in Ends)

TypeOK ==
    /\ prog \in Programs
    /\ {left, typed, fbuf, sent, rbuf, out} \subseteq Nat /\ left + typed + fbuf + sent <= Total
    /\ cpc \in {"fgets", "write", "half", "readline", "select", "events", "shutdown",
                "nb_in", "nb_sock", "nb_out", "nb_write"} \cup Ends
    /\ wpc \in {"off", "fgets", "write", "done", "pause"} \cup Ends
    /\ up \in 0..UpCap /\ down \in 0..DownCap /\ {cbuf, sbuf} \subseteq 0..BUF
    /\ {to, fr} \subseteq [i : 0..BUF, o : 0..BUF] /\ to.o <= to.i /\ fr.o <= fr.i
    /\ rset \subseteq {"fp", "sock", "wsock", "stdout", "try"}
    /\ {userEof, isfile, stdineof, upFin, dfin, rst} \subseteq BOOLEAN
    /\ spc \in {"read", "write", "exit", "dead"}

\* main has connected and calls str_cli.  A file is there from the start.
Init ==
    /\ prog \in Programs
    /\ isfile \in {FALSE, prog.lastread} /\ userEof = isfile /\ fbuf = 0
    /\ IF isfile THEN left = 0 /\ typed \in 0..Total ELSE left = Total /\ typed = 0
    /\ cpc = IF prog.loop = "stopwait" THEN "fgets" ELSE IF Split THEN "readline" ELSE "select"
    /\ wpc = IF Split THEN "fgets" ELSE "off"
    /\ rset = {} /\ stdineof = FALSE /\ cbuf = 0 /\ sent = 0 /\ rbuf = 0 /\ out = 0
    /\ to = [i |-> 0, o |-> 0] /\ fr = [i |-> 0, o |-> 0]
    /\ up = 0 /\ upFin = FALSE /\ spc = "read" /\ sbuf = 0 /\ down = 0 /\ dfin = FALSE /\ rst = FALSE

-----------------------------------------------------------------------------
(* Standard input and the socket, as the calls see them. *)

\* Fgets gives a line and keeps what else it read; Read as much as there is.
Fgets ==
    \/ fbuf > 0 /\ fbuf' = fbuf - 1 /\ typed' = typed
    \/ fbuf = 0 /\ \E k \in 1..typed : typed' = typed - k /\ fbuf' = k - 1

TakeInput ==
    IF prog.stdio
      THEN cbuf' = 1 /\ Fgets
      ELSE \E k \in 1..Min(BUF, typed) : typed' = typed - k /\ cbuf' = k /\ fbuf' = fbuf

InputAtEof == fbuf = 0 /\ typed = 0 /\ userEof

\* read and Read take what has arrived, as far as it fits.  Readline gives a
\* line and keeps what else it read; the reply is shown.
Arrived == Min(BUF, down)
TakeReply ==
    IF prog.stdio
      THEN /\ out' = out + 1
           /\ \/ rbuf > 0 /\ rbuf' = rbuf - 1 /\ down' = down
              \/ rbuf = 0 /\ down > 0 /\ down' = down - Arrived /\ rbuf' = Arrived - 1
      ELSE down > 0 /\ down' = down - Arrived /\ out' = out + Arrived /\ rbuf' = rbuf

SockAtEof  == rbuf = 0 /\ down = 0 /\ dfin /\ ~rst
SockFailed == rbuf = 0 /\ down = 0 /\ rst

\* What select sees of them, which is not the buffers of stdio and Readline.
FpReadable   == typed > 0 \/ (userEof /\ ~isfile)
SockReadable == down > 0 \/ dfin \/ rst

\* Shutdown fails when the socket was reset or both FINs have been sent.
ShutdownFails == rst \/ (upFin /\ dfin)

\* A write fails, or raises SIGPIPE if the server's FIN came before.
WriteError == IF dfin THEN "sigpipe" ELSE "err_sys"

-----------------------------------------------------------------------------
(* The clients of one process: stop-and-wait and select. *)

WatchesFpOnce == ~stdineof /\ sent = 0             \* mutant: fp is set once, before the loop
WatchesFp     == ~stdineof \/ prog.ateof = "again"

WatchesSockLate == userEof \/ sent > out         \* mutant: only while a reply is due
WatchesSock     == TRUE

Select ==
    /\ cpc = "select" /\ prog.loop = "select"
    /\ rset' = {fd \in {"fp", "sock"} : \/ fd = "fp" /\ WatchesFp /\ FpReadable
                                        \/ fd = "sock" /\ WatchesSock /\ SockReadable}
    /\ rset' # {}
    /\ cpc' = "events"
    /\ UNCHANGED <<prog, userVars, inVars, outVars, nbVars, serverVars, wpc, stdineof, cbuf, up, upFin>>

\* Mutant: fp may be looked at before a socket that is ready.
FpTurnAny == cpc = "fgets" \/ (cpc = "events" /\ "fp" \in rset)

FpTurn   == cpc = "fgets" \/ (cpc = "events" /\ "fp" \in rset /\ (prog.order = "any" \/ "sock" \notin rset))
SockTurn == cpc = "readline" \/ (cpc = "events" /\ "sock" \in rset)

\* After an event of fd: the next one, or back to select; stop-and-wait
\* alternates, a reader goes on reading.
After(fd) ==
    /\ rset' = rset \ {fd}
    /\ cpc' = IF prog.loop = "stopwait" THEN IF fd = "fp" THEN "readline" ELSE "fgets"
              ELSE IF Split THEN "readline"
              ELSE IF rset' = {} THEN "select" ELSE "events"

ReadInput ==
    /\ FpTurn
    /\ TakeInput
    /\ sent' = sent + cbuf' /\ cpc' = "write"
    /\ UNCHANGED <<prog, userVars, outVars, nbVars, serverVars, wpc, rset, stdineof, up, upFin>>

\* "invalid input": the next line.
DropInput ==
    /\ prog.skips /\ FpTurn /\ Fgets
    /\ UNCHANGED <<prog, userVars, sent, outVars, nbVars, serverVars, cpc, wpc, rset, stdineof, cbuf, up, upFin>>

AtInputEofDone == "return"    \* mutant: return where the FIN should be sent
AtInputEof     == prog.ateof

\* stdineof = 1; Shutdown(sockfd, SHUT_WR).
SendFin ==
    /\ stdineof' = TRUE /\ upFin' = TRUE
    /\ IF ShutdownFails THEN cpc' = "err_sys" /\ rset' = rset ELSE After("fp")

InputEof ==
    /\ FpTurn /\ InputAtEof
    /\ \/ /\ AtInputEof = "return"
          /\ cpc' = "normal"
          /\ UNCHANGED <<stdineof, upFin, rset>>
       \/ AtInputEof # "return" /\ SendFin
    /\ UNCHANGED <<prog, userVars, inVars, outVars, nbVars, serverVars, wpc, cbuf, up>>

\* str_cli11 writes one byte and sleeps.
WriteHalf ==
    /\ cpc = "write" /\ prog.halves
    /\ cpc' = IF rst THEN WriteError ELSE "half"
    /\ UNCHANGED <<prog, userVars, inVars, outVars, nbVars, serverVars, wpc, rset, stdineof, cbuf, up, upFin>>

Writing == (cpc = "write" /\ ~prog.halves) \/ cpc = "half"

\* isfile && n == kev.data: that was the last of the file.
FileEnds == isfile /\ typed = 0

\* Writen, a line at a time; it blocks while there is no room.
WriteSock ==
    /\ Writing /\ ~rst /\ up < UpCap
    /\ up' = up + 1 /\ cbuf' = cbuf - 1
    /\ IF cbuf > 1 THEN UNCHANGED <<cpc, rset>>
       ELSE IF FileEnds THEN cpc' = "shutdown" /\ rset' = rset
       ELSE After("fp")
    /\ UNCHANGED <<prog, userVars, inVars, outVars, nbVars, serverVars, wpc, stdineof, upFin>>

\* kqueue: the FIN follows the last of the file.
FileEof ==
    /\ cpc = "shutdown" /\ SendFin
    /\ UNCHANGED <<prog, userVars, inVars, outVars, nbVars, serverVars, wpc, cbuf, up>>

WriteFails ==
    /\ Writing /\ rst
    /\ cpc' = WriteError
    /\ UNCHANGED <<prog, userVars, inVars, outVars, nbVars, serverVars, wpc, rset, stdineof, cbuf, up, upFin>>

ReadReply ==
    /\ SockTurn /\ TakeReply
    /\ After("sock")
    /\ UNCHANGED <<prog, userVars, inVars, nbVars, serverVars, wpc, stdineof, cbuf, up, upFin>>

EofMeansAlways == "premature"  \* mutant: stdineof is not looked at

\* What the end of the connection is taken for.
EofMeans ==
    IF prog.onend \in {"return", "kill"} \/ (prog.loop # "stopwait" /\ stdineof)
    THEN "normal" ELSE "premature"

\* The end of a thread's process is the end of its writer; strclifork's child
\* sends SIGTERM to its parent.
KillsWriter ==
    IF prog.loop = "thread" THEN "off"
    ELSE IF prog.loop = "fork" /\ wpc \notin Ends THEN "sigterm" ELSE wpc

ReplyEof ==
    /\ SockTurn /\ SockAtEof
    /\ cpc' = EofMeans /\ wpc' = KillsWriter
    /\ UNCHANGED <<prog, userVars, inVars, outVars, nbVars, serverVars, rset, stdineof, cbuf, up, upFin>>

\* err_sys; strclifork's parent is not told.
ReplyFails ==
    /\ SockTurn /\ SockFailed
    /\ cpc' = "err_sys" /\ wpc' = IF prog.loop = "thread" THEN "off" ELSE wpc
    /\ UNCHANGED <<prog, userVars, inVars, outVars, nbVars, serverVars, rset, stdineof, cbuf, up, upFin>>

-----------------------------------------------------------------------------
(* The writer: strclifork's parent, or the thread copyto. *)

\* A failed call ends the writer's process.
WriterDies(how) == IF prog.loop = "fork" THEN wpc' = how /\ cpc' = cpc ELSE wpc' = "off" /\ cpc' = how

WriterInput ==
    /\ wpc = "fgets" /\ TakeInput
    /\ sent' = sent + 1 /\ wpc' = "write"
    /\ UNCHANGED <<prog, userVars, outVars, nbVars, serverVars, cpc, rset, stdineof, up, upFin>>

WriterWrite ==
    /\ wpc = "write"
    /\ \/ /\ ~rst /\ up < UpCap
          /\ up' = up + 1 /\ wpc' = "fgets" /\ cbuf' = 0 /\ cpc' = cpc
       \/ rst /\ WriterDies(WriteError) /\ UNCHANGED <<up, cbuf>>
    /\ UNCHANGED <<prog, userVars, inVars, outVars, nbVars, serverVars, rset, stdineof, upFin>>

\* End of file: Shutdown; then pause, or done = 1 in a step of its own.
WriterEof ==
    /\ wpc = "fgets" /\ InputAtEof
    /\ IF ShutdownFails THEN WriterDies("err_sys") /\ upFin' = upFin
       ELSE /\ upFin' = TRUE /\ cpc' = cpc
            /\ wpc' = IF prog.loop = "fork" THEN "pause" ELSE "done"
    /\ UNCHANGED <<prog, userVars, inVars, outVars, nbVars, serverVars, rset, stdineof, cbuf, up>>

WriterDone ==
    /\ wpc = "done"
    /\ wpc' = "off" /\ stdineof' = TRUE
    /\ UNCHANGED <<prog, userVars, inVars, outVars, nbVars, serverVars, cpc, rset, cbuf, up, upFin>>

Writer == WriterInput \/ WriterWrite \/ WriterEof \/ WriterDone

-----------------------------------------------------------------------------
(* strclinonb: one pass of its loop is NbSelect, NbIn, NbSock, NbOut,      *)
(* NbWrite.  wset is the part of rset that is about writing; "try" is a    *)
(* descriptor the program has set itself.                                  *)

Drained(b) == IF b.o = b.i THEN [i |-> 0, o |-> 0] ELSE b

NbSelect ==
    /\ cpc = "select" /\ prog.loop = "nonblock"
    /\ rset' = {fd \in {"fp", "sock", "wsock", "stdout"} :
                   \/ fd = "fp" /\ ~stdineof /\ to.i < BUF /\ FpReadable
                   \/ fd = "sock" /\ fr.i < BUF /\ WatchesSock /\ SockReadable
                   \/ fd = "wsock" /\ to.o # to.i /\ (up < UpCap \/ rst)
                   \/ fd = "stdout" /\ fr.o # fr.i}
    /\ rset' # {}
    /\ cpc' = "nb_in"
    /\ UNCHANGED <<prog, userVars, inVars, outVars, nbVars, serverVars, wpc, stdineof, cbuf, up, upFin>>

NbIn ==
    /\ cpc = "nb_in"
    /\ cpc' = IF "fp" \in rset /\ InputAtEof /\ to.o = to.i /\ rst THEN "err_sys" ELSE "nb_sock"
    /\ \/ "fp" \notin rset /\ UNCHANGED <<inVars, to, rset, stdineof, upFin>>
       \/ /\ "fp" \in rset
          /\ \E k \in 1..Min(typed, BUF - to.i) :
                typed' = typed - k /\ sent' = sent + k /\ to' = [to EXCEPT !.i = @ + k]
          /\ rset' = rset \cup {"wsock"}
          /\ UNCHANGED <<fbuf, stdineof, upFin>>
       \/ /\ "fp" \in rset /\ InputAtEof
          /\ stdineof' = TRUE /\ upFin' = (to.o = to.i)
          /\ UNCHANGED <<inVars, to, rset>>
    /\ UNCHANGED <<prog, userVars, outVars, fr, serverVars, wpc, cbuf, up>>

NbSock ==
    /\ cpc = "nb_sock"
    /\ \/ "sock" \notin rset /\ cpc' = "nb_out" /\ UNCHANGED <<rset, fr, down>>
       \/ /\ "sock" \in rset /\ cpc' = "nb_out"
          /\ LET k == Min(down, BUF - fr.i)
             IN  k > 0 /\ down' = down - k /\ fr' = [fr EXCEPT !.i = @ + k]
          /\ rset' = rset \cup {"try"}
       \/ "sock" \in rset /\ SockAtEof /\ cpc' = EofMeans /\ UNCHANGED <<rset, fr, down>>
       \/ "sock" \in rset /\ SockFailed /\ cpc' = "err_sys" /\ UNCHANGED <<rset, fr, down>>
    /\ UNCHANGED <<prog, userVars, inVars, rbuf, out, to, serverVars, wpc, stdineof, cbuf, up, upFin>>

\* Standard output takes any part; nothing if select has not reported it.
NbOut ==
    /\ cpc = "nb_out"
    /\ cpc' = "nb_write"
    /\ \/ {"stdout", "try"} \cap rset = {} /\ UNCHANGED <<fr, out>>
       \/ /\ {"stdout", "try"} \cap rset # {}
          /\ \E k \in (IF "stdout" \in rset THEN 1 ELSE 0)..(fr.i - fr.o) :
                fr' = Drained([fr EXCEPT !.o = @ + k]) /\ out' = out + k
    /\ UNCHANGED <<prog, userVars, inVars, rbuf, down, to, serverVars, wpc, rset, stdineof, cbuf, up, upFin>>

\* When the last of the buffer is written after end of file, the FIN follows.
NbWrite ==
    /\ cpc = "nb_write"
    /\ LET k == IF "wsock" \in rset /\ ~rst THEN Min(to.i - to.o, UpCap - up) ELSE 0
           b == Drained([to EXCEPT !.o = @ + k])
       IN  /\ cpc' = IF "wsock" \in rset /\ rst THEN WriteError ELSE "select"
           /\ up' = up + k /\ to' = b
           /\ upFin' = (upFin \/ ("wsock" \in rset /\ stdineof /\ b.i = 0))
    /\ rset' = {}
    /\ UNCHANGED <<prog, userVars, inVars, outVars, fr, serverVars, wpc, stdineof, cbuf>>

Client ==
    \/ Select \/ ReadInput \/ DropInput \/ InputEof \/ WriteHalf \/ WriteSock \/ FileEof \/ WriteFails
    \/ ReadReply \/ ReplyEof \/ ReplyFails
    \/ NbSelect \/ NbIn \/ NbSock \/ NbOut \/ NbWrite

-----------------------------------------------------------------------------
(* The user, the server child and the connection. *)

Type ==
    /\ ~userEof /\ left > 0
    /\ left' = left - 1 /\ typed' = typed + 1
    /\ UNCHANGED <<prog, userEof, isfile, fbuf, sent, outVars, nbVars, serverVars, cpc, wpc, rset, stdineof, cbuf, up, upFin>>

CloseStdin ==
    /\ ~userEof
    /\ userEof' = TRUE
    /\ UNCHANGED <<prog, left, isfile, inVars, outVars, nbVars, serverVars, cpc, wpc, rset, stdineof, cbuf, up, upFin>>

EchoRead ==
    /\ spc = "read"
    /\ \E k \in 1..Min(BUF, up) : up' = up - k /\ sbuf' = k
    /\ spc' = "write"
    /\ UNCHANGED <<prog, userVars, inVars, outVars, nbVars, dfin, rst, cpc, wpc, rset, stdineof, cbuf, upFin>>

EchoWrite ==
    /\ spc = "write" /\ down < DownCap
    /\ down' = down + 1 /\ sbuf' = sbuf - 1
    /\ spc' = IF sbuf > 1 THEN "write" ELSE "read"
    /\ UNCHANGED <<prog, userVars, inVars, rbuf, out, nbVars, dfin, rst, cpc, wpc, rset, stdineof, cbuf, up, upFin>>

\* End of file, or the client has gone.
EchoEnds ==
    /\ spc \in {"read", "write"}
    /\ (spc = "read" /\ up = 0 /\ upFin) \/ Gone
    /\ spc' = "exit" /\ dfin' = TRUE
    /\ UNCHANGED <<prog, userVars, inVars, outVars, nbVars, sbuf, rst, cpc, wpc, rset, stdineof, cbuf, up, upFin>>

Server == EchoRead \/ EchoWrite \/ EchoEnds

\* Killed: a FIN if everything was read, a reset later otherwise.
Die ==
    /\ spc \in {"read", "write"}
    /\ spc' = "dead" /\ dfin' = (up = 0)
    /\ UNCHANGED <<prog, userVars, inVars, outVars, nbVars, sbuf, rst, cpc, wpc, rset, stdineof, cbuf, up, upFin>>

PeerReset ==
    /\ spc = "dead" /\ up > 0
    /\ rst' = TRUE /\ up' = 0
    /\ UNCHANGED <<prog, userVars, inVars, outVars, nbVars, spc, sbuf, dfin, cpc, wpc, rset, stdineof, cbuf, upFin>>

\* Both have ended; strclifork's parent may pause on.
Over ==
    /\ Gone \/ (cpc \in Ends /\ wpc = "pause")
    /\ spc \in {"exit", "dead"}
    /\ UNCHANGED vars

Next == Client \/ Writer \/ Type \/ CloseStdin \/ Server \/ Die \/ PeerReset \/ Over

Spec == /\ Init /\ [][Next]_vars
        /\ WF_vars(Client) /\ WF_vars(Writer) /\ WF_vars(Server) /\ WF_vars(PeerReset)

-----------------------------------------------------------------------------
(* Properties. *)

\* str_cli_select01: "all done" at the end of standard input.
LeavesEarly == prog.loop = "select" /\ prog.ateof = "return"

\* A client that returns as if all were well, with a server that lived, has
\* sent every line it read and has seen every reply; strclinonb may not have
\* shown the last of them, and str_cli_select01 does not wait for them.
Complete ==
    /\ spc # "dead" /\ ~LeavesEarly
    /\ (IF prog.loop = "fork" THEN wpc = "sigterm" ELSE cpc = "normal")
    => fbuf = 0 /\ out + (fr.i - fr.o) = sent

\* "server terminated prematurely" is said only of a server that did; only
\* strclithread2 may say it, between its Shutdown and done = 1, of another.
PrematureMeansDead == cpc = "premature" => spc = "dead" \/ (prog.loop = "thread" /\ wpc = "off" /\ upFin)

\* strclifork's child met an error and has not told its parent.
Untold == prog.loop = "fork" /\ cpc = "err_sys"

\* kqueue never reports an empty file.
EmptyFile == isfile /\ typed + sent = 0

\* The client waits in Writen for room and the server child does, with every
\* buffer between them full: str_cli_poll03 and str_cli_kqueue04 may have
\* written before they read what they knew to be there.  It stays so, unless
\* the child is killed.
Jammed == prog.order = "any" /\ Writing /\ up = UpCap /\ spc = "write" /\ down = DownCap

\* When the user closes standard input, the client ends; no other client waits
\* for ever in Writen, whatever is in the buffers.
Returns == userEof ~> Ended \/ Untold \/ EmptyFile \/ Jammed

\* stdio and select in one program: what Fgets and Readline keep is not seen.
Mixes == prog.loop = "select" /\ prog.stdio

\* What the user types is sent and what comes back is shown, whether or not
\* anything more is typed.
Prompt ==
    ~Mixes /\ typed + fbuf + down + rbuf > 0
        ~> Ended \/ typed + fbuf + down + rbuf = 0 \/ Jammed

\* The death of the server is noticed while the user types nothing, except by
\* the clients that wait for the user.
Notices == prog.loop # "stopwait" /\ spc = "dead" ~> Ended \/ Untold
=============================================================================
