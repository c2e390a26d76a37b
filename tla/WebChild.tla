------------------------------- MODULE WebChild -------------------------------
(***************************************************************************)
(* The servers that read lines with a readline: web_child, which a         *)
(* preforked child or a thread runs for one connection after the other,    *)
(* and the echo servers of lines.  The readline of lib.c keeps read_buf,   *)
(* read_ptr and read_cnt in static variables, shared by all connections of *)
(* the process; others keep them per thread, on the stack or not at all.   *)
(* At the other end is a child of test_client (one request, Readn, Close)  *)
(* or any other client, which writes its script in pieces and may close or *)
(* reset the connection at any point of it.                                *)
(***************************************************************************)
EXTENDS Naturals, SequencesExt

CONSTANTS
    Programs,  \* the servers considered
    MAXLINE,   \* size of read_buf and of line
    MAXN,      \* largest reply
    Scripts,   \* what other clients may send: sequences of digits and NL
    MaxConns   \* bound: connections

NL  == 10   \* the newline; the digits are 0..9
NUL == 11   \* the null byte

ASSUME WebAssumption ==
    /\ MAXLINE \in Nat /\ MAXLINE >= 3     \* a request fits in a line
    /\ MAXN \in 1..9 /\ MaxConns \in Nat
    /\ \A s \in Scripts : s \in Seq(0..10)

-----------------------------------------------------------------------------
(* The readlines: whether bytes read ahead stay in "static" (or thread     *)
(* specific) memory, on the "stack" of web_child, or are not read ahead;   *)
(* and what it returns above the bytes it stored when a line ends with the *)
(* connection.                                                             *)

readline         == [buffer |-> "static", eof |-> 0]
lib_readline     == readline
server_readline  == [buffer |-> "none", eof |-> 1]
readline_r       == [buffer |-> "stack", eof |-> 1]
threads_readline == [buffer |-> "static", eof |-> 0]   \* Rline of the thread
readline1        == [buffer |-> "none", eof |-> 0]
readline2        == readline
readline3        == [buffer |-> "stack", eof |-> 0]

(* The servers: the readline they use, and what they do with a line.  web: *)
(* write as many bytes as it asks for; echo: Writen the n bytes readline   *)
(* says it has; puts: the line up to its null byte; sum: write one line;   *)
(* count: nothing.                                                         *)

web_child        == [readline |-> readline, use |-> "web"]
server_web_child == [readline |-> server_readline, use |-> "web"]
web_child_r      == [readline |-> readline_r, use |-> "web"]
str_echo08       == [readline |-> lib_readline, use |-> "sum"]
book_str_echo08  == str_echo08
\* Mutant: linked with the readline of server/.
strecho02Counts  == [readline |-> server_readline, use |-> "echo"]
strecho02        == [readline |-> lib_readline, use |-> "echo"]
threads_test04   == [readline |-> threads_readline, use |-> "puts"]
treadline1       == [readline |-> readline1, use |-> "count"]
treadline2       == [readline |-> readline2, use |-> "count"]
treadline3       == [readline |-> readline3, use |-> "count"]

AllServers ==
    {web_child, server_web_child, web_child_r, str_echo08, book_str_echo08, strecho02, threads_test04,
     treadline1, treadline2, treadline3}

ASSUME ServersAssumption == Programs \subseteq AllServers

-----------------------------------------------------------------------------
VARIABLES
    prog,    \* the server
    conn,    \* number of the current connection
    kind,    \* its client: "test_client" or "other"
    cpc,     \* the client: "none", "write", "readn", "closed", "reset" or "quit"
    script,  \* what the client has still to write
    nbytes,  \* bytes test_client asked for
    got,     \* bytes its Readn has
    wrote,   \* what the client has written
    wire,    \* what of it the child's read has not returned
    spc,     \* the child: "accept", "readline", "request", "write" or how it ended
    rbuf,    \* the read_cnt bytes from read_ptr on
    line,    \* line[]
    nread,   \* what readline returned
    echoed,  \* what an echo server wrote back
    used,    \* the lines of this connection that were dealt with, as one sequence
    nleft,   \* bytes Writen has still to write
    down     \* reply bytes on the way to the client

clientVars == <<conn, kind, cpc, script, nbytes, got, wrote>>
childVars  == <<prog, spc, rbuf, line, nread, echoed, used, nleft>>
vars       == <<clientVars, childVars, wire, down>>

Ends  == {"err_quit", "err_sys", "killed"}
Bytes == (1..MaxConns) \X (0..11)   \* a byte and the connection it came on

TypeOK ==
    /\ prog \in Programs
    /\ conn \in 0..MaxConns
    /\ kind \in {"test_client", "other"}
    /\ cpc \in {"none", "write", "readn", "closed", "reset", "quit"}
    /\ script \in Seq(Bytes) /\ wrote \in Seq(Bytes) /\ wire \in Seq(Bytes)
    /\ nbytes \in 0..MAXN /\ nread \in 0..MAXLINE /\ got \in 0..nbytes
    /\ spc \in {"accept", "readline", "request", "write"} \cup Ends
    /\ rbuf \in Seq(Bytes) /\ Len(rbuf) <= MAXLINE
    /\ line \in Seq(Bytes) /\ Len(line) <= MAXLINE - 1   \* and the null byte
    /\ used \in Seq(Bytes) /\ echoed \in Seq(Bytes)
    /\ nleft \in Nat /\ down \in Nat

Init ==
    /\ prog \in Programs /\ nread = 0 /\ echoed = <<>>
    /\ conn = 0 /\ kind = "other" /\ cpc = "none" /\ script = <<>>
    /\ nbytes = 0 /\ got = 0 /\ wrote = <<>> /\ wire = <<>>
    /\ spc = "accept" /\ rbuf = <<>> /\ line = <<>> /\ used = <<>>
    /\ nleft = 0 /\ down = 0

-----------------------------------------------------------------------------
(* The clients. *)

Tagged(s) == [j \in 1..Len(s) |-> <<conn + 1, s[j]>>]

\* A client connects and the child's accept returns.
Connect ==
    /\ spc = "accept" /\ conn < MaxConns
    /\ \/ /\ kind' = "test_client" /\ prog.use = "web"
          /\ \E n \in 1..MAXN : nbytes' = n /\ script' = Tagged(<<n, NL>>)
       \/ /\ kind' = "other" /\ nbytes' = 0
          /\ \E s \in Scripts : script' = Tagged(s)
    /\ conn' = conn + 1 /\ cpc' = "write"
    /\ got' = 0 /\ wrote' = <<>> /\ wire' = <<>> /\ used' = <<>> /\ down' = 0
    /\ spc' = "readline" /\ line' = <<>> /\ nread' = 0 /\ echoed' = <<>>
    /\ rbuf' = IF prog.readline.buffer = "stack" THEN <<>> ELSE rbuf   \* readline_rinit
    /\ UNCHANGED <<prog, nleft>>

\* test_client writes its request in one call, the others piece by piece.
ClientWrite ==
    /\ cpc = "write" /\ script # <<>>
    /\ \E n \in 1..Len(script) :
          /\ kind = "test_client" => n = Len(script)
          /\ wrote' = wrote \o SubSeq(script, 1, n)
          /\ wire' = wire \o SubSeq(script, 1, n)
          /\ script' = SubSeq(script, n + 1, Len(script))
    /\ cpc' = IF kind = "test_client" THEN "readn" ELSE "write"
    /\ UNCHANGED <<conn, kind, nbytes, got, childVars, down>>

\* Close, or the reset of clientrst.
OtherCloses ==
    /\ kind = "other" /\ cpc = "write"
    /\ cpc' \in {"closed", "reset"}
    /\ UNCHANGED <<conn, kind, script, nbytes, got, wrote, childVars, wire, down>>

\* readn: one read, of what has arrived and is still wanted; once all is
\* there test_client closes.
Readn ==
    /\ cpc = "readn"
    /\ \E n \in 1..Min({down, nbytes - got}) :
          /\ down' = down - n /\ got' = got + n
          /\ cpc' = IF got' = nbytes THEN "closed" ELSE "readn"
    /\ UNCHANGED <<conn, kind, script, nbytes, wrote, childVars, wire>>

\* The child has ended: Readn returns less, "server returned %d bytes".
ReadnShort ==
    /\ cpc = "readn" /\ spc \in Ends /\ down = 0
    /\ cpc' = "quit"
    /\ UNCHANGED <<conn, kind, script, nbytes, got, wrote, childVars, wire, down>>

Client == ClientWrite \/ Readn \/ ReadnShort

-----------------------------------------------------------------------------
(* my_read and readline. *)

\* How much one read asks for.
ReadSize == IF prog.readline.buffer = "none" THEN 1 ELSE MAXLINE

\* read_cnt is 0: read returns some of what has arrived.
Refill ==
    /\ spc = "readline" /\ rbuf = <<>>
    /\ \E n \in 1..Min({ReadSize, Len(wire)}) :
          /\ rbuf' = SubSeq(wire, 1, n)
          /\ wire' = SubSeq(wire, n + 1, Len(wire))
    /\ UNCHANGED <<prog, spc, line, nread, echoed, used, nleft, clientVars, down>>

LineFull(l) == Len(l) = MAXLINE - 1
LineEnds(l) == Last(l)[2] = NL

\* my_read returns the next byte; readline returns at a newline, or when the
\* line is full.
MyRead ==
    /\ spc = "readline" /\ rbuf # <<>>
    /\ line' = Append(line, Head(rbuf))
    /\ rbuf' = Tail(rbuf)
    /\ spc' = IF LineEnds(line') \/ LineFull(line') THEN "request" ELSE "readline"
    /\ nread' = IF LineEnds(line') THEN Len(line') ELSE Len(line') + 1   \* n
    /\ UNCHANGED <<prog, echoed, used, nleft, clientVars, wire, down>>

\* The client has closed and read returns 0: readline returns the bytes it
\* has; the server returns if there are none, and the connection is closed.
ReadEof ==
    /\ spc = "readline" /\ rbuf = <<>> /\ wire = <<>> /\ cpc = "closed"
    /\ spc' = IF line = <<>> THEN "accept" ELSE "request"
    /\ nread' = IF line = <<>> THEN 0 ELSE Len(line) + prog.readline.eof
    /\ UNCHANGED <<prog, rbuf, line, echoed, used, nleft, clientVars, wire, down>>

\* The client reset the connection, or closed with replies unread: read
\* fails, err_sys.
ReadReset ==
    /\ spc = "readline" /\ rbuf = <<>>
    /\ cpc = "reset" \/ (cpc = "closed" /\ down > 0)
    /\ spc' = "err_sys"
    /\ UNCHANGED <<prog, rbuf, line, nread, echoed, used, nleft, clientVars, wire, down>>

-----------------------------------------------------------------------------
(* web_child. *)

\* The number at the start of the line, 0 if there is none.
Atol(l) ==
    LET value[k \in 0..Len(l)] ==
            IF k = 0 THEN 0
            ELSE IF l[k][2] = NL THEN value[k - 1] ELSE 10 * value[k - 1] + l[k][2]
    IN  value[Len(l)]

RefusedAtMax(n) == n \notin 1..(MAXN - 1)  \* mutant: MAXN bytes are refused

Refused(n) == n \notin 1..MAXN

\* What Writen is called with, for a line that is not refused: the null byte
\* that ends line[] is part of it if readline counted one too many.
Reply ==
    IF prog.use = "web" THEN [j \in 1..Atol(line) |-> <<conn, 0>>]
    ELSE IF prog.use = "echo" THEN SubSeq(Append(line, <<conn, NUL>>), 1, nread)
    ELSE IF prog.use = "puts" THEN line
    ELSE IF prog.use = "sum" THEN <<<<conn, NL>>>>
    ELSE <<>>                                              \* count

Request ==
    /\ spc = "request"
    /\ used' = used \o line
    /\ line' = <<>>
    /\ IF prog.use = "web" /\ Refused(Atol(line))
         THEN spc' = "err_quit" /\ UNCHANGED <<nleft, echoed>>
         ELSE /\ spc' = IF prog.use = "count" THEN "readline" ELSE "write"
              /\ nleft' = Len(Reply) /\ echoed' = echoed \o Reply
    /\ UNCHANGED <<prog, rbuf, nread, clientVars, wire, down>>

\* Mutant: web_child serves one request per connection.
AfterReplyReturn == "accept"
AfterReply       == "readline"

\* Writen, in as many writes as it takes.
WriteReply ==
    /\ spc = "write"
    /\ \E n \in 1..nleft :
          /\ down' = down + n /\ nleft' = nleft - n
          /\ spc' = IF n = nleft THEN AfterReply ELSE "write"
    /\ UNCHANGED <<prog, rbuf, line, nread, echoed, used, clientVars, wire>>

\* The client has closed and answered the first bytes with a reset: err_sys
\* in Writen, or SIGPIPE.
WriteReset ==
    /\ spc = "write" /\ (cpc = "reset" \/ (cpc = "closed" /\ down > 0))
    /\ spc' = "err_sys"
    /\ UNCHANGED <<prog, rbuf, line, nread, echoed, used, nleft, clientVars, wire, down>>

Child ==
    \/ Refill \/ MyRead \/ ReadEof \/ ReadReset \/ Request \/ WriteReply \/ WriteReset

\* SIGTERM from sig_int_2.
Killed ==
    /\ spc \notin Ends
    /\ spc' = "killed"
    /\ UNCHANGED <<prog, rbuf, line, nread, echoed, used, nleft, clientVars, wire, down>>

Next == Connect \/ OtherCloses \/ Client \/ Child \/ Killed

Spec == Init /\ [][Next]_vars

-----------------------------------------------------------------------------
(* Properties. *)

\* Across the static buffer of readline no byte of a connection is lost,
\* repeated or moved, and none of an earlier connection turns up: what
\* web_child dealt with, the line in the making, read_buf and what has not
\* been read yet are together what this client wrote.  The line and its null
\* byte fit into line[].
StreamKept ==
    /\ spc # "accept" => used \o line \o rbuf \o wire = wrote
    /\ Len(line) < MAXLINE

\* Whatever the clients before it did, the child does not give up on a
\* test_client ("client request for %d bytes", or an error), and test_client
\* gives up ("server returned %d bytes") only if the child was killed.
TestServed ==
    kind = "test_client" =>
        /\ spc \notin {"err_quit", "err_sys"}
        /\ cpc = "quit" => spc = "killed"

\* An echo server sends back what it was sent, if no line fills line[].  (For
\* one that does, n counts the null byte, which is then sent too, unless the
\* line is written as a string.)
EchoExact ==
    prog.use \in {"echo", "puts"} =>
        \/ \E i \in 1..Len(wrote) :
              /\ prog.use = "echo" /\ i + MAXLINE - 2 <= Len(wrote)
              /\ \A j \in i..(i + MAXLINE - 2) : wrote[j][2] # NL
        \/ IsPrefix(echoed, wrote)
===============================================================================
