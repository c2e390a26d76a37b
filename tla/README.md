# Verification of the UNIX network programs

This directory holds TLA+ specifications of the programs under `src/`: TCP and UDP
clients and servers after Stevens' *UNIX Network Programming*. `src/unp/` holds
the repository's own versions, which share one library (`lib.c`) of wrappers,
stream functions and address functions; `src/unpv13e_src_code/` holds the book's
programs they were written after, and many variants of them. All are small,
but each runs against a peer it does not control, blocks in system calls,
is interrupted by signals, and inherits descriptors, locks and static variables
across `fork` or shares them between threads. That is what the modules are about.

Abbreviations: **B** is `src/unp/src/2_basic_socket.c`, **M** is
`src/unp/src/4_client_server_model.c`, **L** is `src/unp/src/lib.c`, **V** is
`src/unpv13e_src_code`.

## 1. Inventory

| Component | State it keeps | What is hard | What makes it correct |
|---|---|---|---|
| Echo session: `str_cli_select02` (B:363) with the server child's `str_echo` (L:1259) | `stdineof`, `rset`, one `buf` on each side, four socket buffers | both sides block in Writen; half-close with replies on the way; the child may die | no mutual block, every byte comes back before the session ends normally, both processes end |
| `tcp_serv_select01` (B:406) | `client[]`, `allset`, `rset`, `maxfd`, `maxi`, `nready` | one process for all clients; clients close, reset or abort between Select and the call; entries are reused | the tables agree, no reported descriptor is skipped, Read never blocks |
| `tcp_serv_poll01` (B:491) | `client[]` with `.fd`, `.revents`, `maxi`, `nready` | as above; `.revents` is never initialized | as above |
| Servers that accept one client after the other: `tcp_serv01`, `tcp_serv04`, `model_serv01`, `udp_serv_select01`, the daytime servers; V/server/serv00, 01, 06, V/tcpcliserv, V/threads, V/names, V/intro, ... | descriptors of parent and children, process table, pending signals | coalesced SIGCHLD, EINTR in select and accept, aborted connections, the process limit | no zombie forgotten, what may end the server, waiting clients get their turn, UDP is not starved |
| Pool servers: `model_serv02`, `model_serv02_with_lock` (M:202, M:321); V/server/serv02 to 05 and 07 to 09 | `pids[]`, the lock or mutex, child table and pipes (serv05), ring of descriptors (serv08) | SIGINT at any time; workers that die, with the lock or with a connection | own children only are signalled, all are collected; connections are accepted and reach a worker |
| Line servers: `web_child` (M:94), `readline` (L:1192), `str_echo08`, `test_client` (M:26); seven readlines and their users in V | `read_buf`, `read_ptr`, `read_cnt`: static, shared by all connections of a process | requests in pieces, over-long or unfinished lines, the next connection of the same child | each connection sees its own bytes, `test_client` gets its reply, an echo is exact |
| UDP clients and servers (B:748-850; V/udpcliserv, V/sigio, ...) | one `mesg[]` and one client address in the server; `count`; the queue `sig_io` fills | loss, duplicates, strays, a dead server, no timeouts; handlers that share variables with the main loop | replies go to the right client and in step; only loss blocks; counter and queue are consistent |
| Clients with a timer: V/bcast, V/mcast, V/advio/dgclitimeo*, V/lib/connect_timeo.c, connect_nonb.c, V/rtt, V/ping, V/traceroute, V/udpcksum | alarm, signal mask, jump buffer, pipe, sequence numbers | SIGALRM between two instructions instead of inside the call; late answers | every wait ends, no jump through a dead buffer, an answer is one's own |
| `getaddrinfo` (V/libgai, V/libfree, V/libgai/old) and the walks over its list: `tcp_connect`, `tcp_listen`, `udp_client`, `udp_connect`, `udp_server` (L:1416-1623), `host_serv`, daytime clients | the list, the position in it, the open descriptor | any call may fail in the middle; client and server walk different lists at the same time | the list is complete, one descriptor, server found |
| Line clients: `str_cli` (L), `str_cli11`, `str_cli09`, `str_cli_select01` (B:242-358); V/select, V/advio, V/nonblock, V/threads | buffers of stdio, of readline and of the program | select does not see what stdio has buffered; "all done" at end of file; two processes or threads that end one another | every line is sent and its reply shown, the client ends, it notices a dead server |
| Web clients: V/threads/web01 to web03, V/nonblock/web.c | `f_flags`, `nconn`, `nlefttoconn`, `nlefttoread`, `ndone`, mutex and condition | flags and counters changed by main and the threads | the counters agree with the files, all files are fetched |
| Daemons, `str_echo09`, icmpd, out-of-band programs, one-to-many SCTP servers, `sock`, streams, routing and key sockets, wrappers, error functions | see section 5 | | |

How they interact: clients and servers meet only over the network (connections,
datagrams, FIN, reset, ICMP errors); parents and children over `fork`, signals,
`wait`, locks and pipes; threads over shared variables; and everything inside a
process over return values. A call of `err_sys` or `err_quit` ends the process:
every such call is an end state of a module. `PROJECT.json` lists the hazards,
each at its line, and the properties aimed at them.

## 2. Modules

| Module | Models | Composes |
|---|---|---|
| `EchoService` | what an interactive echo session promises: an abstract specification | |
| `EchoSession` | `str_cli_select02`, one TCP connection, `str_echo` | implements `EchoService` |
| `EchoSessionProofs` | theorems | `EchoSession` |
| `Connections` | the connections of a server process as its system calls see them, and the clients (mostly external) | |
| `ConnService` | what one process that serves many clients promises them: an abstract specification | `Connections` |
| `SelectServer` | `tcp_serv_select01` | `Connections`, implements `ConnService` |
| `PollServer` | `tcp_serv_poll01` | `Connections`, implements `ConnService` |
| `SelectPollProofs` | theorems | `SelectServer`, and `PollServer` as an instance `Poll` |
| `ForkServer` | all servers that accept one client after the other | |
| `ForkServerProofs` | theorems | `ForkServer` |
| `PoolServer` | all servers with a fixed pool of workers | |
| `PoolServerProofs` | theorems | `PoolServer` |
| `WebChild` | the servers over a readline, `test_client` and other clients | |
| `WebChildProofs` | theorems | `WebChild` |
| `UdpEcho` | the UDP clients and servers without a timer | |
| `UdpEchoProofs` | theorems | `UdpEcho` |
| `GetAddrInfo` | three versions of `getaddrinfo`, as operators | |
| `AddrWalk` | the walks over an address list, a server and a client side by side | `GetAddrInfo` |
| `AlarmWait` | the clients that wait under a timer | |
| `WebClient` | the four web clients | |
| `ClientProofs` | theorems | `AlarmWait`, and `WebClient` and `AddrWalk` as instances `Web` and `Walk` |
| `StrCli` | the line clients, against an echo server child | |
| `StrCliProofs` | theorems | `StrCli` |
| `MC*` | instances for TLC | the module named |

Each module has one action per system call (in `WebClient` and the threaded parts
of the others, per access to shared state), because between two calls of a process
anything may happen in the others; what a process computes between two calls is
part of the action. Where a program branches on a value (`if (--nready <= 0)`,
`if (errno == EINTR)`, ...), the branch is an operator of its own, placed next to
a *mutant*: the same operator with a plausible mistake. Mutants are not used by
any specification; replacing an operator by its mutant must break the property
named for it in `PROJECT.json`.

### Programs as records

The repository holds many programs that are the same loop with one call
exchanged. Such a family is one module with a variable `prog`, chosen in `Init` and
constant afterwards: a record with one field for each way in which the
programs differ (which `accept` is called, what the handler does, where the lock is
kept, ...). Every program has a definition with its own name, so that it can be
compared with its source; programs that do not differ in anything modelled
have equal records. `AllPrograms` (`AllServers`, `AllWalks`) is the set of all of them,
and the runs use it, or pairs that are shown to contain each (the `ASSUME`s
`EveryProgram` of `MCUdpEcho` and `EveryWalk` of `MCAddrWalk`).

The Makefiles of V are not in the repository. `tcpserv02` and `tcpserv03` are
taken to be linked with the handler that calls `wait` once, the later servers with
the `waitpid` loop, and the client mains with the `str_cli` of their number.
The originals of `tcp_serv_select01` and `tcp_serv_poll01` in V have no definitions
of their own.

### EchoSession

Bytes are counted, not named: both streams are first-in first-out, so a position
identifies a byte. `up` is the client's send buffer together with the server's
receive buffer, `dsnd` and `drcv` are the server's send buffer and the client's
receive buffer, with `Carry` between them, because only the last of these fills up
while the client does not read. `cpc` follows `str_cli_select02`:
`select` (B:372-378), `sock` (B:380-389), `fp` (B:391-398), `write` (inside
Writen). The ends are `normal` (B:383), `premature` (err_quit, B:386), `err_sys`,
`sigpipe`, and `fp_error`: the echo is written to `fileno(fp)`, the descriptor
the input is read from, which may refuse it. `Die` kills the server child: its
kernel then sends a FIN, or a reset if data was unread. The user may interrupt the
client (`Interrupt`). A client that has ended leaves a FIN, or a reset if replies
were unread, and answers what still comes with a reset (`ExitFin`, `ExitReset`); the
child meets it in the call it is in: a read of 0, a read error (err_sys) or an
error of Writen (L:1264-1273), each an action of its own.

### Connections, SelectServer, PollServer, ConnService

A connection is its descriptor: unread data in units of one Read, whether the
client has closed or reset, and replies the client has not taken (Writen blocks
while `OutCap` of them wait). accept gives out the lowest free descriptor, so
descriptors and entries are reused. `pc` is the next system call. `Select` computes
`rset` and `nready` from the state at that moment; every later action looks at the
connection as it is then. `Scan` is one round of the for loop that makes no system
call, or its end. In `PollServer` an entry that poll has never looked at (beyond
`maxi`) has an arbitrary `.revents` when `Accept` takes it into use: the array is
automatic memory that nothing clears, and poll writes the entries `0..maxi` only.

`ConnService` knows nothing of tables and rounds: `owed` is the connection that was
read from and not answered, `stopped` whether the process has ended. It says that a
reply goes to the client whose data was read and before anything else is read or
accepted, that a connection is closed only when its client has closed or reset it,
and that the process stops for a client's reset (while it is being served) or for
lack of a descriptor, and for nothing else. Both servers map `owed` to the entry at
hand while `pc` is at Writen. They differ in what they do with a reset found by Read:
`tcp_serv_select01` stops, `tcp_serv_poll01` closes that connection (B:551-553); it
stops for the other errors of a connection (err_sys, B:556).

### ForkServer

`prog` says which accept is called (the wrapper, which goes on after ECONNABORTED;
the plain call, whose caller goes on after EINTR; after select; or the peel-off
of an SCTP association), which SIGCHLD handler there is, who serves: a child,
a thread, or the server itself, and whether it serves with `web_child`, which calls
err_quit for a request it does not like (V/server/web_child.c:19). `MaxFds` is the
limit on descriptors: with that many connections held, accept fails with EMFILE.
`holders[c]` is who has a descriptor for connection
`c`; `fork` copies the parent's. A child is named after its connection. SIGCHLD is
one pending bit (`sigpend`), blocked while the handler runs. The handler runs
between any two calls of the parent; if it interrupted a blocking `select`, that
returns EINTR, and so may `accept` on systems without SA_RESTART (`signal`,
L:1297-1316, asks for it where it exists).

### PoolServer

The parent's fork loop, the installation of the handler (a SIGINT before that
has its default action), `sig_int` with `pids[]` and its index, and the
workers' loops: accept without a lock, behind a record lock, behind a mutex, after
select, or connections handed over by the parent: over a stream pipe (`serv05`, with
`status`, `navail` and Select over all pipes) or through the ring `clifd[]` with its
mutex and condition variable (`serv08`). Connections are numbered as they are
accepted, so that one lost on its way to a worker can be seen. A worker that ends
gives a record lock back, as fcntl locks do, and takes a process-shared mutex
along. `model_serv02_with_lock` starts its children with `child_make` (M:335), which
runs `child_main`: as built, its lock is never taken, and the module has it so.

### WebChild

Every byte carries the number of the connection it came on, so that one that
turns up in another connection can be seen. A connection's client is one child of
`test_client`, or another client that writes one of `Scripts` in pieces and may
close or reset at any point. `Refill` is the `read` in `my_read`; `MyRead` is one
byte through `readline`. A server is a readline (where it keeps bytes read ahead, what
it returns for a line that ends with the connection) and what it does with a line:
a request through `atol` and MAXN, or an echo.

### UdpEcho

Datagrams are counted per content, which gives reordering. `Ignore` is the
`printf("... ignored")` branch of `dg_cli`, after which it does *not* go back to
Recvfrom. A connected client gets the ICMP error of an earlier datagram from the
call it is in (`err`). The counting servers are interrupted between Recvfrom and
`count++`; `dgecho01` answers from a queue that its SIGIO handler fills, with
SIGIO blocked except in sigsuspend and around Sendto. Its start is in the module:
datagrams come from Bind on, SIGIO from FIOASYNC on (`Async`), and until FIONBIO
(`Nonblock`) the handler's recvfrom blocks. `lost`, `dups` and `strayed`
remember what the network did and appear only in properties.

### GetAddrInfo, AddrWalk

`getaddrinfo` is a function from a call (the kinds of host and service string, and
the hints) and what the DNS has, to a list or an error; the versions of libgai
and libfree, and the copy saved while libgai was changed, are three operators. Strings are
represented by what the code finds out about them (a number, a name, a pathname).
`AddrWalk` runs a server's and a client's walk side by side; `stack` is the
families each can make sockets for, `usable` the ones the server can bind in.
`early` remembers that the server was ready before the client began.

### AlarmWait

One request is sent, the timer armed, and the program goes round its receive loop.
`window` is the place between the last test and the blocking call. The timer may
run out at any time; the signal is delivered if it is not blocked, and then does
what the handler does: nothing, set a flag, jump, write to a pipe, send again. `jmpbuf`
says whether a jump would land in a live function. Answers arrive late, twice,
out of order or not at all.

### WebClient

Main and one thread (or one nonblocking connection) per file. In `web02` main sets
`F_CONNECTING` after `pthread_create`; in `web02` and `web03` a thread sets
`F_DONE` before it locks `ndone_mutex` to count itself. `Refuse` is a
connection that fails.

### StrCli

Lines are counted; stdio's and readline's buffers are counters of their own, which
select does not see. The programs are stop-and-wait (`str_cli`), select with or
without stdio, /dev/poll and kqueue, nonblocking I/O with two buffers (`strclinonb`),
two processes (`strclifork`) and two threads. The server child reads up to BUF lines,
echoes them one by one and may be killed; `down` is what has arrived at the client, a
reply still under way is one the server has not written. For kqueue, standard input may
be a regular file, which is complete from the start (`isfile`): there is no event at
its end, and the last read is known by kev.data (`FileEnds`, then `FileEof`).

## 3. Runs

| Run | Checks | Shows |
|---|---|---|
| `echo` | `NoMutualBlock`, `AbnormalMeansDead`, `Returns`, `ChildEnds`, `EchoRefinement` | The two blocking programs never block each other for good; the client reports a lost server only if it is dead, returns in any case and leaves no child waiting; the session implements `EchoService`. |
| `echo_stdin_written` | `ErrorMeansDead` | violated: see Finding |
| `select_server` | `TablesAgree`, `RoundExact`, `Served`, `ServiceKept` | The tables agree between any two calls, a round serves exactly what Select reported (leaving it on `--nready <= 0` skips nothing, Read never blocks), and what a client sends is read; the process implements `ConnService`. |
| `poll_server` | `NoBlockingRead`, `Served` | The same for poll, whatever is in the uninitialized `.revents`. |
| `fork_server` | `NoneForgotten`, `ParentSurvives`, `UdpServed`, `TurnComes` | No terminated child is forgotten behind a coalesced signal; what can end each server (with the limits named below); connections do not starve datagrams; a waiting client gets its turn. |
| `pool_server` | `KillsOwnChildren`, `RingKept`, `StopsEventually`, `Drains`, `Handed` | `sig_int` signals its own children only, collects all of them and exits; the ring holds exactly what was accepted and not taken, in order; connections are accepted while a worker is left, and reach one. |
| `udp_echo` | `InStep`, `Answered`, `CountTold`, `QueueKept` | Loss alone puts no client out of step; a client waits for good only if a datagram of its own was lost, or `dgecho01` was still starting; the printed count is off by at most the datagram in hand; the queue of `dgecho01` loses and overwrites nothing. |
| `web_child` | `StreamKept`, `TestServed`, `EchoExact` | The static buffer carries nothing from one connection to the next; `test_client` gets its reply whatever the clients before it did; what is echoed is what was sent. |
| `addr_walk` | `OneDescriptor`, `ServerFound`, `ListComplete` | No descriptor is left open, a TCP client that starts after the server finds it, and libgai's list holds each address and type asked for, once and together. |
| `alarm_wait` | `AnswerIsOwn`, `NoWildJump`, `WaitEnds` | Clients that compare sequence numbers never take another request's answer; which programs can jump through a dead buffer or lose the wakeup, and that the others cannot. |
| `web_client` | `CountsAgree`, `Finishes` | The counters agree with the files whenever main decides by them; each client fetches all files or ends with an error, but for two ways to stop for good. |
| `str_cli` | `Complete`, `PrematureMeansDead`, `Returns`, `Prompt`, `Notices` | Which clients send and show every line, blame the server only when it died, end when the user does (none that looks at the socket first blocks against the server), leave nothing in a buffer, and notice the server's death while the user types nothing. |

Properties state their exceptions, which are what the code does. Without
any one of them TLC finds the property violated.

* `Served`, `UdpServed`, `TurnComes`, `Handed` (serv05) except a process held in
  `Accept`. The listening sockets are blocking, so a connection that its client
  aborts between select and accept leaves the process in accept until the next one
  comes, and everybody else waits.
* `ParentSurvives` allows: an aborted connection ends `tcp_serv04` and
  `model_serv01`, which look for EINTR only; without SA_RESTART a terminating child
  ends `tcpserv02` and `udp_serv_select01`, which take EINTR as fatal; accept fails when
  every descriptor is in use, which only threads that still serve can do; an error on an
  association ends `sctpserv_fork`, whose parent itself reads and writes (err_sys); Fork
  fails at the process limit, which zombies of the servers without a handler use up; a
  client that is gone when it is served, or one that sends a bad request to
  `web_child`, ends the servers that share a process with it (`serv00`, `serv06`, the
  daytime servers for the former). The list is complete for what is modelled: a
  shortage of the whole system (ENFILE, ENOBUFS, ENOMEM) and network errors accept may
  report other than ECONNABORTED and EPROTO would end every one of these servers and
  are not in the module.
* `TurnComes` excepts `serv00`, which serves one client to its end before the next.
* `Drains` excepts `serv04` after a child ended with the mutex, which is not
  robust; the record lock of `serv03` comes back.
* `Answered` excepts the two states the start of `dgecho01` can leave it in: a datagram
  before FIOASYNC raises no SIGIO, and the first sigsuspend waits with it in the socket
  (`Overlooked`); SIGIO before FIONBIO leaves `sig_io` in a recvfrom that blocks
  (`Stuck`). Both last until another datagram comes, which the formula says: one of
  them must hold from then on.
* `InStep` excepts duplicates and datagrams from other hosts: there is no
  sequence number, and after "ignored" the client reads the next line.
* `WaitEnds` excepts `Racy`: `dgclibcast1`, `dgclibcast3`, `dgclitimeo3`,
  `connect_timeo` and traceroute's receive functions, where SIGALRM can come between the last
  test and the call. `NoWildJump` excepts `dgclibcast5` and `dg_send_recv`, whose
  timer runs before sigsetjmp; and says when: at the first transmission only.
* `AnswerIsOwn` is about programs that compare sequence numbers. In `recv_v6`
  (V/traceroute/recv_v6.c:53) the `break` stands outside the `if`, so any time
  exceeded message ends the wait; the module has it so and the property is not
  claimed for it.
* `EchoExact` excepts a full line without newline in a server that trusts the
  count readline returns, which is one more than it stored (L:1211).
* `Finishes` excepts `web02` and `web03` when main joins a thread with `ndone_mutex`
  locked that still waits for it (V/threads/web03.c:78), and `web02` when main
  overwrites `F_DONE` with `F_CONNECTING` (V/threads/web02.c:68).
* `Complete` excepts `str_cli_select01`, which returns at the end of standard input,
  and lets `strclinonb` return with replies stdout has not taken.
  `Prompt` excepts stdio under select. `PrematureMeansDead` excepts `strclithread2`
  between Shutdown and `done = 1`. `Returns` and `Prompt` except `Jammed`:
  `str_cli_poll03` and `str_cli_kqueue04` may write before they read a socket reported
  in the same round, and then block against the server for good; and `Returns` an empty
  file under kqueue, which is never reported (`EmptyFile`). `Returns` and `Notices` except
  `strclifork` after its child met an error without telling the parent.
  `Notices` is not claimed for the stop-and-wait clients, which sit in Fgets.
* `ServerFound` is about TCP; a UDP client takes the first address it can make a
  socket for. `ListComplete` is about libgai; `savecopy.c` puts an empty
  addrinfo{} before each address, and libfree's error paths before line 350 use
  `aihead` uninitialized (memory is not modelled).

### Finding

**The echo is written to standard input** (B:388). `Write(fileno(fp), buf, n)`,
where the original has `fileno(stdout)` (V/select/strcliselect02.c:28). On a
terminal this works by accident; with redirected input the client dies at its
first reply although the server is alive.

Two more facts about the repository's own programs that show in the models: a server
child killed after the client's FIN is taken for a normal end and its
missing bytes are not noticed (B:383; `EchoService` therefore speaks of sessions
that end normally on both sides), and `model_serv02_with_lock` never takes its
lock (M:335).

### Bounds

| Run | Instance | Why it is enough |
|---|---|---|
| `echo` | MAXLINE 2, buffers 2, 1 and 3, 9 bytes; 264 992 states | More bytes than the budget of section 4 (2+1+3+1) lets be in flight, so each Writen blocks with every buffer ahead of it full; partial reads and writes occur; the kill may come at every step; RcvCap is the smallest the assumption admits. |
| `select_server`, `poll_server` | two connected descriptors, entries for just these, queue and windows of 1; 13 204 and 14 420 states | Descriptors and entries are reused, the table is full, two are ready in the same round as a new connection. With three descriptors (about 650 000 states) the same properties hold; that instance is left out for its running time. |
| `fork_server` | three connections, two processes, two descriptors, one datagram, all programs; 120 550 states | Two children end behind one signal while a third connection waits; fork fails at the limit, accept with two threads at work. |
| `pool_server` | two workers, queue of 2, four connections, ring of 3, all programs; 39 457 states | A worker waits for the lock while the other dies with it; the ring wraps around and is full; a worker dies with a connection in its pipe. |
| `udp_echo` | two clients, two lines, queue of 2, one fault, six systems; 67 312 states | A late reply to the first line can meet the second, for two clients in one server buffer; the queue is full; the server may be killed at any step. |
| `web_child` | MAXLINE 4, MAXN 3, two connections, all servers; 14 300 states | Lines one byte too long, unfinished, pipelined, refused; a second connection after each. |
| `addr_walk` | two addresses, three DNS contents, all walks, all calls of host_serv; 163 285 states | All combinations of supported families and bindable addresses; every combination of hints and kinds of arguments for all three versions. |
| `alarm_wait` | three requests, four datagrams, buffer of 2, all programs; 182 195 states | A late answer meets the next request, and the one after; retransmission and giving up; the timer at each place. |
| `web_client` | three files (the home page first), two connections; 9 384 states | More files than connections, so that a finished one makes room. |
| `str_cli` | seven lines, two in a buffer, buffers of 2 and 3, all programs; 453 148 states | Two lines come with one read, so that one stays in stdio's buffer. Seven lines fill both buffers, with one in each Writen (2+3+1+1): client and server can block each other, and the two programs of `Jammed` do. DownCap is the smallest the assumption admits; with 2, TLC finds `strcliselect02` blocked too. The server dies at any step. |

Three runs go without deadlock check: in `udp_echo` a client whose datagram is lost
waits for good, in `web_child` the connections are used up, in `web_client` main and a
thread can wait for each other, which `Finishes` names. In all other modules the
stuttering step of a finished system is the only one it has, so a deadlock
would be reported.

### Fairness

Fairness is given to what the operating system schedules, never to users or to
failures:

* every process takes its next step if it is not blocked, and handlers run
  (weak fairness); the threads of `WebClient` get the mutex they ask for again and
  again (strong fairness);
* the network moves what it carries (`Network` in `EchoSession`, delivery in
  `UdpEcho`; loss is an action without fairness), a timer that was set runs out
  (`AlarmWait`);
* clients of the select and poll servers take their replies (`Take`): a client
  that never reads blocks the one process in Writen for ever, which is a fact
  about these servers, and `Served` is about the others;
* a child of `ForkServer` ends once its client has closed, since `str_echo` and
  `web_child` return at end of file; in `PoolServer` `web_child` returns.

Users need not type, clients need not connect, children need not die.

## 4. Proofs

TLAPS proves the following for every value of the constants that the named
assumptions admit, and each inductive invariant was also checked by TLC on the
instance of section 3 before it was proved. The assumptions say no more than:

| Module | Assumption | Says |
|---|---|---|
| `EchoSession` | `SizesAssumption`, `RcvCapAssumption` | sizes are positive; 2\*MAXLINE <= RcvCap + 1 |
| `SelectServer` | `ConnAssumption`, `EntriesAssumption` | descriptors are numbers above `listenfd`; an entry for each |
| `PollServer` | `ConnAssumption`, `PollEntriesAssumption` | as `SelectServer`; entry 0 is the listening socket's |
| `ForkServer` | `ForkAssumption`, `ProgsAssumption` | finitely many connections (needed to count processes); limits are numbers, with a descriptor at least |
| `PoolServer` | `PoolAssumption`, `ProgramsAssumption` | at least one worker, a ring of at least two slots |
| `WebChild` | `WebAssumption`, `ServersAssumption` | MAXLINE is at least 3, so that a request fits; MAXN is one digit, as a request of `test_client` is one digit and a newline; scripts are sequences of bytes |
| `UdpEcho` | `UdpAssumption`, `SystemsAssumption` | finitely many clients; QSIZE is positive |
| `AlarmWait` | `AlarmAssumption`, `ProgramsAssumption` | a request at least, a buffer for one datagram at least |
| `WebClient` | `WebClientAssumption`, `ProgramsAssumption` | a file at least, a connection at least |
| `AddrWalk` | `WalkAssumption` | the DNS has a list of addresses for each family, hosts support some of the two families, and the clients that call the wrapper Socket are those that look up one family (`gethostbyname`, `inet_pton`) |
| `StrCli` | `StrCliAssumption`, `RoomAssumption`, `ProgramsAssumption` | buffers are not empty; 2\*BUF <= DownCap + 1, as in `EchoSession` (for `Returns` and `Prompt`; no proof uses it) |

`ProgsAssumption`, `ProgramsAssumption`, `ServersAssumption` and `SystemsAssumption`
say that the programs considered are among those the module defines, which are
those of the repository; a theorem thus holds for any selection of them. Every
proof module has a `THEOREM Invariance == Spec => []IInv` (or an equivalent), a
lemma for each action that it keeps `IInv`, and the theorems listed. The proofs about
`PollServer`, `WebClient` and `AddrWalk` are parts of `SelectPollProofs` and
`ClientProofs`: there the module is a named instance over the variables declared for
it, and its assumptions, which INSTANCE does not bring along, are the hypotheses of each
lemma and theorem (the runs `poll_server`, `web_client` and `addr_walk` evaluate them).

**EchoSessionProofs.** `TypeCorrect`, `DeadlockFree`, `AbnormalOnlyIfDead`,
`NormalEchoed` and `Refinement`, for a server that may be killed. The inductive
invariant `IInv` is the type invariant and four parts:

* `PcInv` ties the buffers to the program counters (nothing in `cbuf` outside
  Writen, ...);
* `BudgetInv` is the argument for `NoMutualBlock`. What is in flight (`up`, `sbuf`,
  `dsnd`, `drcv`) together with the client's own buffer never exceeds
  UpCap + SndCap + RcvCap + 1 bytes. Only reading standard input adds to the sum,
  and before that the client has looked at the socket: either Select found nothing
  to read there, or one Read emptied the receive buffer, or it took a full MAXLINE
  out of it; in each case a MAXLINE of the budget is free. Both sides blocked with
  full buffers would need one byte more, since each has at least one byte still to
  write. The case of an emptied receive buffer is the one that needs
  `2*MAXLINE <= RcvCap + 1`. The bound is tight: with
  RcvCap = 2*MAXLINE - 2, TLC finds the mutual block. Real sizes (4096 and about
  128 kB) satisfy it by far;
* `ConserveInv`: every byte read from standard input is in exactly one place until
  it is shown, unless the server died or the client was interrupted or failed on
  `fp` (`ClientGone`);
* `CloseInv`: who has sent a FIN and why, which gives both meanings of a 0 from
  Read, and that the child ends in `err_sys` only behind such a client.

`Refinement` maps `done` to a session that both sides ended normally (the client
returned, the server child came to its exit); every step is an `Accept`, `Deliver`
or `Finish` of `EchoService`, or a stutter.

**SelectPollProofs, `tcp_serv_select01`.** `TypeCorrect`, `TablesAlwaysAgree`, `RoundsExact`
(from `ReadNeverBlocks` and `NoReadySkipped`), `EntriesSuffice`, `SelectRefinement`. `IInv` has, besides the type invariant and
`TablesAgree`: `Todo`, the entries not yet looked at in this round whose descriptor
is in `rset`; `RoundInv`, `nready = Cardinality(Todo)` (plus one for the listening
socket before Accept), which is why leaving the loop at 0 skips nothing; and
`ReadyInv`, that each of them still has something to read, because only this
process reads it. A descriptor accepted in this round is not in
`rset`, as Select reported open descriptors only. `EntriesSuffice` is a pigeonhole
argument: `client[]` maps entries to distinct open descriptors, so if all entries
were used, all descriptors would be, and accept could not have returned one. Its
assumption is that the descriptor limit is at most FD_SETSIZE entries above
`listenfd`. `SelectRefinement` (`ServiceKept`) rests on the same invariant: that the
entry at hand is an open connection (`AtHand`) is `TablesAgree`, and that accept never
ends in "too many clients" is `EntriesSuffice`; without either, a step would be none
of the service's.

**SelectPollProofs, `tcp_serv_poll01`.** `PollTypeCorrect`, `PollReadNeverBlocks`
(`NoBlockingRead`), `PollEntriesSuffice`, `PollLoopLeft`, `PollRefinement`
(`ServiceKept`). Here `nready` is not the number of entries the loop will find
reported: Accept may have put a descriptor into an entry whose `.revents` nobody has
set. `PollRound` says that the entries to serve are *some* set T of the reported
ones, with nready = |T| > 0, and that no reported entry but the last, `maxi`, is
missing from T. An entry below `maxi` that is found reported is thus in T; and if
`maxi` itself is reached, T, which is not empty and lies between i and `maxi`, is
{`maxi`}. This is also why the loop is never left at its end (`PollLoopLeft`). That only
`maxi` can be missing needs that a new entry beyond the old `maxi` becomes the new one,
and that every entry poll has looked at and reported is in use.

**ForkServerProofs.** `TypeCorrect`, `ZombiesCollected` (`NoneForgotten`),
`ParentOnlyEndsFor` (`ParentSurvives`, a property of steps). SIGCHLDs do not queue, so
signals and zombies cannot be counted against each other. `SignalInv` says what can:
a zombie of a server that loops over waitpid is always behind a pending signal or a
running handler; a server that calls wait once per signal has one zombie for the
pending signal and a *different* one for the running handler, which is why wait never
blocks. `FreshInv` (a connection not yet forked for has no process) keeps a fork from
overwriting a zombie; `ServeInv` bounds the processes by the limit. `HeldInv` says who
holds the connections: of a server without threads the parent holds only the one
at hand, so that accept finds every descriptor in use (EMFILE) only behind threads.

**PoolServerProofs.** `TypeCorrect`, `SignalsOwn` (`KillsOwnChildren`), `RingOrdered`
(`RingKept`). `PidsInv`: the fork loop fills `pids[]` from the front, `pids[k]` is child
k as soon as the loop is over, and no child is collected before the kill loop has
ended. `RingInv`: for some t the connections 1..t have been taken, the ring holds
t+1, t+2, ... from `iget` on, and the last accepted may be in main's hand; main tests
`iput == iget` after its increment and ends the process if the ring is full, so
that the distance from `iget` to `iput` never wraps to 0 in a live process.
`BusyInv` (serv05): `navail` counts the children not marked busy, and a child with a
descriptor, or with a byte on its way back, is marked.

**WebChildProofs.** `TypeCorrect`, `StreamIsKept` (`StreamKept`), `TestIsServed`
(`TestServed`), `EchoIsExact` (`EchoExact`). `StreamInv`: what was used, the line in
the making, the read buffer and the wire, in this order, are what the client wrote.
`LineInv`: the line has no newline and room for a byte and the null, and the buffer is
empty between two connections (readline reports the end only when its buffer is
empty). `EchoInv` follows the echoed bytes up to a line that fills `line[]`; `TestInv`
follows the request of a `test_client` and its reply through all places they can be in.

**UdpEchoProofs.** `TypeCorrect`, `ClientsInStep` (`InStep`), `CountCorrect`
(`CountTold`), `QueueCorrect` (`QueueKept`). A client that reads before it sends again
has at most one datagram under way. `StepInv` follows it: on the way to the server, in
`mesg` or in one slot of the queue, or on the way back, and never in two of these
places; a client that rests has none under way, so the next reply it can read is to
its next line. `QueueInv` (from the start of dgecho01 on): `iput` is `iget` plus the unsent slots modulo QSIZE, and
what was taken is what was answered plus what is unsent, also while the handler
interrupts the main loop.

**ClientProofs, the timer.** `TypeCorrect`, `OnlyOwnAnswers` (`AnswerIsOwn`), `JumpsLand`
(`NoWildJump`). The handler runs between any two instructions, so `JumpInv` says for
each place of the program whether the clock can run there and what `jmpbuf` holds: in
the programs that set the alarm before sigsetjmp, `jmpbuf` is dead only up to the first
sigsetjmp of the function. `PipeInv`: a byte in dgclibcast6's pipe, a running clock and
a clock about to be set each belong to a different request. `ReqInv`: an answer that
passed the comparison is to the current request.

**ClientProofs, the web clients.** `WebTypeCorrect`, `WebCountsAgree` (`CountsAgree`).
`CountInv` holds at every step, not only where main decides: the counters are the sizes
of the sets of files under way and not started, where "not started" is read from the
thread (or, without threads, from the flag). `FlagInv` says that flag and thread agree
on it, except for the one file between `pthread_create` and the assignment of
`F_CONNECTING` in web02, whose thread may even have set `F_DONE` by then. Each
change of a counter is one element that moves from one set to the other.

**ClientProofs, the walks.** `WalkOneDescriptor` (`OneDescriptor`), `WalkServerFound`
(`ServerFound`). The theorems hold for any list `getaddrinfo` may have returned; nothing
is used of what it computes. `DescInv`: a descriptor is open exactly from socket to
close, or to the end of a walk that returns it. `PassedInv`: of every position before
`res` that is an address of the server's, the client's host could make no socket for it;
a client that ends in the wrapper Socket has not looked at the rest of its list, but all
its addresses are of the one family its host lacks (`FamilyInv`).

**StrCliProofs.** `TypeCorrect`, `NoneLost` (`Complete`), `BlameIsTrue`
(`PrematureMeansDead`). `FlowInv`: while the server lives, lines read are lines shown
plus lines in one of the seven buffers between; the server ends by itself only after
the client's FIN with nothing left to read. `FinInv`: the FIN is sent only with
nothing left to send, and after `stdineof` is set (except in strclithread2, whose
exception the property names). `PlaceInv`, `BufInv` and `StopInv` say where each kind of
client can be and which of its buffers are empty there.

Only model-checked: the properties about fairness (`Returns`, `ChildEnds`, `Served`,
`UdpServed`, `TurnComes`, `StopsEventually`, `Drains`, `Handed`, `Answered`, `WaitEnds`,
`Finishes`, `Prompt`, `Notices`), which the prover does not handle, and what
`getaddrinfo` computes (`ListComplete`), an induction over its list. Every other
property of the runs that pass is a theorem. `ServiceKept` of `PollServer` is only
proved; the run `select_server` checks it of the other server.

## 5. Not modelled

* `str_echo09` (B:307; binary records: a record cut short by the end of the
  connection is summed with what was on the stack), `daemon_init` and `daemon_inetd`
  (L:1638), V/icmpd, V/oob, V/nonblock/tcpservselect03.c (readline's static buffer
  shared by all clients of a select loop), V/ssntp, the credentials and `myopen`
  programs of V/unixdomain: planned, see section 6.
* One-to-many SCTP servers and the SCTP functions of B: the latter are not compiled.
* V/sock, V/streams, V/key, V/route, V/libroute, V/ioctl, V/sockopt, V/debug,
  V/ping/bsdping.c, the headers: option parsing, printing of kernel tables, interfaces
  of systems this repository is not built on.
* Error functions and one-call wrappers: formatting and one test; that they end the
  process is in every module.
* `sock_*` helpers, `checkopts`, `byte_order`, `hostent`, `main`: no state.
* `my_th_lock_*`: no caller.
* `daytimeudpsrv2` passes host and service to `udp_server` in the wrong order (B:1365):
  a fixed argument error that any call shows.
* Content of messages, except where readline, `atol` or a sequence number test looks at
  it; sizes above one unit per Read in the select and poll servers; the values of
  timeouts (V/lib/rtt.c), since a timer may run out at any time; memory
  management of `getaddrinfo`.

## 6. Plan

In this order:

1. `tcpservselect03` as a variant of `SelectServer`, with the `readline` of
   `WebChild`: its static buffer is shared by all clients of the loop, and whether it
   still implements `ConnService` is the question.
2. `str_echo09` as another server of `WebChild`.
3. `daemon_init` and `daemon_inetd` (SIGHUP between the two forks), icmpd.
