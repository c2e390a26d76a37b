------------------------------ MODULE AlarmWait ------------------------------
(***************************************************************************)
(* Clients that send a request and wait for the answer under a timer: the  *)
(* broadcast and multicast clients, the timeout variants of dg_cli, the    *)
(* retransmitting dg_send_recv and test_udp, connect with a timeout,       *)
(* traceroute and ping.  They differ in how the timer ends the wait, and   *)
(* that is what goes wrong: SIGALRM that arrives between two instructions  *)
(* instead of inside the system call.  prog, chosen in Init, is the record *)
(* of what a program does.                                                 *)
(***************************************************************************)
EXTENDS Naturals, Sequences

CONSTANTS
    Programs,    \* the programs considered
    MaxReq,      \* bound: requests (lines typed, probes, calls)
    MaxReplies,  \* bound: datagrams that arrive
    BufCap       \* bound: datagrams in the receive buffer

ASSUME AlarmAssumption ==
    MaxReq \in Nat \ {0} /\ MaxReplies \in Nat /\ BufCap \in Nat \ {0}

-----------------------------------------------------------------------------
(* The programs.                                                           *)
(*   wait    how it blocks: "recv" in a call that SIGALRM interrupts;      *)
(*           "unmask" the same with SIGALRM unblocked only around the      *)
(*           call; "pselect" with the mask changed in the call; "select"   *)
(*           on the socket and a pipe; "timed" in a call with a timeout    *)
(*   handler what the SIGALRM handler does: "return", set a "flag", "jump" *)
(*           to the sigsetjmp, write to the "pipe", or "send" again        *)
(*   ends    what ends the wait: the first "reply", or the "timer"         *)
(*   intr    what EINTR does: "end" the wait or "continue" it              *)
(*   match   "seq": answers to other requests are passed over; "unreach":  *)
(*           only those that are no time exceeded message; "none"          *)
(*   tries   transmissions of one request before it gives up               *)
(*   setjmp  sigsetjmp comes "before" or "after" alarm, "none"; frame says *)
(*           whether the function returns after each request ("call")      *)
(*   guarded the handler looks at canjump first                            *)

Plain == [wait |-> "recv", handler |-> "return", ends |-> "reply", intr |-> "end",
          match |-> "none", tries |-> 1, setjmp |-> "none", frame |-> "loop", guarded |-> FALSE]
Collect == [Plain EXCEPT !.ends = "timer"]

dgclibcast1 == Collect
dgclibcast2 == Collect                                        \* sleep(1) before printf
dgclibcast3 == [Collect EXCEPT !.wait = "unmask"]
dgclibcast4 == [Collect EXCEPT !.wait = "pselect"]
dgclibcast4_emulated == [Collect EXCEPT !.wait = "unmask"]    \* lib/pselect.c
dgclibcast5 == [Collect EXCEPT !.handler = "jump", !.setjmp = "after"]
dgclibcast6 == [Collect EXCEPT !.wait = "select", !.handler = "pipe", !.intr = "continue"]
mcast_dgclibcast1 == Collect
dgclimcast5 == [Collect EXCEPT !.handler = "jump", !.setjmp = "after"]
dgclimcast6 == [Collect EXCEPT !.handler = "jump", !.setjmp = "after"]
dgclitimeo  == [Plain EXCEPT !.wait = "timed"]                \* Readable_timeo
dgclitimeo1 == [Plain EXCEPT !.wait = "timed"]
dgclitimeo2 == [Plain EXCEPT !.wait = "timed"]                \* SO_RCVTIMEO
dgclitimeo3 == Plain
connect_timeo == [Plain EXCEPT !.match = "seq"]               \* a socket of its own
connect_nonb  == [Plain EXCEPT !.wait = "timed", !.match = "seq"]
dg_send_recv  == [Plain EXCEPT !.handler = "jump", !.setjmp = "after", !.frame = "call",
                               !.match = "seq", !.tries = 4]  \* RTT_MAXNREXMT + 1
test_udpLate == [Plain EXCEPT !.handler = "jump", !.setjmp = "after", !.frame = "call",
                              !.guarded = TRUE, !.tries = 3] \* mutant: sigsetjmp after alarm
test_udp    == [Plain EXCEPT !.handler = "jump", !.setjmp = "before", !.frame = "call",
                              !.guarded = TRUE, !.tries = 3]
recv_v4     == [Plain EXCEPT !.handler = "flag", !.intr = "continue", !.match = "seq"]
recv_v6     == [Plain EXCEPT !.handler = "flag", !.intr = "continue", !.match = "unreach"]
readloop    == [Collect EXCEPT !.handler = "send", !.intr = "continue"]

\* The main functions that open a socket and call one of these.
bcast_udpcli01 == dgclibcast1
bcast_udpcli02 == dgclibcast2
bcast_udpcli03 == dgclibcast3
bcast_udpcli04 == dgclibcast4
bcast_udpcli05 == dgclibcast5
bcast_udpcli06 == dgclibcast6
mcast_udpcli01 == mcast_dgclibcast1
mcast_udpcli05 == dgclimcast5
mcast_udpcli06 == dgclimcast6
advio_udpcli01 == dgclitimeo3
advio_udpcli02 == dgclitimeo1
advio_udpcli03 == dgclitimeo2
rtt_udpcli01   == dg_send_recv
ping           == readloop
traceroute     == recv_v4

AllPrograms ==
    {dgclibcast1, dgclibcast2, dgclibcast3, dgclibcast4, dgclibcast4_emulated, dgclibcast5,
     dgclibcast6, mcast_dgclibcast1, dgclimcast5, dgclimcast6, dgclitimeo, dgclitimeo1,
     dgclitimeo2, dgclitimeo3, connect_timeo, connect_nonb, dg_send_recv, test_udp, recv_v4,
     recv_v6, readloop, bcast_udpcli01, bcast_udpcli02, bcast_udpcli03, bcast_udpcli04,
     bcast_udpcli05, bcast_udpcli06, mcast_udpcli01, mcast_udpcli05, mcast_udpcli06,
     advio_udpcli01, advio_udpcli02, advio_udpcli03, rtt_udpcli01, ping, traceroute}

ASSUME ProgramsAssumption == Programs \subseteq AllPrograms

-----------------------------------------------------------------------------
VARIABLES
    prog,     \* the program
    pc,       \* "fgets", "send", "alarm", "loop", "window" (about to block),
              \* "blocked", "got" (a datagram), "stop" (alarm(0)), "timeout",
              \* "done", "gaveup", "wild" (siglongjmp into nothing)
    req,      \* number of the current request
    nsent,    \* transmissions of it
    armed,    \* the alarm clock (or the kernel's timeout) runs
    masked,   \* SIGALRM is blocked
    pending,  \* SIGALRM waits to be unblocked
    flag,     \* gotalarm; canjump of test_udp
    jmpbuf,   \* "unset", "live", or "dead" when its function has returned
    pipe,     \* bytes in the pipe of dgclibcast6
    buf,      \* receive buffer
    replies,  \* datagrams that have arrived
    got,      \* the datagram just read
    shown     \* pairs <<request, datagram taken for its answer>>

\* A datagram: the request it answers (0 if none), and for the ICMP messages
\* of traceroute whether it is time exceeded or unreachable.
Datagrams == [re : 0..MaxReq, exceeded : BOOLEAN]
Nothing   == [re |-> 0, exceeded |-> FALSE]

sigVars == <<masked, pending, flag, jmpbuf, pipe>>
netVars == <<buf, replies>>
vars == <<prog, pc, req, nsent, armed, masked, pending, flag, jmpbuf, pipe, buf, replies, got, shown>>

TypeOK ==
    /\ prog \in Programs
    /\ pc \in {"fgets", "send", "alarm", "loop", "window", "blocked", "got", "stop",
               "timeout", "done", "gaveup", "wild"}
    /\ req \in 0..MaxReq /\ nsent \in 0..prog.tries
    /\ armed \in BOOLEAN /\ masked \in BOOLEAN /\ pending \in BOOLEAN /\ flag \in BOOLEAN
    /\ jmpbuf \in {"unset", "live", "dead"} /\ pipe \in 0..MaxReq
    /\ buf \in Seq(Datagrams) /\ Len(buf) <= BufCap /\ replies \in 0..MaxReplies
    /\ got \in Datagrams /\ shown \subseteq (1..MaxReq) \X (0..MaxReq)

Init ==
    /\ prog \in Programs
    /\ pc = "fgets" /\ req = 0 /\ nsent = 0
    /\ armed = FALSE /\ masked = FALSE /\ pending = FALSE /\ flag = FALSE
    /\ jmpbuf = "unset" /\ pipe = 0
    /\ buf = <<>> /\ replies = 0 /\ got = Nothing /\ shown = {}

-----------------------------------------------------------------------------
(* The program. *)

\* Fgets, or the next probe or call.  dgclibcast4 blocks SIGALRM for good.
NextRequest ==
    /\ pc = "fgets" /\ req < MaxReq
    /\ req' = req + 1 /\ nsent' = 0
    /\ pc' = "send"
    /\ masked' = (masked \/ prog.wait = "pselect")
    /\ flag' = prog.guarded                              \* gotalarm = 0; canjump = 1
    /\ jmpbuf' = IF prog.setjmp = "before" THEN "live" ELSE jmpbuf
    /\ UNCHANGED <<prog, armed, pending, pipe, netVars, got, shown>>

Fgets_NULL ==
    /\ pc = "fgets" /\ req = MaxReq
    /\ pc' = "done"
    /\ UNCHANGED <<prog, req, nsent, armed, sigVars, netVars, got, shown>>

\* Sendto; the alarm clock of ping is set by the handler, called once by hand.
Send ==
    /\ pc = "send"
    /\ nsent' = nsent + 1
    /\ pc' = "alarm"
    /\ UNCHANGED <<prog, req, armed, sigVars, netVars, got, shown>>

Alarm ==
    /\ pc = "alarm"
    /\ armed' = TRUE
    /\ pc' = "loop"
    /\ UNCHANGED <<prog, req, nsent, sigVars, netVars, got, shown>>

\* pselect and the calls with a timeout block at once.
EntersAtOnce == prog.wait \in {"timed", "pselect"}

\* Top of the wait: test of gotalarm, sigsetjmp, then on to the call.
\* Sigprocmask(SIG_UNBLOCK) delivers what was pending.
Enter ==
    /\ pc = "loop"
    /\ jmpbuf' = IF prog.setjmp = "after" THEN "live" ELSE jmpbuf
    /\ masked' = (masked /\ EntersAtOnce)
    /\ pending' = (pending /\ EntersAtOnce)
    /\ pc' = IF prog.handler = "flag" /\ flag THEN "timeout"
             ELSE IF EntersAtOnce THEN "blocked" ELSE "window"
    /\ UNCHANGED <<prog, req, nsent, armed, flag, pipe, netVars, got, shown>>

Block ==
    /\ pc = "window"
    /\ pc' = "blocked"
    /\ UNCHANGED <<prog, req, nsent, armed, sigVars, netVars, got, shown>>

\* dgclibcast3: Sigprocmask(SIG_BLOCK) after recvfrom.
Remask == masked' = (masked \/ prog.wait = "unmask")

Recv ==
    /\ pc = "blocked" /\ buf # <<>>
    /\ got' = Head(buf) /\ buf' = Tail(buf)
    /\ Remask
    \* dgclibcast6: the pipe is looked at in the same round
    /\ IF prog.handler = "pipe" /\ pipe > 0
       THEN pipe' = pipe - 1 /\ pc' = "timeout"
       ELSE pipe' = pipe /\ pc' = "got"
    /\ UNCHANGED <<prog, req, nsent, armed, pending, flag, jmpbuf, replies, shown>>

\* Read(pipefd[0], &n, 1): timer expired
ReadPipe ==
    /\ pc = "blocked" /\ buf = <<>> /\ pipe > 0
    /\ pipe' = pipe - 1
    /\ pc' = "timeout"
    /\ UNCHANGED <<prog, req, nsent, armed, masked, pending, flag, jmpbuf, netVars, got, shown>>

MatchesAny(d) == TRUE  \* mutant: no test of the sequence number

\* recvhdr.seq == sendhdr.seq; the ports of the datagram in the ICMP error.
\* recv_v6 has no braces around "ret = -2; break;": a time exceeded message
\* ends its loop whatever the ports.
Matches(d) ==
    \/ d.re = req
    \/ prog.match = "none"
    \/ prog.match = "unreach" /\ d.exceeded

\* One more datagram looked at.
Got ==
    /\ pc = "got"
    /\ pc' = IF prog.ends = "timer" \/ ~Matches(got) THEN "loop" ELSE "stop"
    /\ UNCHANGED <<prog, req, nsent, armed, sigVars, netVars, got, shown>>

\* canjump = 0; alarm(0); the answer is used.
Stop ==
    /\ pc = "stop"
    /\ armed' = FALSE
    /\ flag' = (flag /\ ~prog.guarded)
    /\ jmpbuf' = IF prog.frame = "call" /\ jmpbuf = "live" THEN "dead" ELSE jmpbuf
    /\ shown' = shown \cup {<<req, got.re>>}
    /\ pc' = "fgets"
    /\ UNCHANGED <<prog, req, nsent, masked, pending, pipe, netVars, got>>

\* The wait is over: next request, the same one again, or "no response".
Timeout ==
    /\ pc = "timeout"
    /\ pc' = IF prog.tries = 1 THEN "fgets"
             ELSE IF nsent < prog.tries THEN "send" ELSE "gaveup"
    /\ UNCHANGED <<prog, req, nsent, armed, sigVars, netVars, got, shown>>

Process ==
    \/ NextRequest \/ Fgets_NULL \/ Send \/ Alarm \/ Enter \/ Block \/ Recv \/ ReadPipe
    \/ Got \/ Stop \/ Timeout

-----------------------------------------------------------------------------
(* The timer and SIGALRM. *)

AfterIntrAgain == "loop"  \* mutant: EINTR always continues
AfterIntr      == IF prog.intr = "end" THEN "timeout" ELSE "loop"

\* The system call in progress is interrupted, unless it has data to return;
\* a handler that runs at any other moment has only its own effect.
Interrupted ==
    IF pc = "blocked" /\ buf = <<>>
    THEN pc' = AfterIntr /\ Remask
    ELSE UNCHANGED <<pc, masked>>

PipeAfter == IF prog.handler = "pipe" THEN pipe + 1 ELSE pipe

Handler ==
    \/ /\ prog.handler \in {"return", "flag", "pipe"}
       /\ Interrupted
       /\ flag' = (flag \/ prog.handler = "flag")
       /\ pipe' = PipeAfter
       /\ armed' = FALSE
       /\ UNCHANGED req
    \/ /\ prog.handler = "send"                      \* (*pr->fsend)(); alarm(1)
       /\ Interrupted
       /\ req' = IF req < MaxReq THEN req + 1 ELSE req
       /\ armed' = (req' < MaxReq)
       /\ UNCHANGED <<flag, pipe>>
    \/ /\ prog.handler = "jump"
       /\ pc' = IF prog.guarded /\ ~flag THEN pc
                ELSE IF jmpbuf = "live" THEN "timeout" ELSE "wild"
       /\ armed' = FALSE
       /\ UNCHANGED <<req, flag, pipe, masked>>

\* The alarm clock reaches zero.
Expire ==
    /\ armed /\ prog.wait # "timed"
    /\ IF masked /\ ~(prog.wait = "pselect" /\ pc = "blocked" /\ buf = <<>>)
       THEN pending' = TRUE /\ armed' = FALSE /\ UNCHANGED <<pc, req, flag, pipe, masked>>
       ELSE Handler /\ UNCHANGED pending
    /\ UNCHANGED <<prog, nsent, jmpbuf, netVars, got, shown>>

\* pselect lets SIGALRM in.
Deliver ==
    /\ pending /\ prog.wait = "pselect" /\ pc = "blocked" /\ buf = <<>>
    /\ Handler
    /\ pending' = FALSE
    /\ UNCHANGED <<prog, nsent, jmpbuf, netVars, got, shown>>

\* select or SO_RCVTIMEO
CallTimesOut ==
    /\ armed /\ prog.wait = "timed" /\ pc = "blocked" /\ buf = <<>>
    /\ armed' = FALSE
    /\ pc' = "timeout"
    /\ UNCHANGED <<prog, req, nsent, sigVars, netVars, got, shown>>

Timer == Expire \/ Deliver \/ CallTimesOut

\* An answer to this or an earlier request, or something else; late,
\* repeated or never.
Arrive ==
    /\ replies < MaxReplies /\ Len(buf) < BufCap
    /\ \E d \in Datagrams :
          /\ d.re <= req /\ (d.re = req => nsent > 0)
          /\ d.exceeded => prog.handler = "flag"
          /\ buf' = Append(buf, d)
    /\ replies' = replies + 1
    /\ UNCHANGED <<prog, pc, req, nsent, armed, sigVars, got, shown>>

\* Blocked, and nothing but another datagram will change that.
BlockedForGood == pc = "blocked" /\ buf = <<>> /\ ~armed /\ ~pending /\ pipe = 0

Over ==
    \/ pc \in {"done", "gaveup", "wild"}
    \/ BlockedForGood /\ replies = MaxReplies

Next == Process \/ Timer \/ Arrive \/ (Over /\ UNCHANGED vars)

Spec == Init /\ [][Next]_vars

\* The process runs and clocks run down; datagrams may never come.
FairSpec == Spec /\ WF_vars(Process) /\ WF_vars(Timer)

-----------------------------------------------------------------------------
(* Properties. *)

\* Programs in which SIGALRM can hit between the last test and the call.
Racy == {dgclibcast1, dgclibcast3, dgclitimeo3, connect_timeo, recv_v4, recv_v6}

\* ping has sent all the requests of this instance.
AllSent == prog.handler = "send" /\ req = MaxReq

\* Every wait comes to its end, with an answer or with a timeout: no wakeup is
\* lost with pselect, the self-pipe, siglongjmp, a timeout of the call itself,
\* or an alarm that is set again and again.  The others unblock or arm SIGALRM
\* before a plain recvfrom, connect or select, and may wait for good.
WaitEnds == pc = "send" ~> (pc \in {"fgets", "done", "gaveup", "wild"} \/ prog \in Racy \/ AllSent)

\* "Some other ICMP error, recvfrom() again": a program that compares
\* sequence numbers or ports takes no other request's answer for its own,
\* however late answers come and however often requests are repeated.  (Not
\* so recv_v6: a break outside the if takes any time exceeded message.)
AnswerIsOwn == prog.match = "seq" => \A a \in shown : a[1] = a[2]

\* siglongjmp finds its sigsetjmp in a function that is still running, except
\* where the alarm is set first: in dgclibcast5 at the first request, in
\* dg_send_recv at the first transmission of each.
NoWildJump ==
    pc = "wild" => /\ prog \in {dgclibcast5, dg_send_recv}
                   /\ nsent = 1 /\ (prog = dgclibcast5 => req = 1)
=============================================================================
