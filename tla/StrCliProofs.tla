----------------------------- MODULE StrCliProofs -----------------------------
(***************************************************************************)
(* The interactive clients, for every number of lines and every size of    *)
(* the buffers: a client that returns as if all were well has seen every   *)
(* reply, and none blames a server that lived.                             *)
(*                                                                         *)
(* Lines are kept: while the server lives, the lines read to be sent are   *)
(* the replies shown and the lines in one of the buffers on the way.  The  *)
(* server ends by itself only after the client's FIN, or when the client   *)
(* is gone, and the FIN is sent only when no line is left to be sent.      *)
(***************************************************************************)
EXTENDS StrCli, Integers, TLAPS

\* Where the processes of each kind of client can be.
PlaceInv ==
    /\ prog.loop = "stopwait" => cpc \in {"fgets", "write", "half", "readline"} \cup Ends
    /\ prog.loop = "select" => cpc \in {"select", "events", "write", "shutdown"} \cup Ends
    /\ cpc = "shutdown" => isfile /\ typed = 0
    /\ isfile => prog.lastread
    /\ prog.loop = "nonblock" => cpc \in {"select", "nb_in", "nb_sock", "nb_out", "nb_write"} \cup Ends
    /\ Split => cpc \in {"readline"} \cup Ends
    /\ ~Split => wpc = "off"
    /\ prog.loop = "thread" => wpc \in {"off", "fgets", "write", "done"} /\ (cpc \in Ends => wpc = "off")
    /\ prog.loop = "fork" => wpc \in {"fgets", "write", "pause"} \cup Ends
    /\ prog.loop = "fork" /\ wpc = "sigterm" => cpc = "normal"
    /\ cpc = "half" => prog.halves

\* What the buffers hold there.
BufInv ==
    /\ cpc \in {"write", "half"} => cbuf > 0
    /\ ~Split /\ cpc \notin {"write", "half"} \cup Ends => cbuf = 0
    /\ wpc = "write" => cbuf = 1
    /\ wpc \in {"fgets", "done", "pause"} => cbuf = 0
    /\ prog.loop # "nonblock" => to.i = to.o /\ fr.i = fr.o
    /\ ~prog.stdio => fbuf = 0 /\ rbuf = 0
    /\ spc = "write" => sbuf > 0

\* The end of the input and the client's FIN.
FinInv ==
    /\ isfile => userEof
    /\ upFin => /\ userEof /\ typed = 0 /\ fbuf = 0 /\ cbuf = 0 /\ to.i = to.o
                /\ prog.loop # "stopwait"
                /\ prog.loop \in {"select", "nonblock"} => stdineof /\ prog.ateof # "return"
    /\ prog.loop = "nonblock" /\ stdineof => userEof /\ typed = 0
    /\ prog.loop = "nonblock" /\ cpc = "nb_in" /\ "fp" \in rset => ~stdineof

\* Stop-and-wait: one line at a time.
StopInv ==
    prog.loop = "stopwait" =>
        /\ cpc = "fgets" => sent = out
        /\ cpc \in {"write", "half", "readline"} => sent = out + 1
        /\ cpc = "normal" => sent = out /\ fbuf = 0

\* The lines on their way, and those shown.
Serving  == IF spc = "write" THEN sbuf ELSE 0
UnderWay == cbuf + (to.i - to.o) + up + Serving + down + rbuf + (fr.i - fr.o)
FlowInv ==
    /\ rst => spc = "dead"
    /\ dfin => spc \in {"exit", "dead"}
    /\ spc \in {"read", "write"} \/ (spc = "exit" /\ ~Gone) => sent = UnderWay + out
    /\ spc = "exit" /\ ~Gone => upFin /\ up = 0

IInv == TypeOK /\ PlaceInv /\ BufInv /\ FinInv /\ StopInv /\ FlowInv /\ Complete /\ PrematureMeansDead

-----------------------------------------------------------------------------
USE StrCliAssumption
USE DEF userVars, inVars, outVars, nbVars, serverVars

\* The types, by what the variables are about.
PcTypes ==
    /\ prog \in Programs
    /\ cpc \in {"fgets", "write", "half", "readline", "select", "events", "shutdown",
                "nb_in", "nb_sock", "nb_out", "nb_write"} \cup Ends
    /\ wpc \in {"off", "fgets", "write", "done", "pause"} \cup Ends
    /\ spc \in {"read", "write", "exit", "dead"}
    /\ rset \subseteq {"fp", "sock", "wsock", "stdout", "try"}
InTypes ==
    /\ left \in Nat /\ typed \in Nat /\ fbuf \in Nat /\ sent \in Nat
    /\ left + typed + fbuf + sent <= Total /\ cbuf \in 0..BUF
OutTypes == rbuf \in Nat /\ out \in Nat /\ up \in 0..UpCap /\ down \in 0..DownCap /\ sbuf \in 0..BUF
NbTypes ==
    /\ to \in [i : 0..BUF, o : 0..BUF] /\ fr \in [i : 0..BUF, o : 0..BUF]
    /\ to.o <= to.i /\ fr.o <= fr.i
BoolTypes ==
    /\ userEof \in BOOLEAN /\ isfile \in BOOLEAN /\ stdineof \in BOOLEAN /\ upFin \in BOOLEAN
    /\ dfin \in BOOLEAN /\ rst \in BOOLEAN

LEMMA Types ==
  /\ TypeOK <=> PcTypes /\ InTypes /\ OutTypes /\ NbTypes /\ BoolTypes
  /\ TypeOK' <=> PcTypes' /\ InTypes' /\ OutTypes' /\ NbTypes' /\ BoolTypes'
BY Zenon DEF TypeOK, PcTypes, InTypes, OutTypes, NbTypes, BoolTypes

\* What the programs have in common.
LEMMA ProgramFacts ==
  ASSUME NEW p \in Programs
  PROVE  /\ p.loop \in {"stopwait", "select", "nonblock", "fork", "thread"}
         /\ p.loop \in {"stopwait", "fork", "thread"} => p.stdio
         /\ p.loop = "stopwait" => p.ateof = "return"
         /\ p.loop = "nonblock" => ~p.stdio /\ p.ateof # "return"
         /\ p.loop = "fork" => p.onend = "kill"
         /\ p.onend \in {"return", "kill"} => p.loop \in {"fork", "thread"}
         /\ p.skips => p.loop = "stopwait"
         /\ p.halves => p.loop = "stopwait"
         /\ p.lastread \in BOOLEAN
         /\ p.lastread => p.loop = "select" /\ ~p.stdio /\ p.ateof # "return"
<1>1. p \in AllPrograms
  BY ProgramsAssumption
<1>2. p \in {str_cli, str_cli11, str_cli09, str_cli_select01, strcliselect02, advio_str_cli_select02,
             str_cli_poll03, str_cli_kqueue04, strclinonb, strclifork, strclithread, strclithread2}
  BY <1>1 DEF AllPrograms, tcp_cli01, lib_str_cli, tcpcliserv_cli08, tcpcliserv_cli09, tcpcliserv_cli11,
     tcpcliserv_tcpcli01, tcpcliserv_tcpcli04, tcpcliserv_tcpcli05, tcpcliserv_tcpcli08, tcpcliserv_tcpcli09,
     tcpcliserv_tcpcli10, tcpcliserv_tcpcli11, unixstrcli01, strcliselect01, select_tcpcli01, select_tcpcli02,
     advio_tcpcli01, advio_tcpcli02, advio_tcpcli03, advio_tcpcli04, nonblock_tcpcli01, nonblock_tcpcli02,
     nonblock_tcpcli04, threads_tcpcli01, threads_tcpcli02
<1>3. CASE p = str_cli
  BY <1>3 DEF Waits, str_cli
<1>4. CASE p = str_cli11
  BY <1>4 DEF Waits, str_cli11
<1>5. CASE p = str_cli09
  BY <1>5 DEF Waits, str_cli09
<1>6. CASE p = str_cli_select01
  BY <1>6 DEF Waits, str_cli_select01
<1>7. CASE p = strcliselect02
  BY <1>7 DEF Waits, str_cli_select01, strcliselect02
<1>8. CASE p = advio_str_cli_select02
  BY <1>8 DEF Waits, str_cli_select01, strcliselect02, advio_str_cli_select02
<1>9. CASE p = str_cli_poll03
  BY <1>9 DEF Waits, str_cli_select01, strcliselect02, str_cli_poll03
<1>10. CASE p = str_cli_kqueue04
  BY <1>10 DEF Waits, str_cli_select01, strcliselect02, str_cli_kqueue04
<1>11. CASE p = strclinonb
  BY <1>11 DEF Waits, str_cli_select01, strcliselect02, strclinonb
<1>12. CASE p = strclifork
  BY <1>12 DEF Waits, strclifork
<1>13. CASE p = strclithread
  BY <1>13 DEF Waits, strclithread
<1>14. CASE p = strclithread2
  BY <1>14 DEF Waits, strclithread, strclithread2
<1>15. QED
  BY <1>2, <1>3, <1>4, <1>5, <1>6, <1>7, <1>8, <1>9, <1>10, <1>11, <1>12, <1>13, <1>14

\* The parts of the invariant that a step leaves alone.
LEMMA FlowKept ==
  ASSUME FlowInv, UNCHANGED <<prog, cbuf, sent, to, fr, up, down, rbuf, out, serverVars>>,
         upFin => upFin', Gone => Gone'
  PROVE  FlowInv'
BY DEF FlowInv, UnderWay, Serving

LEMMA EndKept ==
  ASSUME Complete, PrematureMeansDead, UNCHANGED prog, upFin => upFin', spc = "dead" => spc' = "dead",
         cpc' = "premature" => cpc' = cpc /\ (prog.loop = "thread" => wpc' = wpc),
         prog.loop # "fork" /\ cpc' = "normal" => UNCHANGED <<cpc, fbuf, out, fr, sent>>,
         prog.loop = "fork" /\ wpc' = "sigterm" => UNCHANGED <<wpc, fbuf, out, fr, sent>>
  PROVE  Complete' /\ PrematureMeansDead'
BY DEF Complete, PrematureMeansDead, LeavesEarly

\* Input is taken: n lines of what was typed.
LEMMA InputTaken ==
  ASSUME InTypes, TakeInput
  PROVE  \E n \in 1..BUF, t \in Nat, f \in Nat :
             /\ cbuf' = n /\ typed' = t /\ fbuf' = f /\ t + f + n = typed + fbuf
             /\ (prog.stdio => n = 1) /\ (~prog.stdio => fbuf' = fbuf)
<1>1. CASE prog.stdio
  <2>1. cbuf' = 1 /\ Fgets /\ 1 \in 1..BUF
    BY <1>1 DEF TakeInput
  <2>2. PICK t \in Nat, f \in Nat : typed' = t /\ fbuf' = f /\ t + f + 1 = typed + fbuf
    BY <2>1 DEF Fgets, InTypes
  <2>3. QED
    BY <1>1, <2>1, <2>2
<1>2. CASE ~prog.stdio
  <2>1. PICK n \in 1..Min(BUF, typed) : typed' = typed - n /\ cbuf' = n /\ fbuf' = fbuf
    BY <1>2 DEF TakeInput
  <2>2. n \in 1..BUF /\ n <= typed
    BY DEF Min, InTypes
  <2>3. QED
    BY <1>2, <2>1, <2>2 DEF InTypes
<1>3. QED
  BY <1>1, <1>2

\* Replies are shown: n lines of what came back.
LEMMA ReplyTaken ==
  ASSUME OutTypes, TakeReply
  PROVE  \E n \in Nat, r \in Nat, d \in 0..DownCap :
             /\ out' = out + n /\ rbuf' = r /\ down' = d /\ r + d + n = rbuf + down
             /\ (prog.stdio => n = 1) /\ (~prog.stdio => rbuf' = rbuf)
<1>4. Arrived \in Nat /\ Arrived <= down /\ (down > 0 => Arrived > 0)
  BY DEF Arrived, Min, OutTypes
<1>1. CASE prog.stdio
  <2>1. PICK r \in Nat, d \in 0..DownCap :
             out' = out + 1 /\ rbuf' = r /\ down' = d /\ r + d + 1 = rbuf + down
    BY <1>1, <1>4 DEF TakeReply, OutTypes
  <2>2. QED
    BY <1>1, <2>1
<1>2. CASE ~prog.stdio
  <2>1. down' = down - Arrived /\ out' = out + Arrived /\ rbuf' = rbuf
    BY <1>2 DEF TakeReply
  <2>2. QED
    BY <1>2, <1>4, <2>1 DEF OutTypes
<1>3. QED
  BY <1>1, <1>2

-----------------------------------------------------------------------------
LEMMA InitIInv == Init => IInv
<1> SUFFICES ASSUME Init
             PROVE  IInv
  OBVIOUS
<1>1. /\ prog \in Programs /\ userEof = isfile /\ isfile \in {FALSE, prog.lastread} /\ fbuf = 0
      /\ rset = {} /\ stdineof = FALSE /\ cbuf = 0 /\ sent = 0 /\ rbuf = 0 /\ out = 0
      /\ to = [i |-> 0, o |-> 0] /\ fr = [i |-> 0, o |-> 0]
      /\ up = 0 /\ upFin = FALSE /\ spc = "read" /\ sbuf = 0 /\ down = 0 /\ dfin = FALSE /\ rst = FALSE
      /\ wpc = IF Split THEN "fgets" ELSE "off"
      /\ cpc = IF prog.loop = "stopwait" THEN "fgets" ELSE IF Split THEN "readline" ELSE "select"
  BY DEF Init
<1>2. prog.loop \in {"stopwait", "select", "nonblock", "fork", "thread"} /\ isfile \in BOOLEAN
  BY <1>1, ProgramFacts
<1>3. TypeOK
  <2>1. PcTypes
    BY <1>1 DEF PcTypes
  <2>2. InTypes /\ OutTypes
    <3>1. left \in Nat /\ typed \in Nat /\ left + typed <= Total
      BY DEF Init
    <3>2. QED
      BY <1>1, <3>1 DEF InTypes, OutTypes
  <2>3. NbTypes
    BY <1>1 DEF NbTypes
  <2>4. BoolTypes
    BY <1>1, <1>2 DEF BoolTypes
  <2>5. QED
    BY <2>1, <2>2, <2>3, <2>4, Types
<1>4. PlaceInv
  BY <1>1, <1>2 DEF PlaceInv, Split, Ends
<1>5. BufInv /\ FinInv /\ StopInv
  BY <1>1, <1>2 DEF BufInv, FinInv, StopInv, Split, Ends
<1>6. FlowInv
  BY <1>1 DEF FlowInv, UnderWay, Serving
<1>7. Complete /\ PrematureMeansDead
  BY <1>1, <1>2 DEF Complete, PrematureMeansDead, Split
<1>8. QED
  BY <1>3, <1>4, <1>5, <1>6, <1>7 DEF IInv

-----------------------------------------------------------------------------
(* The user, the server child and the connection. *)

LEMMA UserIInv ==
  ASSUME IInv, Type \/ CloseStdin
  PROVE  IInv'
<1> USE DEF IInv
<1>1. PcTypes /\ InTypes /\ OutTypes /\ NbTypes /\ BoolTypes
  BY Types
<1>2. /\ UNCHANGED <<prog, isfile, fbuf, sent, outVars, nbVars, serverVars, cpc, wpc, rset, stdineof, cbuf, up, upFin>>
      /\ ~userEof
      /\ \/ left > 0 /\ left' = left - 1 /\ typed' = typed + 1 /\ userEof' = userEof
         \/ left' = left /\ typed' = typed /\ userEof' = TRUE
  BY DEF Type, CloseStdin
<1>3. TypeOK'
  <2>1. PcTypes' /\ OutTypes'
    BY <1>1, <1>2 DEF PcTypes, OutTypes
  <2>2. NbTypes' /\ BoolTypes'
    BY <1>1, <1>2 DEF NbTypes, BoolTypes
  <2>3. InTypes'
    BY <1>1, <1>2 DEF InTypes
  <2>4. QED
    BY <2>1, <2>2, <2>3, Types
<1>4. PlaceInv'
  BY <1>2 DEF PlaceInv, FinInv, Split
<1>5. BufInv' /\ StopInv'
  BY <1>2 DEF BufInv, StopInv, Split
<1>6. FinInv'
  BY <1>2 DEF FinInv
<1>7. FlowInv'
  BY <1>2, FlowKept DEF Gone
<1>8. Complete' /\ PrematureMeansDead'
  BY <1>2, EndKept
<1>9. QED
  BY <1>3, <1>4, <1>5, <1>6, <1>7, <1>8

LEMMA ServerIInv ==
  ASSUME IInv, Server \/ Die \/ PeerReset
  PROVE  IInv'
<1> USE DEF IInv
<1>1. PcTypes /\ InTypes /\ OutTypes /\ NbTypes /\ BoolTypes
  BY Types
<1>2. /\ UNCHANGED <<prog, userVars, inVars, rbuf, out, nbVars, cpc, wpc, rset, stdineof, cbuf, upFin>>
      /\ \/ /\ spc = "read" /\ sbuf' \in 1..BUF /\ sbuf' <= up /\ up' = up - sbuf' /\ spc' = "write"
            /\ UNCHANGED <<down, dfin, rst>>
         \/ /\ spc = "write" /\ down < DownCap /\ down' = down + 1 /\ sbuf' = sbuf - 1
            /\ spc' = IF sbuf > 1 THEN "write" ELSE "read"
            /\ UNCHANGED <<up, dfin, rst>>
         \/ /\ spc \in {"read", "write"} /\ ((spc = "read" /\ up = 0 /\ upFin) \/ Gone)
            /\ spc' = "exit" /\ dfin' = TRUE /\ UNCHANGED <<up, down, rst, sbuf>>
         \/ /\ spc' = "dead" /\ dfin' \in BOOLEAN /\ rst' \in BOOLEAN /\ up' \in {0, up}
            /\ UNCHANGED <<down, sbuf>>
  <2>1. CASE EchoRead
    <3>1. PICK k \in 1..Min(BUF, up) : up' = up - k /\ sbuf' = k
      BY <2>1 DEF EchoRead
    <3>2. k \in 1..BUF /\ k <= up
      BY <1>1, <3>1 DEF Min, OutTypes
    <3>3. QED
      BY <2>1, <3>1, <3>2 DEF EchoRead
  <2>2. CASE EchoWrite \/ EchoEnds \/ Die \/ PeerReset
    BY <1>1, <2>2 DEF EchoWrite, EchoEnds, Die, PeerReset, BoolTypes
  <2>3. QED
    BY <2>1, <2>2 DEF Server
<1>3. TypeOK'
  <2>1. PcTypes' /\ InTypes' /\ NbTypes'
    BY <1>1, <1>2 DEF PcTypes, InTypes, NbTypes
  <2>2. OutTypes'
    BY <1>1, <1>2 DEF OutTypes, BufInv
  <2>3. BoolTypes'
    BY <1>1, <1>2 DEF BoolTypes
  <2>4. QED
    BY <2>1, <2>2, <2>3, Types
<1>4. PlaceInv'
  BY <1>2 DEF PlaceInv, Split
<1>5. BufInv' /\ StopInv' /\ FinInv'
  <2>1. spc' = "write" => sbuf' > 0
    BY <1>1, <1>2 DEF BufInv, OutTypes
  <2>2. QED
    BY <1>2, <2>1 DEF BufInv, StopInv, FinInv, Split
<1>6. FlowInv'
  <2>1. to.i \in Int /\ to.o \in Int /\ fr.i \in Int /\ fr.o \in Int
    BY <1>1 DEF NbTypes
  <2>2. Gone' <=> Gone
    BY <1>2 DEF Gone
  <2>3. spc' \in {"read", "write"} \/ (spc' = "exit" /\ ~Gone)
          => up + Serving + down = up' + Serving' + down'
    BY <1>1, <1>2 DEF Serving, BufInv, OutTypes
  <2>4. spc' \in {"read", "write"} \/ (spc' = "exit" /\ ~Gone) => UnderWay' = UnderWay
    <3>1. /\ cbuf \in Int /\ rbuf \in Int /\ up \in Int /\ down \in Int /\ Serving \in Int
          /\ up' \in Int /\ down' \in Int /\ Serving' \in Int
      BY <1>1, <1>3, Types DEF InTypes, OutTypes, Serving
    <3>2. UnderWay = cbuf + (to.i - to.o) + (up + Serving + down) + rbuf + (fr.i - fr.o)
      BY <2>1, <3>1 DEF UnderWay
    <3>3. UnderWay' = cbuf + (to.i - to.o) + (up' + Serving' + down') + rbuf + (fr.i - fr.o)
      BY <1>2, <2>1, <3>1 DEF UnderWay
    <3>4. QED
      BY <2>3, <3>2, <3>3
  <2>5. QED
    BY <1>2, <2>2, <2>4 DEF FlowInv
<1>7. Complete' /\ PrematureMeansDead'
  <2>1. spc = "dead" => spc' = "dead"
    BY <1>2
  <2>2. QED
    BY <1>2, <2>1, EndKept
<1>8. QED
  BY <1>3, <1>4, <1>5, <1>6, <1>7

-----------------------------------------------------------------------------
(* The client. *)

\* The client moves and touches no line.
LEMMA QuietIInv ==
  ASSUME IInv, UNCHANGED <<prog, userVars, inVars, outVars, nbVars, serverVars, stdineof, cbuf, up, upFin>>,
         PcTypes', PlaceInv', BufInv', StopInv',
         prog.loop = "nonblock" /\ cpc' = "nb_in" /\ "fp" \in rset' => ~stdineof,
         Gone => Gone', cpc' \notin {"normal", "premature"} \/ UNCHANGED <<cpc, wpc>>,
         wpc' # "sigterm" \/ wpc' = wpc
  PROVE  IInv'
<1> USE DEF IInv
<1>1. InTypes /\ OutTypes /\ NbTypes /\ BoolTypes
  BY Types
<1>2. InTypes' /\ OutTypes' /\ NbTypes' /\ BoolTypes'
  BY <1>1 DEF InTypes, OutTypes, NbTypes, BoolTypes
<1>3. FinInv'
  BY DEF FinInv
<1>4. FlowInv'
  BY FlowKept
<1>5. Complete' /\ PrematureMeansDead'
  BY EndKept
<1>6. QED
  BY <1>2, <1>3, <1>4, <1>5, Types

LEMMA SelectIInv ==
  ASSUME IInv, Select \/ NbSelect
  PROVE  IInv'
<1> USE DEF IInv
<1>1. PcTypes
  BY Types
<1>2. /\ UNCHANGED <<prog, userVars, inVars, outVars, nbVars, serverVars, wpc, stdineof, cbuf, up, upFin>>
      /\ cpc = "select" /\ cpc \notin Ends /\ rset' \subseteq {"fp", "sock", "wsock", "stdout", "try"}
      /\ \/ prog.loop = "select" /\ cpc' = "events"
         \/ prog.loop = "nonblock" /\ cpc' = "nb_in" /\ ("fp" \in rset' => ~stdineof)
  BY DEF Select, NbSelect, Ends
<1>3. PcTypes' /\ PlaceInv'
  BY <1>1, <1>2 DEF PcTypes, PlaceInv, Split, Ends
<1>4. BufInv' /\ StopInv'
  BY <1>2 DEF BufInv, StopInv, Split, Ends
<1>5. QED
  BY <1>2, <1>3, <1>4, QuietIInv DEF Gone

\* str_cli11 between its two writes, and calls that fail.
LEMMA FailsIInv ==
  ASSUME IInv, WriteHalf \/ WriteFails \/ ReplyFails
  PROVE  IInv'
<1> USE DEF IInv
<1>1. PcTypes
  BY Types
<1>2. /\ UNCHANGED <<prog, userVars, inVars, outVars, nbVars, serverVars, rset, stdineof, cbuf, up, upFin>>
      /\ \/ cpc = "write" /\ prog.halves /\ cpc' \in {"half", "sigpipe", "err_sys"} /\ wpc' = wpc
         \/ cpc \in {"write", "half"} /\ cpc' \in {"sigpipe", "err_sys"} /\ wpc' = wpc
         \/ /\ cpc \in {"readline", "events"} /\ cpc' = "err_sys"
            /\ wpc' = IF prog.loop = "thread" THEN "off" ELSE wpc
  BY DEF WriteHalf, WriteFails, ReplyFails, Writing, SockTurn, WriteError
<1>3. /\ prog.loop \in {"stopwait", "select", "nonblock", "fork", "thread"}
      /\ prog.halves => prog.loop = "stopwait"
  BY <1>1, ProgramFacts DEF PcTypes
<1>4. PcTypes'
  BY <1>1, <1>2 DEF PcTypes, Ends
<1>5. PlaceInv'
  BY <1>2, <1>3 DEF PlaceInv, Split, Ends
<1>6. BufInv' /\ StopInv'
  BY <1>2, <1>3 DEF BufInv, StopInv, PlaceInv, Split, Ends
<1>7. ~Gone /\ (wpc' # "sigterm" \/ wpc' = wpc) /\ cpc' \notin {"normal", "premature", "nb_in"}
  BY <1>2 DEF Gone, Ends
<1>8. QED
  BY <1>2, <1>4, <1>5, <1>6, <1>7, QuietIInv

LEMMA ReadInputIInv ==
  ASSUME IInv, ReadInput
  PROVE  IInv'
<1> USE DEF IInv
<1>1. PcTypes /\ InTypes /\ OutTypes /\ NbTypes /\ BoolTypes
  BY Types
<1>2. /\ UNCHANGED <<prog, userVars, outVars, nbVars, serverVars, wpc, rset, stdineof, up, upFin>>
      /\ cpc \in {"fgets", "events"} /\ sent' = sent + cbuf' /\ cpc' = "write"
  BY DEF ReadInput, FpTurn
<1>3. PICK n \in 1..BUF, t \in Nat, f \in Nat :
             /\ cbuf' = n /\ typed' = t /\ fbuf' = f /\ t + f + n = typed + fbuf
             /\ (prog.stdio => n = 1) /\ (~prog.stdio => fbuf' = fbuf)
  BY <1>1, InputTaken DEF ReadInput
<1>4. /\ prog.loop \in {"stopwait", "select"} /\ ~Split /\ cbuf = 0
      /\ prog.loop = "stopwait" => prog.stdio /\ cpc = "fgets"
  BY <1>1, <1>2, ProgramFacts DEF PlaceInv, BufInv, Split, Ends, PcTypes
<1>5. ~upFin
  BY <1>1, <1>3 DEF FinInv, InTypes
<1>6. TypeOK'
  <2>1. PcTypes'
    BY <1>1, <1>2 DEF PcTypes
  <2>2. InTypes'
    BY <1>1, <1>2, <1>3 DEF InTypes
  <2>3. OutTypes' /\ NbTypes' /\ BoolTypes'
    BY <1>1, <1>2 DEF OutTypes, NbTypes, BoolTypes
  <2>4. QED
    BY <2>1, <2>2, <2>3, Types
<1>7. PlaceInv' /\ FinInv'
  BY <1>2, <1>4, <1>5 DEF PlaceInv, FinInv, Split
<1>8. BufInv'
  BY <1>2, <1>3, <1>4 DEF BufInv, PlaceInv, Split
<1>9. StopInv'
  BY <1>2, <1>3, <1>4 DEF StopInv
<1>10. FlowInv'
  <2>1. to.i \in Int /\ to.o \in Int /\ fr.i \in Int /\ fr.o \in Int
    BY <1>1 DEF NbTypes
  <2>2. ~Gone /\ ~Gone'
    BY <1>2 DEF Gone, Ends
  <2>3. Serving' = Serving /\ Serving \in Int
    BY <1>1, <1>2 DEF Serving, OutTypes
  <2>4. QED
    BY <1>1, <1>2, <1>3, <1>4, <2>1, <2>2, <2>3 DEF FlowInv, UnderWay, InTypes, OutTypes
<1>11. Complete' /\ PrematureMeansDead'
  BY <1>2, <1>4, EndKept
<1>12. QED
  BY <1>6, <1>7, <1>8, <1>9, <1>10, <1>11

\* str_cli09 passes over a line.
LEMMA DropInputIInv ==
  ASSUME IInv, DropInput
  PROVE  IInv'
<1> USE DEF IInv
<1>1. PcTypes /\ InTypes /\ OutTypes /\ NbTypes /\ BoolTypes
  BY Types
<1>2. /\ UNCHANGED <<prog, userVars, sent, outVars, nbVars, serverVars, cpc, wpc, rset, stdineof, cbuf, up, upFin>>
      /\ prog.skips /\ cpc \in {"fgets", "events"} /\ Fgets
  BY DEF DropInput, FpTurn
<1>3. PICK t \in Nat, f \in Nat : typed' = t /\ fbuf' = f /\ t + f + 1 = typed + fbuf
  BY <1>1, <1>2 DEF Fgets, InTypes
<1>4. prog.loop = "stopwait" /\ prog.stdio
  BY <1>1, <1>2, ProgramFacts DEF PcTypes
<1>5. ~upFin
  BY <1>4 DEF FinInv
<1>6. TypeOK'
  <2>1. PcTypes' /\ OutTypes' /\ NbTypes' /\ BoolTypes'
    BY <1>1, <1>2 DEF PcTypes, OutTypes, NbTypes, BoolTypes
  <2>2. InTypes'
    BY <1>1, <1>2, <1>3 DEF InTypes
  <2>3. QED
    BY <2>1, <2>2, Types
<1>7. PlaceInv' /\ BufInv' /\ FinInv' /\ StopInv'
  BY <1>2, <1>4, <1>5 DEF PlaceInv, BufInv, FinInv, StopInv, Split
<1>8. FlowInv'
  BY <1>2, FlowKept DEF Gone
<1>9. Complete' /\ PrematureMeansDead'
  BY <1>2, <1>4, EndKept
<1>10. QED
  BY <1>6, <1>7, <1>8, <1>9

\* The end of standard input: return, or the FIN, with nothing left to send.
LEMMA InputEofIInv ==
  ASSUME IInv, InputEof \/ FileEof
  PROVE  IInv'
<1> USE DEF IInv
<1>1. PcTypes /\ InTypes /\ OutTypes /\ NbTypes /\ BoolTypes
  BY Types
<1>2. /\ UNCHANGED <<prog, userVars, inVars, outVars, nbVars, serverVars, wpc, cbuf, up>>
      /\ cpc \in {"fgets", "events", "shutdown"} /\ fbuf = 0 /\ typed = 0 /\ userEof
  <2>1. CASE InputEof
    BY <2>1 DEF InputEof, FpTurn, InputAtEof
  <2>2. CASE FileEof
    <3>1. ~prog.stdio
      BY <1>1, <2>2, ProgramFacts DEF FileEof, PlaceInv, PcTypes
    <3>2. QED
      BY <2>2, <3>1 DEF FileEof, PlaceInv, BufInv, FinInv
  <2>3. QED
    BY <2>1, <2>2
<1>3. /\ prog.loop \in {"stopwait", "select"} /\ ~Split /\ cbuf = 0
      /\ prog.loop = "stopwait" => prog.ateof = "return" /\ cpc = "fgets"
  BY <1>1, <1>2, ProgramFacts DEF PlaceInv, BufInv, Split, Ends, PcTypes
<1>4. \/ /\ prog.ateof = "return" /\ cpc' = "normal" /\ UNCHANGED <<stdineof, upFin, rset>>
      \/ /\ prog.ateof # "return" /\ stdineof' = TRUE /\ upFin' = TRUE /\ rset' \subseteq rset
         /\ cpc' \in {"err_sys", "select", "events"}
  <2>1. CASE InputEof
    BY <1>2, <1>3, <2>1 DEF InputEof, AtInputEof, SendFin, After
  <2>2. CASE FileEof
    <3>1. prog.ateof # "return" /\ prog.loop = "select"
      BY <1>1, <2>2, ProgramFacts DEF FileEof, PlaceInv, PcTypes
    <3>2. QED
      BY <1>2, <1>3, <2>2, <3>1 DEF FileEof, SendFin, After
  <2>3. QED
    BY <2>1, <2>2
<1>5. TypeOK'
  <2>1. PcTypes'
    BY <1>1, <1>2, <1>4 DEF PcTypes, Ends
  <2>2. InTypes' /\ OutTypes' /\ NbTypes'
    BY <1>1, <1>2 DEF InTypes, OutTypes, NbTypes
  <2>3. BoolTypes'
    BY <1>1, <1>2, <1>4 DEF BoolTypes
  <2>4. QED
    BY <2>1, <2>2, <2>3, Types
<1>6. PlaceInv'
  BY <1>2, <1>3, <1>4 DEF PlaceInv, Split, Ends
<1>7. BufInv'
  BY <1>2, <1>3, <1>4 DEF BufInv, Split, Ends
<1>8. FinInv'
  BY <1>2, <1>3, <1>4 DEF FinInv, BufInv
<1>9. StopInv'
  BY <1>2, <1>3, <1>4 DEF StopInv
<1>10. FlowInv'
  <2>1. ~Gone /\ (upFin => upFin')
    BY <1>2, <1>4 DEF Gone, Ends
  <2>2. QED
    BY <1>2, <2>1, FlowKept
<1>11. Complete' /\ PrematureMeansDead'
  <2>1. CASE prog.ateof = "return" /\ cpc' = "normal"
    <3>1. prog.loop = "stopwait" => out' + (fr'.i - fr'.o) = sent' /\ fbuf' = 0
      <4>1. prog.loop = "stopwait" => sent = out /\ fr.i = fr.o
        BY <1>3 DEF StopInv, BufInv
      <4>2. fr.i \in Int /\ fr.o \in Int /\ out \in Int
        BY <1>1 DEF NbTypes, OutTypes
      <4>3. QED
        BY <1>2, <4>1, <4>2
    <3>2. QED
      BY <1>2, <1>3, <2>1, <3>1 DEF Complete, PrematureMeansDead, LeavesEarly
  <2>2. CASE cpc' \in {"err_sys", "select", "events"}
    <3>1. upFin => upFin'
      BY <1>4
    <3>2. QED
      BY <1>2, <1>3, <2>2, <3>1, EndKept
  <2>3. QED
    BY <1>4, <2>1, <2>2
<1>12. QED
  BY <1>5, <1>6, <1>7, <1>8, <1>9, <1>10, <1>11

LEMMA WriteSockIInv ==
  ASSUME IInv, WriteSock
  PROVE  IInv'
<1> USE DEF IInv
<1>1. PcTypes /\ InTypes /\ OutTypes /\ NbTypes /\ BoolTypes
  BY Types
<1>2. /\ UNCHANGED <<prog, userVars, inVars, outVars, nbVars, serverVars, wpc, stdineof, upFin>>
      /\ cpc \in {"write", "half"} /\ ~rst /\ up < UpCap /\ up' = up + 1 /\ cbuf' = cbuf - 1
  BY DEF WriteSock, Writing
<1>3. prog.loop \in {"stopwait", "select"} /\ ~Split /\ cbuf > 0 /\ ~upFin
  BY <1>1, <1>2, ProgramFacts DEF PlaceInv, BufInv, FinInv, Split, Ends, PcTypes, InTypes
<1>4. /\ rset' \subseteq rset
      /\ \/ cbuf > 1 /\ cpc' = cpc
         \/ cbuf = 1 /\ cpc' = "readline" /\ prog.loop = "stopwait"
         \/ cbuf = 1 /\ cpc' \in {"select", "events"} /\ prog.loop = "select"
         \/ cbuf = 1 /\ cpc' = "shutdown" /\ prog.loop = "select" /\ isfile /\ typed = 0
  <2>1. isfile => prog.loop = "select"
    BY <1>1, ProgramFacts DEF PlaceInv, PcTypes
  <2>2. QED
    BY <1>1, <1>2, <1>3, <2>1 DEF WriteSock, FileEnds, After, InTypes
<1>5. TypeOK'
  <2>1. PcTypes'
    BY <1>1, <1>2, <1>4 DEF PcTypes
  <2>2. InTypes' /\ OutTypes' /\ NbTypes'
    BY <1>1, <1>2, <1>3 DEF InTypes, OutTypes, NbTypes
  <2>3. BoolTypes'
    BY <1>1, <1>2, <1>4 DEF BoolTypes
  <2>4. QED
    BY <2>1, <2>2, <2>3, Types
<1>6. PlaceInv'
  BY <1>2, <1>3, <1>4 DEF PlaceInv, Split, Ends
<1>7. BufInv'
  BY <1>1, <1>2, <1>3, <1>4 DEF BufInv, PlaceInv, Split, Ends, InTypes
<1>8. FinInv'
  BY <1>2, <1>3 DEF FinInv
<1>9. StopInv'
  BY <1>2, <1>3, <1>4 DEF StopInv
<1>10. FlowInv'
  <2>1. to.i \in Int /\ to.o \in Int /\ fr.i \in Int /\ fr.o \in Int
    BY <1>1 DEF NbTypes
  <2>2. ~Gone /\ ~Gone' /\ (upFin => upFin')
    BY <1>2, <1>4 DEF Gone, Ends
  <2>3. UnderWay' = UnderWay
    <3>1. cbuf \in Int /\ up \in Int /\ down \in Int /\ rbuf \in Int /\ Serving \in Int /\ Serving' = Serving
      BY <1>1, <1>2 DEF Serving, InTypes, OutTypes
    <3>2. UnderWay' = (cbuf - 1) + (to.i - to.o) + (up + 1) + Serving + down + rbuf + (fr.i - fr.o)
      BY <1>2, <3>1 DEF UnderWay
    <3>3. QED
      BY <2>1, <3>1, <3>2 DEF UnderWay
  <2>4. QED
    BY <1>2, <1>3, <2>2, <2>3 DEF FlowInv
<1>11. Complete' /\ PrematureMeansDead'
  <2>1. cpc' \notin {"normal", "premature"}
    BY <1>2, <1>4
  <2>2. QED
    BY <1>2, <1>3, <2>1, EndKept
<1>12. QED
  BY <1>5, <1>6, <1>7, <1>8, <1>9, <1>10, <1>11

LEMMA ReadReplyIInv ==
  ASSUME IInv, ReadReply
  PROVE  IInv'
<1> USE DEF IInv
<1>1. PcTypes /\ InTypes /\ OutTypes /\ NbTypes /\ BoolTypes
  BY Types
<1>2. /\ UNCHANGED <<prog, userVars, inVars, nbVars, serverVars, wpc, stdineof, cbuf, up, upFin>>
      /\ cpc \in {"readline", "events"} /\ rset' \subseteq rset
  BY DEF ReadReply, SockTurn, After
<1>3. PICK n \in Nat, r \in Nat, d \in 0..DownCap :
             /\ out' = out + n /\ rbuf' = r /\ down' = d /\ r + d + n = rbuf + down
             /\ (prog.stdio => n = 1) /\ (~prog.stdio => rbuf' = rbuf)
  BY <1>1, ReplyTaken DEF ReadReply
<1>4. /\ prog.loop \in {"stopwait", "select", "fork", "thread"}
      /\ prog.loop = "stopwait" => prog.stdio /\ cpc = "readline" /\ cpc' = "fgets"
      /\ Split => cpc = "readline" /\ cpc' = "readline"
      /\ prog.loop = "select" => cpc = "events" /\ cpc' \in {"select", "events"}
  BY <1>1, <1>2, ProgramFacts DEF ReadReply, After, PlaceInv, Split, Ends, PcTypes
<1>5. cpc' \in {"fgets", "readline", "select", "events"}
  BY <1>4 DEF Split
<1>6. TypeOK'
  <2>1. PcTypes'
    BY <1>1, <1>2, <1>5 DEF PcTypes
  <2>2. OutTypes'
    BY <1>1, <1>2, <1>3 DEF OutTypes
  <2>3. InTypes' /\ NbTypes' /\ BoolTypes'
    BY <1>1, <1>2 DEF InTypes, NbTypes, BoolTypes
  <2>4. QED
    BY <2>1, <2>2, <2>3, Types
<1>7. PlaceInv'
  BY <1>2, <1>4 DEF PlaceInv, Split, Ends
<1>8. BufInv'
  BY <1>2, <1>3, <1>4, <1>5 DEF BufInv, Split, Ends
<1>9. FinInv'
  BY <1>2, <1>4 DEF FinInv
<1>10. StopInv'
  <2>1. prog.loop = "stopwait" => sent = out + 1 /\ out' = out + 1 /\ cpc' = "fgets"
    BY <1>3, <1>4 DEF StopInv
  <2>2. QED
    BY <1>2, <2>1 DEF StopInv
<1>11. FlowInv'
  <2>1. /\ to.i \in Int /\ to.o \in Int /\ fr.i \in Int /\ fr.o \in Int /\ out \in Int
        /\ cbuf \in Int /\ up \in Int /\ down \in Int /\ rbuf \in Int /\ Serving \in Int /\ Serving' = Serving
    BY <1>1, <1>2 DEF NbTypes, InTypes, OutTypes, Serving
  <2>2. ~Gone /\ ~Gone'
    BY <1>2, <1>5 DEF Gone, Ends
  <2>3. UnderWay' = cbuf + (to.i - to.o) + up + Serving + d + r + (fr.i - fr.o)
    BY <1>2, <1>3, <2>1 DEF UnderWay
  <2>4. UnderWay' + out' = UnderWay + out
    BY <1>3, <2>1, <2>3 DEF UnderWay
  <2>5. QED
    BY <1>2, <2>2, <2>4 DEF FlowInv
<1>12. Complete' /\ PrematureMeansDead'
  <2>1. prog.loop = "fork" => wpc' # "sigterm"
    BY <1>2 DEF PlaceInv
  <2>2. QED
    BY <1>2, <1>5, <2>1, EndKept
<1>13. QED
  BY <1>6, <1>7, <1>8, <1>9, <1>10, <1>11, <1>12

\* The end of the connection: the server's FIN comes after the client's, and
\* after all the replies, unless the server was killed.
LEMMA AllSeen ==
  ASSUME IInv, cpc \notin Ends, SockAtEof, spc # "dead"
  PROVE  /\ upFin /\ fbuf = 0 /\ out + (fr.i - fr.o) = sent /\ prog.loop # "stopwait"
         /\ prog.loop \in {"select", "nonblock"} => stdineof
<1> USE DEF IInv
<1>1. PcTypes /\ InTypes /\ OutTypes /\ NbTypes /\ BoolTypes
  BY Types
<1>2. spc = "exit" /\ ~Gone /\ rbuf = 0 /\ down = 0
  BY DEF SockAtEof, FlowInv, Gone
<1>3. /\ upFin /\ up = 0 /\ sent = UnderWay + out /\ fbuf = 0 /\ cbuf = 0 /\ to.i = to.o
      /\ prog.loop # "stopwait" /\ (prog.loop \in {"select", "nonblock"} => stdineof)
  BY <1>2 DEF FlowInv, FinInv
<1>4. to.i \in Int /\ to.o \in Int /\ fr.i \in Int /\ fr.o \in Int /\ out \in Int
  BY <1>1 DEF NbTypes, OutTypes
<1>5. UnderWay = 0 + (to.i - to.o) + 0 + 0 + 0 + 0 + (fr.i - fr.o)
  BY <1>2, <1>3 DEF UnderWay, Serving
<1>6. UnderWay = fr.i - fr.o
  BY <1>3, <1>4, <1>5
<1>7. QED
  BY <1>3, <1>4, <1>6

LEMMA ReplyEofIInv ==
  ASSUME IInv, ReplyEof
  PROVE  IInv'
<1> USE DEF IInv
<1>1. PcTypes /\ InTypes /\ OutTypes /\ NbTypes /\ BoolTypes
  BY Types
<1>2. /\ UNCHANGED <<prog, userVars, inVars, outVars, nbVars, serverVars, rset, stdineof, cbuf, up, upFin>>
      /\ cpc \in {"readline", "events"} /\ cpc \notin Ends /\ SockAtEof
      /\ cpc' = EofMeans /\ wpc' = KillsWriter
  BY DEF ReplyEof, SockTurn, Ends
<1>3. /\ prog.loop \in {"stopwait", "select", "fork", "thread"}
      /\ prog.loop = "fork" => prog.onend = "kill"
      /\ prog.onend \in {"return", "kill"} => prog.loop \in {"fork", "thread"}
  BY <1>1, <1>2, ProgramFacts DEF PlaceInv, PcTypes, Ends
<1>4. /\ cpc' \in {"normal", "premature"}
      /\ prog.loop = "fork" => cpc' = "normal" /\ wpc' \in Ends
      /\ prog.loop = "thread" => wpc' = "off"
      /\ prog.loop \in {"stopwait", "select"} => wpc' = wpc
      /\ prog.loop = "stopwait" => cpc' = "premature"
      /\ prog.loop = "select" /\ stdineof => cpc' = "normal"
  BY <1>2, <1>3 DEF EofMeans, KillsWriter, Ends
<1>5. TypeOK'
  <2>1. PcTypes'
    BY <1>1, <1>2, <1>3, <1>4 DEF PcTypes, Ends
  <2>2. InTypes' /\ OutTypes' /\ NbTypes' /\ BoolTypes'
    BY <1>1, <1>2 DEF InTypes, OutTypes, NbTypes, BoolTypes
  <2>3. QED
    BY <2>1, <2>2, Types
<1>6. PlaceInv'
  BY <1>2, <1>3, <1>4 DEF PlaceInv, Split, Ends
<1>7. BufInv'
  BY <1>2, <1>3, <1>4 DEF BufInv, PlaceInv, Split, Ends
<1>8. FinInv' /\ StopInv'
  BY <1>2, <1>3, <1>4 DEF FinInv, StopInv
<1>9. FlowInv'
  <2>1. ~Gone
    BY <1>2 DEF Gone
  <2>2. QED
    BY <1>2, <2>1, FlowKept
<1>10. Complete' /\ PrematureMeansDead'
  <2>1. CASE spc = "dead"
    BY <1>2, <2>1 DEF Complete, PrematureMeansDead
  <2>2. CASE spc # "dead"
    <3>1. /\ upFin /\ fbuf = 0 /\ out + (fr.i - fr.o) = sent /\ prog.loop # "stopwait"
          /\ prog.loop \in {"select", "nonblock"} => stdineof
      BY <1>2, <2>2, AllSeen
    <3>2. QED
      BY <1>2, <1>3, <1>4, <3>1 DEF Complete, PrematureMeansDead
  <2>3. QED
    BY <2>1, <2>2
<1>11. QED
  BY <1>5, <1>6, <1>7, <1>8, <1>9, <1>10

-----------------------------------------------------------------------------
(* The writer of two processes or threads. *)

LEMMA WriterFailsIInv ==
  ASSUME IInv, NEW how \in {"sigpipe", "err_sys"}, wpc \in {"fgets", "write"}, WriterDies(how),
         UNCHANGED <<prog, userVars, inVars, outVars, nbVars, serverVars, rset, stdineof, cbuf, up, upFin>>
  PROVE  IInv'
<1> USE DEF IInv
<1>1. PcTypes
  BY Types
<1>2. prog.loop \in {"fork", "thread"}
  BY <1>1, ProgramFacts DEF PcTypes, PlaceInv, Split
<1>3. /\ prog.loop = "fork" => wpc' = how /\ cpc' = cpc
      /\ prog.loop = "thread" => wpc' = "off" /\ cpc' = how /\ cpc = "readline"
  BY <1>2 DEF WriterDies, PlaceInv, Split, Ends
<1>4. PcTypes' /\ PlaceInv'
  BY <1>1, <1>2, <1>3 DEF PcTypes, PlaceInv, Split, Ends
<1>5. BufInv' /\ StopInv'
  BY <1>2, <1>3 DEF BufInv, StopInv, PlaceInv, Split, Ends
<1>6. Gone => Gone'
  BY <1>2, <1>3 DEF Gone, Ends
<1>7. InTypes' /\ OutTypes' /\ NbTypes' /\ BoolTypes'
  BY Types DEF InTypes, OutTypes, NbTypes, BoolTypes
<1>8. FinInv' /\ FlowInv'
  BY <1>2, <1>6, FlowKept DEF FinInv
<1>9. Complete' /\ PrematureMeansDead'
  BY <1>2, <1>3, EndKept
<1>10. QED
  BY <1>4, <1>5, <1>7, <1>8, <1>9, Types

LEMMA WriterInputIInv ==
  ASSUME IInv, WriterInput
  PROVE  IInv'
<1> USE DEF IInv
<1>1. PcTypes /\ InTypes /\ OutTypes /\ NbTypes /\ BoolTypes
  BY Types
<1>2. /\ UNCHANGED <<prog, userVars, outVars, nbVars, serverVars, cpc, rset, stdineof, up, upFin>>
      /\ wpc = "fgets" /\ sent' = sent + 1 /\ wpc' = "write"
  BY DEF WriterInput
<1>3. prog.loop \in {"fork", "thread"} /\ prog.stdio /\ cbuf = 0 /\ Split
  BY <1>1, <1>2, ProgramFacts DEF PcTypes, PlaceInv, BufInv, Split
<1>4. PICK n \in 1..BUF, t \in Nat, f \in Nat :
             /\ cbuf' = n /\ typed' = t /\ fbuf' = f /\ t + f + n = typed + fbuf
             /\ (prog.stdio => n = 1) /\ (~prog.stdio => fbuf' = fbuf)
  BY <1>1, InputTaken DEF WriterInput
<1>5. ~upFin /\ n = 1
  BY <1>1, <1>3, <1>4 DEF FinInv, InTypes
<1>6. TypeOK'
  <2>1. PcTypes'
    BY <1>1, <1>2 DEF PcTypes
  <2>2. InTypes'
    BY <1>1, <1>2, <1>4, <1>5 DEF InTypes
  <2>3. OutTypes' /\ NbTypes' /\ BoolTypes'
    BY <1>1, <1>2 DEF OutTypes, NbTypes, BoolTypes
  <2>4. QED
    BY <2>1, <2>2, <2>3, Types
<1>7. PlaceInv' /\ FinInv' /\ StopInv'
  BY <1>2, <1>3, <1>5 DEF PlaceInv, FinInv, StopInv, Split, Ends
<1>8. BufInv'
  BY <1>2, <1>3, <1>4, <1>5 DEF BufInv, PlaceInv, Split, Ends
<1>9. FlowInv'
  <2>1. /\ to.i \in Int /\ to.o \in Int /\ fr.i \in Int /\ fr.o \in Int /\ out \in Int
        /\ cbuf \in Int /\ up \in Int /\ down \in Int /\ rbuf \in Int /\ Serving \in Int /\ Serving' = Serving
    BY <1>1, <1>2 DEF NbTypes, InTypes, OutTypes, Serving
  <2>2. ~Gone /\ ~Gone'
    BY <1>2, <1>3 DEF Gone, Ends, PlaceInv
  <2>3. UnderWay' = 1 + (to.i - to.o) + up + Serving + down + rbuf + (fr.i - fr.o)
    BY <1>2, <1>4, <1>5, <2>1 DEF UnderWay
  <2>4. UnderWay' + out = UnderWay + out + 1
    BY <1>3, <2>1, <2>3 DEF UnderWay
  <2>5. QED
    BY <1>2, <2>2, <2>4 DEF FlowInv
<1>10. Complete' /\ PrematureMeansDead'
  <2>1. prog.loop = "thread" => cpc \notin {"normal", "premature"}
    BY <1>2 DEF PlaceInv, Ends
  <2>2. QED
    BY <1>2, <1>3, <2>1 DEF Complete, PrematureMeansDead
<1>11. QED
  BY <1>6, <1>7, <1>8, <1>9, <1>10

LEMMA WriterWriteIInv ==
  ASSUME IInv, WriterWrite
  PROVE  IInv'
<1> USE DEF IInv
<1>1. PcTypes /\ InTypes /\ OutTypes /\ NbTypes /\ BoolTypes
  BY Types
<1>2. /\ UNCHANGED <<prog, userVars, inVars, outVars, nbVars, serverVars, rset, stdineof, upFin>>
      /\ wpc = "write"
  BY DEF WriterWrite
<1>3. prog.loop \in {"fork", "thread"} /\ prog.stdio /\ cbuf = 1 /\ Split /\ ~upFin
  BY <1>1, <1>2, ProgramFacts DEF PcTypes, PlaceInv, BufInv, FinInv, Split
<1>4. CASE ~rst /\ up < UpCap /\ up' = up + 1 /\ wpc' = "fgets" /\ cbuf' = 0 /\ cpc' = cpc
  <2>1. TypeOK'
    <3>1. PcTypes'
      BY <1>1, <1>2, <1>4 DEF PcTypes
    <3>2. InTypes' /\ OutTypes'
      BY <1>1, <1>2, <1>4 DEF InTypes, OutTypes
    <3>3. NbTypes' /\ BoolTypes'
      BY <1>1, <1>2 DEF NbTypes, BoolTypes
    <3>4. QED
      BY <3>1, <3>2, <3>3, Types
  <2>2. PlaceInv' /\ FinInv' /\ StopInv'
    BY <1>2, <1>3, <1>4 DEF PlaceInv, FinInv, StopInv, Split, Ends
  <2>3. BufInv'
    BY <1>2, <1>3, <1>4 DEF BufInv, PlaceInv, Split, Ends
  <2>4. FlowInv'
    <3>1. /\ to.i \in Int /\ to.o \in Int /\ fr.i \in Int /\ fr.o \in Int /\ out \in Int
          /\ cbuf \in Int /\ up \in Int /\ down \in Int /\ rbuf \in Int /\ Serving \in Int /\ Serving' = Serving
      BY <1>1, <1>2 DEF NbTypes, InTypes, OutTypes, Serving
    <3>2. ~Gone /\ ~Gone'
      BY <1>2, <1>3, <1>4 DEF Gone, Ends, PlaceInv
    <3>3. UnderWay' = 0 + (to.i - to.o) + (up + 1) + Serving + down + rbuf + (fr.i - fr.o)
      BY <1>2, <1>4, <3>1 DEF UnderWay
    <3>4. UnderWay' = UnderWay
      BY <1>3, <3>1, <3>3 DEF UnderWay
    <3>5. QED
      BY <1>2, <1>3, <3>2, <3>4 DEF FlowInv
  <2>5. Complete' /\ PrematureMeansDead'
    <3>1. prog.loop = "thread" => cpc \notin {"normal", "premature"}
      BY <1>2 DEF PlaceInv, Ends
    <3>2. QED
      BY <1>2, <1>3, <1>4, <3>1 DEF Complete, PrematureMeansDead
  <2>6. QED
    BY <2>1, <2>2, <2>3, <2>4, <2>5
<1>5. CASE rst /\ WriterDies(WriteError) /\ UNCHANGED <<up, cbuf>>
  <2>1. WriteError \in {"sigpipe", "err_sys"}
    BY DEF WriteError
  <2>2. QED
    BY <1>2, <1>5, <2>1, WriterFailsIInv
<1>6. QED
  BY <1>4, <1>5 DEF WriterWrite

LEMMA WriterEofIInv ==
  ASSUME IInv, WriterEof
  PROVE  IInv'
<1> USE DEF IInv
<1>1. PcTypes /\ InTypes /\ OutTypes /\ NbTypes /\ BoolTypes
  BY Types
<1>2. /\ UNCHANGED <<prog, userVars, inVars, outVars, nbVars, serverVars, rset, stdineof, cbuf, up>>
      /\ wpc = "fgets" /\ fbuf = 0 /\ typed = 0 /\ userEof
  BY DEF WriterEof, InputAtEof
<1>3. prog.loop \in {"fork", "thread"} /\ cbuf = 0 /\ Split
  BY <1>1, <1>2, ProgramFacts DEF PcTypes, PlaceInv, BufInv, Split
<1>4. CASE ShutdownFails
  BY <1>2, <1>4, WriterFailsIInv DEF WriterEof
<1>5. CASE ~ShutdownFails
  <2>1. upFin' = TRUE /\ cpc' = cpc /\ wpc' = IF prog.loop = "fork" THEN "pause" ELSE "done"
    BY <1>5 DEF WriterEof
  <2>2. TypeOK'
    <3>1. PcTypes'
      BY <1>1, <1>2, <2>1 DEF PcTypes
    <3>2. InTypes' /\ OutTypes' /\ NbTypes'
      BY <1>1, <1>2 DEF InTypes, OutTypes, NbTypes
    <3>3. BoolTypes'
      BY <1>1, <1>2, <2>1 DEF BoolTypes
    <3>4. QED
      BY <3>1, <3>2, <3>3, Types
  <2>3. PlaceInv' /\ StopInv'
    BY <1>2, <1>3, <2>1 DEF PlaceInv, StopInv, Split, Ends
  <2>4. BufInv' /\ FinInv'
    BY <1>2, <1>3, <2>1 DEF BufInv, FinInv, PlaceInv, Split, Ends
  <2>5. FlowInv'
    <3>1. ~Gone
      BY <1>2, <1>3 DEF Gone, Ends, PlaceInv
    <3>2. QED
      BY <1>2, <2>1, <3>1, FlowKept
  <2>6. Complete' /\ PrematureMeansDead'
    <3>1. prog.loop = "thread" => cpc \notin {"normal", "premature"}
      BY <1>2 DEF PlaceInv, Ends
    <3>2. QED
      BY <1>2, <1>3, <2>1, <3>1 DEF Complete, PrematureMeansDead
  <2>7. QED
    BY <2>2, <2>3, <2>4, <2>5, <2>6
<1>6. QED
  BY <1>4, <1>5

LEMMA WriterDoneIInv ==
  ASSUME IInv, WriterDone
  PROVE  IInv'
<1> USE DEF IInv
<1>1. PcTypes /\ InTypes /\ OutTypes /\ NbTypes /\ BoolTypes
  BY Types
<1>2. /\ UNCHANGED <<prog, userVars, inVars, outVars, nbVars, serverVars, cpc, rset, cbuf, up, upFin>>
      /\ wpc = "done" /\ wpc' = "off" /\ stdineof' = TRUE
  BY DEF WriterDone
<1>3. prog.loop = "thread" /\ cpc \notin Ends
  BY <1>1, <1>2, ProgramFacts DEF PcTypes, PlaceInv, Split, Ends
<1>4. TypeOK'
  <2>1. PcTypes'
    BY <1>1, <1>2 DEF PcTypes
  <2>2. InTypes' /\ OutTypes' /\ NbTypes'
    BY <1>1, <1>2 DEF InTypes, OutTypes, NbTypes
  <2>3. BoolTypes'
    BY <1>1, <1>2 DEF BoolTypes
  <2>4. QED
    BY <2>1, <2>2, <2>3, Types
<1>5. PlaceInv' /\ BufInv'
  BY <1>2, <1>3 DEF PlaceInv, BufInv, Split, Ends
<1>6. FinInv' /\ StopInv'
  BY <1>2, <1>3 DEF FinInv, StopInv
<1>7. FlowInv'
  <2>1. ~Gone
    BY <1>3 DEF Gone
  <2>2. QED
    BY <1>2, <2>1, FlowKept
<1>8. Complete' /\ PrematureMeansDead'
  BY <1>2, <1>3 DEF Complete, PrematureMeansDead, Ends
<1>9. QED
  BY <1>4, <1>5, <1>6, <1>7, <1>8

-----------------------------------------------------------------------------
(* strclinonb. *)

\* A buffer after n of its lines were taken out.
LEMMA DrainedIs ==
  ASSUME NEW b \in [i : 0..BUF, o : 0..BUF], NEW n \in Nat, n <= b.i - b.o
  PROVE  LET e == Drained([b EXCEPT !.o = @ + n]) IN
         /\ e \in [i : 0..BUF, o : 0..BUF] /\ e.o <= e.i /\ e.i - e.o = (b.i - b.o) - n
<1> DEFINE e == [b EXCEPT !.o = @ + n]
<1>1. b.i \in 0..BUF /\ b.o \in 0..BUF /\ b.o + n \in 0..BUF
  OBVIOUS
<1>2. e \in [i : 0..BUF, o : 0..BUF] /\ e.i = b.i /\ e.o = b.o + n
  BY <1>1
<1>3. CASE e.o = e.i
  <2>1. Drained(e) = [i |-> 0, o |-> 0]
    BY <1>3 DEF Drained
  <2>2. QED
    BY <1>1, <1>2, <1>3, <2>1
<1>4. CASE e.o # e.i
  <2>1. Drained(e) = e
    BY <1>4 DEF Drained
  <2>2. QED
    BY <1>1, <1>2, <1>4, <2>1
<1>5. QED
  BY <1>3, <1>4

\* Where strclinonb is, when it is not at its end.
LEMMA NonblockPlace ==
  ASSUME IInv, cpc \in {"nb_in", "nb_sock", "nb_out", "nb_write"}
  PROVE  /\ prog.loop = "nonblock" /\ ~Split /\ wpc = "off" /\ cbuf = 0 /\ ~prog.stdio
         /\ fbuf = 0 /\ rbuf = 0 /\ prog.ateof # "return" /\ ~Gone
<1> USE DEF IInv
<1>1. PcTypes
  BY Types
<1>2. prog.loop = "nonblock" /\ ~prog.stdio /\ prog.ateof # "return" /\ cpc \notin Ends
  BY <1>1, ProgramFacts DEF PcTypes, PlaceInv, Split, Ends
<1>3. QED
  BY <1>2 DEF PlaceInv, BufInv, Split, Gone, Ends

LEMMA NbInIInv ==
  ASSUME IInv, NbIn
  PROVE  IInv'
<1> USE DEF IInv
<1>1. PcTypes /\ InTypes /\ OutTypes /\ NbTypes /\ BoolTypes
  BY Types
<1>2. /\ UNCHANGED <<prog, userVars, outVars, fr, serverVars, wpc, cbuf, up>>
      /\ cpc = "nb_in" /\ cpc' \in {"err_sys", "nb_sock"}
  BY DEF NbIn
<1>3. /\ prog.loop = "nonblock" /\ ~Split /\ wpc = "off" /\ cbuf = 0 /\ ~prog.stdio
      /\ fbuf = 0 /\ rbuf = 0 /\ prog.ateof # "return" /\ ~Gone
  BY <1>2, NonblockPlace
<1>4. PlaceInv' /\ StopInv'
  BY <1>2, <1>3 DEF PlaceInv, StopInv, Split, Ends
<1>5. CASE UNCHANGED <<inVars, to, rset, stdineof, upFin>>
  <2>1. PcTypes' /\ BufInv'
    BY <1>1, <1>2, <1>3, <1>5 DEF PcTypes, BufInv, Split, Ends
  <2>2. QED
    BY <1>2, <1>3, <1>4, <1>5, <2>1, QuietIInv
<1>6. ASSUME NEW k \in 1..Min(typed, BUF - to.i), "fp" \in rset,
             typed' = typed - k, sent' = sent + k, to' = [to EXCEPT !.i = @ + k],
             rset' = rset \cup {"wsock"}, UNCHANGED <<fbuf, stdineof, upFin>>
      PROVE  IInv'
  <2>1. /\ to.i \in 0..BUF /\ to.o \in 0..BUF /\ to.o <= to.i
        /\ k \in Nat /\ k > 0 /\ k <= typed /\ k <= BUF - to.i
    BY <1>1 DEF NbTypes, InTypes, Min
  <2>2. to'.i = to.i + k /\ to'.o = to.o /\ to' \in [i : 0..BUF, o : 0..BUF] /\ to'.o <= to'.i
    BY <1>1, <1>6, <2>1 DEF NbTypes
  <2>3. ~upFin /\ ~stdineof
    BY <1>1, <1>2, <1>3, <1>6, <2>1 DEF FinInv, InTypes
  <2>4. TypeOK'
    <3>1. PcTypes'
      BY <1>1, <1>2, <1>6 DEF PcTypes, Ends
    <3>2. InTypes'
      BY <1>1, <1>2, <1>6, <2>1 DEF InTypes
    <3>3. OutTypes' /\ BoolTypes'
      BY <1>1, <1>2, <1>6 DEF OutTypes, BoolTypes
    <3>4. NbTypes'
      BY <1>1, <1>2, <2>2 DEF NbTypes
    <3>5. QED
      BY <3>1, <3>2, <3>3, <3>4, Types
  <2>5. BufInv' /\ FinInv'
    BY <1>2, <1>3, <1>6, <2>3 DEF BufInv, FinInv, Split, Ends
  <2>6. FlowInv'
    <3>1. /\ fr.i \in Int /\ fr.o \in Int /\ out \in Int
          /\ cbuf \in Int /\ up \in Int /\ down \in Int /\ rbuf \in Int /\ Serving \in Int /\ Serving' = Serving
      BY <1>1, <1>2 DEF NbTypes, InTypes, OutTypes, Serving
    <3>2. UnderWay' = cbuf + ((to.i + k) - to.o) + up + Serving + down + rbuf + (fr.i - fr.o)
      BY <1>2, <2>2, <3>1 DEF UnderWay
    <3>3. UnderWay' + out = UnderWay + out + k
      BY <2>1, <3>1, <3>2 DEF UnderWay
    <3>4. QED
      BY <1>2, <1>3, <1>6, <2>3, <3>3 DEF FlowInv
  <2>7. Complete' /\ PrematureMeansDead'
    BY <1>2, <1>3, <1>6, EndKept
  <2>8. QED
    BY <1>4, <2>4, <2>5, <2>6, <2>7
<1>7. CASE /\ "fp" \in rset /\ InputAtEof /\ stdineof' = TRUE /\ upFin' = (to.o = to.i)
           /\ UNCHANGED <<inVars, to, rset>>
  <2>1. typed = 0 /\ userEof /\ ~stdineof /\ ~upFin
    BY <1>2, <1>3, <1>7 DEF InputAtEof, FinInv
  <2>2. TypeOK'
    <3>1. PcTypes'
      BY <1>1, <1>2, <1>7 DEF PcTypes, Ends
    <3>2. InTypes' /\ OutTypes' /\ NbTypes'
      BY <1>1, <1>2, <1>7 DEF InTypes, OutTypes, NbTypes
    <3>3. upFin' \in BOOLEAN
      BY <1>7
    <3>4. BoolTypes'
      BY <1>1, <1>2, <1>7, <3>3 DEF BoolTypes
    <3>5. QED
      BY <3>1, <3>2, <3>4, Types
  <2>3. BufInv' /\ FinInv'
    <3>1. BufInv'
      BY <1>2, <1>3, <1>7 DEF BufInv, Split, Ends
    <3>2. upFin' => to'.i = to'.o
      BY <1>7
    <3>3. FinInv'
      BY <1>2, <1>3, <1>7, <2>1, <3>2 DEF FinInv
    <3>4. QED
      BY <3>1, <3>3
  <2>4. FlowInv'
    BY <1>2, <1>3, <1>7, <2>1, FlowKept
  <2>5. Complete' /\ PrematureMeansDead'
    BY <1>2, <1>3, <1>7, <2>1, EndKept
  <2>6. QED
    BY <1>4, <2>2, <2>3, <2>4, <2>5
<1>8. QED
  BY <1>5, <1>6, <1>7 DEF NbIn

LEMMA NbSockIInv ==
  ASSUME IInv, NbSock
  PROVE  IInv'
<1> USE DEF IInv
<1>1. PcTypes /\ InTypes /\ OutTypes /\ NbTypes /\ BoolTypes
  BY Types
<1>2. /\ UNCHANGED <<prog, userVars, inVars, rbuf, out, to, serverVars, wpc, stdineof, cbuf, up, upFin>>
      /\ cpc = "nb_sock"
  BY DEF NbSock
<1>3. /\ prog.loop = "nonblock" /\ ~Split /\ wpc = "off" /\ cbuf = 0 /\ ~prog.stdio
      /\ fbuf = 0 /\ rbuf = 0 /\ prog.ateof # "return" /\ ~Gone
  BY <1>2, NonblockPlace
<1>4. CASE cpc' \in {"nb_out", "err_sys"} /\ UNCHANGED <<rset, fr, down>>
  <2>1. PcTypes' /\ PlaceInv' /\ BufInv' /\ StopInv'
    BY <1>1, <1>2, <1>3, <1>4 DEF PcTypes, PlaceInv, BufInv, StopInv, Split, Ends
  <2>2. QED
    BY <1>2, <1>3, <1>4, <2>1, QuietIInv
<1>5. ASSUME NEW k \in Nat, k = Min(down, BUF - fr.i), k > 0, cpc' = "nb_out",
             down' = down - k, fr' = [fr EXCEPT !.i = @ + k], rset' = rset \cup {"try"}
      PROVE  IInv'
  <2>1. /\ fr.i \in 0..BUF /\ fr.o \in 0..BUF /\ fr.o <= fr.i
        /\ k \in Nat /\ k <= down /\ k <= BUF - fr.i
    BY <1>1, <1>5 DEF NbTypes, OutTypes, Min
  <2>2. fr'.i = fr.i + k /\ fr'.o = fr.o /\ fr' \in [i : 0..BUF, o : 0..BUF] /\ fr'.o <= fr'.i
    BY <1>1, <1>5, <2>1 DEF NbTypes
  <2>3. TypeOK'
    <3>1. PcTypes'
      BY <1>1, <1>2, <1>5 DEF PcTypes
    <3>2. InTypes' /\ BoolTypes'
      BY <1>1, <1>2 DEF InTypes, BoolTypes
    <3>3. OutTypes'
      BY <1>1, <1>2, <1>5, <2>1 DEF OutTypes
    <3>4. NbTypes'
      BY <1>1, <1>2, <2>2 DEF NbTypes
    <3>5. QED
      BY <3>1, <3>2, <3>3, <3>4, Types
  <2>4. PlaceInv' /\ BufInv' /\ FinInv' /\ StopInv'
    BY <1>2, <1>3, <1>5 DEF PlaceInv, BufInv, FinInv, StopInv, Split, Ends
  <2>5. FlowInv'
    <3>1. /\ to.i \in Int /\ to.o \in Int /\ out \in Int
          /\ cbuf \in Int /\ up \in Int /\ down \in Int /\ rbuf \in Int /\ Serving \in Int /\ Serving' = Serving
      BY <1>1, <1>2 DEF NbTypes, InTypes, OutTypes, Serving
    <3>2. UnderWay' = cbuf + (to.i - to.o) + up + Serving + (down - k) + rbuf + ((fr.i + k) - fr.o)
      BY <1>2, <1>5, <2>2, <3>1 DEF UnderWay
    <3>3. UnderWay' = UnderWay
      BY <2>1, <3>1, <3>2 DEF UnderWay
    <3>4. QED
      BY <1>2, <1>3, <3>3 DEF FlowInv
  <2>6. Complete' /\ PrematureMeansDead'
    BY <1>2, <1>3, <1>5, EndKept
  <2>7. QED
    BY <2>3, <2>4, <2>5, <2>6
<1>6. CASE SockAtEof /\ cpc' = EofMeans /\ UNCHANGED <<rset, fr, down>>
  <2>1. cpc' \in {"normal", "premature"} /\ (stdineof => cpc' = "normal") /\ cpc \notin Ends
    BY <1>2, <1>3, <1>6 DEF EofMeans, Ends
  <2>2. TypeOK'
    <3>1. PcTypes'
      BY <1>1, <1>2, <1>6, <2>1 DEF PcTypes, Ends
    <3>2. InTypes' /\ OutTypes' /\ NbTypes' /\ BoolTypes'
      BY <1>1, <1>2, <1>6 DEF InTypes, OutTypes, NbTypes, BoolTypes
    <3>3. QED
      BY <3>1, <3>2, Types
  <2>3. PlaceInv' /\ BufInv' /\ FinInv' /\ StopInv'
    BY <1>2, <1>3, <1>6, <2>1 DEF PlaceInv, BufInv, FinInv, StopInv, Split, Ends
  <2>4. FlowInv'
    BY <1>2, <1>3, <1>6, FlowKept
  <2>5. Complete' /\ PrematureMeansDead'
    <3>1. CASE spc = "dead"
      BY <1>2, <3>1 DEF Complete, PrematureMeansDead
    <3>2. CASE spc # "dead"
      <4>1. stdineof /\ fbuf = 0 /\ out + (fr.i - fr.o) = sent
        BY <1>3, <1>6, <2>1, <3>2, AllSeen
      <4>2. QED
        BY <1>2, <1>3, <1>6, <2>1, <4>1 DEF Complete, PrematureMeansDead
    <3>3. QED
      BY <3>1, <3>2
  <2>6. QED
    BY <2>2, <2>3, <2>4, <2>5
<1>7. Min(down, BUF - fr.i) \in Nat
  BY <1>1 DEF Min, OutTypes, NbTypes
<1>8. QED
  BY <1>4, <1>5, <1>6, <1>7 DEF NbSock

LEMMA NbOutIInv ==
  ASSUME IInv, NbOut
  PROVE  IInv'
<1> USE DEF IInv
<1>1. PcTypes /\ InTypes /\ OutTypes /\ NbTypes /\ BoolTypes
  BY Types
<1>2. /\ UNCHANGED <<prog, userVars, inVars, rbuf, down, to, serverVars, wpc, rset, stdineof, cbuf, up, upFin>>
      /\ cpc = "nb_out" /\ cpc' = "nb_write"
  BY DEF NbOut
<1>3. /\ prog.loop = "nonblock" /\ ~Split /\ wpc = "off" /\ cbuf = 0 /\ ~prog.stdio
      /\ fbuf = 0 /\ rbuf = 0 /\ prog.ateof # "return" /\ ~Gone
  BY <1>2, NonblockPlace
<1>4. PlaceInv' /\ BufInv' /\ FinInv' /\ StopInv'
  BY <1>2, <1>3 DEF PlaceInv, BufInv, FinInv, StopInv, Split, Ends
<1>5. PcTypes' /\ InTypes' /\ BoolTypes'
  BY <1>1, <1>2 DEF PcTypes, InTypes, BoolTypes
<1>6. CASE UNCHANGED <<fr, out>>
  BY <1>2, <1>3, <1>4, <1>5, <1>6, QuietIInv
<1>7. ASSUME NEW k \in (IF "stdout" \in rset THEN 1 ELSE 0)..(fr.i - fr.o),
             fr' = Drained([fr EXCEPT !.o = @ + k]), out' = out + k
      PROVE  IInv'
  <2>1. fr \in [i : 0..BUF, o : 0..BUF] /\ fr.i \in Int /\ fr.o \in Int /\ k \in Nat /\ k <= fr.i - fr.o
    BY <1>1 DEF NbTypes
  <2>2. /\ fr' \in [i : 0..BUF, o : 0..BUF] /\ fr'.o <= fr'.i
        /\ fr'.i - fr'.o = (fr.i - fr.o) - k
    BY <1>7, <2>1, DrainedIs
  <2>3. NbTypes' /\ OutTypes'
    BY <1>1, <1>2, <1>7, <2>1, <2>2 DEF NbTypes, OutTypes
  <2>4. FlowInv'
    <3>1. /\ to.i \in Int /\ to.o \in Int /\ out \in Int
          /\ cbuf \in Int /\ up \in Int /\ down \in Int /\ rbuf \in Int /\ Serving \in Int /\ Serving' = Serving
      BY <1>1, <1>2 DEF NbTypes, InTypes, OutTypes, Serving
    <3>2. UnderWay' = cbuf + (to.i - to.o) + up + Serving + down + rbuf + ((fr.i - fr.o) - k)
      BY <1>2, <2>2, <3>1 DEF UnderWay
    <3>3. UnderWay' + out' = UnderWay + out
      BY <1>7, <2>1, <3>1, <3>2 DEF UnderWay
    <3>4. QED
      BY <1>2, <1>3, <3>3 DEF FlowInv
  <2>5. Complete' /\ PrematureMeansDead'
    BY <1>2, <1>3, EndKept
  <2>6. QED
    BY <1>4, <1>5, <2>3, <2>4, <2>5, Types
<1>8. QED
  BY <1>6, <1>7 DEF NbOut

LEMMA NbWriteIInv ==
  ASSUME IInv, NbWrite
  PROVE  IInv'
<1> USE DEF IInv
<1>1. PcTypes /\ InTypes /\ OutTypes /\ NbTypes /\ BoolTypes
  BY Types
<1>2. /\ UNCHANGED <<prog, userVars, inVars, outVars, fr, serverVars, wpc, stdineof, cbuf>>
      /\ cpc = "nb_write" /\ cpc' \in {"sigpipe", "err_sys", "select"} /\ rset' = {}
  BY DEF NbWrite, WriteError
<1>3. /\ prog.loop = "nonblock" /\ ~Split /\ wpc = "off" /\ cbuf = 0 /\ ~prog.stdio
      /\ fbuf = 0 /\ rbuf = 0 /\ prog.ateof # "return" /\ ~Gone
  BY <1>2, NonblockPlace
<1>4. /\ to \in [i : 0..BUF, o : 0..BUF] /\ to.i \in Int /\ to.o \in Int /\ to.o <= to.i
      /\ up \in Int /\ up <= UpCap /\ up >= 0
  BY <1>1 DEF NbTypes, OutTypes
<1>5. PICK k \in Nat : /\ k <= to.i - to.o /\ k <= UpCap - up
                       /\ up' = up + k /\ to' = Drained([to EXCEPT !.o = @ + k])
                       /\ upFin' = (upFin \/ ("wsock" \in rset /\ stdineof /\ to'.i = 0))
  <2> DEFINE k == IF "wsock" \in rset /\ ~rst THEN Min(to.i - to.o, UpCap - up) ELSE 0
  <2>1. k \in Nat /\ k <= to.i - to.o /\ k <= UpCap - up
    BY <1>4 DEF Min
  <2>2. /\ up' = up + k /\ to' = Drained([to EXCEPT !.o = @ + k])
        /\ upFin' = (upFin \/ ("wsock" \in rset /\ stdineof /\ to'.i = 0))
    BY DEF NbWrite
  <2> HIDE DEF k
  <2>3. QED
    BY <2>1, <2>2
<1>6. /\ to' \in [i : 0..BUF, o : 0..BUF] /\ to'.o <= to'.i
      /\ to'.i - to'.o = (to.i - to.o) - k
  BY <1>4, <1>5, DrainedIs
<1>7. to'.i \in 0..BUF /\ to'.o \in 0..BUF
  BY <1>6
<1>8. /\ upFin => upFin' /\ k = 0
      /\ upFin' => to'.i = to'.o /\ stdineof
  <2>1. upFin => k = 0 /\ stdineof /\ to.i = to.o
    BY <1>3, <1>4, <1>5 DEF FinInv
  <2>2. upFin' => upFin \/ (stdineof /\ to'.i = 0)
    BY <1>5
  <2>3. upFin => upFin'
    BY <1>5
  <2>4. PICK a \in 0..BUF, b \in 0..BUF : a = to'.i /\ b = to'.o
    BY <1>7
  <2>5. upFin => a = b
    <3>1. PICK c \in 0..BUF : c = to.i
      BY <1>4
    <3>2. SUFFICES ASSUME upFin
                   PROVE  a = b
      OBVIOUS
    <3>3. to.o = c /\ k = 0
      BY <2>1, <3>1, <3>2
    <3>4. a - b = (c - c) - 0
      BY <1>6, <2>4, <3>1, <3>3
    <3>5. QED
      BY <3>4
  <2>6. a = 0 => a = b
    BY <1>6, <2>4
  <2>7. upFin' => a = b
    BY <2>2, <2>4, <2>5, <2>6
  <2>8. upFin' => stdineof
    BY <2>1, <2>2
  <2>9. upFin => k = 0
    BY <2>1
  <2>10. QED
    BY <2>3, <2>4, <2>7, <2>8, <2>9, Zenon
<1>9. TypeOK'
  <2>1. PcTypes'
    BY <1>1, <1>2 DEF PcTypes, Ends
  <2>2. InTypes' /\ OutTypes'
    BY <1>1, <1>2, <1>4, <1>5 DEF InTypes, OutTypes
  <2>3. NbTypes'
    BY <1>1, <1>2, <1>6 DEF NbTypes
  <2>4. upFin' \in BOOLEAN
    BY <1>5
  <2>5. BoolTypes'
    BY <1>1, <1>2, <2>4 DEF BoolTypes
  <2>6. QED
    BY <2>1, <2>2, <2>3, <2>5, Types
<1>10. PlaceInv' /\ BufInv' /\ StopInv'
  BY <1>2, <1>3 DEF PlaceInv, BufInv, StopInv, Split, Ends
<1>11. FinInv'
  BY <1>2, <1>3, <1>8 DEF FinInv
<1>12. FlowInv'
  <2>1. /\ fr.i \in Int /\ fr.o \in Int /\ out \in Int
        /\ cbuf \in Int /\ down \in Int /\ rbuf \in Int /\ Serving \in Int /\ Serving' = Serving
    BY <1>1, <1>2 DEF NbTypes, InTypes, OutTypes, Serving
  <2>2. UnderWay' = cbuf + ((to.i - to.o) - k) + (up + k) + Serving + down + rbuf + (fr.i - fr.o)
    BY <1>2, <1>5, <1>6, <2>1 DEF UnderWay
  <2>3. UnderWay' = UnderWay
    BY <1>4, <2>1, <2>2 DEF UnderWay
  <2>4. spc = "exit" => upFin' /\ up' = 0
    BY <1>3, <1>5, <1>8 DEF FlowInv
  <2>5. QED
    BY <1>2, <1>3, <2>3, <2>4 DEF FlowInv
<1>13. Complete' /\ PrematureMeansDead'
  BY <1>2, <1>3, <1>8, EndKept
<1>14. QED
  BY <1>9, <1>10, <1>11, <1>12, <1>13

-----------------------------------------------------------------------------
LEMMA StepIInv == IInv /\ [Next]_vars => IInv'
<1> SUFFICES ASSUME IInv, [Next]_vars
             PROVE  IInv'
  OBVIOUS
<1>1. CASE Select \/ NbSelect
  BY <1>1, SelectIInv
<1>2. CASE ReadInput
  BY <1>2, ReadInputIInv
<1>3. CASE DropInput
  BY <1>3, DropInputIInv
<1>4. CASE InputEof \/ FileEof
  BY <1>4, InputEofIInv
<1>5. CASE WriteHalf \/ WriteFails \/ ReplyFails
  BY <1>5, FailsIInv
<1>6. CASE WriteSock
  BY <1>6, WriteSockIInv
<1>7. CASE ReadReply
  BY <1>7, ReadReplyIInv
<1>8. CASE ReplyEof
  BY <1>8, ReplyEofIInv
<1>9. CASE NbIn
  BY <1>9, NbInIInv
<1>10. CASE NbSock
  BY <1>10, NbSockIInv
<1>11. CASE NbOut
  BY <1>11, NbOutIInv
<1>12. CASE NbWrite
  BY <1>12, NbWriteIInv
<1>13. CASE Writer
  BY <1>13, WriterInputIInv, WriterWriteIInv, WriterEofIInv, WriterDoneIInv DEF Writer
<1>14. CASE Type \/ CloseStdin
  BY <1>14, UserIInv
<1>15. CASE Server \/ Die \/ PeerReset
  BY <1>15, ServerIInv
<1>16. CASE UNCHANGED vars
  <2>1. /\ UNCHANGED <<prog, userVars, inVars, outVars, nbVars, serverVars, stdineof, cbuf, up, upFin>>
        /\ UNCHANGED <<cpc, wpc, rset>>
    BY <1>16 DEF vars
  <2>2. PcTypes' /\ PlaceInv' /\ BufInv' /\ StopInv'
    BY <2>1, Types DEF IInv, PcTypes, PlaceInv, BufInv, StopInv, Split
  <2>3. /\ prog.loop = "nonblock" /\ cpc' = "nb_in" /\ "fp" \in rset' => ~stdineof
        /\ Gone => Gone'
    BY <2>1 DEF IInv, FinInv, Gone
  <2>4. QED
    BY <2>1, <2>2, <2>3, QuietIInv
<1>17. QED
  BY <1>1, <1>2, <1>3, <1>4, <1>5, <1>6, <1>7, <1>8, <1>9, <1>10, <1>11, <1>12, <1>13, <1>14, <1>15, <1>16
  DEF Next, Client, Over

\* The invariant of the interactive clients holds in every state.
THEOREM Invariance == Spec => []IInv
<1>1. Init => IInv
  BY InitIInv
<1>2. IInv /\ [Next]_vars => IInv'
  BY StepIInv
<1>3. QED
  BY <1>1, <1>2, PTL DEF Spec

\* Every variable keeps its type; the positions in strclinonb's buffers stay
\* in order and inside them, and no buffer holds more than its size.
THEOREM TypeCorrect == Spec => []TypeOK
<1>1. IInv => TypeOK
  BY DEF IInv
<1>2. QED
  BY <1>1, Invariance, PTL

\* A client that returns as if all were well, with a server that lived, has
\* had a reply to every line it read: none is lost in stdio, in readline's
\* buffer, in strclinonb's, in a half-written Writen or behind the FIN.
\* (str_cli_select01, which returns at the end of its input, is excepted.)
THEOREM NoneLost == Spec => []Complete
<1>1. IInv => Complete
  BY DEF IInv
<1>2. QED
  BY <1>1, Invariance, PTL

\* "server terminated prematurely" is the truth: the server ends by itself
\* only after the client's FIN, which sets stdineof first everywhere except
\* in strclithread2.
THEOREM BlameIsTrue == Spec => []PrematureMeansDead
<1>1. IInv => PrematureMeansDead
  BY DEF IInv
<1>2. QED
  BY <1>1, Invariance, PTL
===============================================================================
