------------------------------ MODULE ClientProofs ------------------------------
(***************************************************************************)
(* A client that compares sequence numbers or ports shows no answer but    *)
(* its own, and siglongjmp jumps into a function that has returned, or was *)
(* never entered, in the two programs that set the alarm before sigsetjmp  *)
(* and at that moment only: for every number of requests and datagrams and *)
(* every size of the receive buffer.                                       *)
(*                                                                         *)
(* The handler runs between any two instructions, so the invariant has to  *)
(* say, for each place of the program, whether the clock can be running    *)
(* there and what jmpbuf holds.                                            *)
(*                                                                         *)
(* Two more parts are about the clients that connect: the counters of the  *)
(* web clients, and the walks over the list of a server's addresses.  The  *)
(* three share variables that have the same name; the assumptions of the   *)
(* second and the third part are hypotheses of their theorems.             *)
(***************************************************************************)
EXTENDS AlarmWait, Integers, SequenceTheorems, FiniteSetTheorems, WellFoundedInduction, TLAPS

\* A wait belongs to a request; there is a transmission left when one is made.
ReqInv ==
    /\ pc \notin {"fgets", "done"} => req > 0
    /\ pc = "send" => nsent < prog.tries
    /\ prog.match = "seq" /\ pc = "stop" => got.re = req

\* dgclibcast6: a byte in the pipe, a clock that runs and a clock about to be
\* set each stem from another request.
PipeInv ==
    /\ prog.handler # "pipe" => pipe = 0
    /\ prog.handler = "pipe" =>
          pipe + (IF armed THEN 1 ELSE 0) + (IF pc \in {"send", "alarm"} THEN 1 ELSE 0) <= req

Waits == {"window", "blocked", "got", "stop", "timeout"}

\* Where the clock runs, and where jmpbuf is of use.
JumpInv ==
    /\ prog.handler = "jump" =>
          /\ armed => pc \in {"loop", "window", "blocked", "got", "stop"}
          /\ ~masked /\ ~pending
          /\ prog.guarded /\ flag => jmpbuf = "live"
    /\ prog.handler = "jump" /\ ~prog.guarded =>
          /\ pc \in Waits => jmpbuf = "live"
          /\ jmpbuf # "live" /\ pc = "send" => nsent = 0
          /\ jmpbuf # "live" /\ pc \in {"alarm", "loop"} => nsent = 1
          /\ jmpbuf # "live" /\ prog.frame = "loop" =>
                /\ pc = "fgets" => req = 0
                /\ pc \in {"send", "alarm", "loop"} => req = 1
    /\ pc = "wild" =>
          /\ prog.handler = "jump" /\ ~prog.guarded
          /\ ~armed /\ nsent = 1 /\ (prog.frame = "loop" => req = 1)

IInv == TypeOK /\ ReqInv /\ PipeInv /\ JumpInv /\ AnswerIsOwn

-----------------------------------------------------------------------------
(* The programs, and the type invariant in parts. *)

\* What the proofs use of the records of the programs.
Facts(p) ==
    /\ p.tries \in Nat /\ p.tries > 0 /\ p.guarded \in BOOLEAN
    /\ p.handler = "send" => p.match # "seq"
    /\ p.handler = "pipe" => p.wait = "select" /\ p.tries = 1
    /\ p.handler = "jump" => p.wait = "recv"
    /\ p.handler = "jump" /\ p.guarded => p.setjmp = "before"
    /\ p.handler = "jump" /\ ~p.guarded =>
          /\ p.setjmp = "after"
          /\ \/ p.frame = "loop" /\ p.tries = 1 /\ p.ends = "timer" /\ p = dgclibcast5
             \/ p.frame = "call" /\ p.tries = 4 /\ p = dg_send_recv

LEMMA ProgramFacts ==
  ASSUME NEW p \in Programs
  PROVE  Facts(p)
<1>1. p \in {dgclibcast1, dgclibcast3, dgclibcast4, dgclibcast5, dgclibcast6, dgclitimeo, dgclitimeo3,
             connect_timeo, connect_nonb, dg_send_recv, test_udp, recv_v4, recv_v6, readloop}
  BY ProgramsAssumption
     DEF AllPrograms, dgclibcast1, dgclibcast2, dgclibcast3, dgclibcast4, dgclibcast4_emulated,
         dgclibcast5, mcast_dgclibcast1, dgclimcast5, dgclimcast6, dgclitimeo, dgclitimeo1,
         dgclitimeo2, bcast_udpcli01, bcast_udpcli02, bcast_udpcli03, bcast_udpcli04,
         bcast_udpcli05, bcast_udpcli06, mcast_udpcli01, mcast_udpcli05, mcast_udpcli06,
         advio_udpcli01, advio_udpcli02, advio_udpcli03, rtt_udpcli01, ping, traceroute
<1>2. CASE p = dgclibcast1
  BY <1>2 DEF Facts, dgclibcast1, Plain, Collect
<1>3. CASE p = dgclibcast3
  BY <1>3 DEF Facts, dgclibcast3, Plain, Collect
<1>4. CASE p = dgclibcast4
  BY <1>4 DEF Facts, dgclibcast4, Plain, Collect
<1>5. CASE p = dgclibcast5
  BY <1>5 DEF Facts, dgclibcast5, Plain, Collect
<1>6. CASE p = dgclibcast6
  BY <1>6 DEF Facts, dgclibcast6, Plain, Collect
<1>7. CASE p = dgclitimeo
  BY <1>7 DEF Facts, dgclitimeo, Plain, Collect
<1>8. CASE p = dgclitimeo3
  BY <1>8 DEF Facts, dgclitimeo3, Plain, Collect
<1>9. CASE p = connect_timeo
  BY <1>9 DEF Facts, connect_timeo, Plain, Collect
<1>10. CASE p = connect_nonb
  BY <1>10 DEF Facts, connect_nonb, Plain, Collect
<1>11. CASE p = dg_send_recv
  BY <1>11 DEF Facts, dg_send_recv, Plain, Collect
<1>12. CASE p = test_udp
  BY <1>12 DEF Facts, test_udp, Plain, Collect
<1>13. CASE p = recv_v4
  BY <1>13 DEF Facts, recv_v4, Plain, Collect
<1>14. CASE p = recv_v6
  BY <1>14 DEF Facts, recv_v6, Plain, Collect
<1>15. CASE p = readloop
  BY <1>15 DEF Facts, readloop, Plain, Collect
<1>16. QED
  BY <1>1, <1>2, <1>3, <1>4, <1>5, <1>6, <1>7, <1>8, <1>9, <1>10, <1>11, <1>12, <1>13, <1>14, <1>15

PcTypes ==
    /\ prog \in Programs
    /\ pc \in {"fgets", "send", "alarm", "loop", "window", "blocked", "got", "stop",
               "timeout", "done", "gaveup", "wild"}
    /\ req \in 0..MaxReq /\ nsent \in 0..prog.tries
    /\ jmpbuf \in {"unset", "live", "dead"} /\ pipe \in 0..MaxReq
BoolTypes == armed \in BOOLEAN /\ masked \in BOOLEAN /\ pending \in BOOLEAN /\ flag \in BOOLEAN
DataTypes ==
    /\ buf \in Seq(Datagrams) /\ Len(buf) <= BufCap /\ replies \in 0..MaxReplies
    /\ got \in Datagrams /\ shown \subseteq (1..MaxReq) \X (0..MaxReq)

LEMMA Types ==
  /\ TypeOK <=> PcTypes /\ BoolTypes /\ DataTypes
  /\ TypeOK' <=> PcTypes' /\ BoolTypes' /\ DataTypes'
BY Zenon DEF TypeOK, PcTypes, BoolTypes, DataTypes

LEMMA InitIInv ==
  ASSUME Init
  PROVE  IInv
<1>1. Facts(prog)
  BY ProgramFacts DEF Init
<1>2. PcTypes
  BY <1>1, AlarmAssumption DEF Init, PcTypes, Facts
<1>3. BoolTypes
  BY DEF Init, BoolTypes
<1>4. DataTypes
  BY AlarmAssumption DEF Init, DataTypes, Datagrams, Nothing
<1>5. ReqInv /\ PipeInv /\ JumpInv /\ AnswerIsOwn
  BY <1>1 DEF Init, ReqInv, PipeInv, JumpInv, Waits, AnswerIsOwn, Facts
<1>6. QED
  BY <1>2, <1>3, <1>4, <1>5, Types DEF IInv

-----------------------------------------------------------------------------
(* The steps of the program. *)

LEMMA NextRequestIInv ==
  ASSUME IInv, NextRequest
  PROVE  IInv'
<1> USE DEF IInv, NextRequest, sigVars, netVars
<1>1. PcTypes /\ BoolTypes /\ DataTypes
  BY Types
<1>2. Facts(prog)
  BY <1>1, ProgramFacts DEF PcTypes
<1>3. PcTypes'
  BY <1>1, <1>2, AlarmAssumption DEF PcTypes, ReqInv, Facts
<1>4. BoolTypes'
  BY <1>1, <1>2 DEF BoolTypes, Facts
<1>5. DataTypes'
  BY <1>1, AlarmAssumption DEF PcTypes, DataTypes
<1>6. ReqInv'
  BY <1>1, <1>2 DEF ReqInv, PcTypes, Facts
<1>7. PipeInv'
  BY <1>1, <1>2 DEF PipeInv, PcTypes, Facts
<1>8. JumpInv'
  <2>1. SUFFICES ASSUME prog.handler = "jump"
                 PROVE  JumpInv'
    BY <1>1 DEF JumpInv, PcTypes
  <2>2. ~masked' /\ ~pending'
    BY <1>2, <2>1 DEF JumpInv, Facts
  <2>3. ~armed'
    BY <2>1 DEF JumpInv
  <2>4. CASE prog.guarded
    BY <1>2, <2>1, <2>2, <2>3, <2>4 DEF JumpInv, Facts, Waits
  <2>5. CASE ~prog.guarded
    <3>1. jmpbuf' = jmpbuf /\ nsent' = 0 /\ pc' = "send" /\ (jmpbuf # "live" /\ prog.frame = "loop" => req' = 1)
      BY <1>1, <1>2, <2>1, <2>5 DEF JumpInv, Facts, PcTypes
    <3>2. QED
      BY <2>1, <2>2, <2>3, <2>5, <3>1 DEF JumpInv, Waits
  <2>6. QED
    BY <2>4, <2>5
<1>9. AnswerIsOwn'
  BY DEF AnswerIsOwn, ReqInv
<1>10. QED
  BY <1>3, <1>4, <1>5, <1>6, <1>7, <1>8, <1>9, Types

LEMMA Fgets_NULLIInv ==
  ASSUME IInv, Fgets_NULL
  PROVE  IInv'
<1> USE DEF IInv, Fgets_NULL, sigVars, netVars
<1>1. PcTypes /\ BoolTypes /\ DataTypes
  BY Types
<1>2. Facts(prog)
  BY <1>1, ProgramFacts DEF PcTypes
<1>3. PcTypes'
  BY <1>1, <1>2, AlarmAssumption DEF PcTypes, ReqInv, Facts
<1>4. BoolTypes'
  BY <1>1, <1>2 DEF BoolTypes, Facts
<1>5. DataTypes'
  BY <1>1, AlarmAssumption DEF PcTypes, DataTypes
<1>6. ReqInv'
  BY <1>1, <1>2 DEF ReqInv, PcTypes, Facts
<1>7. PipeInv'
  BY <1>1, <1>2 DEF PipeInv, PcTypes, Facts
<1>8. JumpInv'
  BY <1>1, <1>2 DEF JumpInv, Waits, PcTypes, Facts
<1>9. AnswerIsOwn'
  BY DEF AnswerIsOwn, ReqInv
<1>10. QED
  BY <1>3, <1>4, <1>5, <1>6, <1>7, <1>8, <1>9, Types

LEMMA SendIInv ==
  ASSUME IInv, Send
  PROVE  IInv'
<1> USE DEF IInv, Send, sigVars, netVars
<1>1. PcTypes /\ BoolTypes /\ DataTypes
  BY Types
<1>2. Facts(prog)
  BY <1>1, ProgramFacts DEF PcTypes
<1>3. PcTypes'
  BY <1>1, <1>2, AlarmAssumption DEF PcTypes, ReqInv, Facts
<1>4. BoolTypes'
  BY <1>1, <1>2 DEF BoolTypes, Facts
<1>5. DataTypes'
  BY <1>1, AlarmAssumption DEF PcTypes, DataTypes
<1>6. ReqInv'
  BY <1>1, <1>2 DEF ReqInv, PcTypes, Facts
<1>7. PipeInv'
  BY <1>1, <1>2 DEF PipeInv, PcTypes, Facts
<1>8. JumpInv'
  BY <1>1, <1>2 DEF JumpInv, Waits, PcTypes, Facts
<1>9. AnswerIsOwn'
  BY DEF AnswerIsOwn, ReqInv
<1>10. QED
  BY <1>3, <1>4, <1>5, <1>6, <1>7, <1>8, <1>9, Types

LEMMA AlarmIInv ==
  ASSUME IInv, Alarm
  PROVE  IInv'
<1> USE DEF IInv, Alarm, sigVars, netVars
<1>1. PcTypes /\ BoolTypes /\ DataTypes
  BY Types
<1>2. Facts(prog)
  BY <1>1, ProgramFacts DEF PcTypes
<1>3. PcTypes'
  BY <1>1, <1>2, AlarmAssumption DEF PcTypes, ReqInv, Facts
<1>4. BoolTypes'
  BY <1>1, <1>2 DEF BoolTypes, Facts
<1>5. DataTypes'
  BY <1>1, AlarmAssumption DEF PcTypes, DataTypes
<1>6. ReqInv'
  BY <1>1, <1>2 DEF ReqInv, PcTypes, Facts
<1>7. PipeInv'
  BY <1>1, <1>2 DEF PipeInv, PcTypes, Facts
<1>8. JumpInv'
  BY <1>1, <1>2 DEF JumpInv, Waits, PcTypes, Facts
<1>9. AnswerIsOwn'
  BY DEF AnswerIsOwn, ReqInv
<1>10. QED
  BY <1>3, <1>4, <1>5, <1>6, <1>7, <1>8, <1>9, Types

LEMMA EnterIInv ==
  ASSUME IInv, Enter
  PROVE  IInv'
<1> USE DEF IInv, Enter, sigVars, netVars, EntersAtOnce
<1>1. PcTypes /\ BoolTypes /\ DataTypes
  BY Types
<1>2. Facts(prog)
  BY <1>1, ProgramFacts DEF PcTypes
<1>3. PcTypes'
  BY <1>1, <1>2, AlarmAssumption DEF PcTypes, ReqInv, Facts
<1>4. BoolTypes'
  BY <1>1, <1>2 DEF BoolTypes, Facts
<1>5. DataTypes'
  BY <1>1, AlarmAssumption DEF PcTypes, DataTypes
<1>6. ReqInv'
  BY <1>1, <1>2 DEF ReqInv, PcTypes, Facts
<1>7. PipeInv'
  BY <1>1, <1>2 DEF PipeInv, PcTypes, Facts
<1>8. JumpInv'
  BY <1>1, <1>2 DEF JumpInv, Waits, PcTypes, Facts
<1>9. AnswerIsOwn'
  BY DEF AnswerIsOwn, ReqInv
<1>10. QED
  BY <1>3, <1>4, <1>5, <1>6, <1>7, <1>8, <1>9, Types

LEMMA BlockIInv ==
  ASSUME IInv, Block
  PROVE  IInv'
<1> USE DEF IInv, Block, sigVars, netVars
<1>1. PcTypes /\ BoolTypes /\ DataTypes
  BY Types
<1>2. Facts(prog)
  BY <1>1, ProgramFacts DEF PcTypes
<1>3. PcTypes'
  BY <1>1, <1>2, AlarmAssumption DEF PcTypes, ReqInv, Facts
<1>4. BoolTypes'
  BY <1>1, <1>2 DEF BoolTypes, Facts
<1>5. DataTypes'
  BY <1>1, AlarmAssumption DEF PcTypes, DataTypes
<1>6. ReqInv'
  BY <1>1, <1>2 DEF ReqInv, PcTypes, Facts
<1>7. PipeInv'
  BY <1>1, <1>2 DEF PipeInv, PcTypes, Facts
<1>8. JumpInv'
  BY <1>1, <1>2 DEF JumpInv, Waits, PcTypes, Facts
<1>9. AnswerIsOwn'
  BY DEF AnswerIsOwn, ReqInv
<1>10. QED
  BY <1>3, <1>4, <1>5, <1>6, <1>7, <1>8, <1>9, Types

LEMMA RecvIInv ==
  ASSUME IInv, Recv
  PROVE  IInv'
<1> USE DEF IInv, Recv, sigVars, netVars, Remask
<1>1. PcTypes /\ BoolTypes /\ DataTypes
  BY Types
<1>2. Facts(prog)
  BY <1>1, ProgramFacts DEF PcTypes
<1>3. PcTypes'
  BY <1>1, <1>2, AlarmAssumption DEF PcTypes, ReqInv, Facts
<1>4. BoolTypes'
  BY <1>1, <1>2 DEF BoolTypes, Facts
<1>5. DataTypes'
  BY <1>1, AlarmAssumption DEF PcTypes, DataTypes
<1>6. ReqInv'
  BY <1>1, <1>2 DEF ReqInv, PcTypes, Facts
<1>7. PipeInv'
  BY <1>1, <1>2 DEF PipeInv, PcTypes, Facts
<1>8. JumpInv'
  BY <1>1, <1>2 DEF JumpInv, Waits, PcTypes, Facts
<1>9. AnswerIsOwn'
  BY DEF AnswerIsOwn, ReqInv
<1>10. QED
  BY <1>3, <1>4, <1>5, <1>6, <1>7, <1>8, <1>9, Types

LEMMA ReadPipeIInv ==
  ASSUME IInv, ReadPipe
  PROVE  IInv'
<1> USE DEF IInv, ReadPipe, sigVars, netVars
<1>1. PcTypes /\ BoolTypes /\ DataTypes
  BY Types
<1>2. Facts(prog)
  BY <1>1, ProgramFacts DEF PcTypes
<1>3. PcTypes'
  BY <1>1, <1>2, AlarmAssumption DEF PcTypes, ReqInv, Facts
<1>4. BoolTypes'
  BY <1>1, <1>2 DEF BoolTypes, Facts
<1>5. DataTypes'
  BY <1>1, AlarmAssumption DEF PcTypes, DataTypes
<1>6. ReqInv'
  BY <1>1, <1>2 DEF ReqInv, PcTypes, Facts
<1>7. PipeInv'
  BY <1>1, <1>2 DEF PipeInv, PcTypes, Facts
<1>8. JumpInv'
  BY <1>1, <1>2 DEF JumpInv, PipeInv, Waits, PcTypes, Facts
<1>9. AnswerIsOwn'
  BY DEF AnswerIsOwn, ReqInv
<1>10. QED
  BY <1>3, <1>4, <1>5, <1>6, <1>7, <1>8, <1>9, Types

LEMMA GotIInv ==
  ASSUME IInv, Got
  PROVE  IInv'
<1> USE DEF IInv, Got, sigVars, netVars, Matches
<1>1. PcTypes /\ BoolTypes /\ DataTypes
  BY Types
<1>2. Facts(prog)
  BY <1>1, ProgramFacts DEF PcTypes
<1>3. PcTypes'
  BY <1>1, <1>2, AlarmAssumption DEF PcTypes, ReqInv, Facts
<1>4. BoolTypes'
  BY <1>1, <1>2 DEF BoolTypes, Facts
<1>5. DataTypes'
  BY <1>1, AlarmAssumption DEF PcTypes, DataTypes
<1>6. ReqInv'
  BY <1>1, <1>2 DEF ReqInv, PcTypes, Facts
<1>7. PipeInv'
  BY <1>1, <1>2 DEF PipeInv, PcTypes, Facts
<1>8. JumpInv'
  BY <1>1, <1>2 DEF JumpInv, Waits, PcTypes, Facts
<1>9. AnswerIsOwn'
  BY DEF AnswerIsOwn, ReqInv
<1>10. QED
  BY <1>3, <1>4, <1>5, <1>6, <1>7, <1>8, <1>9, Types

LEMMA StopIInv ==
  ASSUME IInv, Stop
  PROVE  IInv'
<1> USE DEF IInv, Stop, sigVars, netVars
<1>1. PcTypes /\ BoolTypes /\ DataTypes
  BY Types
<1>2. Facts(prog)
  BY <1>1, ProgramFacts DEF PcTypes
<1>3. PcTypes'
  BY <1>1, <1>2, AlarmAssumption DEF PcTypes, ReqInv, Facts
<1>4. BoolTypes'
  BY <1>1, <1>2 DEF BoolTypes, Facts
<1>5. DataTypes'
  <2>1. req \in 1..MaxReq
    BY <1>1, AlarmAssumption DEF PcTypes, ReqInv
  <2>2. got.re \in 0..MaxReq
    BY <1>1 DEF DataTypes, Datagrams
  <2>3. shown' \subseteq (1..MaxReq) \X (0..MaxReq)
    BY <1>1, <2>1, <2>2 DEF DataTypes
  <2>4. QED
    BY <1>1, <2>3 DEF DataTypes
<1>6. ReqInv'
  BY <1>1, <1>2 DEF ReqInv, PcTypes, Facts
<1>7. PipeInv'
  BY <1>1, <1>2 DEF PipeInv, PcTypes, Facts
<1>8. JumpInv'
  BY <1>1, <1>2 DEF JumpInv, Waits, PcTypes, Facts
<1>9. AnswerIsOwn'
  BY DEF AnswerIsOwn, ReqInv
<1>10. QED
  BY <1>3, <1>4, <1>5, <1>6, <1>7, <1>8, <1>9, Types

LEMMA TimeoutIInv ==
  ASSUME IInv, Timeout
  PROVE  IInv'
<1> USE DEF IInv, Timeout, sigVars, netVars
<1>1. PcTypes /\ BoolTypes /\ DataTypes
  BY Types
<1>2. Facts(prog)
  BY <1>1, ProgramFacts DEF PcTypes
<1>3. PcTypes'
  BY <1>1, <1>2, AlarmAssumption DEF PcTypes, ReqInv, Facts
<1>4. BoolTypes'
  BY <1>1, <1>2 DEF BoolTypes, Facts
<1>5. DataTypes'
  BY <1>1, AlarmAssumption DEF PcTypes, DataTypes
<1>6. ReqInv'
  BY <1>1, <1>2 DEF ReqInv, PcTypes, Facts
<1>7. PipeInv'
  BY <1>1, <1>2 DEF PipeInv, PcTypes, Facts
<1>8. JumpInv'
  BY <1>1, <1>2 DEF JumpInv, Waits, PcTypes, Facts
<1>9. AnswerIsOwn'
  BY DEF AnswerIsOwn, ReqInv
<1>10. QED
  BY <1>3, <1>4, <1>5, <1>6, <1>7, <1>8, <1>9, Types

LEMMA CallTimesOutIInv ==
  ASSUME IInv, CallTimesOut
  PROVE  IInv'
<1> USE DEF IInv, CallTimesOut, sigVars, netVars
<1>1. PcTypes /\ BoolTypes /\ DataTypes
  BY Types
<1>2. Facts(prog)
  BY <1>1, ProgramFacts DEF PcTypes
<1>3. PcTypes'
  BY <1>1, <1>2, AlarmAssumption DEF PcTypes, ReqInv, Facts
<1>4. BoolTypes'
  BY <1>1, <1>2 DEF BoolTypes, Facts
<1>5. DataTypes'
  BY <1>1, AlarmAssumption DEF PcTypes, DataTypes
<1>6. ReqInv'
  BY <1>1, <1>2 DEF ReqInv, PcTypes, Facts
<1>7. PipeInv'
  BY <1>1, <1>2 DEF PipeInv, PcTypes, Facts
<1>8. JumpInv'
  BY <1>1, <1>2 DEF JumpInv, Waits, PcTypes, Facts
<1>9. AnswerIsOwn'
  BY DEF AnswerIsOwn, ReqInv
<1>10. QED
  BY <1>3, <1>4, <1>5, <1>6, <1>7, <1>8, <1>9, Types

LEMMA ArriveIInv ==
  ASSUME IInv, Arrive
  PROVE  IInv'
<1> USE DEF IInv, Arrive, sigVars, netVars
<1>1. PcTypes /\ BoolTypes /\ DataTypes
  BY Types
<1>2. Facts(prog)
  BY <1>1, ProgramFacts DEF PcTypes
<1>3. PcTypes'
  BY <1>1, <1>2, AlarmAssumption DEF PcTypes, ReqInv, Facts
<1>4. BoolTypes'
  BY <1>1, <1>2 DEF BoolTypes, Facts
<1>5. DataTypes'
  BY <1>1, AlarmAssumption DEF PcTypes, DataTypes
<1>6. ReqInv'
  BY <1>1, <1>2 DEF ReqInv, PcTypes, Facts
<1>7. PipeInv'
  BY <1>1, <1>2 DEF PipeInv, PcTypes, Facts
<1>8. JumpInv'
  BY <1>1, <1>2 DEF JumpInv, Waits, PcTypes, Facts
<1>9. AnswerIsOwn'
  BY DEF AnswerIsOwn, ReqInv
<1>10. QED
  BY <1>3, <1>4, <1>5, <1>6, <1>7, <1>8, <1>9, Types

-----------------------------------------------------------------------------
(* The handler, at whatever place the signal finds the program. *)

\* What every handler leaves alone.
HandlerFrame == UNCHANGED <<prog, nsent, jmpbuf, netVars, got, shown>>

\* A handler runs because the clock has run down, or inside pselect.
Signalled == armed \/ (prog.wait = "pselect" /\ pc = "blocked")

\* A system call that is interrupted is the one the program is blocked in.
LEMMA InterruptedTo ==
  ASSUME Interrupted, BoolTypes
  PROVE  /\ pc' = pc \/ (pc = "blocked" /\ pc' \in {"timeout", "loop"})
         /\ masked' \in BOOLEAN
BY DEF Interrupted, AfterIntr, Remask, BoolTypes

LEMMA DataKept ==
  ASSUME DataTypes, AnswerIsOwn, HandlerFrame
  PROVE  DataTypes' /\ AnswerIsOwn'
BY DEF DataTypes, AnswerIsOwn, HandlerFrame, netVars

\* The handlers that return to where they came from.
LEMMA ReturnIInv ==
  ASSUME IInv, HandlerFrame, Signalled, pending' \in BOOLEAN,
         prog.handler \in {"return", "flag", "pipe"}, Interrupted,
         flag' = (flag \/ prog.handler = "flag"), pipe' = PipeAfter,
         armed' = FALSE, UNCHANGED req
  PROVE  IInv'
<1> USE DEF IInv, HandlerFrame, netVars
<1>1. PcTypes /\ BoolTypes /\ DataTypes
  BY Types
<1>2. Facts(prog)
  BY <1>1, ProgramFacts DEF PcTypes
<1>3. (pc' = pc \/ (pc = "blocked" /\ pc' \in {"timeout", "loop"})) /\ masked' \in BOOLEAN
  BY <1>1, InterruptedTo
<1>4. PipeInv'
  BY <1>1, <1>2, <1>3 DEF PipeInv, PipeAfter, PcTypes, Facts, Signalled
<1>5. PcTypes'
  <2>1. CASE prog.handler = "pipe"
    <3>1. armed /\ pipe + 1 <= req
      BY <1>1, <1>2, <2>1 DEF PipeInv, PcTypes, Facts, Signalled
    <3>2. pipe + 1 \in 0..MaxReq
      BY <1>1, <3>1, AlarmAssumption DEF PcTypes
    <3>3. QED
      BY <1>1, <1>3, <2>1, <3>2 DEF PcTypes, PipeAfter
  <2>2. CASE prog.handler # "pipe"
    BY <1>1, <1>3, <2>2 DEF PcTypes, PipeAfter
  <2>3. QED
    BY <2>1, <2>2
<1>6. BoolTypes'
  BY <1>1, <1>3 DEF BoolTypes
<1>7. ReqInv'
  BY <1>1, <1>3 DEF ReqInv, PcTypes
<1>8. JumpInv'
  BY <1>3 DEF JumpInv
<1>9. QED
  BY <1>1, <1>4, <1>5, <1>6, <1>7, <1>8, DataKept, Types

\* sig_alrm of ping sends the next request.
LEMMA SendAgainIInv ==
  ASSUME IInv, HandlerFrame, pending' \in BOOLEAN, prog.handler = "send", Interrupted,
         req' = IF req < MaxReq THEN req + 1 ELSE req,
         armed' = (req' < MaxReq), UNCHANGED <<flag, pipe>>
  PROVE  IInv'
<1> USE DEF IInv, HandlerFrame, netVars
<1>1. PcTypes /\ BoolTypes /\ DataTypes
  BY Types
<1>2. Facts(prog)
  BY <1>1, ProgramFacts DEF PcTypes
<1>3. (pc' = pc \/ (pc = "blocked" /\ pc' \in {"timeout", "loop"})) /\ masked' \in BOOLEAN
  BY <1>1, InterruptedTo
<1>4. PcTypes'
  BY <1>1, <1>3, AlarmAssumption DEF PcTypes
<1>5. BoolTypes'
  BY <1>1, <1>3 DEF BoolTypes
<1>6. ReqInv'
  BY <1>1, <1>2, <1>3 DEF ReqInv, PcTypes, Facts
<1>7. PipeInv' /\ JumpInv'
  BY <1>3 DEF PipeInv, JumpInv
<1>8. QED
  BY <1>1, <1>4, <1>5, <1>6, <1>7, DataKept, Types

\* siglongjmp: the clock runs only inside the wait, where jmpbuf is live, and
\* at its top, before the first sigsetjmp of the request.
LEMMA JumpIInv ==
  ASSUME IInv, HandlerFrame, Signalled, pending' = FALSE, prog.handler = "jump",
         pc' = (IF prog.guarded /\ ~flag THEN pc
                ELSE IF jmpbuf = "live" THEN "timeout" ELSE "wild"),
         armed' = FALSE, UNCHANGED <<req, flag, pipe, masked>>
  PROVE  IInv'
<1> USE DEF IInv, HandlerFrame, netVars
<1>1. PcTypes /\ BoolTypes /\ DataTypes
  BY Types
<1>2. Facts(prog)
  BY <1>1, ProgramFacts DEF PcTypes
<1>3. pc \in {"loop", "window", "blocked", "got", "stop"} /\ req > 0
  BY <1>2 DEF JumpInv, ReqInv, Signalled, Facts
<1>4. PcTypes'
  BY <1>1 DEF PcTypes
<1>5. BoolTypes'
  BY <1>1 DEF BoolTypes
<1>6. ReqInv'
  BY <1>3 DEF ReqInv
<1>7. PipeInv'
  BY DEF PipeInv
<1>8. JumpInv'
  <2>1. ~masked' /\ ~pending' /\ ~armed'
    BY DEF JumpInv
  <2>2. CASE prog.guarded
    BY <1>3, <2>1, <2>2 DEF JumpInv
  <2>3. CASE ~prog.guarded /\ jmpbuf = "live"
    BY <2>1, <2>3 DEF JumpInv, Waits
  <2>4. CASE ~prog.guarded /\ jmpbuf # "live"
    <3>1. pc = "loop" /\ nsent = 1 /\ (prog.frame = "loop" => req = 1)
      BY <1>3, <2>4 DEF JumpInv, Waits
    <3>2. QED
      BY <2>1, <2>4, <3>1 DEF JumpInv, Waits
  <2>5. QED
    BY <2>2, <2>3, <2>4
<1>9. QED
  BY <1>1, <1>4, <1>5, <1>6, <1>7, <1>8, DataKept, Types

LEMMA HandlerIInv ==
  ASSUME IInv, Handler, HandlerFrame, Signalled, pending' \in BOOLEAN, pending' => pending
  PROVE  IInv'
<1>1. prog.handler = "jump" => pending' = FALSE
  BY DEF IInv, JumpInv
<1>2. QED
  BY <1>1, ReturnIInv, SendAgainIInv, JumpIInv DEF Handler

LEMMA ExpireIInv ==
  ASSUME IInv, Expire
  PROVE  IInv'
<1> USE DEF IInv
<1>1. PcTypes /\ BoolTypes /\ DataTypes
  BY Types
<1>2. HandlerFrame /\ armed
  BY DEF Expire, HandlerFrame
<1>3. CASE Handler /\ UNCHANGED pending
  BY <1>1, <1>2, <1>3, HandlerIInv DEF Signalled, BoolTypes
<1>4. CASE masked /\ pending' = TRUE /\ armed' = FALSE /\ UNCHANGED <<pc, req, flag, pipe, masked>>
  <2>1. Facts(prog) /\ prog.handler # "jump"
    BY <1>1, <1>4, ProgramFacts DEF PcTypes, JumpInv
  <2>2. PcTypes' /\ ReqInv'
    BY <1>1, <1>2, <1>4 DEF PcTypes, ReqInv, HandlerFrame
  <2>3. BoolTypes'
    BY <1>1, <1>4 DEF BoolTypes
  <2>4. PipeInv'
    BY <1>1, <1>2, <1>4 DEF PipeInv, PcTypes, HandlerFrame
  <2>5. JumpInv'
    BY <1>2, <1>4, <2>1 DEF JumpInv, HandlerFrame
  <2>6. QED
    BY <1>1, <1>2, <2>2, <2>3, <2>4, <2>5, DataKept, Types
<1>5. QED
  BY <1>3, <1>4 DEF Expire

LEMMA DeliverIInv ==
  ASSUME IInv, Deliver
  PROVE  IInv'
BY HandlerIInv DEF Deliver, HandlerFrame, Signalled

LEMMA StepIInv ==
  ASSUME IInv, [Next]_vars
  PROVE  IInv'
<1>1. CASE Process
  BY <1>1, NextRequestIInv, Fgets_NULLIInv, SendIInv, AlarmIInv, EnterIInv, BlockIInv, RecvIInv,
     ReadPipeIInv, GotIInv, StopIInv, TimeoutIInv DEF Process
<1>2. CASE Timer
  BY <1>2, ExpireIInv, DeliverIInv, CallTimesOutIInv DEF Timer
<1>3. CASE Arrive
  BY <1>3, ArriveIInv
<1>4. CASE UNCHANGED vars
  BY <1>4 DEF IInv, vars, TypeOK, ReqInv, PipeInv, JumpInv, AnswerIsOwn
<1>5. QED
  BY <1>1, <1>2, <1>3, <1>4 DEF Next

-----------------------------------------------------------------------------
(* The theorems. *)

\* The invariant holds of every reachable state.
THEOREM Invariance == Spec => []IInv
<1>1. Init => IInv
  BY InitIInv
<1>2. IInv /\ [Next]_vars => IInv'
  BY StepIInv
<1>3. QED
  BY <1>1, <1>2, PTL DEF Spec

\* The variables keep their types: no transmission beyond the last try, no
\* more bytes in the pipe of dgclibcast6 than requests, and every answer
\* shown belongs to a request that was made.
THEOREM TypeCorrect == Spec => []TypeOK
BY Invariance, PTL DEF IInv

\* A program that compares sequence numbers (dg_send_recv) or ports
\* (recv_v4), or has a socket for each call (connect_timeo, connect_nonb),
\* takes no other request's answer for its own, however late and however
\* often answers come and wherever SIGALRM strikes.
THEOREM OnlyOwnAnswers == Spec => []AnswerIsOwn
BY Invariance, PTL DEF IInv

\* siglongjmp without its sigsetjmp happens in dgclibcast5 at the first
\* request and in dg_send_recv at the first transmission of a request, and
\* nowhere else; never in test_udp, whose handler looks at canjump.
THEOREM JumpsLand == Spec => []NoWildJump
<1>1. IInv => NoWildJump
  <2>1. SUFFICES ASSUME IInv, pc = "wild"
                 PROVE  /\ prog \in {dgclibcast5, dg_send_recv}
                        /\ nsent = 1 /\ (prog = dgclibcast5 => req = 1)
    BY DEF NoWildJump
  <2>2. prog \in Programs
    BY <2>1 DEF IInv, TypeOK
  <2>3. Facts(prog)
    BY <2>2, ProgramFacts
  <2>4. prog.handler = "jump" /\ ~prog.guarded /\ nsent = 1 /\ (prog.frame = "loop" => req = 1)
    BY <2>1 DEF IInv, JumpInv
  <2>5. dgclibcast5.frame = "loop"
    BY DEF dgclibcast5, Collect, Plain
  <2>6. QED
    BY <2>3, <2>4, <2>5 DEF Facts
<1>2. QED
  BY <1>1, Invariance, PTL

-----------------------------------------------------------------------------
(***************************************************************************)
(* The web clients.  Main keeps counters of what it finds in its tables:   *)
(* they are the sizes of the sets of the files not started and of those    *)
(* under way, in every program and for every number of files.  The flag of *)
(* a file and its thread agree, but for the one file that main of web02    *)
(* has just started and whose thread may be ahead of the flag.             *)
(***************************************************************************)
CONSTANTS nfiles, maxnconn, WebPrograms, MayFail
VARIABLES i, f_flags, thread, nconn, nlefttoconn, nlefttoread, ndone, server, rs

Web == INSTANCE WebClient WITH Programs <- WebPrograms

\* Not started, as main's own step decides it: in web02 the thread runs before
\* main has set f_flags.
Fresh(f) == IF Web!Threaded THEN thread[f] = "none" ELSE f_flags[f] = "0"

Idle   == {f \in Web!Files : Fresh(f)}
Flight == {f \in Web!Files : Web!InFlight(f)}

\* f_flags and the thread tell the same about whether a file was started,
\* except for the file main has just started and not marked yet.
FlagInv ==
    /\ ~Web!Threaded => pc \notin {"mark", "join"} /\ \A f \in Web!Files : thread[f] = "none"
    /\ Web!Threaded => \A f \in Web!Files : \/ thread[f] = "none" <=> f_flags[f] = "0"
                                            \/ pc \in {"mark", "quit"} /\ f = i
    /\ pc = "mark" => i \in Web!Files /\ thread[i] # "none"
    /\ pc = "join" => i \in Web!Files

CountInv ==
    /\ nconn = Cardinality(Flight)
    /\ nlefttoconn = Cardinality(Idle)
    /\ nlefttoread = nlefttoconn + nconn

WebInv == Web!TypeOK /\ FlagInv /\ CountInv

-----------------------------------------------------------------------------
LEMMA WebCardinality == ASSUME NEW S PROVE Web!Cardinality(S) = Cardinality(S)
  BY DEF Web!Cardinality, Cardinality

\* The smallest member of a set of numbers.
LEMMA WebMin ==
  ASSUME NEW S \in SUBSET Nat, S # {}
  PROVE  Web!Min(S) \in S
<1>1. \E x \in S : \A y \in S : ~ (<<y, x>> \in OpToRel(<, Nat))
  BY NatLessThanWellFounded, WFMin
<1>2. PICK x \in S : \A y \in S : ~ (<<y, x>> \in {ss \in Nat \X Nat : ss[1] < ss[2]})
  BY <1>1 DEF OpToRel
<1>3. ASSUME NEW y \in S
      PROVE  x <= y
  <2>1. <<y, x>> \in Nat \X Nat /\ ~(<<y, x>>[1] < <<y, x>>[2])
    BY <1>2
  <2>2. QED
    BY <2>1
<1>4. QED
  BY <1>3 DEF Web!Min

LEMMA WebProgramFacts ==
  ASSUME Web!ProgramsAssumption, prog \in WebPrograms
  PROVE  /\ prog.mark \in {"before", "after"}
         /\ prog.collect \in {"thr_join", "poll", "cond", "select"}
         /\ ~Web!Threaded => prog.mark = "before"
  BY DEF Web!ProgramsAssumption, Web!AllPrograms, Web!web01, Web!web02, Web!web03, Web!web, Web!Threaded

LEMMA WebFinite ==
  ASSUME Web!WebClientAssumption
  PROVE  /\ IsFiniteSet(Web!Files) /\ Cardinality(Web!Files) = nfiles
         /\ IsFiniteSet(Idle) /\ Cardinality(Idle) \in Nat /\ Cardinality(Idle) <= nfiles
         /\ IsFiniteSet(Flight) /\ Cardinality(Flight) \in Nat
<1>1. nfiles \in Nat /\ nfiles > 0
  BY DEF Web!WebClientAssumption
<1>2. IsFiniteSet(1..nfiles) /\ Cardinality(1..nfiles) = nfiles
  BY <1>1, FS_Interval
<1>3. IsFiniteSet(Web!Files) /\ Cardinality(Web!Files) = nfiles
  BY <1>2 DEF Web!Files
<1>4. Idle \in SUBSET Web!Files /\ Flight \in SUBSET Web!Files
  BY DEF Idle, Flight
<1>5. QED
  BY <1>3, <1>4, FS_Subset, FS_CardinalityType

-----------------------------------------------------------------------------
(* The counters, for the four ways a step may change file[]. *)

LEMMA CountKept ==
  ASSUME CountInv, Flight' = Flight, Idle' = Idle, UNCHANGED Web!counts
  PROVE  CountInv'
  BY DEF CountInv, Web!counts

LEMMA CountStarted ==
  ASSUME Web!WebClientAssumption, CountInv, NEW f \in Idle, f \notin Flight,
         Flight' = Flight \cup {f}, Idle' = Idle \ {f},
         nconn' = nconn + 1, nlefttoconn' = nlefttoconn - 1, nlefttoread' = nlefttoread
  PROVE  CountInv'
<1>1. Cardinality(Flight') = Cardinality(Flight) + 1
  BY WebFinite, FS_AddElement
<1>2. Cardinality(Idle') = Cardinality(Idle) - 1
  BY WebFinite, FS_RemoveElement
<1>3. Cardinality(Flight) \in Nat /\ Cardinality(Idle) \in Nat
  BY WebFinite
<1>4. nconn = Cardinality(Flight) /\ nlefttoconn = Cardinality(Idle) /\ nlefttoread = nlefttoconn + nconn
  BY DEF CountInv
<1>5. nconn' = Cardinality(Flight') /\ nlefttoconn' = Cardinality(Idle') /\ nlefttoread' = nlefttoconn' + nconn'
  BY <1>1, <1>2, <1>3, <1>4
<1>6. QED
  BY <1>5 DEF CountInv

LEMMA CountCollected ==
  ASSUME Web!WebClientAssumption, CountInv, NEW f \in Flight,
         Flight' = Flight \ {f}, Idle' = Idle, Web!Collected, nlefttoconn' = nlefttoconn
  PROVE  CountInv'
<1>1. Cardinality(Flight') = Cardinality(Flight) - 1
  BY WebFinite, FS_RemoveElement
<1>2. Cardinality(Flight) \in Nat /\ Cardinality(Idle) \in Nat
  BY WebFinite
<1>3. nconn = Cardinality(Flight) /\ nlefttoconn = Cardinality(Idle) /\ nlefttoread = nlefttoconn + nconn
  BY DEF CountInv
<1>4. nconn' = nconn - 1 /\ nlefttoread' = nlefttoread - 1
  BY DEF Web!Collected
<1>5. nconn' = Cardinality(Flight') /\ nlefttoconn' = Cardinality(Idle') /\ nlefttoread' = nlefttoconn' + nconn'
  BY <1>1, <1>2, <1>3, <1>4
<1>6. QED
  BY <1>5 DEF CountInv

\* The ranges of the counters follow: there are never more connections than
\* before, unless there was room for one.
LEMMA CountTypes ==
  ASSUME Web!WebClientAssumption, Web!TypeOK, CountInv', nlefttoread' \in {nlefttoread, nlefttoread - 1},
         nconn' \in {nconn, nconn - 1} \/ (Web!Room /\ nconn' = nconn + 1)
  PROVE  /\ nconn' \in 0..maxnconn /\ nlefttoconn' \in 0..nfiles /\ nlefttoread' \in 0..nfiles
<1>1. nconn' \in Nat /\ nlefttoconn' \in Nat /\ nlefttoconn' <= nfiles /\ nlefttoread' = nlefttoconn' + nconn'
  <2>1. /\ Cardinality(Idle') \in Nat /\ Cardinality(Idle') <= nfiles /\ Cardinality(Flight') \in Nat
    <3>1. Idle' \in SUBSET Web!Files /\ Flight' \in SUBSET Web!Files
      BY DEF Idle, Flight, Web!Files
    <3>2. IsFiniteSet(Web!Files) /\ Cardinality(Web!Files) = nfiles
      BY WebFinite
    <3>3. QED
      BY <3>1, <3>2, FS_Subset, FS_CardinalityType
  <2>2. QED
    BY <2>1 DEF CountInv
<1>2. nconn \in 0..maxnconn /\ nlefttoread \in 0..nfiles /\ maxnconn \in Nat /\ nfiles \in Nat
  BY DEF Web!TypeOK, Web!WebClientAssumption
<1>3. nconn' <= maxnconn
  <2>1. nconn' \in {nconn, nconn - 1} \/ (nconn < maxnconn /\ nconn' = nconn + 1)
    BY DEF Web!Room
  <2>2. QED
    BY <1>1, <1>2, <2>1
<1>4. nlefttoread' \in 0..nfiles
  <2>1. \A a, b, c, n \in Nat : c \in 0..n /\ a + b \in {c, c - 1} => a + b \in 0..n
    OBVIOUS
  <2>2. nlefttoconn' \in Nat /\ nconn' \in Nat /\ nlefttoread \in Nat /\ nfiles \in Nat
    BY <1>1, <1>2
  <2>3. QED
    BY <1>1, <1>2, <2>1, <2>2, Zenon
<1>5. nconn' \in 0..maxnconn /\ nlefttoconn' \in 0..nfiles
  BY <1>1, <1>2, <1>3
<1>6. QED
  BY <1>4, <1>5

-----------------------------------------------------------------------------
LEMMA WebInit ==
  ASSUME Web!WebClientAssumption, Web!Init
  PROVE  WebInv
<1> USE DEF Web!Init
<1>1. Web!TypeOK
  BY DEF Web!TypeOK, Web!WebClientAssumption, Web!Files
<1>2. FlagInv
  BY DEF FlagInv
<1>3. Idle = Web!Files /\ Flight = {}
  BY DEF Idle, Flight, Fresh, Web!InFlight
<1>4. CountInv
  BY <1>3, WebFinite, FS_EmptySet DEF CountInv, Web!WebClientAssumption
<1>5. QED
  BY <1>1, <1>2, <1>4 DEF WebInv

\* The file main starts is one not started.
LEMMA FirstUnstarted ==
  ASSUME Web!WebClientAssumption, Web!TypeOK, FlagInv, pc = "fill", Web!Unstarted # {}
  PROVE  /\ Web!Min(Web!Unstarted) \in Web!Files /\ f_flags[Web!Min(Web!Unstarted)] = "0"
         /\ Web!Min(Web!Unstarted) \in Idle /\ Web!Min(Web!Unstarted) \notin Flight
<1> DEFINE f == Web!Min(Web!Unstarted)
<1>1. Web!Unstarted \in SUBSET Nat
  BY DEF Web!Unstarted, Web!Files
<1>2. f \in Web!Unstarted
  BY <1>1, WebMin
<1> HIDE DEF f
<1>3. f \in Web!Files /\ f_flags[f] = "0"
  BY <1>2 DEF Web!Unstarted
<1>4. Web!Threaded => thread[f] = "none"
  BY <1>3 DEF FlagInv
<1>5. f \in Idle /\ f \notin Flight
  BY <1>3, <1>4 DEF Idle, Flight, Fresh, Web!InFlight
<1>6. QED
  BY <1>3, <1>5 DEF f

LEMMA WebStart ==
  ASSUME Web!WebClientAssumption, Web!ProgramsAssumption, Web!TypeOK, FlagInv, CountInv, Web!Start
  PROVE  WebInv'
<1>1. /\ pc = "fill" /\ Web!Unstarted # {} /\ Web!Room /\ i' = Web!Min(Web!Unstarted)
      /\ nconn' = nconn + 1 /\ nlefttoconn' = nlefttoconn - 1 /\ nlefttoread' = nlefttoread
      /\ server' = [server EXCEPT ![i'] = "syn"]
      /\ UNCHANGED <<prog, ndone, rs>>
  BY DEF Web!Start
<1>2. PICK f : f = i'
  OBVIOUS
<1>3. f \in Web!Files /\ f_flags[f] = "0" /\ f \in Idle /\ f \notin Flight
  BY <1>1, <1>2, FirstUnstarted
<1>4. /\ thread' = IF Web!Threaded THEN [thread EXCEPT ![f] = "connect"] ELSE thread
      /\ \/ pc' = "fill" /\ f_flags' = [f_flags EXCEPT ![f] = "F_CONNECTING"]
         \/ Web!Threaded /\ pc' = "mark" /\ f_flags' = f_flags
  BY <1>2, WebProgramFacts DEF Web!Start, Web!TypeOK
<1>5. /\ f_flags \in [Web!Files -> {"0", "F_CONNECTING", "F_READING", "F_DONE", "F_JOINED"}]
      /\ thread \in [Web!Files -> {"none", "connect", "write", "read", "count", "ended", "joined"}]
  BY DEF Web!TypeOK
<1>6. Flight' = Flight \cup {f} /\ Idle' = Idle \ {f}
  BY <1>1, <1>3, <1>4, <1>5 DEF Flight, Idle, Fresh, Web!InFlight, Web!Threaded, Web!Files
<1>7. CountInv'
  BY <1>1, <1>3, <1>6, CountStarted
<1>8. Web!TypeOK'
  <2>1. nconn' \in 0..maxnconn /\ nlefttoconn' \in 0..nfiles /\ nlefttoread' \in 0..nfiles
    BY <1>1, <1>7, CountTypes
  <2>2. i' \in 1..(nfiles + 1)
    BY <1>2, <1>3 DEF Web!Files, Web!WebClientAssumption
  <2>3. server' \in [Web!Files -> {"none", "syn", "up", "refused", "data", "eof"}]
    BY <1>1, <1>2, <1>3 DEF Web!TypeOK
  <2>4. pc' \in {"fill", "mark"} /\ f_flags' \in [Web!Files -> {"0", "F_CONNECTING", "F_READING", "F_DONE", "F_JOINED"}]
    BY <1>4, <1>5
  <2>5. thread' \in [Web!Files -> {"none", "connect", "write", "read", "count", "ended", "joined"}]
    BY <1>4, <1>5
  <2>6. QED
    BY <1>1, <2>1, <2>2, <2>3, <2>4, <2>5 DEF Web!TypeOK, Web!Files
<1>9. FlagInv'
  BY <1>1, <1>2, <1>3, <1>4, <1>5 DEF FlagInv, Web!Threaded, Web!Files
<1>10. QED
  BY <1>7, <1>8, <1>9 DEF WebInv

LEMMA WebStartConnected ==
  ASSUME Web!WebClientAssumption, Web!TypeOK, FlagInv, CountInv, Web!StartConnected
  PROVE  WebInv'
<1>1. /\ pc = "fill" /\ Web!Unstarted # {} /\ Web!Room /\ ~Web!Threaded /\ i' = Web!Min(Web!Unstarted)
      /\ nconn' = nconn + 1 /\ nlefttoconn' = nlefttoconn - 1 /\ nlefttoread' = nlefttoread
      /\ server' = [server EXCEPT ![i'] = "data"]
      /\ f_flags' = [f_flags EXCEPT ![i'] = "F_READING"]
      /\ UNCHANGED <<prog, pc, thread, ndone, rs>>
  BY DEF Web!StartConnected
<1>2. PICK f : f = i'
  OBVIOUS
<1>3. f \in Web!Files /\ f_flags[f] = "0" /\ f \in Idle /\ f \notin Flight
  BY <1>1, <1>2, FirstUnstarted
<1>4. f_flags \in [Web!Files -> {"0", "F_CONNECTING", "F_READING", "F_DONE", "F_JOINED"}]
  BY DEF Web!TypeOK
<1>5. Flight' = Flight \cup {f} /\ Idle' = Idle \ {f}
  BY <1>1, <1>2, <1>3, <1>4 DEF Flight, Idle, Fresh, Web!InFlight, Web!Threaded, Web!Files
<1>6. CountInv'
  BY <1>1, <1>3, <1>5, CountStarted
<1>7. Web!TypeOK'
  <2>1. nconn' \in 0..maxnconn /\ nlefttoconn' \in 0..nfiles /\ nlefttoread' \in 0..nfiles
    BY <1>1, <1>6, CountTypes
  <2>2. i' \in 1..(nfiles + 1)
    BY <1>2, <1>3 DEF Web!Files, Web!WebClientAssumption
  <2>3. /\ server' \in [Web!Files -> {"none", "syn", "up", "refused", "data", "eof"}]
        /\ f_flags' \in [Web!Files -> {"0", "F_CONNECTING", "F_READING", "F_DONE", "F_JOINED"}]
    BY <1>1, <1>2, <1>3 DEF Web!TypeOK
  <2>4. QED
    BY <1>1, <2>1, <2>2, <2>3 DEF Web!TypeOK, Web!Files
<1>8. FlagInv'
  BY <1>1 DEF FlagInv, Web!Threaded, Web!Files
<1>9. QED
  BY <1>6, <1>7, <1>8 DEF WebInv

LEMMA WebMark ==
  ASSUME Web!WebClientAssumption, Web!TypeOK, FlagInv, CountInv, Web!Mark
  PROVE  WebInv'
<1>1. /\ pc = "mark" /\ pc' = "fill" /\ f_flags' = [f_flags EXCEPT ![i] = "F_CONNECTING"]
      /\ UNCHANGED <<prog, i, thread, Web!counts, ndone, server, rs>>
  BY DEF Web!Mark
<1>2. Web!Threaded /\ i \in Web!Files /\ thread[i] # "none"
  BY <1>1 DEF FlagInv
<1>3. Web!TypeOK'
  BY <1>1, <1>2 DEF Web!TypeOK, Web!counts, Web!Files
<1>4. FlagInv'
  BY <1>1, <1>2 DEF FlagInv, Web!Threaded, Web!TypeOK, Web!Files
<1>5. Flight' = Flight /\ Idle' = Idle
  BY <1>1, <1>2 DEF Flight, Idle, Fresh, Web!InFlight, Web!Threaded, Web!Files
<1>6. QED
  BY <1>1, <1>3, <1>4, <1>5, CountKept DEF WebInv

\* Steps of main that only move it on.
LEMMA WebMoves ==
  ASSUME Web!WebClientAssumption, Web!TypeOK, FlagInv, CountInv,
         Web!Filled \/ Web!LockNdone \/ Web!ScanFile \/ Web!Scanned \/ Web!Select
  PROVE  WebInv'
<1>1. /\ UNCHANGED <<prog, f_flags, thread, Web!counts, ndone, server>>
      /\ rs' \subseteq Web!Files /\ pc \notin {"mark", "quit"}
      /\ pc' \in {"fill", "collect", "cond_wait", "scan", "join", "exit"}
      /\ pc' = "join" => Web!Threaded /\ i' \in Web!Files
      /\ i' \in 1..(nfiles + 1)
  <2>0. nfiles \in Nat /\ nfiles > 0 /\ i \in 1..(nfiles + 1) /\ rs \subseteq Web!Files
    BY DEF Web!TypeOK, Web!WebClientAssumption
  <2>1. CASE Web!Filled
    BY <2>0, <2>1 DEF Web!Filled
  <2>2. CASE Web!LockNdone
    BY <2>0, <2>2 DEF Web!LockNdone
  <2>3. CASE Web!ScanFile
    <3>1. i <= nfiles /\ i' \in {i, i + 1} /\ (pc' = "join" => i' = i)
      BY <2>3 DEF Web!ScanFile
    <3>2. i' \in 1..(nfiles + 1) /\ (pc' = "join" => i' \in Web!Files)
      BY <2>0, <3>1 DEF Web!Files
    <3>3. QED
      BY <2>0, <2>3, <3>2 DEF Web!ScanFile
  <2>4. CASE Web!Scanned
    BY <2>0, <2>4 DEF Web!Scanned
  <2>5. CASE Web!Select
    BY <2>0, <2>5 DEF Web!Select
  <2>6. QED
    BY <2>1, <2>2, <2>3, <2>4, <2>5
<1>2. Web!TypeOK'
  BY <1>1 DEF Web!TypeOK, Web!counts, Web!Files
<1>3. FlagInv'
  BY <1>1 DEF FlagInv, Web!Threaded, Web!Files
<1>4. Flight' = Flight /\ Idle' = Idle
  BY <1>1 DEF Flight, Idle, Fresh, Web!InFlight, Web!Threaded, Web!Files
<1>5. QED
  BY <1>1, <1>2, <1>3, <1>4, CountKept DEF WebInv

\* thr_join and Pthread_join: the connection of a thread that has ended is
\* free again.
LEMMA WebJoins ==
  ASSUME Web!WebClientAssumption, Web!TypeOK, FlagInv, CountInv, Web!ThrJoin \/ Web!Join
  PROVE  WebInv'
<1>1. PICK f \in Web!Files :
        /\ Web!Threaded /\ thread[f] = "ended" /\ thread' = [thread EXCEPT ![f] = "joined"]
        /\ f_flags' = f_flags \/ f_flags' = [f_flags EXCEPT ![f] = "F_JOINED"]
        /\ pc \notin {"mark", "quit"} /\ pc' \in {"fill", "scan"} /\ i' \in 1..(nfiles + 1)
        /\ Web!Collected /\ nlefttoconn' = nlefttoconn
        /\ ndone' \in Int /\ UNCHANGED <<prog, server, rs>>
  <2>1. CASE Web!ThrJoin
    BY <2>1 DEF Web!ThrJoin, Web!Threaded, Web!TypeOK
  <2>2. CASE Web!Join
    <3>1. Web!Threaded /\ i \in Web!Files
      BY <2>2 DEF Web!Join, FlagInv
    <3>2. i' \in 1..(nfiles + 1)
      BY <2>2, <3>1 DEF Web!Join, Web!Files, Web!WebClientAssumption
    <3>3. ndone' \in Int
      BY <2>2 DEF Web!Join, Web!TypeOK
    <3>4. QED
      BY <2>2, <3>1, <3>2, <3>3 DEF Web!Join
  <2>3. QED
    BY <2>1, <2>2
<1>2. /\ f_flags \in [Web!Files -> {"0", "F_CONNECTING", "F_READING", "F_DONE", "F_JOINED"}]
      /\ thread \in [Web!Files -> {"none", "connect", "write", "read", "count", "ended", "joined"}]
  BY DEF Web!TypeOK
<1>3. f \in Flight /\ f_flags[f] # "0"
  BY <1>1 DEF Flight, Web!InFlight, FlagInv
<1>4. Flight' = Flight \ {f} /\ Idle' = Idle
  BY <1>1, <1>2 DEF Flight, Idle, Fresh, Web!InFlight, Web!Threaded, Web!Files
<1>5. CountInv'
  BY <1>1, <1>3, <1>4, CountCollected
<1>6. Web!TypeOK'
  <2>1. nconn' \in 0..maxnconn /\ nlefttoconn' \in 0..nfiles /\ nlefttoread' \in 0..nfiles
    <3>1. nlefttoread' \in {nlefttoread, nlefttoread - 1} /\ nconn' \in {nconn, nconn - 1}
      BY <1>1 DEF Web!Collected
    <3>2. QED
      BY <1>5, <3>1, CountTypes
  <2>2. /\ f_flags' \in [Web!Files -> {"0", "F_CONNECTING", "F_READING", "F_DONE", "F_JOINED"}]
        /\ thread' \in [Web!Files -> {"none", "connect", "write", "read", "count", "ended", "joined"}]
    BY <1>1, <1>2
  <2>3. QED
    BY <1>1, <2>1, <2>2 DEF Web!TypeOK, Web!Files
<1>7. FlagInv'
  BY <1>1, <1>2, <1>3 DEF FlagInv, Web!Threaded, Web!Files
<1>8. QED
  BY <1>5, <1>6, <1>7 DEF WebInv

\* web: one round of the loop over file[].
LEMMA WebSelectScan ==
  ASSUME Web!WebClientAssumption, Web!TypeOK, FlagInv, CountInv, Web!SelectScan
  PROVE  WebInv'
<1>1. /\ pc = "scan" /\ ~Web!Threaded /\ i \in Web!Files /\ i \in 1..(nfiles + 1) /\ i + 1 \in 1..(nfiles + 1)
      /\ UNCHANGED <<prog, thread, ndone, rs>>
  BY DEF Web!SelectScan, Web!TypeOK, Web!Files, Web!WebClientAssumption
<1>2. /\ f_flags \in [Web!Files -> {"0", "F_CONNECTING", "F_READING", "F_DONE", "F_JOINED"}]
      /\ server \in [Web!Files -> {"none", "syn", "up", "refused", "data", "eof"}]
  BY DEF Web!TypeOK
<1>3. /\ pc' \in {"scan", "quit"} /\ i' \in {i, i + 1} /\ server' \in [Web!Files -> {"none", "syn", "up", "refused", "data", "eof"}]
      /\ \/ UNCHANGED <<f_flags, Web!counts>>
         \/ /\ f_flags[i] = "F_CONNECTING" /\ f_flags' = [f_flags EXCEPT ![i] = "F_READING"]
            /\ UNCHANGED Web!counts
         \/ /\ f_flags[i] = "F_READING" /\ f_flags' = [f_flags EXCEPT ![i] = "F_DONE"]
            /\ Web!Collected /\ nlefttoconn' = nlefttoconn
  BY <1>1, <1>2 DEF Web!SelectScan
<1>4. FlagInv'
  BY <1>1, <1>3 DEF FlagInv, Web!Threaded, Web!Files
<1>5. CountInv'
  <2>1. CASE UNCHANGED <<f_flags, Web!counts>>
    <3>1. Flight' = Flight /\ Idle' = Idle
      BY <1>1, <2>1 DEF Flight, Idle, Fresh, Web!InFlight, Web!Threaded, Web!Files
    <3>2. QED
      BY <2>1, <3>1, CountKept
  <2>2. CASE /\ f_flags[i] = "F_CONNECTING" /\ f_flags' = [f_flags EXCEPT ![i] = "F_READING"]
             /\ UNCHANGED Web!counts
    <3>1. Flight' = Flight /\ Idle' = Idle
      BY <1>1, <1>2, <2>2 DEF Flight, Idle, Fresh, Web!InFlight, Web!Threaded, Web!Files
    <3>2. QED
      BY <2>2, <3>1, CountKept
  <2>3. CASE /\ f_flags[i] = "F_READING" /\ f_flags' = [f_flags EXCEPT ![i] = "F_DONE"]
             /\ Web!Collected /\ nlefttoconn' = nlefttoconn
    <3>1. i \in Flight /\ Flight' = Flight \ {i} /\ Idle' = Idle
      BY <1>1, <1>2, <2>3 DEF Flight, Idle, Fresh, Web!InFlight, Web!Threaded, Web!Files
    <3>2. QED
      BY <2>3, <3>1, CountCollected
  <2>4. QED
    BY <1>3, <2>1, <2>2, <2>3
<1>6. Web!TypeOK'
  <2>1. nconn' \in 0..maxnconn /\ nlefttoconn' \in 0..nfiles /\ nlefttoread' \in 0..nfiles
    <3>1. nlefttoread' \in {nlefttoread, nlefttoread - 1} /\ nconn' \in {nconn, nconn - 1}
      BY <1>3 DEF Web!Collected, Web!counts
    <3>2. QED
      BY <1>5, <3>1, CountTypes
  <2>2. f_flags' \in [Web!Files -> {"0", "F_CONNECTING", "F_READING", "F_DONE", "F_JOINED"}]
    BY <1>2, <1>3
  <2>3. i' \in 1..(nfiles + 1)
    BY <1>1, <1>3
  <2>4. QED
    BY <1>1, <1>3, <2>1, <2>2, <2>3 DEF Web!TypeOK, Web!Files
<1>7. QED
  BY <1>4, <1>5, <1>6 DEF WebInv

\* A thread writes the f_flags of its own file, and only values other than 0.
LEMMA WebThread ==
  ASSUME Web!WebClientAssumption, Web!TypeOK, FlagInv, CountInv, NEW f \in Web!Files, Web!Thread(f)
  PROVE  WebInv'
<1>1. /\ thread[f] \notin {"none", "joined"} /\ UNCHANGED <<prog, i, Web!counts, server, rs>>
      /\ thread' = thread \/ \E t \in {"write", "read", "count", "ended"} : thread' = [thread EXCEPT ![f] = t]
      /\ f_flags' = f_flags \/ \E g \in {"F_READING", "F_DONE"} : f_flags' = [f_flags EXCEPT ![f] = g]
      /\ pc \notin {"exit", "quit"} /\ (pc' = pc \/ (pc = "cond_wait" /\ pc' = "collect") \/ pc' = "quit")
      /\ ndone' \in Int
  BY DEF Web!Thread, Web!TcpConnect, Web!WriteGetCmd, Web!ReadToEof, Web!Count, Web!Fails, Web!Running, Web!Signalled, Web!TypeOK
<1>2. Web!Threaded
  BY <1>1 DEF FlagInv
<1>3. /\ f_flags \in [Web!Files -> {"0", "F_CONNECTING", "F_READING", "F_DONE", "F_JOINED"}]
      /\ thread \in [Web!Files -> {"none", "connect", "write", "read", "count", "ended", "joined"}]
  BY DEF Web!TypeOK
<1>4. Flight' = Flight /\ Idle' = Idle
  BY <1>1, <1>2, <1>3 DEF Flight, Idle, Fresh, Web!InFlight, Web!Threaded, Web!Files
<1>5. Web!TypeOK'
  <2>1. /\ f_flags' \in [Web!Files -> {"0", "F_CONNECTING", "F_READING", "F_DONE", "F_JOINED"}]
        /\ thread' \in [Web!Files -> {"none", "connect", "write", "read", "count", "ended", "joined"}]
    BY <1>1, <1>3
  <2>2. QED
    BY <1>1, <2>1 DEF Web!TypeOK, Web!counts, Web!Files
<1>6. FlagInv'
  BY <1>1, <1>2, <1>3 DEF FlagInv, Web!Threaded, Web!Files
<1>7. QED
  BY <1>1, <1>4, <1>5, <1>6, CountKept DEF WebInv

LEMMA WebStep ==
  ASSUME Web!WebClientAssumption, Web!ProgramsAssumption, WebInv, [Web!Next]_(Web!vars)
  PROVE  WebInv'
<1>0. Web!TypeOK /\ FlagInv /\ CountInv
  BY DEF WebInv
<1>1. CASE UNCHANGED <<prog, pc, i, f_flags, thread, Web!counts, ndone, rs>>
           /\ server' \in [Web!Files -> {"none", "syn", "up", "refused", "data", "eof"}]
  <2>1. Web!TypeOK' /\ FlagInv'
    BY <1>0, <1>1 DEF Web!TypeOK, FlagInv, Web!Threaded, Web!counts, Web!Files
  <2>2. Flight' = Flight /\ Idle' = Idle
    BY <1>1 DEF Flight, Idle, Fresh, Web!InFlight, Web!Threaded, Web!Files
  <2>3. QED
    BY <1>0, <1>1, <2>1, <2>2, CountKept DEF WebInv
<1>2. ASSUME NEW f \in Web!Files, Web!Serve(f) \/ Web!Refuse(f)
      PROVE  WebInv'
  BY <1>0, <1>1, <1>2 DEF Web!Serve, Web!Refuse, Web!TypeOK
<1>3. CASE UNCHANGED Web!vars
  BY <1>0, <1>1, <1>3 DEF Web!vars, Web!counts, Web!TypeOK
<1>4. QED
  BY <1>0, <1>2, <1>3, WebStart, WebStartConnected, WebMark, WebMoves, WebJoins, WebSelectScan,
     WebThread DEF Web!Next, Web!Main

LEMMA WebInvariance ==
  ASSUME Web!WebClientAssumption, Web!ProgramsAssumption
  PROVE  Web!Spec => []WebInv
<1>1. Web!Init => WebInv
  BY WebInit
<1>2. WebInv /\ [Web!Next]_(Web!vars) => WebInv'
  BY WebStep
<1>3. QED
  BY <1>1, <1>2, PTL DEF Web!Spec

-----------------------------------------------------------------------------
\* The variables of the web clients stay in their ranges: nconn within the
\* limit given on the command line, no counter below 0.
THEOREM WebTypeCorrect ==
  ASSUME Web!WebClientAssumption, Web!ProgramsAssumption
  PROVE  Web!Spec => []Web!TypeOK
<1>1. WebInv => Web!TypeOK
  BY DEF WebInv
<1>2. QED
  BY <1>1, WebInvariance, PTL

\* nconn, nlefttoconn and nlefttoread tell the truth about file[] whenever
\* main decides by them, for any number of files, connections and threads:
\* never more than maxnconn connections, and a file to start whenever
\* nlefttoconn says so.
THEOREM WebCountsAgree ==
  ASSUME Web!WebClientAssumption, Web!ProgramsAssumption
  PROVE  Web!Spec => []Web!CountsAgree
<1>1. WebInv => Web!CountsAgree
  <2> SUFFICES ASSUME WebInv, pc \in {"fill", "collect", "exit"}
               PROVE  /\ nconn = Cardinality({f \in Web!Files : Web!InFlight(f)}) /\ nconn <= maxnconn
                      /\ nlefttoconn = Cardinality(Web!Unstarted)
                      /\ nlefttoread = nlefttoconn + nconn
    BY WebCardinality DEF Web!CountsAgree
  <2>1. Web!TypeOK /\ FlagInv /\ CountInv
    BY DEF WebInv
  <2>2. Web!Unstarted = Idle
    BY <2>1 DEF FlagInv, Web!Unstarted, Idle, Fresh
  <2>3. nconn <= maxnconn
    BY <2>1 DEF Web!TypeOK, Web!WebClientAssumption
  <2>4. QED
    BY <2>1, <2>2, <2>3 DEF CountInv, Flight
<1>2. QED
  BY <1>1, WebInvariance, PTL

-----------------------------------------------------------------------------
(***************************************************************************)
(* The walks over an address list.  Whatever list getaddrinfo returned, a  *)
(* descriptor is open exactly from socket to close or to the return of the *)
(* function, and every address before res was passed with good reason; a   *)
(* client that calls the wrapper Socket has a list of one family.          *)
(***************************************************************************)
CONSTANT Cases
VARIABLES dns, stack, usable, list, res, open, early

Walk == INSTANCE AddrWalk

WalkTypes ==
    /\ pc \in [Walk!Procs -> {"getaddrinfo", "socket", "try", "close", "listen"} \cup Walk!Ends]
    /\ res \in [Walk!Procs -> Nat \ {0}] /\ open \in [Walk!Procs -> Int] /\ early \in BOOLEAN
    /\ list = [p \in Walk!Procs |-> list[p]]

CaseInv == \E c \in Cases : prog = c.prog /\ dns = c.dns /\ stack = c.stack /\ usable = c.usable

\* A descriptor is open from socket to Close, and when the walk returns it.
Holds(p) == pc[p] \in {"try", "close", "listen"} \/ (pc[p] = "done" /\ prog[p].then # "list")

DescInv ==
    \A p \in Walk!Procs :
        /\ open[p] = IF Holds(p) THEN 1 ELSE 0
        /\ pc[p] \in {"socket", "try", "close", "listen"} => prog[p].then # "list"

\* The client was right to give up on position j.
Passed(j) ==
    Walk!Serves(list["client"][j].addr) =>
        \/ list["client"][j].addr.family \notin stack["client"]
        \/ prog["client"].nosocket = "fatal" /\ list["client"][1].addr.family \notin stack["client"]

EarlyInv ==
    /\ early => pc["server"] = "done"
    /\ pc["client"] = "getaddrinfo" => res["client"] = 1 /\ ~early

PassedInv ==
    early /\ prog["client"].then = "connect" =>
        /\ \A j \in 1..(res["client"] - 1) : Passed(j)
        /\ pc["client"] = "close" => ~Walk!Serves(Walk!At("client"))
        /\ pc["client"] = "failed" => \A j \in 1..Len(list["client"]) : Passed(j)

\* A client that calls the wrapper Socket has a list of one family.
FamilyInv ==
    prog["client"].nosocket = "fatal" =>
        /\ Len(list["client"]) \in Nat
        /\ \A j, k \in 1..Len(list["client"]) :
              list["client"][j].addr.family = list["client"][k].addr.family
        /\ pc["client"] \in {"socket", "try", "close"} => res["client"] \in 1..Len(list["client"])

WalkInv == WalkTypes /\ CaseInv /\ DescInv /\ EarlyInv /\ PassedInv /\ FamilyInv

-----------------------------------------------------------------------------
LEMMA WalkProcs == Walk!Procs = {"server", "client"} /\ "server" \in Walk!Procs /\ "client" \in Walk!Procs
  BY DEF Walk!Procs

LEMMA WalkInit ==
  ASSUME Walk!Init
  PROVE  WalkInv
<1> USE DEF Walk!Init
<1>1. WalkTypes
  <2>1. list = [p \in Walk!Procs |-> list[p]]
    OBVIOUS
  <2>2. /\ pc \in [Walk!Procs -> {"getaddrinfo"}] /\ res \in [Walk!Procs -> {1}]
        /\ open \in [Walk!Procs -> {0}] /\ early \in BOOLEAN
    OBVIOUS
  <2>3. QED
    BY <2>1, <2>2 DEF WalkTypes
<1>2. CaseInv
  BY DEF CaseInv
<1>3. DescInv
  BY DEF DescInv, Holds
<1>4. EarlyInv /\ PassedInv
  BY WalkProcs DEF EarlyInv, PassedInv
<1>5. FamilyInv
  <2>1. list["client"] = <<>> /\ Len(list["client"]) = 0 /\ pc["client"] = "getaddrinfo"
    BY WalkProcs
  <2>2. QED
    BY <2>1 DEF FamilyInv
<1>6. QED
  BY <1>1, <1>2, <1>3, <1>4, <1>5 DEF WalkInv

\* A step of one process leaves the other where it was.
LEMMA WalkFrame ==
  ASSUME WalkTypes, NEW p \in Walk!Procs, Walk!Walk(p)
  PROVE  /\ WalkTypes' /\ UNCHANGED Walk!hostVars
         /\ pc[p] \in {"getaddrinfo", "socket", "try", "close", "listen"}
         /\ \A q \in Walk!Procs \ {p} : /\ pc'[q] = pc[q] /\ res'[q] = res[q]
                                        /\ list'[q] = list[q] /\ open'[q] = open[q]
         /\ early' # early => p = "client" /\ pc[p] = "getaddrinfo"
<1> USE WalkProcs
<1>1. CASE Walk!Getaddrinfo(p)
  BY <1>1 DEF Walk!Getaddrinfo, Walk!Goto, WalkTypes, Walk!Ends, Walk!hostVars
<1>2. CASE Walk!Socket(p)
  BY <1>2 DEF Walk!Socket, Walk!NoSocket, Walk!NextAddr, Walk!AfterSocket, Walk!Goto, WalkTypes, Walk!Ends, Walk!hostVars
<1>3. CASE Walk!Try(p)
  BY <1>3 DEF Walk!Try, Walk!AfterTry, Walk!Goto, WalkTypes, Walk!Ends, Walk!hostVars
<1>4. CASE Walk!Close(p)
  BY <1>4 DEF Walk!Close, Walk!OpenAfterClose, Walk!NextAddr, Walk!Goto, WalkTypes, Walk!Ends, Walk!hostVars
<1>5. CASE Walk!Listen(p)
  BY <1>5 DEF Walk!Listen, Walk!Goto, WalkTypes, Walk!Ends, Walk!hostVars
<1>6. QED
  BY <1>1, <1>2, <1>3, <1>4, <1>5 DEF Walk!Walk

LEMMA WalkCase ==
  ASSUME CaseInv, UNCHANGED Walk!hostVars
  PROVE  CaseInv'
  BY DEF CaseInv, Walk!hostVars

-----------------------------------------------------------------------------
(* The descriptor. *)

LEMMA WalkDesc ==
  ASSUME WalkTypes, DescInv, NEW p \in Walk!Procs, Walk!Walk(p)
  PROVE  DescInv'
<1>1. ASSUME NEW q \in Walk!Procs \ {p}
      PROVE  /\ open'[q] = IF Holds(q)' THEN 1 ELSE 0
             /\ pc'[q] \in {"socket", "try", "close", "listen"} => prog'[q].then # "list"
  <2>1. pc'[q] = pc[q] /\ open'[q] = open[q] /\ prog' = prog
    BY WalkFrame DEF Walk!hostVars
  <2>2. QED
    BY <2>1 DEF DescInv, Holds
<1>2. /\ open'[p] = IF Holds(p)' THEN 1 ELSE 0
      /\ pc'[p] \in {"socket", "try", "close", "listen"} => prog'[p].then # "list"
  <2>0. /\ prog' = prog /\ open \in [Walk!Procs -> Int] /\ DOMAIN pc = Walk!Procs
        /\ open[p] = IF Holds(p) THEN 1 ELSE 0
        /\ pc[p] \in {"socket", "try", "close", "listen"} => prog[p].then # "list"
    BY WalkFrame DEF Walk!hostVars, WalkTypes, DescInv
  <2>1. CASE Walk!Getaddrinfo(p)
    <3>1. /\ pc[p] = "getaddrinfo" /\ open' = open
          /\ \/ pc'[p] = "unresolved"
             \/ pc'[p] = "done" /\ prog[p].then = "list"
             \/ pc'[p] = "socket" /\ prog[p].then # "list"
      BY <2>0, <2>1 DEF Walk!Getaddrinfo, Walk!Goto
    <3>2. QED
      BY <2>0, <3>1 DEF Holds
  <2>2. CASE Walk!Socket(p)
    <3>1. /\ pc[p] = "socket" /\ open[p] = 0
          /\ \/ /\ open' = [open EXCEPT ![p] = @ + 1]
                /\ pc'[p] \in {"try", "done"}
             \/ open' = open /\ pc'[p] \in {"socket", "failed"}
      BY <2>0, <2>2 DEF Walk!Socket, Walk!NoSocket, Walk!NextAddr, Walk!AfterSocket, Walk!Goto, Holds
    <3>2. open'[p] = IF pc'[p] \in {"try", "done"} THEN 1 ELSE 0
      BY <2>0, <3>1
    <3>3. QED
      BY <2>0, <3>1, <3>2 DEF Holds
  <2>3. CASE Walk!Try(p)
    <3>1. pc[p] = "try" /\ open' = open /\ pc'[p] \in {"close", "listen", "done"}
      BY <2>0, <2>3 DEF Walk!Try, Walk!AfterTry, Walk!Goto
    <3>2. QED
      BY <2>0, <3>1 DEF Holds
  <2>4. CASE Walk!Close(p)
    <3>1. /\ pc[p] = "close" /\ open[p] = 1 /\ open' = [open EXCEPT ![p] = @ - 1]
          /\ pc'[p] \in {"socket", "failed"}
      BY <2>0, <2>4 DEF Walk!Close, Walk!OpenAfterClose, Walk!NextAddr, Walk!Goto, Holds
    <3>2. open'[p] = 0
      BY <2>0, <3>1
    <3>3. QED
      BY <2>0, <3>1, <3>2 DEF Holds
  <2>5. CASE Walk!Listen(p)
    <3>1. pc[p] = "listen" /\ open' = open /\ pc'[p] = "done"
      BY <2>0, <2>5 DEF Walk!Listen, Walk!Goto
    <3>2. QED
      BY <2>0, <3>1 DEF Holds
  <2>6. QED
    BY <2>1, <2>2, <2>3, <2>4, <2>5 DEF Walk!Walk
<1>3. QED
  BY <1>1, <1>2 DEF DescInv

-----------------------------------------------------------------------------
(* What the client has passed. *)

\* What a server serves does not change while it stays where it is.
LEMMA ServesKept ==
  ASSUME pc'["server"] = pc["server"], prog' = prog,
         list'["server"] = list["server"], res'["server"] = res["server"]
  PROVE  \A a : Walk!Serves(a)' <=> Walk!Serves(a)
  BY DEF Walk!Serves, Walk!At

\* gethostbyname and inet_pton give addresses of one family.
LEMMA ByHandFamily ==
  ASSUME Walk!WalkAssumption, CaseInv, NEW p \in Walk!Procs, prog[p].nosocket = "fatal"
  PROVE  LET r == Walk!Resolve(prog[p]) IN
            /\ Len(r.list) \in Nat
            /\ r.err = "none" => Len(r.list) # 0
            /\ \A j, k \in 1..Len(r.list) : r.list[j].addr.family = r.list[k].addr.family
<1> DEFINE c == prog[p]
           addrs == IF c.by = "gethostbyname" /\ c.host = "name" THEN dns["inet"]
                    ELSE <<Walk!Addr(c.family, IF c.family = "local" THEN "path" ELSE "host")>>
<1>1. c.by \in {"gethostbyname", "inet_pton"} /\ dns["inet"] \in Seq([family : {"inet"}, id : STRING])
  <2>1. PICK d \in Cases : prog = d.prog /\ dns = d.dns
    BY DEF CaseInv
  <2>2. /\ \A f \in {"inet", "inet6"} : d.dns[f] \in Seq([family : {f}, id : STRING])
        /\ \A q \in Walk!Procs : d.prog[q].nosocket = "fatal" => d.prog[q].by \in {"gethostbyname", "inet_pton"}
    BY <2>1 DEF Walk!WalkAssumption
  <2>3. QED
    BY <2>1, <2>2
<1>2. Walk!Resolve(c) = Walk!ByHand(c)
  BY <1>1 DEF Walk!Resolve
<1>3. /\ Len(addrs) \in Nat /\ (addrs # <<>> => Len(addrs) # 0)
      /\ \A j, k \in 1..Len(addrs) : addrs[j].family = addrs[k].family
  <2>1. CASE c.by = "gethostbyname" /\ c.host = "name"
    <3>1. addrs = dns["inet"]
      BY <2>1
    <3>2. \A j \in 1..Len(dns["inet"]) : dns["inet"][j] \in [family : {"inet"}, id : STRING]
      <4>1. \A S : \A s \in Seq(S) : \A j \in 1..Len(s) : s[j] \in S
        OBVIOUS
      <4>2. QED
        BY <1>1, <4>1, Zenon
    <3>3. Len(dns["inet"]) \in Nat /\ (dns["inet"] # <<>> => Len(dns["inet"]) # 0)
      <4>1. \A S : \A s \in Seq(S) : Len(s) \in Nat /\ (s # <<>> => Len(s) # 0)
        OBVIOUS
      <4>2. QED
        BY <1>1, <4>1, Zenon
    <3>4. QED
      BY <3>1, <3>2, <3>3
  <2>2. CASE ~(c.by = "gethostbyname" /\ c.host = "name")
    <3>1. addrs = <<Walk!Addr(c.family, IF c.family = "local" THEN "path" ELSE "host")>>
      BY <2>2
    <3>2. Len(addrs) = 1
      BY <3>1
    <3>3. QED
      BY <3>2
  <2>3. QED
    BY <2>1, <2>2
<1>4. Walk!ByHand(c) = IF addrs = <<>> \/ c.serv = "unknown" THEN Walk!Error("err_quit")
                  ELSE Walk!Returns(Walk!AiList(c, addrs))
  BY DEF Walk!ByHand
<1> HIDE DEF addrs, c
<1>5. CASE addrs = <<>> \/ c.serv = "unknown"
  <2>1. Walk!Resolve(c).list = <<>> /\ Walk!Resolve(c).err = "err_quit"
    BY <1>2, <1>4, <1>5 DEF Walk!Error
  <2>2. QED
    BY <2>1 DEF c
<1>6. CASE ~(addrs = <<>> \/ c.serv = "unknown")
  <2>1. Walk!Resolve(c).list = Walk!AiList(c, addrs)
    BY <1>2, <1>4, <1>6 DEF Walk!Returns
  <2>2. Len(Walk!AiList(c, addrs)) = Len(addrs)
    BY <1>3 DEF Walk!AiList
  <2>3. \A j \in 1..Len(addrs) : Walk!AiList(c, addrs)[j].addr = addrs[j]
    BY DEF Walk!AiList, Walk!ga_aistruct
  <2>4. QED
    BY <1>3, <1>6, <2>1, <2>2, <2>3 DEF c
<1>7. QED
  BY <1>5, <1>6

LEMMA WalkEarly ==
  ASSUME WalkTypes, EarlyInv, NEW p \in Walk!Procs, Walk!Walk(p)
  PROVE  EarlyInv'
<1> USE WalkProcs
<1>1. CASE p = "server"
  <2>1. pc["server"] # "done" /\ ~early
    BY <1>1, WalkFrame DEF EarlyInv
  <2>2. early' = early /\ pc'["client"] = pc["client"] /\ res'["client"] = res["client"]
    BY <1>1, WalkFrame
  <2>3. QED
    BY <2>1, <2>2 DEF EarlyInv
<1>2. CASE p = "client"
  <2>1. pc'["server"] = pc["server"]
    BY <1>2, WalkFrame
  <2>2. pc'["client"] # "getaddrinfo"
    BY <1>2 DEF Walk!Walk, Walk!Getaddrinfo, Walk!Socket, Walk!NoSocket, Walk!NextAddr, Walk!AfterSocket, Walk!Try, Walk!AfterTry, Walk!Close, Walk!Listen, Walk!Goto, WalkTypes
  <2>3. early' => pc["server"] = "done"
    <3>1. CASE Walk!Getaddrinfo("client")
      BY <3>1 DEF Walk!Getaddrinfo
    <3>2. CASE ~Walk!Getaddrinfo("client")
      BY <1>2, <3>2 DEF Walk!Walk, Walk!Socket, Walk!Try, Walk!Close, Walk!Listen, EarlyInv
    <3>3. QED
      BY <3>1, <3>2
  <2>4. QED
    BY <2>1, <2>2, <2>3 DEF EarlyInv
<1>3. QED
  BY <1>1, <1>2

LEMMA WalkFamily ==
  ASSUME Walk!WalkAssumption, WalkTypes, CaseInv, EarlyInv, FamilyInv, NEW p \in Walk!Procs, Walk!Walk(p)
  PROVE  FamilyInv'
<1> USE WalkProcs
<1>0. prog' = prog
  BY WalkFrame DEF Walk!hostVars
<1> SUFFICES ASSUME prog["client"].nosocket = "fatal"
             PROVE  /\ Len(list'["client"]) \in Nat
                    /\ \A j, k \in 1..Len(list'["client"]) :
                          list'["client"][j].addr.family = list'["client"][k].addr.family
                    /\ pc'["client"] \in {"socket", "try", "close"} => res'["client"] \in 1..Len(list'["client"])
  BY <1>0 DEF FamilyInv
<1>1. /\ Len(list["client"]) \in Nat
      /\ \A j, k \in 1..Len(list["client"]) :
            list["client"][j].addr.family = list["client"][k].addr.family
      /\ pc["client"] \in {"socket", "try", "close"} => res["client"] \in 1..Len(list["client"])
  BY DEF FamilyInv
<1>2. CASE p = "server"
  <2>1. pc'["client"] = pc["client"] /\ res'["client"] = res["client"] /\ list'["client"] = list["client"]
    BY <1>2, WalkFrame
  <2>2. QED
    BY <1>1, <2>1
<1>3. CASE p = "client" /\ Walk!Getaddrinfo("client")
  <2> DEFINE r == Walk!Resolve(prog["client"])
  <2>1. /\ list'["client"] = r.list /\ res'["client"] = 1
        /\ pc'["client"] = "socket" => r.err = "none"
        /\ pc'["client"] \in {"unresolved", "done", "socket"}
    BY <1>3 DEF Walk!Getaddrinfo, Walk!Goto, WalkTypes, EarlyInv
  <2>2. /\ Len(r.list) \in Nat
        /\ r.err = "none" => Len(r.list) # 0
        /\ \A j, k \in 1..Len(r.list) : r.list[j].addr.family = r.list[k].addr.family
    BY ByHandFamily
  <2> HIDE DEF r
  <2>3. r.err = "none" => 1 \in 1..Len(r.list)
    BY <2>2
  <2>4. QED
    BY <2>1, <2>2, <2>3
<1>4. CASE p = "client" /\ ~Walk!Getaddrinfo("client")
  <2>1. list' = list
    BY <1>4 DEF Walk!Walk, Walk!Socket, Walk!Try, Walk!Close, Walk!Listen
  <2>2. CASE res'["client"] = res["client"]
    <3>1. pc'["client"] \in {"socket", "try", "close"} => pc["client"] \in {"socket", "try", "close"}
      BY <1>4, <2>2 DEF Walk!Walk, Walk!Socket, Walk!NoSocket, Walk!NextAddr, Walk!AfterSocket, Walk!Try, Walk!AfterTry, Walk!Close, Walk!Listen, Walk!Goto, WalkTypes
    <3>2. QED
      BY <1>1, <2>1, <2>2, <3>1
  <2>3. CASE res'["client"] # res["client"]
    <3>1. /\ pc["client"] \in {"socket", "close"} /\ res["client"] # Len(list["client"])
          /\ res'["client"] = res["client"] + 1
      BY <1>4, <2>3 DEF Walk!Walk, Walk!Socket, Walk!NoSocket, Walk!NextAddr, Walk!Try, Walk!Close, Walk!Listen, WalkTypes
    <3>2. res["client"] + 1 \in 1..Len(list["client"])
      BY <1>1, <3>1
    <3>3. QED
      BY <1>1, <2>1, <3>1, <3>2
  <2>4. QED
    BY <2>2, <2>3
<1>5. QED
  BY <1>2, <1>3, <1>4

\* The client goes on to the next address only from one it was right to pass.
LEMMA WalkPassed ==
  ASSUME WalkTypes, EarlyInv, PassedInv, FamilyInv, NEW p \in Walk!Procs, Walk!Walk(p)
  PROVE  PassedInv'
<1> USE WalkProcs
<1>0. prog' = prog /\ stack' = stack
  BY WalkFrame DEF Walk!hostVars
<1> SUFFICES ASSUME early', prog["client"].then = "connect"
             PROVE  /\ \A j \in 1..(res'["client"] - 1) : Passed(j)'
                    /\ pc'["client"] = "close" => ~Walk!Serves(Walk!At("client"))'
                    /\ pc'["client"] = "failed" => \A j \in 1..Len(list'["client"]) : Passed(j)'
  BY <1>0 DEF PassedInv
<1>1. p = "client"
  <2> SUFFICES ASSUME p = "server"
               PROVE  FALSE
    OBVIOUS
  <2>1. early /\ pc["server"] # "done"
    BY WalkFrame
  <2>2. QED
    BY <2>1 DEF EarlyInv
<1>2. \A a : Walk!Serves(a)' <=> Walk!Serves(a)
  BY <1>0, <1>1, WalkFrame, ServesKept
<1>3. CASE Walk!Getaddrinfo("client")
  <2>1. res'["client"] = 1 /\ pc'["client"] \in {"unresolved", "done", "socket"}
    BY <1>3 DEF Walk!Getaddrinfo, Walk!Goto, WalkTypes, EarlyInv
  <2>2. QED
    BY <2>1
<1>4. CASE ~Walk!Getaddrinfo("client")
  <2>1. list' = list /\ early
    BY <1>1, <1>4 DEF Walk!Walk, Walk!Socket, Walk!Try, Walk!Close, Walk!Listen
  <2>2. \A j : Passed(j)' <=> Passed(j)
    BY <1>0, <1>2, <2>1 DEF Passed
  <2>3. /\ \A j \in 1..(res["client"] - 1) : Passed(j)
        /\ pc["client"] = "close" => ~Walk!Serves(Walk!At("client"))
    BY <2>1 DEF PassedInv
  <2>4. CASE ~(Walk!Socket("client") \/ Walk!Close("client"))
    <3>1. /\ res' = res /\ pc'["client"] \in {"done", "listen", "close"}
          /\ pc'["client"] = "close" => ~Walk!Serves(Walk!At("client"))
      BY <1>1, <1>4, <2>4 DEF Walk!Walk, Walk!Try, Walk!AfterTry, Walk!ConnectWorks, Walk!Listen, Walk!Goto, WalkTypes
    <3>2. Walk!Serves(Walk!At("client"))' <=> Walk!Serves(Walk!At("client"))
      BY <1>2, <2>1, <3>1 DEF Walk!At
    <3>3. QED
      BY <2>2, <2>3, <3>1, <3>2
  <2>5. ASSUME Passed(res["client"]), Walk!NextAddr("client")
        PROVE  /\ \A j \in 1..(res'["client"] - 1) : Passed(j)
               /\ pc'["client"] \in {"socket", "failed"}
               /\ pc'["client"] = "failed" => \A j \in 1..Len(list["client"]) : Passed(j)
    <3>1. res["client"] \in Nat \ {0}
      BY DEF WalkTypes
    <3>2. \A j \in 1..res["client"] : Passed(j)
      <4>1. \A j \in 1..res["client"] : j \in 1..(res["client"] - 1) \/ j = res["client"]
        BY <3>1
      <4>2. QED
        BY <2>3, <2>5, <4>1
    <3>3. CASE res["client"] = Len(list["client"])
      BY <2>3, <2>5, <3>2, <3>3 DEF Walk!NextAddr, Walk!Goto, WalkTypes
    <3>4. CASE res["client"] # Len(list["client"])
      <4>1. res'["client"] = res["client"] + 1 /\ pc'["client"] = "socket"
        BY <2>5, <3>4 DEF Walk!NextAddr, Walk!Goto, WalkTypes
      <4>2. res'["client"] - 1 = res["client"]
        BY <3>1, <4>1
      <4>3. \A j \in 1..(res'["client"] - 1) : Passed(j)
        BY <3>2, <4>2, Zenon
      <4>4. QED
        BY <4>1, <4>3
    <3>5. QED
      BY <3>3, <3>4
  <2>6. CASE Walk!Close("client")
    <3>1. Walk!NextAddr("client") /\ pc["client"] = "close"
      BY <2>6 DEF Walk!Close
    <3>2. Passed(res["client"])
      BY <2>3, <3>1 DEF Passed, Walk!At
    <3>3. QED
      BY <2>1, <2>2, <2>5, <3>1, <3>2
  <2>7. CASE Walk!Socket("client") /\ Walk!At("client").family \in stack["client"]
    <3>1. res' = res /\ pc'["client"] \in {"done", "try"}
      BY <2>7 DEF Walk!Socket, Walk!AfterSocket, Walk!Goto, WalkTypes
    <3>2. QED
      BY <2>2, <2>3, <3>1
  <2>8. CASE Walk!Socket("client") /\ Walk!At("client").family \notin stack["client"]
    <3>1. Passed(res["client"])
      BY <2>8 DEF Passed, Walk!At
    <3>2. CASE prog["client"].nosocket # "fatal"
      <4>1. Walk!NextAddr("client")
        BY <2>8, <3>2 DEF Walk!Socket, Walk!NoSocket
      <4>2. QED
        BY <2>1, <2>2, <2>5, <3>1, <4>1
    <3>3. CASE prog["client"].nosocket = "fatal"
      <4>1. pc["client"] = "socket" /\ pc'["client"] = "failed" /\ res' = res
        BY <2>8, <3>3 DEF Walk!Socket, Walk!NoSocket, Walk!Goto, WalkTypes
      <4>2. /\ Len(list["client"]) \in Nat /\ res["client"] \in 1..Len(list["client"])
            /\ \A j, k \in 1..Len(list["client"]) :
                  list["client"][j].addr.family = list["client"][k].addr.family
        BY <3>3, <4>1 DEF FamilyInv
      <4>3. \A j \in 1..Len(list["client"]) : list["client"][j].addr.family \notin stack["client"]
        BY <2>8, <4>2 DEF Walk!At
      <4>4. \A j \in 1..Len(list["client"]) : Passed(j)
        BY <4>3 DEF Passed
      <4>5. QED
        BY <2>1, <2>2, <2>3, <4>1, <4>4
    <3>4. QED
      BY <3>2, <3>3
  <2>9. QED
    BY <2>4, <2>6, <2>7, <2>8
<1>5. QED
  BY <1>3, <1>4

LEMMA WalkStep ==
  ASSUME Walk!WalkAssumption, WalkInv, [Walk!Next]_(Walk!vars)
  PROVE  WalkInv'
<1>0. WalkTypes /\ CaseInv /\ DescInv /\ EarlyInv /\ PassedInv /\ FamilyInv
  BY DEF WalkInv
<1>1. CASE UNCHANGED Walk!vars
  <2> USE <1>1 DEF Walk!vars, Walk!hostVars
  <2>1. WalkTypes' /\ CaseInv' /\ DescInv'
    BY <1>0 DEF WalkTypes, CaseInv, DescInv, Holds
  <2>2. EarlyInv' /\ FamilyInv'
    BY <1>0 DEF EarlyInv, FamilyInv
  <2>3. \A a : Walk!Serves(a)' <=> Walk!Serves(a)
    BY ServesKept
  <2>4. (\A j : Passed(j)' <=> Passed(j)) /\ (Walk!Serves(Walk!At("client"))' <=> Walk!Serves(Walk!At("client")))
    BY <2>3 DEF Passed, Walk!At
  <2>5. PassedInv'
    BY <1>0, <2>4 DEF PassedInv
  <2>6. QED
    BY <2>1, <2>2, <2>5 DEF WalkInv
<1>2. ASSUME NEW p \in Walk!Procs, Walk!Walk(p)
      PROVE  WalkInv'
  <2>1. WalkTypes' /\ UNCHANGED Walk!hostVars
    BY <1>0, <1>2, WalkFrame
  <2>2. CaseInv' /\ DescInv'
    BY <1>0, <1>2, <2>1, WalkCase, WalkDesc
  <2>3. EarlyInv' /\ PassedInv' /\ FamilyInv'
    BY <1>0, <1>2, WalkEarly, WalkPassed, WalkFamily
  <2>4. QED
    BY <2>1, <2>2, <2>3 DEF WalkInv
<1>3. QED
  BY <1>1, <1>2 DEF Walk!Next, Walk!Ended

LEMMA WalkInvariance ==
  ASSUME Walk!WalkAssumption
  PROVE  Walk!Spec => []WalkInv
<1>1. Walk!Init => WalkInv
  BY WalkInit
<1>2. WalkInv /\ [Walk!Next]_(Walk!vars) => WalkInv'
  BY WalkStep
<1>3. QED
  BY <1>1, <1>2, PTL DEF Walk!Spec

-----------------------------------------------------------------------------
\* A walk holds at most one descriptor, whatever fails on the way, and returns
\* with exactly one: for every list getaddrinfo may return.
THEOREM WalkOneDescriptor ==
  ASSUME Walk!WalkAssumption
  PROVE  Walk!Spec => []Walk!OneDescriptor
<1>1. WalkInv => Walk!OneDescriptor
  BY DEF WalkInv, DescInv, Holds, Walk!OneDescriptor
<1>2. QED
  BY <1>1, WalkInvariance, PTL

\* A TCP client that starts after the server listens fails only if no address
\* on its list is one of the server's that its host can make a socket for:
\* for every list getaddrinfo may return and every combination of families.
THEOREM WalkServerFound ==
  ASSUME Walk!WalkAssumption
  PROVE  Walk!Spec => []Walk!ServerFound
<1>1. WalkInv => Walk!ServerFound
  BY DEF WalkInv, PassedInv, Passed, Walk!ServerFound
<1>2. QED
  BY <1>1, WalkInvariance, PTL
=============================================================================
