-------------------------- MODULE EchoSessionProofs --------------------------
(***************************************************************************)
(* Deadlock freedom and end-to-end correctness of the echo session, for    *)
(* every buffer size that satisfies the assumptions of EchoSession.        *)
(*                                                                         *)
(* The argument is a budget.  InFlight counts the bytes between the two    *)
(* Writen loops.  Only the client's Writen adds to it, and before it does, *)
(* the client either drained its receive buffer (or found it empty), or    *)
(* took a full MAXLINE out of it.  In both cases a MAXLINE of the budget   *)
(* is free when fp is read.                                                *)
(***************************************************************************)
EXTENDS EchoSession, TLAPS

InFlight == up + sbuf + dsnd + drcv

Budget == UpCap + SndCap + RcvCap + 1

\* The control points and what they say about the application buffers.
PcInv ==
    /\ cpc \in {"select", "sock", "fp", "normal"} => cbuf = 0
    /\ cpc = "write" => cbuf > 0
    /\ spc # "write" => sbuf = 0
    /\ spc = "write" => sbuf > 0

BudgetInv ==
    /\ InFlight + cbuf <= Budget
    /\ (cpc = "fp" \/ (cpc = "sock" /\ "sock" \notin rset))
          => InFlight + MAXLINE <= Budget

\* The client has ended while the server may be alive.
ClientGone == cpc \in {"fp_error", "killed"}

\* No byte is invented, and none is lost while both ends live.
ConserveInv ==
    /\ left + typed + got = Total
    /\ out + InFlight + cbuf <= got
    /\ (spc # "dead" /\ ~ClientGone) => out + InFlight + cbuf = got

\* The order in which the two directions close.
CloseInv ==
    /\ stdineof => upFin
    /\ upFin => stdineof \/ cpc \in ClientEnds
    /\ stdineof => cpc # "write" /\ "fp" \notin rset
    /\ spc = "exit" => up = 0 /\ upFin
    /\ (srst \/ spc = "err_sys") => ClientGone
    /\ dfin # "none" => spc \in {"exit", "dead"}
    /\ dfin = "arrived" => dsnd = 0
    /\ rst => spc = "dead"
    /\ cpc = "normal" => spc \in {"exit", "dead"}
    /\ cpc = "normal" => spc = "dead" \/ out = got
    /\ cpc \in ServerLost => spc = "dead"

IInv == TypeOK /\ PcInv /\ BudgetInv /\ ConserveInv /\ CloseInv

-----------------------------------------------------------------------------
USE SizesAssumption, RcvCapAssumption
    DEF userVars, clientVars, netVars, serverVars, vars, Fds, Min,
        ServerLost, ClientEnds, ClientSteps, ServerSteps, ServerEnds,
        SockBytes, AfterSockEof, AfterFpEof, UpLeft, AfterReadError, ClientGone

LEMMA InitIInv == Init => IInv
<1> SUFFICES ASSUME Init
             PROVE  IInv
  OBVIOUS
<1> USE DEF Init
<1>1. TypeOK
  <2>1. /\ left \in 0..Total /\ typed \in 0..Total /\ got \in 0..Total /\ out \in 0..Total
        /\ cbuf \in 0..MAXLINE /\ sbuf \in 0..MAXLINE
        /\ up \in 0..UpCap /\ dsnd \in 0..SndCap /\ drcv \in 0..RcvCap
    OBVIOUS
  <2>2. userEof \in BOOLEAN /\ stdineof \in BOOLEAN /\ upFin \in BOOLEAN /\ rst \in BOOLEAN
        /\ srst \in BOOLEAN
    BY Zenon
  <2>3. rset \in SUBSET Fds
    BY Zenon
  <2>4. QED
    BY <2>1, <2>2, <2>3, Zenon DEF TypeOK
<1>2. PcInv
  BY DEF PcInv
<1>3. BudgetInv /\ ConserveInv
  BY DEF BudgetInv, ConserveInv, InFlight, Budget
<1>4. CloseInv
  BY DEF CloseInv
<1>5. QED
  BY <1>1, <1>2, <1>3, <1>4 DEF IInv

\* Every step of the session, of whichever actor, preserves the invariant.
LEMMA StepIInv == IInv /\ [Next]_vars => IInv'
<1> SUFFICES ASSUME IInv, [Next]_vars
             PROVE  IInv'
  OBVIOUS
<1> USE DEF IInv, TypeOK, PcInv, BudgetInv, ConserveInv, CloseInv, InFlight, Budget
<1>1. CASE Type
  BY <1>1 DEF Type
<1>2. CASE CloseStdin
  BY <1>2 DEF CloseStdin
<1>3. CASE Select
  BY <1>3 DEF Select, SockReadable, FpReadable
<1>4. CASE SkipSock
  BY <1>4 DEF SkipSock
<1>5. CASE ReadSock
  BY <1>5 DEF ReadSock
<1>6. CASE SockEof
  <2>1. TypeOK' /\ PcInv'
    BY <1>6 DEF SockEof
  <2>2. BudgetInv' /\ ConserveInv'
    BY <1>6 DEF SockEof
  <2>3. CloseInv'
    BY <1>6 DEF SockEof
  <2>4. QED
    BY <2>1, <2>2, <2>3
<1>7. CASE SockReset
  BY <1>7 DEF SockReset
<1>8. CASE SkipFp
  BY <1>8 DEF SkipFp
<1>9. CASE ReadFp
  BY <1>9 DEF ReadFp
<1>10. CASE FpEof
  BY <1>10 DEF FpEof
<1>11. CASE WriteSock
  <2>1. PICK k \in 1..Min(cbuf, UpCap - up) :
          /\ up' = up + k
          /\ cbuf' = cbuf - k
          /\ cpc' = IF k = cbuf THEN "select" ELSE "write"
    BY <1>11 DEF WriteSock
  <2>2. TypeOK' /\ PcInv'
    BY <1>11, <2>1 DEF WriteSock
  <2>3. BudgetInv' /\ ConserveInv'
    BY <1>11, <2>1 DEF WriteSock
  <2>4. CloseInv'
    <3>1. cpc' \in {"select", "write"} /\ cpc \notin ClientEnds /\ ~ClientGone /\ ~stdineof
      BY <1>11, <2>1 DEF WriteSock
    <3>2. spc # "exit" \/ up' = up
      BY <1>11, <2>1, <3>1 DEF WriteSock
    <3>3. QED
      BY <1>11, <3>1, <3>2 DEF WriteSock
  <2>5. QED
    BY <2>2, <2>3, <2>4
<1>12. CASE WriteReset
  BY <1>12 DEF WriteReset
<1>13. CASE EchoRead
  BY <1>13 DEF EchoRead
<1>14. CASE EchoEof
  BY <1>14 DEF EchoEof
<1>15. CASE EchoWrite
  BY <1>15 DEF EchoWrite
<1>23. CASE EchoReadError
  BY <1>23 DEF EchoReadError
<1>24. CASE EchoWriteError
  BY <1>24 DEF EchoWriteError
<1>25. CASE Interrupt
  BY <1>25 DEF Interrupt
<1>26. CASE ExitFin
  BY <1>26 DEF ExitFin
<1>27. CASE ExitReset
  <2>1. PICK n \in 0..up : up' = n
    BY <1>27 DEF ExitReset
  <2>2. TypeOK' /\ PcInv'
    BY <1>27, <2>1 DEF ExitReset
  <2>3. ClientGone /\ ClientGone'
    BY <1>27 DEF ExitReset
  <2>4. BudgetInv'
    BY <1>27, <2>1, <2>3 DEF ExitReset
  <2>5. ConserveInv'
    BY <1>27, <2>1, <2>3 DEF ExitReset
  <2>6. CloseInv'
    BY <1>27, <2>1, <2>3 DEF ExitReset
  <2>7. QED
    BY <2>2, <2>4, <2>5, <2>6
<1>16. CASE Die
  BY <1>16 DEF Die
<1>17. CASE Carry
  BY <1>17 DEF Carry
<1>18. CASE CarryFin
  BY <1>18 DEF CarryFin
<1>19. CASE PeerReset
  BY <1>19 DEF PeerReset
<1>20. CASE Terminated
  BY <1>20 DEF Terminated
<1>21. CASE UNCHANGED vars
  BY <1>21
<1>22. QED
  BY <1>1, <1>2, <1>3, <1>4, <1>5, <1>6, <1>7, <1>8, <1>9, <1>10, <1>11, <1>12, <1>13, <1>14, <1>15, <1>16, <1>17, <1>18, <1>19, <1>20, <1>21, <1>23,
     <1>24, <1>25, <1>26, <1>27
     DEF Next, Client, Server, Network

LEMMA Invariance == Spec => []IInv
  BY InitIInv, StepIInv, PTL DEF Spec

\* Every counter stays within the buffer it counts, the application
\* variables within the total the user typed.
THEOREM TypeCorrect == Spec => []TypeOK
<1>1. IInv => TypeOK
  BY DEF IInv
<1>2. QED
  BY <1>1, Invariance, PTL

\* The client and the server child never block each other for good in their
\* Writen calls, for all buffer sizes within RcvCapAssumption.
THEOREM DeadlockFree == Spec => []NoMutualBlock
<1>1. IInv => NoMutualBlock
  BY DEF IInv, TypeOK, PcInv, BudgetInv, InFlight, Budget, NoMutualBlock,
         ClientBlocked, ServerBlocked
<1>2. QED
  BY <1>1, Invariance, PTL

\* A client that gives up has really lost its server.
THEOREM AbnormalOnlyIfDead == Spec => []AbnormalMeansDead
<1>1. IInv => AbnormalMeansDead
  BY DEF IInv, CloseInv, AbnormalMeansDead
<1>2. QED
  BY <1>1, Invariance, PTL

\* "normal termination" in str_cli_select02 means that every byte came back,
\* if the server was not killed.
THEOREM NormalEchoed == Spec => []NormalMeansEchoed
<1>1. IInv => NormalMeansEchoed
  BY DEF IInv, CloseInv, NormalMeansEchoed
<1>2. QED
  BY <1>1, Invariance, PTL

\* The session implements EchoService, whatever happens to the server and to
\* standard input.
THEOREM Refinement == Spec => EchoRefinement
<1>1. Init => Echo!Init
  BY DEF Init, Echo!Init, Done
<1>2. IInv /\ IInv' /\ [Next]_vars => [Echo!Next]_<<got, out, Done>>
  <2> SUFFICES ASSUME IInv, IInv', [Next]_vars
               PROVE  [Echo!Next]_<<got, out, Done>>
    OBVIOUS
  <2> USE DEF IInv, TypeOK, Done
  <2>1. CASE ReadFp
    BY <2>1 DEF ReadFp, Echo!Next, Echo!Accept
  <2>2. CASE ReadSock
    BY <2>2 DEF ReadSock, ConserveInv, InFlight, Echo!Next, Echo!Deliver
  <2>3. CASE SockEof
    BY <2>3 DEF SockEof, CloseInv, Echo!Next, Echo!Finish
  <2>4. CASE WriteSock
    BY <2>4 DEF WriteSock
  <2>5. CASE Type \/ CloseStdin \/ Interrupt \/ Server \/ Die \/ Network \/ Terminated
    BY <2>5 DEF Type, CloseStdin, Interrupt, Server, EchoRead, EchoEof, EchoReadError,
                EchoWrite, EchoWriteError, Die, Network, Carry, CarryFin, PeerReset,
                ExitFin, ExitReset, Terminated, CloseInv
  <2>6. CASE Select \/ SkipSock \/ SockReset \/ SkipFp \/ FpEof \/ WriteReset
    BY <2>6 DEF Select, SkipSock, SockReset, SkipFp, FpEof, WriteReset
  <2>7. CASE UNCHANGED vars
    BY <2>7
  <2>8. QED
    BY <2>1, <2>2, <2>3, <2>4, <2>5, <2>6, <2>7 DEF Next, Client
<1>3. QED
  BY <1>1, <1>2, Invariance, PTL DEF Spec, EchoRefinement, Echo!Spec
=============================================================================
