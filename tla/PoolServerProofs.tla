--------------------------- MODULE PoolServerProofs ---------------------------
(***************************************************************************)
(* The pool servers, for every number of workers and every size of the     *)
(* ring: sig_int of the preforking servers signals its own children only,  *)
(* and the ring of serv08 holds the connections accepted and not taken, in *)
(* order.                                                                  *)
(*                                                                         *)
(* The fork loop fills pids[] from the front and SIGINT is caught only     *)
(* after it, so pids[k] is child k whenever sig_int runs; nobody is waited *)
(* for before the loop of kill has ended.  Of serv08's connections some    *)
(* prefix 1..t has been taken, the next ones are in the ring in order, and *)
(* the last one may be in main's hand.                                     *)
(***************************************************************************)
EXTENDS PoolServer, FiniteSetTheorems, WellFoundedInduction, TLAPS

\* What a worker of each loop can be doing.
LoopStates ==
    IF Loop.intake = "lock" THEN {"lock", "accept", "unlock", "serve"}
    ELSE IF Loop.intake = "select" THEN {"select", "accept", "serve"}
    ELSE IF Loop.intake = "accept" THEN {"accept", "serve"}
    ELSE IF Loop.intake = "read_fd" THEN {"read_fd", "ready", "serve"}
    ELSE {"get", "cond_wait", "woken", "serve"}

WorkerInv ==
    /\ \A k \in Kids : child[k] \in LoopStates \cup {"none", "zombie", "collected"}
    /\ pc \in {"select", "pass", "scan"} => Loop.intake = "read_fd"
    /\ pc = "put" => Loop.intake = "get"
    /\ pc = "accept" => Loop.intake \in {"read_fd", "get"}
    /\ Threads /\ ~Live => \A k \in Kids : child[k] \notin Working
    /\ pc \in {"kill", "wait"} => ~Threads

\* pids[] and the children.
PidsInv ==
    /\ pc = "fork" => /\ \A k \in Kids : pids[k] = IF k < i THEN k ELSE 0
                      /\ \A k \in Kids : (k >= i) <=> (child[k] = "none")
    /\ pc \notin {"fork", "done", "killed"} => \A k \in Kids : pids[k] = k /\ child[k] # "none"
    /\ pc \notin {"wait", "done"} => \A k \in Kids : child[k] # "collected"

\* Connections are made before they are accepted.
ConnInv ==
    /\ backlog + accepted <= made
    /\ pc \in {"pass", "put"} => hand = accepted /\ hand > 0

\* serv05: a child that is busy, or has said it is not any more, is marked.
BusyInv ==
    Loop.intake = "read_fd" =>
      /\ navail = Cardinality({k \in Kids : status[k] = 0})
      /\ \A k \in Kids : Len(down[k]) + up[k] + (IF child[k] \in {"serve", "ready"} THEN 1 ELSE 0)
                           <= status[k]
      /\ pc = "scan" => rset # {} /\ 0 \notin rset
      /\ pc \in {"accept", "pass"} => 0 \in rset

\* serv08: connections 1..t have been taken.
Dist(g, p) == IF p >= g THEN p - g ELSE p + MAXNCLI - g
Slot(g, s) == (g + s) % MAXNCLI
RingLen == Dist(iget, iput)
RingFrom(t) ==
    /\ taken = 1..t
    /\ accepted = t + RingLen + (IF pc = "put" THEN 1 ELSE 0)
    /\ \A s \in 0..(RingLen - 1) : ring[Slot(iget, s)] = t + 1 + s
RingInv ==
    Loop.intake = "get" /\ Live =>
        (\E t \in 0..MaxConn : RingFrom(t)) /\ (pc # "put" => hand = 0)

IInv == TypeOK /\ WorkerInv /\ PidsInv /\ ConnInv /\ BusyInv /\ RingInv

-----------------------------------------------------------------------------
USE PoolAssumption
USE DEF poolVars, netVars, pipeVars, ringVars

\* The types, by what the variables are about.
ParentTypes ==
    /\ prog \in Programs
    /\ pc \in {"fork", "pause", "select", "accept", "pass", "scan", "put",
               "kill", "wait", "done", "killed"}
    /\ i \in 1..(N + 1) /\ pids \in [Kids -> 0..N]
WorkerTypes ==
    /\ child \in [Kids -> Working \cup {"none", "zombie", "collected"}]
    /\ conn \in [Kids -> 0..MaxConn] /\ taken \subseteq Conns
    /\ holder \in 0..N
NetTypes ==
    /\ backlog \in 0..LISTENQ
    /\ made \in 0..MaxConn /\ accepted \in 0..made /\ hand \in 0..accepted
PipeTypes ==
    /\ status \in [Kids -> 0..1] /\ navail \in 0..N
    /\ down \in [Kids -> Seq(Conns)] /\ up \in [Kids -> Nat]
    /\ rset \subseteq 0..N
RingTypes ==
    /\ ring \in [0..(MAXNCLI - 1) -> 0..MaxConn]
    /\ iget \in 0..(MAXNCLI - 1) /\ iput \in 0..(MAXNCLI - 1)

LEMMA Types ==
  /\ TypeOK <=> ParentTypes /\ WorkerTypes /\ NetTypes /\ PipeTypes /\ RingTypes
  /\ TypeOK' <=> ParentTypes' /\ WorkerTypes' /\ NetTypes' /\ PipeTypes' /\ RingTypes'
BY Zenon DEF TypeOK, ParentTypes, WorkerTypes, NetTypes, PipeTypes, RingTypes

\* The programs: how a worker comes by its connections decides the rest.
LEMMA ProgramFacts ==
  ASSUME NEW p \in Programs
  PROVE  /\ p.loop.intake \in {"lock", "select", "accept", "read_fd", "get"}
         /\ p.loop.lock # "none" <=> p.loop.intake = "lock"
         /\ p.idle = "select" <=> p.loop.intake = "read_fd"
         /\ p.idle = "accept" <=> p.loop.intake = "get"
         /\ p.idle \in {"pause", "select", "accept"}
         /\ p.loop.intake = "get" => p.workers = "thread"
         /\ p.loop.intake = "read_fd" => p.workers = "process"
         /\ p.workers \in {"process", "thread"}
<1>1. p \in AllPrograms
  BY ProgramsAssumption
<1>2. QED
  BY <1>1 DEF AllPrograms, Pool, model_serv02, model_serv02_with_lock, serv02, serv02m, serv03,
     serv03m, serv04, serv05, serv07, serv08, serv09, child_main, child_main_with_lock, child02,
     child02l, child02m, child03, child03m, child04, child05, pthread07, pthread08, pthread09

LEMMA LoopStatesWork == LoopStates \subseteq Working /\ "serve" \in LoopStates
BY DEF LoopStates, Working

\* The smallest member of a set of numbers.
LEMMA MinIs ==
  ASSUME NEW S \in SUBSET Nat, S # {}
  PROVE  Min(S) \in S
<1>1. \E x \in S : \A y \in S : ~ (<<y, x>> \in OpToRel(<, Nat))
  BY NatLessThanWellFounded, WFMin
<1>2. PICK x \in S : \A y \in S : ~ (<<y, x>> \in {ss \in Nat \X Nat : ss[1] < ss[2]})
  BY <1>1 DEF OpToRel
<1>3. ASSUME NEW y \in S
      PROVE  x <= y
  <2>1. <<y, x>> \in Nat \X Nat /\ ~(<<y, x>>[1] < <<y, x>>[2])
    BY <1>2
  <2>2. QED
    BY <2>1
<1>4. QED
  BY <1>3 DEF Min

-----------------------------------------------------------------------------
(* The ring. *)

LEMMA SlotIs ==
  ASSUME NEW g \in 0..(MAXNCLI - 1), NEW s \in 0..(MAXNCLI - 1)
  PROVE  /\ Slot(g, s) = IF g + s < MAXNCLI THEN g + s ELSE g + s - MAXNCLI
         /\ Slot(g, s) \in 0..(MAXNCLI - 1)
BY DEF Slot

LEMMA DistIs ==
  ASSUME NEW g \in 0..(MAXNCLI - 1), NEW p \in 0..(MAXNCLI - 1)
  PROVE  /\ Dist(g, p) \in 0..(MAXNCLI - 1)
         /\ Dist(g, p) = 0 <=> g = p
         /\ Succ(p) \in 0..(MAXNCLI - 1)
BY DEF Dist, Succ

\* One more entry, behind the others.
LEMMA RingPut ==
  ASSUME NEW g \in 0..(MAXNCLI - 1), NEW p \in 0..(MAXNCLI - 1), Succ(p) # g
  PROVE  /\ Slot(g, Dist(g, p)) = p
         /\ Dist(g, Succ(p)) = Dist(g, p) + 1
         /\ \A s \in 0..(Dist(g, p) - 1) : Slot(g, s) # p /\ Slot(g, s) \in 0..(MAXNCLI - 1)
<1>1. Dist(g, p) \in 0..(MAXNCLI - 1)
  BY DistIs
<1>2. Dist(g, p) = IF p >= g THEN p - g ELSE p + MAXNCLI - g
  BY DEF Dist
<1>3. Slot(g, Dist(g, p)) = p
  <2>1. Slot(g, Dist(g, p)) = IF g + Dist(g, p) < MAXNCLI THEN g + Dist(g, p) ELSE g + Dist(g, p) - MAXNCLI
    BY <1>1, SlotIs
  <2>2. QED
    BY <1>1, <1>2, <2>1
<1>4. Dist(g, Succ(p)) = Dist(g, p) + 1
  BY DEF Dist, Succ
<1>5. ASSUME NEW s \in 0..(Dist(g, p) - 1)
      PROVE  Slot(g, s) # p /\ Slot(g, s) \in 0..(MAXNCLI - 1)
  <2>1. s \in 0..(MAXNCLI - 1) /\ s < Dist(g, p)
    BY <1>1
  <2>2. /\ Slot(g, s) = IF g + s < MAXNCLI THEN g + s ELSE g + s - MAXNCLI
        /\ Slot(g, s) \in 0..(MAXNCLI - 1)
    BY <2>1, SlotIs
  <2>3. QED
    BY <1>1, <1>2, <2>1, <2>2
<1>6. QED
  BY <1>3, <1>4, <1>5

\* One entry less, at the front.
LEMMA RingGet ==
  ASSUME NEW g \in 0..(MAXNCLI - 1), NEW p \in 0..(MAXNCLI - 1), g # p
  PROVE  /\ Slot(g, 0) = g
         /\ Dist(Succ(g), p) = Dist(g, p) - 1
         /\ \A s \in 0..(Dist(g, p) - 2) : Slot(Succ(g), s) = Slot(g, s + 1)
<1>1. Dist(g, p) \in 0..(MAXNCLI - 1) /\ Succ(g) \in 0..(MAXNCLI - 1)
  BY DistIs
<1>2. Slot(g, 0) = g
  <2>1. 0 \in 0..(MAXNCLI - 1)
    OBVIOUS
  <2>2. Slot(g, 0) = IF g + 0 < MAXNCLI THEN g + 0 ELSE g + 0 - MAXNCLI
    BY <2>1, SlotIs
  <2>3. QED
    BY <2>2
<1>3. Dist(Succ(g), p) = Dist(g, p) - 1
  BY DEF Dist, Succ
<1>4. ASSUME NEW s \in 0..(Dist(g, p) - 2)
      PROVE  Slot(Succ(g), s) = Slot(g, s + 1)
  <2>1. s \in 0..(MAXNCLI - 1) /\ s + 1 \in 0..(MAXNCLI - 1)
    BY <1>1
  <2>2. Slot(Succ(g), s) = IF Succ(g) + s < MAXNCLI THEN Succ(g) + s ELSE Succ(g) + s - MAXNCLI
    BY <1>1, <2>1, SlotIs
  <2>3. Slot(g, s + 1) = IF g + (s + 1) < MAXNCLI THEN g + (s + 1) ELSE g + (s + 1) - MAXNCLI
    BY <2>1, SlotIs
  <2>4. Succ(g) = IF g + 1 = MAXNCLI THEN 0 ELSE g + 1
    BY DEF Succ
  <2>5. QED
    BY <2>1, <2>2, <2>3, <2>4
<1>5. QED
  BY <1>2, <1>3, <1>4

-----------------------------------------------------------------------------
(* What steps leave alone. *)

LEMMA BusyKept ==
  ASSUME BusyInv, TypeOK, UNCHANGED <<prog, status, navail, down, up>>,
         Loop.intake = "read_fd" =>
           /\ \A k \in Kids : child'[k] \in {"serve", "ready"} => child[k] \in {"serve", "ready"}
           /\ pc' = "scan" => rset' # {} /\ 0 \notin rset'
           /\ pc' \in {"accept", "pass"} => 0 \in rset'
  PROVE  BusyInv'
<1> SUFFICES ASSUME Loop.intake = "read_fd"
             PROVE  BusyInv'
  BY DEF BusyInv, Loop
<1>1. ASSUME NEW k \in Kids
      PROVE  Len(down'[k]) + up'[k] + (IF child'[k] \in {"serve", "ready"} THEN 1 ELSE 0) <= status'[k]
  <2>1. down[k] \in Seq(Conns) /\ up[k] \in Nat /\ status[k] \in 0..1
    BY DEF TypeOK
  <2>2. Len(down[k]) \in Nat
    BY <2>1
  <2>3. Len(down[k]) + up[k] + (IF child[k] \in {"serve", "ready"} THEN 1 ELSE 0) <= status[k]
    BY DEF BusyInv
  <2>4. child'[k] \in {"serve", "ready"} => child[k] \in {"serve", "ready"}
    OBVIOUS
  <2>5. QED
    BY <2>1, <2>2, <2>3, <2>4
<1>2. QED
  BY <1>1 DEF BusyInv, Loop

LEMMA RingSame ==
  ASSUME RingInv, UNCHANGED <<prog, taken, accepted, hand, ring, iget, iput>>,
         Loop.intake = "get" /\ Live' => Live /\ (pc' = "put" <=> pc = "put")
  PROVE  RingInv'
BY DEF RingInv, RingFrom, RingLen, Loop

\* A worker goes from one place of its loop to another.
LEMMA WorkerMoves ==
  ASSUME IInv, NEW k \in Kids, child[k] \in LoopStates,
         NEW st \in LoopStates, child' = [child EXCEPT ![k] = st],
         UNCHANGED <<prog, i, pids>>, pc' = pc \/ (pc = "put" /\ pc' = "accept")
  PROVE  /\ WorkerInv' /\ PidsInv' /\ ParentTypes'
         /\ child' \in [Kids -> Working \cup {"none", "zombie", "collected"}]
         /\ \A j \in Kids : child'[j] = IF j = k THEN st ELSE child[j]
<1> USE DEF IInv
<1>1. ParentTypes /\ WorkerTypes
  BY Types
<1>2. \A j \in Kids : child'[j] = IF j = k THEN st ELSE child[j]
  BY <1>1 DEF WorkerTypes
<1>3. LoopStates' = LoopStates
  BY DEF LoopStates, Loop
<1>4. child[k] \in Working /\ st \in Working
  BY LoopStatesWork
<1>5. ParentTypes'
  BY <1>1 DEF ParentTypes
<1>6. child' \in [Kids -> Working \cup {"none", "zombie", "collected"}]
  BY <1>1, <1>4 DEF WorkerTypes
<1>7. WorkerInv'
  BY <1>2, <1>3, <1>4 DEF WorkerInv, Loop, Threads, Live
<1>8. st \notin {"none", "collected"} /\ child[k] \notin {"none", "collected"}
  BY <1>4 DEF Working
<1>9. PidsInv'
  BY <1>2, <1>8 DEF PidsInv
<1>10. QED
  BY <1>2, <1>5, <1>6, <1>7, <1>9

\* Workers end.
LEMMA WorkersEnd ==
  ASSUME IInv, NEW dead \in SUBSET Kids, Dies(dead), UNCHANGED taken
  PROVE  /\ WorkerTypes'
         /\ \A k \in Kids : /\ child'[k] \in {child[k], "zombie"}
                            /\ child'[k] # child[k] => child[k] \in Working
                            /\ k \in dead => child'[k] \notin Working
<1> USE DEF IInv, Dies
<1>1. WorkerTypes
  BY Types
<1>2. "zombie" \notin Working
  BY DEF Working
<1>3. \A k \in Kids : child'[k] = IF k \in dead /\ child[k] \in Working THEN "zombie" ELSE child[k]
  OBVIOUS
<1>4. holder' \in 0..N
  BY <1>1 DEF LockAfterDeath, WorkerTypes
<1>5. conn' \in [Kids -> 0..MaxConn]
  BY <1>1 DEF WorkerTypes
<1>6. child' \in [Kids -> Working \cup {"none", "zombie", "collected"}]
  BY <1>1 DEF WorkerTypes
<1>7. WorkerTypes'
  BY <1>1, <1>4, <1>5, <1>6 DEF WorkerTypes
<1>8. QED
  BY <1>2, <1>3, <1>7

-----------------------------------------------------------------------------
LEMMA InitIInv == Init => IInv
<1> SUFFICES ASSUME Init
             PROVE  IInv
  OBVIOUS
<1> USE DEF Init
<1>1. TypeOK
  <2>1. ParentTypes
    BY DEF ParentTypes
  <2>2. WorkerTypes
    BY DEF WorkerTypes
  <2>3. NetTypes
    BY DEF NetTypes
  <2>4. PipeTypes
    BY DEF PipeTypes
  <2>5. RingTypes
    BY DEF RingTypes
  <2>6. QED
    BY <2>1, <2>2, <2>3, <2>4, <2>5, Types
<1>2. WorkerInv
  BY DEF WorkerInv, Live
<1>3. PidsInv
  BY DEF PidsInv, Kids
<1>4. ConnInv
  BY DEF ConnInv
<1>5. BusyInv
  <2>1. {k \in Kids : status[k] = 0} = Kids
    OBVIOUS
  <2>2. Cardinality(Kids) = N
    BY FS_Interval DEF Kids
  <2>3. navail = Cardinality({k \in Kids : status[k] = 0})
    BY <2>1, <2>2
  <2>4. \A k \in Kids : Len(down[k]) = 0 /\ up[k] = 0 /\ child[k] = "none" /\ status[k] = 0
    OBVIOUS
  <2>5. pc = "fork"
    OBVIOUS
  <2> HIDE DEF Init
  <2>6. QED
    BY <2>3, <2>4, <2>5 DEF BusyInv
<1>6. RingInv
  <2>1. RingLen = 0
    BY DEF RingLen, Dist
  <2>2. taken = {} /\ accepted = 0 /\ pc = "fork" /\ hand = 0
    OBVIOUS
  <2> HIDE DEF Init
  <2>3. 1..0 = {} /\ 0 \in 0..MaxConn /\ 0..(0 - 1) = {}
    OBVIOUS
  <2>4. RingFrom(0)
    BY <2>1, <2>2, <2>3 DEF RingFrom
  <2>5. QED
    BY <2>2, <2>3, <2>4 DEF RingInv
<1>7. QED
  BY <1>1, <1>2, <1>3, <1>4, <1>5, <1>6 DEF IInv

\* The fork loop fills pids[] from the front.
LEMMA ChildMakeIInv ==
  ASSUME IInv, ChildMake
  PROVE  IInv'
<1> USE DEF IInv
<1>1. ParentTypes /\ WorkerTypes /\ NetTypes /\ PipeTypes /\ RingTypes
  BY Types
<1>2. /\ pc = "fork" /\ i \in Kids /\ i' = i + 1 /\ i' \in 1..(N + 1)
      /\ pids' = [pids EXCEPT ![i] = i] /\ child' = [child EXCEPT ![i] = Loop.intake]
      /\ UNCHANGED <<prog, pc, conn, holder, netVars, accepted, hand, taken, pipeVars, ringVars>>
  BY <1>1 DEF ChildMake, ForkLoop, ParentTypes, Kids
<1>3. /\ Loop.intake \in LoopStates /\ Loop.intake \in Working
      /\ Loop.intake \notin {"none", "collected", "serve", "ready"}
  BY <1>1, ProgramFacts DEF ParentTypes, LoopStates, Loop, Working
<1>4. \A k \in Kids : /\ child'[k] = IF k = i THEN Loop.intake ELSE child[k]
                      /\ pids'[k] = IF k = i THEN i ELSE pids[k]
  BY <1>1, <1>2 DEF WorkerTypes, ParentTypes
<1>5. TypeOK'
  <2>1. ParentTypes'
    BY <1>1, <1>2 DEF ParentTypes, Kids
  <2>2. WorkerTypes'
    BY <1>1, <1>2, <1>3 DEF WorkerTypes
  <2>3. NetTypes' /\ PipeTypes' /\ RingTypes'
    BY <1>1, <1>2 DEF NetTypes, PipeTypes, RingTypes
  <2>4. QED
    BY <2>1, <2>2, <2>3, Types
<1>6. LoopStates' = LoopStates
  BY <1>2 DEF LoopStates, Loop
<1>7. WorkerInv'
  BY <1>2, <1>3, <1>4, <1>6 DEF WorkerInv, Loop, Live, Threads
<1>8. PidsInv'
  <2>1. \A k \in Kids : k \in Int /\ i \in Int
    BY <1>2 DEF Kids
  <2>2. ASSUME NEW k \in Kids
        PROVE  /\ pids'[k] = IF k < i' THEN k ELSE 0
               /\ (k >= i') <=> (child'[k] = "none")
               /\ child'[k] # "collected"
    BY <1>2, <1>3, <1>4, <2>1 DEF PidsInv
  <2>3. QED
    BY <1>2, <2>2 DEF PidsInv
<1>9. ConnInv' /\ RingInv'
  <2>1. ConnInv'
    BY <1>2 DEF ConnInv
  <2>2. QED
    BY <1>2, <2>1, RingSame DEF Live
<1>10. BusyInv'
  BY <1>2, <1>3, <1>4, BusyKept
<1>11. QED
  BY <1>5, <1>7, <1>8, <1>9, <1>10

\* Steps of the parent that change only where it is.
LEMMA ParentMovesIInv ==
  ASSUME IInv, InstallHandler \/ KilledAll \/ WaitDone
  PROVE  IInv'
<1> USE DEF IInv
<1>1. ParentTypes /\ WorkerTypes /\ NetTypes /\ PipeTypes /\ RingTypes
  BY Types
<1>2. UNCHANGED <<prog, i, pids, child, conn, holder, netVars, accepted, hand, taken,
                  pipeVars, ringVars>>
  BY DEF InstallHandler, KilledAll, WaitDone
<1>3. \/ pc = "fork" /\ pc' = prog.idle /\ i > N
      \/ pc = "kill" /\ pc' = "wait"
      \/ /\ pc = "wait" /\ pc' = "done"
  BY <1>1 DEF InstallHandler, KilledAll, WaitDone, ForkLoop, ParentTypes
<1>4. /\ pc' \in {"pause", "select", "accept", "wait", "done"}
      /\ (pc' = "select" => Loop.intake = "read_fd")
      /\ (pc' = "accept" => Loop.intake = "get")
      /\ (pc = "fork" => pc' \in {"pause", "select", "accept"})
  BY <1>1, <1>3, ProgramFacts DEF ParentTypes, Loop
<1>5. TypeOK'
  <2>1. ParentTypes'
    BY <1>1, <1>2, <1>4 DEF ParentTypes
  <2>2. WorkerTypes' /\ NetTypes' /\ PipeTypes' /\ RingTypes'
    BY <1>1, <1>2 DEF WorkerTypes, NetTypes, PipeTypes, RingTypes
  <2>3. QED
    BY <2>1, <2>2, Types
<1>6. WorkerInv'
  <2>1. LoopStates' = LoopStates /\ Loop' = Loop /\ (Threads' <=> Threads)
    BY <1>2 DEF LoopStates, Loop, Threads
  <2>2. Threads => pc \notin {"kill", "wait"}
    BY DEF WorkerInv
  <2>3. Threads => Live'
    BY <1>3, <1>4, <2>2 DEF Live
  <2>4. QED
    BY <1>2, <1>4, <2>1, <2>3 DEF WorkerInv, Live
<1>7. PidsInv'
  <2>1. \A k \in Kids : k \in Int /\ k <= N
    BY DEF Kids
  <2>2. CASE pc = "fork" /\ i > N
    <3>1. \A k \in Kids : k < i /\ ~(k >= i)
      BY <1>1, <2>1, <2>2 DEF ParentTypes
    <3>2. \A k \in Kids : pids[k] = k /\ child[k] # "none" /\ child[k] # "collected"
      BY <2>2, <3>1 DEF PidsInv
    <3>3. QED
      BY <1>2, <1>4, <3>2 DEF PidsInv
  <2>3. CASE pc # "fork"
    BY <1>2, <1>3, <1>4, <2>3 DEF PidsInv
  <2>4. QED
    BY <1>3, <2>2, <2>3
<1>8. ConnInv'
  BY <1>2, <1>4 DEF ConnInv
<1>9. BusyInv'
  <2>1. Loop.intake = "read_fd" => pc' \notin {"scan", "accept", "pass"}
    BY <1>4
  <2>2. QED
    BY <1>2, <2>1, BusyKept
<1>10. RingInv'
  BY <1>2, <1>3, <1>4, RingSame DEF Live
<1>11. QED
  BY <1>5, <1>6, <1>7, <1>8, <1>9, <1>10

\* Steps in which workers end, and with them perhaps the parent.
LEMMA EndIInv ==
  ASSUME IInv, NEW dead \in SUBSET Kids, Dies(dead),
         UNCHANGED <<prog, pids, netVars, accepted, hand, taken, status, navail, down, up>>,
         rset' = rset \/ (pc' = "killed" /\ rset' \subseteq rset),
         UNCHANGED ringVars \/ (pc' = "killed" /\ RingTypes'),
         i' \in 1..(N + 1),
         \/ pc' = pc /\ (i' = i \/ pc # "fork")
         \/ pc' = "kill" /\ Live /\ pc # "fork" /\ ~Threads
         \/ pc' = "done" /\ dead = Kids
         \/ pc' = "killed" /\ pc \notin {"wait", "done"} /\ (Threads => dead = Kids)
  PROVE  IInv'
<1> USE DEF IInv
<1>1. ParentTypes /\ WorkerTypes /\ NetTypes /\ PipeTypes /\ RingTypes
  BY Types
<1>2. /\ WorkerTypes'
      /\ \A k \in Kids : /\ child'[k] \in {child[k], "zombie"}
                         /\ child'[k] # child[k] => child[k] \in Working
                         /\ k \in dead => child'[k] \notin Working
  BY WorkersEnd
<1>3. /\ LoopStates' = LoopStates /\ Loop' = Loop /\ (Threads' <=> Threads)
      /\ "zombie" \notin Working /\ "none" \notin Working
  BY DEF LoopStates, Loop, Threads, Working
<1>4. pc' = pc \/ pc' \in {"kill", "done", "killed"}
  OBVIOUS
<1>5. TypeOK'
  <2>1. ParentTypes'
    BY <1>1, <1>4 DEF ParentTypes
  <2>2. NetTypes' /\ PipeTypes' /\ RingTypes'
    BY <1>1 DEF NetTypes, PipeTypes, RingTypes
  <2>3. QED
    BY <1>2, <2>1, <2>2, Types
<1>6. WorkerInv'
  <2>1. \A k \in Kids : child'[k] \in LoopStates \cup {"none", "zombie", "collected"}
    BY <1>2 DEF WorkerInv
  <2>2. ASSUME Threads, ~Live'
        PROVE  \A k \in Kids : child'[k] \notin Working
    <3>1. CASE pc' = pc
      BY <1>2, <1>3, <2>2, <3>1 DEF WorkerInv, Live
    <3>2. CASE dead = Kids
      BY <1>2, <3>2
    <3>3. QED
      BY <2>2, <3>1, <3>2
  <2>3. pc' \in {"kill", "wait"} => ~Threads
    BY DEF WorkerInv
  <2>4. QED
    BY <1>3, <1>4, <2>1, <2>2, <2>3 DEF WorkerInv
<1>7. PidsInv'
  <2>1. \A k \in Kids : (child'[k] = "none" <=> child[k] = "none")
                       /\ (child'[k] = "collected" => child[k] = "collected")
    BY <1>2, <1>3
  <2>2. QED
    BY <2>1 DEF PidsInv, Live
<1>8. ConnInv'
  BY <1>4 DEF ConnInv
<1>9. BusyInv'
  <2>1. \A k \in Kids : child'[k] \in {"serve", "ready"} => child[k] \in {"serve", "ready"}
    BY <1>2
  <2>2. /\ Loop.intake = "read_fd" /\ pc' = "scan" => rset' # {} /\ 0 \notin rset'
        /\ Loop.intake = "read_fd" /\ pc' \in {"accept", "pass"} => 0 \in rset'
    <3>1. CASE pc' = "killed"
      BY <3>1
    <3>2. CASE pc' # "killed"
      BY <1>4, <3>2 DEF BusyInv
    <3>3. QED
      BY <3>1, <3>2
  <2>3. QED
    BY <2>1, <2>2, BusyKept
<1>10. RingInv'
  <2>1. CASE pc' = "killed"
    BY <2>1 DEF RingInv, Live
  <2>2. CASE pc' # "killed"
    BY <1>4, <2>2, RingSame DEF Live
  <2>3. QED
    BY <2>1, <2>2
<1>11. QED
  BY <1>5, <1>6, <1>7, <1>8, <1>9, <1>10

LEMMA InterruptIInv ==
  ASSUME IInv, Interrupt
  PROVE  IInv'
<1> USE DEF IInv
<1>1. ParentTypes
  BY Types
<1>2. /\ Live /\ 1 \in 1..(N + 1) /\ i \in 1..(N + 1)
      /\ UNCHANGED <<prog, pids, netVars, accepted, hand, taken, pipeVars, ringVars>>
  BY <1>1 DEF Interrupt, ParentTypes
<1>3. CASE Threads
  <2>1. Dies(Kids) /\ i' = i /\ pc' \in {"done", "killed"}
    BY <1>3 DEF Interrupt, ProcessEnds
  <2>2. QED
    BY <1>2, <2>1, EndIInv DEF Live
<1>4. CASE ~Threads
  <2>1. /\ Dies({}) \/ Dies(Kids)
        /\ (pc # "fork" /\ pc' = "kill" /\ i' = 1) \/ (pc' = "killed" /\ i' = i)
    BY <1>4 DEF Interrupt, Caught
  <2>2. {} \in SUBSET Kids /\ Kids \in SUBSET Kids
    OBVIOUS
  <2>3. pc \notin {"wait", "done"} /\ i' \in 1..(N + 1)
    BY <1>2, <2>1 DEF Live
  <2>4. PICK dead \in SUBSET Kids : Dies(dead)
    BY <2>1, <2>2
  <2>5. QED
    BY <1>2, <1>4, <2>1, <2>3, <2>4, EndIInv
<1>5. QED
  BY <1>3, <1>4

\* pids[i] is child i.
LEMMA KillIInv ==
  ASSUME IInv, Kill
  PROVE  IInv'
<1> USE DEF IInv
<1>1. ParentTypes
  BY Types
<1>2. pc = "kill" /\ i \in Kids /\ i + 1 \in 1..(N + 1) /\ i # 0
  BY <1>1 DEF Kill, KillLoop, ParentTypes, Kids
<1>3. pids[i] = i
  BY <1>2 DEF PidsInv
<1>4. /\ Dies({i}) /\ pc' = pc /\ pc # "fork" /\ i' = i + 1
      /\ UNCHANGED <<prog, pids, netVars, accepted, hand, taken, pipeVars, ringVars>>
  BY <1>2, <1>3 DEF Kill
<1>5. {i} \in SUBSET Kids /\ i' \in 1..(N + 1)
  BY <1>2, <1>4
<1>6. QED
  BY <1>4, <1>5, EndIInv

\* A worker ends: read_fd at the end of its pipe, SIGPIPE, err_quit.
LEMMA WorkerEndsIInv ==
  ASSUME IInv, NEW k \in Kids, ReadFdEof(k) \/ ChildEnds(k) \/ (WriteReady(k) /\ ~ParentEndOpen(k))
  PROVE  IInv'
<1> USE DEF IInv
<1>1. ParentTypes
  BY Types
<1>2. /\ UNCHANGED <<prog, i, pids, netVars, accepted, hand, taken, pipeVars, ringVars>>
      /\ i' \in 1..(N + 1) /\ {k} \in SUBSET Kids /\ Kids \in SUBSET Kids
  BY <1>1 DEF ReadFdEof, ChildEnds, WriteReady, ParentTypes
<1>3. CASE pc' = pc /\ Dies({k})
  BY <1>2, <1>3, EndIInv
<1>4. CASE Threads /\ child[k] \in Working /\ pc' = "killed" /\ Dies(Kids)
  <2>1. Live
    BY <1>4 DEF WorkerInv
  <2>2. QED
    BY <1>2, <1>4, <2>1, EndIInv DEF Live
<1>5. QED
  <2>1. (pc' = pc /\ Dies({k})) \/ (Threads /\ child[k] \in Working /\ pc' = "killed" /\ Dies(Kids))
    BY DEF ReadFdEof, ChildEnds, WriteReady, ProcessEnds
  <2>2. QED
    BY <1>3, <1>4, <2>1

LEMMA WaitIInv ==
  ASSUME IInv, Wait
  PROVE  IInv'
<1> USE DEF IInv
<1>1. ParentTypes /\ WorkerTypes /\ NetTypes /\ PipeTypes /\ RingTypes
  BY Types
<1>2. PICK k \in Kids : child[k] = "zombie" /\ child' = [child EXCEPT ![k] = "collected"]
  BY DEF Wait
<1>3. /\ pc = "wait" /\ pc' = "wait"
      /\ UNCHANGED <<prog, i, pids, conn, holder, netVars, accepted, hand, taken, pipeVars, ringVars>>
  BY DEF Wait, AfterWait
<1>4. \A j \in Kids : child'[j] = IF j = k THEN "collected" ELSE child[j]
  BY <1>1, <1>2 DEF WorkerTypes
<1>5. TypeOK'
  <2>1. ParentTypes' /\ NetTypes' /\ PipeTypes' /\ RingTypes'
    BY <1>1, <1>3 DEF ParentTypes, NetTypes, PipeTypes, RingTypes
  <2>2. WorkerTypes'
    BY <1>1, <1>2, <1>3 DEF WorkerTypes
  <2>3. QED
    BY <2>1, <2>2, Types
<1>6. WorkerInv'
  <2>1. LoopStates' = LoopStates /\ Loop' = Loop /\ (Threads' <=> Threads) /\ "collected" \notin Working
    BY <1>3 DEF LoopStates, Loop, Threads, Working
  <2>2. QED
    BY <1>3, <1>4, <2>1 DEF WorkerInv, Live
<1>7. PidsInv' /\ ConnInv'
  BY <1>3, <1>4 DEF PidsInv, ConnInv
<1>8. BusyInv'
  BY <1>3, <1>4, BusyKept
<1>9. RingInv'
  BY <1>3, RingSame DEF Live
<1>10. QED
  BY <1>5, <1>6, <1>7, <1>8, <1>9

LEMMA NetIInv ==
  ASSUME IInv, Connect \/ Abort \/ UNCHANGED vars
  PROVE  IInv'
<1> USE DEF IInv, vars
<1>1. ParentTypes /\ WorkerTypes /\ NetTypes /\ PipeTypes /\ RingTypes
  BY Types
<1>2. UNCHANGED <<prog, poolVars, child, conn, holder, accepted, hand, taken, pipeVars, ringVars>>
  BY DEF Connect, Abort
<1>3. \/ made < MaxConn /\ backlog < LISTENQ /\ backlog' = backlog + 1 /\ made' = made + 1
      \/ backlog > 0 /\ backlog' = backlog - 1 /\ made' = made
      \/ backlog' = backlog /\ made' = made
  BY DEF Connect, Abort
<1>4. TypeOK'
  <2>1. ParentTypes' /\ WorkerTypes' /\ PipeTypes' /\ RingTypes'
    BY <1>1, <1>2 DEF ParentTypes, WorkerTypes, PipeTypes, RingTypes
  <2>2. NetTypes'
    BY <1>1, <1>2, <1>3 DEF NetTypes
  <2>3. QED
    BY <2>1, <2>2, Types
<1>5. WorkerInv' /\ PidsInv'
  BY <1>2 DEF WorkerInv, PidsInv, LoopStates, Loop, Live, Threads
<1>6. ConnInv'
  BY <1>1, <1>2, <1>3 DEF ConnInv, NetTypes
<1>7. BusyInv'
  BY <1>2 DEF BusyInv, Loop
<1>8. RingInv'
  BY <1>2, RingSame DEF Live
<1>9. QED
  BY <1>4, <1>5, <1>6, <1>7, <1>8

-----------------------------------------------------------------------------
(* The parent that accepts. *)

LEMMA SelectIInv ==
  ASSUME IInv, Select
  PROVE  IInv'
<1> USE DEF IInv
<1>1. ParentTypes /\ WorkerTypes /\ NetTypes /\ PipeTypes /\ RingTypes
  BY Types
<1>2. /\ pc = "select"
      /\ UNCHANGED <<prog, i, pids, child, conn, holder, netVars, accepted, hand, taken,
                     status, navail, down, up, ringVars>>
      /\ rset' # {} /\ rset' \subseteq 0..N
      /\ pc' = IF 0 \in rset' THEN "accept" ELSE "scan"
  BY DEF Select, Kids
<1>3. Loop.intake = "read_fd"
  BY <1>2 DEF WorkerInv
<1>4. TypeOK'
  <2>1. ParentTypes' /\ WorkerTypes' /\ NetTypes' /\ RingTypes'
    BY <1>1, <1>2 DEF ParentTypes, WorkerTypes, NetTypes, RingTypes
  <2>2. PipeTypes'
    BY <1>1, <1>2 DEF PipeTypes
  <2>3. QED
    BY <2>1, <2>2, Types
<1>5. WorkerInv'
  BY <1>2, <1>3 DEF WorkerInv, LoopStates, Loop, Live, Threads
<1>6. PidsInv' /\ ConnInv'
  BY <1>2 DEF PidsInv, ConnInv
<1>7. BusyInv'
  BY <1>2, BusyKept
<1>8. RingInv'
  BY <1>2, <1>3 DEF RingInv, Loop
<1>9. QED
  BY <1>4, <1>5, <1>6, <1>7, <1>8

LEMMA ParentAcceptIInv ==
  ASSUME IInv, ParentAccept
  PROVE  IInv'
<1> USE DEF IInv
<1>1. ParentTypes /\ WorkerTypes /\ NetTypes /\ PipeTypes /\ RingTypes
  BY Types
<1>2. /\ pc = "accept" /\ backlog > 0 /\ backlog' = backlog - 1
      /\ accepted' = accepted + 1 /\ hand' = accepted'
      /\ pc' = IF Loop.intake = "read_fd" THEN "pass" ELSE "put"
      /\ UNCHANGED <<prog, i, pids, child, conn, holder, made, taken, pipeVars, ringVars>>
  BY <1>1, ProgramFacts DEF ParentAccept, Accepts, ParentTypes, Loop
<1>3. Loop.intake \in {"read_fd", "get"}
  BY <1>2 DEF WorkerInv
<1>4. TypeOK'
  <2>1. ParentTypes' /\ WorkerTypes' /\ PipeTypes' /\ RingTypes'
    BY <1>1, <1>2 DEF ParentTypes, WorkerTypes, PipeTypes, RingTypes
  <2>2. NetTypes'
    BY <1>1, <1>2 DEF NetTypes, ConnInv
  <2>3. QED
    BY <2>1, <2>2, Types
<1>5. WorkerInv'
  BY <1>2, <1>3 DEF WorkerInv, LoopStates, Loop, Live, Threads
<1>6. PidsInv'
  BY <1>2 DEF PidsInv
<1>7. ConnInv'
  BY <1>1, <1>2 DEF ConnInv, NetTypes
<1>8. BusyInv'
  <2>1. Loop.intake = "read_fd" => pc' = "pass" /\ 0 \in rset'
    BY <1>2 DEF BusyInv
  <2>2. QED
    BY <1>2, <2>1, BusyKept
<1>9. RingInv'
  <2> SUFFICES ASSUME Loop.intake = "get"
               PROVE  RingInv'
    BY <1>2 DEF RingInv, Loop
  <2>1. pc' = "put"
    BY <1>2
  <2>2. PICK t \in 0..MaxConn : RingFrom(t)
    BY <1>2 DEF RingInv, Live
  <2>3. RingLen' = RingLen /\ RingLen \in Nat
    <3>1. RingLen' = RingLen
      BY <1>2 DEF RingLen
    <3>2. RingLen \in Nat
      BY <1>1, DistIs DEF RingLen, RingTypes
    <3>3. QED
      BY <3>1, <3>2
  <2>4. RingFrom(t)'
    BY <1>2, <2>1, <2>2, <2>3 DEF RingFrom
  <2>5. QED
    BY <2>1, <2>4 DEF RingInv
<1>10. QED
  BY <1>4, <1>5, <1>6, <1>7, <1>8, <1>9

\* err_quit, SIGPIPE in a parent of processes.
LEMMA ParentEnds ==
  ASSUME IInv, pc \notin {"wait", "done"}, ~Threads, pc' = "killed", rset' \subseteq rset,
         UNCHANGED <<prog, i, pids, child, conn, holder, netVars, accepted, hand, taken,
                     status, navail, down, up, ringVars>>
  PROVE  IInv'
<1> USE DEF IInv
<1>1. ParentTypes /\ WorkerTypes
  BY Types
<1>2. Dies({})
  BY <1>1 DEF Dies, LockAfterDeath, WorkerTypes
<1>3. {} \in SUBSET Kids /\ i' \in 1..(N + 1)
  BY <1>1 DEF ParentTypes
<1>4. QED
  BY <1>2, <1>3, EndIInv

\* The child chosen has status 0: nothing is on its way to it or from it.
LEMMA PassIInv ==
  ASSUME IInv, Pass
  PROVE  IInv'
<1> USE DEF IInv
<1> DEFINE free == {k \in Kids : status[k] = 0}
<1>1. ParentTypes /\ WorkerTypes /\ NetTypes /\ PipeTypes /\ RingTypes
  BY Types
<1>2. /\ pc = "pass"
      /\ UNCHANGED <<prog, i, pids, child, conn, holder, netVars, accepted, taken, up, ringVars>>
  BY DEF Pass
<1>3. Loop.intake = "read_fd" /\ ~Threads
  BY <1>1, <1>2, ProgramFacts DEF WorkerInv, Loop, Threads, ParentTypes
<1>4. CASE pc' = "killed" /\ UNCHANGED <<status, navail, down, hand, rset>>
  BY <1>2, <1>3, <1>4, ParentEnds
<1>5. ASSUME NEW k \in free,
             status' = [status EXCEPT ![k] = 1], down' = [down EXCEPT ![k] = Append(@, hand)],
             navail' = navail - 1, rset' = rset \ {0},
             pc' = IF rset = {0} THEN "select" ELSE "scan", hand' = 0
      PROVE  IInv'
  <2>1. k \in Kids /\ status[k] = 0 /\ hand \in Conns
    BY <1>1, <1>2 DEF ConnInv, NetTypes, Conns
  <2>2. \A j \in Kids : /\ status'[j] = IF j = k THEN 1 ELSE status[j]
                       /\ down'[j] = IF j = k THEN Append(down[j], hand) ELSE down[j]
    BY <1>1, <1>5 DEF PipeTypes
  <2>3. /\ navail = Cardinality(free) /\ IsFiniteSet(free) /\ Cardinality(free) \in Nat
        /\ Cardinality(free \ {k}) = Cardinality(free) - 1
        /\ IsFiniteSet(free \ {k}) /\ Cardinality(free \ {k}) \in Nat
    <3>1. IsFiniteSet(Kids)
      BY FS_Interval DEF Kids
    <3>2. IsFiniteSet(free)
      BY <3>1, FS_Subset
    <3>3. QED
      BY <1>3, <3>2, FS_RemoveElement, FS_CardinalityType DEF BusyInv
  <2>4. TypeOK'
    <3>1. ParentTypes' /\ WorkerTypes' /\ NetTypes' /\ RingTypes'
      BY <1>1, <1>2, <1>5 DEF ParentTypes, WorkerTypes, NetTypes, RingTypes
    <3>2. navail' \in 0..N
      BY <1>1, <1>5, <2>3 DEF PipeTypes
    <3>3. status' \in [Kids -> 0..1] /\ rset' \subseteq 0..N
      BY <1>1, <1>5 DEF PipeTypes
    <3>4. Append(down[k], hand) \in Seq(Conns)
      BY <1>1, <2>1 DEF PipeTypes
    <3>5. down' \in [Kids -> Seq(Conns)]
      BY <1>1, <1>5, <3>4 DEF PipeTypes
    <3>6. PipeTypes'
      BY <1>1, <1>2, <3>2, <3>3, <3>5 DEF PipeTypes
    <3>7. QED
      BY <3>1, <3>6, Types
  <2>5. WorkerInv'
    BY <1>2, <1>3, <1>5 DEF WorkerInv, LoopStates, Loop, Live, Threads
  <2>6. PidsInv' /\ ConnInv'
    BY <1>2, <1>5 DEF PidsInv, ConnInv
  <2>7. BusyInv'
    <3>1. {j \in Kids : status'[j] = 0} = free \ {k}
      BY <2>2
    <3>2. ASSUME NEW j \in Kids
          PROVE  Len(down'[j]) + up'[j] + (IF child'[j] \in {"serve", "ready"} THEN 1 ELSE 0) <= status'[j]
      <4>1. down[j] \in Seq(Conns) /\ up[j] \in Nat /\ status[j] \in 0..1
        BY <1>1 DEF PipeTypes
      <4>2. Len(down[j]) \in Nat /\ Len(Append(down[j], hand)) = Len(down[j]) + 1
        BY <2>1, <4>1
      <4>3. Len(down[j]) + up[j] + (IF child[j] \in {"serve", "ready"} THEN 1 ELSE 0) <= status[j]
        BY <1>3 DEF BusyInv
      <4>4. up'[j] = up[j] /\ child'[j] = child[j]
        BY <1>2
      <4>5. CASE j = k
        <5>1. status[j] = 0 /\ status'[j] = 1 /\ Len(down'[j]) = Len(down[j]) + 1
          BY <2>1, <2>2, <4>2, <4>5
        <5>2. QED
          BY <4>1, <4>2, <4>3, <4>4, <5>1
      <4>6. CASE j # k
        <5>1. status'[j] = status[j] /\ down'[j] = down[j]
          BY <2>2, <4>6
        <5>2. QED
          BY <4>3, <4>4, <5>1
      <4>7. QED
        BY <4>5, <4>6
    <3>3. 0 \in rset
      BY <1>2, <1>3 DEF BusyInv
    <3>4. pc' = "scan" => rset' # {} /\ 0 \notin rset'
      BY <1>5, <3>3
    <3>5. QED
      BY <1>5, <2>3, <3>1, <3>2, <3>4 DEF BusyInv
  <2>8. RingInv'
    BY <1>2, <1>3 DEF RingInv, Loop
  <2>9. QED
    BY <2>4, <2>5, <2>6, <2>7, <2>8
<1>6. QED
  <2>1. CASE free = {} \/ child[Min(free)] \notin Working
    BY <1>4, <2>1 DEF Pass
  <2>2. CASE free # {} /\ child[Min(free)] \in Working
    <3>1. free \in SUBSET Nat
      BY DEF Kids
    <3>2. Min(free) \in free
      BY <2>2, <3>1, MinIs
    <3>3. /\ status' = [status EXCEPT ![Min(free)] = 1]
          /\ down' = [down EXCEPT ![Min(free)] = Append(@, hand)]
          /\ navail' = navail - 1 /\ rset' = rset \ {0}
          /\ pc' = (IF rset = {0} THEN "select" ELSE "scan") /\ hand' = 0
      BY <2>2 DEF Pass
    <3>4. QED
      BY <1>5, <3>2, <3>3
  <2>3. QED
    BY <2>1, <2>2

\* A child that has written its byte is marked busy, and is not any more.
LEMMA ScanPipeIInv ==
  ASSUME IInv, ScanPipe
  PROVE  IInv'
<1> USE DEF IInv
<1> DEFINE free == {k \in Kids : status[k] = 0}
<1>1. ParentTypes /\ WorkerTypes /\ NetTypes /\ PipeTypes /\ RingTypes
  BY Types
<1>2. /\ pc = "scan"
      /\ UNCHANGED <<prog, i, pids, child, conn, holder, netVars, accepted, hand, taken, down, ringVars>>
  BY DEF ScanPipe
<1>3. Loop.intake = "read_fd" /\ ~Threads
  BY <1>1, <1>2, ProgramFacts DEF WorkerInv, Loop, Threads, ParentTypes
<1>4. rset # {} /\ 0 \notin rset /\ rset \subseteq 0..N
  BY <1>1, <1>2, <1>3 DEF BusyInv, PipeTypes
<1>5. PICK k \in rset : k = Min(rset)
  <2>1. rset \in SUBSET Nat
    BY <1>4
  <2>2. QED
    BY <1>4, <2>1, MinIs
<1>6. k \in Kids
  BY <1>4, <1>5 DEF Kids
<1>7. CASE ~(up[k] > 0)
  <2>1. pc' = "killed" /\ rset' \subseteq rset /\ UNCHANGED <<up, status, navail>>
    BY <1>5, <1>7 DEF ScanPipe
  <2>2. QED
    BY <1>2, <1>3, <2>1, ParentEnds
<1>8. CASE up[k] > 0
  <2>1. /\ rset' = rset \ {k}
        /\ up' = [up EXCEPT ![k] = @ - 1] /\ status' = [status EXCEPT ![k] = 0]
        /\ navail' = navail + 1
        /\ pc' = IF rset' = {} THEN "select" ELSE "scan"
    BY <1>5, <1>8 DEF ScanPipe
  <2>2. \A j \in Kids : /\ status'[j] = IF j = k THEN 0 ELSE status[j]
                       /\ up'[j] = IF j = k THEN up[j] - 1 ELSE up[j]
    BY <1>1, <2>1 DEF PipeTypes
  <2>3. ASSUME NEW j \in Kids
        PROVE  /\ down[j] \in Seq(Conns) /\ up[j] \in Nat /\ status[j] \in 0..1 /\ Len(down[j]) \in Nat
               /\ Len(down[j]) + up[j] + (IF child[j] \in {"serve", "ready"} THEN 1 ELSE 0) <= status[j]
    <3>1. down[j] \in Seq(Conns) /\ up[j] \in Nat /\ status[j] \in 0..1
      BY <1>1 DEF PipeTypes
    <3>2. QED
      BY <1>3, <3>1 DEF BusyInv
  <2>4. status[k] = 1 /\ up[k] = 1
    BY <1>6, <1>8, <2>3
  <2>5. {j \in Kids : status'[j] = 0} = free \cup {k}
    BY <1>6, <2>2
  <2>6. /\ navail = Cardinality(free) /\ Cardinality(free \cup {k}) = Cardinality(free) + 1
        /\ Cardinality(free \cup {k}) \in 0..N
    <3>1. IsFiniteSet(Kids) /\ Cardinality(Kids) = N
      BY FS_Interval DEF Kids
    <3>2. IsFiniteSet(free) /\ k \notin free
      BY <2>4, <3>1, FS_Subset
    <3>3. free \cup {k} \subseteq Kids
      BY <1>6
    <3>4. Cardinality(free \cup {k}) \in Nat /\ Cardinality(free \cup {k}) <= N
      BY <3>1, <3>3, FS_Subset, FS_CardinalityType
    <3>5. Cardinality(free \cup {k}) = Cardinality(free) + 1
      BY <3>2, FS_AddElement
    <3>6. navail = Cardinality(free)
      BY <1>3 DEF BusyInv
    <3>7. QED
      BY <3>4, <3>5, <3>6
  <2>7. TypeOK'
    <3>1. ParentTypes' /\ WorkerTypes' /\ NetTypes' /\ RingTypes'
      BY <1>1, <1>2, <2>1 DEF ParentTypes, WorkerTypes, NetTypes, RingTypes
    <3>2. navail' \in 0..N
      BY <2>1, <2>6
    <3>3. status' \in [Kids -> 0..1] /\ rset' \subseteq 0..N
      <4>1. status' \in [Kids -> 0..1]
        <5>1. status \in [Kids -> 0..1] /\ 0 \in 0..1
          BY <1>1 DEF PipeTypes
        <5>2. status' = [status EXCEPT ![k] = 0]
          BY <2>1
        <5>3. QED
          BY <5>1, <5>2
      <4>2. rset' \subseteq 0..N
        BY <1>4, <2>1
      <4>3. QED
        BY <4>1, <4>2
    <3>4. up' \in [Kids -> Nat]
      BY <1>1, <1>6, <2>1, <2>4 DEF PipeTypes
    <3>5. PipeTypes'
      BY <1>1, <1>2, <3>2, <3>3, <3>4 DEF PipeTypes
    <3>6. QED
      BY <3>1, <3>5, Types
  <2>8. WorkerInv'
    BY <1>2, <1>3, <2>1 DEF WorkerInv, LoopStates, Loop, Live, Threads
  <2>9. PidsInv' /\ ConnInv'
    BY <1>2, <2>1 DEF PidsInv, ConnInv
  <2>10. BusyInv'
    <3>1. ASSUME NEW j \in Kids
          PROVE  Len(down'[j]) + up'[j] + (IF child'[j] \in {"serve", "ready"} THEN 1 ELSE 0) <= status'[j]
      <4>1. child'[j] = child[j] /\ down'[j] = down[j]
        BY <1>2
      <4>2. CASE j = k
        <5>1. status[j] = 1 /\ up[j] = 1 /\ status'[j] = 0 /\ up'[j] = 0
          BY <2>2, <2>4, <4>2
        <5>2. /\ Len(down[j]) \in Nat /\ child'[j] = child[j] /\ Len(down'[j]) = Len(down[j])
              /\ Len(down[j]) + 1 + (IF child[j] \in {"serve", "ready"} THEN 1 ELSE 0) <= 1
          BY <2>3, <4>1, <5>1
        <5>3. PICK n \in Nat : n = Len(down[j])
          BY <5>2
        <5>4. n + 1 + (IF child[j] \in {"serve", "ready"} THEN 1 ELSE 0) <= 1
          BY <5>2, <5>3
        <5>5. n = 0 /\ child[j] \notin {"serve", "ready"}
          BY <5>4
        <5>6. QED
          BY <5>1, <5>2, <5>3, <5>5
      <4>3. CASE j # k
        <5>1. status'[j] = status[j] /\ up'[j] = up[j]
          BY <2>2, <4>3
        <5>2. QED
          BY <2>3, <4>1, <5>1
      <4>4. QED
        BY <4>2, <4>3
    <3>2. pc' = "scan" => rset' # {} /\ 0 \notin rset'
      BY <1>4, <2>1
    <3>3. QED
      BY <2>1, <2>5, <2>6, <3>1, <3>2 DEF BusyInv
  <2>11. RingInv'
    BY <1>2, <1>3 DEF RingInv, Loop
  <2>12. QED
    BY <2>7, <2>8, <2>9, <2>10, <2>11
<1>9. QED
  BY <1>7, <1>8

\* serv08's main puts the connection behind the others.
LEMMA PutIInv ==
  ASSUME IInv, Put
  PROVE  IInv'
<1> USE DEF IInv
<1>1. ParentTypes /\ WorkerTypes /\ NetTypes /\ PipeTypes /\ RingTypes
  BY Types
<1>2. /\ pc = "put" /\ ring' = [ring EXCEPT ![iput] = hand] /\ iput' = Succ(iput)
      /\ UNCHANGED <<prog, i, pids, netVars, accepted, taken, pipeVars, iget>>
  BY DEF Put
<1>3. Loop.intake = "get" /\ Threads /\ Live
  BY <1>1, <1>2, ProgramFacts DEF WorkerInv, Loop, Threads, ParentTypes, Live
<1>4. RingTypes'
  <2>1. Succ(iput) \in 0..(MAXNCLI - 1)
    BY <1>1, DistIs DEF RingTypes
  <2>2. hand \in 0..MaxConn
    BY <1>1 DEF NetTypes
  <2>3. QED
    BY <1>1, <1>2, <2>1, <2>2 DEF RingTypes
<1>5. CASE RingFull
  <2>1. Dies(Kids) /\ pc' = "killed" /\ hand' = hand
    BY <1>3, <1>5 DEF Put, ProcessEnds
  <2>2. Kids \in SUBSET Kids /\ i' \in 1..(N + 1)
    BY <1>1, <1>2 DEF ParentTypes
  <2>3. QED
    BY <1>2, <1>3, <1>4, <2>1, <2>2, EndIInv
<1>6. CASE ~RingFull
  <2>1. pc' = "accept" /\ hand' = 0 /\ CondSignal /\ UNCHANGED <<conn, holder>>
    BY <1>6 DEF Put
  <2>2. /\ WorkerInv' /\ PidsInv' /\ ParentTypes'
        /\ child' \in [Kids -> Working \cup {"none", "zombie", "collected"}]
    <3>1. CASE child' = child
      <4>1. ParentTypes' /\ child' \in [Kids -> Working \cup {"none", "zombie", "collected"}]
        BY <1>1, <1>2, <2>1, <3>1 DEF ParentTypes, WorkerTypes
      <4>2. WorkerInv'
        BY <1>2, <1>3, <2>1, <3>1 DEF WorkerInv, LoopStates, Loop, Live, Threads
      <4>3. PidsInv'
        BY <1>2, <2>1, <3>1 DEF PidsInv
      <4>4. QED
        BY <4>1, <4>2, <4>3
    <3>2. ASSUME NEW k \in Waiting, child' = [child EXCEPT ![k] = "woken"]
          PROVE  /\ WorkerInv' /\ PidsInv' /\ ParentTypes'
                 /\ child' \in [Kids -> Working \cup {"none", "zombie", "collected"}]
      <4>1. k \in Kids /\ child[k] \in LoopStates /\ "woken" \in LoopStates
        BY <1>3, <3>2 DEF Waiting, LoopStates
      <4>2. QED
        BY <1>2, <2>1, <3>2, <4>1, WorkerMoves
    <3>3. QED
      BY <2>1, <3>1, <3>2 DEF CondSignal
  <2>3. TypeOK'
    <3>1. NetTypes' /\ PipeTypes'
      BY <1>1, <1>2, <2>1 DEF NetTypes, PipeTypes
    <3>2. WorkerTypes'
      BY <1>1, <1>2, <2>1, <2>2 DEF WorkerTypes
    <3>3. QED
      BY <1>4, <2>2, <3>1, <3>2, Types
  <2>4. ConnInv' /\ BusyInv'
    BY <1>2, <1>3, <2>1 DEF ConnInv, BusyInv, Loop
  <2>5. RingInv'
    <3>1. PICK t \in 0..MaxConn : RingFrom(t)
      BY <1>3 DEF RingInv
    <3>2. PICK len \in 0..(MAXNCLI - 1) : len = RingLen
      BY <1>1, DistIs DEF RingTypes, RingLen
    <3>3. /\ Slot(iget, len) = iput /\ RingLen' = len + 1
          /\ \A s \in 0..(len - 1) : Slot(iget, s) # iput /\ Slot(iget, s) \in 0..(MAXNCLI - 1)
      BY <1>1, <1>2, <1>6, <3>2, RingPut DEF RingTypes, RingLen, RingFull
    <3>4. taken = 1..t /\ accepted = t + len + 1 /\ \A s \in 0..(len - 1) : ring[Slot(iget, s)] = t + 1 + s
      BY <1>2, <3>1, <3>2 DEF RingFrom
    <3>5. hand = t + 1 + len
      BY <1>2, <3>4 DEF ConnInv
    <3>6. ASSUME NEW s \in 0..((len + 1) - 1)
          PROVE  ring'[Slot(iget, s)] = t + 1 + s
      <4>1. CASE s = len
        BY <1>1, <1>2, <3>3, <3>5, <4>1 DEF RingTypes
      <4>2. CASE s # len
        <5>1. s \in 0..(len - 1)
          BY <4>2
        <5>2. Slot(iget, s) # iput /\ Slot(iget, s) \in 0..(MAXNCLI - 1) /\ ring[Slot(iget, s)] = t + 1 + s
          BY <3>3, <3>4, <5>1
        <5>3. QED
          BY <1>1, <1>2, <5>2 DEF RingTypes
      <4>3. QED
        BY <4>1, <4>2
    <3>7. RingFrom(t)'
      <4>1. iget' = iget /\ taken' = 1..t /\ accepted' = t + (len + 1) + 0
        BY <1>2, <3>4
      <4>2. QED
        BY <2>1, <3>3, <3>6, <4>1 DEF RingFrom
    <3>8. QED
      BY <2>1, <3>7 DEF RingInv
  <2>6. QED
    BY <2>2, <2>3, <2>4, <2>5
<1>7. QED
  BY <1>5, <1>6

-----------------------------------------------------------------------------
(* The workers. *)

\* A worker inside its loop, with nothing handed to or from it.
LEMMA WorkerTurn ==
  ASSUME IInv, NEW k \in Kids, child[k] \in LoopStates,
         NEW st \in LoopStates, child' = [child EXCEPT ![k] = st],
         Loop.intake = "read_fd" /\ st \in {"serve", "ready"} => child[k] \in {"serve", "ready"},
         holder' \in 0..N, conn' \in [Kids -> 0..MaxConn],
         UNCHANGED <<prog, poolVars, netVars, accepted, hand, taken, pipeVars, ringVars>>
  PROVE  IInv'
<1> USE DEF IInv
<1>1. ParentTypes /\ WorkerTypes /\ NetTypes /\ PipeTypes /\ RingTypes
  BY Types
<1>2. /\ WorkerInv' /\ PidsInv' /\ ParentTypes'
      /\ child' \in [Kids -> Working \cup {"none", "zombie", "collected"}]
      /\ \A j \in Kids : child'[j] = IF j = k THEN st ELSE child[j]
  BY WorkerMoves
<1>3. TypeOK'
  <2>1. NetTypes' /\ PipeTypes' /\ RingTypes'
    BY <1>1 DEF NetTypes, PipeTypes, RingTypes
  <2>2. WorkerTypes'
    BY <1>1, <1>2 DEF WorkerTypes
  <2>3. QED
    BY <1>2, <2>1, <2>2, Types
<1>4. ConnInv'
  BY DEF ConnInv
<1>5. BusyInv'
  <2>1. /\ Loop.intake = "read_fd" /\ pc' = "scan" => rset' # {} /\ 0 \notin rset'
        /\ Loop.intake = "read_fd" /\ pc' \in {"accept", "pass"} => 0 \in rset'
    BY DEF BusyInv
  <2>2. Loop.intake = "read_fd" =>
          \A j \in Kids : child'[j] \in {"serve", "ready"} => child[j] \in {"serve", "ready"}
    BY <1>2
  <2>3. QED
    BY <2>1, <2>2, BusyKept
<1>6. RingInv'
  BY RingSame DEF Live
<1>7. QED
  BY <1>2, <1>3, <1>4, <1>5, <1>6

LEMMA WorkerTurnIInv ==
  ASSUME IInv, NEW k \in Kids,
         LockWait(k) \/ SelectListen(k) \/ LockRelease(k) \/ CondWait(k) \/ SpuriousWakeup(k) \/ ServeDone(k)
  PROVE  IInv'
<1> USE DEF IInv
<1>1. ParentTypes /\ WorkerTypes /\ k \in 0..N
  BY Types DEF Kids
<1>2. child[k] \in LoopStates \cup {"none", "zombie", "collected"}
  BY DEF WorkerInv
<1>3. /\ Loop.intake \in {"lock", "select", "accept", "read_fd", "get"}
      /\ conn \in [Kids -> 0..MaxConn] /\ holder \in 0..N /\ 0 \in 0..N /\ 0 \in 0..MaxConn
  BY <1>1, ProgramFacts DEF Loop, WorkerTypes, ParentTypes
<1>4. CASE LockWait(k)
  <2>1. child[k] \in LoopStates /\ "accept" \in LoopStates
    BY <1>2, <1>4 DEF LockWait, LoopStates
  <2>2. QED
    BY <1>1, <1>3, <1>4, <2>1, WorkerTurn DEF LockWait
<1>5. CASE SelectListen(k)
  <2>1. child[k] \in LoopStates /\ "accept" \in LoopStates
    BY <1>2, <1>5 DEF SelectListen, LoopStates
  <2>2. QED
    BY <1>1, <1>3, <1>5, <2>1, WorkerTurn DEF SelectListen
<1>6. CASE LockRelease(k)
  <2>1. child[k] \in LoopStates /\ "serve" \in LoopStates /\ Loop.intake # "read_fd"
    BY <1>2, <1>6 DEF LockRelease, LoopStates
  <2>2. QED
    BY <1>1, <1>3, <1>6, <2>1, WorkerTurn DEF LockRelease
<1>7. CASE CondWait(k)
  <2>1. child[k] \in LoopStates /\ "cond_wait" \in LoopStates
    BY <1>2, <1>3, <1>7 DEF CondWait, LoopStates
  <2>2. QED
    BY <1>1, <1>3, <1>7, <2>1, WorkerTurn DEF CondWait
<1>8. CASE SpuriousWakeup(k)
  <2>1. child[k] \in LoopStates /\ "woken" \in LoopStates
    BY <1>2, <1>3, <1>8 DEF SpuriousWakeup, LoopStates
  <2>2. QED
    BY <1>1, <1>3, <1>8, <2>1, WorkerTurn DEF SpuriousWakeup
<1>9. CASE ServeDone(k)
  <2>1. PICK st \in LoopStates : /\ child' = [child EXCEPT ![k] = st]
                                 /\ st \in {"serve", "ready"} => Loop.intake = "read_fd"
    BY <1>3, <1>9 DEF ServeDone, LoopStates
  <2>2. child[k] = "serve" /\ child[k] \in LoopStates
    BY <1>9, LoopStatesWork DEF ServeDone
  <2>3. conn' \in [Kids -> 0..MaxConn]
    BY <1>3, <1>9 DEF ServeDone
  <2>4. QED
    BY <1>3, <1>9, <2>1, <2>2, <2>3, WorkerTurn DEF ServeDone
<1>10. QED
  BY <1>4, <1>5, <1>6, <1>7, <1>8, <1>9

LEMMA AcceptIInv ==
  ASSUME IInv, NEW k \in Kids, Accept(k)
  PROVE  IInv'
<1> USE DEF IInv
<1>1. ParentTypes /\ WorkerTypes /\ NetTypes /\ PipeTypes /\ RingTypes
  BY Types
<1>2. /\ child[k] = "accept" /\ backlog > 0 /\ backlog' = backlog - 1 /\ accepted' = accepted + 1
      /\ conn' = [conn EXCEPT ![k] = accepted + 1] /\ taken' = taken \cup {accepted + 1}
      /\ UNCHANGED <<prog, poolVars, holder, made, hand, pipeVars, ringVars>>
  BY DEF Accept, Accepts, Starts
<1>3. child[k] \in LoopStates /\ Loop.intake \in {"lock", "select", "accept"}
  <2>1. child[k] \in LoopStates
    BY <1>2 DEF WorkerInv
  <2>2. Loop.intake \in {"lock", "select", "accept", "read_fd", "get"}
    BY <1>1, ProgramFacts DEF Loop, ParentTypes
  <2>3. QED
    BY <1>2, <2>1, <2>2 DEF LoopStates
<1>4. PICK st \in LoopStates : child' = [child EXCEPT ![k] = st]
  <2>1. Loop.lock # "none" <=> Loop.intake = "lock"
    BY <1>1, ProgramFacts DEF Loop, ParentTypes
  <2>2. QED
    BY <1>3, <2>1 DEF Accept, LoopStates
<1>5. /\ WorkerInv' /\ PidsInv' /\ ParentTypes'
      /\ child' \in [Kids -> Working \cup {"none", "zombie", "collected"}]
  BY <1>2, <1>3, <1>4, WorkerMoves
<1>6. accepted + 1 \in Conns /\ accepted + 1 \in 0..MaxConn /\ accepted + 1 <= made
  BY <1>1, <1>2 DEF NetTypes, ConnInv, Conns
<1>7. TypeOK'
  <2>1. PipeTypes' /\ RingTypes'
    BY <1>1, <1>2 DEF PipeTypes, RingTypes
  <2>2. NetTypes'
    BY <1>1, <1>2, <1>6 DEF NetTypes
  <2>3. WorkerTypes'
    BY <1>1, <1>2, <1>5, <1>6 DEF WorkerTypes
  <2>4. QED
    BY <1>5, <2>1, <2>2, <2>3, Types
<1>8. ConnInv'
  <2>1. pc' \notin {"pass", "put"}
    BY <1>2, <1>3 DEF WorkerInv
  <2>2. QED
    BY <1>1, <1>2, <2>1 DEF ConnInv, NetTypes
<1>9. BusyInv' /\ RingInv'
  BY <1>2, <1>3 DEF BusyInv, RingInv, Loop
<1>10. QED
  BY <1>5, <1>7, <1>8, <1>9

LEMMA ReadFdIInv ==
  ASSUME IInv, NEW k \in Kids, ReadFd(k)
  PROVE  IInv'
<1> USE DEF IInv
<1>1. ParentTypes /\ WorkerTypes /\ NetTypes /\ PipeTypes /\ RingTypes
  BY Types
<1>2. /\ child[k] = "read_fd" /\ down[k] # <<>>
      /\ conn' = [conn EXCEPT ![k] = Head(down[k])] /\ taken' = taken \cup {Head(down[k])}
      /\ down' = [down EXCEPT ![k] = Tail(@)] /\ child' = [child EXCEPT ![k] = "serve"]
      /\ UNCHANGED <<prog, poolVars, holder, netVars, accepted, hand, status, navail, up, rset, ringVars>>
  BY DEF ReadFd, Starts
<1>3. child[k] \in LoopStates /\ Loop.intake = "read_fd"
  BY <1>2 DEF WorkerInv, LoopStates
<1>4. /\ WorkerInv' /\ PidsInv' /\ ParentTypes'
      /\ child' \in [Kids -> Working \cup {"none", "zombie", "collected"}]
      /\ \A j \in Kids : child'[j] = IF j = k THEN "serve" ELSE child[j]
  BY <1>2, <1>3, LoopStatesWork, WorkerMoves
<1>5. /\ down[k] \in Seq(Conns) /\ Head(down[k]) \in Conns /\ Tail(down[k]) \in Seq(Conns)
      /\ Len(down[k]) \in Nat /\ Len(Tail(down[k])) = Len(down[k]) - 1
  <2>1. down[k] \in Seq(Conns)
    BY <1>1 DEF PipeTypes
  <2>2. QED
    BY <1>2, <2>1
<1>6. TypeOK'
  <2>1. NetTypes' /\ RingTypes'
    BY <1>1, <1>2 DEF NetTypes, RingTypes
  <2>2. PipeTypes'
    BY <1>1, <1>2, <1>5 DEF PipeTypes
  <2>3. Head(down[k]) \in 0..MaxConn
    BY <1>5 DEF Conns
  <2>4. WorkerTypes'
    BY <1>1, <1>2, <1>4, <1>5, <2>3 DEF WorkerTypes
  <2>5. QED
    BY <1>4, <2>1, <2>2, <2>4, Types
<1>7. ConnInv' /\ RingInv'
  BY <1>2, <1>3 DEF ConnInv, RingInv, Loop
<1>8. BusyInv'
  <2>1. ASSUME NEW j \in Kids
        PROVE  Len(down'[j]) + up'[j] + (IF child'[j] \in {"serve", "ready"} THEN 1 ELSE 0) <= status'[j]
    <3>1. Len(down[j]) + up[j] + (IF child[j] \in {"serve", "ready"} THEN 1 ELSE 0) <= status[j]
      BY <1>3 DEF BusyInv
    <3>2. up[j] \in Nat /\ status[j] \in 0..1 /\ up'[j] = up[j] /\ status'[j] = status[j]
      BY <1>1, <1>2 DEF PipeTypes
    <3>3. CASE j = k
      <4>1. Len(down'[j]) = Len(down[j]) - 1 /\ child'[j] = "serve" /\ child[j] = "read_fd" /\ Len(down[j]) \in Nat
        BY <1>1, <1>2, <1>4, <1>5, <3>3 DEF PipeTypes
      <4>2. QED
        BY <3>1, <3>2, <4>1
    <3>4. CASE j # k
      <4>1. down'[j] = down[j] /\ child'[j] = child[j]
        BY <1>1, <1>2, <1>4, <3>4 DEF PipeTypes
      <4>2. QED
        BY <3>1, <3>2, <4>1
    <3>5. QED
      BY <3>3, <3>4
  <2>2. QED
    BY <1>2, <2>1 DEF BusyInv, Loop
<1>9. QED
  BY <1>4, <1>6, <1>7, <1>8

LEMMA WriteReadyIInv ==
  ASSUME IInv, NEW k \in Kids, WriteReady(k), ParentEndOpen(k)
  PROVE  IInv'
<1> USE DEF IInv
<1>1. ParentTypes /\ WorkerTypes /\ NetTypes /\ PipeTypes /\ RingTypes
  BY Types
<1>2. /\ child[k] = "ready" /\ up' = [up EXCEPT ![k] = @ + 1]
      /\ child' = [child EXCEPT ![k] = Loop.intake]
      /\ UNCHANGED <<prog, poolVars, conn, holder, netVars, accepted, hand, taken, status, navail, down,
                     rset, ringVars>>
  BY DEF WriteReady
<1>3. child[k] \in LoopStates /\ Loop.intake = "read_fd" /\ "read_fd" \in LoopStates
  BY <1>2 DEF WorkerInv, LoopStates
<1>4. /\ WorkerInv' /\ PidsInv' /\ ParentTypes'
      /\ child' \in [Kids -> Working \cup {"none", "zombie", "collected"}]
      /\ \A j \in Kids : child'[j] = IF j = k THEN "read_fd" ELSE child[j]
  BY <1>2, <1>3, WorkerMoves
<1>5. \A j \in Kids : up'[j] = IF j = k THEN up[j] + 1 ELSE up[j]
  BY <1>1, <1>2 DEF PipeTypes
<1>6. TypeOK'
  <2>1. NetTypes' /\ RingTypes' /\ WorkerTypes'
    BY <1>1, <1>2, <1>4 DEF NetTypes, RingTypes, WorkerTypes
  <2>2. PipeTypes'
    BY <1>1, <1>2 DEF PipeTypes
  <2>3. QED
    BY <1>4, <2>1, <2>2, Types
<1>7. ConnInv' /\ RingInv'
  BY <1>2, <1>3 DEF ConnInv, RingInv, Loop
<1>8. BusyInv'
  <2>1. ASSUME NEW j \in Kids
        PROVE  Len(down'[j]) + up'[j] + (IF child'[j] \in {"serve", "ready"} THEN 1 ELSE 0) <= status'[j]
    <3>1. Len(down[j]) + up[j] + (IF child[j] \in {"serve", "ready"} THEN 1 ELSE 0) <= status[j]
      BY <1>3 DEF BusyInv
    <3>2. /\ up[j] \in Nat /\ status[j] \in 0..1 /\ down[j] \in Seq(Conns)
          /\ down'[j] = down[j] /\ status'[j] = status[j]
      BY <1>1, <1>2 DEF PipeTypes
    <3>3. Len(down[j]) \in Nat
      BY <3>2
    <3>4. CASE j = k
      <4>1. up'[j] = up[j] + 1 /\ child'[j] = "read_fd" /\ child[j] = "ready"
        BY <1>2, <1>4, <1>5, <3>4
      <4>2. QED
        BY <3>1, <3>2, <3>3, <4>1
    <3>5. CASE j # k
      <4>1. up'[j] = up[j] /\ child'[j] = child[j]
        BY <1>4, <1>5, <3>5
      <4>2. QED
        BY <3>1, <3>2, <4>1
    <3>6. QED
      BY <3>4, <3>5
  <2>2. QED
    BY <1>2, <2>1 DEF BusyInv, Loop
<1>9. QED
  BY <1>4, <1>6, <1>7, <1>8

\* A thread takes the connection at the front of the ring.
LEMMA GetIInv ==
  ASSUME IInv, NEW k \in Kids, Get(k)
  PROVE  IInv'
<1> USE DEF IInv
<1>1. ParentTypes /\ WorkerTypes /\ NetTypes /\ PipeTypes /\ RingTypes
  BY Types
<1>2. /\ child[k] \in {"get", "woken"} /\ iget # iput
      /\ conn' = [conn EXCEPT ![k] = ring[iget]] /\ taken' = taken \cup {ring[iget]}
      /\ iget' = Succ(iget) /\ child' = [child EXCEPT ![k] = "serve"]
      /\ UNCHANGED <<prog, poolVars, holder, netVars, accepted, hand, pipeVars, ring, iput>>
  BY DEF Get, Gets, Empty, Starts
<1>3. child[k] \in LoopStates /\ Loop.intake = "get"
  <2>1. child[k] \in LoopStates
    BY <1>2 DEF WorkerInv
  <2>2. Loop.intake \in {"lock", "select", "accept", "read_fd", "get"}
    BY <1>1, ProgramFacts DEF Loop, ParentTypes
  <2>3. QED
    BY <1>2, <2>1, <2>2 DEF LoopStates
<1>4. Live
  <2>1. Threads
    BY <1>1, <1>3, ProgramFacts DEF Threads, Loop, ParentTypes
  <2>2. child[k] \in Working
    BY <1>3, LoopStatesWork
  <2>3. QED
    BY <2>1, <2>2 DEF WorkerInv
<1>5. /\ WorkerInv' /\ PidsInv' /\ ParentTypes'
      /\ child' \in [Kids -> Working \cup {"none", "zombie", "collected"}]
  BY <1>2, <1>3, LoopStatesWork, WorkerMoves
<1>6. PICK t \in 0..MaxConn : RingFrom(t)
  BY <1>3, <1>4 DEF RingInv
<1>7. PICK len \in 1..(MAXNCLI - 1) : len = RingLen
  <2>1. iget \in 0..(MAXNCLI - 1) /\ iput \in 0..(MAXNCLI - 1)
    BY <1>1 DEF RingTypes
  <2>2. Dist(iget, iput) \in 0..(MAXNCLI - 1) /\ Dist(iget, iput) # 0
    BY <1>2, <2>1, DistIs
  <2>3. QED
    BY <2>2 DEF RingLen
<1>8. /\ Slot(iget, 0) = iget /\ RingLen' = len - 1 /\ iget' \in 0..(MAXNCLI - 1)
      /\ \A s \in 0..(len - 2) : Slot(iget', s) = Slot(iget, s + 1)
  <2>1. iget \in 0..(MAXNCLI - 1) /\ iput \in 0..(MAXNCLI - 1) /\ RingLen' = Dist(Succ(iget), iput)
    BY <1>1, <1>2 DEF RingTypes, RingLen
  <2>2. /\ Slot(iget, 0) = iget /\ Dist(Succ(iget), iput) = Dist(iget, iput) - 1
        /\ \A s \in 0..(Dist(iget, iput) - 2) : Slot(Succ(iget), s) = Slot(iget, s + 1)
    BY <1>2, <2>1, RingGet
  <2>3. Succ(iget) \in 0..(MAXNCLI - 1)
    BY <2>1, DistIs
  <2>4. QED
    BY <1>2, <1>7, <2>1, <2>2, <2>3 DEF RingLen
<1>9. taken = 1..t /\ accepted = t + len + (IF pc = "put" THEN 1 ELSE 0)
      /\ \A s \in 0..(len - 1) : ring[Slot(iget, s)] = t + 1 + s
  BY <1>6, <1>7 DEF RingFrom
<1>10. ring[iget] = t + 1 /\ t + 1 \in 0..MaxConn /\ t + 1 \in Conns
  <2>1. 0 \in 0..(len - 1)
    OBVIOUS
  <2>2. ring[iget] = t + 1 + 0
    BY <1>8, <1>9, <2>1
  <2>3. ring[iget] \in 0..MaxConn
    BY <1>1 DEF RingTypes
  <2>4. QED
    BY <2>2, <2>3 DEF Conns
<1>11. TypeOK'
  <2>1. NetTypes' /\ PipeTypes'
    BY <1>1, <1>2 DEF NetTypes, PipeTypes
  <2>2. RingTypes'
    BY <1>1, <1>2, <1>8 DEF RingTypes
  <2>3. WorkerTypes'
    BY <1>1, <1>2, <1>5, <1>10 DEF WorkerTypes
  <2>4. QED
    BY <1>5, <2>1, <2>2, <2>3, Types
<1>12. ConnInv' /\ BusyInv'
  BY <1>2, <1>3 DEF ConnInv, BusyInv, Loop
<1>13. RingInv'
  <2>1. ASSUME NEW s \in 0..((len - 1) - 1)
        PROVE  ring'[Slot(iget', s)] = (t + 1) + 1 + s
    <3>1. s \in 0..(len - 2) /\ s + 1 \in 0..(len - 1)
      OBVIOUS
    <3>2. Slot(iget', s) = Slot(iget, s + 1) /\ ring[Slot(iget, s + 1)] = t + 1 + (s + 1)
      BY <1>8, <1>9, <3>1
    <3>3. QED
      BY <1>2, <3>2
  <2>2. taken' = 1..(t + 1)
    BY <1>2, <1>9, <1>10
  <2>3. accepted' = (t + 1) + (len - 1) + (IF pc' = "put" THEN 1 ELSE 0)
    BY <1>2, <1>9
  <2>4. RingFrom(t + 1)'
    BY <1>8, <2>1, <2>2, <2>3 DEF RingFrom
  <2>5. pc' # "put" => hand' = 0
    BY <1>2, <1>3, <1>4 DEF RingInv
  <2>6. QED
    BY <1>10, <2>4, <2>5 DEF RingInv
<1>14. QED
  BY <1>5, <1>11, <1>12, <1>13

-----------------------------------------------------------------------------
LEMMA StepIInv == IInv /\ [Next]_vars => IInv'
<1> SUFFICES ASSUME IInv, [Next]_vars
             PROVE  IInv'
  OBVIOUS
<1>1. CASE ChildMake
  BY <1>1, ChildMakeIInv
<1>2. CASE InstallHandler \/ KilledAll \/ WaitDone
  BY <1>2, ParentMovesIInv
<1>3. CASE Kill
  BY <1>3, KillIInv
<1>4. CASE Wait
  BY <1>4, WaitIInv
<1>5. CASE Select
  BY <1>5, SelectIInv
<1>6. CASE ParentAccept
  BY <1>6, ParentAcceptIInv
<1>7. CASE Pass
  BY <1>7, PassIInv
<1>8. CASE ScanPipe
  BY <1>8, ScanPipeIInv
<1>9. CASE Put
  BY <1>9, PutIInv
<1>10. CASE Interrupt
  BY <1>10, InterruptIInv
<1>11. CASE Connect \/ Abort \/ Idle \/ UNCHANGED vars
  BY <1>11, NetIInv DEF Idle
<1>12. ASSUME NEW k \in Kids, Child(k) \/ SpuriousWakeup(k) \/ ChildEnds(k)
       PROVE  IInv'
  <2>1. CASE LockWait(k) \/ SelectListen(k) \/ LockRelease(k) \/ CondWait(k) \/ SpuriousWakeup(k) \/ ServeDone(k)
    BY <2>1, WorkerTurnIInv
  <2>2. CASE Accept(k)
    BY <2>2, AcceptIInv
  <2>3. CASE ReadFd(k)
    BY <2>3, ReadFdIInv
  <2>4. CASE ReadFdEof(k) \/ ChildEnds(k)
    BY <2>4, WorkerEndsIInv
  <2>5. CASE WriteReady(k)
    BY <2>5, WriteReadyIInv, WorkerEndsIInv
  <2>6. CASE Get(k)
    BY <2>6, GetIInv
  <2>7. QED
    BY <1>12, <2>1, <2>2, <2>3, <2>4, <2>5, <2>6 DEF Child
<1>13. QED
  BY <1>1, <1>2, <1>3, <1>4, <1>5, <1>6, <1>7, <1>8, <1>9, <1>10, <1>11, <1>12 DEF Next, Parent

\* The invariant of the pool servers holds in every state of every program
\* considered.
THEOREM Invariance == Spec => []IInv
<1>1. Init => IInv
  BY InitIInv
<1>2. IInv /\ [Next]_vars => IInv'
  BY StepIInv
<1>3. QED
  BY <1>1, <1>2, PTL DEF Spec

\* Every variable keeps its type; the indexes of the ring and of the fork and
\* kill loops stay inside their arrays, for every size of either.
THEOREM TypeCorrect == Spec => []TypeOK
<1>1. IInv => TypeOK
  BY DEF IInv
<1>2. QED
  BY <1>1, Invariance, PTL

\* sig_int of the preforking servers signals its own children only, each
\* before it has been waited for: the handler is installed after the fork
\* loop and wait is called after the kill loop.
THEOREM SignalsOwn == Spec => []KillsOwnChildren
<1>1. IInv => KillsOwnChildren
  <2> SUFFICES ASSUME IInv, pc = "kill", NEW k \in i..N
               PROVE  pids[k] # 0 /\ child[pids[k]] \in Working \cup {"zombie"}
    BY DEF KillsOwnChildren
  <2> USE DEF IInv
  <2>1. ParentTypes /\ WorkerTypes
    BY Types
  <2>2. k \in Kids /\ k # 0
    BY <2>1 DEF ParentTypes, Kids
  <2>3. pids[k] = k /\ child[k] # "none" /\ child[k] # "collected"
    BY <2>2 DEF PidsInv
  <2>4. child[k] \in Working \cup {"none", "zombie", "collected"}
    BY <2>1, <2>2 DEF WorkerTypes
  <2>5. QED
    BY <2>2, <2>3, <2>4
<1>2. QED
  BY <1>1, Invariance, PTL

\* The ring of serv08 holds the connections accepted and not taken, in the
\* order they were accepted, whatever its size and the number of threads.
THEOREM RingOrdered == Spec => []RingKept
<1>1. IInv => RingKept
  <2> SUFFICES ASSUME IInv, Loop.intake = "get", Live
               PROVE  RingKept
    BY DEF RingKept
  <2> USE DEF IInv
  <2>1. ParentTypes /\ NetTypes /\ RingTypes
    BY Types
  <2>2. PICK t \in 0..MaxConn : RingFrom(t)
    BY DEF RingInv
  <2>3. PICK len \in 0..(MAXNCLI - 1) : len = RingLen
    BY <2>1, DistIs DEF RingTypes, RingLen
  <2>4. \A s \in 0..(len - 1) : ring[(iget + s) % MAXNCLI] = t + 1 + s
    BY <2>2, <2>3 DEF RingFrom, Slot
  <2>5. {ring[(iget + s) % MAXNCLI] : s \in 0..(len - 1)} = (t + 1)..(t + len)
    <3>1. ASSUME NEW s \in 0..(len - 1)
          PROVE  ring[(iget + s) % MAXNCLI] \in (t + 1)..(t + len)
      BY <2>4
    <3>2. ASSUME NEW c \in (t + 1)..(t + len)
          PROVE  \E s \in 0..(len - 1) : ring[(iget + s) % MAXNCLI] = c
      <4>1. c - t - 1 \in 0..(len - 1) /\ t + 1 + (c - t - 1) = c
        OBVIOUS
      <4>2. ring[(iget + (c - t - 1)) % MAXNCLI] = t + 1 + (c - t - 1)
        BY <2>4, <4>1
      <4>3. QED
        BY <4>1, <4>2
    <3>3. QED
      BY <3>1, <3>2
  <2>6. (t + 1)..(t + len) = (1..accepted) \ (taken \cup {hand})
    <3>1. taken = 1..t /\ accepted = t + len + (IF pc = "put" THEN 1 ELSE 0)
      BY <2>2, <2>3 DEF RingFrom
    <3>2. CASE pc = "put"
      BY <3>1, <3>2 DEF ConnInv
    <3>3. CASE pc # "put"
      BY <3>1, <3>3 DEF RingInv
    <3>4. QED
      BY <3>2, <3>3
  <2>7. ASSUME NEW s \in 0..(len - 2)
        PROVE  ring[(iget + s) % MAXNCLI] < ring[(iget + s + 1) % MAXNCLI]
    <3>1. s \in 0..(len - 1) /\ s + 1 \in 0..(len - 1) /\ iget + (s + 1) = iget + s + 1
      BY <2>1 DEF RingTypes
    <3>2. ring[(iget + s) % MAXNCLI] = t + 1 + s /\ ring[(iget + (s + 1)) % MAXNCLI] = t + 1 + (s + 1)
      BY <2>4, <3>1
    <3>3. QED
      BY <3>1, <3>2
  <2>8. len = IF iput >= iget THEN iput - iget ELSE iput + MAXNCLI - iget
    BY <2>3 DEF RingLen, Dist
  <2>9. QED
    BY <2>5, <2>6, <2>7, <2>8 DEF RingKept
<1>2. QED
  BY <1>1, Invariance, PTL
===============================================================================
