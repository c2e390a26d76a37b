--------------------------- MODULE SelectPollProofs ---------------------------
(***************************************************************************)
(* tcp_serv_select01 keeps its tables in agreement, never skips a readable *)
(* descriptor, never blocks in Read and never runs out of entries of       *)
(* client[], for every number of descriptors and entries.                  *)
(*                                                                         *)
(* The invariant behind nready: in the middle of a round, nready is the    *)
(* number of entries from i to maxi whose descriptor Select reported, and  *)
(* all of those are still readable because only this process reads them.   *)
(*                                                                         *)
(* The second part does the same for tcp_serv_poll01; both are the service *)
(* ConnService.  The constants and variables the two servers have in       *)
(* common are declared once; assumptions about client[] of                 *)
(* tcp_serv_poll01 are hypotheses of its theorems.                         *)
(***************************************************************************)
EXTENDS SelectServer, FiniteSetTheorems, TLAPS

\* The entries the loop has still to serve in this round.
Todo == {j \in Entries : i <= j /\ j <= maxi /\ client[j] >= 0 /\ client[j] \in rset}

RoundInv ==
    /\ pc = "select" => nready = 0
    /\ pc \in {"scan", "write"} => nready = Cardinality(Todo)
    /\ pc = "accept" => /\ i = 0
                        /\ nready = Cardinality(Todo) + 1
                        /\ rset \subseteq allset
    /\ pc = "write" => i \in Todo

ReadyInv ==
    /\ pc \in {"accept", "scan"} => \A j \in Todo : ReadReady(client[j])
    /\ pc = "write" => \A j \in Todo \ {i} : ReadReady(client[j])

IInv == TypeOK /\ TablesAgree /\ RoundInv /\ ReadyInv /\ NeverTooMany

-----------------------------------------------------------------------------
USE ConnAssumption, EntriesAssumption DEF ConnTypeOK, connVars, tables

\* Descriptors and entries are natural numbers, in finite supply.
LEMMA Ranges ==
  /\ Entries \subseteq Nat /\ ConnFds \subseteq Nat
  /\ ListenFd \notin ConnFds /\ -1 \notin ConnFds
  /\ IsFiniteSet(Entries) /\ Cardinality(Entries) = FD_SETSIZE
  /\ IsFiniteSet(ConnFds) /\ Cardinality(ConnFds) <= FD_SETSIZE
<1>1. IsFiniteSet(Entries) /\ Cardinality(Entries) = FD_SETSIZE
  BY FS_Interval DEF Entries
<1>2. IsFiniteSet(ConnFds) /\ Cardinality(ConnFds) <= FD_SETSIZE
  BY FS_Interval DEF ConnFds
<1>3. QED
  BY <1>1, <1>2 DEF Entries, ConnFds

LEMMA EntryTypes ==
  ASSUME TypeOK
  PROVE  /\ i \in Int /\ maxi \in Int
         /\ \A j \in Entries : /\ j \in Int /\ client[j] \in Int
                               /\ client[j] >= 0 => client[j] \in ConnFds
<1>1. i \in Int /\ maxi \in Int
  BY DEF TypeOK
<1>2. ASSUME NEW j \in Entries
      PROVE  /\ j \in Int /\ client[j] \in Int
             /\ client[j] >= 0 => client[j] \in ConnFds
  <2>1. client[j] \in ConnFds \cup {-1}
    BY DEF TypeOK
  <2>2. QED
    BY <2>1, Ranges DEF Entries, ConnFds
<1>3. QED
  BY <1>1, <1>2

LEMMA TodoFinite == IsFiniteSet(Todo) /\ Cardinality(Todo) \in Nat
<1>1. Todo \in SUBSET Entries
  BY DEF Todo
<1>2. QED
  BY <1>1, Ranges, FS_Subset, FS_CardinalityType

\* While there is a descriptor to accept with, there is an entry to keep it in.
LEMMA EntryLeft ==
  ASSUME TypeOK, TablesAgree, FreeFds # {}
  PROVE  FreeEntries # {}
<1> SUFFICES ASSUME FreeEntries = {}
             PROVE  FALSE
  OBVIOUS
<1>1. PICK fd \in ConnFds : fd \notin open
  BY DEF FreeFds
<1>2. IsFiniteSet(ConnFds \ {fd}) /\ Cardinality(ConnFds \ {fd}) < FD_SETSIZE
  <2>1. IsFiniteSet(ConnFds) /\ Cardinality(ConnFds) <= FD_SETSIZE
    BY Ranges
  <2>2. Cardinality(ConnFds) \in Nat
    BY <2>1, FS_CardinalityType
  <2>3. IsFiniteSet(ConnFds \ {fd}) /\ Cardinality(ConnFds \ {fd}) = Cardinality(ConnFds) - 1
    BY <2>1, FS_RemoveElement
  <2>4. QED
    BY <2>1, <2>2, <2>3
<1>3. \A j \in Entries : client[j] >= 0 /\ client[j] \in ConnFds
  <2> TAKE j \in Entries
  <2>1. client[j] \in ConnFds \cup {-1} /\ ~(client[j] < 0)
    BY DEF TypeOK, FreeEntries
  <2>2. QED
    BY <2>1 DEF ConnFds
<1>4. \A j \in Entries : client[j] \in ConnFds \ {fd}
  BY <1>1, <1>3 DEF TablesAgree, Used
<1>5. client \in [Entries -> ConnFds \ {fd}]
  BY <1>4 DEF TypeOK
<1>6. \E j, k \in Entries : j # k /\ client[j] = client[k]
  BY <1>2, <1>5, Ranges, FS_PigeonHole
<1>7. QED
  BY <1>3, <1>6 DEF TablesAgree, Used

\* What Select reported, counted in entries: one per descriptor.
LEMMA ReportedEntries ==
  ASSUME TypeOK, TablesAgree, NEW R \in SUBSET open
  PROVE  LET J == {j \in Entries : client[j] >= 0 /\ client[j] \in R}
         IN  IsFiniteSet(R) /\ Cardinality(J) = Cardinality(R)
<1> DEFINE J == {j \in Entries : client[j] >= 0 /\ client[j] \in R}
           f == [j \in J |-> client[j]]
<1>1. IsFiniteSet(J) /\ IsFiniteSet(R)
  <2>1. J \in SUBSET Entries /\ R \in SUBSET ConnFds
    BY DEF TypeOK
  <2>2. QED
    BY <2>1, Ranges, FS_Subset
<1>2. f \in [J -> R]
  OBVIOUS
<1>3. \A j, k \in J : f[j] = f[k] => j = k
  BY DEF TablesAgree, Used
<1>4. \A fd \in R : \E j \in J : f[j] = fd
  BY Ranges DEF TablesAgree, Used, TypeOK
<1>5. f \in Bijection(J, R)
  BY <1>2, <1>3, <1>4 DEF Bijection, Injection, Surjection, IsInjective
<1>6. Cardinality(J) = Cardinality(R)
  BY <1>1, <1>5, FS_Bijection DEF ExistsBijection
<1>7. QED
  BY <1>1, <1>6

-----------------------------------------------------------------------------
LEMMA InitIInv == Init => IInv
<1> SUFFICES ASSUME Init
             PROVE  IInv
  OBVIOUS
<1> USE DEF Init, ConnInit
<1>1. TypeOK
  BY Ranges DEF TypeOK, Entries
<1>2. TablesAgree
  BY DEF TablesAgree, Used
<1>3. RoundInv /\ ReadyInv /\ NeverTooMany
  BY DEF RoundInv, ReadyInv, NeverTooMany
<1>4. QED
  BY <1>1, <1>2, <1>3 DEF IInv

\* Select starts a round: nready counts the entries to serve, and the
\* listening descriptor if it is readable.
LEMMA SelectIInv == IInv /\ Select => IInv'
<1> SUFFICES ASSUME IInv, Select
             PROVE  IInv'
  OBVIOUS
<1> USE DEF IInv, Select
<1> DEFINE R == rset' \ {ListenFd}
           J == {j \in Entries : client[j] >= 0 /\ client[j] \in R}
<1>1. R \in SUBSET open /\ rset' \subseteq allset
  BY DEF TablesAgree
<1>2. IsFiniteSet(R) /\ Cardinality(J) = Cardinality(R)
  BY <1>1, ReportedEntries
<1>3. Todo' = J
  <2>1. \A j \in Entries : client[j] >= 0 => 0 <= j /\ j <= maxi
    BY Ranges DEF TablesAgree, Used
  <2>2. \A j \in Entries : client[j] >= 0 => client[j] # ListenFd
    BY Ranges DEF TypeOK
  <2>3. QED
    BY <2>1, <2>2 DEF Todo
<1>4. IsFiniteSet(rset') /\ Cardinality(rset') = IF ListenFd \in rset' THEN Cardinality(R) + 1 ELSE Cardinality(R)
  <2>1. CASE ListenFd \in rset'
    <3>1. rset' = R \cup {ListenFd} /\ ListenFd \notin R
      BY <2>1
    <3>2. QED
      BY <1>2, <2>1, <3>1, FS_AddElement
  <2>2. CASE ListenFd \notin rset'
    BY <1>2, <2>2
  <2>3. QED
    BY <2>1, <2>2
<1>5. Cardinality(rset') \in Nat
  BY <1>4, FS_CardinalityType
<1>6. TypeOK'
  BY <1>1, <1>5 DEF TypeOK
<1>7. TablesAgree'
  BY DEF TablesAgree, Used
<1>8. RoundInv'
  BY <1>1, <1>2, <1>3, <1>4 DEF RoundInv
<1>9. ReadyInv'
  BY <1>3, Ranges DEF ReadyInv, ReadReady, Readable, TypeOK
<1>10. QED
  BY <1>6, <1>7, <1>8, <1>9 DEF NeverTooMany

\* The new connection gets an entry; as it was not open when Select was
\* called, it is not one of the entries to serve in this round.
LEMMA AcceptIInv == IInv /\ Accept => IInv'
<1> SUFFICES ASSUME IInv, Accept
             PROVE  IInv'
  OBVIOUS
<1> USE DEF IInv
<1>1. PICK connfd \in FreeFds :
        /\ open' = open \cup {connfd}
        /\ \E e \in FreeEntries :
             /\ client' = [client EXCEPT ![e] = connfd]
             /\ allset' = allset \cup {connfd}
             /\ maxfd' = IF connfd > maxfd THEN connfd ELSE maxfd
             /\ maxi' = IF e > maxi THEN e ELSE maxi
             /\ nready' = nready - 1
             /\ pc' = IF nready' <= 0 THEN "select" ELSE "scan"
  BY EntryLeft DEF Accept, AcceptAs, Lowest, NewMaxfd, NewMaxi, AfterAccept
<1>2. PICK e \in FreeEntries :
             /\ client' = [client EXCEPT ![e] = connfd]
             /\ allset' = allset \cup {connfd}
             /\ maxfd' = IF connfd > maxfd THEN connfd ELSE maxfd
             /\ maxi' = IF e > maxi THEN e ELSE maxi
             /\ nready' = nready - 1
             /\ pc' = IF nready' <= 0 THEN "select" ELSE "scan"
  BY <1>1
<1>3. /\ pc = "accept" /\ backlog > 0 /\ backlog' = backlog - 1
      /\ UNCHANGED <<rset, i, inq, fin, rst, outq>>
  BY DEF Accept, AcceptAs
<1>4. connfd \in ConnFds /\ connfd \notin open /\ connfd >= 0 /\ connfd # ListenFd
  BY Ranges DEF FreeFds
<1>5. e \in Entries /\ client[e] = -1 /\ e \in 0..(FD_SETSIZE - 1)
  <2>1. e \in Entries /\ client[e] < 0 /\ client[e] \in ConnFds \cup {-1}
    BY DEF FreeEntries, TypeOK
  <2>2. client[e] = -1
    BY <2>1 DEF ConnFds
  <2>3. QED
    BY <2>1, <2>2 DEF Entries
<1>6. \A j \in Entries : client'[j] = IF j = e THEN connfd ELSE client[j]
  BY <1>2, <1>5 DEF TypeOK
<1>7. connfd \notin rset
  BY <1>3, <1>4 DEF RoundInv, TablesAgree
<1>8. Todo' = Todo
  <2>1. \A j \in Entries : client[j] >= 0 => j <= maxi /\ j <= maxi'
    BY <1>2, <1>5, Ranges DEF TablesAgree, Used, TypeOK
  <2>2. e \notin Todo /\ e \notin Todo'
    <3>1. e \notin Todo
      BY <1>5 DEF Todo
    <3>2. client'[e] \notin rset'
      BY <1>3, <1>5, <1>6, <1>7
    <3>3. QED
      BY <3>1, <3>2 DEF Todo
  <2>3. \A j \in Entries : j \in Todo' <=> j \in Todo
    BY <1>3, <1>6, <2>1, <2>2 DEF Todo
  <2>4. QED
    BY <2>3 DEF Todo
<1>9. nready' = Cardinality(Todo) /\ nready' \in Nat
  BY <1>2, <1>3, TodoFinite DEF RoundInv
<1>10. TypeOK'
  <2>1. client' \in [Entries -> ConnFds \cup {-1}]
    BY <1>2, <1>4 DEF TypeOK
  <2>2. maxfd' \in ListenFd..(OpenMax - 1)
    BY <1>2, <1>4 DEF TypeOK, ConnFds
  <2>3. maxi' \in -1..(FD_SETSIZE - 1)
    BY <1>2, <1>5 DEF TypeOK
  <2>4. allset' \subseteq ConnFds \cup {ListenFd} /\ open' \subseteq ConnFds
    BY <1>1, <1>2, <1>4 DEF TypeOK
  <2>5. backlog' \in 0..LISTENQ
    BY <1>3 DEF TypeOK
  <2>6. pc' \in {"select", "scan"}
    BY <1>2
  <2>7. QED
    BY <1>3, <1>9, <2>1, <2>2, <2>3, <2>4, <2>5, <2>6 DEF TypeOK
<1>11. TablesAgree'
  <2>1. Used' = Used \cup {e}
    BY <1>4, <1>5, <1>6 DEF Used
  <2>2. open' = {client'[j] : j \in Used'}
    <3>1. client'[e] = connfd /\ \A j \in Used : client'[j] = client[j]
      BY <1>5, <1>6 DEF Used
    <3>2. {client'[j] : j \in Used \cup {e}} = {client[j] : j \in Used} \cup {connfd}
      BY <3>1
    <3>3. QED
      BY <1>1, <2>1, <3>2 DEF TablesAgree
  <2>3. \A j, k \in Used' : client'[j] = client'[k] => j = k
    BY <1>4, <1>5, <1>6, <2>1 DEF TablesAgree, Used
  <2>4. \A j \in Used' : j <= maxi'
    BY <1>2, <1>5, <2>1, Ranges DEF TablesAgree, Used, TypeOK
  <2>5. allset' = open' \cup {ListenFd}
    BY <1>1, <1>2 DEF TablesAgree
  <2>6. \A fd \in allset' : fd <= maxfd'
    BY <1>2, <1>4, Ranges DEF TablesAgree, TypeOK
  <2>7. QED
    BY <2>2, <2>3, <2>4, <2>5, <2>6 DEF TablesAgree
<1>12. RoundInv'
  <2>1. pc' \in {"select", "scan"} /\ (pc' = "select" => nready' = 0)
    <3>1. nready' \in Nat
      BY <1>9
    <3>2. pc' = IF nready' <= 0 THEN "select" ELSE "scan"
      BY <1>2
    <3>3. QED
      BY <3>1, <3>2
  <2>2. QED
    BY <1>8, <1>9, <2>1, Zenon DEF RoundInv
<1>13. ReadyInv'
  <2>1. \A j \in Todo : client'[j] = client[j]
    <3>1. \A j \in Todo : j \in Entries /\ j # e
      BY <1>5 DEF Todo
    <3>2. QED
      BY <1>6, <3>1
  <2>2. QED
    BY <1>2, <1>3, <1>8, <2>1 DEF ReadyInv, ReadReady
<1>14. QED
  BY <1>2, <1>10, <1>11, <1>12, <1>13 DEF NeverTooMany

\* Leaving entry i, once it has been served or need not be.
LEMMA TodoStep ==
  ASSUME TypeOK, i \in Entries
  PROVE  LET Rest == {j \in Entries : i + 1 <= j /\ j <= maxi /\ client[j] >= 0 /\ client[j] \in rset}
         IN  /\ Rest = Todo \ {i}
             /\ i \in Todo => Cardinality(Rest) = Cardinality(Todo) - 1
<1> DEFINE Rest == {j \in Entries : i + 1 <= j /\ j <= maxi /\ client[j] >= 0 /\ client[j] \in rset}
<1>1. \A j \in Entries : i + 1 <= j <=> i <= j /\ j # i
  BY Ranges
<1>2. Rest = Todo \ {i}
  BY <1>1 DEF Todo
<1>3. QED
  BY <1>2, TodoFinite, FS_RemoveElement

\* An entry that is free, or was not reported, is not among those to serve.
LEMMA ScanIInv == IInv /\ Scan => IInv'
<1> SUFFICES ASSUME IInv, Scan
             PROVE  IInv'
  OBVIOUS
<1> USE DEF IInv
<1>0. i > maxi \/ i <= maxi
  BY DEF TypeOK
<1>1. CASE i <= maxi
  <2>0. ~(i > maxi)
    BY <1>1 DEF TypeOK
  <2>1. /\ pc = "scan" /\ i <= maxi /\ i' = i + 1
        /\ UNCHANGED <<pc, rset, nready, client, allset, maxfd, maxi, open,
                       backlog, inq, fin, rst, outq>>
    BY <1>1, <2>0 DEF Scan
  <2>2. i \in Entries /\ i' \in 0..FD_SETSIZE
    BY <2>1 DEF TypeOK, Entries
  <2>3. i \notin Todo
    <3>1. client[i] < 0 \/ client[i] \notin rset
      BY <1>1, <2>0 DEF Scan
    <3>2. client[i] \in Int
      BY <2>2, EntryTypes
    <3>3. QED
      BY <3>1, <3>2 DEF Todo
  <2>4. Todo' = Todo
    BY <2>1, <2>2, <2>3, TodoStep DEF Todo
  <2>5. TypeOK'
    BY <2>1, <2>2 DEF TypeOK
  <2>6. TablesAgree' /\ NeverTooMany'
    BY <2>1 DEF TablesAgree, Used, NeverTooMany
  <2>7. RoundInv'
    BY <2>1, <2>4 DEF RoundInv
  <2>8. ReadyInv'
    BY <2>1, <2>4 DEF ReadyInv, ReadReady
  <2>9. QED
    BY <2>5, <2>6, <2>7, <2>8
<1>2. CASE i > maxi
  <2>1. /\ pc = "scan" /\ i > maxi /\ pc' = "select"
        /\ UNCHANGED <<i, rset, nready, client, allset, maxfd, maxi, open,
                       backlog, inq, fin, rst, outq>>
    BY <1>2 DEF Scan
  <2>2. Todo = {}
    <3>1. \A j \in Entries : ~(i <= j /\ j <= maxi)
      BY <2>1, EntryTypes
    <3>2. QED
      BY <3>1 DEF Todo
  <2>3. nready = 0
    BY <2>1, <2>2, FS_EmptySet DEF RoundInv
  <2>4. TypeOK'
    BY <2>1 DEF TypeOK
  <2>5. TablesAgree' /\ NeverTooMany'
    BY <2>1 DEF TablesAgree, Used, NeverTooMany
  <2>6. RoundInv' /\ ReadyInv'
    BY <2>1, <2>3 DEF RoundInv, ReadyInv
  <2>7. QED
    BY <2>4, <2>5, <2>6
<1>3. QED
  BY <1>0, <1>1, <1>2

\* Read takes data from the descriptor of entry i only.
LEMMA ReadDataIInv == IInv /\ ReadData => IInv'
<1> SUFFICES ASSUME IInv, ReadData
             PROVE  IInv'
  OBVIOUS
<1> USE DEF IInv
<1>1. /\ pc = "scan" /\ i <= maxi /\ client[i] >= 0 /\ client[i] \in rset
      /\ pc' = "write"
      /\ UNCHANGED <<i, rset, nready, client, allset, maxfd, maxi, open,
                     backlog, fin, rst, outq>>
  BY DEF ReadData, AtRead, ReadSome
<1>2. i \in Entries /\ i \in Todo /\ client[i] \in ConnFds
  BY <1>1 DEF TypeOK, Entries, Todo, ConnFds
<1>3. PICK n \in 1..inq[client[i]] : inq' = [inq EXCEPT ![client[i]] = @ - n]
  BY DEF ReadData, ReadSome
<1>4. inq' \in [ConnFds -> 0..InCap]
  BY <1>2, <1>3 DEF TypeOK
<1>5. \A fd \in ConnFds : fd # client[i] => inq'[fd] = inq[fd]
  BY <1>3 DEF TypeOK
<1>6. Todo' = Todo
  BY <1>1 DEF Todo
<1>7. TypeOK'
  BY <1>1, <1>4 DEF TypeOK
<1>8. TablesAgree' /\ NeverTooMany'
  BY <1>1 DEF TablesAgree, Used, NeverTooMany
<1>9. RoundInv'
  BY <1>1, <1>2, <1>6 DEF RoundInv
<1>10. \A j \in Todo \ {i} : client[j] \in ConnFds /\ client[j] # client[i]
  BY <1>1, <1>2, Ranges DEF Todo, TablesAgree, Used, TypeOK
<1>11. ReadyInv'
  <2>1. \A j \in Todo \ {i} : ReadReady(client[j])
    BY <1>1 DEF ReadyInv
  <2>2. \A j \in Todo \ {i} : ReadReady(client[j])'
    BY <1>1, <1>5, <1>10, <2>1 DEF ReadReady
  <2>3. QED
    BY <1>1, <1>6, <2>2 DEF ReadyInv
<1>12. QED
  BY <1>7, <1>8, <1>9, <1>11

\* Writen has returned: entry i is served.
LEMMA WriteBackIInv == IInv /\ WriteBack => IInv'
<1> SUFFICES ASSUME IInv, WriteBack
             PROVE  IInv'
  OBVIOUS
<1> USE DEF IInv
<1>1. /\ pc = "write" /\ nready' = nready - 1 /\ i' = i + 1
      /\ pc' = IF nready' <= 0 THEN "select" ELSE "scan"
      /\ outq[client[i]] < OutCap
      /\ outq' = [outq EXCEPT ![client[i]] = @ + 1]
      /\ UNCHANGED <<rset, client, allset, maxfd, maxi, open, backlog, inq, fin, rst>>
  BY DEF WriteBack, WriteReply, AfterRead
<1>2. i \in Entries /\ i \in Todo
  BY <1>1 DEF RoundInv, Todo
<1>3. Todo' = Todo \ {i} /\ Cardinality(Todo') = Cardinality(Todo) - 1
  BY <1>1, <1>2, TodoStep DEF Todo
<1>4. nready' = Cardinality(Todo')
  BY <1>1, <1>3 DEF RoundInv
<1>5. nready' \in Nat
  <2>1. IsFiniteSet(Todo \ {i})
    BY TodoFinite, FS_RemoveElement
  <2>2. QED
    BY <1>3, <1>4, <2>1, FS_CardinalityType
<1>6. pc' \in {"select", "scan"} /\ (pc' = "select" => nready' = 0)
  <2>1. pc' = IF nready' <= 0 THEN "select" ELSE "scan"
    BY <1>1
  <2>2. QED
    BY <1>5, <2>1
<1>7. TypeOK'
  <2>1. outq' \in [ConnFds -> 0..OutCap]
    <3>1. client[i] \in ConnFds
      BY <1>2, EntryTypes DEF Todo
    <3>2. QED
      BY <1>1, <3>1 DEF TypeOK
  <2>2. i' \in 0..FD_SETSIZE
    BY <1>1, <1>2 DEF Entries
  <2>3. QED
    BY <1>1, <1>5, <1>6, <2>1, <2>2 DEF TypeOK
<1>8. TablesAgree' /\ NeverTooMany'
  BY <1>1, <1>6 DEF TablesAgree, Used, NeverTooMany
<1>9. RoundInv'
  BY <1>4, <1>6, Zenon DEF RoundInv
<1>10. ReadyInv'
  BY <1>1, <1>3, <1>6 DEF ReadyInv, ReadReady
<1>11. QED
  BY <1>7, <1>8, <1>9, <1>10

\* Read returned 0: the descriptor leaves all four tables at once.
LEMMA ReadEofIInv == IInv /\ ReadEof => IInv'
<1> SUFFICES ASSUME IInv, ReadEof
             PROVE  IInv'
  OBVIOUS
<1> USE DEF IInv
<1> DEFINE fd == client[i]
<1>1. /\ pc = "scan" /\ i <= maxi /\ fd >= 0 /\ fd \in rset
      /\ open' = open \ {fd} /\ allset' = allset \ {fd}
      /\ client' = [client EXCEPT ![i] = -1]
      /\ fin' = fin \ {fd} /\ rst' = rst \ {fd} /\ outq' = [outq EXCEPT ![fd] = 0]
      /\ nready' = nready - 1 /\ i' = i + 1
      /\ pc' = IF nready' <= 0 THEN "select" ELSE "scan"
      /\ UNCHANGED <<rset, maxfd, maxi, backlog, inq>>
  BY DEF ReadEof, CloseFd, AtRead, AfterRead, Unwatched, EntryFreed
<1>2. i \in Entries /\ i' \in 0..FD_SETSIZE
  BY <1>1 DEF TypeOK, Entries
<1>3. i \in Todo /\ fd \in ConnFds
  BY <1>1, <1>2, EntryTypes DEF Todo
<1>4. \A j \in Entries : client'[j] = IF j = i THEN -1 ELSE client[j]
  BY <1>1, <1>2 DEF TypeOK
<1>5. Todo' = Todo \ {i} /\ Cardinality(Todo') = Cardinality(Todo) - 1
  <2>1. Todo' = {j \in Entries : i + 1 <= j /\ j <= maxi /\ client[j] >= 0 /\ client[j] \in rset}
    <3>1. \A j \in Entries : i + 1 <= j => client'[j] = client[j]
      BY <1>4, EntryTypes
    <3>2. QED
      BY <1>1, <3>1 DEF Todo
  <2>2. QED
    BY <1>2, <1>3, <2>1, TodoStep
<1>6. nready' = Cardinality(Todo')
  BY <1>1, <1>5 DEF RoundInv
<1>7. nready' \in Nat
  <2>1. IsFiniteSet(Todo \ {i})
    BY TodoFinite, FS_RemoveElement
  <2>2. QED
    BY <1>5, <1>6, <2>1, FS_CardinalityType
<1>8. pc' \in {"select", "scan"} /\ (pc' = "select" => nready' = 0)
  <2>1. pc' = IF nready' <= 0 THEN "select" ELSE "scan"
    BY <1>1
  <2>2. QED
    BY <1>7, <2>1
<1>9. TypeOK'
  <2>1. client' \in [Entries -> ConnFds \cup {-1}]
    BY <1>1 DEF TypeOK
  <2>2. outq' \in [ConnFds -> 0..OutCap]
    <3>1. outq \in [ConnFds -> 0..OutCap] /\ 0 \in 0..OutCap
      BY DEF TypeOK
    <3>2. QED
      BY <1>1, <3>1
  <2>3. /\ open' \subseteq ConnFds /\ fin' \subseteq ConnFds /\ rst' \subseteq ConnFds
        /\ allset' \subseteq ConnFds \cup {ListenFd}
    BY <1>1 DEF TypeOK
  <2>4. QED
    BY <1>1, <1>2, <1>7, <1>8, <2>1, <2>2, <2>3 DEF TypeOK
<1>10. TablesAgree'
  <2>1. Used' = Used \ {i} /\ i \in Used
    BY <1>1, <1>2, <1>4 DEF Used
  <2>2. \A j \in Used' : client'[j] = client[j] /\ j \in Used /\ client[j] # fd
    BY <1>4, <2>1 DEF Used, TablesAgree
  <2>3. open' = {client'[j] : j \in Used'}
    <3>1. {client'[j] : j \in Used'} = {client[j] : j \in Used'}
      BY <2>2
    <3>2. {client[j] : j \in Used \ {i}} = {client[j] : j \in Used} \ {fd}
      BY <2>1, <2>2
    <3>3. QED
      BY <1>1, <2>1, <3>1, <3>2 DEF TablesAgree
  <2>4. \A j, k \in Used' : client'[j] = client'[k] => j = k
    BY <2>2 DEF TablesAgree
  <2>5. \A j \in Used' : j <= maxi'
    BY <1>1, <2>2 DEF TablesAgree
  <2>6. allset' = open' \cup {ListenFd} /\ \A d \in allset' : d <= maxfd'
    BY <1>1, <1>3, Ranges DEF TablesAgree
  <2>7. QED
    BY <2>3, <2>4, <2>5, <2>6 DEF TablesAgree
<1>11. RoundInv'
  BY <1>6, <1>8, Zenon DEF RoundInv
<1>12. ReadyInv'
  <2>1. \A j \in Todo \ {i} : client'[j] = client[j] /\ client[j] # fd
    <3>1. \A j \in Todo : j \in Used
      BY DEF Todo, Used
    <3>2. i \in Used
      BY <1>3, <3>1
    <3>3. \A j \in Todo \ {i} : client[j] # fd
      BY <3>1, <3>2 DEF TablesAgree
    <3>4. QED
      BY <1>4, <3>1, <3>3 DEF Used
  <2>2. \A j \in Todo \ {i} : ReadReady(client[j])
    BY <1>1 DEF ReadyInv
  <2>3. \A j \in Todo \ {i} : ReadReady(client[j])'
    BY <1>1, <2>1, <2>2 DEF ReadReady
  <2>4. QED
    BY <1>5, <1>8, <2>3 DEF ReadyInv
<1>13. QED
  BY <1>8, <1>9, <1>10, <1>11, <1>12 DEF NeverTooMany

\* Clients only ever make a descriptor more readable.
LEMMA ClientsIInv == IInv /\ ClientStep => IInv'
<1> SUFFICES ASSUME IInv, ClientStep
             PROVE  IInv'
  OBVIOUS
<1> USE DEF IInv
<1>1. UNCHANGED <<pc, rset, nready, i, client, allset, maxfd, maxi, open>>
  BY DEF ClientStep, Clients, Connect, ClientAbort, Send, ClientClose, ClientReset, Take
<1>2. \A fd \in ConnFds : ReadReady(fd) => ReadReady(fd)'
  BY DEF ClientStep, Clients, Connect, ClientAbort, Send, ClientClose, ClientReset, Take, ReadReady, TypeOK
<1>3. backlog' \in 0..LISTENQ
  BY DEF ClientStep, Clients, Connect, ClientAbort, Send, ClientClose, ClientReset, Take, TypeOK
<1>4. inq' \in [ConnFds -> 0..InCap] /\ outq' \in [ConnFds -> 0..OutCap]
  BY DEF ClientStep, Clients, Connect, ClientAbort, Send, ClientClose, ClientReset, Take, TypeOK
<1>5. fin' \subseteq ConnFds /\ rst' \subseteq ConnFds
  BY DEF ClientStep, Clients, Connect, ClientAbort, Send, ClientClose, ClientReset, Take, TypeOK
<1>6. TypeOK'
  BY <1>1, <1>3, <1>4, <1>5 DEF TypeOK
<1>7. TablesAgree' /\ NeverTooMany'
  BY <1>1 DEF TablesAgree, Used, NeverTooMany
<1>8. Todo' = Todo
  BY <1>1 DEF Todo
<1>9. RoundInv'
  BY <1>1, <1>8 DEF RoundInv
<1>10. \A j \in Todo : client[j] \in ConnFds
  BY EntryTypes DEF Todo
<1>11. \A j \in Todo : ReadReady(client[j]) => ReadReady(client[j])'
  BY <1>1, <1>2, <1>10
<1>12. ReadyInv'
  BY <1>1, <1>8, <1>11 DEF ReadyInv
<1>13. QED
  BY <1>6, <1>7, <1>9, <1>12

LEMMA StepIInv == IInv /\ [Next]_vars => IInv'
<1> SUFFICES ASSUME IInv, [Next]_vars
             PROVE  IInv'
  OBVIOUS
<1>1. CASE AcceptError \/ WriteReset \/ ReadReset
  <2> USE DEF IInv
  <2>1. /\ pc' \in {"accept error", "sigpipe", "read error"}
        /\ UNCHANGED <<rset, nready, i, client, allset, maxfd, maxi, open,
                       backlog, inq, fin, rst, outq>>
    BY <1>1 DEF AcceptError, AcceptFails, WriteReset, ReadReset
  <2>2. TypeOK'
    BY <2>1 DEF TypeOK, Ends
  <2>3. TablesAgree' /\ NeverTooMany'
    BY <2>1 DEF TablesAgree, Used, NeverTooMany
  <2>4. RoundInv' /\ ReadyInv'
    BY <2>1 DEF RoundInv, ReadyInv
  <2>5. QED
    BY <2>2, <2>3, <2>4
<1>2. CASE UNCHANGED vars
  <2> USE <1>2 DEF IInv, vars
  <2>1. TypeOK' /\ TablesAgree' /\ NeverTooMany'
    BY DEF TypeOK, TablesAgree, Used, NeverTooMany
  <2>2. Todo' = Todo /\ \A fd : ReadReady(fd) <=> ReadReady(fd)'
    BY DEF Todo, ReadReady
  <2>3. RoundInv' /\ ReadyInv'
    BY <2>2 DEF RoundInv, ReadyInv
  <2>4. QED
    BY <2>1, <2>3
<1>3. QED
  BY <1>1, <1>2, SelectIInv, AcceptIInv, ScanIInv, ReadDataIInv, WriteBackIInv,
     ReadEofIInv, ClientsIInv DEF Next, Server, Ended

LEMMA Invariance == Spec => []IInv
  BY InitIInv, StepIInv, PTL DEF Spec

-----------------------------------------------------------------------------
\* The variables of tcp_serv_select01 stay in their ranges.
THEOREM TypeCorrect == Spec => []TypeOK
<1>1. IInv => TypeOK
  BY DEF IInv
<1>2. QED
  BY <1>1, Invariance, PTL

\* client[], allset, maxi and maxfd agree with the descriptors the process
\* holds, for any number of clients that come and go: none is lost or leaked.
THEOREM TablesAlwaysAgree == Spec => []TablesAgree
<1>1. IInv => TablesAgree
  BY DEF IInv
<1>2. QED
  BY <1>1, Invariance, PTL

\* Read never blocks the one process that serves everybody.
THEOREM ReadNeverBlocks == Spec => []NoBlockingRead
<1>1. IInv => NoBlockingRead
  <2> SUFFICES ASSUME IInv, AtRead
               PROVE  ReadReady(client[i])
    BY DEF NoBlockingRead
  <2>1. i \in Todo
    BY DEF IInv, AtRead, Todo, TypeOK, Entries
  <2>2. QED
    BY <2>1 DEF IInv, AtRead, ReadyInv
<1>2. QED
  BY <1>1, Invariance, PTL

\* Leaving the round early on --nready <= 0 never skips a readable client.
THEOREM NoReadySkipped == Spec => []NoneSkipped
<1>1. IInv => NoneSkipped
  BY DEF IInv, RoundInv, NoneSkipped
<1>2. QED
  BY <1>1, Invariance, PTL

\* A round of tcp_serv_select01 serves exactly the descriptors that Select
\* reported, however clients and entries come and go.
THEOREM RoundsExact == Spec => []RoundExact
  BY ReadNeverBlocks, NoReadySkipped, PTL DEF RoundExact

\* client[] has an entry for every descriptor accept can return.
THEOREM EntriesSuffice == Spec => []NeverTooMany
<1>1. IInv => NeverTooMany
  BY DEF IInv
<1>2. QED
  BY <1>1, Invariance, PTL

-----------------------------------------------------------------------------
(* The process as a service. *)

\* The clients, accept, read, write and close are those of the service.
LEMMA SameConnections ==
  /\ Service!connVars = connVars /\ Service!ConnFds = ConnFds
  /\ (Service!ConnInit <=> ConnInit) /\ (Service!Clients <=> Clients)
  /\ Service!FreeFds = FreeFds
  /\ \A fd : /\ Service!AcceptAs(fd) <=> AcceptAs(fd)
             /\ Service!ReadSome(fd) <=> ReadSome(fd)
             /\ Service!WriteReply(fd) <=> WriteReply(fd)
             /\ Service!CloseFd(fd) <=> CloseFd(fd)
             /\ Service!ReadsEof(fd) <=> ReadsEof(fd)
             /\ Service!ReadsReset(fd) <=> ReadsReset(fd)
<1>1. /\ Service!connVars = connVars /\ Service!ConnFds = ConnFds
      /\ Service!FreeFds = FreeFds
  BY Zenon DEF Service!connVars, connVars, Service!ConnFds, ConnFds, Service!FreeFds, FreeFds
<1>2. Service!ConnInit <=> ConnInit
  BY <1>1, Zenon DEF Service!ConnInit, ConnInit
<1>3. \A fd : /\ Service!AcceptAs(fd) <=> AcceptAs(fd)
              /\ Service!ReadSome(fd) <=> ReadSome(fd)
              /\ Service!WriteReply(fd) <=> WriteReply(fd)
              /\ Service!CloseFd(fd) <=> CloseFd(fd)
              /\ Service!ReadsEof(fd) <=> ReadsEof(fd)
              /\ Service!ReadsReset(fd) <=> ReadsReset(fd)
  BY <1>1, Zenon DEF Service!AcceptAs, AcceptAs, Service!Lowest, Lowest, Service!ReadSome, ReadSome,
     Service!WriteReply, WriteReply, Service!CloseFd, CloseFd, Service!ReadsEof, ReadsEof,
     Service!ReadsReset, ReadsReset
<1>4. Service!Connect <=> Connect
  BY Zenon DEF Service!Connect, Connect
<1>5. Service!ClientAbort <=> ClientAbort
  BY Zenon DEF Service!ClientAbort, ClientAbort
<1>6. \A fd : /\ Service!Send(fd) <=> Send(fd)
              /\ Service!ClientClose(fd) <=> ClientClose(fd)
              /\ Service!ClientReset(fd) <=> ClientReset(fd)
              /\ Service!Take(fd) <=> Take(fd)
  BY Zenon DEF Service!Send, Send, Service!ClientClose, ClientClose, Service!ClientReset,
     ClientReset, Service!Take, Take
<1>7. Service!Clients <=> Clients
  BY <1>1, <1>4, <1>5, <1>6, Zenon DEF Service!Clients, Clients
<1>8. QED
  BY <1>1, <1>2, <1>3, <1>7, Zenon

\* Whether two elements are in a set, as a value.
LEMMA SameAnswer ==
  ASSUME NEW S, NEW x, NEW y, x \in S <=> y \in S
  PROVE  (x \in S) = (y \in S)
  BY SMT

\* The connection at hand is one the process holds.
LEMMA AtHand ==
  ASSUME IInv, AtRead \/ pc = "write"
  PROVE  client[i] \in open /\ client[i] \in ConnFds
<1>1. TypeOK /\ TablesAgree /\ RoundInv
  BY DEF IInv
<1>2. i \in Entries /\ client[i] >= 0
  <2>1. CASE AtRead
    BY <1>1, <2>1 DEF AtRead, TypeOK, Entries
  <2>2. CASE pc = "write"
    BY <1>1, <2>2 DEF RoundInv, Todo
  <2>3. QED
    BY <2>1, <2>2
<1>3. QED
  BY <1>1, <1>2 DEF TablesAgree, Used, TypeOK

\* Every step is one of the service, or none.
LEMMA ServiceStep ==
  ASSUME IInv, [Next]_vars
  PROVE  [Service!Next]_(Service!serviceVars)
<1> USE SameConnections
<1>0. TypeOK /\ TablesAgree
  BY DEF IInv
<1>1. CASE Select \/ Scan \/ UNCHANGED vars
  <2>1. /\ UNCHANGED connVars
        /\ (pc' = pc /\ client' = client /\ i' = i) \/ (pc \notin Ends \cup {"write"} /\ pc' \notin Ends \cup {"write"})
    BY <1>1 DEF Select, Scan, vars, tables, Ends
  <2>2. Owed' = Owed /\ ((pc \in Ends)' <=> pc \in Ends)
    BY <2>1 DEF Owed
  <2>3. Service!connVars' = Service!connVars
    BY <2>1, Zenon DEF Service!connVars, connVars
  <2>4. (pc \in Ends)' = (pc \in Ends)
    BY <2>2, SameAnswer, Zenon DEF Ends
  <2>5. QED
    BY <2>2, <2>3, <2>4, Zenon DEF Service!serviceVars
<1>2. CASE Accept
  <2>1. PICK fd \in ConnFds : AcceptAs(fd) /\ pc = "accept" /\ pc' \in {"select", "scan"}
    <3>1. PICK fd \in ConnFds : AcceptAs(fd) /\ (FreeEntries # {} => pc' = AfterAccept(nready'))
      BY <1>2 DEF Accept
    <3>2. FreeEntries # {}
      BY <1>0, <3>1, EntryLeft DEF AcceptAs, Lowest
    <3>3. QED
      BY <1>2, <3>1, <3>2 DEF Accept, AfterAccept
  <2>2. Owed = {} /\ Owed' = {} /\ pc \notin Ends /\ pc' \notin Ends
    BY <2>1 DEF Owed, Ends
  <2>3. Service!Admit
    BY <2>1, <2>2 DEF Service!Admit
  <2>4. QED
    BY <2>2, <2>3 DEF Service!Next, Service!Serve
<1>3. CASE AcceptError \/ WriteReset \/ ReadReset
  <2>1. /\ pc \notin Ends /\ pc' \in Ends /\ Owed' = {} /\ UNCHANGED connVars
    BY <1>3 DEF AcceptError, AcceptFails, WriteReset, ReadReset, AtRead, Owed, Ends
  <2>2. Service!Hopeless
    <3>1. CASE AcceptError
      BY <3>1 DEF AcceptError, AcceptFails, Owed, Service!Hopeless
    <3>2. CASE WriteReset
      <4>1. client[i] \in open \cap rst /\ Owed = {client[i]}
        BY <3>2, AtHand DEF WriteReset, Owed
      <4>2. QED
        BY <4>1 DEF Service!Hopeless
    <3>3. CASE ReadReset
      <4>1. client[i] \in open \cap rst /\ Owed = {} /\ inq[client[i]] = 0
        BY <3>3, AtHand DEF ReadReset, AtRead, ReadsReset, Owed
      <4>2. QED
        BY <4>1 DEF Service!Hopeless
    <3>4. QED
      BY <1>3, <3>1, <3>2, <3>3
  <2>3. UNCHANGED Service!connVars
    BY <2>1, Zenon DEF Service!connVars, connVars
  <2>4. (pc \in Ends)' = TRUE
    BY <2>1, Zenon
  <2>5. Service!Stop
    BY <2>1, <2>2, <2>3, <2>4, Zenon DEF Service!Stop
  <2>6. QED
    BY <2>1, <2>5, Zenon DEF Service!Next
<1>4. CASE ReadData
  <2>1. pc \notin Ends /\ pc' \notin Ends /\ Owed = {} /\ Owed' = {client[i]} /\ ReadSome(client[i])
    BY <1>4 DEF ReadData, AtRead, Owed, Ends, tables
  <2>2. client[i] \in open /\ client[i] \in ConnFds
    BY <1>4, AtHand DEF ReadData
  <2>3. Service!Hear(client[i])
    BY <2>1, <2>2 DEF Service!Hear
  <2>4. QED
    BY <2>1, <2>2, <2>3 DEF Service!Next, Service!Serve
<1>5. CASE WriteBack
  <2>1. pc \notin Ends /\ pc' \notin Ends /\ Owed = {client[i]} /\ Owed' = {} /\ WriteReply(client[i])
    BY <1>5 DEF WriteBack, AfterRead, Owed, Ends
  <2>2. client[i] \in ConnFds
    BY <1>5, AtHand DEF WriteBack
  <2>3. Service!Answer(client[i])
    BY <2>1 DEF Service!Answer
  <2>4. QED
    BY <2>1, <2>2, <2>3 DEF Service!Next, Service!Serve
<1>6. CASE ReadEof
  <2>1. /\ pc \notin Ends /\ pc' \notin Ends /\ Owed = {} /\ Owed' = {}
        /\ ReadsEof(client[i]) /\ CloseFd(client[i])
    BY <1>6 DEF ReadEof, AtRead, AfterRead, Owed, Ends
  <2>2. client[i] \in open /\ client[i] \in ConnFds
    BY <1>6, AtHand DEF ReadEof
  <2>3. Service!Leave(client[i])
    BY <2>1, <2>2 DEF Service!Leave
  <2>4. QED
    BY <2>1, <2>2, <2>3 DEF Service!Next, Service!Serve
<1>7. CASE ClientStep
  <2>1. pc \notin Ends /\ pc' \notin Ends /\ Owed' = Owed /\ Clients
    BY <1>7 DEF ClientStep, Owed, tables
  <2>2. QED
    BY <2>1 DEF Service!Next
<1>8. QED
  BY <1>1, <1>2, <1>3, <1>4, <1>5, <1>6, <1>7 DEF Next, Server, Ended

\* tcp_serv_select01 implements ConnService: every reply goes to the client
\* whose data was read, a connection is closed only when its client is gone,
\* and only a client's reset or a lack of descriptors ends the process.
THEOREM SelectRefinement == Spec => ServiceKept
<1>1. Init => Service!Init
  BY SameConnections DEF Init, Service!Init, Owed, Ends
<1>2. IInv /\ [Next]_vars => [Service!Next]_(Service!serviceVars)
  BY ServiceStep
<1>3. QED
  BY <1>1, <1>2, Invariance, PTL DEF Spec, ServiceKept, Service!Spec

-----------------------------------------------------------------------------
(***************************************************************************)
(* tcp_serv_poll01, over the same connections.  The invariant has one      *)
(* thing more to say than that of tcp_serv_select01: the .revents of an    *)
(* entry that poll has not looked at may be set, so nready counts a part T *)
(* of the entries that look reported, and what it leaves out is at most    *)
(* entry maxi.  As T is not empty while the loop runs, the loop has left   *)
(* by --nready <= 0 before it gets there.                                  *)
(***************************************************************************)
CONSTANT OPEN_MAX
VARIABLES fds, revents

Poll == INSTANCE PollServer

\* The entries in use.
PollUsed == {j \in Poll!Entries : fds[j] >= 0}

PollTables ==
    /\ open = {fds[j] : j \in PollUsed}
    /\ \A j, k \in PollUsed : fds[j] = fds[k] => j = k
    /\ \A j \in PollUsed : j <= maxi

\* The entries whose .revents the loop will find set.
Reported == {j \in Poll!Entries : i <= j /\ j <= maxi /\ fds[j] >= 0 /\ j \in revents}

\* T are the entries still to serve in this round.
Due(T) ==
    /\ nready = Cardinality(T) /\ nready > 0
    /\ pc = "scan" => \A j \in T : Poll!ReadReady(fds[j])
    /\ pc = "write" => i \in T /\ \A j \in T \ {i} : Poll!ReadReady(fds[j])

\* All that is reported is to be served, but for the last entry.
PollRound ==
    /\ \A j \in revents : j <= maxi
    /\ pc = "poll" => nready = 0
    /\ pc = "accept" => /\ i = 1 /\ nready = Cardinality(Reported) + 1
                        /\ \A j \in revents \ {0} : fds[j] >= 0
                        /\ \A j \in Reported : Poll!ReadReady(fds[j])
    /\ pc \in {"scan", "write"} =>
          \E T \in SUBSET Reported : Reported \ T \subseteq {maxi} /\ Due(T)

PollInv == Poll!TypeOK /\ PollTables /\ PollRound /\ pc # "too many clients"

-----------------------------------------------------------------------------
LEMMA PollCardinality == ASSUME NEW S PROVE Poll!Cardinality(S) = Cardinality(S)
  BY DEF Poll!Cardinality, Cardinality

LEMMA PollRanges ==
  ASSUME Poll!PollEntriesAssumption
  PROVE  /\ Poll!ConnFds \subseteq Nat /\ -1 \notin Poll!ConnFds
         /\ IsFiniteSet(Poll!Entries) /\ Cardinality(Poll!Entries) = OPEN_MAX - 1
         /\ IsFiniteSet(Poll!ConnFds) /\ Cardinality(Poll!ConnFds) <= OPEN_MAX - 1
<1>0. /\ OPEN_MAX \in Nat \ {0} /\ OpenMax - (ListenFd + 1) <= OPEN_MAX - 1
      /\ ListenFd \in Nat /\ OpenMax \in Nat /\ ListenFd < OpenMax
  BY ConnAssumption DEF Poll!PollEntriesAssumption
<1>1. IsFiniteSet(Poll!Entries) /\ Cardinality(Poll!Entries) = OPEN_MAX - 1
  <2>1. IsFiniteSet(1..(OPEN_MAX - 1)) /\ Cardinality(1..(OPEN_MAX - 1)) = IF 1 > OPEN_MAX - 1 THEN 0 ELSE OPEN_MAX - 1 - 1 + 1
    BY <1>0, FS_Interval
  <2>2. QED
    BY <1>0, <2>1 DEF Poll!Entries
<1>2. IsFiniteSet(Poll!ConnFds) /\ Cardinality(Poll!ConnFds) <= OPEN_MAX - 1
  <2> DEFINE a == ListenFd + 1
             b == OpenMax - 1
  <2>1. a \in Int /\ b \in Int /\ b - a + 1 <= OPEN_MAX - 1
    BY <1>0
  <2> HIDE DEF a, b
  <2>2. IsFiniteSet(a..b) /\ Cardinality(a..b) = IF a > b THEN 0 ELSE b - a + 1
    BY <2>1, FS_Interval
  <2>3. QED
    BY <1>0, <2>1, <2>2 DEF Poll!ConnFds, a, b
<1>3. QED
  BY <1>0, <1>1, <1>2 DEF Poll!ConnFds

LEMMA PollEntryTypes ==
  ASSUME Poll!PollEntriesAssumption, Poll!TypeOK
  PROVE  /\ i \in Int /\ maxi \in Int /\ maxi \in 0..(OPEN_MAX - 1)
         /\ \A j \in Poll!Entries : /\ j \in Int /\ j > 0 /\ j < OPEN_MAX
                                    /\ fds[j] \in Int /\ (fds[j] < 0 <=> fds[j] = -1)
                                    /\ fds[j] >= 0 => fds[j] \in Poll!ConnFds
<1> USE ConnAssumption DEF Poll!PollEntriesAssumption
<1>1. i \in Int /\ maxi \in Int /\ maxi \in 0..(OPEN_MAX - 1)
  BY DEF Poll!TypeOK
<1>2. ASSUME NEW j \in Poll!Entries
      PROVE  /\ j \in Int /\ j > 0 /\ j < OPEN_MAX
             /\ fds[j] \in Int /\ (fds[j] < 0 <=> fds[j] = -1)
             /\ fds[j] >= 0 => fds[j] \in Poll!ConnFds
  <2>1. fds[j] \in Poll!ConnFds \cup {-1}
    BY DEF Poll!TypeOK
  <2>2. QED
    BY <2>1, PollRanges DEF Poll!Entries
<1>3. QED
  BY <1>1, <1>2

LEMMA ReportedFinite ==
  ASSUME Poll!PollEntriesAssumption, NEW T \in SUBSET Reported
  PROVE  IsFiniteSet(T) /\ Cardinality(T) \in Nat
<1>1. T \in SUBSET Poll!Entries
  BY DEF Reported
<1>2. QED
  BY <1>1, PollRanges, FS_Subset, FS_CardinalityType

\* While there is a descriptor to accept with, there is an entry to keep it in.
LEMMA PollEntryLeft ==
  ASSUME Poll!PollEntriesAssumption, Poll!TypeOK, PollTables, Poll!FreeFds # {}
  PROVE  Poll!FreeEntries # {}
<1> SUFFICES ASSUME Poll!FreeEntries = {}
             PROVE  FALSE
  OBVIOUS
<1> USE DEF Poll!PollEntriesAssumption
<1>1. PICK fd \in Poll!ConnFds : fd \notin open
  BY DEF Poll!FreeFds
<1>2. IsFiniteSet(Poll!ConnFds \ {fd}) /\ Cardinality(Poll!ConnFds \ {fd}) < OPEN_MAX - 1
  <2>1. IsFiniteSet(Poll!ConnFds) /\ Cardinality(Poll!ConnFds) <= OPEN_MAX - 1
    BY PollRanges
  <2>2. Cardinality(Poll!ConnFds) \in Nat
    BY <2>1, FS_CardinalityType
  <2>3. IsFiniteSet(Poll!ConnFds \ {fd}) /\ Cardinality(Poll!ConnFds \ {fd}) = Cardinality(Poll!ConnFds) - 1
    BY <2>1, FS_RemoveElement
  <2>4. QED
    BY <2>1, <2>2, <2>3
<1>3. \A j \in Poll!Entries : fds[j] >= 0 /\ fds[j] \in Poll!ConnFds
  BY PollEntryTypes DEF Poll!FreeEntries
<1>4. \A j \in Poll!Entries : fds[j] \in Poll!ConnFds \ {fd}
  BY <1>1, <1>3 DEF PollTables, PollUsed
<1>5. fds \in [Poll!Entries -> Poll!ConnFds \ {fd}]
  BY <1>4 DEF Poll!TypeOK
<1>6. \E j, k \in Poll!Entries : j # k /\ fds[j] = fds[k]
  BY <1>2, <1>5, PollRanges, FS_PigeonHole
<1>7. QED
  BY <1>3, <1>6 DEF PollTables, PollUsed

\* The .revents that poll did not set is that of the last entry, and the loop
\* is left before it gets there: the entry read from is one to serve.
LEMMA ReadIsDue ==
  ASSUME Poll!PollEntriesAssumption, Poll!TypeOK, Poll!AtRead,
         NEW T \in SUBSET Reported, Reported \ T \subseteq {maxi}, Due(T)
  PROVE  i \in Poll!Entries /\ i \in T /\ fds[i] \in Poll!ConnFds /\ Poll!ReadReady(fds[i])
<1> USE ConnAssumption DEF Poll!PollEntriesAssumption
<1>1. i \in Poll!Entries
  BY DEF Poll!AtRead, Poll!TypeOK, Poll!Entries
<1>2. i \in Reported
  BY <1>1, PollEntryTypes DEF Poll!AtRead, Reported
<1>3. T # {}
  BY FS_EmptySet DEF Due
<1>4. i \in T
  <2> SUFFICES ASSUME i \notin T
               PROVE  FALSE
    OBVIOUS
  <2>1. i = maxi
    BY <1>2
  <2>2. PICK j \in T : TRUE
    BY <1>3
  <2>3. j = i
    BY <2>1, <2>2, PollEntryTypes DEF Reported
  <2>4. QED
    BY <2>2, <2>3
<1>5. QED
  BY <1>1, <1>4, PollEntryTypes DEF Poll!AtRead, Due

\* Leaving entry i.
LEMMA ServedEntry ==
  ASSUME Poll!PollEntriesAssumption, Poll!TypeOK, NEW T \in SUBSET Reported, i \in T
  PROVE  /\ IsFiniteSet(T \ {i}) /\ Cardinality(T \ {i}) = Cardinality(T) - 1
         /\ Cardinality(T \ {i}) \in Nat
<1>1. IsFiniteSet(T)
  BY ReportedFinite
<1>2. QED
  BY <1>1, FS_RemoveElement, FS_CardinalityType

-----------------------------------------------------------------------------
LEMMA PollInit ==
  ASSUME Poll!PollEntriesAssumption, Poll!Init
  PROVE  PollInv
<1> USE ConnAssumption DEF Poll!PollEntriesAssumption, Poll!Init, Poll!ConnInit
<1>1. Poll!TypeOK
  BY DEF Poll!TypeOK, Poll!ConnTypeOK, Poll!Entries
<1>2. PollTables
  BY DEF PollTables, PollUsed
<1>3. PollRound
  BY DEF PollRound
<1>4. QED
  BY <1>1, <1>2, <1>3 DEF PollInv

\* poll starts a round: what it reports is what is to be served.
LEMMA PollPoll ==
  ASSUME Poll!PollEntriesAssumption, Poll!TypeOK, PollTables, PollRound, Poll!Poll
  PROVE  PollInv'
<1> DEFINE R == {j \in Poll!Entries : j <= maxi /\ fds[j] >= 0 /\ Poll!ReadReady(fds[j])}
           Z == {j \in {0} : backlog > 0}
<1>1. /\ R \cup Z # {}
      /\ revents' = R \cup Z \cup {j \in revents : j > maxi}
      /\ nready' = Cardinality(R \cup Z)
      /\ pc' = (IF 0 \in R \cup Z THEN "accept" ELSE "scan")
      /\ i' = 1
      /\ UNCHANGED <<fds, maxi, Poll!connVars>>
  BY PollCardinality DEF Poll!Poll
<1>2. R \in SUBSET Poll!Entries /\ IsFiniteSet(R) /\ Cardinality(R) \in Nat /\ 0 \notin R
  BY PollRanges, PollEntryTypes, FS_Subset, FS_CardinalityType
<1>3. revents' = R \cup Z
  <2>1. \A j \in revents : ~(j > maxi)
    <3>1. \A j \in revents : j \in Int /\ j <= maxi
      BY PollEntryTypes DEF Poll!TypeOK, PollRound
    <3>2. QED
      BY <3>1, PollEntryTypes
  <2>2. QED
    BY <1>1, <2>1
<1>4. nready' = (IF 0 \in R \cup Z THEN Cardinality(R) + 1 ELSE Cardinality(R)) /\ nready' \in Nat
  <2>1. CASE backlog > 0
    <3>1. Z = {0} /\ 0 \in R \cup Z
      BY <2>1
    <3>2. Cardinality(R \cup {0}) = Cardinality(R) + 1
      BY <1>2, FS_AddElement
    <3>3. nready' = Cardinality(R) + 1
      BY <1>1, <3>1, <3>2, Zenon
    <3>4. QED
      BY <1>2, <3>1, <3>3
  <2>2. CASE ~(backlog > 0)
    <3>1. Z = {}
      BY <2>2
    <3>2. R \cup Z = R /\ 0 \notin R \cup Z
      BY <1>2, <3>1
    <3>3. QED
      BY <1>1, <1>2, <3>2
  <2>3. QED
    BY <2>1, <2>2
<1>5. Reported' = R
  <2>1. \A j \in Poll!Entries : 1 <= j /\ j # 0
    BY PollEntryTypes
  <2>2. \A j \in Poll!Entries : j \in revents' <=> j \in R
    BY <1>3, <2>1
  <2>3. QED
    BY <1>1, <2>1, <2>2 DEF Reported
<1>6. Poll!TypeOK'
  <2>1. revents' \subseteq Poll!Entries \cup {0}
    BY <1>2, <1>3
  <2>2. i' \in 1..OPEN_MAX
    BY <1>1 DEF Poll!PollEntriesAssumption
  <2>3. QED
    BY <1>1, <1>4, <2>1, <2>2 DEF Poll!TypeOK, Poll!ConnTypeOK, Poll!connVars
<1>7. PollTables'
  BY <1>1 DEF PollTables, PollUsed, Poll!connVars
<1>8. PollRound'
  <2>1. \A j \in revents' : j <= maxi'
    <3>1. 0 <= maxi
      BY PollEntryTypes
    <3>2. QED
      BY <1>1, <1>3, <3>1
  <2>2. \A j \in Reported' : Poll!ReadReady(fds[j])'
    BY <1>1, <1>5 DEF Poll!ReadReady, Poll!connVars
  <2>3. CASE 0 \in R \cup Z
    <3>1. pc' = "accept" /\ nready' = Cardinality(Reported') + 1
      BY <1>1, <1>4, <1>5, <2>3
    <3>2. \A j \in revents' \ {0} : fds'[j] >= 0
      BY <1>1, <1>3
    <3>3. QED
      BY <1>1, <2>1, <2>2, <3>1, <3>2 DEF PollRound
  <2>4. CASE 0 \notin R \cup Z
    <3>1. pc' = "scan" /\ nready' = Cardinality(Reported')
      BY <1>1, <1>4, <1>5, <2>4
    <3>2. nready' > 0
      <4>1. Z = {}
        BY <2>4
      <4>2. R # {}
        BY <1>1, <4>1
      <4>3. QED
        BY <1>2, <1>5, <3>1, <4>2, FS_EmptySet
    <3>3. Due(Reported)'
      BY <2>2, <3>1, <3>2 DEF Due
    <3>4. QED
      BY <2>1, <3>1, <3>3 DEF PollRound
  <2>5. QED
    BY <2>3, <2>4
<1>9. pc' # "too many clients"
  BY <1>1
<1>10. QED
  BY <1>6, <1>7, <1>8, <1>9 DEF PollInv

\* The new connection gets an entry.  Its .revents may be set, but then the
\* entry is the last one.
LEMMA PollAccept ==
  ASSUME Poll!PollEntriesAssumption, Poll!TypeOK, PollTables, PollRound, Poll!Accept
  PROVE  PollInv'
<1>1. PICK connfd \in Poll!FreeFds :
        /\ open' = open \cup {connfd}
        /\ \E e \in Poll!FreeEntries :
             /\ \A d \in Poll!FreeEntries : e <= d
             /\ fds' = [fds EXCEPT ![e] = connfd]
             /\ maxi' = Poll!NewMaxi(e)
             /\ revents' = revents \/ (e > maxi /\ revents' = revents \cup {e})
             /\ nready' = nready - 1
             /\ pc' = Poll!AfterAccept(nready')
  BY PollEntryLeft DEF Poll!Accept, Poll!AcceptAs, Poll!Lowest
<1>2. PICK e \in Poll!FreeEntries :
             /\ fds' = [fds EXCEPT ![e] = connfd]
             /\ maxi' = Poll!NewMaxi(e)
             /\ revents' = revents \/ (e > maxi /\ revents' = revents \cup {e})
             /\ nready' = nready - 1
             /\ pc' = Poll!AfterAccept(nready')
  BY <1>1
<1>3. /\ pc = "accept" /\ backlog > 0 /\ backlog' = backlog - 1
      /\ UNCHANGED <<i, inq, fin, rst, outq>>
  BY DEF Poll!Accept, Poll!AcceptAs
<1>4. connfd \in Poll!ConnFds /\ connfd \notin open /\ connfd >= 0 /\ connfd \in Int
  BY PollRanges DEF Poll!FreeFds
<1>5. e \in Poll!Entries /\ fds[e] = -1 /\ e \in Int /\ e > 0 /\ e < OPEN_MAX
  BY PollEntryTypes DEF Poll!FreeEntries
<1>6. \A j \in Poll!Entries : fds'[j] = IF j = e THEN connfd ELSE fds[j]
  BY <1>2, <1>5 DEF Poll!TypeOK
<1>7. maxi' = (IF e > maxi THEN e ELSE maxi) /\ maxi \in Int /\ maxi' \in 0..(OPEN_MAX - 1)
      /\ maxi <= maxi' /\ e <= maxi'
  <2>1. maxi' = IF e > maxi THEN e ELSE maxi
    BY <1>2 DEF Poll!NewMaxi
  <2>2. maxi \in Int /\ maxi \in 0..(OPEN_MAX - 1) /\ OPEN_MAX \in Int
    BY PollEntryTypes DEF Poll!PollEntriesAssumption
  <2>3. QED
    BY <1>5, <2>1, <2>2
<1>8. e \notin revents
  BY <1>3, <1>5 DEF PollRound
<1>9. Reported \subseteq Reported' /\ Reported' \ Reported \subseteq {maxi'}
  <2>1. \A j \in Reported : j # e /\ j \in Reported'
    <3>1. \A j \in Reported : j \in Poll!Entries /\ j # e
      BY <1>5 DEF Reported
    <3>2. \A j \in Reported : j <= maxi /\ j \in Int
      BY PollEntryTypes DEF Reported
    <3>3. QED
      BY <1>2, <1>3, <1>6, <1>7, <3>1, <3>2 DEF Reported
  <2>2. ASSUME NEW j \in Reported', j # e
        PROVE  j \in Reported
    <3>1. j \in Poll!Entries /\ j \in revents /\ fds[j] >= 0 /\ i <= j
      BY <1>2, <1>3, <1>6, <2>2 DEF Reported
    <3>2. j <= maxi
      BY <3>1 DEF PollRound
    <3>3. QED
      BY <3>1, <3>2 DEF Reported
  <2>3. e \in Reported' => e = maxi'
    <3>1. e \in Reported' => e \in revents'
      BY DEF Reported
    <3>2. QED
      BY <1>2, <1>7, <1>8, <3>1
  <2>4. QED
    BY <2>1, <2>2, <2>3
<1>10. nready' = Cardinality(Reported) /\ nready' \in Nat
  BY <1>2, <1>3, ReportedFinite DEF PollRound
<1>11. pc' \in {"poll", "scan"} /\ (pc' = "poll" => nready' = 0) /\ (pc' = "scan" => nready' > 0)
  <2>1. pc' = IF nready' <= 0 THEN "poll" ELSE "scan"
    BY <1>2 DEF Poll!AfterAccept
  <2>2. nready' \in Nat
    BY <1>10
  <2>3. QED
    BY <2>1, <2>2
<1>12. Poll!TypeOK'
  <2>1. fds' \in [Poll!Entries -> Poll!ConnFds \cup {-1}]
    BY <1>2, <1>4 DEF Poll!TypeOK
  <2>2. open' \subseteq Poll!ConnFds /\ backlog' \in 0..LISTENQ
    BY <1>1, <1>3, <1>4, ConnAssumption DEF Poll!TypeOK, Poll!ConnTypeOK
  <2>3. revents' \subseteq Poll!Entries \cup {0}
    BY <1>2, <1>5 DEF Poll!TypeOK
  <2>4. QED
    BY <1>3, <1>7, <1>10, <1>11, <2>1, <2>2, <2>3 DEF Poll!TypeOK, Poll!ConnTypeOK
<1>13. PollTables'
  <2>1. PollUsed' = PollUsed \cup {e}
    BY <1>4, <1>5, <1>6 DEF PollUsed
  <2>2. open' = {fds'[j] : j \in PollUsed'}
    <3>1. fds'[e] = connfd /\ \A j \in PollUsed : fds'[j] = fds[j]
      BY <1>5, <1>6 DEF PollUsed
    <3>2. {fds'[j] : j \in PollUsed \cup {e}} = {fds[j] : j \in PollUsed} \cup {connfd}
      BY <3>1
    <3>3. QED
      BY <1>1, <2>1, <3>2 DEF PollTables
  <2>3. \A j, k \in PollUsed' : fds'[j] = fds'[k] => j = k
    BY <1>4, <1>5, <1>6, <2>1 DEF PollTables, PollUsed
  <2>4. \A j \in PollUsed' : j <= maxi'
    <3>1. \A j \in PollUsed : j \in Int /\ j <= maxi
      BY PollEntryTypes DEF PollTables, PollUsed
    <3>2. QED
      BY <1>7, <2>1, <3>1
  <2>5. QED
    BY <2>2, <2>3, <2>4 DEF PollTables
<1>14. PollRound'
  <2>1. \A j \in revents' : j <= maxi'
    <3>1. \A j \in revents : j \in Int /\ j <= maxi
      BY PollEntryTypes DEF Poll!TypeOK, PollRound
    <3>2. QED
      BY <1>2, <1>7, <3>1
  <2>2. \A j \in Reported : Poll!ReadReady(fds[j])'
    <3>1. \A j \in Reported : j \in Poll!Entries /\ j # e
      BY <1>5 DEF Reported
    <3>2. \A j \in Reported : fds'[j] = fds[j]
      BY <1>6, <3>1
    <3>3. QED
      BY <1>3, <3>2 DEF PollRound, Poll!ReadReady
  <2>3. pc' = "scan" => \E T \in SUBSET Reported' : Reported' \ T \subseteq {maxi'} /\ Due(T)'
    BY <1>9, <1>10, <1>11, <2>2 DEF Due
  <2>4. QED
    BY <1>11, <2>1, <2>3 DEF PollRound
<1>15. QED
  BY <1>11, <1>12, <1>13, <1>14 DEF PollInv

\* Leaving entry i, whatever becomes of its descriptor.
LEMMA PollRoundStep ==
  ASSUME Poll!PollEntriesAssumption, Poll!TypeOK, i \in Poll!Entries, i' = i + 1,
         UNCHANGED <<maxi, revents>>, \A j \in Poll!Entries \ {i} : fds'[j] = fds[j]
  PROVE  Reported' = Reported \ {i} /\ i' \in 1..OPEN_MAX
<1>1. \A j \in Poll!Entries : i + 1 <= j <=> i <= j /\ j # i
  BY PollEntryTypes
<1>2. i' \in 1..OPEN_MAX
  BY DEF Poll!Entries, Poll!PollEntriesAssumption
<1>3. Reported' \subseteq Reported \ {i}
  BY <1>1 DEF Reported
<1>4. Reported \ {i} \subseteq Reported'
  BY <1>1 DEF Reported
<1>5. QED
  BY <1>2, <1>3, <1>4

\* An entry that is free, or not reported, is not one to serve; and since
\* there is one to serve, the loop does not run past maxi.
LEMMA PollScan ==
  ASSUME Poll!PollEntriesAssumption, Poll!TypeOK, PollTables, PollRound, Poll!Scan
  PROVE  PollInv'
<1>1. pc = "scan" /\ UNCHANGED <<fds, revents, maxi, nready, Poll!connVars>>
  BY DEF Poll!Scan
<1>2. PICK T \in SUBSET Reported : Reported \ T \subseteq {maxi} /\ Due(T)
  BY <1>1 DEF PollRound
<1>3. i <= maxi /\ ~(i > maxi)
  <2>1. T # {}
    BY <1>2, FS_EmptySet DEF Due
  <2>2. PICK j \in T : TRUE
    BY <2>1
  <2>3. j \in Poll!Entries /\ i <= j /\ j <= maxi
    BY <2>2 DEF Reported
  <2>4. QED
    BY <2>3, PollEntryTypes
<1>4. (fds[i] < 0 \/ i \notin revents) /\ i' = i + 1 /\ pc' = "scan"
  BY <1>3 DEF Poll!Scan
<1>5. i \in Poll!Entries
  <2>1. i \in 1..OPEN_MAX /\ maxi \in 0..(OPEN_MAX - 1) /\ OPEN_MAX \in Nat
    BY DEF Poll!TypeOK, Poll!PollEntriesAssumption
  <2>2. QED
    BY <1>3, <2>1 DEF Poll!Entries
<1>6. i \notin Reported
  <2>1. fds[i] \in Int
    BY <1>5, PollEntryTypes
  <2>2. QED
    BY <1>4, <2>1 DEF Reported
<1>7. Reported' = Reported /\ i' \in 1..OPEN_MAX
  BY <1>1, <1>4, <1>5, <1>6, PollRoundStep
<1>8. Poll!TypeOK'
  BY <1>1, <1>4, <1>7 DEF Poll!TypeOK, Poll!ConnTypeOK, Poll!connVars
<1>9. PollTables'
  BY <1>1 DEF PollTables, PollUsed, Poll!connVars
<1>10. Due(T)'
  BY <1>1, <1>2, <1>4 DEF Due, Poll!ReadReady, Poll!connVars
<1>11. PollRound'
  BY <1>1, <1>2, <1>4, <1>7, <1>10 DEF PollRound
<1>12. QED
  BY <1>4, <1>8, <1>9, <1>11 DEF PollInv

\* Descriptors of different entries are different.
LEMMA PollOthers ==
  ASSUME Poll!PollEntriesAssumption, Poll!TypeOK, PollTables, NEW T \in SUBSET Reported, i \in T
  PROVE  \A j \in T \ {i} : fds[j] \in Poll!ConnFds /\ fds[j] # fds[i]
<1>1. \A j \in T : j \in Poll!Entries /\ fds[j] >= 0 /\ j \in PollUsed
  BY DEF Reported, PollUsed
<1>2. QED
  BY <1>1, PollEntryTypes DEF PollTables

\* read takes data from the descriptor of entry i only.
LEMMA PollReadData ==
  ASSUME Poll!PollEntriesAssumption, Poll!TypeOK, PollTables, PollRound, Poll!ReadData
  PROVE  PollInv'
<1>1. /\ Poll!AtRead /\ pc = "scan" /\ pc' = "write"
      /\ UNCHANGED <<fds, revents, maxi, nready, i, open, backlog, fin, rst, outq>>
  BY DEF Poll!ReadData, Poll!AtRead, Poll!ReadSome
<1>2. PICK T \in SUBSET Reported : Reported \ T \subseteq {maxi} /\ Due(T)
  BY <1>1 DEF PollRound
<1>3. i \in Poll!Entries /\ i \in T /\ fds[i] \in Poll!ConnFds
  BY <1>1, <1>2, ReadIsDue
<1>4. PICK n \in 1..inq[fds[i]] : inq' = [inq EXCEPT ![fds[i]] = @ - n]
  BY DEF Poll!ReadData, Poll!ReadSome
<1>5. inq' \in [Poll!ConnFds -> 0..InCap]
  <2>1. inq \in [Poll!ConnFds -> 0..InCap] /\ InCap \in Nat
    BY ConnAssumption DEF Poll!TypeOK, Poll!ConnTypeOK
  <2>2. QED
    BY <1>3, <1>4, <2>1
<1>6. \A fd \in Poll!ConnFds : fd # fds[i] => inq'[fd] = inq[fd]
  BY <1>4 DEF Poll!TypeOK, Poll!ConnTypeOK
<1>7. Poll!TypeOK'
  BY <1>1, <1>5 DEF Poll!TypeOK, Poll!ConnTypeOK
<1>8. PollTables'
  BY <1>1 DEF PollTables, PollUsed
<1>9. Reported' = Reported
  BY <1>1 DEF Reported
<1>10. \A j \in T \ {i} : Poll!ReadReady(fds[j])'
  <2>1. \A j \in T \ {i} : Poll!ReadReady(fds[j])
    BY <1>1, <1>2 DEF Due
  <2>2. QED
    BY <1>1, <1>3, <1>6, <2>1, PollOthers DEF Poll!ReadReady
<1>11. Due(T)'
  BY <1>1, <1>2, <1>3, <1>10 DEF Due
<1>12. PollRound'
  BY <1>1, <1>2, <1>9, <1>11 DEF PollRound
<1>13. QED
  BY <1>1, <1>7, <1>8, <1>12 DEF PollInv

LEMMA PollLeave ==
  ASSUME NEW n \in Nat
  PROVE  (Poll!AfterRead(n) = "poll" /\ n = 0) \/ (Poll!AfterRead(n) = "scan" /\ n > 0)
  BY DEF Poll!AfterRead

\* --nready: the round goes on exactly while there is an entry to serve.
LEMMA PollCountDown ==
  ASSUME Poll!PollEntriesAssumption, Poll!TypeOK, NEW T \in SUBSET Reported, i \in T, Due(T),
         Reported' = Reported \ {i}, Reported \ T \subseteq {maxi}, maxi' = maxi,
         nready' = nready - 1, pc' = Poll!AfterRead(nready'),
         \A j \in T \ {i} : Poll!ReadReady(fds[j])'
  PROVE  /\ pc' \in {"poll", "scan"} /\ nready' \in Nat
         /\ pc' = "poll" => nready' = 0
         /\ pc' = "scan" => \E U \in SUBSET Reported' : Reported' \ U \subseteq {maxi'} /\ Due(U)'
<1>1. PICK U : U = T \ {i}
  OBVIOUS
<1>2. nready' = Cardinality(U) /\ nready' \in Nat
  <2>1. Cardinality(U) = Cardinality(T) - 1 /\ Cardinality(U) \in Nat
    BY <1>1, ServedEntry
  <2>2. nready = Cardinality(T)
    BY DEF Due
  <2>3. QED
    BY <2>1, <2>2
<1>3. pc' \in {"poll", "scan"} /\ (pc' = "poll" => nready' = 0) /\ (pc' = "scan" => nready' > 0)
  BY <1>2, PollLeave
<1>4. U \in SUBSET Reported' /\ Reported' \ U \subseteq {maxi'}
  BY <1>1
<1>5. ASSUME pc' = "scan" PROVE Due(U)'
  BY <1>1, <1>2, <1>3, <1>5 DEF Due
<1>6. QED
  BY <1>2, <1>3, <1>4, <1>5

\* Writen has returned: entry i is served.
LEMMA PollWriteBack ==
  ASSUME Poll!PollEntriesAssumption, Poll!TypeOK, PollTables, PollRound, Poll!WriteBack
  PROVE  PollInv'
<1>1. /\ pc = "write" /\ nready' = nready - 1 /\ i' = i + 1 /\ pc' = Poll!AfterRead(nready')
      /\ outq[fds[i]] < OutCap /\ outq' = [outq EXCEPT ![fds[i]] = @ + 1]
      /\ UNCHANGED <<fds, revents, maxi, open, backlog, inq, fin, rst>>
  BY DEF Poll!WriteBack, Poll!WriteReply
<1>2. PICK T \in SUBSET Reported : Reported \ T \subseteq {maxi} /\ Due(T)
  BY <1>1 DEF PollRound
<1>3. i \in T /\ i \in Poll!Entries /\ fds[i] \in Poll!ConnFds
  <2>1. i \in T
    BY <1>1, <1>2 DEF Due
  <2>2. i \in Poll!Entries /\ fds[i] >= 0
    BY <2>1 DEF Reported
  <2>3. QED
    BY <2>1, <2>2, PollEntryTypes
<1>4. Reported' = Reported \ {i} /\ i' \in 1..OPEN_MAX
  BY <1>1, <1>3, PollRoundStep
<1>5. \A j \in T \ {i} : Poll!ReadReady(fds[j])'
  BY <1>1, <1>2 DEF Due, Poll!ReadReady
<1>6. /\ pc' \in {"poll", "scan"} /\ nready' \in Nat
      /\ pc' = "poll" => nready' = 0
      /\ pc' = "scan" => \E U \in SUBSET Reported' : Reported' \ U \subseteq {maxi'} /\ Due(U)'
  BY <1>1, <1>2, <1>3, <1>4, <1>5, PollCountDown
<1>7. outq' \in [Poll!ConnFds -> 0..OutCap]
  <2>1. outq \in [Poll!ConnFds -> 0..OutCap] /\ OutCap \in Nat
    BY ConnAssumption DEF Poll!TypeOK, Poll!ConnTypeOK
  <2>2. QED
    BY <1>1, <1>3, <2>1
<1>8. Poll!TypeOK'
  BY <1>1, <1>4, <1>6, <1>7 DEF Poll!TypeOK, Poll!ConnTypeOK
<1>9. PollTables'
  BY <1>1 DEF PollTables, PollUsed
<1>10. PollRound'
  BY <1>1, <1>6 DEF PollRound
<1>11. QED
  BY <1>6, <1>8, <1>9, <1>10 DEF PollInv

\* read returned 0 or ECONNRESET: the descriptor leaves the table.
LEMMA PollReadGone ==
  ASSUME Poll!PollEntriesAssumption, Poll!TypeOK, PollTables, PollRound, Poll!ReadGone
  PROVE  PollInv'
<1>1. /\ Poll!AtRead /\ pc = "scan" /\ open' = open \ {fds[i]}
      /\ fin' = fin \ {fds[i]} /\ rst' = rst \ {fds[i]} /\ outq' = [outq EXCEPT ![fds[i]] = 0]
      /\ fds' = [fds EXCEPT ![i] = -1]
      /\ nready' = nready - 1 /\ i' = i + 1 /\ pc' = Poll!AfterRead(nready')
      /\ UNCHANGED <<revents, maxi, backlog, inq>>
  BY DEF Poll!ReadGone, Poll!AtRead, Poll!CloseFd, Poll!EntryFreed
<1>2. PICK T \in SUBSET Reported : Reported \ T \subseteq {maxi} /\ Due(T)
  BY <1>1 DEF PollRound
<1>3. i \in T /\ i \in Poll!Entries /\ fds[i] \in Poll!ConnFds
  BY <1>1, <1>2, ReadIsDue
<1>4. \A j \in Poll!Entries : fds'[j] = IF j = i THEN -1 ELSE fds[j]
  BY <1>1, <1>3 DEF Poll!TypeOK
<1>5. Reported' = Reported \ {i} /\ i' \in 1..OPEN_MAX
  BY <1>1, <1>3, <1>4, PollRoundStep
<1>6. \A j \in T \ {i} : Poll!ReadReady(fds[j])'
  <2>1. \A j \in T \ {i} : Poll!ReadReady(fds[j])
    BY <1>1, <1>2 DEF Due
  <2>2. \A j \in T \ {i} : j \in Poll!Entries /\ fds'[j] = fds[j] /\ fds[j] # fds[i]
    <3>1. \A j \in T : j \in Poll!Entries
      BY DEF Reported
    <3>2. QED
      BY <1>3, <1>4, <3>1, PollOthers
  <2>3. QED
    BY <1>1, <2>1, <2>2 DEF Poll!ReadReady
<1>7. /\ pc' \in {"poll", "scan"} /\ nready' \in Nat
      /\ pc' = "poll" => nready' = 0
      /\ pc' = "scan" => \E U \in SUBSET Reported' : Reported' \ U \subseteq {maxi'} /\ Due(U)'
  BY <1>1, <1>2, <1>3, <1>5, <1>6, PollCountDown
<1>8. Poll!TypeOK'
  <2>1. fds' \in [Poll!Entries -> Poll!ConnFds \cup {-1}]
    BY <1>1 DEF Poll!TypeOK
  <2>2. outq' \in [Poll!ConnFds -> 0..OutCap]
    <3>1. outq \in [Poll!ConnFds -> 0..OutCap] /\ 0 \in 0..OutCap
      BY ConnAssumption DEF Poll!TypeOK, Poll!ConnTypeOK
    <3>2. QED
      BY <1>1, <3>1
  <2>3. open' \subseteq Poll!ConnFds /\ fin' \subseteq Poll!ConnFds /\ rst' \subseteq Poll!ConnFds
    BY <1>1 DEF Poll!TypeOK, Poll!ConnTypeOK
  <2>4. QED
    BY <1>1, <1>5, <1>7, <2>1, <2>2, <2>3 DEF Poll!TypeOK, Poll!ConnTypeOK
<1>9. PollTables'
  <2>1. PollUsed' = PollUsed \ {i} /\ i \in PollUsed
    BY <1>1, <1>3, <1>4 DEF PollUsed, Poll!AtRead
  <2>2. \A j \in PollUsed' : fds'[j] = fds[j] /\ j \in PollUsed /\ fds[j] # fds[i]
    BY <1>4, <2>1 DEF PollUsed, PollTables
  <2>3. open' = {fds'[j] : j \in PollUsed'}
    <3>1. {fds'[j] : j \in PollUsed'} = {fds[j] : j \in PollUsed'}
      BY <2>2
    <3>2. {fds[j] : j \in PollUsed \ {i}} = {fds[j] : j \in PollUsed} \ {fds[i]}
      BY <2>1, <2>2
    <3>3. QED
      BY <1>1, <2>1, <3>1, <3>2 DEF PollTables
  <2>4. \A j, k \in PollUsed' : fds'[j] = fds'[k] => j = k
    BY <2>2 DEF PollTables
  <2>5. \A j \in PollUsed' : j <= maxi'
    BY <1>1, <2>2 DEF PollTables
  <2>6. QED
    BY <2>3, <2>4, <2>5 DEF PollTables
<1>10. PollRound'
  BY <1>1, <1>7 DEF PollRound
<1>11. QED
  BY <1>7, <1>8, <1>9, <1>10 DEF PollInv

\* Clients only ever make a descriptor more readable.
LEMMA PollReadable ==
  ASSUME Poll!ConnTypeOK, Poll!Clients
  PROVE  /\ open' = open /\ Poll!ConnTypeOK'
         /\ \A fd \in Poll!ConnFds : Poll!ReadReady(fd) => Poll!ReadReady(fd)'
<1> USE ConnAssumption DEF Poll!Clients, Poll!Connect, Poll!ClientAbort, Poll!Send, Poll!ClientClose, Poll!ClientReset, Poll!Take
<1>1. open' = open
  OBVIOUS
<1>2. \A fd \in Poll!ConnFds : Poll!ReadReady(fd) => Poll!ReadReady(fd)'
  BY DEF Poll!ReadReady, Poll!ConnTypeOK
<1>3. backlog' \in 0..LISTENQ
  BY DEF Poll!ConnTypeOK
<1>4. inq' \in [Poll!ConnFds -> 0..InCap] /\ outq' \in [Poll!ConnFds -> 0..OutCap]
  BY DEF Poll!ConnTypeOK
<1>5. fin' \subseteq Poll!ConnFds /\ rst' \subseteq Poll!ConnFds
  BY DEF Poll!ConnTypeOK
<1>6. QED
  BY <1>1, <1>2, <1>3, <1>4, <1>5 DEF Poll!ConnTypeOK

LEMMA PollClients ==
  ASSUME Poll!PollEntriesAssumption, Poll!TypeOK, PollTables, PollRound, pc # "too many clients", Poll!ClientStep
  PROVE  PollInv'
<1>1. UNCHANGED <<pc, fds, revents, maxi, nready, i>>
  BY DEF Poll!ClientStep
<1>2. /\ open' = open /\ Poll!ConnTypeOK'
      /\ \A fd \in Poll!ConnFds : Poll!ReadReady(fd) => Poll!ReadReady(fd)'
  BY PollReadable DEF Poll!ClientStep, Poll!TypeOK
<1>6. Poll!TypeOK'
  BY <1>1, <1>2 DEF Poll!TypeOK
<1>7. PollTables'
  BY <1>1, <1>2 DEF PollTables, PollUsed
<1>8. Reported' = Reported
  BY <1>1 DEF Reported
<1>9. \A j \in Reported : Poll!ReadReady(fds[j]) => Poll!ReadReady(fds[j])'
  <2>1. \A j \in Reported : fds[j] \in Poll!ConnFds
    BY PollEntryTypes DEF Reported
  <2>2. QED
    BY <1>1, <1>2, <2>1
<1>10. \A T \in SUBSET Reported : Due(T) => Due(T)'
  BY <1>1, <1>9 DEF Due
<1>11. PollRound'
  BY <1>1, <1>8, <1>9, <1>10 DEF PollRound
<1>12. QED
  BY <1>1, <1>6, <1>7, <1>11 DEF PollInv

LEMMA PollStep ==
  ASSUME Poll!PollEntriesAssumption, PollInv, [Poll!Next]_(Poll!vars)
  PROVE  PollInv'
<1>0. Poll!TypeOK /\ PollTables /\ PollRound /\ pc # "too many clients"
  BY DEF PollInv
<1>1. CASE Poll!AcceptError \/ Poll!WriteReset \/ Poll!ReadError
  <2>1. /\ pc' \in {"accept error", "sigpipe", "read error"}
        /\ UNCHANGED <<fds, revents, maxi, nready, i, open, backlog, inq, fin, rst, outq>>
    BY <1>1 DEF Poll!AcceptError, Poll!AcceptFails, Poll!WriteReset, Poll!ReadError, Poll!connVars
  <2>2. Poll!TypeOK'
    BY <1>0, <2>1 DEF Poll!TypeOK, Poll!ConnTypeOK, Poll!Ends
  <2>3. PollTables'
    BY <1>0, <2>1 DEF PollTables, PollUsed
  <2>4. PollRound'
    BY <1>0, <2>1 DEF PollRound
  <2>5. QED
    BY <2>1, <2>2, <2>3, <2>4 DEF PollInv
<1>2. CASE UNCHANGED Poll!vars
  <2> USE <1>2 DEF Poll!vars, Poll!connVars
  <2>1. Poll!TypeOK' /\ PollTables'
    BY <1>0 DEF Poll!TypeOK, Poll!ConnTypeOK, PollTables, PollUsed
  <2>2. Reported' = Reported /\ \A fd : Poll!ReadReady(fd) <=> Poll!ReadReady(fd)'
    BY DEF Reported, Poll!ReadReady
  <2>3. \A T : Due(T) => Due(T)'
    BY <2>2 DEF Due
  <2>4. PollRound'
    BY <1>0, <2>2, <2>3 DEF PollRound
  <2>5. QED
    BY <1>0, <2>1, <2>4 DEF PollInv
<1>3. QED
  BY <1>0, <1>1, <1>2, PollPoll, PollAccept, PollScan, PollReadData, PollWriteBack,
     PollReadGone, PollClients DEF Poll!Next, Poll!Server, Poll!Ended

LEMMA PollInvariance ==
  ASSUME Poll!PollEntriesAssumption
  PROVE  Poll!Spec => []PollInv
<1>1. Poll!Init => PollInv
  BY PollInit
<1>2. PollInv /\ [Poll!Next]_(Poll!vars) => PollInv'
  BY PollStep
<1>3. QED
  BY <1>1, <1>2, PTL DEF Poll!Spec

-----------------------------------------------------------------------------
\* The variables of tcp_serv_poll01 stay in their ranges.
THEOREM PollTypeCorrect ==
  ASSUME Poll!PollEntriesAssumption
  PROVE  Poll!Spec => []Poll!TypeOK
<1>1. PollInv => Poll!TypeOK
  BY DEF PollInv
<1>2. QED
  BY <1>1, PollInvariance, PTL

\* read never blocks tcp_serv_poll01, although the .revents of an entry that
\* Accept has just filled may be anything.
THEOREM PollReadNeverBlocks ==
  ASSUME Poll!PollEntriesAssumption
  PROVE  Poll!Spec => []Poll!NoBlockingRead
<1>1. PollInv => Poll!NoBlockingRead
  <2> SUFFICES ASSUME PollInv, Poll!AtRead
               PROVE  Poll!ReadReady(fds[i])
    BY DEF Poll!NoBlockingRead
  <2>1. Poll!TypeOK /\ PollRound /\ pc = "scan"
    BY DEF PollInv, Poll!AtRead
  <2>2. PICK T \in SUBSET Reported : Reported \ T \subseteq {maxi} /\ Due(T)
    BY <2>1 DEF PollRound
  <2>3. QED
    BY <2>1, <2>2, ReadIsDue
<1>2. QED
  BY <1>1, PollInvariance, PTL

\* client[] has an entry for every descriptor accept can return.
THEOREM PollEntriesSuffice ==
  ASSUME Poll!PollEntriesAssumption
  PROVE  Poll!Spec => [](pc # "too many clients")
<1>1. PollInv => pc # "too many clients"
  BY DEF PollInv
<1>2. QED
  BY <1>1, PollInvariance, PTL

\* The loop over client[] is never left at its end, i > maxi: --nready <= 0
\* ends every round.
THEOREM PollLoopLeft ==
  ASSUME Poll!PollEntriesAssumption
  PROVE  Poll!Spec => [](pc = "scan" => nready > 0 /\ i <= maxi)
<1>1. PollInv => (pc = "scan" => nready > 0 /\ i <= maxi)
  <2> SUFFICES ASSUME PollInv, pc = "scan"
               PROVE  nready > 0 /\ i <= maxi
    OBVIOUS
  <2>1. Poll!TypeOK /\ PollRound
    BY DEF PollInv
  <2>2. PICK T \in SUBSET Reported : Due(T)
    BY <2>1 DEF PollRound
  <2>3. T # {} /\ nready > 0
    BY <2>2, FS_EmptySet DEF Due
  <2>4. PICK j \in T : TRUE
    BY <2>3
  <2>5. j \in Poll!Entries /\ i <= j /\ j <= maxi
    BY <2>4 DEF Reported
  <2>6. i <= maxi
    BY <2>1, <2>5, PollEntryTypes
  <2>7. QED
    BY <2>3, <2>6
<1>2. QED
  BY <1>1, PollInvariance, PTL

-----------------------------------------------------------------------------
(* tcp_serv_poll01 as a service. *)

LEMMA PollSameConnections ==
  /\ Poll!Service!connVars = Poll!connVars /\ Poll!Service!ConnFds = Poll!ConnFds
  /\ (Poll!Service!ConnInit <=> Poll!ConnInit) /\ (Poll!Service!Clients <=> Poll!Clients)
  /\ Poll!Service!FreeFds = Poll!FreeFds
  /\ \A fd : /\ Poll!Service!AcceptAs(fd) <=> Poll!AcceptAs(fd)
             /\ Poll!Service!ReadSome(fd) <=> Poll!ReadSome(fd)
             /\ Poll!Service!WriteReply(fd) <=> Poll!WriteReply(fd)
             /\ Poll!Service!CloseFd(fd) <=> Poll!CloseFd(fd)
             /\ Poll!Service!ReadsEof(fd) <=> Poll!ReadsEof(fd)
             /\ Poll!Service!ReadsReset(fd) <=> Poll!ReadsReset(fd)
<1>1. /\ Poll!Service!connVars = Poll!connVars /\ Poll!Service!ConnFds = Poll!ConnFds
      /\ Poll!Service!FreeFds = Poll!FreeFds
  BY Zenon DEF Poll!Service!connVars, Poll!connVars, Poll!Service!ConnFds, Poll!ConnFds, Poll!Service!FreeFds, Poll!FreeFds
<1>2. Poll!Service!ConnInit <=> Poll!ConnInit
  BY <1>1, Zenon DEF Poll!Service!ConnInit, Poll!ConnInit
<1>3. \A fd : /\ Poll!Service!AcceptAs(fd) <=> Poll!AcceptAs(fd)
              /\ Poll!Service!ReadSome(fd) <=> Poll!ReadSome(fd)
              /\ Poll!Service!WriteReply(fd) <=> Poll!WriteReply(fd)
              /\ Poll!Service!CloseFd(fd) <=> Poll!CloseFd(fd)
              /\ Poll!Service!ReadsEof(fd) <=> Poll!ReadsEof(fd)
              /\ Poll!Service!ReadsReset(fd) <=> Poll!ReadsReset(fd)
  BY <1>1, Zenon DEF Poll!Service!AcceptAs, Poll!AcceptAs, Poll!Service!Lowest, Poll!Lowest, Poll!Service!ReadSome, Poll!ReadSome,
     Poll!Service!WriteReply, Poll!WriteReply, Poll!Service!CloseFd, Poll!CloseFd, Poll!Service!ReadsEof, Poll!ReadsEof,
     Poll!Service!ReadsReset, Poll!ReadsReset
<1>4. Poll!Service!Connect <=> Poll!Connect
  BY Zenon DEF Poll!Service!Connect, Poll!Connect
<1>5. Poll!Service!ClientAbort <=> Poll!ClientAbort
  BY Zenon DEF Poll!Service!ClientAbort, Poll!ClientAbort
<1>6. \A fd : /\ Poll!Service!Send(fd) <=> Poll!Send(fd)
              /\ Poll!Service!ClientClose(fd) <=> Poll!ClientClose(fd)
              /\ Poll!Service!ClientReset(fd) <=> Poll!ClientReset(fd)
              /\ Poll!Service!Take(fd) <=> Poll!Take(fd)
  BY Zenon DEF Poll!Service!Send, Poll!Send, Poll!Service!ClientClose, Poll!ClientClose, Poll!Service!ClientReset,
     Poll!ClientReset, Poll!Service!Take, Poll!Take
<1>7. Poll!Service!Clients <=> Poll!Clients
  BY <1>1, <1>4, <1>5, <1>6, Zenon DEF Poll!Service!Clients, Poll!Clients
<1>8. QED
  BY <1>1, <1>2, <1>3, <1>7, Zenon

LEMMA PollAtHand ==
  ASSUME Poll!PollEntriesAssumption, PollInv, Poll!AtRead \/ pc = "write"
  PROVE  fds[i] \in open /\ fds[i] \in Poll!ConnFds
<1> USE DEF Poll!PollEntriesAssumption
<1>1. Poll!TypeOK /\ PollTables /\ PollRound
  BY DEF PollInv
<1>2. i \in Poll!Entries /\ fds[i] >= 0
  <2>1. CASE Poll!AtRead
    BY <1>1, <2>1 DEF Poll!AtRead, Poll!TypeOK, Poll!Entries
  <2>2. CASE pc = "write"
    <3>1. PICK T \in SUBSET Reported : Due(T)
      BY <1>1, <2>2 DEF PollRound
    <3>2. i \in T
      BY <2>2, <3>1 DEF Due
    <3>3. QED
      BY <3>1, <3>2 DEF Reported
  <2>3. QED
    BY <2>1, <2>2
<1>3. QED
  BY <1>1, <1>2, PollEntryTypes DEF PollTables, PollUsed

\* Every step of tcp_serv_poll01 is one of the service, or none.
LEMMA PollServiceStep ==
  ASSUME Poll!PollEntriesAssumption, PollInv, [Poll!Next]_(Poll!vars)
  PROVE  [Poll!Service!Next]_(Poll!Service!serviceVars)
<1> USE PollSameConnections
<1>0. Poll!TypeOK /\ PollTables
  BY DEF PollInv
<1>1. CASE Poll!Poll \/ Poll!Scan \/ UNCHANGED Poll!vars
  <2>1. /\ UNCHANGED Poll!connVars
        /\ (pc' = pc /\ fds' = fds /\ i' = i) \/ (pc \notin Poll!Ends \cup {"write"} /\ pc' \notin Poll!Ends \cup {"write"})
    BY <1>1 DEF Poll!Poll, Poll!Scan, Poll!vars, Poll!Ends
  <2>2. Poll!Owed' = Poll!Owed /\ ((pc \in Poll!Ends)' <=> pc \in Poll!Ends)
    BY <2>1 DEF Poll!Owed
  <2>3. Poll!Service!connVars' = Poll!Service!connVars
    BY <2>1, Zenon DEF Poll!Service!connVars, Poll!connVars
  <2>4. (pc \in Poll!Ends)' = (pc \in Poll!Ends)
    BY <2>2, SameAnswer, Zenon DEF Poll!Ends
  <2>5. QED
    BY <2>2, <2>3, <2>4, Zenon DEF Poll!Service!serviceVars
<1>2. CASE Poll!Accept
  <2>1. PICK fd \in Poll!ConnFds : Poll!AcceptAs(fd) /\ pc = "accept" /\ pc' \in {"poll", "scan"}
    <3>1. PICK fd \in Poll!ConnFds : Poll!AcceptAs(fd) /\ (Poll!FreeEntries # {} => pc' = Poll!AfterAccept(nready'))
      BY <1>2 DEF Poll!Accept
    <3>2. Poll!FreeEntries # {}
      BY <1>0, <3>1, PollEntryLeft DEF Poll!AcceptAs, Poll!Lowest
    <3>3. QED
      BY <1>2, <3>1, <3>2 DEF Poll!Accept, Poll!AfterAccept
  <2>2. Poll!Owed = {} /\ Poll!Owed' = {} /\ pc \notin Poll!Ends /\ pc' \notin Poll!Ends
    BY <2>1 DEF Poll!Owed, Poll!Ends
  <2>3. Poll!Service!Admit
    BY <2>1, <2>2 DEF Poll!Service!Admit
  <2>4. QED
    BY <2>2, <2>3 DEF Poll!Service!Next, Poll!Service!Serve
<1>3. CASE Poll!AcceptError \/ Poll!WriteReset \/ Poll!ReadError
  <2>1. pc \notin Poll!Ends /\ pc' \in Poll!Ends /\ Poll!Owed' = {} /\ UNCHANGED Poll!connVars
    BY <1>3 DEF Poll!AcceptError, Poll!AcceptFails, Poll!WriteReset, Poll!ReadError, Poll!AtRead, Poll!Owed,
                Poll!Ends
  <2>2. Poll!Service!Hopeless
    <3>1. CASE Poll!AcceptError
      BY <3>1 DEF Poll!AcceptError, Poll!AcceptFails, Poll!Owed, Poll!Service!Hopeless
    <3>2. CASE Poll!WriteReset
      <4>1. fds[i] \in open \cap rst /\ Poll!Owed = {fds[i]}
        BY <3>2, PollAtHand DEF Poll!WriteReset, Poll!Owed
      <4>2. QED
        BY <4>1 DEF Poll!Service!Hopeless
    <3>3. CASE Poll!ReadError
      <4>1. fds[i] \in open \cap rst /\ Poll!Owed = {} /\ inq[fds[i]] = 0
        BY <3>3, PollAtHand DEF Poll!ReadError, Poll!ReadsReset, Poll!AtRead, Poll!Owed
      <4>2. QED
        BY <4>1 DEF Poll!Service!Hopeless
    <3>4. QED
      BY <1>3, <3>1, <3>2, <3>3
  <2>3. UNCHANGED Poll!Service!connVars
    BY <2>1, Zenon DEF Poll!Service!connVars, Poll!connVars
  <2>4. (pc \in Poll!Ends)' = TRUE
    BY <2>1, Zenon
  <2>5. Poll!Service!Stop
    BY <2>1, <2>2, <2>3, <2>4, Zenon DEF Poll!Service!Stop
  <2>6. QED
    BY <2>1, <2>5, Zenon DEF Poll!Service!Next
<1>4. CASE Poll!ReadData
  <2>1. pc \notin Poll!Ends /\ pc' \notin Poll!Ends /\ Poll!Owed = {} /\ Poll!Owed' = {fds[i]} /\ Poll!ReadSome(fds[i])
    BY <1>4 DEF Poll!ReadData, Poll!AtRead, Poll!Owed, Poll!Ends
  <2>2. fds[i] \in open /\ fds[i] \in Poll!ConnFds
    BY <1>4, PollAtHand DEF Poll!ReadData
  <2>3. Poll!Service!Hear(fds[i])
    BY <2>1, <2>2 DEF Poll!Service!Hear
  <2>4. QED
    BY <2>1, <2>2, <2>3 DEF Poll!Service!Next, Poll!Service!Serve
<1>5. CASE Poll!WriteBack
  <2>1. pc \notin Poll!Ends /\ pc' \notin Poll!Ends /\ Poll!Owed = {fds[i]} /\ Poll!Owed' = {} /\ Poll!WriteReply(fds[i])
    BY <1>5 DEF Poll!WriteBack, Poll!AfterRead, Poll!Owed, Poll!Ends
  <2>2. fds[i] \in Poll!ConnFds
    BY <1>5, PollAtHand DEF Poll!WriteBack
  <2>3. Poll!Service!Answer(fds[i])
    BY <2>1 DEF Poll!Service!Answer
  <2>4. QED
    BY <2>1, <2>2, <2>3 DEF Poll!Service!Next, Poll!Service!Serve
<1>6. CASE Poll!ReadGone
  <2>1. /\ pc \notin Poll!Ends /\ pc' \notin Poll!Ends /\ Poll!Owed = {} /\ Poll!Owed' = {}
        /\ (Poll!ReadsEof(fds[i]) \/ Poll!ReadsReset(fds[i])) /\ Poll!CloseFd(fds[i])
    BY <1>6 DEF Poll!ReadGone, Poll!AtRead, Poll!AfterRead, Poll!Owed, Poll!Ends
  <2>2. fds[i] \in open /\ fds[i] \in Poll!ConnFds
    BY <1>6, PollAtHand DEF Poll!ReadGone
  <2>3. Poll!Service!Leave(fds[i])
    BY <2>1, <2>2 DEF Poll!Service!Leave
  <2>4. QED
    BY <2>1, <2>2, <2>3 DEF Poll!Service!Next, Poll!Service!Serve
<1>7. CASE Poll!ClientStep
  <2>1. pc \notin Poll!Ends /\ pc' \notin Poll!Ends /\ Poll!Owed' = Poll!Owed /\ Poll!Clients
    BY <1>7 DEF Poll!ClientStep, Poll!Owed
  <2>2. QED
    BY <2>1 DEF Poll!Service!Next
<1>8. QED
  BY <1>1, <1>2, <1>3, <1>4, <1>5, <1>6, <1>7 DEF Poll!Next, Poll!Server, Poll!Ended

\* tcp_serv_poll01 implements ConnService too.  A client whose reset read
\* meets is left (Leave) where tcp_serv_select01 ends (Stop); a reset that
\* write meets, or another error of read, ends this process too.
THEOREM PollRefinement ==
  ASSUME Poll!PollEntriesAssumption
  PROVE  Poll!Spec => Poll!ServiceKept
<1>1. Poll!Init => Poll!Service!Init
  BY PollSameConnections DEF Poll!Init, Poll!Service!Init, Poll!Owed, Poll!Ends
<1>2. PollInv /\ [Poll!Next]_(Poll!vars) => [Poll!Service!Next]_(Poll!Service!serviceVars)
  BY PollServiceStep
<1>3. QED
  BY <1>1, <1>2, PollInvariance, PTL DEF Poll!Spec, Poll!ServiceKept, Poll!Service!Spec
===============================================================================
