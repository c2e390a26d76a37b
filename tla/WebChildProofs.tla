---------------------------- MODULE WebChildProofs ----------------------------
(***************************************************************************)
(* What the line servers read is what their client wrote, in spite of a    *)
(* buffer that outlives connections; the echo servers send it back, and a  *)
(* test_client is served whatever clients came before it: for every size   *)
(* of the buffers, every script of the other clients and every number of   *)
(* connections.                                                            *)
(***************************************************************************)
EXTENDS WebChild, Integers, SequenceTheorems, TLAPS

\* The line in the making has no newline and room for one byte more; the
\* buffer is empty between connections.
LineInv ==
    /\ spc = "readline" => Len(line) < MAXLINE - 1 /\ \A j \in 1..Len(line) : line[j][2] # NL
    /\ spc = "request" => nread \in {Len(line), Len(line) + 1}
    /\ spc = "write" => line = <<>>
    /\ spc = "accept" => rbuf = <<>>
    /\ spc \in {"readline", "request", "write"} => conn > 0

StreamInv == used \o line \o rbuf \o wire = wrote

\* A line that fills line[].
LongLine ==
    \E i \in 1..Len(wrote) :
        /\ prog.use = "echo" /\ i + MAXLINE - 2 <= Len(wrote)
        /\ \A j \in i..(i + MAXLINE - 2) : wrote[j][2] # NL

EchoInv ==
    prog.use \in {"echo", "puts"} =>
        /\ LongLine \/ echoed = used
        /\ prog.use = "echo" /\ spc = "request" => LongLine \/ nread = Len(line)

\* What test_client writes.
TestLine == <<<<conn, nbytes>>, <<conn, NL>>>>

\* The request of a test_client is read whole, and its reply is on the way or
\* has been read.
TestInv ==
    kind = "test_client" =>
        /\ prog.use = "web" /\ nbytes > 0 /\ spc \notin {"err_quit", "err_sys"}
        /\ cpc \in {"write", "readn", "closed", "quit"}
        /\ cpc = "write" => script = TestLine /\ wrote = <<>>
        /\ cpc # "write" => wrote = TestLine
        /\ spc = "request" => line = TestLine
        /\ \/ /\ used = <<>> /\ down = 0 /\ got = 0
              /\ spc \in {"readline", "request", "killed"}
           \/ /\ used = TestLine /\ spc \in {"readline", "write", "accept", "killed"}
              /\ got + down <= nbytes
              /\ spc = "write" => got + down + nleft = nbytes
              /\ spc \in {"readline", "accept"} => got + down = nbytes
        /\ cpc = "closed" => got = nbytes
        /\ cpc = "quit" => spc = "killed"

IInv == TypeOK /\ LineInv /\ StreamInv /\ EchoInv /\ TestInv

-----------------------------------------------------------------------------
(* Sequences. *)

LEMMA MinOfTwo ==
  ASSUME NEW a \in Int, NEW b \in Int
  PROVE  Min({a, b}) \in {a, b} /\ Min({a, b}) <= a /\ Min({a, b}) <= b
BY DEF Min

\* Concatenation under a name of its own, which keeps the provers from
\* unfolding it.
Cat(a, b) == a \o b

LEMMA CatAssoc == \A a, b, c \in Seq(Bytes) : Cat(Cat(a, b), c) = Cat(a, Cat(b, c))
BY ConcatAssociative DEF Cat

\* The first n elements and the rest.
LEMMA SplitSeq ==
  ASSUME NEW S, NEW s \in Seq(S), NEW n \in 1..Len(s)
  PROVE  /\ SubSeq(s, 1, n) \in Seq(S) /\ SubSeq(s, n + 1, Len(s)) \in Seq(S)
         /\ Len(SubSeq(s, 1, n)) = n
         /\ SubSeq(s, 1, n) \o SubSeq(s, n + 1, Len(s)) = s
<1>1. Len(s) \in Nat /\ \A i \in 1..Len(s) : s[i] \in S
  BY LenProperties, ElementOfSeq
<1>2. SubSeq(s, 1, n) \in Seq(S) /\ Len(SubSeq(s, 1, n)) = n
  BY <1>1, SubSeqProperties
<1>3. SubSeq(s, n + 1, Len(s)) \in Seq(S)
  BY <1>1, SubSeqProperties
<1>4. SubSeq(s, 1, n) \o SubSeq(s, n + 1, Len(s)) = s
  BY <1>1, ConcatAdjacentSubSeq, SubSeqFull
<1>5. QED
  BY <1>2, <1>3, <1>4

\* One byte moves from the front of a buffer to the end of the line.
LEMMA ShiftByte ==
  ASSUME NEW S, NEW a \in Seq(S), NEW b \in Seq(S), b # <<>>
  PROVE  /\ Append(a, Head(b)) \in Seq(S) /\ Tail(b) \in Seq(S)
         /\ Append(a, Head(b)) \o Tail(b) = a \o b
<1>1. Head(b) \in S /\ Tail(b) \in Seq(S) /\ Len(b) \in Nat /\ Len(b) > 0 /\ Head(b) = b[1]
  BY HeadTailProperties, EmptySeq, LenProperties
<1>2. Append(a, Head(b)) = a \o <<Head(b)>> /\ <<Head(b)>> \in Seq(S)
  BY <1>1, AppendIsConcat
<1>3. <<Head(b)>> \o Tail(b) = b
  <2>1. SubSeq(b, 1, Len(b)) = <<b[1]>> \o SubSeq(b, 2, Len(b))
    BY <1>1, SubSeqRecursiveFirst
  <2>2. QED
    BY <1>1, <2>1, SubSeqFull, TailIsSubSeq
<1>4. (a \o <<Head(b)>>) \o Tail(b) = a \o (<<Head(b)>> \o Tail(b))
  BY <1>1, <1>2, ConcatAssociative
<1>5. Append(a, Head(b)) \in Seq(S)
  BY <1>1, AppendProperties
<1>6. QED
  BY <1>1, <1>2, <1>3, <1>4, <1>5

\* A prefix stays one when more is added.
LEMMA PrefixOn ==
  ASSUME NEW S, NEW u \in Seq(S), NEW x \in Seq(S), NEW y \in Seq(S), IsPrefix(u, x)
  PROVE  x \o y \in Seq(S) /\ IsPrefix(u, x \o y)
<1>1. /\ Len(u) \in Nat /\ Len(x) \in Nat /\ Len(y) \in Nat
      /\ x \o y \in Seq(S) /\ Len(x \o y) = Len(x) + Len(y)
  BY ConcatProperties, LenProperties
<1>2. Len(u) <= Len(x) /\ SubSeq(u, 1, Len(u)) = SubSeq(x, 1, Len(u))
  BY DEF IsPrefix
<1>3. SubSeq(x \o y, 1, Len(u)) = SubSeq(x, 1, Len(u))
  <2>1. CASE Len(u) = 0
    BY <2>1, SubSeqEmpty
  <2>2. CASE Len(u) > 0
    BY <1>1, <1>2, <2>2, SubSeqOfConcat1
  <2>3. Len(u) = 0 \/ Len(u) > 0
    BY <1>1
  <2>4. QED
    BY <2>1, <2>2, <2>3
<1>4. QED
  BY <1>1, <1>2, <1>3 DEF IsPrefix

\* Elements of a concatenation.
LEMMA FourParts ==
  ASSUME NEW S, NEW a \in Seq(S), NEW b \in Seq(S), NEW c \in Seq(S), NEW d \in Seq(S)
  PROVE  /\ a \o b \in Seq(S) /\ (a \o b) \o c \in Seq(S) /\ ((a \o b) \o c) \o d \in Seq(S)
         /\ Len(((a \o b) \o c) \o d) = Len(a) + Len(b) + Len(c) + Len(d)
         /\ \A j \in 1..Len(b) : (((a \o b) \o c) \o d)[Len(a) + j] = b[j]
<1>1. /\ Len(a) \in Nat /\ Len(b) \in Nat /\ Len(c) \in Nat /\ Len(d) \in Nat
  BY LenProperties
<1>2. a \o b \in Seq(S) /\ Len(a \o b) = Len(a) + Len(b)
  BY ConcatProperties
<1>3. (a \o b) \o c \in Seq(S) /\ Len((a \o b) \o c) = Len(a) + Len(b) + Len(c)
  BY <1>2, ConcatProperties
<1>4. /\ ((a \o b) \o c) \o d \in Seq(S)
      /\ Len(((a \o b) \o c) \o d) = Len(a) + Len(b) + Len(c) + Len(d)
  BY <1>3, ConcatProperties
<1>5. ASSUME NEW j \in 1..Len(b)
      PROVE  (((a \o b) \o c) \o d)[Len(a) + j] = b[j]
  <2>1. (a \o b)[Len(a) + j] = b[j]
    BY <1>1, ConcatProperties
  <2>2. ((a \o b) \o c)[Len(a) + j] = (a \o b)[Len(a) + j]
    BY <1>1, <1>2, ConcatProperties
  <2>3. (((a \o b) \o c) \o d)[Len(a) + j] = ((a \o b) \o c)[Len(a) + j]
    BY <1>1, <1>3, ConcatProperties
  <2>4. QED
    BY <2>1, <2>2, <2>3
<1>6. QED
  BY <1>2, <1>3, <1>4, <1>5

\* atol of a digit and a newline.
LEMMA AtolDigit ==
  ASSUME NEW c, NEW n \in 1..9
  PROVE  Atol(<<<<c, n>>, <<c, NL>>>>) = n
<1> DEFINE l == <<<<c, n>>, <<c, NL>>>>
           Def(v, k) == IF k = 0 THEN 0
                        ELSE IF l[k][2] = NL THEN v[k - 1] ELSE 10 * v[k - 1] + l[k][2]
           value == CHOOSE v : v = [k \in 0..2 |-> Def(v, k)]
           w == [k \in 0..2 |-> IF k = 0 THEN 0 ELSE n]
<1>1. w = [k \in 0..2 |-> Def(w, k)]
  <2>1. ASSUME NEW k \in 0..2
        PROVE  w[k] = Def(w, k)
    <3>1. CASE k = 0
      BY <3>1
    <3>2. CASE k = 1
      BY <3>2 DEF NL
    <3>3. CASE k = 2
      BY <3>3 DEF NL
    <3>4. QED
      BY <2>1, <3>1, <3>2, <3>3
  <2>2. QED
    BY <2>1
<1>2. value = [k \in 0..2 |-> Def(value, k)]
  BY <1>1
<1> HIDE DEF value
<1>3. value[0] = 0
  BY <1>2
<1>4. value[1] = n
  BY <1>2, <1>3 DEF NL
<1>5. value[2] = n
  BY <1>2, <1>4 DEF NL
<1>6. Atol(l) = value[2]
  BY DEF Atol, value
<1>7. QED
  BY <1>5, <1>6

-----------------------------------------------------------------------------
(* The servers, and the type invariant in parts. *)

\* What the proofs use of the records of the servers.
Facts(p) ==
    /\ p.use \in {"web", "echo", "puts", "sum", "count"}
    /\ p.readline.eof \in {0, 1}
    /\ p.use = "echo" => p.readline.eof = 0

LEMMA ServerFacts ==
  ASSUME NEW p \in Programs
  PROVE  Facts(p)
<1> USE DEF readline, lib_readline, server_readline, readline_r, threads_readline, readline1,
            readline2, readline3
<1>1. p \in {web_child, server_web_child, web_child_r, str_echo08, strecho02, threads_test04,
             treadline1, treadline2, treadline3}
  BY ServersAssumption DEF AllServers, book_str_echo08
<1>2. CASE p \in {web_child, server_web_child, web_child_r}
  BY <1>2 DEF Facts, web_child, server_web_child, web_child_r
<1>3. CASE p \in {str_echo08, strecho02, threads_test04}
  BY <1>3 DEF Facts, str_echo08, strecho02, threads_test04
<1>4. CASE p \in {treadline1, treadline2, treadline3}
  BY <1>4 DEF Facts, treadline1, treadline2, treadline3
<1>5. QED
  BY <1>1, <1>2, <1>3, <1>4

PcTypes ==
    /\ prog \in Programs
    /\ conn \in 0..MaxConns
    /\ kind \in {"test_client", "other"}
    /\ cpc \in {"none", "write", "readn", "closed", "reset", "quit"}
    /\ spc \in {"accept", "readline", "request", "write"} \cup Ends
NumTypes ==
    /\ nbytes \in 0..MAXN /\ nread \in 0..MAXLINE /\ got \in 0..nbytes
    /\ nleft \in Nat /\ down \in Nat
ClientSeqs == script \in Seq(Bytes) /\ wrote \in Seq(Bytes) /\ wire \in Seq(Bytes)
ChildSeqs ==
    /\ rbuf \in Seq(Bytes) /\ Len(rbuf) <= MAXLINE
    /\ line \in Seq(Bytes) /\ Len(line) <= MAXLINE - 1
    /\ used \in Seq(Bytes) /\ echoed \in Seq(Bytes)

LEMMA Types ==
  /\ TypeOK <=> PcTypes /\ NumTypes /\ ClientSeqs /\ ChildSeqs
  /\ TypeOK' <=> PcTypes' /\ NumTypes' /\ ClientSeqs' /\ ChildSeqs'
BY Zenon DEF TypeOK, PcTypes, NumTypes, ClientSeqs, ChildSeqs

LEMMA Empty == <<>> \in Seq(Bytes) /\ Len(<<>>) = 0 /\ <<>> \o <<>> = <<>>
BY EmptySeq, ConcatEmptySeq

LEMMA InitIInv ==
  ASSUME Init
  PROVE  IInv
<1> USE Empty, WebAssumption DEF Init
<1>1. PcTypes
  BY DEF PcTypes, Ends
<1>2. NumTypes
  BY DEF NumTypes
<1>3. ClientSeqs /\ ChildSeqs
  BY DEF ClientSeqs, ChildSeqs
<1>4. LineInv /\ StreamInv /\ EchoInv /\ TestInv
  BY DEF LineInv, StreamInv, EchoInv, TestInv
<1>5. QED
  BY <1>1, <1>2, <1>3, <1>4, Types DEF IInv

\* A step that leaves the stream alone.
LEMMA StreamSame ==
  ASSUME IInv, UNCHANGED <<used, line, rbuf, wire, wrote>>
  PROVE  StreamInv'
BY DEF IInv, StreamInv

\* Long lines do not go away.
LEMMA LongKept ==
  ASSUME UNCHANGED <<prog, wrote>>
  PROVE  LongLine => LongLine'
BY DEF LongLine

-----------------------------------------------------------------------------
(* The clients. *)

\* A string with the number of its connection.
LEMMA TaggedIs ==
  ASSUME conn \in 0..MaxConns, conn < MaxConns, NEW s \in Seq(0..10)
  PROVE  Tagged(s) \in Seq(Bytes)
<1>1. Len(s) \in Nat /\ \A j \in 1..Len(s) : s[j] \in 0..10
  BY LenProperties, ElementOfSeq
<1>2. conn + 1 \in 1..MaxConns
  BY WebAssumption
<1>3. ASSUME NEW j \in 1..Len(s)
      PROVE  <<conn + 1, s[j]>> \in Bytes
  BY <1>1, <1>2 DEF Bytes
<1>4. Tagged(s) \in [1..Len(s) -> Bytes]
  BY <1>3 DEF Tagged
<1>5. QED
  BY <1>1, <1>4, SeqDef

LEMMA ConnectIInv ==
  ASSUME IInv, Connect
  PROVE  IInv'
<1> USE Empty DEF IInv
<1>1. PcTypes /\ NumTypes /\ ClientSeqs /\ ChildSeqs
  BY Types
<1>2. /\ spc = "accept" /\ conn < MaxConns /\ conn' = conn + 1 /\ cpc' = "write"
      /\ got' = 0 /\ wrote' = <<>> /\ wire' = <<>> /\ used' = <<>> /\ down' = 0
      /\ spc' = "readline" /\ line' = <<>> /\ nread' = 0 /\ echoed' = <<>>
      /\ UNCHANGED <<prog, nleft>>
  BY DEF Connect
<1>3. rbuf' = <<>>
  BY <1>2 DEF Connect, LineInv
<1>4. \/ /\ kind' = "test_client" /\ prog.use = "web" /\ nbytes' \in 1..MAXN
         /\ script' \in Seq(Bytes) /\ script' = TestLine'
      \/ kind' = "other" /\ nbytes' = 0 /\ script' \in Seq(Bytes)
  <2>1. ASSUME kind' = "test_client", prog.use = "web", NEW n \in 1..MAXN,
               nbytes' = n, script' = Tagged(<<n, NL>>)
        PROVE  nbytes' \in 1..MAXN /\ script' \in Seq(Bytes) /\ script' = TestLine'
    <3>1. n \in 0..10 /\ NL \in 0..10
      BY WebAssumption DEF NL
    <3>2. <<n, NL>> \in Seq(0..10)
      BY <3>1
    <3>3. Tagged(<<n, NL>>) = <<<<conn + 1, n>>, <<conn + 1, NL>>>>
      BY DEF Tagged
    <3>4. QED
      BY <1>1, <1>2, <2>1, <3>2, <3>3, TaggedIs DEF PcTypes, TestLine
  <2>2. ASSUME NEW s \in Scripts, script' = Tagged(s)
        PROVE  script' \in Seq(Bytes)
    BY <1>1, <1>2, <2>2, TaggedIs, WebAssumption DEF PcTypes
  <2>3. QED
    BY <2>1, <2>2 DEF Connect
<1>5. PcTypes'
  BY <1>1, <1>2, <1>4, WebAssumption DEF PcTypes
<1>6. NumTypes'
  BY <1>1, <1>2, <1>4, WebAssumption DEF NumTypes
<1>7. ClientSeqs' /\ ChildSeqs'
  BY <1>2, <1>3, <1>4, WebAssumption DEF ClientSeqs, ChildSeqs
<1>8. LineInv' /\ StreamInv' /\ EchoInv'
  BY <1>1, <1>2, <1>3, WebAssumption DEF LineInv, StreamInv, EchoInv, PcTypes
<1>9. TestInv'
  BY <1>1, <1>2, <1>4, WebAssumption DEF TestInv
<1>10. QED
  BY <1>5, <1>6, <1>7, <1>8, <1>9, Types

LEMMA ClientWriteIInv ==
  ASSUME IInv, ClientWrite
  PROVE  IInv'
<1> USE DEF IInv
<1>1. PcTypes /\ NumTypes /\ ClientSeqs /\ ChildSeqs
  BY Types
<1>2. /\ cpc = "write" /\ UNCHANGED <<conn, kind, nbytes, got, childVars, down>>
      /\ cpc' = IF kind = "test_client" THEN "readn" ELSE "write"
  BY DEF ClientWrite
<1>3. PICK n \in 1..Len(script) :
          /\ kind = "test_client" => n = Len(script)
          /\ wrote' = wrote \o SubSeq(script, 1, n)
          /\ wire' = wire \o SubSeq(script, 1, n)
          /\ script' = SubSeq(script, n + 1, Len(script))
  BY DEF ClientWrite
<1>4. PICK x \in Seq(Bytes) : x = SubSeq(script, 1, n)
  BY <1>1, SplitSeq DEF ClientSeqs
<1>5. wrote' = wrote \o x /\ wire' = wire \o x /\ script' \in Seq(Bytes)
  BY <1>1, <1>3, <1>4, SplitSeq DEF ClientSeqs
<1>6. ClientSeqs' /\ ChildSeqs'
  BY <1>1, <1>2, <1>5, ConcatProperties DEF ClientSeqs, ChildSeqs, childVars
<1>7. PcTypes' /\ NumTypes' /\ LineInv'
  BY <1>1, <1>2 DEF PcTypes, NumTypes, LineInv, childVars
<1>8. StreamInv'
  <2>1. PICK a \in Seq(Bytes) : a = used \o line \o rbuf
    BY <1>1, FourParts DEF ClientSeqs, ChildSeqs
  <2>2. PICK w \in Seq(Bytes) : w = wire
    BY <1>1 DEF ClientSeqs
  <2>3. (a \o w) \o x = a \o (w \o x)
    <3>1. Cat(Cat(a, w), x) = Cat(a, Cat(w, x))
      BY CatAssoc
    <3>2. QED
      BY <3>1 DEF Cat
  <2>4. QED
    BY <1>2, <1>5, <2>1, <2>2, <2>3 DEF StreamInv, childVars
<1>9. EchoInv'
  <2>1. ASSUME LongLine
        PROVE  LongLine'
    <3>1. PICK i \in 1..Len(wrote) :
              /\ prog.use = "echo" /\ i + MAXLINE - 2 <= Len(wrote)
              /\ \A j \in i..(i + MAXLINE - 2) : wrote[j][2] # NL
      BY <2>1 DEF LongLine
    <3>2. Len(wrote) \in Nat /\ Len(x) \in Nat /\ Len(wrote') = Len(wrote) + Len(x)
      BY <1>1, <1>5, ConcatProperties, LenProperties DEF ClientSeqs
    <3>3. \A j \in 1..Len(wrote) : wrote'[j] = wrote[j]
      BY <1>1, <1>5, <3>2, ConcatProperties DEF ClientSeqs
    <3>4. ASSUME NEW j \in i..(i + MAXLINE - 2)
          PROVE  wrote'[j][2] # NL
      <4>1. j \in 1..Len(wrote)
        BY <3>1, <3>2, WebAssumption
      <4>2. wrote'[j] = wrote[j]
        BY <3>3, <4>1
      <4>3. QED
        BY <3>1, <4>2
    <3>5. i \in 1..Len(wrote') /\ i + MAXLINE - 2 <= Len(wrote')
      BY <3>1, <3>2, WebAssumption
    <3>6. QED
      BY <1>2, <3>1, <3>4, <3>5 DEF LongLine, childVars
  <2>2. QED
    BY <1>2, <2>1 DEF EchoInv, childVars
<1>10. TestInv'
  <2>1. SUFFICES ASSUME kind = "test_client"
                 PROVE  TestInv'
    BY <1>2 DEF TestInv
  <2>2. x = script /\ wrote' = script
    BY <1>1, <1>2, <1>3, <1>4, <1>5, <2>1, SubSeqFull, ConcatEmptySeq DEF TestInv, ClientSeqs
  <2>3. wrote' = TestLine' /\ cpc' = "readn"
    BY <1>2, <2>1, <2>2 DEF TestInv, TestLine
  <2>4. TestLine' = TestLine
    BY <1>2 DEF TestLine
  <2>5. QED
    BY <1>2, <2>1, <2>3, <2>4 DEF TestInv, childVars
<1>11. QED
  BY <1>6, <1>7, <1>8, <1>9, <1>10, Types

LEMMA OtherClosesIInv ==
  ASSUME IInv, OtherCloses
  PROVE  IInv'
<1> USE DEF IInv, OtherCloses, childVars
<1>1. PcTypes /\ NumTypes /\ ClientSeqs /\ ChildSeqs
  BY Types
<1>2. PcTypes' /\ NumTypes' /\ ClientSeqs' /\ ChildSeqs'
  BY <1>1 DEF PcTypes, NumTypes, ClientSeqs, ChildSeqs
<1>3. LineInv' /\ StreamInv' /\ TestInv'
  BY DEF LineInv, StreamInv, TestInv
<1>4. EchoInv'
  BY LongKept DEF EchoInv
<1>5. QED
  BY <1>2, <1>3, <1>4, Types

LEMMA ReadnIInv ==
  ASSUME IInv, Readn
  PROVE  IInv'
<1> USE DEF IInv, childVars
<1>1. PcTypes /\ NumTypes /\ ClientSeqs /\ ChildSeqs
  BY Types
<1>2. /\ cpc = "readn" /\ UNCHANGED <<conn, kind, script, nbytes, wrote, childVars, wire>>
      /\ cpc' = IF got' = nbytes THEN "closed" ELSE "readn"
  BY DEF Readn
<1>3. PICK n \in Int : /\ 1 <= n /\ n <= down /\ n <= nbytes - got
                       /\ down' = down - n /\ got' = got + n
  <2>1. down \in Int /\ nbytes - got \in Int
    BY <1>1, WebAssumption DEF NumTypes
  <2>2. PICK m \in Int : m = Min({down, nbytes - got}) /\ m <= down /\ m <= nbytes - got
    BY <2>1, MinOfTwo
  <2>3. PICK n \in 1..m : down' = down - n /\ got' = got + n
    BY <2>2 DEF Readn
  <2>4. QED
    BY <2>1, <2>2, <2>3
<1>4. PcTypes' /\ ClientSeqs' /\ ChildSeqs'
  BY <1>1, <1>2 DEF PcTypes, ClientSeqs, ChildSeqs
<1>5. NumTypes'
  BY <1>1, <1>2, <1>3, WebAssumption DEF NumTypes
<1>6. LineInv' /\ StreamInv'
  BY <1>2 DEF LineInv, StreamInv
<1>7. EchoInv'
  BY <1>2, LongKept DEF EchoInv
<1>8. TestInv'
  <2>1. TestLine' = TestLine
    BY <1>2 DEF TestLine
  <2>2. down \in Int /\ got \in Int /\ nleft \in Int /\ nbytes \in Int /\ down' + got' = down + got
    BY <1>1, <1>3 DEF NumTypes
  <2>3. QED
    BY <1>2, <1>3, <2>1, <2>2 DEF TestInv
<1>9. QED
  BY <1>4, <1>5, <1>6, <1>7, <1>8, Types

LEMMA ReadnShortIInv ==
  ASSUME IInv, ReadnShort
  PROVE  IInv'
<1> USE DEF IInv, ReadnShort, childVars
<1>1. PcTypes /\ NumTypes /\ ClientSeqs /\ ChildSeqs
  BY Types
<1>2. PcTypes' /\ NumTypes' /\ ClientSeqs' /\ ChildSeqs'
  BY <1>1 DEF PcTypes, NumTypes, ClientSeqs, ChildSeqs
<1>3. LineInv' /\ StreamInv'
  BY DEF LineInv, StreamInv
<1>4. EchoInv'
  BY LongKept DEF EchoInv
<1>5. TestInv'
  BY DEF TestInv, TestLine, Ends
<1>6. QED
  BY <1>2, <1>3, <1>4, <1>5, Types

-----------------------------------------------------------------------------
(* my_read and readline. *)

LEMMA RefillIInv ==
  ASSUME IInv, Refill
  PROVE  IInv'
<1> USE DEF IInv
<1>1. PcTypes /\ NumTypes /\ ClientSeqs /\ ChildSeqs
  BY Types
<1>2. /\ spc = "readline" /\ rbuf = <<>>
      /\ UNCHANGED <<prog, spc, line, nread, echoed, used, nleft, clientVars, down>>
  BY DEF Refill
<1>3. PICK n \in 1..Len(wire) : /\ n <= MAXLINE /\ rbuf' = SubSeq(wire, 1, n)
                                /\ wire' = SubSeq(wire, n + 1, Len(wire))
  <2>1. Len(wire) \in Int /\ ReadSize \in Int /\ ReadSize <= MAXLINE /\ MAXLINE \in Int
    BY <1>1, LenProperties, WebAssumption DEF ClientSeqs, ReadSize
  <2>2. PICK a \in Int, b \in Int : a = ReadSize /\ b = Len(wire)
    BY <2>1
  <2>3. PICK n \in 1..Min({a, b}) : /\ rbuf' = SubSeq(wire, 1, n)
                                    /\ wire' = SubSeq(wire, n + 1, Len(wire))
    BY <2>2 DEF Refill
  <2>4. PICK m \in Int : m = Min({a, b}) /\ m <= a /\ m <= b
    BY MinOfTwo
  <2>5. n \in 1..m
    BY <2>4
  <2>6. n \in 1..Len(wire) /\ n <= MAXLINE
    BY <2>1, <2>2, <2>4, <2>5
  <2>7. QED
    BY <2>3, <2>6
<1>4. rbuf' \in Seq(Bytes) /\ wire' \in Seq(Bytes) /\ Len(rbuf') = n /\ rbuf' \o wire' = wire
  BY <1>1, <1>3, SplitSeq DEF ClientSeqs
<1>5. PcTypes' /\ NumTypes' /\ ClientSeqs' /\ LineInv'
  BY <1>1, <1>2, <1>4 DEF PcTypes, NumTypes, ClientSeqs, LineInv, clientVars
<1>6. ChildSeqs'
  BY <1>1, <1>2, <1>3, <1>4 DEF ChildSeqs
<1>7. StreamInv'
  <2>1. PICK a \in Seq(Bytes), x \in Seq(Bytes), y \in Seq(Bytes) :
            a = used \o line /\ x = rbuf' /\ y = wire'
    BY <1>1, <1>4, ConcatProperties DEF ChildSeqs
  <2>2. (a \o x) \o y = a \o (x \o y)
    <3>1. Cat(Cat(a, x), y) = Cat(a, Cat(x, y))
      BY CatAssoc
    <3>2. QED
      BY <3>1 DEF Cat
  <2>3. a \o <<>> = a
    BY ConcatEmptySeq
  <2>4. a \o wire = wrote
    BY <1>2, <2>1, <2>3 DEF StreamInv
  <2>5. (a \o x) \o y = wrote
    BY <1>4, <2>1, <2>2, <2>4
  <2>6. QED
    BY <1>2, <2>1, <2>5 DEF StreamInv, clientVars
<1>8. EchoInv'
  BY <1>2, LongKept DEF EchoInv, clientVars
<1>9. TestInv'
  BY <1>2 DEF TestInv, TestLine, clientVars
<1>10. QED
  BY <1>5, <1>6, <1>7, <1>8, <1>9, Types

LEMMA UsedLineRbuf ==
  ASSUME ChildSeqs
  PROVE  (used \o line) \o rbuf = used \o (line \o rbuf)
<1>1. PICK a \in Seq(Bytes), b \in Seq(Bytes), c \in Seq(Bytes) : a = used /\ b = line /\ c = rbuf
  BY DEF ChildSeqs
<1>2. (a \o b) \o c = a \o (b \o c)
  <2>1. Cat(Cat(a, b), c) = Cat(a, Cat(b, c))
    BY CatAssoc
  <2>2. QED
    BY <2>1 DEF Cat
<1>3. QED
  BY <1>1, <1>2

LEMMA ByteRead ==
  ASSUME ChildSeqs, MyRead
  PROVE  line' \in Seq(Bytes) /\ rbuf' \in Seq(Bytes) /\ line' \o rbuf' = line \o rbuf
<1>1. PICK l \in Seq(Bytes), r \in Seq(Bytes) : l = line /\ r = rbuf /\ r # <<>>
  BY DEF ChildSeqs, MyRead
<1>2. /\ Append(l, Head(r)) \in Seq(Bytes) /\ Tail(r) \in Seq(Bytes)
      /\ Append(l, Head(r)) \o Tail(r) = l \o r
  BY <1>1, ShiftByte
<1>3. QED
  BY <1>1, <1>2 DEF MyRead

\* The request of a test_client comes in two bytes.
LEMMA TestReadIInv ==
  ASSUME IInv, MyRead, kind = "test_client"
  PROVE  TestInv'
<1> USE DEF IInv
<1>1. PcTypes /\ NumTypes /\ ClientSeqs /\ ChildSeqs
  BY Types
<1>2. /\ spc = "readline" /\ rbuf # <<>> /\ line' = Append(line, Head(rbuf)) /\ rbuf' = Tail(rbuf)
      /\ spc' = IF LineEnds(line') \/ LineFull(line') THEN "request" ELSE "readline"
      /\ UNCHANGED <<prog, echoed, used, nleft, clientVars, wire, down>>
  BY DEF MyRead
<1>3. /\ Len(used) \in Nat /\ Len(line) \in Nat /\ Len(rbuf) \in Nat /\ Len(rbuf) > 0
      /\ Len(wire) \in Nat
  BY <1>1, <1>2, LenProperties, EmptySeq DEF ClientSeqs, ChildSeqs
<1>4. Len(used) + Len(line) + Len(rbuf) + Len(wire) = Len(wrote)
  BY <1>1, FourParts DEF StreamInv, ClientSeqs, ChildSeqs
<1>5. cpc # "write" /\ wrote = TestLine
  BY <1>3, <1>4, Empty DEF TestInv
<1>6. Len(TestLine) = 2 /\ TestLine[1] = <<conn, nbytes>> /\ TestLine[2] = <<conn, NL>>
  BY DEF TestLine
<1>7. used = <<>> /\ Len(used) = 0
  BY <1>3, <1>4, <1>5, <1>6, Empty DEF TestInv
<1>8. Len(line) \in {0, 1}
  <2>1. PICK a \in Nat, b \in Nat, c \in Nat : a = Len(line) /\ b = Len(rbuf) /\ c = Len(wire)
    BY <1>3
  <2>2. 0 + a + b + c = 2 /\ b > 0
    BY <1>3, <1>4, <1>5, <1>6, <1>7, <2>1
  <2>3. a \in {0, 1}
    BY <2>2
  <2>4. QED
    BY <2>1, <2>3
<1>9. /\ line' \in Seq(Bytes) /\ Len(line') = Len(line) + 1
      /\ \A j \in 1..Len(line') : line'[j] = TestLine[j]
  <2>1. line' \in Seq(Bytes) /\ rbuf' \in Seq(Bytes) /\ line' \o rbuf' = line \o rbuf
    BY <1>1, ByteRead
  <2>2. Len(line') = Len(line) + 1
    BY <1>1, <1>2, AppendProperties, HeadTailProperties DEF ChildSeqs
  <2>3. PICK l \in Seq(Bytes), r \in Seq(Bytes), u \in Seq(Bytes), w \in Seq(Bytes) :
            l = line' /\ r = rbuf' /\ u = used /\ w = wire
    BY <1>1, <2>1 DEF ClientSeqs, ChildSeqs
  <2>4. (u \o l) \o r = u \o (l \o r)
    <3>1. Cat(Cat(u, l), r) = Cat(u, Cat(l, r))
      BY CatAssoc
    <3>2. QED
      BY <3>1 DEF Cat
  <2>5. (used \o line) \o rbuf = used \o (line \o rbuf)
    BY <1>1, UsedLineRbuf
  <2>6. ((u \o l) \o r) \o w = TestLine
    BY <1>5, <2>1, <2>3, <2>4, <2>5 DEF StreamInv
  <2>7. \A j \in 1..Len(l) : (((u \o l) \o r) \o w)[Len(u) + j] = l[j]
    BY FourParts
  <2>8. \A j \in 1..Len(l) : l[j] = TestLine[j]
    BY <1>7, <2>3, <2>6, <2>7, LenProperties
  <2>9. QED
    BY <2>1, <2>2, <2>3, <2>8
<1>10. TestLine' = TestLine /\ UNCHANGED <<kind, cpc, script, nbytes, got, wrote>>
  BY <1>2 DEF TestLine, clientVars
<1>11. CASE Len(line) = 0
  <2>1. Len(line') = 1 /\ line'[1] = <<conn, nbytes>>
    BY <1>6, <1>9, <1>11
  <2>2. Last(line')[2] # NL
    BY <1>1, <2>1, WebAssumption DEF Last, NL, NumTypes
  <2>3. spc' = "readline"
    BY <1>2, <2>1, <2>2, WebAssumption DEF LineEnds, LineFull
  <2>4. QED
    BY <1>2, <1>7, <1>10, <2>3 DEF TestInv
<1>12. CASE Len(line) = 1
  <2>1. Len(line') = 2 /\ line'[1] = <<conn, nbytes>> /\ line'[2] = <<conn, NL>>
    BY <1>6, <1>9, <1>12
  <2>2. line' = TestLine
    BY <1>9, <2>1 DEF TestLine
  <2>3. spc' = "request"
    BY <1>2, <2>1 DEF LineEnds, Last
  <2>4. QED
    BY <1>2, <1>7, <1>10, <2>2, <2>3 DEF TestInv
<1>13. QED
  BY <1>8, <1>11, <1>12

LEMMA MyReadIInv ==
  ASSUME IInv, MyRead
  PROVE  IInv'
<1> USE DEF IInv
<1>1. PcTypes /\ NumTypes /\ ClientSeqs /\ ChildSeqs
  BY Types
<1>2. /\ spc = "readline" /\ rbuf # <<>> /\ line' = Append(line, Head(rbuf)) /\ rbuf' = Tail(rbuf)
      /\ spc' = IF LineEnds(line') \/ LineFull(line') THEN "request" ELSE "readline"
      /\ nread' = IF LineEnds(line') THEN Len(line') ELSE Len(line') + 1
      /\ UNCHANGED <<prog, echoed, used, nleft, clientVars, wire, down>>
  BY DEF MyRead
<1>3. line' \in Seq(Bytes) /\ rbuf' \in Seq(Bytes) /\ line' \o rbuf' = line \o rbuf
  BY <1>1, ByteRead
<1>4. /\ Len(line) \in Nat /\ Len(line') = Len(line) + 1 /\ Len(line') <= MAXLINE - 1
      /\ \A j \in 1..Len(line) : line'[j] = line[j]
  BY <1>1, <1>2, AppendProperties, HeadTailProperties, LenProperties, WebAssumption
     DEF ChildSeqs, LineInv
<1>5. Len(rbuf') <= MAXLINE
  BY <1>1, <1>2, HeadTailProperties, LenProperties, WebAssumption DEF ChildSeqs
<1>6. PcTypes'
  BY <1>1, <1>2 DEF PcTypes, clientVars
<1>7. NumTypes'
  BY <1>1, <1>2, <1>4, WebAssumption DEF NumTypes, clientVars
<1>8. ClientSeqs' /\ ChildSeqs'
  BY <1>1, <1>2, <1>3, <1>4, <1>5 DEF ClientSeqs, ChildSeqs, clientVars
<1>9. ~LineEnds(line') => \A j \in 1..Len(line') : line'[j][2] # NL
  BY <1>2, <1>4 DEF LineEnds, Last, LineInv
<1>10. LineInv'
  <2>1. spc' = "readline" => Len(line') < MAXLINE - 1 /\ ~LineEnds(line')
    BY <1>2, <1>4, WebAssumption DEF LineFull
  <2>2. QED
    BY <1>2, <1>9, <2>1 DEF LineInv, clientVars
<1>11. StreamInv'
  <2>1. PICK l \in Seq(Bytes), r \in Seq(Bytes), u \in Seq(Bytes) : l = line' /\ r = rbuf' /\ u = used
    BY <1>1, <1>3 DEF ChildSeqs
  <2>2. (u \o l) \o r = u \o (l \o r)
    <3>1. Cat(Cat(u, l), r) = Cat(u, Cat(l, r))
      BY CatAssoc
    <3>2. QED
      BY <3>1 DEF Cat
  <2>3. (used \o line) \o rbuf = used \o (line \o rbuf)
    BY <1>1, UsedLineRbuf
  <2>4. (u \o l) \o r = (used \o line) \o rbuf
    BY <1>3, <2>1, <2>2, <2>3
  <2>5. QED
    BY <1>2, <2>1, <2>4 DEF StreamInv, clientVars
<1>12. EchoInv'
  <2>1. ASSUME prog.use = "echo", spc' = "request", nread' # Len(line')
        PROVE  LongLine'
    <3>1. ~LineEnds(line') /\ Len(line') = MAXLINE - 1
      BY <1>2, <2>1 DEF LineFull
    <3>2. PICK l \in Seq(Bytes), r \in Seq(Bytes), u \in Seq(Bytes), w \in Seq(Bytes) :
              l = line' /\ r = rbuf' /\ u = used /\ w = wire
      BY <1>1, <1>3 DEF ClientSeqs, ChildSeqs
    <3>3. ((u \o l) \o r) \o w = wrote
      BY <1>2, <1>11, <3>2 DEF StreamInv, clientVars
    <3>4. /\ Len(wrote) = Len(u) + Len(l) + Len(r) + Len(w)
          /\ \A j \in 1..Len(l) : wrote[Len(u) + j] = l[j]
      <4>1. /\ Len(((u \o l) \o r) \o w) = Len(u) + Len(l) + Len(r) + Len(w)
            /\ \A j \in 1..Len(l) : (((u \o l) \o r) \o w)[Len(u) + j] = l[j]
        BY FourParts
      <4>2. QED
        BY <3>3, <4>1
    <3>5. /\ Len(u) \in Nat /\ Len(r) \in Nat /\ Len(w) \in Nat /\ Len(l) = MAXLINE - 1
          /\ MAXLINE \in Nat /\ MAXLINE >= 3
      BY <3>1, <3>2, LenProperties, WebAssumption
    <3>6. PICK i \in Int : i = Len(u) + 1
      BY <3>5
    <3>7. i \in 1..Len(wrote) /\ i + MAXLINE - 2 <= Len(wrote)
      BY <3>4, <3>5, <3>6
    <3>8. ASSUME NEW j \in i..(i + MAXLINE - 2)
          PROVE  wrote[j][2] # NL
      <4>1. PICK k \in 1..Len(l) : j = Len(u) + k
        <5>1. j - Len(u) \in 1..Len(l) /\ j = Len(u) + (j - Len(u))
          BY <3>5, <3>6
        <5>2. QED
          BY <5>1
      <4>2. l[k][2] # NL
        BY <1>9, <3>1, <3>2, <4>1
      <4>3. QED
        BY <3>4, <4>1, <4>2
    <3>9. LongLine
      BY <2>1, <3>7, <3>8 DEF LongLine
    <3>10. QED
      BY <1>2, <3>9, LongKept DEF clientVars
  <2>2. LongLine => LongLine'
    BY <1>2, LongKept DEF clientVars
  <2>3. QED
    BY <1>2, <2>1, <2>2 DEF EchoInv
<1>13. TestInv'
  <2>1. kind' = kind
    BY <1>2 DEF clientVars
  <2>2. QED
    BY <2>1, TestReadIInv DEF TestInv
<1>14. QED
  BY <1>6, <1>7, <1>8, <1>10, <1>11, <1>12, <1>13, Types

LEMMA ReadEofIInv ==
  ASSUME IInv, ReadEof
  PROVE  IInv'
<1> USE DEF IInv
<1>1. PcTypes /\ NumTypes /\ ClientSeqs /\ ChildSeqs
  BY Types
<1>2. /\ spc = "readline" /\ rbuf = <<>> /\ wire = <<>> /\ cpc = "closed"
      /\ spc' = IF line = <<>> THEN "accept" ELSE "request"
      /\ nread' = IF line = <<>> THEN 0 ELSE Len(line) + prog.readline.eof
      /\ UNCHANGED <<prog, rbuf, line, echoed, used, nleft, clientVars, wire, down>>
  BY DEF ReadEof
<1>3. Facts(prog)
  BY <1>1, ServerFacts DEF PcTypes
<1>4. Len(line) \in Nat /\ Len(line) < MAXLINE - 1
  BY <1>1, <1>2, LenProperties DEF ChildSeqs, LineInv
<1>5. PcTypes' /\ ClientSeqs' /\ ChildSeqs'
  BY <1>1, <1>2 DEF PcTypes, ClientSeqs, ChildSeqs, clientVars
<1>6. NumTypes'
  <2>1. nread' \in 0..MAXLINE
    BY <1>2, <1>3, <1>4, WebAssumption DEF Facts
  <2>2. QED
    BY <1>1, <1>2, <2>1 DEF NumTypes, clientVars
<1>7. LineInv'
  BY <1>2, <1>3, <1>4 DEF LineInv, Facts, clientVars
<1>8. StreamInv'
  BY <1>2, StreamSame DEF clientVars
<1>9. EchoInv'
  <2>1. LongLine => LongLine'
    BY <1>2, LongKept DEF clientVars
  <2>2. prog.use = "echo" /\ spc' = "request" => nread' = Len(line')
    BY <1>2, <1>3, <1>4 DEF Facts
  <2>3. QED
    BY <1>2, <2>1, <2>2 DEF EchoInv
<1>10. TestInv'
  <2>1. SUFFICES ASSUME kind = "test_client"
                 PROVE  TestInv'
    BY <1>2 DEF TestInv, clientVars
  <2>2. used = TestLine /\ wrote = TestLine /\ got = nbytes /\ got + down = nbytes
    BY <1>1, <1>2, <2>1 DEF TestInv, NumTypes
  <2>3. line = <<>>
    <3>1. Len(used) + Len(line) + Len(rbuf) + Len(wire) = Len(wrote)
      BY <1>1, FourParts DEF StreamInv, ClientSeqs, ChildSeqs
    <3>2. Len(used) = 2 /\ Len(wrote) = 2
      BY <2>2 DEF TestLine
    <3>3. Len(line) = 0
      BY <1>2, <1>4, <3>1, <3>2, Empty
    <3>4. QED
      BY <1>1, <3>3, EmptySeq DEF ChildSeqs
  <2>4. spc' = "accept" /\ TestLine' = TestLine
    BY <1>2, <2>3 DEF TestLine, clientVars
  <2>5. QED
    BY <1>1, <1>2, <2>1, <2>2, <2>4, WebAssumption DEF TestInv, clientVars, NumTypes
<1>11. QED
  BY <1>5, <1>6, <1>7, <1>8, <1>9, <1>10, Types

\* The child ends: err_sys only for a client that reset the connection or
\* left replies unread, and test_client does neither.
LEMMA EndsIInv ==
  ASSUME IInv, spc' \in {"err_sys", "killed"}, kind = "test_client" => spc' = "killed",
         UNCHANGED <<prog, rbuf, line, nread, echoed, used, nleft, clientVars, wire, down>>
  PROVE  IInv'
<1> USE DEF IInv, clientVars
<1>1. PcTypes /\ NumTypes /\ ClientSeqs /\ ChildSeqs
  BY Types
<1>2. PcTypes' /\ NumTypes' /\ ClientSeqs' /\ ChildSeqs'
  BY <1>1 DEF PcTypes, NumTypes, ClientSeqs, ChildSeqs, Ends
<1>3. LineInv' /\ StreamInv'
  BY DEF LineInv, StreamInv
<1>4. EchoInv'
  BY LongKept DEF EchoInv
<1>5. TestInv'
  <2>1. SUFFICES ASSUME kind = "test_client"
                 PROVE  TestInv'
    BY DEF TestInv
  <2>2. got + down <= nbytes \/ used = <<>>
    BY <2>1 DEF TestInv
  <2>3. TestLine' = TestLine
    BY DEF TestLine
  <2>4. QED
    BY <2>1, <2>2, <2>3 DEF TestInv
<1>6. QED
  BY <1>2, <1>3, <1>4, <1>5, Types

\* All of the reply has been read when test_client closes.
LEMMA TestReadsAll ==
  ASSUME IInv, kind = "test_client"
  PROVE  cpc # "reset" /\ ~(cpc = "closed" /\ down > 0)
<1>1. NumTypes
  BY Types DEF IInv
<1>2. cpc = "closed" => got = nbytes /\ got > 0 /\ got + down <= nbytes
  BY <1>1, WebAssumption DEF IInv, TestInv, NumTypes
<1>3. QED
  BY <1>1, <1>2, WebAssumption DEF IInv, TestInv, NumTypes

-----------------------------------------------------------------------------
(* What is done with a line. *)

LEMMA ReplyIs ==
  ASSUME IInv, spc = "request", prog.use = "web" => ~Refused(Atol(line))
  PROVE  /\ Reply \in Seq(Bytes) /\ Len(Reply) \in Nat
         /\ prog.use = "web" => Len(Reply) = Atol(line)
         /\ prog.use = "puts" => Reply = line
         /\ prog.use = "echo" /\ nread = Len(line) => Reply = line
<1>1. PcTypes /\ NumTypes /\ ClientSeqs /\ ChildSeqs
  BY Types DEF IInv
<1>2. conn \in 1..MaxConns /\ line \in Seq(Bytes) /\ Len(line) \in Nat
  BY <1>1, LenProperties DEF IInv, LineInv, PcTypes, ChildSeqs
<1>3. <<conn, 0>> \in Bytes /\ <<conn, NL>> \in Bytes /\ <<conn, NUL>> \in Bytes
  BY <1>2 DEF Bytes, NL, NUL
<1>4. CASE prog.use = "web"
  <2>1. PICK n \in 1..MAXN : n = Atol(line)
    BY <1>4 DEF Refused
  <2>2. n \in Nat
    BY WebAssumption
  <2>3. PICK b \in Bytes : b = <<conn, 0>>
    BY <1>3
  <2>4. [j \in 1..n |-> b] \in [1..n -> Bytes]
    OBVIOUS
  <2>5. [j \in 1..n |-> b] \in Seq(Bytes) /\ Len([j \in 1..n |-> b]) = n
    BY <2>2, <2>4, SeqDef
  <2>6. Reply = [j \in 1..n |-> b]
    BY <1>4, <2>1, <2>3 DEF Reply
  <2>7. QED
    BY <1>4, <2>1, <2>2, <2>5, <2>6
<1>5. CASE prog.use = "echo"
  <2>1. PICK l \in Seq(Bytes), b \in Bytes, n \in Nat :
            l = line /\ b = <<conn, NUL>> /\ n = nread
    BY <1>1, <1>2, <1>3, WebAssumption DEF NumTypes
  <2>2. n \in {Len(l), Len(l) + 1} /\ Len(l) \in Nat
    BY <1>2, <2>1 DEF IInv, LineInv
  <2>3. /\ Append(l, b) \in Seq(Bytes) /\ Len(Append(l, b)) = Len(l) + 1
        /\ \A j \in 1..Len(l) : Append(l, b)[j] = l[j]
    BY AppendProperties
  <2>4. \A j \in 1..n : Append(l, b)[j] \in Bytes
    BY <2>2, <2>3, ElementOfSeq
  <2>5. /\ SubSeq(Append(l, b), 1, n) \in Seq(Bytes) /\ Len(SubSeq(Append(l, b), 1, n)) = n
        /\ \A j \in 1..n : SubSeq(Append(l, b), 1, n)[j] = Append(l, b)[j]
    <3>1. PICK t \in Seq(Bytes) : t = Append(l, b)
      BY <2>3
    <3>2. \A j \in 1..n : t[j] \in Bytes
      BY <2>4, <3>1
    <3>3. /\ SubSeq(t, 1, n) \in Seq(Bytes) /\ Len(SubSeq(t, 1, n)) = n
          /\ \A j \in 1..n : SubSeq(t, 1, n)[j] = t[j]
      BY <3>2, SubSeqProperties
    <3>4. QED
      BY <3>1, <3>3
  <2>6. n = Len(l) => SubSeq(Append(l, b), 1, n) = l
    BY <2>2, <2>3, <2>5, SeqEqual
  <2>7. Reply = SubSeq(Append(l, b), 1, n)
    BY <1>5, <2>1 DEF Reply
  <2>8. QED
    BY <1>5, <2>1, <2>5, <2>6, <2>7
<1>6. CASE prog.use = "puts"
  BY <1>2, <1>6 DEF Reply
<1>7. CASE prog.use = "sum"
  <2>1. PICK b \in Bytes : b = <<conn, NL>>
    BY <1>3
  <2>2. <<b>> \in Seq(Bytes) /\ Len(<<b>>) = 1
    OBVIOUS
  <2>3. Reply = <<b>>
    BY <1>7, <2>1 DEF Reply
  <2>4. QED
    BY <1>7, <2>2, <2>3
<1>8. CASE prog.use = "count"
  BY <1>8, Empty DEF Reply
<1>9. prog.use \in {"web", "echo", "puts", "sum", "count"}
  BY <1>1, ServerFacts DEF PcTypes, Facts
<1>10. QED
  BY <1>4, <1>5, <1>6, <1>7, <1>8, <1>9

LEMMA RequestIInv ==
  ASSUME IInv, Request
  PROVE  IInv'
<1> USE DEF IInv, clientVars
<1>1. PcTypes /\ NumTypes /\ ClientSeqs /\ ChildSeqs
  BY Types
<1>2. /\ spc = "request" /\ used' = used \o line /\ line' = <<>>
      /\ UNCHANGED <<prog, rbuf, nread, clientVars, wire, down>>
  BY DEF Request
<1>3. \/ prog.use = "web" /\ Refused(Atol(line)) /\ spc' = "err_quit" /\ UNCHANGED <<nleft, echoed>>
      \/ /\ prog.use = "web" => ~Refused(Atol(line))
         /\ spc' = IF prog.use = "count" THEN "readline" ELSE "write"
         /\ nleft' = Len(Reply) /\ echoed' = echoed \o Reply
  BY DEF Request
<1>4. used' \in Seq(Bytes) /\ echoed' \in Seq(Bytes) /\ nleft' \in Nat
  <2>1. used' \in Seq(Bytes)
    BY <1>1, <1>2, ConcatProperties DEF ChildSeqs
  <2>2. echoed' \in Seq(Bytes) /\ nleft' \in Nat
    <3>1. CASE UNCHANGED <<nleft, echoed>>
      BY <1>1, <3>1 DEF ChildSeqs, NumTypes
    <3>2. CASE /\ prog.use = "web" => ~Refused(Atol(line))
               /\ nleft' = Len(Reply) /\ echoed' = echoed \o Reply
      <4>1. PICK r \in Seq(Bytes) : r = Reply /\ Len(r) \in Nat
        BY <1>2, <3>2, ReplyIs
      <4>2. PICK e \in Seq(Bytes) : e = echoed
        BY <1>1 DEF ChildSeqs
      <4>3. e \o r \in Seq(Bytes)
        BY ConcatProperties
      <4>4. QED
        BY <3>2, <4>1, <4>2, <4>3
    <3>3. QED
      BY <1>3, <3>1, <3>2
  <2>3. QED
    BY <2>1, <2>2
<1>5. PcTypes'
  BY <1>1, <1>2, <1>3 DEF PcTypes, Ends
<1>6. NumTypes'
  BY <1>1, <1>2, <1>4 DEF NumTypes
<1>7. ClientSeqs' /\ ChildSeqs'
  BY <1>1, <1>2, <1>4, Empty, WebAssumption DEF ClientSeqs, ChildSeqs
<1>8. LineInv'
  BY <1>2, <1>3, Empty, WebAssumption DEF LineInv
<1>9. StreamInv'
  <2>1. PICK a \in Seq(Bytes) : a = used \o line
    BY <1>1, ConcatProperties DEF ChildSeqs
  <2>2. a \o <<>> = a
    BY ConcatEmptySeq
  <2>3. QED
    BY <1>2, <2>1, <2>2 DEF StreamInv
<1>10. EchoInv'
  <2>1. SUFFICES ASSUME prog.use \in {"echo", "puts"}
                 PROVE  EchoInv'
    BY <1>2 DEF EchoInv
  <2>2. LongLine => LongLine'
    BY <1>2, LongKept
  <2>3. ~LongLine => echoed' = used'
    <3>1. ~LongLine => echoed = used /\ Reply = line
      BY <1>2, <2>1, ReplyIs DEF EchoInv
    <3>2. echoed' = echoed \o Reply
      BY <1>3, <2>1
    <3>3. QED
      BY <1>2, <3>1, <3>2
  <2>4. spc' # "request"
    BY <1>3
  <2>5. QED
    BY <2>2, <2>3, <2>4 DEF EchoInv
<1>11. TestInv'
  <2>1. SUFFICES ASSUME kind = "test_client"
                 PROVE  TestInv'
    BY <1>2 DEF TestInv
  <2>2. /\ prog.use = "web" /\ line = TestLine /\ used = <<>> /\ down = 0 /\ got = 0
        /\ nbytes \in 1..MAXN /\ nbytes \in 1..9
    BY <1>1, <1>2, <2>1, WebAssumption DEF TestInv, NumTypes
  <2>3. Atol(line) = nbytes
    BY <2>2, AtolDigit DEF TestLine
  <2>4. ~Refused(Atol(line))
    BY <2>2, <2>3 DEF Refused
  <2>5. spc' = "write" /\ nleft' = nbytes
    BY <1>2, <1>3, <2>2, <2>3, <2>4, ReplyIs
  <2>6. used' = TestLine
    BY <1>1, <1>2, <2>2, ConcatEmptySeq DEF ChildSeqs
  <2>7. TestLine' = TestLine /\ cpc \notin {"closed", "quit"}
    BY <1>2, <2>1, <2>2 DEF TestLine, TestInv
  <2>8. got' + down' + nleft' = nbytes' /\ got' + down' <= nbytes'
    BY <1>2, <2>2, <2>5
  <2>9. QED
    BY <1>2, <2>1, <2>2, <2>5, <2>6, <2>7, <2>8 DEF TestInv
<1>12. QED
  BY <1>5, <1>6, <1>7, <1>8, <1>9, <1>10, <1>11, Types

LEMMA WriteReplyIInv ==
  ASSUME IInv, WriteReply
  PROVE  IInv'
<1> USE DEF IInv, clientVars
<1>1. PcTypes /\ NumTypes /\ ClientSeqs /\ ChildSeqs
  BY Types
<1>2. /\ spc = "write"
      /\ UNCHANGED <<prog, rbuf, line, nread, echoed, used, clientVars, wire>>
  BY DEF WriteReply
<1>3. PICK n \in 1..nleft : /\ down' = down + n /\ nleft' = nleft - n
                            /\ spc' = IF n = nleft THEN "readline" ELSE "write"
  BY DEF WriteReply, AfterReply
<1>4. PcTypes' /\ ClientSeqs' /\ ChildSeqs'
  BY <1>1, <1>2, <1>3 DEF PcTypes, ClientSeqs, ChildSeqs
<1>5. NumTypes'
  BY <1>1, <1>2, <1>3 DEF NumTypes
<1>6. LineInv' /\ StreamInv'
  BY <1>2, <1>3, Empty, WebAssumption DEF LineInv, StreamInv
<1>7. EchoInv'
  BY <1>2, <1>3, LongKept DEF EchoInv
<1>8. TestInv'
  <2>1. SUFFICES ASSUME kind = "test_client"
                 PROVE  TestInv'
    BY <1>2 DEF TestInv
  <2>2. /\ down \in Nat /\ got \in Nat /\ nleft \in Nat /\ nbytes \in Nat
        /\ n \in Nat /\ n > 0 /\ n <= nleft
    BY <1>1, <1>3, WebAssumption DEF NumTypes
  <2>3. used = TestLine /\ got + down + nleft = nbytes
    BY <1>2, <2>1 DEF TestInv, TestLine
  <2>4. got + (down + n) + (nleft - n) = nbytes /\ got + (down + n) <= nbytes
    BY <2>2, <2>3
  <2>5. got' + down' <= nbytes' /\ got' + down' + nleft' = nbytes'
    BY <1>2, <1>3, <2>4
  <2>6. n = nleft => got' + down' = nbytes'
    BY <1>2, <1>3, <2>2, <2>3
  <2>7. TestLine' = TestLine
    BY <1>2 DEF TestLine
  <2>8. QED
    BY <1>2, <1>3, <2>1, <2>3, <2>5, <2>6, <2>7 DEF TestInv
<1>9. QED
  BY <1>4, <1>5, <1>6, <1>7, <1>8, Types

LEMMA StepIInv ==
  ASSUME IInv, [Next]_vars
  PROVE  IInv'
<1>1. CASE Client
  BY <1>1, ClientWriteIInv, ReadnIInv, ReadnShortIInv DEF Client
<1>2. CASE Refill \/ MyRead \/ ReadEof
  BY <1>2, RefillIInv, MyReadIInv, ReadEofIInv
<1>3. CASE Request \/ WriteReply
  BY <1>3, RequestIInv, WriteReplyIInv
<1>4. CASE ReadReset \/ WriteReset
  BY <1>4, EndsIInv, TestReadsAll DEF ReadReset, WriteReset
<1>5. CASE Killed
  BY <1>5, EndsIInv DEF Killed
<1>6. CASE Connect \/ OtherCloses
  BY <1>6, ConnectIInv, OtherClosesIInv
<1>7. CASE UNCHANGED vars
  <2> USE DEF IInv, vars, clientVars, childVars
  <2>1. PcTypes' /\ NumTypes' /\ ClientSeqs' /\ ChildSeqs'
    BY <1>7, Types DEF PcTypes, NumTypes, ClientSeqs, ChildSeqs
  <2>2. LineInv' /\ StreamInv'
    BY <1>7 DEF LineInv, StreamInv
  <2>3. EchoInv'
    BY <1>7, LongKept DEF EchoInv
  <2>4. TestInv'
    BY <1>7 DEF TestInv, TestLine
  <2>5. QED
    BY <2>1, <2>2, <2>3, <2>4, Types
<1>8. QED
  BY <1>1, <1>2, <1>3, <1>4, <1>5, <1>6, <1>7 DEF Next, Child

-----------------------------------------------------------------------------
(* The theorems. *)

\* The invariant holds of every reachable state.
THEOREM Invariance == Spec => []IInv
<1>1. Init => IInv
  BY InitIInv
<1>2. IInv /\ [Next]_vars => IInv'
  BY StepIInv
<1>3. QED
  BY <1>1, <1>2, PTL DEF Spec

\* The variables keep their types: read_buf and line[] are never overrun, and
\* readline never says it has more than MAXLINE bytes.
THEOREM TypeCorrect == Spec => []TypeOK
BY Invariance, PTL DEF IInv

\* No byte is lost, repeated, moved or carried over to another connection by
\* the buffer of readline, and the line leaves room for its null byte.
THEOREM StreamIsKept == Spec => []StreamKept
<1>1. IInv => StreamKept
  <2>1. ASSUME IInv
        PROVE  StreamKept
    <3>1. Len(line) \in Nat /\ Len(line) <= MAXLINE - 1
      BY <2>1, LenProperties DEF IInv, TypeOK
    <3>2. QED
      BY <2>1, <3>1, WebAssumption DEF IInv, StreamInv, StreamKept
  <2>2. QED
    BY <2>1
<1>2. QED
  BY <1>1, Invariance, PTL

\* The child never gives up on a test_client, whatever requests, half lines
\* and resets came on the connections before, and test_client gives up only
\* on a child that was killed.
THEOREM TestIsServed == Spec => []TestServed
<1>1. IInv => TestServed
  BY DEF IInv, TestInv, TestServed
<1>2. QED
  BY <1>1, Invariance, PTL

\* The echo servers send back a prefix of what they were sent, until a line
\* fills line[]; str_echo of threads/test04 always.
THEOREM EchoIsExact == Spec => []EchoExact
<1>1. IInv => EchoExact
  <2>1. SUFFICES ASSUME IInv, prog.use \in {"echo", "puts"}, ~LongLine
                 PROVE  IsPrefix(echoed, wrote)
    BY DEF EchoExact, LongLine
  <2>2. echoed = used
    BY <2>1 DEF IInv, EchoInv
  <2>3. PICK u \in Seq(Bytes), l \in Seq(Bytes), r \in Seq(Bytes), w \in Seq(Bytes) :
            u = used /\ l = line /\ r = rbuf /\ w = wire
    BY <2>1 DEF IInv, TypeOK
  <2>4. IsPrefix(u, u)
    BY LenProperties DEF IsPrefix
  <2>5. PICK a \in Seq(Bytes) : a = u \o l /\ IsPrefix(u, a)
    BY <2>4, PrefixOn
  <2>6. PICK b \in Seq(Bytes) : b = a \o r /\ IsPrefix(u, b)
    BY <2>5, PrefixOn
  <2>7. IsPrefix(u, b \o w)
    BY <2>6, PrefixOn
  <2>8. QED
    BY <2>1, <2>2, <2>3, <2>5, <2>6, <2>7 DEF IInv, StreamInv
<1>2. QED
  BY <1>1, Invariance, PTL
===============================================================================
