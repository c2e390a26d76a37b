---------------------------- MODULE UdpEchoProofs ----------------------------
(***************************************************************************)
(* The UDP clients stay in step with their server unless a datagram is     *)
(* duplicated or comes from elsewhere, the counting servers print the      *)
(* right number, and the queue of dgecho01 holds what its SIGIO handler    *)
(* put there, for every number of clients, lines and slots of the queue.   *)
(*                                                                         *)
(* A client that reads its reply before it sends again has at most one     *)
(* datagram under way.  The invariant follows that datagram: on its way to *)
(* the server, in the server's buffer or in one slot of its queue, or on   *)
(* its way back, and never in two of these places.                         *)
(***************************************************************************)
EXTENDS UdpEcho, FiniteSetTheorems, TLAPS

\* The slots of the queue not sent yet, in number.
Unsent == IF spc = "sent" THEN nqueue - 1 ELSE nqueue

\* The places of dgecho01.
QueuePcs == {"start", "async", "nonblock", "suspend", "send", "sent"}

\* Which server is where, and what its buffers hold.
ServerInv ==
    /\ serv.does = "echo" => spc \in {"recv", "send", "dead"}
    /\ serv.does = "count" => spc \in {"recv", "count", "dead"}
    /\ serv.does = "sigio" => spc \in QueuePcs \cup {"dead"}
    /\ sigio \/ inHandler => serv.does = "sigio"
    /\ inHandler => spc # "dead"
    /\ serv.does = "echo" /\ spc = "send" => mesg \in Dgrams /\ peer = mesg[1]

CountInv ==
    serv.does = "count" =>
        /\ spc = "recv" => taken = count
        /\ spc = "count" => taken = count + 1
        /\ taken \in {count, count + 1}
        /\ told <= count

QueueInv ==
    serv.does = "sigio" /\ spc # "dead" =>
        /\ spc \in {"send", "sent"} => nqueue > 0
        /\ taken = answered + Unsent
        /\ iput = (iget + Unsent) % QSIZE
        /\ \A s \in Queued : dg[s] \in Dgrams

\* The places where a datagram can be.
Held(d) ==
    \/ serv.does = "echo" /\ spc = "send" /\ mesg = d
    \/ serv.does = "sigio" /\ spc # "dead" /\ \E s \in Queued : dg[s] = d
Back(d) == reps[<<d[1], d>>] > 0
UnderWay(d) == reqs[d] > 0 \/ Held(d) \/ Back(d)

\* A datagram is in one place, once.
OneSlot(d) ==
    serv.does = "sigio" /\ spc # "dead" => \A s, t \in Queued : dg[s] = d /\ dg[t] = d => s = t
Single(d) ==
    /\ reqs[d] <= 1 /\ reps[<<d[1], d>>] <= 1 /\ OneSlot(d)
    /\ ~(reqs[d] > 0 /\ Held(d)) /\ ~(reqs[d] > 0 /\ Back(d)) /\ ~(Held(d) /\ Back(d))

\* Replies go to who asked; a client that waits has printed one line less
\* than it sent.
ReplyInv ==
    /\ \A c \in Clients, d \in Dgrams : reps[<<c, d>>] > 0 => d[1] = c
    /\ \A c \in Clients : cpc[c] = "recv" => Len(out[c]) < sent[c] /\ prog[c].sends # "flood"
    /\ \A c \in Clients : strays[c] <= strayed[c]

Undisturbed(c) == dups[c] = 0 /\ strayed[c] = 0

InStepOf(c) == \A j \in 1..Len(out[c]) : out[c][j] = <<c, j>>
Resting(c)  == Len(out[c]) = sent[c] /\ \A l \in 1..Lines : ~UnderWay(<<c, l>>)
Awaiting(c) ==
    /\ Len(out[c]) + 1 = sent[c]
    /\ \A l \in 1..Lines : UnderWay(<<c, l>>) => l = sent[c]
    /\ Single(<<c, sent[c]>>)

StepOf(c) ==
    Undisturbed(c) =>
        /\ InStepOf(c)
        /\ prog[c].sends # "flood" /\ cpc[c] = "fgets" => Resting(c)
        /\ cpc[c] = "recv" => Awaiting(c)

StepInv == \A c \in Clients : StepOf(c)

IInv == TypeOK /\ ServerInv /\ CountInv /\ QueueInv /\ ReplyInv /\ StepInv

-----------------------------------------------------------------------------
USE UdpAssumption
USE DEF clientVars, ringVars, countVars, serverVars, faultVars, netVars

\* The types, by who owns the variables.
ClientTypes ==
    /\ <<prog, serv>> \in Systems
    /\ cpc \in [Clients -> {"fgets", "recv", "done", "err_sys"}]
    /\ sent \in [Clients -> 0..Lines]
    /\ out \in [Clients -> Seq(Clients \X (0..Lines))]
    /\ \A c \in Clients : Len(out[c]) <= sent[c]
ServerTypes ==
    /\ spc \in {"recv", "send", "count", "start", "async", "nonblock", "suspend", "sent", "dead"}
    /\ count \in Nat /\ told \in Nat /\ taken \in Nat /\ answered \in Nat
    /\ dg \in [0..(QSIZE - 1) -> Dgrams \cup {<<>>}]
    /\ iget \in 0..(QSIZE - 1) /\ iput \in 0..(QSIZE - 1) /\ nqueue \in 0..QSIZE
    /\ inHandler \in BOOLEAN
    /\ mesg \in Dgrams \cup {<<>>} /\ peer \in Clients \cup {Nobody}
NetTypes ==
    /\ err \in [Clients -> BOOLEAN] /\ sigio \in BOOLEAN
    /\ reqs \in [Dgrams -> Nat] /\ reps \in [Clients \X Dgrams -> Nat]
    /\ strays \in [Clients -> Nat]
    /\ lost \in [Clients -> Nat] /\ dups \in [Clients -> Nat] /\ strayed \in [Clients -> Nat]

LEMMA Types ==
  /\ TypeOK <=> ClientTypes /\ ServerTypes /\ NetTypes
  /\ TypeOK' <=> ClientTypes' /\ ServerTypes' /\ NetTypes'
BY Zenon DEF TypeOK, ClientTypes, ServerTypes, NetTypes

\* Every server echoes, counts, or echoes from a queue.
LEMMA ServerKinds ==
  ASSUME <<prog, serv>> \in Systems
  PROVE  serv.does \in {"echo", "count", "sigio"}
<1>1. serv \in AllServers
  BY SystemsAssumption
<1>2. AllServers = {Echo, Count, dg_echo_loop1, dgecho01}
  BY DEF AllServers, dg_ehco, dg_echo_loop1, dg_echo_loop2, daytimeudpsrv2, udp_serv01, dg_echo,
     rtt_dg_echo, dgecholoop1, dgecholoop2, dgechoaddr, mydg_echo, udpserv04,
     names_daytimeudpsrv2, names_daytimeudpsrv3, udpserv01, udpserv06, udpserv07,
     advio_udpserv01, ipopts_udpserv01, mcast_udpserv01, unixdgserv01, sigio_udpserv01
<1>3. QED
  BY <1>1, <1>2 DEF Echo, Count, dg_echo_loop1, dgecho01

LEMMA DgramTypes ==
  ASSUME NEW d \in Dgrams
  PROVE  /\ d[1] \in Clients /\ d[2] \in 1..Lines /\ d = <<d[1], d[2]>>
         /\ <<d[1], d>> \in Clients \X Dgrams
BY DEF Dgrams

-----------------------------------------------------------------------------
(* Slots of a queue. *)

Slot(g, j)  == (g + j) % QSIZE
Slots(g, n) == {Slot(g, j) : j \in 0..(n - 1)}

LEMMA SlotIs ==
  ASSUME NEW g \in 0..(QSIZE - 1), NEW j \in 0..QSIZE
  PROVE  /\ Slot(g, j) = IF g + j < QSIZE THEN g + j ELSE g + j - QSIZE
         /\ Slot(g, j) \in 0..(QSIZE - 1)
BY DEF Slot

\* One more at the end, where iput points.
LEMMA SlotsAppend ==
  ASSUME NEW g \in 0..(QSIZE - 1), NEW n \in 0..(QSIZE - 1)
  PROVE  /\ Slots(g, n + 1) = Slots(g, n) \cup {Slot(g, n)}
         /\ Slot(g, n) \notin Slots(g, n)
         /\ Slot(Slot(g, n), 1) = Slot(g, n + 1)
<1>1. 0..((n + 1) - 1) = (0..(n - 1)) \cup {n}
  OBVIOUS
<1>2. Slots(g, n + 1) = Slots(g, n) \cup {Slot(g, n)}
  BY <1>1, Zenon DEF Slots
<1>3. Slot(g, n) \notin Slots(g, n)
  <2>1. ASSUME NEW j \in 0..(n - 1)
        PROVE  Slot(g, j) # Slot(g, n)
    <3>1. j \in 0..QSIZE /\ n \in 0..QSIZE
      OBVIOUS
    <3>2. Slot(g, j) = IF g + j < QSIZE THEN g + j ELSE g + j - QSIZE
      BY <3>1, SlotIs
    <3>3. Slot(g, n) = IF g + n < QSIZE THEN g + n ELSE g + n - QSIZE
      BY <3>1, SlotIs
    <3>4. QED
      BY <3>2, <3>3
  <2>2. QED
    BY <2>1 DEF Slots
<1>4. Slot(Slot(g, n), 1) = Slot(g, n + 1)
  <2>1. n \in 0..QSIZE /\ n + 1 \in 0..QSIZE /\ 1 \in 0..QSIZE
    OBVIOUS
  <2> DEFINE h == Slot(g, n)
  <2>2. h \in 0..(QSIZE - 1) /\ h = IF g + n < QSIZE THEN g + n ELSE g + n - QSIZE
    BY <2>1, SlotIs
  <2>3. Slot(g, n + 1) = IF g + (n + 1) < QSIZE THEN g + (n + 1) ELSE g + (n + 1) - QSIZE
    BY <2>1, SlotIs
  <2> HIDE DEF h
  <2>4. Slot(h, 1) = IF h + 1 < QSIZE THEN h + 1 ELSE h + 1 - QSIZE
    BY <2>1, <2>2, SlotIs
  <2>5. Slot(h, 1) = Slot(g, n + 1)
    BY <2>2, <2>3, <2>4
  <2>6. QED
    BY <2>5 DEF h
<1>5. QED
  BY <1>2, <1>3, <1>4

\* One less at the front, where iget points.
LEMMA SlotsTail ==
  ASSUME NEW g \in 0..(QSIZE - 1), NEW n \in 1..QSIZE
  PROVE  /\ Slots(g, n) = Slots(Slot(g, 1), n - 1) \cup {g}
         /\ g \notin Slots(Slot(g, 1), n - 1)
         /\ Slot(Slot(g, 1), n - 1) = Slot(g, n)
<1> DEFINE h == Slot(g, 1)
<1>0. 1 \in 0..QSIZE /\ n \in 0..QSIZE /\ n - 1 \in 0..QSIZE
  OBVIOUS
<1>1. h \in 0..(QSIZE - 1) /\ h = IF g + 1 < QSIZE THEN g + 1 ELSE g + 1 - QSIZE
  BY <1>0, SlotIs
<1> HIDE DEF h
<1>2. ASSUME NEW j \in 0..((n - 1) - 1)
      PROVE  Slot(h, j) = Slot(g, j + 1) /\ Slot(h, j) # g /\ j + 1 \in 0..(n - 1)
  <2>1. j \in 0..QSIZE /\ j + 1 \in 0..QSIZE
    OBVIOUS
  <2>2. Slot(h, j) = IF h + j < QSIZE THEN h + j ELSE h + j - QSIZE
    BY <1>1, <2>1, SlotIs
  <2>3. Slot(g, j + 1) = IF g + (j + 1) < QSIZE THEN g + (j + 1) ELSE g + (j + 1) - QSIZE
    BY <2>1, SlotIs
  <2>4. QED
    BY <1>1, <2>2, <2>3
<1>3. Slots(g, n) \subseteq Slots(h, n - 1) \cup {g}
  <2>1. ASSUME NEW j \in 0..(n - 1)
        PROVE  Slot(g, j) \in Slots(h, n - 1) \cup {g}
    <3>1. CASE j = 0
      <4>1. 0 \in 0..QSIZE
        OBVIOUS
      <4>2. QED
        BY <3>1, <4>1, SlotIs
    <3>2. CASE j # 0
      <4>1. j - 1 \in 0..((n - 1) - 1) /\ (j - 1) + 1 = j
        BY <3>2
      <4>2. Slot(g, j) = Slot(h, j - 1)
        BY <1>2, <4>1
      <4>3. QED
        BY <4>1, <4>2 DEF Slots
    <3>3. QED
      BY <3>1, <3>2
  <2>2. QED
    BY <2>1 DEF Slots
<1>4. Slots(h, n - 1) \subseteq Slots(g, n)
  BY <1>2 DEF Slots
<1>5. g \in Slots(g, n) /\ g \notin Slots(h, n - 1)
  <2>1. 0 \in 0..(n - 1) /\ 0 \in 0..QSIZE
    OBVIOUS
  <2>2. g = Slot(g, 0)
    BY <2>1, SlotIs
  <2>3. g \in Slots(g, n)
    BY <2>1, <2>2 DEF Slots
  <2>4. QED
    BY <1>2, <2>3 DEF Slots
<1>6. Slot(h, n - 1) = Slot(g, n)
  <2>1. Slot(h, n - 1) = IF h + (n - 1) < QSIZE THEN h + (n - 1) ELSE h + (n - 1) - QSIZE
    BY <1>0, <1>1, SlotIs
  <2>2. Slot(g, n) = IF g + n < QSIZE THEN g + n ELSE g + n - QSIZE
    BY <1>0, SlotIs
  <2>3. QED
    BY <1>1, <2>1, <2>2
<1>7. QED
  BY <1>3, <1>4, <1>5, <1>6 DEF h

LEMMA QueuedIs == Queued = Slots(iget, Unsent)
BY DEF Queued, Slots, Slot, Unsent

LEMMA QueuedFinite ==
  ASSUME ServerTypes
  PROVE  Queued \subseteq 0..(QSIZE - 1) /\ IsFiniteSet(Queued)
<1>1. \A j \in 0..(Unsent - 1) : j \in 0..QSIZE
  BY DEF ServerTypes, Unsent
<1>2. \A j \in 0..(Unsent - 1) : Slot(iget, j) \in 0..(QSIZE - 1)
  BY <1>1, SlotIs DEF ServerTypes
<1>3. Queued \subseteq 0..(QSIZE - 1)
  BY <1>2, QueuedIs DEF Slots
<1>4. IsFiniteSet(0..(QSIZE - 1))
  BY FS_Interval
<1>5. QED
  BY <1>3, <1>4, FS_Subset

-----------------------------------------------------------------------------
(* What a step may do to the places of a datagram. *)

\* A datagram is not under way because of a step that takes copies away.
LEMMA PlacesKept ==
  ASSUME NEW d \in Dgrams, NetTypes, NetTypes',
         reqs'[d] <= reqs[d], reps'[<<d[1], d>>] <= reps[<<d[1], d>>],
         Held(d)' => Held(d), OneSlot(d) => OneSlot(d)'
  PROVE  (UnderWay(d)' => UnderWay(d)) /\ (Single(d) => Single(d)')
<1>1. /\ reqs[d] \in Nat /\ reps[<<d[1], d>>] \in Nat
      /\ reqs'[d] \in Nat /\ reps'[<<d[1], d>>] \in Nat
  BY DgramTypes DEF NetTypes
<1>2. (reqs'[d] > 0 => reqs[d] > 0) /\ (Back(d)' => Back(d))
  BY <1>1 DEF Back
<1>3. Single(d) => reqs'[d] <= 1 /\ reps'[<<d[1], d>>] <= 1
  BY <1>1 DEF Single
<1>4. QED
  BY <1>2, <1>3 DEF UnderWay, Single

\* The server's buffers are as they were.
LEMMA HeldKept ==
  ASSUME UNCHANGED <<serv, spc, mesg, dg, iget, nqueue>>, NEW d
  PROVE  (Held(d)' <=> Held(d)) /\ (OneSlot(d)' <=> OneSlot(d))
BY DEF Held, OneSlot, QueuePcs, Queued

\* A client that takes no part in a step stays as it is.
LEMMA StepKept ==
  ASSUME NEW c \in Clients, TypeOK, StepOf(c),
         prog'[c] = prog[c], cpc'[c] = cpc[c], sent'[c] = sent[c], out'[c] = out[c],
         Undisturbed(c)' => Undisturbed(c),
         Undisturbed(c)' => \A l \in 1..Lines : /\ UnderWay(<<c, l>>)' => UnderWay(<<c, l>>)
                                                /\ Single(<<c, l>>) => Single(<<c, l>>)'
  PROVE  StepOf(c)'
<1> SUFFICES ASSUME Undisturbed(c)'
             PROVE  /\ InStepOf(c)'
                    /\ prog'[c].sends # "flood" /\ cpc'[c] = "fgets" => Resting(c)'
                    /\ cpc'[c] = "recv" => Awaiting(c)'
  BY DEF StepOf
<1>1. InStepOf(c)'
  BY DEF StepOf, InStepOf
<1>2. ASSUME prog'[c].sends # "flood", cpc'[c] = "fgets"
      PROVE  Resting(c)'
  BY <1>2 DEF StepOf, Resting
<1>3. ASSUME cpc'[c] = "recv"
      PROVE  Awaiting(c)'
  <2>1. Awaiting(c)
    BY <1>3 DEF StepOf
  <2>2. sent[c] \in 1..Lines
    <3>1. sent[c] \in 0..Lines /\ out[c] \in Seq(Clients \X (0..Lines))
      BY DEF TypeOK
    <3>2. QED
      BY <2>1, <3>1 DEF Awaiting
  <2>3. Single(<<c, sent[c]>>)'
    BY <2>1, <2>2 DEF Awaiting
  <2>4. QED
    BY <2>1, <2>3 DEF Awaiting
<1>4. QED
  BY <1>1, <1>2, <1>3

\* A step of the server or the network.
LEMMA AllKept ==
  ASSUME TypeOK, StepInv, UNCHANGED clientVars,
         \A c \in Clients : Undisturbed(c)' => Undisturbed(c),
         \A d \in Dgrams : Undisturbed(d[1])' => /\ UnderWay(d)' => UnderWay(d)
                                                 /\ Single(d) => Single(d)'
  PROVE  StepInv'
<1> SUFFICES ASSUME NEW c \in Clients
             PROVE  StepOf(c)'
  BY DEF StepInv
<1>1. \A l \in 1..Lines : <<c, l>> \in Dgrams /\ <<c, l>>[1] = c
  BY DEF Dgrams
<1>2. Undisturbed(c)' => \A l \in 1..Lines : /\ UnderWay(<<c, l>>)' => UnderWay(<<c, l>>)
                                             /\ Single(<<c, l>>) => Single(<<c, l>>)'
  BY <1>1
<1>3. QED
  BY <1>2, StepKept DEF StepInv

\* Steps that touch neither the server's program counter nor its buffers.
LEMMA ServerKept ==
  ASSUME ServerTypes, ServerInv, CountInv, QueueInv,
         UNCHANGED <<serverVars, prog>>, sigio' => sigio \/ serv.does = "sigio"
  PROVE  ServerTypes' /\ ServerInv' /\ CountInv' /\ QueueInv'
<1>1. ServerTypes'
  BY DEF ServerTypes
<1>2. ServerInv'
  BY DEF ServerInv
<1>3. CountInv' /\ QueueInv'
  BY DEF CountInv, QueueInv, Queued, Unsent
<1>4. QED
  BY <1>1, <1>2, <1>3

-----------------------------------------------------------------------------
LEMMA InitIInv == Init => IInv
<1> SUFFICES ASSUME Init
             PROVE  IInv
  OBVIOUS
<1> USE DEF Init
<1>1. <<prog, serv>> \in Systems /\ serv.does \in {"echo", "count", "sigio"}
  <2>1. PICK sys \in Systems : prog = sys[1] /\ serv = sys[2]
    OBVIOUS
  <2>2. sys = <<sys[1], sys[2]>>
    BY SystemsAssumption
  <2>3. QED
    BY <2>1, <2>2, ServerKinds
<1>2. ClientTypes
  BY <1>1 DEF ClientTypes
<1>3. ServerTypes
  <2>1. spc \in {"start", "recv"} /\ inHandler \in BOOLEAN
    OBVIOUS
  <2>2. dg \in [0..(QSIZE - 1) -> Dgrams \cup {<<>>}] /\ 0 \in 0..(QSIZE - 1) /\ 0 \in 0..QSIZE
    OBVIOUS
  <2>3. QED
    BY <2>1, <2>2 DEF ServerTypes
<1>4. NetTypes
  <2>1. sigio \in BOOLEAN /\ err \in [Clients -> BOOLEAN]
    OBVIOUS
  <2>2. QED
    BY <2>1 DEF NetTypes
<1>5. Queued = {}
  BY DEF Queued
<1>6. ServerInv /\ CountInv
  BY <1>1 DEF ServerInv, CountInv, QueuePcs
<1>7. QueueInv
  <2>1. (0 + 0) % QSIZE = 0
    OBVIOUS
  <2>2. QED
    BY <1>5, <2>1 DEF QueueInv, Unsent
<1>8. ReplyInv
  BY DEF ReplyInv
<1>9. StepInv
  <2>1. \A d \in Dgrams : reqs[d] = 0 /\ reps[<<d[1], d>>] = 0
    BY DgramTypes
  <2>2. ASSUME NEW d \in Dgrams
        PROVE  ~UnderWay(d)
    <3>1. spc # "send"
      OBVIOUS
    <3>2. ~Held(d)
      BY <1>5, <3>1, Zenon DEF Held
    <3>3. ~(reqs[d] > 0) /\ ~Back(d)
      <4> HIDE DEF Init
      <4>1. QED
        BY <2>1 DEF Back
    <3>4. QED
      BY <3>2, <3>3, Zenon DEF UnderWay
  <2>3. \A c \in Clients, l \in 1..Lines : <<c, l>> \in Dgrams
    BY DEF Dgrams
  <2>4. QED
    BY <2>2, <2>3 DEF StepInv, StepOf, InStepOf, Resting
<1>10. QED
  BY <1>2, <1>3, <1>4, <1>6, <1>7, <1>8, <1>9, Types DEF IInv

-----------------------------------------------------------------------------
(* The clients. *)

\* The clients that take no part in a step of client c.
LEMMA OthersKept ==
  ASSUME IInv, NEW c \in Clients, NetTypes',
         UNCHANGED <<prog, serv, spc, mesg, dg, iget, nqueue, dups, strayed>>,
         \A b \in Clients \ {c} : /\ cpc'[b] = cpc[b] /\ sent'[b] = sent[b] /\ out'[b] = out[b]
                                  /\ \A l \in 1..Lines :
                                       /\ reqs'[<<b, l>>] = reqs[<<b, l>>]
                                       /\ reps'[<<b, <<b, l>>>>] = reps[<<b, <<b, l>>>>]
  PROVE  \A b \in Clients \ {c} : StepOf(b)'
<1> TAKE b \in Clients \ {c}
<1>1. NetTypes
  BY Types DEF IInv
<1>2. ASSUME NEW l \in 1..Lines
      PROVE  /\ UnderWay(<<b, l>>)' => UnderWay(<<b, l>>)
             /\ Single(<<b, l>>) => Single(<<b, l>>)'
  <2> DEFINE d == <<b, l>>
  <2>1. d \in Dgrams /\ d[1] = b
    BY DEF Dgrams
  <2>2. reqs[d] \in Nat /\ reps[<<d[1], d>>] \in Nat
    BY <1>1, <2>1, DgramTypes DEF NetTypes
  <2>3. reqs'[d] <= reqs[d] /\ reps'[<<d[1], d>>] <= reps[<<d[1], d>>]
    BY <2>1, <2>2
  <2> HIDE DEF d
  <2>4. (UnderWay(d)' => UnderWay(d)) /\ (Single(d) => Single(d)')
    BY <1>1, <2>1, <2>3, HeldKept, PlacesKept
  <2>5. QED
    BY <2>4 DEF d
<1>3. Undisturbed(b)' => Undisturbed(b)
  BY DEF Undisturbed
<1>4. QED
  BY <1>2, <1>3, StepKept DEF IInv, StepInv

\* The datagram just sent is the only one of its client.
LEMMA SendLineIInv ==
  ASSUME IInv, NEW c \in Clients, SendLine(c)
  PROVE  IInv'
<1> USE DEF IInv
<1>1. ClientTypes /\ ServerTypes /\ NetTypes
  BY Types
<1>0. PICK n \in 1..Lines : n = sent[c] + 1
  BY <1>1 DEF SendLine, ClientTypes
<1> DEFINE d == <<c, n>>
<1>2. /\ cpc[c] = "fgets" /\ sent[c] \in 0..Lines /\ sent[c] < Lines
      /\ sent' = [sent EXCEPT ![c] = n]
      /\ reqs' = [reqs EXCEPT ![d] = reqs[d] + 1]
      /\ cpc' = [cpc EXCEPT ![c] = IF prog[c].sends = "flood" THEN "fgets" ELSE "recv"]
      /\ UNCHANGED <<prog, out, reps, strays, err, serverVars, faultVars>>
  BY <1>0, <1>1 DEF SendLine, ClientTypes
<1>3. d \in Dgrams /\ d[1] = c
  BY DEF Dgrams
<1> HIDE DEF d
<1>4. ClientTypes'
  BY <1>0, <1>1, <1>2 DEF ClientTypes
<1>5. NetTypes'
  <2>1. sigio' \in BOOLEAN
    BY DEF SendLine, Arrives
  <2>2. reqs' \in [Dgrams -> Nat]
    BY <1>1, <1>2, <1>3 DEF NetTypes
  <2>3. QED
    BY <1>1, <1>2, <2>1, <2>2 DEF NetTypes
<1>6. ServerTypes' /\ ServerInv' /\ CountInv' /\ QueueInv'
  <2>1. sigio' => serv.does = "sigio"
    BY DEF SendLine, Arrives
  <2>2. QED
    BY <1>1, <1>2, <2>1, ServerKept
<1>7. ReplyInv'
  BY <1>0, <1>1, <1>2 DEF ReplyInv, ClientTypes
<1>8. \A b \in Clients \ {c} : StepOf(b)'
  <2>1. \A b \in Clients \ {c} :
          /\ cpc'[b] = cpc[b] /\ sent'[b] = sent[b] /\ out'[b] = out[b]
          /\ \A l \in 1..Lines : /\ reqs'[<<b, l>>] = reqs[<<b, l>>]
                                 /\ reps'[<<b, <<b, l>>>>] = reps[<<b, <<b, l>>>>]
    <3> TAKE b \in Clients \ {c}
    <3>1. cpc'[b] = cpc[b] /\ sent'[b] = sent[b] /\ out'[b] = out[b]
      BY <1>1, <1>2 DEF ClientTypes
    <3>2. ASSUME NEW l \in 1..Lines
          PROVE  reqs'[<<b, l>>] = reqs[<<b, l>>]
      <4>1. <<b, l>> \in Dgrams /\ <<b, l>> # d
        BY <1>3 DEF Dgrams
      <4>2. QED
        BY <1>1, <1>2, <4>1 DEF NetTypes
    <3>3. QED
      BY <1>2, <3>1, <3>2
  <2>2. QED
    BY <1>2, <1>5, <2>1, OthersKept
<1>9. StepOf(c)'
  <2> SUFFICES ASSUME Undisturbed(c)'
               PROVE  /\ InStepOf(c)'
                      /\ prog'[c].sends # "flood" /\ cpc'[c] = "fgets" => Resting(c)'
                      /\ cpc'[c] = "recv" => Awaiting(c)'
    BY DEF StepOf
  <2>1. Undisturbed(c)
    BY <1>2 DEF Undisturbed
  <2>2. InStepOf(c)'
    BY <1>2, <2>1 DEF StepInv, StepOf, InStepOf
  <2>3. CASE prog[c].sends = "flood"
    BY <1>1, <1>2, <2>2, <2>3 DEF ClientTypes
  <2>4. CASE prog[c].sends # "flood"
    <3>1. Resting(c) /\ cpc'[c] = "recv" /\ sent'[c] = n
      BY <1>1, <1>2, <2>1, <2>4 DEF StepInv, StepOf, ClientTypes
    <3>2. \A e \in Dgrams : (Held(e)' <=> Held(e)) /\ (OneSlot(e)' <=> OneSlot(e))
      BY <1>2, HeldKept
    <3>3. \A l \in 1..Lines : UnderWay(<<c, l>>)' => l = sent'[c]
      <4> TAKE l \in 1..Lines
      <4>1. <<c, l>> \in Dgrams /\ ~UnderWay(<<c, l>>)
        BY <3>1 DEF Resting, Dgrams
      <4>2. CASE l # n
        <5>1. <<c, l>> # d
          BY <4>2 DEF d
        <5>2. reqs'[<<c, l>>] = reqs[<<c, l>>]
          BY <1>1, <1>2, <4>1, <5>1 DEF NetTypes
        <5>3. QED
          BY <1>2, <3>2, <4>1, <5>2 DEF UnderWay, Back
      <4>3. QED
        BY <3>1, <4>2
    <3>4. Single(d)'
      <4>1. ~UnderWay(d)
        BY <1>3, <3>1 DEF Resting, d
      <4>2. reqs[d] \in Nat /\ reps[<<d[1], d>>] \in Nat
        BY <1>1, <1>3, DgramTypes DEF NetTypes
      <4>3. reqs[d] = 0 /\ reps[<<d[1], d>>] = 0 /\ ~Held(d)
        BY <4>1, <4>2 DEF UnderWay, Back
      <4>4. reqs'[d] = 1 /\ reps'[<<d[1], d>>] = 0
        BY <1>1, <1>2, <1>3, <4>3 DEF NetTypes
      <4>5. OneSlot(d)
        BY <4>3 DEF Held, OneSlot, QueuePcs
      <4>6. QED
        BY <1>3, <3>2, <4>3, <4>4, <4>5 DEF Single, Back
    <3>5. Awaiting(c)'
      <4>1. Len(out'[c]) + 1 = sent'[c]
        BY <1>0, <1>2, <3>1 DEF Resting
      <4>2. Single(<<c, sent[c]>>)'
        BY <3>1, <3>4 DEF d
      <4>3. QED
        BY <3>3, <4>1, <4>2 DEF Awaiting
    <3>6. QED
      BY <2>2, <3>1, <3>5
  <2>5. QED
    BY <2>3, <2>4
<1>10. StepInv'
  BY <1>8, <1>9 DEF StepInv
<1>11. QED
  BY <1>4, <1>5, <1>6, <1>7, <1>10, Types

\* The reply read is the one the client waits for, and no copy is left.
LEMMA ReceiveIInv ==
  ASSUME IInv, NEW c \in Clients, Receive(c)
  PROVE  IInv'
<1> USE DEF IInv
<1>1. ClientTypes /\ ServerTypes /\ NetTypes
  BY Types
<1>2. PICK d \in Dgrams :
        /\ reps[<<c, d>>] > 0
        /\ reps' = [reps EXCEPT ![<<c, d>>] = @ - 1]
        /\ out' = [out EXCEPT ![c] = Append(@, d)]
  BY DEF Receive
<1>3. /\ cpc[c] = "recv" /\ cpc' = [cpc EXCEPT ![c] = "fgets"]
      /\ UNCHANGED <<prog, sent, reqs, strays, err, sigio, serverVars, faultVars>>
  BY DEF Receive
<1>4. /\ d[1] = c /\ d[2] \in 1..Lines /\ d = <<c, d[2]>> /\ <<c, d>> \in Clients \X Dgrams
      /\ d \in Clients \X (0..Lines)
  BY <1>2, DgramTypes DEF ReplyInv, Dgrams
<1>5. /\ out[c] \in Seq(Clients \X (0..Lines)) /\ Len(out'[c]) = Len(out[c]) + 1
      /\ out'[c] = Append(out[c], d) /\ Len(out[c]) \in Nat /\ Len(out[c]) < sent[c]
  BY <1>1, <1>2, <1>3 DEF ClientTypes, ReplyInv
<1>6. ClientTypes'
  <2>1. out' \in [Clients -> Seq(Clients \X (0..Lines))]
    BY <1>1, <1>2, <1>4 DEF ClientTypes
  <2>2. cpc' \in [Clients -> {"fgets", "recv", "done", "err_sys"}]
    BY <1>1, <1>3 DEF ClientTypes
  <2>3. \A b \in Clients : Len(out'[b]) <= sent'[b]
    <3> TAKE b \in Clients
    <3>1. CASE b = c
      BY <1>1, <1>3, <1>5, <3>1 DEF ClientTypes
    <3>2. CASE b # c
      BY <1>1, <1>2, <1>3, <3>2 DEF ClientTypes
    <3>3. QED
      BY <3>1, <3>2
  <2>4. QED
    BY <1>1, <1>3, <2>1, <2>2, <2>3 DEF ClientTypes
<1>7. NetTypes'
  <2>1. reps[<<c, d>>] \in Nat
    BY <1>1, <1>4 DEF NetTypes
  <2>2. reps[<<c, d>>] - 1 \in Nat
    BY <1>2, <2>1
  <2>3. reps' \in [Clients \X Dgrams -> Nat]
    BY <1>1, <1>2, <1>4, <2>2 DEF NetTypes
  <2>4. QED
    BY <1>1, <1>3, <2>3 DEF NetTypes
<1>8. ServerTypes' /\ ServerInv' /\ CountInv' /\ QueueInv'
  BY <1>1, <1>3, ServerKept
<1>9. ReplyInv'
  <2>1. \A b \in Clients, e \in Dgrams : reps'[<<b, e>>] > 0 => e[1] = b
    <3> TAKE b \in Clients, e \in Dgrams
    <3>1. CASE <<b, e>> = <<c, d>>
      BY <1>4, <3>1
    <3>2. CASE <<b, e>> # <<c, d>>
      <4>1. reps'[<<b, e>>] = reps[<<b, e>>]
        BY <1>1, <1>2, <3>2 DEF NetTypes
      <4>2. QED
        BY <4>1 DEF ReplyInv
    <3>3. QED
      BY <3>1, <3>2
  <2>2. \A b \in Clients : cpc'[b] = "recv" => Len(out'[b]) < sent'[b] /\ prog'[b].sends # "flood"
    BY <1>1, <1>2, <1>3 DEF ReplyInv, ClientTypes
  <2>3. QED
    BY <1>3, <2>1, <2>2 DEF ReplyInv
<1>10. \A b \in Clients \ {c} : StepOf(b)'
  <2>1. \A b \in Clients \ {c} :
          /\ cpc'[b] = cpc[b] /\ sent'[b] = sent[b] /\ out'[b] = out[b]
          /\ \A l \in 1..Lines : /\ reqs'[<<b, l>>] = reqs[<<b, l>>]
                                 /\ reps'[<<b, <<b, l>>>>] = reps[<<b, <<b, l>>>>]
    <3> TAKE b \in Clients \ {c}
    <3>1. cpc'[b] = cpc[b] /\ sent'[b] = sent[b] /\ out'[b] = out[b]
      BY <1>1, <1>2, <1>3 DEF ClientTypes
    <3>2. ASSUME NEW l \in 1..Lines
          PROVE  reps'[<<b, <<b, l>>>>] = reps[<<b, <<b, l>>>>]
      <4>1. <<b, <<b, l>>>> \in Clients \X Dgrams /\ <<b, <<b, l>>>> # <<c, d>>
        BY DEF Dgrams
      <4>2. QED
        BY <1>1, <1>2, <4>1 DEF NetTypes
    <3>3. QED
      BY <1>3, <3>1, <3>2
  <2>2. QED
    BY <1>3, <1>7, <2>1, OthersKept
<1>11. StepOf(c)'
  <2> SUFFICES ASSUME Undisturbed(c)'
               PROVE  InStepOf(c)' /\ Resting(c)'
    BY <1>1, <1>3 DEF StepOf, ClientTypes
  <2>1. Undisturbed(c)
    BY <1>3 DEF Undisturbed
  <2>2. InStepOf(c) /\ Awaiting(c)
    BY <1>3, <2>1 DEF StepInv, StepOf
  <2>3. UnderWay(d) /\ Back(d)
    BY <1>2, <1>4 DEF UnderWay, Back
  <2>4. d[2] = sent[c] /\ d = <<c, sent[c]>> /\ Single(d)
    <3>1. UnderWay(<<c, d[2]>>)
      BY <1>4, <2>3
    <3>2. d[2] = sent[c]
      BY <1>4, <2>2, <3>1 DEF Awaiting
    <3>3. QED
      BY <1>4, <2>2, <3>2 DEF Awaiting
  <2>5. InStepOf(c)'
    <3> SUFFICES ASSUME NEW j \in 1..Len(out'[c])
                 PROVE  out'[c][j] = <<c, j>>
      BY DEF InStepOf
    <3>1. CASE j = Len(out[c]) + 1
      <4>1. out'[c][j] = d
        BY <1>5, <3>1
      <4>2. QED
        BY <2>2, <2>4, <3>1, <4>1 DEF Awaiting
    <3>2. CASE j # Len(out[c]) + 1
      <4>1. j \in 1..Len(out[c]) /\ out'[c][j] = out[c][j]
        BY <1>5, <3>2
      <4>2. QED
        BY <2>2, <4>1 DEF InStepOf
    <3>3. QED
      BY <3>1, <3>2
  <2>6. Resting(c)'
    <3>1. Len(out'[c]) = sent'[c]
      BY <1>3, <1>5, <2>2 DEF Awaiting
    <3>2. ASSUME NEW l \in 1..Lines
          PROVE  ~UnderWay(<<c, l>>)'
      <4> DEFINE e == <<c, l>>
      <4>0. e \in Dgrams /\ e[1] = c /\ (Held(e)' <=> Held(e))
        BY <1>3, HeldKept DEF Dgrams
      <4>1. CASE l # d[2]
        <5>1. ~UnderWay(e)
          BY <2>2, <2>4, <4>1 DEF Awaiting
        <5>2. <<c, e>> \in Clients \X Dgrams /\ <<c, e>> # <<c, d>>
          BY <4>0, <4>1, <1>4
        <5>3. reps'[<<c, e>>] = reps[<<c, e>>]
          BY <1>1, <1>2, <5>2 DEF NetTypes
        <5>4. QED
          BY <1>3, <4>0, <5>1, <5>3 DEF UnderWay, Back
      <4>2. CASE l = d[2]
        <5>1. e = d
          BY <1>4, <4>2
        <5>2. reqs[d] \in Nat /\ reps[<<c, d>>] \in Nat
          BY <1>1, <1>4, <4>0, <5>1 DEF NetTypes
        <5>3. reps[<<c, d>>] = 1 /\ ~(reqs[d] > 0) /\ ~Held(d)
          BY <1>2, <1>4, <2>3, <2>4, <5>2 DEF Single
        <5>4. reps'[<<c, d>>] = 0
          BY <1>1, <1>2, <1>4, <5>3 DEF NetTypes
        <5>5. ~UnderWay(d)'
          BY <1>3, <1>4, <4>0, <5>1, <5>3, <5>4 DEF UnderWay, Back
        <5>6. QED
          BY <5>1, <5>5
      <4>3. QED
        BY <4>1, <4>2
    <3>3. QED
      BY <3>1, <3>2 DEF Resting
  <2>7. QED
    BY <2>5, <2>6
<1>12. StepInv'
  BY <1>10, <1>11 DEF StepInv
<1>13. QED
  BY <1>6, <1>7, <1>8, <1>9, <1>12, Types

\* The client ends; nothing under way changes.
LEMMA ClientEndsIInv ==
  ASSUME IInv, NEW c \in Clients, FgetsEof(c) \/ Refused(c)
  PROVE  IInv'
<1> USE DEF IInv
<1>1. ClientTypes /\ ServerTypes /\ NetTypes
  BY Types
<1>2. UNCHANGED <<prog, sent, out, serverVars, netVars, faultVars>>
  BY DEF FgetsEof, Refused
<1>3. PICK how \in {"done", "err_sys"} : cpc' = [cpc EXCEPT ![c] = how]
  BY DEF FgetsEof, Refused
<1>4. ClientTypes'
  BY <1>1, <1>2, <1>3 DEF ClientTypes
<1>5. NetTypes'
  BY <1>1, <1>2 DEF NetTypes
<1>6. ServerTypes' /\ ServerInv' /\ CountInv' /\ QueueInv'
  BY <1>1, <1>2, ServerKept
<1>7. ReplyInv'
  BY <1>1, <1>2, <1>3 DEF ReplyInv, ClientTypes
<1>8. \A b \in Clients \ {c} : StepOf(b)'
  BY <1>1, <1>2, <1>3, <1>5, OthersKept DEF ClientTypes
<1>9. StepOf(c)'
  BY <1>1, <1>2, <1>3 DEF StepInv, StepOf, InStepOf, Undisturbed, ClientTypes
<1>10. QED
  BY <1>4, <1>5, <1>6, <1>7, <1>8, <1>9, Types DEF StepInv

\* A datagram from elsewhere: the client has been disturbed.
LEMMA IgnoreIInv ==
  ASSUME IInv, NEW c \in Clients, Ignore(c)
  PROVE  IInv'
<1> USE DEF IInv
<1>1. ClientTypes /\ ServerTypes /\ NetTypes
  BY Types
<1>2. /\ cpc[c] = "recv" /\ strays[c] > 0
      /\ strays' = [strays EXCEPT ![c] = @ - 1]
      /\ cpc' = [cpc EXCEPT ![c] = "fgets"]
      /\ out' = IF prog[c].check THEN out ELSE [out EXCEPT ![c] = Append(@, <<c, 0>>)]
      /\ UNCHANGED <<prog, sent, reqs, reps, err, sigio, serverVars, faultVars>>
  BY DEF Ignore
<1>3. /\ out[c] \in Seq(Clients \X (0..Lines)) /\ Len(out[c]) \in Nat /\ Len(out[c]) < sent[c]
      /\ sent[c] \in 0..Lines /\ <<c, 0>> \in Clients \X (0..Lines)
  BY <1>1, <1>2 DEF ClientTypes, ReplyInv
<1>4. /\ out' \in [Clients -> Seq(Clients \X (0..Lines))]
      /\ out'[c] \in {out[c], Append(out[c], <<c, 0>>)}
      /\ \A b \in Clients \ {c} : out'[b] = out[b]
  BY <1>1, <1>2, <1>3 DEF ClientTypes
<1>5. ClientTypes'
  <2>1. \A b \in Clients : Len(out'[b]) <= sent'[b]
    <3> TAKE b \in Clients
    <3>1. CASE b = c
      <4>1. Len(out'[c]) \in {Len(out[c]), Len(out[c]) + 1}
        BY <1>3, <1>4
      <4>2. QED
        BY <1>2, <1>3, <3>1, <4>1
    <3>2. CASE b # c
      BY <1>1, <1>2, <1>4, <3>2 DEF ClientTypes
    <3>3. QED
      BY <3>1, <3>2
  <2>2. cpc' \in [Clients -> {"fgets", "recv", "done", "err_sys"}]
    BY <1>1, <1>2 DEF ClientTypes
  <2>3. QED
    BY <1>1, <1>2, <1>4, <2>1, <2>2 DEF ClientTypes
<1>6. strays[c] \in Nat /\ strayed[c] \in Nat /\ strayed[c] > 0 /\ strays[c] - 1 \in Nat
  BY <1>1, <1>2 DEF NetTypes, ReplyInv
<1>7. NetTypes'
  <2>1. strays' \in [Clients -> Nat]
    BY <1>1, <1>2, <1>6 DEF NetTypes
  <2>2. QED
    BY <1>1, <1>2, <2>1 DEF NetTypes
<1>8. ServerTypes' /\ ServerInv' /\ CountInv' /\ QueueInv'
  BY <1>1, <1>2, ServerKept
<1>9. ReplyInv'
  <2>1. \A b \in Clients : cpc'[b] = "recv" => Len(out'[b]) < sent'[b] /\ prog'[b].sends # "flood"
    BY <1>1, <1>2, <1>4 DEF ReplyInv, ClientTypes
  <2>2. \A b \in Clients : strays'[b] <= strayed'[b]
    <3> TAKE b \in Clients
    <3>1. strays[b] \in Nat /\ strayed[b] \in Nat /\ strays[b] <= strayed[b]
      BY <1>1 DEF NetTypes, ReplyInv
    <3>2. strays'[b] = IF b = c THEN strays[b] - 1 ELSE strays[b]
      BY <1>1, <1>2 DEF NetTypes
    <3>3. QED
      BY <1>2, <3>1, <3>2
  <2>3. QED
    BY <1>2, <2>1, <2>2 DEF ReplyInv
<1>10. \A b \in Clients \ {c} : StepOf(b)'
  <2>1. \A b \in Clients \ {c} : cpc'[b] = cpc[b] /\ sent'[b] = sent[b] /\ out'[b] = out[b]
    BY <1>1, <1>2, <1>4 DEF ClientTypes
  <2>2. QED
    BY <1>2, <1>7, <2>1, OthersKept
<1>11. StepOf(c)'
  BY <1>2, <1>6 DEF StepOf, Undisturbed
<1>12. QED
  BY <1>5, <1>7, <1>8, <1>9, <1>10, <1>11, Types DEF StepInv

-----------------------------------------------------------------------------
(* The servers. *)

\* Recvfrom: the datagram moves into the buffer, or is counted.
LEMMA RecvfromIInv ==
  ASSUME IInv, Recvfrom
  PROVE  IInv'
<1> USE DEF IInv
<1>1. ClientTypes /\ ServerTypes /\ NetTypes
  BY Types
<1>2. PICK d \in Dgrams : /\ reqs[d] > 0 /\ reqs' = [reqs EXCEPT ![d] = @ - 1]
                          /\ mesg' = d /\ peer' = d[1]
  BY DEF Recvfrom, MesgAfter, PeerAfter
<1>3. /\ spc = "recv" /\ spc' = (IF serv.does = "count" THEN "count" ELSE "send")
      /\ taken' = taken + 1
      /\ UNCHANGED <<serv, count, told, dg, iget, iput, nqueue, inHandler, answered, reps, strays,
                     err, sigio, prog, cpc, sent, out, lost, dups, strayed>>
  BY DEF Recvfrom
<1>4. serv.does \in {"echo", "count"}
  BY <1>1, <1>3, ServerKinds DEF ServerInv, ClientTypes, QueuePcs
<1>5. reqs[d] \in Nat /\ reqs[d] - 1 \in Nat
  BY <1>1, <1>2 DEF NetTypes
<1>6. ClientTypes'
  BY <1>1, <1>3 DEF ClientTypes
<1>7. ServerTypes'
  <2>1. mesg' \in Dgrams /\ peer' \in Clients
    BY <1>2, DgramTypes
  <2>2. taken' \in Nat
    BY <1>1, <1>3 DEF ServerTypes
  <2>3. QED
    BY <1>1, <1>3, <2>1, <2>2 DEF ServerTypes
<1>8. NetTypes'
  <2>1. reqs' \in [Dgrams -> Nat]
    BY <1>1, <1>2, <1>5 DEF NetTypes
  <2>2. QED
    BY <1>1, <1>3, <2>1 DEF NetTypes
<1>9. ServerInv' /\ CountInv' /\ QueueInv' /\ ReplyInv'
  <2>1. ServerInv'
    BY <1>2, <1>3, <1>4 DEF ServerInv
  <2>2. CountInv'
    BY <1>1, <1>3, <1>4 DEF CountInv, ServerTypes
  <2>3. QueueInv' /\ ReplyInv'
    BY <1>3, <1>4 DEF QueueInv, ReplyInv
  <2>4. QED
    BY <2>1, <2>2, <2>3
<1>10. ASSUME NEW e \in Dgrams
       PROVE  (UnderWay(e)' => UnderWay(e)) /\ (Single(e) => Single(e)')
  <2>1. ~Held(e) /\ OneSlot(e)' /\ (Held(e)' => e = d)
    BY <1>2, <1>3, <1>4 DEF Held, OneSlot, QueuePcs
  <2>2. reqs'[e] = IF e = d THEN reqs[e] - 1 ELSE reqs[e]
    BY <1>1, <1>2 DEF NetTypes
  <2>3. reqs[e] \in Nat /\ (Back(e)' <=> Back(e))
    BY <1>1, <1>3 DEF NetTypes, Back
  <2>4. UnderWay(e)' => UnderWay(e)
    BY <1>2, <2>1, <2>2, <2>3 DEF UnderWay
  <2>5. ASSUME Single(e)
        PROVE  Single(e)'
    <3>1. CASE e = d
      <4>1. reqs[e] = 1 /\ reqs'[e] = 0 /\ ~Back(e)
        BY <1>2, <2>2, <2>3, <2>5, <3>1 DEF Single
      <4>2. QED
        BY <1>3, <2>1, <2>3, <2>5, <4>1 DEF Single
    <3>2. CASE e # d
      BY <1>3, <2>1, <2>2, <2>3, <2>5, <3>2 DEF Single
    <3>3. QED
      BY <3>1, <3>2
  <2>6. QED
    BY <2>4, <2>5
<1>11. StepInv'
  <2>1. \A c \in Clients : Undisturbed(c)' => Undisturbed(c)
    BY <1>3 DEF Undisturbed
  <2>2. QED
    BY <1>3, <1>10, <2>1, AllKept
<1>12. QED
  BY <1>6, <1>7, <1>8, <1>9, <1>11, Types

\* A reply is sent: the datagram leaves the server for its client.
LEMMA Replies ==
  ASSUME TypeOK, ReplyInv, StepInv, NEW d \in Dgrams, Held(d),
         reps' = [reps EXCEPT ![<<d[1], d>>] = @ + 1],
         UNCHANGED <<reqs, strays, err, sigio, clientVars, faultVars>>,
         \A e \in Dgrams : (Held(e)' => Held(e)) /\ (OneSlot(e) => OneSlot(e)'),
         OneSlot(d) => ~Held(d)'
  PROVE  NetTypes' /\ ReplyInv' /\ StepInv'
<1>1. ClientTypes /\ ServerTypes /\ NetTypes
  BY Types
<1>2. <<d[1], d>> \in Clients \X Dgrams /\ reps[<<d[1], d>>] \in Nat
  BY <1>1, DgramTypes DEF NetTypes
<1>3. NetTypes'
  <2>1. reps' \in [Clients \X Dgrams -> Nat]
    BY <1>1, <1>2 DEF NetTypes
  <2>2. QED
    BY <1>1, <2>1 DEF NetTypes
<1>4. \A c \in Clients, e \in Dgrams : reps'[<<c, e>>] =
        IF <<c, e>> = <<d[1], d>> THEN reps[<<c, e>>] + 1 ELSE reps[<<c, e>>]
  BY <1>1, <1>2 DEF NetTypes
<1>5. ReplyInv'
  <2>1. \A c \in Clients, e \in Dgrams : reps'[<<c, e>>] > 0 => e[1] = c
    BY <1>4 DEF ReplyInv
  <2>2. QED
    BY <2>1 DEF ReplyInv
<1>6. ASSUME NEW e \in Dgrams
      PROVE  (UnderWay(e)' => UnderWay(e)) /\ (Single(e) => Single(e)')
  <2>0. e[1] \in Clients /\ reqs[e] \in Nat /\ reps[<<e[1], e>>] \in Nat
    BY <1>1, DgramTypes DEF NetTypes
  <2>1. CASE e # d
    <3>1. reps'[<<e[1], e>>] = reps[<<e[1], e>>]
      BY <1>4, <2>0, <2>1
    <3>2. QED
      BY <1>1, <1>3, <2>0, <3>1, PlacesKept
  <2>2. CASE e = d
    <3>1. ASSUME Single(d)
          PROVE  Single(d)'
      <4>1. ~(reqs[d] > 0) /\ ~Back(d) /\ OneSlot(d) /\ ~Held(d)'
        BY <3>1 DEF Single
      <4>2. reps'[<<d[1], d>>] = 1 /\ reqs'[d] <= 1 /\ ~(reqs'[d] > 0)
        BY <1>4, <2>0, <2>2, <4>1 DEF Back
      <4>3. QED
        BY <4>1, <4>2 DEF Single
    <3>2. QED
      BY <2>2, <3>1 DEF UnderWay
  <2>3. QED
    BY <2>1, <2>2
<1>7. StepInv'
  <2>1. \A c \in Clients : Undisturbed(c)' => Undisturbed(c)
    BY DEF Undisturbed
  <2>2. QED
    BY <1>6, <2>1, AllKept
<1>8. QED
  BY <1>3, <1>5, <1>7

LEMMA SendtoIInv ==
  ASSUME IInv, Sendto
  PROVE  IInv'
<1> USE DEF IInv
<1>1. ClientTypes /\ ServerTypes /\ NetTypes
  BY Types
<1>2. PICK d \in Dgrams : d = mesg /\ peer = d[1] /\ Held(d)
  BY DEF Sendto, ServerInv, Held
<1>3. /\ spc = "send" /\ serv.does = "echo" /\ spc' = "recv" /\ answered' = answered + 1
      /\ reps' = [reps EXCEPT ![<<d[1], d>>] = @ + 1]
      /\ UNCHANGED <<serv, mesg, peer, count, told, dg, iget, iput, nqueue, inHandler, taken,
                     reqs, strays, err, sigio, clientVars, faultVars>>
  BY <1>2 DEF Sendto
<1>4. \A e \in Dgrams : ~Held(e)' /\ OneSlot(e)'
  BY <1>3 DEF Held, OneSlot, QueuePcs
<1>5. NetTypes' /\ ReplyInv' /\ StepInv'
  BY <1>2, <1>3, <1>4, Replies
<1>6. ClientTypes' /\ ServerTypes'
  <2>1. ClientTypes'
    BY <1>1, <1>3 DEF ClientTypes
  <2>2. answered' \in Nat
    BY <1>1, <1>3 DEF ServerTypes
  <2>3. ServerTypes'
    BY <1>1, <1>3, <2>2 DEF ServerTypes
  <2>4. QED
    BY <2>1, <2>3
<1>7. ServerInv' /\ CountInv' /\ QueueInv'
  BY <1>3 DEF ServerInv, CountInv, QueueInv
<1>8. QED
  BY <1>5, <1>6, <1>7, Types

\* A step that moves no datagram and leaves the clients alone.
LEMMA NothingMoves ==
  ASSUME IInv, UNCHANGED <<serv, reqs, reps, strays, err, clientVars, faultVars>>,
         sigio' \in BOOLEAN,
         \A d \in Dgrams : (Held(d)' => Held(d)) /\ (OneSlot(d) => OneSlot(d)')
  PROVE  ClientTypes' /\ NetTypes' /\ ReplyInv' /\ StepInv'
<1> USE DEF IInv
<1>1. ClientTypes /\ ServerTypes /\ NetTypes
  BY Types
<1>2. ClientTypes' /\ NetTypes'
  BY <1>1 DEF ClientTypes, NetTypes
<1>3. ReplyInv'
  BY DEF ReplyInv
<1>4. ASSUME NEW d \in Dgrams
      PROVE  (UnderWay(d)' => UnderWay(d)) /\ (Single(d) => Single(d)')
  <2>1. reqs[d] \in Nat /\ reps[<<d[1], d>>] \in Nat
    BY <1>1, DgramTypes DEF NetTypes
  <2>2. reqs'[d] <= reqs[d] /\ reps'[<<d[1], d>>] <= reps[<<d[1], d>>]
    BY <2>1
  <2>3. QED
    BY <1>1, <1>2, <2>2, PlacesKept
<1>5. \A c \in Clients : Undisturbed(c)' => Undisturbed(c)
  BY DEF Undisturbed
<1>6. QED
  BY <1>2, <1>3, <1>4, <1>5, AllKept

LEMMA CountOneIInv ==
  ASSUME IInv, CountOne
  PROVE  IInv'
<1> USE DEF IInv
<1>1. ClientTypes /\ ServerTypes /\ NetTypes
  BY Types
<1>2. /\ spc = "count" /\ spc' = "recv" /\ count' = count + 1
      /\ UNCHANGED <<serv, mesg, peer, told, ringVars, taken, answered, netVars, clientVars, faultVars>>
  BY DEF CountOne, Counted
<1>3. serv.does = "count"
  BY <1>1, <1>2, ServerKinds DEF ServerInv, ClientTypes, QueuePcs
<1>4. \A d \in Dgrams : ~Held(d)' /\ OneSlot(d)'
  BY <1>2, <1>3 DEF Held, OneSlot, QueuePcs
<1>5. ServerTypes'
  <2>1. count' \in Nat
    BY <1>1, <1>2 DEF ServerTypes
  <2>2. QED
    BY <1>1, <1>2, <2>1 DEF ServerTypes
<1>6. ServerInv' /\ QueueInv'
  BY <1>2, <1>3 DEF ServerInv, QueueInv
<1>7. CountInv'
  BY <1>1, <1>2, <1>3 DEF CountInv, ServerTypes
<1>8. sigio' \in BOOLEAN
  BY <1>1, <1>2 DEF NetTypes
<1>9. QED
  BY <1>2, <1>4, <1>5, <1>6, <1>7, <1>8, NothingMoves, Types

-----------------------------------------------------------------------------
(* dgecho01. *)

\* Steps of dgecho01 that leave the slots to be sent as they are.
LEMMA QueueStepIInv ==
  ASSUME IInv, Async \/ Nonblock \/ Block \/ Unblock \/ Dequeue \/ SigIo \/ QueueEnd
  PROVE  IInv'
<1> USE DEF IInv
<1>1. ClientTypes /\ ServerTypes /\ NetTypes
  BY Types
<1>2. /\ UNCHANGED <<serv, mesg, peer, count, told, dg, iget, iput, taken, answered,
                     reqs, reps, strays, err, clientVars, faultVars>>
      /\ sigio' \in {sigio, FALSE}
  BY DEF Async, Nonblock, Block, Unblock, Dequeue, SigIo, QueueEnd
<1>3. serv.does = "sigio" /\ spc \in QueuePcs
  <2>1. spc \in {"start", "async", "nonblock", "suspend", "sent"} \/ inHandler \/ sigio
    BY DEF Async, Nonblock, Block, Unblock, Dequeue, SigIo, QueueEnd
  <2>2. serv.does = "sigio"
    BY <1>1, <2>1, ServerKinds DEF ServerInv, ClientTypes
  <2>3. spc # "dead"
    BY DEF Async, Nonblock, Block, Unblock, Dequeue, SigIo, QueueEnd, Unblocked, ServerInv
  <2>4. QED
    BY <2>2, <2>3 DEF ServerInv
<1>4. /\ spc' \in QueuePcs /\ Unsent' = Unsent
      /\ nqueue' \in 0..QSIZE /\ (spc' \in {"send", "sent"} => nqueue' > 0)
  <2>1. CASE Unblock \/ Async \/ Nonblock \/ Block
    BY <1>1, <2>1 DEF Unblock, Async, Nonblock, Block, Unsent, ServerTypes, QueuePcs
  <2>2. CASE Dequeue
    BY <1>1, <1>3, <2>2 DEF Dequeue, Unsent, ServerTypes, QueueInv, QueuePcs
  <2>3. CASE UNCHANGED <<spc, nqueue>>
    BY <1>1, <1>3, <2>3 DEF Unsent, ServerTypes, QueueInv, QueuePcs
  <2>4. QED
    BY <2>1, <2>2, <2>3 DEF SigIo, QueueEnd
<1>5. Queued' = Queued
  <2>1. Queued' = Slots(iget', Unsent')
    BY QueuedIs DEF Queued, Slots, Slot, Unsent
  <2>2. QED
    BY <1>2, <1>4, <2>1, QueuedIs
<1>6. \A d \in Dgrams : (Held(d)' => Held(d)) /\ (OneSlot(d) => OneSlot(d)')
  BY <1>2, <1>3, <1>5 DEF Held, OneSlot, QueuePcs
<1>7. sigio' \in BOOLEAN
  BY <1>1, <1>2 DEF NetTypes
<1>8. inHandler' \in BOOLEAN
  BY <1>1 DEF Async, Nonblock, Block, Unblock, Dequeue, SigIo, QueueEnd, ServerTypes
<1>9. ServerTypes'
  BY <1>1, <1>2, <1>4, <1>8 DEF ServerTypes, QueuePcs
<1>10. ServerInv' /\ CountInv'
  BY <1>2, <1>3, <1>4 DEF ServerInv, CountInv, QueuePcs
<1>11. QueueInv'
  BY <1>2, <1>3, <1>4, <1>5 DEF QueueInv, QueuePcs
<1>12. QED
  BY <1>2, <1>6, <1>7, <1>9, <1>10, <1>11, NothingMoves, Types

\* The main loop answers the slot iget points to.
LEMMA SendtoQueuedIInv ==
  ASSUME IInv, SendtoQueued
  PROVE  IInv'
<1> USE DEF IInv
<1>1. ClientTypes /\ ServerTypes /\ NetTypes
  BY Types
<1>2. /\ spc = "send" /\ serv.does = "sigio" /\ ~inHandler /\ spc' = "sent"
      /\ reps' = [reps EXCEPT ![<<dg[iget][1], dg[iget]>>] = @ + 1]
      /\ iget' = Slot(iget, 1) /\ answered' = answered + 1
      /\ UNCHANGED <<serv, mesg, peer, count, told, dg, iput, nqueue, inHandler, taken,
                     reqs, strays, err, sigio, clientVars, faultVars>>
  BY DEF SendtoQueued, Slot
<1>3. iget \in 0..(QSIZE - 1) /\ nqueue \in 1..QSIZE /\ Unsent = nqueue /\ Unsent' = nqueue - 1
  BY <1>1, <1>2 DEF ServerTypes, QueueInv, Unsent
<1>4. Queued = Slots(iget, nqueue) /\ Queued' = Slots(iget', nqueue - 1)
  <2>1. Queued' = Slots(iget', Unsent')
    BY DEF Queued, Slots, Slot, Unsent
  <2>2. QED
    BY <1>3, <2>1, QueuedIs
<1>5. /\ Queued = Queued' \cup {iget} /\ iget \notin Queued'
      /\ Slot(iget', nqueue - 1) = Slot(iget, nqueue)
  BY <1>2, <1>3, <1>4, SlotsTail
<1>6. PICK d \in Dgrams : d = dg[iget]
  BY <1>2, <1>5 DEF QueueInv
<1>7. Held(d) /\ (OneSlot(d) => ~Held(d)')
  BY <1>2, <1>5, <1>6 DEF Held, OneSlot, QueuePcs
<1>8. \A e \in Dgrams : (Held(e)' => Held(e)) /\ (OneSlot(e) => OneSlot(e)')
  BY <1>2, <1>5 DEF Held, OneSlot, QueuePcs
<1>9. NetTypes' /\ ReplyInv' /\ StepInv'
  BY <1>2, <1>6, <1>7, <1>8, Replies
<1>10. ClientTypes'
  BY <1>1, <1>2 DEF ClientTypes
<1>11. ServerTypes'
  <2>1. answered' \in Nat
    BY <1>1, <1>2 DEF ServerTypes
  <2>2. 1 \in 0..QSIZE
    OBVIOUS
  <2>3. iget' \in 0..(QSIZE - 1)
    BY <1>2, <1>3, <2>2, SlotIs
  <2>4. QED
    BY <1>1, <1>2, <2>1, <2>3 DEF ServerTypes
<1>12. ServerInv' /\ CountInv'
  BY <1>2 DEF ServerInv, CountInv, QueuePcs
<1>13. QueueInv'
  <2>1. taken' = answered' + Unsent'
    BY <1>1, <1>2, <1>3 DEF QueueInv, ServerTypes
  <2>2. iput' = Slot(iget', Unsent')
    BY <1>2, <1>3, <1>5 DEF QueueInv, Slot
  <2>3. \A s \in Queued' : dg'[s] \in Dgrams
    BY <1>2, <1>5 DEF QueueInv
  <2>4. QED
    BY <1>2, <1>3, <2>1, <2>2, <2>3 DEF QueueInv, Slot
<1>14. QED
  BY <1>9, <1>10, <1>11, <1>12, <1>13, Types

\* The handler fills the slot iput points to, which none has to send.
LEMMA QueueOneIInv ==
  ASSUME IInv, QueueOne
  PROVE  IInv'
<1> USE DEF IInv
<1>1. ClientTypes /\ ServerTypes /\ NetTypes
  BY Types
<1>2. PICK d \in Dgrams : /\ reqs[d] > 0 /\ reqs' = [reqs EXCEPT ![d] = @ - 1]
                          /\ dg' = [dg EXCEPT ![iput] = d]
  BY DEF QueueOne
<1>3. /\ inHandler /\ ~(nqueue >= QSIZE)
      /\ iput' = Slot(iput, 1) /\ nqueue' = nqueue + 1 /\ taken' = taken + 1
      /\ UNCHANGED <<serv, spc, mesg, peer, count, told, iget, inHandler, answered,
                     reps, strays, err, sigio, clientVars, faultVars>>
  BY DEF QueueOne, Full, Slot
<1>4. serv.does = "sigio" /\ spc \in QueuePcs
  BY <1>3 DEF ServerInv
<1>5. /\ iget \in 0..(QSIZE - 1) /\ Unsent \in 0..(QSIZE - 1) /\ Unsent' = Unsent + 1
      /\ nqueue' \in 1..QSIZE
  BY <1>1, <1>3, <1>4 DEF ServerTypes, QueueInv, Unsent, QueuePcs
<1>6. iput = Slot(iget, Unsent)
  BY <1>4 DEF QueueInv, Slot, QueuePcs
<1>7. Queued = Slots(iget, Unsent) /\ Queued' = Slots(iget, Unsent + 1)
  <2>1. Queued' = Slots(iget', Unsent')
    BY DEF Queued, Slots, Slot, Unsent
  <2>2. QED
    BY <1>3, <1>5, <2>1, QueuedIs
<1>8. /\ Queued' = Queued \cup {iput} /\ iput \notin Queued
      /\ iput' = Slot(iget, Unsent + 1)
  BY <1>3, <1>5, <1>6, <1>7, SlotsAppend
<1>9. dg'[iput] = d /\ \A s \in Queued : dg'[s] = dg[s]
  BY <1>1, <1>2, <1>8, QueuedFinite DEF ServerTypes
<1>10. reqs[d] \in Nat /\ reqs[d] - 1 \in Nat
  BY <1>1, <1>2 DEF NetTypes
<1>11. ClientTypes'
  BY <1>1, <1>3 DEF ClientTypes
<1>12. NetTypes'
  <2>1. reqs' \in [Dgrams -> Nat]
    BY <1>1, <1>2, <1>10 DEF NetTypes
  <2>2. QED
    BY <1>1, <1>3, <2>1 DEF NetTypes
<1>13. ServerTypes'
  <2>1. taken' \in Nat
    BY <1>1, <1>3 DEF ServerTypes
  <2>2. dg' \in [0..(QSIZE - 1) -> Dgrams \cup {<<>>}]
    BY <1>1, <1>2 DEF ServerTypes
  <2>3. 1 \in 0..QSIZE
    OBVIOUS
  <2>4. iput' \in 0..(QSIZE - 1)
    BY <1>1, <1>3, <2>3, SlotIs DEF ServerTypes
  <2>5. QED
    BY <1>1, <1>3, <1>5, <2>1, <2>2, <2>4 DEF ServerTypes
<1>14. ServerInv' /\ CountInv' /\ ReplyInv'
  BY <1>3, <1>4 DEF ServerInv, CountInv, ReplyInv
<1>15. QueueInv'
  <2>1. taken' = answered' + Unsent'
    BY <1>1, <1>3, <1>4, <1>5 DEF QueueInv, ServerTypes
  <2>2. iput' = (iget' + Unsent') % QSIZE
    BY <1>3, <1>5, <1>8 DEF Slot
  <2>3. \A s \in Queued' : dg'[s] \in Dgrams
    BY <1>4, <1>8, <1>9 DEF QueueInv, QueuePcs
  <2>4. nqueue' > 0
    BY <1>5
  <2>5. QED
    BY <2>1, <2>2, <2>3, <2>4 DEF QueueInv
<1>16. ASSUME NEW e \in Dgrams
       PROVE  (UnderWay(e)' => UnderWay(e)) /\ (Single(e) => Single(e)')
  <2>1. reqs'[e] = IF e = d THEN reqs[e] - 1 ELSE reqs[e]
    BY <1>1, <1>2 DEF NetTypes
  <2>2. reqs[e] \in Nat /\ (Back(e)' <=> Back(e)) /\ reps'[<<e[1], e>>] = reps[<<e[1], e>>]
    BY <1>1, <1>3 DEF NetTypes, Back
  <2>3. CASE e # d
    <3>1. Held(e)' <=> Held(e)
      BY <1>3, <1>4, <1>8, <1>9, <2>3 DEF Held
    <3>2. OneSlot(e) => OneSlot(e)'
      BY <1>3, <1>4, <1>8, <1>9, <2>3 DEF OneSlot
    <3>3. reqs'[e] = reqs[e]
      BY <2>1, <2>3
    <3>4. QED
      BY <2>2, <3>1, <3>2, <3>3 DEF UnderWay, Single
  <2>4. CASE e = d
    <3>1. UnderWay(e)
      BY <1>2, <2>4 DEF UnderWay
    <3>2. ASSUME Single(e)
          PROVE  Single(e)'
      <4>1. reqs[e] = 1 /\ ~Held(e) /\ ~Back(e) /\ reqs'[e] = 0
        BY <1>2, <2>1, <2>2, <2>4, <3>2 DEF Single
      <4>2. OneSlot(e)'
        BY <1>3, <1>4, <1>8, <1>9, <4>1 DEF Held, OneSlot, QueuePcs
      <4>3. QED
        BY <2>2, <3>2, <4>1, <4>2 DEF Single
    <3>3. QED
      BY <3>1, <3>2
  <2>5. QED
    BY <2>3, <2>4
<1>17. StepInv'
  <2>1. \A c \in Clients : Undisturbed(c)' => Undisturbed(c)
    BY <1>3 DEF Undisturbed
  <2>2. QED
    BY <1>3, <1>16, <2>1, AllKept
<1>18. QED
  BY <1>11, <1>12, <1>13, <1>14, <1>15, <1>17, Types

-----------------------------------------------------------------------------
(* The server ends, and the network. *)

LEMMA DgramsFinite == IsFiniteSet(Dgrams)
<1>1. IsFiniteSet(1..Lines)
  BY FS_Interval
<1>2. QED
  BY <1>1, FS_Product DEF Dgrams

LEMMA UnansweredType ==
  ASSUME ServerTypes, NEW c \in Clients
  PROVE  Unanswered(c) \in Nat
<1>1. {s \in Queued : dg[s][1] = c} \in SUBSET Queued
  OBVIOUS
<1>2. IsFiniteSet({s \in Queued : dg[s][1] = c})
  BY <1>1, QueuedFinite, FS_Subset
<1>3. Cardinality({s \in Queued : dg[s][1] = c}) \in Nat
  BY <1>2, FS_CardinalityType
<1>4. QED
  BY <1>3 DEF Unanswered

\* Copies are lost, as long as the client's state does not depend on them.
LEMMA CopiesLost ==
  ASSUME IInv, NetTypes', UNCHANGED <<serv, clientVars>>,
         \A c \in Clients : dups'[c] >= dups[c] /\ strayed'[c] >= strayed[c],
         \A d \in Dgrams : Undisturbed(d[1])' =>
              /\ reqs'[d] <= reqs[d] /\ reps'[<<d[1], d>>] <= reps[<<d[1], d>>]
              /\ Held(d)' => Held(d)
              /\ OneSlot(d) => OneSlot(d)'
  PROVE  StepInv'
<1>1. NetTypes
  BY Types DEF IInv
<1>2. \A c \in Clients : Undisturbed(c)' => Undisturbed(c)
  BY <1>1 DEF Undisturbed, NetTypes
<1>3. \A d \in Dgrams : Undisturbed(d[1])' => /\ UnderWay(d)' => UnderWay(d)
                                              /\ Single(d) => Single(d)'
  BY <1>1, PlacesKept
<1>4. QED
  BY <1>2, <1>3, AllKept DEF IInv

\* Whatever the server held is gone.
LEMMA EndsIInv ==
  ASSUME IInv, Ends, told' \in {told, count}
  PROVE  IInv'
<1> USE DEF IInv
<1>1. ClientTypes /\ ServerTypes /\ NetTypes
  BY Types
<1>2. /\ spc' = "dead" /\ inHandler' = FALSE
      /\ UNCHANGED <<serv, mesg, peer, count, dg, iget, iput, nqueue, taken, answered,
                     dups, strayed, reps, strays, err, sigio, clientVars>>
  BY DEF Ends
<1>3. PICK arrived \in SUBSET {d \in Dgrams : reqs[d] > 0} :
        /\ reqs' = [d \in Dgrams |-> IF d \in arrived THEN 0 ELSE reqs[d]]
        /\ lost' = [c \in Clients |->
                       lost[c] + Unanswered(c) + Cardinality({d \in arrived : d[1] = c})]
  BY DEF Ends
<1>4. lost' \in [Clients -> Nat]
  <2>1. ASSUME NEW c \in Clients
        PROVE  lost[c] + Unanswered(c) + Cardinality({d \in arrived : d[1] = c}) \in Nat
    <3>1. {d \in arrived : d[1] = c} \in SUBSET Dgrams
      OBVIOUS
    <3>2. Cardinality({d \in arrived : d[1] = c}) \in Nat
      BY <3>1, DgramsFinite, FS_Subset, FS_CardinalityType
    <3>3. lost[c] \in Nat /\ Unanswered(c) \in Nat
      BY <1>1, UnansweredType DEF NetTypes
    <3>4. QED
      BY <3>2, <3>3
  <2>2. QED
    BY <1>3, <2>1
<1>5. reqs' \in [Dgrams -> Nat] /\ \A d \in Dgrams : reqs'[d] <= reqs[d]
  BY <1>1, <1>3 DEF NetTypes
<1>6. ClientTypes'
  BY <1>1, <1>2 DEF ClientTypes
<1>7. NetTypes'
  BY <1>1, <1>2, <1>4, <1>5 DEF NetTypes
<1>8. ServerTypes'
  <2>1. inHandler' \in BOOLEAN /\ told' \in Nat
    BY <1>1, <1>2 DEF ServerTypes
  <2>2. QED
    BY <1>1, <1>2, <2>1 DEF ServerTypes
<1>9. ServerInv' /\ QueueInv' /\ ReplyInv'
  BY <1>2 DEF ServerInv, QueueInv, ReplyInv
<1>10. CountInv'
  BY <1>1, <1>2 DEF CountInv, ServerTypes
<1>11. StepInv'
  <2>1. \A d \in Dgrams : ~Held(d)' /\ OneSlot(d)'
    BY <1>2 DEF Held, OneSlot, QueuePcs
  <2>2. \A c \in Clients : dups'[c] >= dups[c] /\ strayed'[c] >= strayed[c]
    BY <1>1, <1>2 DEF NetTypes
  <2>3. ASSUME NEW d \in Dgrams
        PROVE  reps'[<<d[1], d>>] <= reps[<<d[1], d>>]
    <3>1. reps[<<d[1], d>>] \in Nat
      BY <1>1, DgramTypes DEF NetTypes
    <3>2. QED
      BY <1>2, <3>1
  <2>4. QED
    BY <1>2, <1>5, <1>7, <2>1, <2>2, <2>3, CopiesLost
<1>12. QED
  BY <1>6, <1>7, <1>8, <1>9, <1>10, <1>11, Types

\* recvfrom_int of dg_echo_loop1: the number is printed, and that is all.
LEMMA TellsIInv ==
  ASSUME IInv, serv.does = "count", told' = count,
         UNCHANGED <<serv, spc, mesg, peer, count, ringVars, taken, answered,
                     netVars, clientVars, faultVars>>
  PROVE  IInv'
<1> USE DEF IInv
<1>1. ClientTypes /\ ServerTypes /\ NetTypes
  BY Types
<1>2. ServerTypes'
  BY <1>1 DEF ServerTypes
<1>3. ServerInv' /\ QueueInv'
  BY DEF ServerInv, QueueInv
<1>4. CountInv'
  BY <1>1 DEF CountInv, ServerTypes
<1>5. \A d \in Dgrams : (Held(d)' => Held(d)) /\ (OneSlot(d) => OneSlot(d)')
  BY HeldKept
<1>6. sigio' \in BOOLEAN
  BY <1>1 DEF NetTypes
<1>7. QED
  BY <1>2, <1>3, <1>4, <1>5, <1>6, NothingMoves, Types

\* The network takes copies away, or disturbs a client.
LEMMA NetworkIInv ==
  ASSUME IInv, Refuse \/ Faults
  PROVE  IInv'
<1> USE DEF IInv
<1>1. ClientTypes /\ ServerTypes /\ NetTypes
  BY Types
<1>2. UNCHANGED <<clientVars, serverVars>> /\ sigio' \in {sigio, (serv.does = "sigio" /\ spc # "start")}
  BY DEF Refuse, Faults, LoseRequest, LoseReply, Duplicate, Stray, Arrives
<1>3. ClientTypes'
  BY <1>1, <1>2 DEF ClientTypes
<1>4. ServerTypes' /\ ServerInv' /\ CountInv' /\ QueueInv'
  <2>1. sigio' => sigio \/ serv.does = "sigio"
    BY <1>2
  <2>2. QED
    BY <1>1, <1>2, <2>1, ServerKept
<1>5. sigio' \in BOOLEAN
  <2>1. sigio \in BOOLEAN /\ (serv.does = "sigio" /\ spc # "start") \in BOOLEAN
    BY <1>1 DEF NetTypes
  <2>2. QED
    BY <1>2, <2>1
<1>6. \A d \in Dgrams : (Held(d)' => Held(d)) /\ (OneSlot(d) => OneSlot(d)')
  BY <1>2, HeldKept
<1>7. \A d \in Dgrams : d[1] \in Clients /\ reqs[d] \in Nat /\ reps[<<d[1], d>>] \in Nat
  BY <1>1, DgramTypes DEF NetTypes
<1>8. CASE Refuse
  <2>1. PICK d \in Dgrams :
          /\ reqs[d] > 0
          /\ reqs' = [reqs EXCEPT ![d] = @ - 1]
          /\ IF Connected(d[1])
               THEN err' = [err EXCEPT ![d[1]] = TRUE] /\ lost' = lost
               ELSE lost' = [lost EXCEPT ![d[1]] = @ + 1] /\ err' = err
    BY <1>8 DEF Refuse
  <2>2. UNCHANGED <<reps, strays, sigio, dups, strayed>>
    BY <1>8 DEF Refuse
  <2>3. reqs' \in [Dgrams -> Nat] /\ \A e \in Dgrams : reqs'[e] <= reqs[e]
    BY <1>1, <1>7, <2>1 DEF NetTypes
  <2>4. err' \in [Clients -> BOOLEAN] /\ lost' \in [Clients -> Nat]
    <3>1. CASE Connected(d[1])
      BY <1>1, <2>1, <3>1 DEF NetTypes
    <3>2. CASE ~Connected(d[1])
      BY <1>1, <2>1, <3>2 DEF NetTypes
    <3>3. QED
      BY <3>1, <3>2
  <2>5. NetTypes'
    BY <1>1, <2>2, <2>3, <2>4 DEF NetTypes
  <2>6. ReplyInv'
    BY <1>2, <2>2 DEF ReplyInv
  <2>7. StepInv'
    <3>1. \A c \in Clients : dups'[c] >= dups[c] /\ strayed'[c] >= strayed[c]
      BY <1>1, <2>2 DEF NetTypes
    <3>2. ASSUME NEW e \in Dgrams
          PROVE  reps'[<<e[1], e>>] <= reps[<<e[1], e>>]
      <4>1. reps[<<e[1], e>>] \in Nat
        BY <1>7
      <4>2. QED
        BY  <2>2, <4>1
    <3>3. QED
      BY <1>2, <1>6, <2>3, <2>5, <3>1, <3>2, CopiesLost
  <2>8. QED
    BY <1>3, <1>4, <2>5, <2>6, <2>7, Types
<1>9. ASSUME NEW d \in Dgrams, LoseRequest(d)
      PROVE  IInv'
  <2>1. /\ reqs[d] > 0 /\ reqs' = [reqs EXCEPT ![d] = @ - 1]
        /\ lost' = [lost EXCEPT ![d[1]] = @ + 1]
        /\ UNCHANGED <<reps, strays, err, sigio, dups, strayed>>
    BY <1>9 DEF LoseRequest
  <2>2. reqs' \in [Dgrams -> Nat] /\ \A e \in Dgrams : reqs'[e] <= reqs[e]
    BY <1>1, <1>7, <2>1 DEF NetTypes
  <2>3. lost' \in [Clients -> Nat]
    <3>1. d[1] \in Clients
      BY <1>7
    <3>2. QED
      BY <1>1, <2>1, <3>1 DEF NetTypes
  <2>4. NetTypes'
    BY <1>1, <2>1, <2>2, <2>3 DEF NetTypes
  <2>5. ReplyInv'
    BY <1>2, <2>1 DEF ReplyInv
  <2>6. StepInv'
    <3>1. \A c \in Clients : dups'[c] >= dups[c] /\ strayed'[c] >= strayed[c]
      BY <1>1, <2>1 DEF NetTypes
    <3>2. ASSUME NEW e \in Dgrams
          PROVE  reps'[<<e[1], e>>] <= reps[<<e[1], e>>]
      <4>1. reps[<<e[1], e>>] \in Nat
        BY <1>7
      <4>2. QED
        BY  <2>1, <4>1
    <3>3. QED
      BY <1>2, <1>6, <2>2, <2>4, <3>1, <3>2, CopiesLost
  <2>7. QED
    BY <1>3, <1>4, <2>4, <2>5, <2>6, Types
<1>10. ASSUME NEW c \in Clients, NEW d \in Dgrams, LoseReply(c, d)
       PROVE  IInv'
  <2>1. /\ reps[<<c, d>>] > 0 /\ reps' = [reps EXCEPT ![<<c, d>>] = @ - 1]
        /\ lost' = [lost EXCEPT ![c] = @ + 1]
        /\ UNCHANGED <<reqs, strays, err, sigio, dups, strayed>>
    BY <1>10 DEF LoseReply
  <2>2. /\ reps' \in [Clients \X Dgrams -> Nat]
        /\ \A b \in Clients, e \in Dgrams : /\ reps[<<b, e>>] \in Nat
                                            /\ reps'[<<b, e>>] <= reps[<<b, e>>]
                                            /\ reps'[<<b, e>>] > 0 => reps[<<b, e>>] > 0
    <3>1. reps[<<c, d>>] \in Nat /\ reps[<<c, d>>] - 1 \in Nat
      BY <1>1, <2>1 DEF NetTypes
    <3>2. reps' \in [Clients \X Dgrams -> Nat]
      BY <1>1, <2>1, <3>1 DEF NetTypes
    <3>3. \A b \in Clients, e \in Dgrams :
             /\ reps[<<b, e>>] \in Nat
             /\ reps'[<<b, e>>] = IF <<b, e>> = <<c, d>> THEN reps[<<b, e>>] - 1 ELSE reps[<<b, e>>]
      BY <1>1, <2>1 DEF NetTypes
    <3>4. QED
      BY <3>2, <3>3
  <2>3. lost' \in [Clients -> Nat]
    BY <1>1, <2>1 DEF NetTypes
  <2>4. NetTypes'
    BY <1>1, <2>1, <2>2, <2>3 DEF NetTypes
  <2>5. ReplyInv'
    BY <1>2, <2>1, <2>2 DEF ReplyInv
  <2>6. StepInv'
    <3>1. \A b \in Clients : dups'[b] >= dups[b] /\ strayed'[b] >= strayed[b]
      BY <1>1, <2>1 DEF NetTypes
    <3>2. ASSUME NEW e \in Dgrams
          PROVE  reps'[<<e[1], e>>] <= reps[<<e[1], e>>] /\ reqs'[e] <= reqs[e]
      <4>1. e[1] \in Clients /\ reqs[e] \in Nat /\ reps[<<e[1], e>>] \in Nat
        BY <1>7
      <4>2. QED
        BY <2>1, <2>2, <4>1
    <3>3. QED
      BY <1>2, <1>6, <2>4, <3>1, <3>2, CopiesLost
  <2>7. QED
    BY <1>3, <1>4, <2>4, <2>5, <2>6, Types
<1>11. ASSUME NEW d \in Dgrams, Duplicate(d)
       PROVE  IInv'
  <2>1. /\ reqs' = [reqs EXCEPT ![d] = @ + 1]
        /\ dups' = [dups EXCEPT ![d[1]] = @ + 1]
        /\ UNCHANGED <<reps, strays, err, lost, strayed>>
    BY <1>11 DEF Duplicate
  <2>2. reqs' \in [Dgrams -> Nat] /\ dups' \in [Clients -> Nat]
    <3>1. d[1] \in Clients
      BY <1>7
    <3>2. dups' \in [Clients -> Nat]
      BY <1>1, <2>1, <3>1 DEF NetTypes
    <3>3. reqs' \in [Dgrams -> Nat]
      BY <1>1, <2>1 DEF NetTypes
    <3>4. QED
      BY <3>2, <3>3
  <2>3. NetTypes'
    BY <1>1, <1>5, <2>1, <2>2 DEF NetTypes
  <2>4. ReplyInv'
    BY <1>2, <2>1 DEF ReplyInv
  <2>5. StepInv'
    <3>0. d[1] \in Clients
      BY <1>7
    <3>1. /\ \A c \in Clients : dups'[c] >= dups[c] /\ strayed'[c] >= strayed[c]
          /\ dups'[d[1]] > 0
      BY <1>1, <2>1, <3>0 DEF NetTypes
    <3>2. \A e \in Dgrams : Undisturbed(e[1])' => reqs'[e] <= reqs[e]
      <4> TAKE e \in Dgrams
      <4>1. CASE e = d
        BY <3>1, <4>1 DEF Undisturbed
      <4>2. CASE e # d
        BY <1>1, <1>7, <2>1, <4>2 DEF NetTypes
      <4>3. QED
        BY <4>1, <4>2
    <3>3. ASSUME NEW e \in Dgrams
          PROVE  reps'[<<e[1], e>>] <= reps[<<e[1], e>>]
      <4>1. reps[<<e[1], e>>] \in Nat
        BY <1>7
      <4>2. QED
        BY  <2>1, <4>1
    <3>4. QED
      BY <1>2, <1>6, <2>3, <3>1, <3>2, <3>3, CopiesLost
  <2>6. QED
    BY <1>3, <1>4, <2>3, <2>4, <2>5, Types
<1>12. ASSUME NEW c \in Clients, Stray(c)
       PROVE  IInv'
  <2>1. /\ strays' = [strays EXCEPT ![c] = @ + 1]
        /\ strayed' = [strayed EXCEPT ![c] = @ + 1]
        /\ UNCHANGED <<reqs, reps, err, sigio, lost, dups>>
    BY <1>12 DEF Stray
  <2>2. strays' \in [Clients -> Nat] /\ strayed' \in [Clients -> Nat]
    BY <1>1, <2>1 DEF NetTypes
  <2>3. NetTypes'
    BY <1>1, <2>1, <2>2 DEF NetTypes
  <2>4. ReplyInv'
    <3>1. \A b \in Clients : strays'[b] <= strayed'[b]
      BY <1>1, <2>1 DEF NetTypes, ReplyInv
    <3>2. QED
      BY <1>2, <2>1, <3>1 DEF ReplyInv
  <2>5. StepInv'
    <3>1. \A b \in Clients : dups'[b] >= dups[b] /\ strayed'[b] >= strayed[b]
      BY <1>1, <2>1 DEF NetTypes
    <3>2. ASSUME NEW e \in Dgrams
          PROVE  reps'[<<e[1], e>>] <= reps[<<e[1], e>>] /\ reqs'[e] <= reqs[e]
      <4>1. e[1] \in Clients /\ reqs[e] \in Nat /\ reps[<<e[1], e>>] \in Nat
        BY <1>7
      <4>2. QED
        BY <2>1, <4>1
    <3>3. QED
      BY <1>2, <1>6, <2>3, <3>1, <3>2, CopiesLost
  <2>6. QED
    BY <1>3, <1>4, <2>3, <2>4, <2>5, Types
<1>13. QED
  BY <1>8, <1>9, <1>10, <1>11, <1>12 DEF Faults

-----------------------------------------------------------------------------
LEMMA StepIInv == IInv /\ [Next]_vars => IInv'
<1> SUFFICES ASSUME IInv, [Next]_vars
             PROVE  IInv'
  OBVIOUS
<1>1. ASSUME NEW c \in Clients, Client(c) \/ FgetsEof(c)
      PROVE  IInv'
  BY <1>1, SendLineIInv, ReceiveIInv, IgnoreIInv, ClientEndsIInv DEF Client
<1>2. CASE Server
  <2>1. CASE Overflow
    BY <2>1, EndsIInv DEF Overflow
  <2>2. QED
    BY <1>2, <2>1, RecvfromIInv, SendtoIInv, CountOneIInv, QueueStepIInv, SendtoQueuedIInv,
       QueueOneIInv DEF Server
<1>3. CASE recvfrom_int
  <2>1. CASE serv.intr = "exit"
    BY <1>3, <2>1, EndsIInv DEF recvfrom_int
  <2>2. CASE serv.intr # "exit"
    BY <1>3, <2>2, TellsIInv DEF recvfrom_int
  <2>3. QED
    BY <2>1, <2>2
<1>4. CASE Die
  BY <1>4, EndsIInv DEF Die
<1>5. CASE Refuse \/ Faults
  BY <1>5, NetworkIInv
<1>6. CASE UNCHANGED vars
  <2>1. TypeOK'
    BY <1>6 DEF vars, IInv, TypeOK
  <2>2. ServerInv' /\ CountInv' /\ QueueInv' /\ ReplyInv'
    BY <1>6 DEF vars, IInv, ServerInv, CountInv, QueueInv, ReplyInv, Queued, Unsent
  <2>3. StepInv'
    <3>1. sigio' \in BOOLEAN
      BY <1>6 DEF vars, IInv, TypeOK
    <3>2. QED
      BY <1>6, <3>1, HeldKept, NothingMoves DEF vars
  <2>4. QED
    BY <2>1, <2>2, <2>3 DEF IInv
<1>7. QED
  BY <1>1, <1>2, <1>3, <1>4, <1>5, <1>6 DEF Next

\* What every reachable state of every pair of programs satisfies.
THEOREM Invariance == Spec => []IInv
BY InitIInv, StepIInv, PTL DEF Spec

-----------------------------------------------------------------------------
\* The variables keep their types: no client prints more lines than it sent,
\* and nqueue, iget and iput of dgecho01 stay within the queue.
THEOREM TypeCorrect == Spec => []TypeOK
<1>1. IInv => TypeOK
  BY DEF IInv
<1>2. QED
  BY <1>1, Invariance, PTL

\* The j-th line printed is the j-th line sent, whatever is lost and whatever
\* the other clients do.
THEOREM ClientsInStep == Spec => []InStep
<1>1. IInv => InStep
  BY DEF IInv, StepInv, StepOf, InStepOf, Undisturbed, InStep
<1>2. QED
  BY <1>1, Invariance, PTL

\* recvfrom_int prints the number of datagrams read, at most one short.
THEOREM CountCorrect == Spec => []CountTold
<1>1. IInv => CountTold
  BY DEF IInv, CountInv, CountTold, TypeOK
<1>2. QED
  BY <1>1, Invariance, PTL

\* The queue of dgecho01 is kept while its handler interrupts the main loop.
THEOREM QueueCorrect == Spec => []QueueKept
<1>1. IInv => QueueKept
  <2> SUFFICES ASSUME IInv, serv.does = "sigio", spc # "dead"
               PROVE  /\ nqueue = (taken - answered) + (IF spc = "sent" THEN 1 ELSE 0)
                      /\ taken - answered <= QSIZE
                      /\ spc # "sent" => iput = (iget + nqueue) % QSIZE
    BY DEF QueueKept
  <2>1. taken = answered + Unsent /\ iput = (iget + Unsent) % QSIZE
    BY DEF IInv, QueueInv
  <2>2. taken \in Nat /\ answered \in Nat /\ nqueue \in 0..QSIZE
    BY DEF IInv, TypeOK
  <2>3. QED
    BY <2>1, <2>2 DEF Unsent
<1>2. QED
  BY <1>1, Invariance, PTL
===============================================================================
