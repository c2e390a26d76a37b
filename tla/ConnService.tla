------------------------------ MODULE ConnService ------------------------------
(***************************************************************************)
(* What one process that serves many clients promises them, however it     *)
(* waits for them: it reads from connections it holds, answers the client  *)
(* it has read from before it does anything else, closes a connection only *)
(* when its client has closed or reset it, and stops for two reasons only: *)
(* a client that reset the connection or is unreachable, and accept        *)
(* without a free descriptor.                                              *)
(***************************************************************************)
EXTENDS Connections

VARIABLES
    owed,    \* the connections that are owed a reply
    stopped  \* the process has ended

serviceVars == <<owed, stopped, connVars>>

Init == ConnInit /\ owed = {} /\ stopped = FALSE

Admit == owed = {} /\ (\E fd \in ConnFds : AcceptAs(fd)) /\ UNCHANGED owed

Hear(fd) == owed = {} /\ fd \in open /\ ReadSome(fd) /\ owed' = {fd}

Answer(fd) == owed = {fd} /\ WriteReply(fd) /\ owed' = {}

Leave(fd) ==
    /\ owed = {} /\ fd \in open /\ (ReadsEof(fd) \/ ReadsReset(fd))
    /\ CloseFd(fd) /\ UNCHANGED owed

\* Before Stop: the connection at hand was reset, or there is none to have.
Hopeless ==
    \/ \E fd \in open \cap rst : owed = {fd} \/ (owed = {} /\ inq[fd] = 0)
    \/ owed = {} /\ backlog > 0 /\ FreeFds = {}

Stop == Hopeless /\ stopped' = TRUE /\ owed' = {} /\ UNCHANGED connVars

Serve ==
    \/ Admit
    \/ \E fd \in ConnFds : Hear(fd) \/ Answer(fd) \/ Leave(fd)

Next ==
    /\ ~stopped
    /\ \/ (Serve \/ (Clients /\ UNCHANGED owed)) /\ UNCHANGED stopped
       \/ Stop

Spec == Init /\ [][Next]_serviceVars
================================================================================
