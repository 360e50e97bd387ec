-------------------------------- MODULE Conn --------------------------------
(***************************************************************************)
(* rconnect, close_conn and rshutdown, step by step, in a process with a    *)
(* bounded number of descriptors and an application that holds several      *)
(* sockets (main and test10 of the unit test have one each), beside hosts   *)
(* on which Rserve, another server or nothing listens.                      *)
(***************************************************************************)
EXTENDS Integers, FiniteSets

CONSTANTS
  Fds,          \* descriptor numbers the process may have besides 0, 1 and 2
  NoSock,       \* -1
  Slots,        \* the socket variables of the application
  Hosts, Local, \* hosts; the one the client runs on
  Texts,        \* arguments of rconnect that are not dotted IPv4 addresses
  NoServer,     \* arguments it refuses: a null server, a port that is not positive
  Free,         \* a descriptor that is not in use
  None,         \* no connection
  RcvTimeout,   \* rconnect is given rcv_timeout_sec > 0
  MaxOps        \* bound: calls in a behaviour

ASSUME ConnAssumption ==
  /\ Fds \subseteq Nat /\ NoSock \notin Fds
  /\ Local \in Hosts /\ Texts \cap Hosts = {} /\ NoServer \notin Hosts \cup Texts
  /\ RcvTimeout \in BOOLEAN /\ MaxOps \in Nat

\* A process has finitely many descriptors.
ASSUME LimitAssumption == IsFiniteSet(Fds) /\ None \notin Hosts

VARIABLES
  pc, slot, asked, sock,   \* the call: its place, the variable it is for, its
                           \* server argument, its local sock
  var,                     \* the application's socket variables
  last,                    \* the last result: [op, status, host]
  ops,                     \* calls made
  fds,                     \* the descriptors: Free or a connection
  hosts                    \* what listens on each host

Args == Hosts \cup Texts \cup {NoServer}

vars == <<pc, slot, asked, sock, var, last, ops, fds, hosts>>

\* A connection: its host and what listened there, whether it has a receive
\* timeout and has been greeted, whether it owes the answer to a shutdown,
\* what has arrived and not been read, and whether the other side has closed.
Listeners == {"rserve", "other"}
Sock == [host : Hosts \cup {None}, kind : Listeners \cup {None}, timed : BOOLEAN, greeted : BOOLEAN,
         due : BOOLEAN, in : {"nothing", "hello", "ok", "err"}, fin : BOOLEAN]
NewSock == [host |-> None, kind |-> None, timed |-> FALSE, greeted |-> FALSE,
            due |-> FALSE, in |-> "nothing", fin |-> FALSE]

ASSUME FreeAssumption == Free \notin Sock

Init == /\ pc = "app" /\ slot \in Slots /\ asked = Local /\ sock = NoSock
        /\ var = [s \in Slots |-> NoSock]
        /\ last = [op |-> "none", status |-> 0, host |-> None] /\ ops = 0
        /\ fds = [d \in Fds |-> Free] /\ hosts \in [Hosts -> Listeners \cup {"down"}]

Return(op, status) ==
  /\ pc' = "app" /\ sock' = NoSock
  /\ last' = [op |-> op, status |-> status,
              host |-> IF sock = NoSock THEN None ELSE fds[sock].host]

-----------------------------------------------------------------------------
(* rconnect.  A failure returns as it is: the descriptor is not closed.     *)

\* The application may use a variable that still holds a socket (test10).
Rconnect(s, a) ==
  /\ pc = "app" /\ ops < MaxOps /\ ops' = ops + 1
  /\ pc' = "socket" /\ slot' = s /\ asked' = a
  /\ UNCHANGED <<sock, var, last, fds, hosts>>

FreeFds == {d \in Fds : fds[d] = Free}

\* The lowest free descriptor.
Socket ==
  /\ pc = "socket" /\ asked # NoServer /\ pc' = "connect"
  /\ \E d \in FreeFds : /\ \A e \in FreeFds : d <= e
                        /\ sock' = d /\ fds' = [fds EXCEPT ![d] = NewSock]
  /\ UNCHANGED <<slot, asked, var, last, ops, hosts>>

\* Mutant: the result of socket() is not looked at.
SocketFailsUnchecked ==
  /\ pc = "socket" /\ asked # NoServer /\ FreeFds = {}
  /\ pc' = "connect" /\ sock' = NoSock
  /\ UNCHANGED <<slot, asked, var, last, ops, fds, hosts>>

\* The checks on entry; no descriptor left.
SocketFails ==
  /\ pc = "socket" /\ (asked = NoServer \/ FreeFds = {}) /\ Return("rconnect", -1)
  /\ UNCHANGED <<slot, asked, var, ops, fds, hosts>>

TargetLocal == Local      \* mutant: the address is never filled in

\* inet_pton(AF_INET) gives 0 for a text that is no IPv4 address, which is
\* not below 0, and leaves the address 0.0.0.0: the local host.
Target == IF asked \in Texts THEN Local ELSE asked

Connect ==
  /\ pc = "connect" /\ hosts[Target] # "down" /\ pc' = "setopts"
  /\ fds' = [fds EXCEPT ![sock].host = Target, ![sock].kind = hosts[Target]]
  /\ UNCHANGED <<slot, asked, sock, var, last, ops, hosts>>

\* Nothing listens, or the attempt fails on its way.
ConnectFails ==
  /\ pc = "connect" /\ Return("rconnect", -1)
  /\ UNCHANGED <<slot, asked, var, ops, fds, hosts>>

\* Mutant: no timeout is set.
SetOptsUntimed ==
  /\ pc = "setopts" /\ pc' = "greeting"
  /\ UNCHANGED <<slot, asked, sock, var, last, ops, fds, hosts>>

\* TCP_NODELAY and the timeouts.
SetOpts ==
  /\ pc = "setopts" /\ pc' = "greeting"
  /\ fds' = [fds EXCEPT ![sock].timed = RcvTimeout]
  /\ UNCHANGED <<slot, asked, sock, var, last, ops, hosts>>

SetOptsFails ==
  /\ pc = "setopts" /\ Return("rconnect", -1)
  /\ UNCHANGED <<slot, asked, var, ops, fds, hosts>>

\* 32 bytes that begin with Rsrv0103QAP1.
KnownAny(c) == TRUE                                              \* mutant
Known(c) == c.kind = "rserve"

Greeted ==
  /\ pc = "greeting" /\ fds[sock].in = "hello" /\ Known(fds[sock])
  /\ fds' = [fds EXCEPT ![sock].in = "nothing", ![sock].greeted = TRUE]
  /\ var' = [var EXCEPT ![slot] = sock]
  /\ Return("rconnect", 0)
  /\ UNCHANGED <<slot, asked, ops, hosts>>

\* Another greeting; the end of the stream; the timeout.
GreetingFails ==
  /\ pc = "greeting"
  /\ \/ /\ fds[sock].in = "hello" /\ ~Known(fds[sock])
        /\ fds' = [fds EXCEPT ![sock].in = "nothing"] /\ Return("rconnect", -1)
     \/ fds[sock].in = "nothing" /\ fds[sock].fin /\ Return("rconnect", -2) /\ UNCHANGED fds
     \/ fds[sock].in = "nothing" /\ fds[sock].timed /\ Return("rconnect", -3) /\ UNCHANGED fds
  /\ UNCHANGED <<slot, asked, var, ops, hosts>>

-----------------------------------------------------------------------------
(* close_conn, as the application uses it: it forgets the number.           *)

\* Mutant: shutdown(sock, 0), "OLD" in close_conn.
ReleaseShutdown(d) == fds' = [fds EXCEPT ![d].fin = TRUE]
Release(d) == fds' = [fds EXCEPT ![d] = Free]

CloseConn(s) ==
  /\ pc = "app" /\ ops < MaxOps /\ ops' = ops + 1
  /\ var[s] # NoSock /\ Release(var[s])
  /\ var' = [var EXCEPT ![s] = NoSock]
  /\ last' = [op |-> "close_conn", status |-> 0, host |-> fds[var[s]].host]
  /\ UNCHANGED <<pc, slot, asked, sock, hosts>>

-----------------------------------------------------------------------------
(* rshutdown.                                                               *)

Rshutdown(s) ==
  /\ pc = "app" /\ ops < MaxOps /\ ops' = ops + 1
  /\ var[s] # NoSock
  /\ pc' = "shutSend" /\ slot' = s /\ sock' = var[s]
  /\ UNCHANGED <<asked, var, last, fds, hosts>>

ShutSend ==
  /\ pc = "shutSend" /\ pc' = "shutRead"
  /\ fds' = [fds EXCEPT ![sock].due = TRUE]
  /\ UNCHANGED <<slot, asked, sock, var, last, ops, hosts>>

ShutSendFails ==
  /\ pc = "shutSend" /\ Return("rshutdown", -1)
  /\ UNCHANGED <<slot, asked, var, ops, fds, hosts>>

\* Whatever has come, the socket is closed; what it says is not looked at.
ShutRead ==
  /\ pc = "shutRead" /\ fds[sock].in # "nothing"
  /\ Release(sock) /\ var' = [var EXCEPT ![slot] = NoSock]
  /\ Return("rshutdown", 0)
  /\ UNCHANGED <<slot, asked, ops, hosts>>

\* 0 or an error from read(): the socket stays open, and the caller's.
ShutReadFails ==
  /\ pc = "shutRead" /\ fds[sock].in = "nothing"
  /\ \/ fds[sock].fin /\ Return("rshutdown", -2)
     \/ (fds[sock].fin \/ fds[sock].timed) /\ Return("rshutdown", -3)
  /\ UNCHANGED <<slot, asked, var, ops, fds, hosts>>

-----------------------------------------------------------------------------
(* The hosts (external).  What happens to a socket that nobody holds any    *)
(* more is not followed.                                                    *)

InUse == {d \in Fds : fds[d] # Free /\ (d = sock \/ \E s \in Slots : var[s] = d)}

\* What the other side sends or does on the connection d.
Peer(d, new) == /\ d \in InUse /\ fds[d].kind # None /\ ~fds[d].fin
                /\ fds' = [fds EXCEPT ![d] = new]
                /\ UNCHANGED <<pc, slot, asked, sock, var, last, ops>>

Hello(d) == /\ d \in InUse /\ ~fds[d].greeted /\ fds[d].in = "nothing"
            /\ Peer(d, [fds[d] EXCEPT !.in = "hello"])
            /\ UNCHANGED hosts

\* The answer to a shutdown: the server obeys and ends, or refuses.
AnswerShutdown(d) ==
  /\ d \in InUse /\ fds[d].due /\ fds[d].in = "nothing"
  /\ \/ /\ Peer(d, [fds[d] EXCEPT !.due = FALSE, !.in = "ok", !.fin = TRUE])
        /\ hosts' = [hosts EXCEPT ![fds[d].host] = "down"]
     \/ /\ Peer(d, [fds[d] EXCEPT !.due = FALSE, !.in = "err"])
        /\ UNCHANGED hosts

PeerCloses(d) == /\ d \in InUse
                 /\ Peer(d, [fds[d] EXCEPT !.fin = TRUE])
                 /\ UNCHANGED hosts

Restart(h) == /\ hosts[h] = "down"
              /\ \E k \in Listeners : hosts' = [hosts EXCEPT ![h] = k]
              /\ UNCHANGED <<pc, slot, asked, sock, var, last, ops, fds>>

-----------------------------------------------------------------------------
Call == \E s \in Slots : \/ \E a \in Args : Rconnect(s, a)
                         \/ CloseConn(s) \/ Rshutdown(s)

Step == \/ Socket \/ SocketFails \/ Connect \/ ConnectFails \/ SetOpts \/ SetOptsFails
        \/ Greeted \/ GreetingFails
        \/ ShutSend \/ ShutSendFails \/ ShutRead \/ ShutReadFails

World == \/ \E d \in Fds : Hello(d) \/ AnswerShutdown(d) \/ PeerCloses(d)
         \/ \E h \in Hosts : Restart(h)

Finished == pc = "app" /\ ops = MaxOps /\ UNCHANGED vars

Next == Call \/ Step \/ World \/ Finished

Spec == Init /\ [][Next]_vars

\* The functions go on whenever they can; nothing is asked of the hosts.
FairSpec == Spec /\ WF_vars(Step)

-----------------------------------------------------------------------------
TypeOK ==
  /\ pc \in {"app", "socket", "connect", "setopts", "greeting", "shutSend", "shutRead"}
  /\ slot \in Slots /\ asked \in Args
  /\ sock \in Fds \cup {NoSock} /\ (pc \in {"app", "socket"} <=> sock = NoSock)
  /\ var \in [Slots -> Fds \cup {NoSock}]
  /\ last \in [op : {"none", "rconnect", "close_conn", "rshutdown"}, status : {0, -1, -2, -3},
               host : Hosts \cup {None}]
  /\ ops \in 0 .. MaxOps
  /\ fds \in [Fds -> Sock \cup {Free}] /\ hosts \in [Hosts -> Listeners \cup {"down"}]

Held(s) == var[s] # NoSock

\* What the application holds stays what rconnect handed out: an open socket
\* of its own, greeted by an Rserve, with the timeout asked for and nothing
\* left to read but what a shutdown that failed had asked for, whatever was
\* opened, lost and closed since.
HeldIsGood ==
  /\ \A s \in Slots : Held(s) =>
       /\ fds[var[s]] # Free
       /\ fds[var[s]].kind = "rserve" /\ fds[var[s]].greeted
       /\ fds[var[s]].timed = RcvTimeout
       /\ fds[var[s]].in # "hello"
  /\ \A s, t \in Slots : s # t /\ Held(s) => var[s] # var[t]

\* With receive timeouts rconnect and rshutdown return, whether the other
\* side greets, answers, closes or keeps silent.
Returns == pc # "app" ~> pc = "app"

S == INSTANCE Sockets WITH
       held <- [s \in Slots |-> IF Held(s) THEN fds[var[s]].host ELSE None],
       spare <- Cardinality(FreeFds)
                + (IF pc \in {"connect", "setopts", "greeting"} THEN 1 ELSE 0)

\* Sockets are opened and closed one at a time and each closing gives back
\* the descriptor of that socket; a failure loses one at most.
ImplementsSockets == S!Spec

\* The socket in the caller's variable after an rconnect that returned 0 is
\* connected to the host that was asked for, when the text was an address that
\* inet_pton knows (any other text gets the local host).
ConnectsWhereAsked ==
  pc = "app" /\ last.op = "rconnect" /\ last.status = 0 /\ asked \in Hosts =>
    Held(slot) /\ fds[var[slot]].host = asked
=============================================================================
