----------------------------- MODULE ConnProofs -----------------------------
(***************************************************************************)
(* Theorems about the sockets of Conn, for every number of descriptors,     *)
(* variables, hosts and calls: a server in a variable is an open socket,    *)
(* greeted and connected to the host that was asked for, and rconnect,      *)
(* close_conn and rshutdown, one system call at a time, keep what Sockets   *)
(* promises.                                                                *)
(***************************************************************************)
EXTENDS Conn, FiniteSetTheorems, TLAPS

\* In rconnect the local socket is open and nobody else's; in rshutdown it is
\* the one in the caller's variable.
Busy == /\ pc \in {"connect", "setopts", "greeting"} =>
             fds[sock] # Free /\ ~fds[sock].greeted /\ \A s \in Slots : var[s] # sock
        /\ pc = "connect" => asked # NoServer
        /\ pc = "greeting" => fds[sock].timed = RcvTimeout
        /\ pc \in {"shutSend", "shutRead"} => var[slot] = sock

IInv == TypeOK /\ Busy /\ HeldIsGood

\* The fields of a connection, and what changing one of them leaves.
LEMMA SockFields ==
  \A c \in Sock : /\ c.host \in Hosts \cup {None} /\ c.kind \in Listeners \cup {None}
                  /\ c.timed \in BOOLEAN /\ c.greeted \in BOOLEAN /\ c.due \in BOOLEAN
                  /\ c.in \in {"nothing", "hello", "ok", "err"} /\ c.fin \in BOOLEAN
BY DEF Sock

LEMMA InvInit == Init => IInv
<1> SUFFICES ASSUME Init PROVE IInv
  OBVIOUS
<1>1. TypeOK
  BY ConnAssumption DEF Init, TypeOK, Listeners, Args
<1> QED BY <1>1, ConnAssumption DEF Init, IInv, Busy, HeldIsGood, Held

LEMMA NewSockIsSock == NewSock \in Sock /\ NewSock # Free
<1>1. NewSock \in Sock
  BY DEF NewSock, Sock
<1> QED BY <1>1, FreeAssumption

LEMMA OpsGrow == ASSUME ops \in 0 .. MaxOps, ops < MaxOps PROVE ops + 1 \in 0 .. MaxOps
BY ConnAssumption

LEMMA InvCall == IInv /\ Call => IInv'
<1>1. ASSUME IInv, NEW s \in Slots, NEW a \in Args, Rconnect(s, a) PROVE IInv'
  <2>1. TypeOK'
    BY <1>1, OpsGrow DEF IInv, TypeOK, Rconnect
  <2> QED BY <1>1, <2>1 DEF IInv, Rconnect, Busy, HeldIsGood, Held
<1>2. ASSUME IInv, NEW s \in Slots, CloseConn(s) PROVE IInv'
  <2>0. var[s] \in Fds /\ fds[var[s]] \in Sock
    BY <1>2 DEF IInv, TypeOK, CloseConn, HeldIsGood, Held
  <2>1. fds' \in [Fds -> Sock \cup {Free}] /\ var' \in [Slots -> Fds \cup {NoSock}]
    BY <1>2 DEF IInv, TypeOK, CloseConn, Release
  <2>2. last' \in [op : {"none", "rconnect", "close_conn", "rshutdown"}, status : {0, -1, -2, -3},
                   host : Hosts \cup {None}]
    BY <1>2, <2>0, SockFields DEF CloseConn
  <2>3. TypeOK'
    BY <1>2, <2>1, <2>2, OpsGrow DEF IInv, TypeOK, CloseConn
  <2>4. HeldIsGood'
    <3>1. \A t \in Slots : t # s => var'[t] = var[t]
      BY <1>2 DEF CloseConn, IInv, TypeOK
    <3>2. var'[s] = NoSock
      BY <1>2 DEF CloseConn, IInv, TypeOK
    <3>3. \A t \in Slots : t # s /\ var[t] # NoSock => fds'[var[t]] = fds[var[t]]
      BY <1>2, <2>0 DEF CloseConn, Release, IInv, TypeOK, HeldIsGood, Held
    <3> QED BY <1>2, <3>1, <3>2, <3>3 DEF IInv, HeldIsGood, Held
  <2> QED BY <1>2, <2>3, <2>4 DEF IInv, CloseConn, Busy
<1>3. ASSUME IInv, NEW s \in Slots, Rshutdown(s) PROVE IInv'
  <2>1. TypeOK'
    BY <1>3, OpsGrow DEF IInv, TypeOK, Rshutdown
  <2> QED BY <1>3, <2>1 DEF IInv, Rshutdown, Busy, HeldIsGood, Held
<1> QED BY <1>1, <1>2, <1>3 DEF Call

\* A return that changes no descriptor and no variable.
LEMMA InvReturn ==
  ASSUME IInv, NEW op \in {"rconnect", "rshutdown"}, NEW st \in {0, -1, -2, -3},
         Return(op, st), UNCHANGED <<slot, asked, var, ops, fds, hosts>>
  PROVE  IInv'
<1>1. last' \in [op : {"none", "rconnect", "close_conn", "rshutdown"}, status : {0, -1, -2, -3},
                 host : Hosts \cup {None}]
  <2>1. sock # NoSock => fds[sock] \in Sock
    BY DEF IInv, TypeOK, Busy, HeldIsGood, Held
  <2> QED BY <2>1, SockFields DEF Return
<1>2. TypeOK'
  BY <1>1 DEF IInv, TypeOK, Return
<1> QED BY <1>2 DEF IInv, Busy, HeldIsGood, Held, Return

\* Changing a connection that nobody holds leaves what is held as it is.
LEMMA HeldKept ==
  ASSUME IInv, NEW d \in Fds, NEW new \in Sock, \A s \in Slots : var[s] # d,
         fds' = [fds EXCEPT ![d] = new], var' = var
  PROVE  HeldIsGood' /\ fds' \in [Fds -> Sock \cup {Free}] /\ fds'[d] = new
<1>1. fds' \in [Fds -> Sock \cup {Free}] /\ fds'[d] = new
  BY DEF IInv, TypeOK
<1>2. \A s \in Slots : Held(s) => fds'[var[s]] = fds[var[s]]
  BY DEF IInv, TypeOK, Held
<1> QED BY <1>1, <1>2 DEF IInv, HeldIsGood, Held

LEMMA InvRconnect ==
  ASSUME IInv, Socket \/ Connect \/ SetOpts
  PROVE  IInv'
<1>1. CASE Socket
  <2>1. sock' \in Fds /\ fds[sock'] = Free
    BY <1>1 DEF Socket, FreeFds
  <2>2. \A s \in Slots : var[s] # sock'
    BY <2>1, ConnAssumption DEF IInv, HeldIsGood, Held
  <2>3. fds' = [fds EXCEPT ![sock'] = NewSock] /\ var' = var
    BY <1>1 DEF Socket
  <2>4. HeldIsGood' /\ fds' \in [Fds -> Sock \cup {Free}] /\ fds'[sock'] = NewSock
    BY <2>1, <2>2, <2>3, HeldKept, NewSockIsSock
  <2>5. TypeOK'
    BY <1>1, <2>1, <2>4, ConnAssumption DEF IInv, TypeOK, Socket
  <2>6. ~NewSock.greeted
    BY DEF NewSock
  <2> QED BY <1>1, <2>2, <2>4, <2>5, <2>6, NewSockIsSock DEF IInv, Busy, Socket
<1>2. CASE Connect
  <2>1. sock \in Fds /\ fds[sock] \in Sock /\ Target \in Hosts
    BY <1>2, ConnAssumption DEF IInv, TypeOK, Busy, Connect, Target, Args
  <2> DEFINE new == [fds[sock] EXCEPT !.host = Target, !.kind = hosts[Target]]
  <2>2. new \in Sock /\ new.greeted = fds[sock].greeted
    <3>1. hosts[Target] \in Listeners
      BY <1>2, <2>1 DEF IInv, TypeOK, Connect
    <3> QED BY <2>1, <3>1 DEF Sock
  <2>3. fds' = [fds EXCEPT ![sock] = new]
    BY <1>2, <2>1 DEF Connect, IInv, TypeOK
  <2>4. \A s \in Slots : var[s] # sock
    BY <1>2 DEF IInv, Busy, Connect
  <2>5. HeldIsGood' /\ fds' \in [Fds -> Sock \cup {Free}] /\ fds'[sock] = new
    BY <1>2, <2>1, <2>2, <2>3, <2>4, HeldKept DEF Connect
  <2>6. TypeOK'
    BY <1>2, <2>5 DEF IInv, TypeOK, Connect
  <2> QED BY <1>2, <2>2, <2>4, <2>5, <2>6, FreeAssumption DEF IInv, Busy, Connect
<1>3. CASE SetOpts
  <2>1. sock \in Fds /\ fds[sock] \in Sock
    BY <1>3 DEF IInv, TypeOK, Busy, SetOpts
  <2> DEFINE new == [fds[sock] EXCEPT !.timed = RcvTimeout]
  <2>2. new \in Sock /\ new.greeted = fds[sock].greeted /\ new.timed = RcvTimeout
    BY <2>1, ConnAssumption DEF Sock
  <2>3. fds' = [fds EXCEPT ![sock] = new]
    BY <1>3, <2>1 DEF SetOpts, IInv, TypeOK
  <2>4. \A s \in Slots : var[s] # sock
    BY <1>3 DEF IInv, Busy, SetOpts
  <2>5. HeldIsGood' /\ fds' \in [Fds -> Sock \cup {Free}] /\ fds'[sock] = new
    BY <1>3, <2>1, <2>2, <2>3, <2>4, HeldKept DEF SetOpts
  <2>6. TypeOK'
    BY <1>3, <2>5 DEF IInv, TypeOK, SetOpts
  <2> QED BY <1>3, <2>2, <2>4, <2>5, <2>6, FreeAssumption DEF IInv, Busy, SetOpts
<1> QED BY <1>1, <1>2, <1>3

LEMMA ReturnTyped ==
  ASSUME IInv, sock \in Fds, fds[sock] \in Sock, NEW op \in {"rconnect", "rshutdown"},
         NEW st \in {0, -1, -2, -3}, Return(op, st)
  PROVE  last' \in [op : {"none", "rconnect", "close_conn", "rshutdown"}, status : {0, -1, -2, -3},
                    host : Hosts \cup {None}]
BY SockFields DEF Return

\* A greeting that is Rserve's: the variable takes the socket, which from
\* here on is the application's.
LEMMA InvGreeted == ASSUME IInv, Greeted PROVE IInv'
<1>1. sock \in Fds /\ fds[sock] \in Sock /\ slot \in Slots
  BY DEF IInv, TypeOK, Busy, Greeted
<1> DEFINE new == [fds[sock] EXCEPT !.in = "nothing", !.greeted = TRUE]
<1>2. /\ new \in Sock /\ new.kind = "rserve" /\ new.greeted
      /\ new.timed = RcvTimeout /\ new.in = "nothing"
  BY <1>1 DEF IInv, Busy, Greeted, Known, Sock
<1>3. fds' \in [Fds -> Sock \cup {Free}] /\ fds'[sock] = new
  BY <1>1, <1>2 DEF Greeted, IInv, TypeOK
<1>4. /\ var' \in [Slots -> Fds \cup {NoSock}] /\ var'[slot] = sock
      /\ \A s \in Slots : s # slot => var'[s] = var[s]
  BY <1>1 DEF Greeted, IInv, TypeOK
<1>5. \A s \in Slots : var[s] # sock
  BY DEF IInv, Busy, Greeted
<1>6. \A s \in Slots : var[s] # NoSock => fds'[var[s]] = fds[var[s]]
  BY <1>1, <1>5 DEF Greeted, IInv, TypeOK
<1>7. TypeOK'
  BY <1>1, <1>3, <1>4, ReturnTyped DEF Greeted, IInv, TypeOK, Return
<1>8. HeldIsGood'
  <2>1. ASSUME NEW s \in Slots, Held(s)'
        PROVE  /\ fds'[var'[s]] # Free
               /\ fds'[var'[s]].kind = "rserve" /\ fds'[var'[s]].greeted
               /\ fds'[var'[s]].timed = RcvTimeout /\ fds'[var'[s]].in # "hello"
    <3>1. CASE s = slot
      BY <1>2, <1>3, <1>4, <3>1, FreeAssumption
    <3>2. CASE s # slot
      BY <1>4, <1>6, <2>1, <3>2 DEF IInv, HeldIsGood, Held
    <3> QED BY <3>1, <3>2
  <2>2. \A s, t \in Slots : s # t /\ Held(s)' => var'[s] # var'[t]
    BY <1>4, <1>5 DEF IInv, HeldIsGood, Held
  <2> QED BY <2>1, <2>2 DEF HeldIsGood, Held
<1> QED BY <1>7, <1>8 DEF IInv, Busy, Greeted, Return

LEMMA InvGreetingFails == ASSUME IInv, GreetingFails PROVE IInv'
<1>1. CASE \E st \in {-2, -3} : Return("rconnect", st) /\ UNCHANGED fds
  BY <1>1, InvReturn DEF GreetingFails
<1>2. CASE fds' = [fds EXCEPT ![sock].in = "nothing"] /\ Return("rconnect", -1)
  <2>1. sock \in Fds /\ fds[sock] \in Sock
    BY DEF IInv, TypeOK, Busy, GreetingFails
  <2> DEFINE new == [fds[sock] EXCEPT !.in = "nothing"]
  <2>2. new \in Sock
    BY <2>1 DEF Sock
  <2>3. fds' = [fds EXCEPT ![sock] = new] /\ var' = var
    BY <1>2, <2>1 DEF IInv, TypeOK, GreetingFails
  <2>4. \A s \in Slots : var[s] # sock
    BY DEF IInv, Busy, GreetingFails
  <2>5. HeldIsGood' /\ fds' \in [Fds -> Sock \cup {Free}]
    BY <2>1, <2>2, <2>3, <2>4, HeldKept
  <2>6. TypeOK'
    BY <1>2, <2>1, <2>5, ReturnTyped DEF IInv, TypeOK, GreetingFails, Return
  <2> QED BY <1>2, <2>5, <2>6 DEF IInv, Busy, Return
<1> QED BY <1>1, <1>2 DEF GreetingFails

-----------------------------------------------------------------------------
\* A connection of which the other side changes what is owed, what has
\* arrived or whether it has ended: a socket that is held gets no greeting.
LEMMA PeerKept ==
  ASSUME IInv, NEW d \in Fds, fds[d] \in Sock, NEW new \in Sock,
         new.kind = fds[d].kind, new.greeted = fds[d].greeted, new.timed = fds[d].timed,
         new.in = fds[d].in \/ new.in # "hello" \/ ~fds[d].greeted,
         fds' = [fds EXCEPT ![d] = new],
         UNCHANGED <<slot, asked, sock, var, last, ops>>,
         pc' = pc \/ (pc = "shutSend" /\ pc' = "shutRead"),
         hosts' \in [Hosts -> Listeners \cup {"down"}]
  PROVE  IInv'
<1>1. /\ fds' \in [Fds -> Sock \cup {Free}] /\ fds'[d] = new
      /\ \A e \in Fds : e # d => fds'[e] = fds[e]
  BY DEF IInv, TypeOK
<1>2. fds'[d] # Free /\ fds[d] # Free
  BY <1>1, FreeAssumption
<1>3. TypeOK'
  BY <1>1 DEF IInv, TypeOK
<1>4. HeldIsGood'
  <2>1. ASSUME NEW s \in Slots, Held(s)'
        PROVE  /\ fds'[var[s]] # Free
               /\ fds'[var[s]].kind = "rserve" /\ fds'[var[s]].greeted
               /\ fds'[var[s]].timed = RcvTimeout /\ fds'[var[s]].in # "hello"
    <3>1. Held(s) /\ var[s] \in Fds
      BY <2>1 DEF IInv, TypeOK, Held
    <3>2. /\ fds[var[s]] # Free
          /\ fds[var[s]].kind = "rserve" /\ fds[var[s]].greeted
          /\ fds[var[s]].timed = RcvTimeout /\ fds[var[s]].in # "hello"
      BY <3>1 DEF IInv, HeldIsGood
    <3>3. CASE var[s] = d
      BY <1>1, <1>2, <3>2, <3>3
    <3>4. CASE var[s] # d
      BY <1>1, <3>1, <3>2, <3>4
    <3> QED BY <3>3, <3>4
  <2> QED BY <2>1 DEF IInv, HeldIsGood, Held
<1>5. Busy'
  <2>1. ASSUME pc \in {"connect", "setopts", "greeting"}
        PROVE  sock \in Fds /\ fds[sock] # Free /\ ~fds[sock].greeted /\ \A s \in Slots : var[s] # sock
    BY <2>1 DEF IInv, TypeOK, Busy
  <2>2. ASSUME pc \in {"connect", "setopts", "greeting"}
        PROVE  fds'[sock] # Free /\ ~fds'[sock].greeted /\ fds'[sock].timed = fds[sock].timed
    BY <1>1, <1>2, <2>1, <2>2
  <2> QED BY <2>1, <2>2 DEF IInv, Busy
<1> QED BY <1>3, <1>4, <1>5 DEF IInv

\* The socket of rshutdown is the caller's until it is closed.
LEMMA InvShut == ASSUME IInv, ShutSend \/ ShutRead PROVE IInv'
<1>1. sock \in Fds /\ fds[sock] \in Sock /\ slot \in Slots /\ var[slot] = sock
  BY ConnAssumption DEF IInv, TypeOK, Busy, HeldIsGood, Held, ShutSend, ShutRead
<1>2. CASE ShutSend
  <2> DEFINE new == [fds[sock] EXCEPT !.due = TRUE]
  <2>1. /\ new \in Sock /\ new.kind = fds[sock].kind /\ new.greeted = fds[sock].greeted
        /\ new.timed = fds[sock].timed /\ new.in = fds[sock].in
    BY <1>1 DEF Sock
  <2>2. fds' = [fds EXCEPT ![sock] = new]
    BY <1>1, <1>2 DEF ShutSend, IInv, TypeOK
  <2>3. hosts' \in [Hosts -> Listeners \cup {"down"}]
    BY <1>2 DEF ShutSend, IInv, TypeOK
  <2> HIDE DEF new
  <2> QED BY <1>1, <1>2, <2>1, <2>2, <2>3, PeerKept DEF ShutSend
<1>3. CASE ShutRead
  <2>1. /\ fds' \in [Fds -> Sock \cup {Free}]
        /\ \A e \in Fds : e # sock => fds'[e] = fds[e]
    BY <1>1, <1>3 DEF ShutRead, Release, IInv, TypeOK
  <2>2. /\ var' \in [Slots -> Fds \cup {NoSock}] /\ var'[slot] = NoSock
        /\ \A s \in Slots : s # slot => var'[s] = var[s]
    BY <1>1, <1>3 DEF ShutRead, IInv, TypeOK
  <2>3. TypeOK'
    BY <1>1, <1>3, <2>1, <2>2, ReturnTyped DEF ShutRead, IInv, TypeOK, Return
  <2>4. \A s \in Slots : s # slot /\ var[s] # NoSock => var[s] \in Fds /\ var[s] # sock
    BY <1>1 DEF IInv, TypeOK, HeldIsGood, Held
  <2>5. HeldIsGood'
    BY <2>1, <2>2, <2>4 DEF IInv, HeldIsGood, Held
  <2> QED BY <1>3, <2>3, <2>5 DEF IInv, Busy, ShutRead, Return
<1> QED BY <1>2, <1>3

LEMMA InvFails ==
  ASSUME IInv, SocketFails \/ ConnectFails \/ SetOptsFails \/ ShutSendFails \/ ShutReadFails
  PROVE  IInv'
<1>1. \E op \in {"rconnect", "rshutdown"}, st \in {0, -1, -2, -3} : Return(op, st)
  BY DEF SocketFails, ConnectFails, SetOptsFails, ShutSendFails, ShutReadFails
<1>2. UNCHANGED <<slot, asked, var, ops, fds, hosts>>
  BY DEF SocketFails, ConnectFails, SetOptsFails, ShutSendFails, ShutReadFails
<1> QED BY <1>1, <1>2, InvReturn

LEMMA InvWorld == ASSUME IInv, World PROVE IInv'
<1>1. ASSUME NEW d \in Fds, Hello(d) \/ AnswerShutdown(d) \/ PeerCloses(d) PROVE IInv'
  <2>1. fds[d] \in Sock /\ fds[d] # Free
    BY <1>1 DEF IInv, TypeOK, Hello, AnswerShutdown, PeerCloses, InUse
  <2>2. PICK new : /\ Peer(d, new)
                   /\ \/ new = [fds[d] EXCEPT !.in = "hello"] /\ ~fds[d].greeted
                      \/ new = [fds[d] EXCEPT !.due = FALSE, !.in = "ok", !.fin = TRUE]
                      \/ new = [fds[d] EXCEPT !.due = FALSE, !.in = "err"]
                      \/ new = [fds[d] EXCEPT !.fin = TRUE]
    BY <1>1 DEF Hello, AnswerShutdown, PeerCloses
  <2>3. /\ new \in Sock /\ new.kind = fds[d].kind /\ new.greeted = fds[d].greeted
        /\ new.timed = fds[d].timed
        /\ new.in = fds[d].in \/ new.in # "hello" \/ ~fds[d].greeted
    BY <2>1, <2>2 DEF Sock
  <2>4. hosts' \in [Hosts -> Listeners \cup {"down"}]
    BY <1>1 DEF Hello, AnswerShutdown, PeerCloses, IInv, TypeOK
  <2> QED BY <2>1, <2>2, <2>3, <2>4, PeerKept DEF Peer
<1>2. ASSUME NEW h \in Hosts, Restart(h) PROVE IInv'
  <2>1. hosts' \in [Hosts -> Listeners \cup {"down"}]
    BY <1>2 DEF IInv, TypeOK, Restart
  <2> QED BY <1>2, <2>1 DEF IInv, TypeOK, Busy, HeldIsGood, Held, Restart
<1> QED BY <1>1, <1>2 DEF World

LEMMA InvStep == IInv /\ [Next]_vars => IInv'
<1> SUFFICES ASSUME IInv, [Next]_vars PROVE IInv'
  OBVIOUS
<1>1. CASE Call
  BY <1>1, InvCall
<1>2. CASE Step
  BY <1>2, InvRconnect, InvGreeted, InvGreetingFails, InvShut, InvFails DEF Step
<1>3. CASE World
  BY <1>3, InvWorld
<1>4. CASE UNCHANGED vars
  BY <1>4 DEF vars, IInv, TypeOK, Busy, HeldIsGood, Held
<1> QED BY <1>1, <1>2, <1>3, <1>4 DEF Next, Finished

LEMMA Invariant == Spec => []IInv
<1> QED BY InvInit, InvStep, PTL DEF Spec

-----------------------------------------------------------------------------
\* The states of rconnect, close_conn and rshutdown are of their types: a
\* call inside rconnect past socket() or inside rshutdown has a socket.
THEOREM ConnTypes == Spec => []TypeOK
<1>1. IInv => TypeOK
  BY DEF IInv
<1> QED BY <1>1, Invariant, PTL

\* Whatever the number of descriptors, variables and hosts, and whichever
\* attempts fail and sockets close in between: a socket that rconnect handed
\* out stays open, greeted, with its timeout, and in one variable.
THEOREM SocketsStayGood == Spec => []HeldIsGood
<1>1. IInv => HeldIsGood
  BY DEF IInv
<1> QED BY <1>1, Invariant, PTL
-----------------------------------------------------------------------------
(* The refinement of Sockets.                                               *)

Opening == {"connect", "setopts", "greeting"}

\* The variables of Sockets.
HeldHosts == [s \in Slots |-> IF Held(s) THEN fds[var[s]].host ELSE None]
Spare     == Cardinality(FreeFds) + (IF pc \in Opening THEN 1 ELSE 0)

\* Past connect() a socket has a host, the one asked for if it was an address.
Where ==
  /\ \A s \in Slots : Held(s) => fds[var[s]].host \in Hosts
  /\ pc \in {"setopts", "greeting"} =>
       /\ fds[sock].host \in Hosts
       /\ asked \in Hosts => fds[sock].host = asked
  /\ ConnectsWhereAsked

\* What a step looks like to Sockets.
Same  == HeldHosts' = HeldHosts /\ Spare' = Spare
Lost  == HeldHosts' = HeldHosts /\ Spare > 0 /\ Spare' = Spare - 1
Taken == /\ Spare > 0 /\ Spare' = Spare - 1
         /\ \E s \in Slots, h \in Hosts : HeldHosts' = [HeldHosts EXCEPT ![s] = h]
Given == /\ Spare' = Spare + 1
         /\ \E s \in Slots : HeldHosts[s] # None /\ HeldHosts' = [HeldHosts EXCEPT ![s] = None]
Kept  == Where' /\ (Same \/ Lost \/ Taken \/ Given)

-----------------------------------------------------------------------------
(* Counting descriptors.                                                     *)

LEMMA FreeCount == FreeFds \subseteq Fds /\ IsFiniteSet(FreeFds) /\ Cardinality(FreeFds) \in Nat
<1>1. FreeFds \subseteq Fds
  BY DEF FreeFds
<1>2. IsFiniteSet(FreeFds)
  BY <1>1, LimitAssumption, FS_Subset
<1> QED BY <1>1, <1>2, FS_CardinalityType

LEMMA FreeOneLess ==
  ASSUME NEW d \in FreeFds, FreeFds' = FreeFds \ {d}
  PROVE  Cardinality(FreeFds') = Cardinality(FreeFds) - 1
BY FreeCount, FS_RemoveElement

LEMMA FreeOneMore ==
  ASSUME NEW d, d \notin FreeFds, FreeFds' = FreeFds \cup {d}
  PROVE  Cardinality(FreeFds') = Cardinality(FreeFds) + 1
BY FreeCount, FS_AddElement

\* A connection changes: it stays in use, and what is held is on the same host.
LEMMA EditKeeps ==
  ASSUME IInv, NEW d \in Fds, NEW new, fds' = [fds EXCEPT ![d] = new], var' = var,
         fds[d] # Free, new # Free,
         new.host = fds[d].host \/ \A s \in Slots : var[s] # d
  PROVE  /\ FreeFds' = FreeFds /\ HeldHosts' = HeldHosts /\ fds'[d] = new
         /\ \A s \in Slots : Held(s) => fds'[var[s]].host = fds[var[s]].host
<1>1. fds'[d] = new /\ \A e \in Fds : e # d => fds'[e] = fds[e]
  BY DEF IInv, TypeOK
<1>2. FreeFds' = FreeFds
  BY <1>1 DEF FreeFds
<1>3. ASSUME NEW s \in Slots, Held(s) PROVE fds'[var[s]].host = fds[var[s]].host
  <2>1. var[s] \in Fds
    BY <1>3 DEF Held, IInv, TypeOK
  <2> QED BY <1>1, <2>1
<1>4. HeldHosts' = HeldHosts
  BY <1>3 DEF HeldHosts, Held
<1> QED BY <1>1, <1>2, <1>3, <1>4

LEMMA StillKeeps ==
  ASSUME UNCHANGED <<fds, var>>
  PROVE  FreeFds' = FreeFds /\ HeldHosts' = HeldHosts
BY DEF FreeFds, HeldHosts, Held

-----------------------------------------------------------------------------
(* The calls.                                                                *)

\* close_conn and the end of rshutdown give back the descriptor of a variable.
LEMMA ReleaseGives ==
  ASSUME IInv, Where, NEW s \in Slots, Held(s), Release(var[s]),
         var' = [var EXCEPT ![s] = NoSock], pc \notin Opening, pc' \notin Opening
  PROVE  /\ Given
         /\ \A t \in Slots : Held(t)' => fds'[var'[t]].host \in Hosts
<1>1. var[s] \in Fds /\ fds[var[s]] # Free
  BY DEF IInv, TypeOK, HeldIsGood, Held
<1>2. /\ fds'[var[s]] = Free /\ \A e \in Fds : e # var[s] => fds'[e] = fds[e]
      /\ var'[s] = NoSock /\ \A t \in Slots : t # s => var'[t] = var[t]
  BY <1>1 DEF IInv, TypeOK, Release
<1>3. FreeFds' = FreeFds \cup {var[s]} /\ var[s] \notin FreeFds
  BY <1>1, <1>2 DEF FreeFds
<1>4. ASSUME NEW t \in Slots, t # s, Held(t)
      PROVE  var[t] \in Fds /\ fds'[var[t]] = fds[var[t]]
  <2>1. var[t] \in Fds /\ var[t] # var[s]
    BY <1>4 DEF IInv, TypeOK, HeldIsGood, Held
  <2> QED BY <1>2, <2>1
<1>5. HeldHosts' = [HeldHosts EXCEPT ![s] = None]
  <2> DEFINE new(t) == IF Held(t)' THEN fds'[var'[t]].host ELSE None
  <2>1. HeldHosts' = [t \in Slots |-> new(t)]
    BY DEF HeldHosts, Held
  <2>2. new(s) = None
    BY <1>2 DEF Held
  <2>3. \A t \in Slots : t # s => new(t) = HeldHosts[t]
    BY <1>2, <1>4 DEF HeldHosts, Held
  <2> HIDE DEF new
  <2>4. DOMAIN HeldHosts = Slots /\ HeldHosts = [t \in Slots |-> HeldHosts[t]]
    BY DEF HeldHosts
  <2> QED BY <2>1, <2>2, <2>3, <2>4
<1>6. HeldHosts[s] # None
  BY LimitAssumption DEF HeldHosts, Where
<1>7. Spare' = Spare + 1
  <2>1. Cardinality(FreeFds') = Cardinality(FreeFds) + 1 /\ Cardinality(FreeFds) \in Nat
    BY <1>3, FreeOneMore, FreeCount
  <2> QED BY <2>1 DEF Spare
<1>8. \A t \in Slots : Held(t)' => fds'[var'[t]].host \in Hosts
  BY <1>2, <1>4 DEF Where, Held
<1> QED BY <1>5, <1>6, <1>7, <1>8 DEF Given

LEMMA KeptCall == ASSUME IInv, Where, Call PROVE Kept
<1>1. ASSUME NEW s \in Slots, NEW a \in Args, Rconnect(s, a) PROVE Kept
  <2>1. UNCHANGED <<fds, var>> /\ pc = "app" /\ pc' = "socket"
    BY <1>1 DEF Rconnect
  <2>2. Same
    BY <2>1, StillKeeps DEF Same, Spare, Opening
  <2>3. Where'
    BY <2>1 DEF Where, Held, ConnectsWhereAsked
  <2> QED BY <2>2, <2>3 DEF Kept
<1>2. ASSUME NEW s \in Slots, CloseConn(s) PROVE Kept
  <2>1. /\ Held(s) /\ Release(var[s]) /\ var' = [var EXCEPT ![s] = NoSock]
        /\ pc = "app" /\ pc' = "app" /\ last'.op = "close_conn"
    BY <1>2 DEF CloseConn, Held
  <2>2. Given /\ \A t \in Slots : Held(t)' => fds'[var'[t]].host \in Hosts
    BY <2>1, ReleaseGives DEF Opening
  <2> QED BY <2>1, <2>2 DEF Kept, Where, ConnectsWhereAsked, Held
<1>3. ASSUME NEW s \in Slots, Rshutdown(s) PROVE Kept
  <2>1. UNCHANGED <<fds, var>> /\ pc = "app" /\ pc' = "shutSend"
    BY <1>3 DEF Rshutdown
  <2>2. Same
    BY <2>1, StillKeeps DEF Same, Spare, Opening
  <2>3. Where'
    BY <2>1 DEF Where, Held, ConnectsWhereAsked
  <2> QED BY <2>2, <2>3 DEF Kept
<1> QED BY <1>1, <1>2, <1>3 DEF Call

LEMMA KeptSocket == ASSUME IInv, Where, Socket PROVE Kept
<1>1. /\ sock' \in FreeFds /\ fds' = [fds EXCEPT ![sock'] = NewSock] /\ var' = var
      /\ pc = "socket" /\ pc' = "connect"
  BY DEF Socket
<1>2. sock' \in Fds /\ fds[sock'] = Free
  BY <1>1 DEF FreeFds
<1>3. /\ fds'[sock'] = NewSock /\ \A e \in Fds : e # sock' => fds'[e] = fds[e]
  BY <1>1, <1>2 DEF IInv, TypeOK
<1>4. FreeFds' = FreeFds \ {sock'}
  BY <1>2, <1>3, NewSockIsSock DEF FreeFds
<1>5. Spare' = Spare
  <2>1. Cardinality(FreeFds') = Cardinality(FreeFds) - 1 /\ Cardinality(FreeFds) \in Nat
    BY <1>1, <1>4, FreeOneLess, FreeCount
  <2> QED BY <1>1, <2>1 DEF Spare, Opening
<1>6. ASSUME NEW s \in Slots, Held(s) PROVE fds'[var[s]] = fds[var[s]]
  BY <1>2, <1>3, <1>6 DEF IInv, TypeOK, HeldIsGood, Held
<1>7. HeldHosts' = HeldHosts
  BY <1>1, <1>6 DEF HeldHosts, Held
<1>8. Where'
  BY <1>1, <1>6 DEF Where, Held, ConnectsWhereAsked
<1> QED BY <1>5, <1>7, <1>8 DEF Kept, Same

\* connect(), the options and the sending of a shutdown change the local socket.
LEMMA KeptEdit == ASSUME IInv, Where, Connect \/ SetOpts \/ ShutSend PROVE Kept
<1>1. sock \in Fds /\ fds[sock] \in Sock /\ fds[sock] # Free /\ fds' \in [Fds -> Sock \cup {Free}]
  <2>1. IInv'
    BY InvRconnect, InvShut
  <2> QED BY <2>1, FreeAssumption DEF IInv, TypeOK, Busy, HeldIsGood, Held, Connect, SetOpts, ShutSend
<1>2. PICK new : /\ fds' = [fds EXCEPT ![sock] = new]
                 /\ \/ pc = "connect" /\ new = [fds[sock] EXCEPT !.host = Target, !.kind = hosts[Target]]
                    \/ pc = "setopts" /\ new = [fds[sock] EXCEPT !.timed = RcvTimeout]
                    \/ pc = "shutSend" /\ new = [fds[sock] EXCEPT !.due = TRUE]
  <2>1. CASE Connect
    <3>1. pc = "connect" /\ fds' = [fds EXCEPT ![sock].host = Target, ![sock].kind = hosts[Target]]
      BY <2>1 DEF Connect
    <3>2. fds \in [Fds -> Sock \cup {Free}]
      BY DEF IInv, TypeOK
    <3>3. fds' = [fds EXCEPT ![sock] = [fds[sock] EXCEPT !.host = Target, !.kind = hosts[Target]]]
      BY <1>1, <3>1, <3>2
    <3> QED BY <3>1, <3>3, Zenon
  <2>2. CASE SetOpts
    BY <1>1, <2>2 DEF SetOpts, IInv, TypeOK
  <2>3. CASE ShutSend
    BY <1>1, <2>3 DEF ShutSend, IInv, TypeOK
  <2> QED BY <2>1, <2>2, <2>3, Zenon
<1>3. /\ UNCHANGED <<sock, var, last, asked>>
      /\ \/ pc = "connect" /\ pc' = "setopts"
         \/ pc = "setopts" /\ pc' = "greeting"
         \/ pc = "shutSend" /\ pc' = "shutRead"
  BY DEF Connect, SetOpts, ShutSend
<1>4. new # Free
  <2>1. fds'[sock] = new
    BY <1>1, <1>2 DEF IInv, TypeOK
  <2>2. IInv'
    BY InvRconnect, InvShut
  <2>3. CASE pc' \in {"setopts", "greeting"}
    BY <1>3, <2>1, <2>2, <2>3 DEF IInv, Busy
  <2>4. CASE pc' = "shutRead"
    <3>1. slot' \in Slots /\ var'[slot'] = sock /\ sock # NoSock
      BY <1>1, <1>3, <2>2, <2>4, ConnAssumption DEF IInv, TypeOK, Busy
    <3> QED BY <2>1, <2>2, <3>1 DEF IInv, HeldIsGood, Held
  <2> QED BY <1>3, <2>3, <2>4
<1>5. new.host = (IF pc = "connect" THEN Target ELSE fds[sock].host)
  BY <1>1, <1>2 DEF Sock
<1>6. pc = "connect" => \A s \in Slots : var[s] # sock
  BY DEF IInv, Busy
<1>7. /\ FreeFds' = FreeFds /\ HeldHosts' = HeldHosts /\ fds'[sock] = new
      /\ \A s \in Slots : Held(s) => fds'[var[s]].host = fds[var[s]].host
  BY <1>1, <1>2, <1>3, <1>4, <1>5, <1>6, EditKeeps
<1>8. pc = "connect" => Target \in Hosts /\ (asked \in Hosts => Target = asked)
  BY ConnAssumption DEF IInv, TypeOK, Busy, Target, Args
<1>9. Same
  BY <1>3, <1>7 DEF Same, Spare, Opening
<1>10. Where'
  BY <1>3, <1>5, <1>7, <1>8 DEF Where, Held, ConnectsWhereAsked
<1> QED BY <1>9, <1>10 DEF Kept

\* A return that is no success leaves the variables alone; rconnect's loses
\* the descriptor it has taken.
LEMMA KeptFail ==
  ASSUME IInv, Where, NEW op \in {"rconnect", "rshutdown"}, NEW st \in {-1, -2, -3}, Return(op, st),
         FreeFds' = FreeFds, HeldHosts' = HeldHosts, var' = var,
         \A s \in Slots : Held(s) => fds'[var[s]].host = fds[var[s]].host
  PROVE  Kept
<1>1. pc' = "app" /\ last'.status = st
  BY DEF Return
<1>2. Where'
  BY <1>1 DEF Where, Held, ConnectsWhereAsked
<1>3. ASSUME pc \in Opening PROVE Lost
  BY <1>1, <1>3, FreeCount DEF Lost, Spare, Opening
<1>4. ASSUME pc \notin Opening PROVE Same
  BY <1>1, <1>4 DEF Same, Spare, Opening
<1> QED BY <1>2, <1>3, <1>4 DEF Kept

LEMMA KeptFails ==
  ASSUME IInv, Where, \/ SocketFails \/ ConnectFails \/ SetOptsFails \/ GreetingFails
                      \/ ShutSendFails \/ ShutReadFails
  PROVE  Kept
<1>1. var' = var
  BY DEF SocketFails, ConnectFails, SetOptsFails, GreetingFails, ShutSendFails, ShutReadFails
<1>2. PICK op \in {"rconnect", "rshutdown"}, st \in {-1, -2, -3} : Return(op, st)
  BY DEF SocketFails, ConnectFails, SetOptsFails, GreetingFails, ShutSendFails, ShutReadFails
<1>3. CASE fds' = fds
  BY <1>1, <1>2, <1>3, StillKeeps, KeptFail
<1>4. CASE GreetingFails /\ fds' = [fds EXCEPT ![sock].in = "nothing"]
  <2>1. sock \in Fds /\ fds[sock] \in Sock /\ fds[sock] # Free
    BY <1>4 DEF IInv, TypeOK, Busy, GreetingFails
  <2> DEFINE new == [fds[sock] EXCEPT !.in = "nothing"]
  <2>2. new.host = fds[sock].host /\ new \in Sock /\ new # Free
    BY <2>1, FreeAssumption DEF Sock
  <2>3. fds' = [fds EXCEPT ![sock] = new]
    BY <1>4, <2>1 DEF IInv, TypeOK
  <2> HIDE DEF new
  <2> QED BY <1>1, <1>2, <2>1, <2>2, <2>3, EditKeeps, KeptFail
<1> QED BY <1>3, <1>4 DEF SocketFails, ConnectFails, SetOptsFails, GreetingFails,
                          ShutSendFails, ShutReadFails

\* The greeting makes the socket the application's.
LEMMA KeptGreeted == ASSUME IInv, Where, Greeted PROVE Kept
<1>1. sock \in Fds /\ fds[sock] \in Sock /\ fds[sock] # Free /\ slot \in Slots /\ sock # NoSock
  BY ConnAssumption DEF IInv, TypeOK, Busy, Greeted
<1> DEFINE new == [fds[sock] EXCEPT !.in = "nothing", !.greeted = TRUE]
<1>2. new.host = fds[sock].host /\ new \in Sock /\ new # Free
  BY <1>1, FreeAssumption DEF Sock
<1>3. fds' = [fds EXCEPT ![sock] = new]
  BY <1>1 DEF Greeted, IInv, TypeOK
<1> HIDE DEF new
<1>4. /\ fds'[sock] = new /\ \A e \in Fds : e # sock => fds'[e] = fds[e]
  BY <1>1, <1>3 DEF IInv, TypeOK
<1>5. FreeFds' = FreeFds
  BY <1>1, <1>2, <1>4 DEF FreeFds
<1>6. /\ var'[slot] = sock /\ \A s \in Slots : s # slot => var'[s] = var[s]
      /\ pc = "greeting" /\ pc' = "app" /\ slot' = slot /\ asked' = asked
  BY <1>1 DEF Greeted, IInv, TypeOK, Return
<1>7. Spare > 0 /\ Spare' = Spare - 1
  BY <1>5, <1>6, FreeCount DEF Spare, Opening
<1>8. ASSUME NEW s \in Slots, s # slot, Held(s) PROVE fds'[var[s]] = fds[var[s]]
  BY <1>4, <1>6, <1>8 DEF IInv, TypeOK, Busy, Held
<1>9. HeldHosts' = [HeldHosts EXCEPT ![slot] = fds[sock].host]
  <2> DEFINE now(t) == IF Held(t)' THEN fds'[var'[t]].host ELSE None
  <2>1. HeldHosts' = [t \in Slots |-> now(t)]
    BY DEF HeldHosts, Held
  <2>2. now(slot) = fds[sock].host
    BY <1>1, <1>2, <1>4, <1>6 DEF Held
  <2>3. \A t \in Slots : t # slot => now(t) = HeldHosts[t]
    BY <1>6, <1>8 DEF HeldHosts, Held
  <2> HIDE DEF now
  <2>4. DOMAIN HeldHosts = Slots /\ HeldHosts = [t \in Slots |-> HeldHosts[t]]
    BY DEF HeldHosts
  <2> QED BY <2>1, <2>2, <2>3, <2>4
<1>10. fds[sock].host \in Hosts /\ (asked \in Hosts => fds[sock].host = asked)
  BY <1>6 DEF Where
<1>11. Where'
  BY <1>1, <1>2, <1>4, <1>6, <1>8, <1>10 DEF Where, Held, ConnectsWhereAsked
<1>12. Taken
  BY <1>1, <1>7, <1>9, <1>10 DEF Taken
<1> QED BY <1>11, <1>12 DEF Kept

LEMMA KeptShutRead == ASSUME IInv, Where, ShutRead PROVE Kept
<1>1. /\ slot \in Slots /\ var[slot] = sock /\ Held(slot)
  BY ConnAssumption DEF IInv, TypeOK, Busy, ShutRead, Held
<1>2. /\ Release(var[slot]) /\ var' = [var EXCEPT ![slot] = NoSock]
      /\ pc = "shutRead" /\ pc' = "app" /\ last'.op = "rshutdown"
  BY <1>1 DEF ShutRead, Return
<1>3. Given /\ \A t \in Slots : Held(t)' => fds'[var'[t]].host \in Hosts
  BY <1>1, <1>2, ReleaseGives DEF Opening
<1> QED BY <1>2, <1>3 DEF Kept, Where, ConnectsWhereAsked, Held

-----------------------------------------------------------------------------
(* The hosts, which leave a connection on its host and in use.               *)

LEMMA KeptWorld == ASSUME IInv, Where, World PROVE Kept
<1>1. ASSUME NEW d \in Fds, Hello(d) \/ AnswerShutdown(d) \/ PeerCloses(d) PROVE Kept
  <2>1. fds[d] \in Sock /\ fds[d] # Free
    BY <1>1 DEF IInv, TypeOK, Hello, AnswerShutdown, PeerCloses, InUse
  <2>2. PICK new : /\ Peer(d, new)
                   /\ \/ new = [fds[d] EXCEPT !.in = "hello"]
                      \/ new = [fds[d] EXCEPT !.due = FALSE, !.in = "ok", !.fin = TRUE]
                      \/ new = [fds[d] EXCEPT !.due = FALSE, !.in = "err"]
                      \/ new = [fds[d] EXCEPT !.fin = TRUE]
    BY <1>1 DEF Hello, AnswerShutdown, PeerCloses
  <2>3. new \in Sock /\ new # Free /\ new.host = fds[d].host
    <3>1. ASSUME NEW c \in Sock
          PROVE  /\ [c EXCEPT !.in = "hello"] \in Sock
                 /\ [c EXCEPT !.due = FALSE, !.in = "ok", !.fin = TRUE] \in Sock
                 /\ [c EXCEPT !.due = FALSE, !.in = "err"] \in Sock
                 /\ [c EXCEPT !.fin = TRUE] \in Sock
      BY DEF Sock
    <3>2. new \in Sock
      BY <2>1, <2>2, <3>1
    <3>3. new.host = fds[d].host
      BY <2>1, <2>2 DEF Sock
    <3> QED BY <3>2, <3>3, FreeAssumption
  <2>4. UNCHANGED <<pc, slot, asked, sock, var, last>> /\ fds' = [fds EXCEPT ![d] = new]
    BY <2>2 DEF Peer
  <2>5. /\ FreeFds' = FreeFds /\ HeldHosts' = HeldHosts /\ fds'[d] = new
        /\ \A s \in Slots : Held(s) => fds'[var[s]].host = fds[var[s]].host
    BY <2>1, <2>3, <2>4, EditKeeps
  <2>6. sock \in Fds => fds'[sock].host = fds[sock].host
    BY <2>3, <2>4 DEF IInv, TypeOK
  <2>7. pc \in {"setopts", "greeting"} => sock \in Fds
    BY DEF IInv, TypeOK
  <2>8. pc = "app" /\ last.op = "rconnect" /\ last.status = 0 /\ asked \in Hosts =>
          slot \in Slots /\ Held(slot) /\ fds[var[slot]].host = asked
    BY DEF Where, ConnectsWhereAsked, IInv, TypeOK
  <2>9. Where'
    BY <2>4, <2>5, <2>6, <2>7, <2>8 DEF Where, Held, ConnectsWhereAsked
  <2>10. Same
    BY <2>4, <2>5 DEF Same, Spare
  <2> QED BY <2>9, <2>10 DEF Kept
<1>2. ASSUME NEW h \in Hosts, Restart(h) PROVE Kept
  <2>1. UNCHANGED <<pc, slot, asked, sock, var, last, fds>>
    BY <1>2 DEF Restart
  <2>2. Same
    BY <2>1, StillKeeps DEF Same, Spare
  <2> QED BY <2>1, <2>2 DEF Kept, Where, Held, ConnectsWhereAsked
<1> QED BY <1>1, <1>2 DEF World

LEMMA WhereInit == Init => Where
BY DEF Init, Where, Held, ConnectsWhereAsked

LEMMA KeptStep == IInv /\ Where /\ [Next]_vars => Kept
<1> SUFFICES ASSUME IInv, Where, [Next]_vars PROVE Kept
  OBVIOUS
<1>1. CASE UNCHANGED vars
  <2>1. UNCHANGED <<pc, slot, asked, sock, var, last, fds>>
    BY <1>1 DEF vars
  <2>2. Same
    BY <2>1, StillKeeps DEF Same, Spare
  <2> QED BY <2>1, <2>2 DEF Kept, Where, Held, ConnectsWhereAsked
<1>2. CASE Step
  BY <1>2, KeptSocket, KeptEdit, KeptFails, KeptGreeted, KeptShutRead DEF Step
<1> QED BY <1>1, <1>2, KeptCall, KeptWorld DEF Next, Finished

LEMMA WhereStep == IInv /\ Where /\ [Next]_vars => Where'
BY KeptStep DEF Kept

LEMMA WhereInvariant == Spec => [](IInv /\ Where)
<1> QED BY Invariant, WhereInit, WhereStep, PTL DEF Spec

-----------------------------------------------------------------------------
\* An rconnect that returns 0 for an address inet_pton takes has connected to
\* that host, whatever fails, closes and restarts.
THEOREM ConnectsThere == Spec => []ConnectsWhereAsked
<1>1. Where => ConnectsWhereAsked
  BY DEF Where
<1> QED BY <1>1, WhereInvariant, PTL

LEMMA RefinesInit == Init => S!Init
<1> SUFFICES ASSUME Init PROVE S!Init
  OBVIOUS
<1>1. HeldHosts = [s \in Slots |-> None]
  BY DEF Init, HeldHosts, Held
<1>2. Spare \in Nat
  BY FreeCount DEF Init, Spare, Opening
<1> QED BY <1>1, <1>2 DEF S!Init, HeldHosts, Spare, Opening

LEMMA RefinesStep == Kept => [S!Next]_<<HeldHosts, Spare>>
<1>1. ASSUME Same PROVE UNCHANGED <<HeldHosts, Spare>>
  BY <1>1 DEF Same
<1>2. ASSUME Lost PROVE S!OpenFails
  BY <1>2 DEF Lost, S!OpenFails, HeldHosts, Spare, Opening
<1>3. ASSUME Taken PROVE \E s \in Slots, h \in Hosts : S!Open(s, h)
  BY <1>3 DEF Taken, S!Open, HeldHosts, Spare, Opening
<1>4. ASSUME Given PROVE \E s \in Slots : S!Close(s)
  BY <1>4 DEF Given, S!Close, HeldHosts, Spare, Opening
<1> QED BY <1>1, <1>2, <1>3, <1>4 DEF Kept, S!Next

\* Step for step, rconnect, close_conn and rshutdown do what Sockets allows:
\* a socket is opened or closed with its descriptor, one at a time, and a
\* failure, of rconnect only, loses one at most.
THEOREM SocketsRefined == Spec => ImplementsSockets
<1>1. UNCHANGED <<HeldHosts, Spare>> => UNCHANGED S!svars
  BY DEF S!svars, HeldHosts, Spare, Opening
<1>2. IInv /\ Where /\ [Next]_vars => [S!Next]_(S!svars)
  BY <1>1, KeptStep, RefinesStep
<1> QED BY <1>2, RefinesInit, WhereInvariant, PTL DEF Spec, ImplementsSockets, S!Spec
=============================================================================
