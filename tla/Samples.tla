------------------------------- MODULE Samples -------------------------------
(***************************************************************************)
(* The two pairs of programs in sample_client_socket: my_client and          *)
(* my_server ("bulk"), which send a message of n bytes to and fro niters     *)
(* times, and client and server ("chat"), which take turns with lines of     *)
(* one fixed size until the server says exit.  They set up their sockets in  *)
(* the same way, and rely on taking turns for everything else: none of them  *)
(* looks at how much a read of a word or of a line returned, and the loops   *)
(* that read the rest of a message ask for the whole message again.          *)
(***************************************************************************)
EXTENDS Integers, SequencesExt

CONSTANTS
  Word,      \* sizeof(int)
  Sizes,     \* n of my_client
  SzBuf,     \* n of my_server, the size of its buffer
  Iters,     \* niters
  Capacity,  \* bytes that the sockets hold in one direction
  Unknown    \* what a word may be whose bytes were not all read

\* A line of the chat counts as two bytes: the first tells "exit" from text.
LineLen == 2
Line(first) == <<first, "-">>

ASSUME SamplesAssumption ==
  /\ Word \in Nat \ {0} /\ Sizes \subseteq Nat \ {0} /\ SzBuf \in Nat
  /\ Iters \in Nat \ {0} /\ Capacity \in Nat \ {0} /\ Unknown \subseteq Int

VARIABLES
  pair, n,      \* which pair of programs runs; my_client's n
  c, s,         \* where client and server are
  up, down,     \* bytes on the way to the server and to the client
  cOut, sOut,   \* bytes a write() has not passed on yet
  want, got,    \* num_to_read and num_read, of each side
  cbuf, sbuf,   \* what the loops have read behind the word
  iters,        \* iterations my_client has left
  bad,          \* my_client has met an answer that is not all 2
  reset,        \* bytes have been sent to a process that has ended
  cut           \* a word or a line has not been read whole

vars == <<pair, n, c, s, up, down, cOut, sOut, want, got, cbuf, sbuf, iters, bad, reset, cut>>

Min2(i, j) == IF i < j THEN i ELSE j

\* my_client takes any n > 0: of a message shorter than a word the first bytes
\* of the word are sent (the word is written whole, into what malloc rounds up).
Message(b) == [j \in 1 .. n |-> IF j <= Word THEN "w" ELSE b]
Lines == {Line("exit"), Line("text")}

Init ==
  /\ pair \in {"bulk", "chat"} /\ n \in IF pair = "bulk" THEN Sizes ELSE {LineLen}
  /\ c = "socket" /\ s = "socket" /\ up = <<>> /\ down = <<>> /\ cOut = <<>> /\ sOut = <<>>
  /\ want = [c |-> 0, s |-> 0] /\ got = [c |-> 0, s |-> 0] /\ cbuf = <<>> /\ sbuf = <<>>
  /\ iters = Iters /\ bad = FALSE /\ reset = FALSE /\ cut = FALSE

-----------------------------------------------------------------------------
(* Setting up.  A call that fails ends the program.                          *)

SetUp == <<pair, n, up, down, sOut, want, got, cbuf, sbuf, iters, bad, reset, cut>>

AfterSetUp == [socket |-> "bind", bind |-> "listen", listen |-> "accept"]

ServerSetUp == /\ s \in DOMAIN AfterSetUp /\ s' \in {AfterSetUp[s], "ended"}
               /\ UNCHANGED <<c, cOut, SetUp>>

\* A client can connect as soon as the server listens; accept gives its
\* connection.
Accept == /\ s = "accept" /\ c \notin {"socket", "connect", "noConn"} /\ s' \in {"read", "ended"}
          /\ UNCHANGED <<c, cOut, SetUp>>

ClientSocket == /\ c = "socket" /\ c' \in {"connect", "noConn"}
                /\ UNCHANGED <<s, cOut, SetUp>>

\* my_client writes its message, client the line the user types.
NextOut == IF pair = "bulk" THEN {Message("1")} ELSE Lines

Connect == /\ c = "connect"
           /\ \/ s = "accept" /\ c' = "write" /\ cOut' \in NextOut
              \/ c' = "noConn" /\ UNCHANGED cOut
           /\ UNCHANGED <<s, SetUp>>

-----------------------------------------------------------------------------
(* The client.                                                               *)

\* Mutant: the client does not wait for the answer to its message.
ClientWritesOn ==
  /\ c = "write" /\ s # "ended" /\ iters > 0
  /\ \E k \in 1 .. Min2(Len(cOut), Capacity - Len(up)) :
       /\ up' = up \o SubSeq(cOut, 1, k)
       /\ cOut' = IF k = Len(cOut) THEN Message("1") ELSE SubSeq(cOut, k + 1, Len(cOut))
       /\ iters' = IF k = Len(cOut) THEN iters - 1 ELSE iters
  /\ UNCHANGED <<pair, n, c, s, down, sOut, want, got, cbuf, sbuf, bad, reset, cut>>

\* write() passes the bytes on as the sockets have room.
ClientWrites ==
  /\ c = "write" /\ s # "ended"
  /\ \E k \in 1 .. Min2(Len(cOut), Capacity - Len(up)) :
       /\ up' = up \o SubSeq(cOut, 1, k)
       /\ cOut' = SubSeq(cOut, k + 1, Len(cOut))
       /\ c' = IF k = Len(cOut) THEN "read" ELSE "write"
  /\ UNCHANGED <<pair, n, s, down, sOut, want, got, cbuf, sbuf, iters, bad, reset, cut>>

\* The server has ended: what is written is lost, or raises SIGPIPE when the
\* socket knows already, which it does after a first write in vain and may
\* before, if the server left bytes unread.
ClientWritesInVain ==
  /\ c = "write" /\ s = "ended"
  /\ c' \in IF reset THEN {"ended"} ELSE {"read", "ended"}
  /\ cOut' = <<>> /\ reset' = TRUE
  /\ UNCHANGED <<pair, n, s, up, down, sOut, want, got, cbuf, sbuf, iters, bad, cut>>

\* The end of the stream, for the client and for the server.
NothingMore == down = <<>> /\ s = "ended"
NoMore == up = <<>> /\ c = "ended"

\* client reads a line, or what there is of it: exit ends it, anything else
\* (and nothing) has the user type the next.
ClientReadsLine ==
  /\ pair = "chat" /\ c = "read"
  /\ \/ NothingMore /\ UNCHANGED <<down, cut>> /\ c' = "write" /\ cOut' \in Lines
     \/ \E k \in 1 .. Min2(LineLen, Len(down)) :
          /\ down' = SubSeq(down, k + 1, Len(down)) /\ cut' = (cut \/ k < LineLen)
          /\ IF Head(down) = "exit" THEN c' = "ended" /\ UNCHANGED cOut
             ELSE c' = "write" /\ cOut' \in Lines
  /\ UNCHANGED <<pair, n, s, up, sOut, want, got, cbuf, sbuf, iters, bad, reset>>

\* What a word is whose bytes have just been read: the message's, or anything
\* when some are missing or an earlier read has been cut short.
WordRead(whole) == IF whole /\ ~cut THEN {n} ELSE Unknown \cup {n}

\* my_client reads the word.  Nobody looks at what read() returns.
ClientReadsWord ==
  /\ pair = "bulk" /\ c = "read" /\ c' = "rest" /\ got' = [got EXCEPT !.c = Word] /\ cbuf' = <<>>
  /\ NothingMore \/ down # <<>>
  /\ \E k \in 0 .. Min2(Word, Len(down)) :
       /\ k = 0 => NothingMore
       /\ down' = SubSeq(down, k + 1, Len(down)) /\ cut' = (cut \/ k < Word)
       /\ \E m \in WordRead(k = Word) : want' = [want EXCEPT !.c = m]
  /\ UNCHANGED <<pair, n, s, up, cOut, sOut, sbuf, iters, bad, reset>>

RestWantedToo(side) == got[side] <= want[side]        \* mutant
RestWanted(side) == got[side] < want[side]

\* ... and the rest, asking for the whole length each time.  At the end of the
\* stream it stays in this loop for ever: read() returns 0, or -1, which
\* takes one off the number read.
ClientReadsRest ==
  /\ pair = "bulk" /\ c = "rest" /\ RestWanted("c")
  /\ \E k \in 1 .. Min2(want.c, Len(down)) :
       /\ down' = SubSeq(down, k + 1, Len(down))
       /\ cbuf' = cbuf \o SubSeq(down, 1, k)
       /\ got' = [got EXCEPT !.c = @ + k]
  /\ UNCHANGED <<pair, n, c, s, up, cOut, sOut, want, sbuf, iters, bad, reset, cut>>

ClientSpins == pair = "bulk" /\ c = "rest" /\ RestWanted("c") /\ NothingMore /\ UNCHANGED vars

\* The test of the answer, whose result main throws away, and the next
\* iteration.
ClientChecks ==
  /\ pair = "bulk" /\ c = "rest" /\ ~RestWanted("c")
  /\ bad' = (bad \/ \E j \in 1 .. Min2(want.c - Word, Len(cbuf)) : cbuf[j] # "2")
  /\ iters' = iters - 1
  /\ IF iters' = 0 THEN c' = "ended" /\ UNCHANGED cOut ELSE c' = "write" /\ cOut' = Message("1")
  /\ UNCHANGED <<pair, n, s, up, down, sOut, want, got, cbuf, sbuf, reset, cut>>

-----------------------------------------------------------------------------
(* The server.                                                               *)

\* The user types the answer, whatever was read.
ServerReadsLine ==
  /\ pair = "chat" /\ s = "read" /\ s' = "write" /\ sOut' \in Lines
  /\ \/ NoMore /\ UNCHANGED <<up, cut>>
     \/ \E k \in 1 .. Min2(LineLen, Len(up)) :
          up' = SubSeq(up, k + 1, Len(up)) /\ cut' = (cut \/ k < LineLen)
  /\ UNCHANGED <<pair, n, c, down, cOut, want, got, cbuf, sbuf, iters, bad, reset>>

\* A word out of range ends the server.
InRangeUnchecked(m) == m > 0                          \* mutant
InRange(m) == m > 0 /\ m <= SzBuf

TakeWord(m) == IF InRange(m)
               THEN s' = "rest" /\ want' = [want EXCEPT !.s = m] /\ got' = [got EXCEPT !.s = Word]
               ELSE s' = "ended" /\ UNCHANGED <<want, got>>

\* At the end of the stream the old word is still there.
ServerReadsWord ==
  /\ pair = "bulk" /\ s = "read" /\ sbuf' = <<>>
  /\ \/ /\ NoMore /\ UNCHANGED <<up, cut>>
        /\ \E m \in IF cut THEN Unknown \cup {n} ELSE {want.s} : TakeWord(m)
     \/ \E k \in 1 .. Min2(Word, Len(up)) :
          /\ up' = SubSeq(up, k + 1, Len(up)) /\ cut' = (cut \/ k < Word)
          /\ \E m \in WordRead(k = Word) : TakeWord(m)
  /\ UNCHANGED <<pair, n, c, down, cOut, sOut, cbuf, iters, bad, reset>>

\* Mutant: the end of the stream is not tested for.
ServerReadsRestOn ==
  /\ pair = "bulk" /\ s = "rest" /\ RestWanted("s")
  /\ \E k \in 1 .. Min2(want.s, Len(up)) :
       /\ up' = SubSeq(up, k + 1, Len(up))
       /\ sbuf' = sbuf \o SubSeq(up, 1, k)
       /\ got' = [got EXCEPT !.s = @ + k]
  /\ UNCHANGED <<pair, n, c, s, down, cOut, sOut, want, cbuf, iters, bad, reset, cut>>

ServerReadsRest ==
  /\ pair = "bulk" /\ s = "rest" /\ RestWanted("s")
  /\ \/ NoMore /\ s' = "ended" /\ UNCHANGED <<up, sbuf, got>>
     \/ \E k \in 1 .. Min2(want.s, Len(up)) :
          /\ up' = SubSeq(up, k + 1, Len(up)) /\ UNCHANGED s
          /\ sbuf' = sbuf \o SubSeq(up, 1, k)
          /\ got' = [got EXCEPT !.s = @ + k]
  /\ UNCHANGED <<pair, n, c, down, cOut, sOut, want, cbuf, iters, bad, reset, cut>>

EchoedBack(m) == [j \in 1 .. m |-> IF j <= Word THEN "w" ELSE "1"]      \* mutant
Echoed(m) == [j \in 1 .. m |-> IF j <= Word THEN "w" ELSE "2"]

\* Every byte must be 1, and goes back as 2.
ServerChecks ==
  /\ pair = "bulk" /\ s = "rest" /\ ~RestWanted("s")
  /\ IF \A j \in 1 .. Min2(want.s - Word, Len(sbuf)) : sbuf[j] = "1"
     THEN s' = "write" /\ sOut' = Echoed(want.s)
     ELSE s' = "ended" /\ UNCHANGED sOut
  /\ UNCHANGED <<pair, n, c, up, down, cOut, want, got, cbuf, sbuf, iters, bad, reset, cut>>

\* When all is written my_server reads the next message; so does server, after
\* anything but exit.
AfterWrite == IF pair = "chat" /\ Head(sOut) = "exit" THEN "ended" ELSE "read"

\* A line goes into the socket as one.
ServerWrites ==
  /\ s = "write" /\ c # "ended"
  /\ \E k \in 1 .. Min2(Len(sOut), Capacity - Len(down)) :
       /\ pair = "chat" => k = Len(sOut)
       /\ down' = down \o SubSeq(sOut, 1, k)
       /\ sOut' = SubSeq(sOut, k + 1, Len(sOut))
       /\ s' = IF k = Len(sOut) THEN AfterWrite ELSE "write"
  /\ UNCHANGED <<pair, n, c, up, cOut, want, got, cbuf, sbuf, iters, bad, reset, cut>>

ServerWritesInVain ==
  /\ s = "write" /\ c = "ended"
  /\ s' \in IF reset THEN {"ended"} ELSE {AfterWrite, "ended"}
  /\ sOut' = <<>> /\ reset' = TRUE
  /\ UNCHANGED <<pair, n, c, up, down, cOut, want, got, cbuf, sbuf, iters, bad, cut>>

-----------------------------------------------------------------------------
ClientStep == \/ ClientSocket \/ Connect \/ ClientWrites \/ ClientWritesInVain \/ ClientReadsLine
              \/ ClientReadsWord \/ ClientReadsRest \/ ClientChecks

ServerStep == \/ ServerSetUp \/ Accept \/ ServerReadsLine \/ ServerReadsWord \/ ServerReadsRest
              \/ ServerChecks \/ ServerWrites \/ ServerWritesInVain

\* Both are done, or one waits in accept for a client that is no more.
Finished == /\ c \in {"ended", "noConn"} /\ s \in {"ended", "accept"} /\ UNCHANGED vars

Next == ClientStep \/ ServerStep \/ ClientSpins \/ Finished

\* The programs run on by themselves, and the users of the chat type on.
FairSpec == Init /\ [][Next]_vars /\ WF_vars(ClientStep) /\ WF_vars(ServerStep)

-----------------------------------------------------------------------------
TypeOK ==
  /\ c \in {"socket", "connect", "noConn", "write", "read", "rest", "ended"}
  /\ s \in {"socket", "bind", "listen", "accept", "read", "rest", "write", "ended"}
  /\ {Len(up), Len(down)} \subseteq 0 .. Capacity
  /\ want.s \in 0 .. SzBuf /\ {want.c, got.c, got.s} \subseteq Int
  /\ iters \in 0 .. Iters /\ {bad, reset, cut} \subseteq BOOLEAN

\* Taking turns: as long as every word and line came whole, bytes are on the
\* way in one direction at most, and the loops, which ask for the whole length
\* again and again, never take more than the message ("[szbuf]").
InTurn ==
  ~cut => /\ up = <<>> \/ down = <<>>
          /\ pair = "bulk" => got.c <= n /\ got.s <= n

\* my_client's test of the answer never fails then.
AnswersRight == ~cut => ~bad

\* The bulk pair gets through its iterations, with messages larger than the
\* sockets hold: each side reads all before it writes.
Completes ==
  (pair = "bulk" /\ n <= SzBuf /\ s = "read") ~> (iters = 0 \/ cut)

\* One does not outlive the other, unless my_client was cut off in a word.
EndsTogether ==
  /\ (c = "ended" /\ s = "read") ~> (s = "ended")
  /\ (s = "ended" /\ c \in {"write", "read"}) ~> (c = "ended" \/ cut)
=============================================================================
