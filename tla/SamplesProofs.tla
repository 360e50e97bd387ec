---------------------------- MODULE SamplesProofs ----------------------------
(***************************************************************************)
(* Theorems about the sample programs, for messages, buffers and sockets of *)
(* any size and any number of iterations.                                   *)
(***************************************************************************)
EXTENDS Samples, SequenceTheorems, TLAPS

Bytes    == {"w", "1", "2", "exit", "text", "-"}
NotYet   == {"socket", "connect", "noConn"}
SettingUp == {"socket", "bind", "listen", "accept", "ended"}

\* The types, with what goes with each pair of programs and each place.
Types ==
  /\ pair \in {"bulk", "chat"} /\ n \in Nat \ {0}
  /\ pair = "chat" => n = LineLen /\ c # "rest" /\ s # "rest"
  /\ c \in NotYet \cup {"write", "read", "rest", "ended"}
  /\ s \in SettingUp \cup {"read", "rest", "write"}
  /\ up \in Seq(Bytes) /\ down \in Seq(Bytes) /\ cOut \in Seq(Bytes) /\ sOut \in Seq(Bytes)
  /\ Len(up) <= Capacity /\ Len(down) <= Capacity
  /\ want \in [c : Int, s : 0 .. SzBuf] /\ got \in [c : Nat, s : Nat]
  /\ s = "rest" => want.s > 0
  /\ cbuf \in Seq(Bytes)
  /\ iters \in 0 .. Iters /\ (c # "ended" => iters > 0)
  /\ bad \in BOOLEAN /\ reset \in BOOLEAN /\ cut \in BOOLEAN

\* Whose turn it is: where the n bytes of the message of the moment are.  The
\* client has it while it writes, and then the bytes are what it has still to
\* write, what is on the way up and what the server has read.
ClientsTurn ==
  /\ c = "write" =>
       /\ down = <<>> /\ cOut # <<>> /\ s \in {"accept", "read", "rest", "ended"}
       /\ s \in {"accept", "read"} => Len(up) + Len(cOut) = n
       /\ s = "rest" => want.s = n /\ got.s + Len(up) + Len(cOut) = n
  /\ c = "read" =>
       /\ s \in {"accept", "read", "rest", "write", "ended"}
       /\ s = "accept" => Len(up) = n /\ down = <<>>
       /\ s = "rest" => want.s = n /\ got.s + Len(up) = n /\ down = <<>>
ServersTurn ==
  /\ c = "read" =>
       /\ s = "read" => \/ Len(up) = n /\ down = <<>>
                        \/ up = <<>> /\ Len(down) = n
       /\ s = "write" => up = <<>> /\ Len(down) + Len(sOut) = n
       /\ s = "ended" => down = <<>> \/ (up = <<>> /\ Len(down) = n)
  /\ c = "rest" =>
       /\ want.c = n /\ up = <<>> /\ s \in {"read", "write", "ended"}
       /\ got.c + Len(down) + Len(sOut) = n
Nobodys ==
  /\ c \in NotYet => up = <<>> /\ down = <<>> /\ s \in SettingUp
  /\ c = "ended" => /\ down = <<>> /\ (up = <<>> \/ s = "ended")
                    /\ s \in {"read", "rest", "write", "ended"}
  /\ s = "write" <=> sOut # <<>>
Counted == pair = "bulk" => /\ got.c <= n /\ got.s <= n
                            /\ want.s > 0 => Word <= n    \* a whole word has come

Turn == ~cut => ClientsTurn /\ ServersTurn /\ Nobodys /\ Counted

\* Of an answer all is 2, but for its word.
Twos(bytes, from) == \A j \in 1 .. Len(bytes) : j > from => bytes[j] = "2"

Contents ==
  ~cut => /\ ~bad
          /\ c = "read" /\ pair = "bulk" => Twos(down, Word) /\ Twos(sOut, Word - Len(down))
          /\ c = "rest" => Twos(down, 0) /\ Twos(sOut, 0) /\ Twos(cbuf, 0)

IInv == Types /\ Turn /\ Contents

-----------------------------------------------------------------------------
(* Bytes on their way.                                                      *)

LEMMA Empty == \A q \in Seq(Bytes) : Len(q) \in Nat /\ (q = <<>> <=> Len(q) = 0)
OBVIOUS

\* What is taken, and what is left, when k bytes are read or written.
LEMMA FirstBytes ==
  ASSUME NEW q \in Seq(Bytes), NEW k \in 0 .. Len(q)
  PROVE  /\ SubSeq(q, 1, k) \in Seq(Bytes) /\ Len(SubSeq(q, 1, k)) = k
         /\ \A j \in 1 .. k : SubSeq(q, 1, k)[j] = q[j]
<1>1. 1 \in 1 .. Len(q) + 1 /\ k \in (1 - 1) .. Len(q)
  OBVIOUS
<1> QED BY <1>1, SubSeqProperties

LEMMA OtherBytes ==
  ASSUME NEW q \in Seq(Bytes), NEW k \in 0 .. Len(q)
  PROVE  /\ SubSeq(q, k + 1, Len(q)) \in Seq(Bytes) /\ Len(SubSeq(q, k + 1, Len(q))) = Len(q) - k
         /\ \A j \in 1 .. Len(q) - k : SubSeq(q, k + 1, Len(q))[j] = q[j + k]
<1>1. k + 1 \in 1 .. Len(q) + 1 /\ Len(q) \in k .. Len(q) /\ Len(q) \in Nat /\ (k + 1) - 1 = k
  OBVIOUS
<1> QED BY <1>1, SubSeqProperties

LEMMA Joined ==
  ASSUME NEW q \in Seq(Bytes), NEW t \in Seq(Bytes)
  PROVE  /\ q \o t \in Seq(Bytes) /\ Len(q \o t) = Len(q) + Len(t)
         /\ \A j \in 1 .. Len(q) + Len(t) :
              (q \o t)[j] = IF j <= Len(q) THEN q[j] ELSE t[j - Len(q)]
BY ConcatProperties

\* The least of what a side asks for and what is there.
LEMMA UpToBoth == ASSUME NEW a \in Int, NEW b \in Int, NEW k \in Int, k <= Min2(a, b)
                  PROVE  k <= a /\ k <= b
BY DEF Min2
-----------------------------------------------------------------------------
(* The invariant.                                                           *)

\* What may be written: my_client's message, the user's line, my_server's
\* answer.
LEMMA Written ==
  ASSUME Types
  PROVE  /\ pair = "bulk" => Message("1") \in Seq(Bytes) /\ Len(Message("1")) = n
         /\ \A q \in Lines : q \in Seq(Bytes) /\ Len(q) = LineLen
         /\ \A m \in Nat : /\ Echoed(m) \in Seq(Bytes) /\ Len(Echoed(m)) = m
                           /\ Twos(Echoed(m), Word)
<1>1. n \in Nat /\ Word \in Nat
  BY SamplesAssumption DEF Types
<1>2. ASSUME NEW m \in Nat, NEW b \in Bytes
      PROVE  LET q == [j \in 1 .. m |-> IF j <= Word THEN "w" ELSE b]
             IN  q \in Seq(Bytes) /\ Len(q) = m
  <2> DEFINE q == [j \in 1 .. m |-> IF j <= Word THEN "w" ELSE b]
  <2>1. q \in [1 .. m -> Bytes]
    BY DEF Bytes
  <2>2. q \in Seq(Bytes)
    BY <2>1, SeqDef
  <2>3. DOMAIN q = 1 .. m
    OBVIOUS
  <2> HIDE DEF q
  <2>4. Len(q) = m
    BY <2>2, <2>3
  <2> QED BY <2>2, <2>4 DEF q
<1>3. "1" \in Bytes /\ "2" \in Bytes
  BY DEF Bytes
<1>4. Message("1") \in Seq(Bytes) /\ Len(Message("1")) = n
  BY <1>1, <1>2, <1>3 DEF Message
<1>5. \A m \in Nat : Echoed(m) \in Seq(Bytes) /\ Len(Echoed(m)) = m
  BY <1>1, <1>2, <1>3 DEF Echoed
<1>6. \A m \in Nat : Twos(Echoed(m), Word)
  <2> SUFFICES ASSUME NEW m \in Nat, NEW j \in 1 .. Len(Echoed(m)), j > Word
               PROVE  Echoed(m)[j] = "2"
    BY DEF Twos
  <2>1. j \in 1 .. m
    BY <1>5
  <2> QED BY <1>1, <2>1 DEF Echoed
<1>7. \A q \in Lines : q \in Seq(Bytes) /\ Len(q) = LineLen
  <2>1. \A b \in Bytes : Line(b) \in Seq(Bytes) /\ Len(Line(b)) = LineLen
    BY DEF Line, Bytes, LineLen
  <2>2. "exit" \in Bytes /\ "text" \in Bytes
    BY DEF Bytes
  <2> QED BY <2>1, <2>2 DEF Lines
<1> QED BY <1>4, <1>5, <1>6, <1>7

LEMMA InvInit == Init => IInv
<1> SUFFICES ASSUME Init PROVE IInv
  OBVIOUS
<1>1. n \in Nat \ {0} /\ (pair = "chat" => n = LineLen)
  BY SamplesAssumption DEF Init, LineLen
<1>2. Types
  <2>1. <<>> \in Seq(Bytes) /\ Len(<<>>) = 0
    OBVIOUS
  <2>2. want \in [c : Int, s : 0 .. SzBuf] /\ got \in [c : Nat, s : Nat]
    BY SamplesAssumption DEF Init
  <2>3. Iters \in Nat \ {0} /\ Capacity \in Nat
    BY SamplesAssumption
  <2>4. /\ pair \in {"bulk", "chat"} /\ c = "socket" /\ s = "socket"
        /\ up = <<>> /\ down = <<>> /\ cOut = <<>> /\ sOut = <<>> /\ cbuf = <<>>
        /\ iters = Iters /\ bad = FALSE /\ reset = FALSE /\ cut = FALSE
    BY DEF Init
  <2>5. /\ up \in Seq(Bytes) /\ down \in Seq(Bytes) /\ cOut \in Seq(Bytes) /\ sOut \in Seq(Bytes)
        /\ Len(up) <= Capacity /\ Len(down) <= Capacity /\ cbuf \in Seq(Bytes)
    BY <2>1, <2>3, <2>4
  <2>6. iters \in 0 .. Iters /\ iters > 0
    BY <2>3, <2>4
  <2>7. c \in NotYet /\ s \in SettingUp
    BY <2>4 DEF NotYet, SettingUp
  <2> QED BY <1>1, <2>2, <2>4, <2>5, <2>6, <2>7 DEF Types
<1>3. Turn
  BY <1>1 DEF Init, Turn, ClientsTurn, ServersTurn, Nobodys, Counted, NotYet, SettingUp
<1> QED BY <1>2, <1>3 DEF Init, IInv, Contents

\* Setting up: nothing is on its way, until the client has its first message.
LEMMA InvSetUp == ASSUME IInv, ServerSetUp \/ Accept \/ ClientSocket \/ Connect PROVE IInv'
<1> USE DEF IInv, SetUp
<1>1. CASE ServerSetUp
  <2>1. s \in {"socket", "bind", "listen"} /\ s' \in {"bind", "listen", "accept", "ended"}
    BY <1>1 DEF ServerSetUp, AfterSetUp
  <2>2. Types'
    BY <1>1, <2>1 DEF ServerSetUp, Types, SettingUp
  <2>3. Turn'
    BY <1>1, <2>1 DEF ServerSetUp, Turn, ClientsTurn, ServersTurn, Nobodys, Counted, SettingUp
  <2>4. Contents'
    BY <1>1 DEF ServerSetUp, Contents, Twos
  <2> QED BY <2>2, <2>3, <2>4
<1>2. CASE Accept
  <2>1. s = "accept" /\ s' \in {"read", "ended"} /\ c \notin NotYet
    BY <1>2 DEF Accept, NotYet
  <2>2. Types'
    BY <1>2, <2>1 DEF Accept, Types, SettingUp
  <2>3. Turn'
    BY <1>2, <2>1 DEF Accept, Turn, ClientsTurn, ServersTurn, Nobodys, Counted, SettingUp
  <2>4. Contents'
    BY <1>2 DEF Accept, Contents, Twos
  <2> QED BY <2>2, <2>3, <2>4
<1>3. CASE ClientSocket
  <2>1. c \in NotYet /\ c' \in NotYet
    BY <1>3 DEF ClientSocket, NotYet
  <2>2. Types'
    BY <1>3, <2>1 DEF ClientSocket, Types, NotYet
  <2>3. Turn'
    BY <1>3, <2>1 DEF ClientSocket, Turn, ClientsTurn, ServersTurn, Nobodys, Counted, NotYet
  <2>4. Contents'
    BY <1>3, <2>1 DEF ClientSocket, Contents, Twos, NotYet
  <2> QED BY <2>2, <2>3, <2>4
<1>4. CASE Connect
  <2>1. CASE c' = "noConn"
    <3>1. c \in NotYet /\ c' \in NotYet /\ cOut' = cOut
      BY <1>4, <2>1 DEF Connect, NotYet
    <3>2. Types'
      BY <1>4, <3>1 DEF Connect, Types, NotYet
    <3>3. Turn'
      BY <1>4, <3>1 DEF Connect, Turn, ClientsTurn, ServersTurn, Nobodys, Counted, NotYet
    <3>4. Contents'
      BY <1>4, <3>1 DEF Connect, Contents, Twos, NotYet
    <3> QED BY <3>2, <3>3, <3>4
  <2>2. CASE c' # "noConn"
    <3>1. c = "connect" /\ s = "accept" /\ c' = "write" /\ cOut' \in NextOut /\ UNCHANGED <<s, SetUp>>
      BY <1>4, <2>2 DEF Connect
    <3>2. cOut' \in Seq(Bytes) /\ Len(cOut') = n
      BY <3>1, Written DEF NextOut, Types
    <3>3. cOut' # <<>>
      BY <3>2, Empty DEF Types
    <3>4. Types'
      BY <3>1, <3>2 DEF Types, NotYet
    <3>5. Len(up) = 0 \/ cut
      BY <3>1 DEF Turn, Nobodys, NotYet
    <3>6. Turn'
      BY <3>1, <3>2, <3>3, <3>5 DEF Turn, ClientsTurn, ServersTurn, Nobodys, Counted, Types, NotYet
    <3>7. Contents'
      BY <3>1 DEF Contents
    <3> QED BY <3>4, <3>6, <3>7
  <2> QED BY <2>1, <2>2
<1> QED BY <1>1, <1>2, <1>3, <1>4
-----------------------------------------------------------------------------
(* The client.                                                               *)

LEMMA InvClientWrites == ASSUME IInv, ClientWrites PROVE IInv'
<1> USE DEF IInv
<1>1. PICK k \in 1 .. Min2(Len(cOut), Capacity - Len(up)) :
        /\ up' = up \o SubSeq(cOut, 1, k)
        /\ cOut' = SubSeq(cOut, k + 1, Len(cOut))
        /\ c' = IF k = Len(cOut) THEN "read" ELSE "write"
  BY DEF ClientWrites
<1>2. /\ c = "write" /\ s # "ended"
      /\ UNCHANGED <<pair, n, s, down, sOut, want, got, cbuf, sbuf, iters, bad, reset, cut>>
  BY DEF ClientWrites
<1>3. /\ up \in Seq(Bytes) /\ cOut \in Seq(Bytes) /\ n \in Nat \ {0} /\ got.s \in Nat
      /\ Len(up) \in Nat /\ Len(cOut) \in Nat /\ Capacity \in Nat
  BY Empty, SamplesAssumption DEF Types
<1>4. k \in 1 .. Len(cOut) /\ k <= Capacity - Len(up) /\ k \in 0 .. Len(cOut)
  BY <1>3, UpToBoth
<1>5. SubSeq(cOut, 1, k) \in Seq(Bytes) /\ Len(SubSeq(cOut, 1, k)) = k
  BY <1>3, <1>4, FirstBytes
<1>6. up' \in Seq(Bytes) /\ Len(up') = Len(up) + k
  BY <1>1, <1>3, <1>5, Joined
<1>7. cOut' \in Seq(Bytes) /\ Len(cOut') = Len(cOut) - k
  BY <1>1, <1>3, <1>4, OtherBytes
<1>8. cOut' = <<>> <=> k = Len(cOut)
  BY <1>3, <1>4, <1>7, Empty
<1>9. Types'
  <2>1. Len(up') <= Capacity
    BY <1>3, <1>4, <1>6
  <2>2. c' \in {"write", "read"}
    BY <1>1
  <2> QED BY <1>2, <1>6, <1>7, <2>1, <2>2 DEF Types
<1>10. Turn'
  <2> SUFFICES ASSUME ~cut PROVE ClientsTurn' /\ ServersTurn' /\ Nobodys' /\ Counted'
    BY <1>2 DEF Turn
  <2>1. ClientsTurn /\ ServersTurn /\ Nobodys /\ Counted
    BY DEF Turn
  <2>2. down = <<>> /\ s \in {"accept", "read", "rest"}
    BY <1>2, <2>1 DEF ClientsTurn
  <2>3. CASE k = Len(cOut)
    <3>1. c' = "read" /\ Len(up') = Len(up) + Len(cOut)
      BY <1>1, <1>6, <2>3
    <3>2. ClientsTurn' /\ ServersTurn'
      BY <1>2, <1>3, <2>1, <2>2, <3>1 DEF ClientsTurn, ServersTurn
    <3>3. Nobodys' /\ Counted'
      BY <1>2, <2>1, <3>1 DEF Nobodys, Counted, NotYet
    <3> QED BY <3>2, <3>3
  <2>4. CASE k # Len(cOut)
    <3>1. c' = "write" /\ cOut' # <<>> /\ Len(up') + Len(cOut') = Len(up) + Len(cOut)
      <4>1. c' = "write" /\ cOut' # <<>>
        BY <1>1, <1>8, <2>4
      <4>2. Len(up') + Len(cOut') = Len(up) + Len(cOut)
        BY <1>3, <1>4, <1>6, <1>7
      <4> QED BY <4>1, <4>2
    <3>2. got.s + Len(up') + Len(cOut') = got.s + Len(up) + Len(cOut)
      BY <1>3, <1>4, <1>6, <1>7
    <3>3. ClientsTurn' /\ ServersTurn'
      BY <1>2, <2>1, <2>2, <3>1, <3>2 DEF ClientsTurn, ServersTurn
    <3>4. Nobodys' /\ Counted'
      BY <1>2, <2>1, <3>1 DEF Nobodys, Counted, NotYet
    <3> QED BY <3>3, <3>4
  <2> QED BY <2>3, <2>4
<1>11. Contents'
  <2> SUFFICES ASSUME ~cut PROVE ~bad /\ Twos(down, Word) /\ Twos(sOut, Word - Len(down)) /\ c' # "rest"
    BY <1>2 DEF Contents, Twos
  <2>1. ~bad /\ c' # "rest"
    BY <1>1 DEF Contents
  <2>2. down = <<>> /\ sOut = <<>>
    BY <1>2 DEF Turn, ClientsTurn, Nobodys
  <2> QED BY <2>1, <2>2 DEF Twos
<1> QED BY <1>9, <1>10, <1>11

LEMMA InvClientInVain == ASSUME IInv, ClientWritesInVain PROVE IInv'
<1> USE DEF IInv
<1>1. /\ c = "write" /\ s = "ended" /\ c' \in {"ended", "read"} /\ cOut' = <<>> /\ reset' = TRUE
      /\ UNCHANGED <<pair, n, s, up, down, sOut, want, got, cbuf, sbuf, iters, bad, cut>>
  BY DEF ClientWritesInVain
<1>2. Types'
  BY <1>1 DEF Types
<1>3. ASSUME ~cut PROVE down = <<>> /\ sOut = <<>> /\ ~bad
  BY <1>1, <1>3 DEF Turn, ClientsTurn, Nobodys, Contents
<1>4. Turn'
  BY <1>1, <1>3 DEF Turn, ClientsTurn, ServersTurn, Nobodys, Counted, NotYet
<1>5. Contents'
  BY <1>1, <1>3 DEF Contents, Twos
<1> QED BY <1>2, <1>4, <1>5

LEMMA InvClientReadsLine == ASSUME IInv, ClientReadsLine PROVE IInv'
<1> USE DEF IInv
<1>1. /\ pair = "chat" /\ c = "read" /\ n = LineLen /\ LineLen = 2
      /\ UNCHANGED <<pair, n, s, up, sOut, want, got, cbuf, sbuf, iters, bad, reset>>
  BY DEF ClientReadsLine, Types, LineLen
<1>2. \/ c' = "write" /\ cOut' \in Lines
      \/ c' = "ended" /\ cOut' = cOut
  BY DEF ClientReadsLine
<1>3. cOut' \in Seq(Bytes) /\ (c' = "write" => cOut' # <<>> /\ Len(cOut') = n)
  <2>1. CASE c' = "write" /\ cOut' \in Lines
    BY <1>1, <2>1, Written, Empty
  <2>2. CASE c' = "ended" /\ cOut' = cOut
    BY <2>2 DEF Types
  <2> QED BY <1>2, <2>1, <2>2
<1>4. CASE NothingMore /\ UNCHANGED <<down, cut>> /\ c' = "write"
  <2>1. s = "ended" /\ down = <<>>
    BY <1>4 DEF NothingMore
  <2>2. Types'
    BY <1>1, <1>3, <1>4 DEF Types
  <2>3. Turn'
    BY <1>1, <1>3, <1>4, <2>1 DEF Turn, ClientsTurn, ServersTurn, Nobodys, Counted, NotYet
  <2>4. Contents'
    BY <1>1, <1>4 DEF Contents
  <2> QED BY <2>2, <2>3, <2>4
<1>5. ASSUME NEW k \in 1 .. Min2(LineLen, Len(down)),
             down' = SubSeq(down, k + 1, Len(down)), cut' = (cut \/ k < LineLen)
      PROVE  IInv'
  <2>1. down \in Seq(Bytes) /\ Len(down) \in Nat /\ Len(down) <= Capacity /\ Capacity \in Nat
    BY Empty, SamplesAssumption DEF Types
  <2>2. k \in 1 .. Len(down) /\ k <= 2 /\ k \in 0 .. Len(down)
    BY <1>1, <2>1, UpToBoth
  <2>3. down' \in Seq(Bytes) /\ Len(down') = Len(down) - k
    BY <1>5, <2>1, <2>2, OtherBytes
  <2>4. Types'
    <3>1. Len(down') <= Capacity /\ cut' \in BOOLEAN
      BY <1>5, <2>1, <2>2, <2>3
    <3> QED BY <1>1, <1>2, <1>3, <2>3, <3>1 DEF Types
  <2>5. ASSUME ~cut' PROVE ~cut /\ k = 2 /\ down' = <<>> /\ s \in {"read", "ended"} /\ up = <<>>
    <3>1. ~cut /\ k = 2
      <4>1. ~cut /\ ~(k < LineLen)
        BY <1>5, <2>5, Zenon
      <4> QED BY <1>1, <2>2, <4>1
    <3>2. ClientsTurn /\ ServersTurn /\ Nobodys
      BY <3>1 DEF Turn
    <3>3. down # <<>> /\ Len(down) >= 2
      BY <2>1, <2>2, <3>1, Empty
    <3>4. s # "write"
      <4>1. ASSUME s = "write" PROVE Len(sOut) \in Nat \ {0} /\ Len(down) + Len(sOut) = 2
        BY <1>1, <3>2, <4>1, Empty DEF ServersTurn, Nobodys, Types
      <4> QED BY <2>1, <3>3, <4>1
    <3>5. s \in {"read", "ended"} /\ up = <<>> /\ Len(down) = 2
      BY <1>1, <3>2, <3>3, <3>4 DEF ClientsTurn, ServersTurn
    <3> QED BY <2>3, <3>1, <3>5, Empty
  <2>6. Turn'
    <3> SUFFICES ASSUME ~cut' PROVE ClientsTurn' /\ ServersTurn' /\ Nobodys' /\ Counted'
      BY DEF Turn
    <3>1. Nobodys /\ Len(up) = 0 /\ n \in Nat
      BY <2>5 DEF Turn, Types
    <3> QED BY <1>1, <1>2, <1>3, <2>5, <3>1 DEF ClientsTurn, ServersTurn, Nobodys, Counted, NotYet
  <2>7. Contents'
    BY <1>1, <1>2, <2>5 DEF Contents
  <2> QED BY <2>4, <2>6, <2>7
<1> QED BY <1>4, <1>5 DEF ClientReadsLine
\* When an answer is there for my_client, all of it is on the way or still
\* with the server.
LEMMA AnswerComing ==
  ASSUME Types, Turn, ~cut, c = "read", Len(down) > 0
  PROVE  up = <<>> /\ s \in {"read", "write", "ended"} /\ Len(down) + Len(sOut) = n
<1>1. /\ ClientsTurn /\ ServersTurn /\ Nobodys /\ down # <<>>
      /\ Len(down) \in Nat /\ n \in Nat
  BY Empty DEF Turn, Types
<1>2. s \in {"read", "write", "ended"} /\ up = <<>>
  BY <1>1 DEF ClientsTurn, ServersTurn
<1>3. CASE s = "write"
  BY <1>1, <1>2, <1>3 DEF ServersTurn
<1>4. CASE s # "write"
  <2>1. sOut = <<>> /\ Len(down) = n
    BY <1>1, <1>2, <1>4 DEF ServersTurn, Nobodys
  <2> QED BY <1>1, <1>2, <2>1
<1> QED BY <1>3, <1>4

LEMMA InvClientReadsWord == ASSUME IInv, ClientReadsWord PROVE IInv'
<1> USE DEF IInv
<1>1. /\ pair = "bulk" /\ c = "read" /\ c' = "rest" /\ got' = [got EXCEPT !.c = Word] /\ cbuf' = <<>>
      /\ UNCHANGED <<pair, n, s, up, cOut, sOut, iters, bad, reset>>
  BY DEF ClientReadsWord
<1>2. PICK k \in 0 .. Min2(Word, Len(down)) :
        /\ down' = SubSeq(down, k + 1, Len(down)) /\ cut' = (cut \/ k < Word)
        /\ \E m \in WordRead(k = Word) : want' = [want EXCEPT !.c = m]
  BY DEF ClientReadsWord
<1>3. PICK m \in WordRead(k = Word) : want' = [want EXCEPT !.c = m]
  BY <1>2
<1>4. /\ Word \in Nat \ {0} /\ n \in Nat /\ Capacity \in Nat
      /\ down \in Seq(Bytes) /\ Len(down) \in Nat /\ Len(sOut) \in Nat /\ Len(down) <= Capacity
      /\ want \in [c : Int, s : 0 .. SzBuf] /\ got \in [c : Nat, s : Nat] /\ cut \in BOOLEAN
  BY <1>1, Empty, SamplesAssumption DEF Types
<1>5. k <= Word /\ k \in 0 .. Len(down)
  BY <1>4, UpToBoth
<1>6. /\ down' \in Seq(Bytes) /\ Len(down') = Len(down) - k
      /\ \A j \in 1 .. Len(down) - k : down'[j] = down[j + k]
  BY <1>2, <1>4, <1>5, OtherBytes
<1>7. m \in Int /\ want' \in [c : Int, s : 0 .. SzBuf] /\ want'.c = m /\ want'.s = want.s
  <2>1. m \in Int
    BY <1>4, SamplesAssumption DEF WordRead
  <2> QED BY <1>3, <1>4, <2>1
<1>8. got' \in [c : Nat, s : Nat] /\ got'.c = Word /\ got'.s = got.s
  BY <1>1, <1>4
<1>9. Types'
  <2>1. Len(down') <= Capacity /\ cut' \in BOOLEAN /\ <<>> \in Seq(Bytes)
    BY <1>2, <1>4, <1>5, <1>6
  <2> QED BY <1>1, <1>6, <1>7, <1>8, <2>1 DEF Types
<1>10. ASSUME ~cut'
       PROVE  /\ ~cut /\ k = Word /\ m = n /\ up = <<>> /\ s \in {"read", "write", "ended"}
              /\ Len(down) + Len(sOut) = n
  <2>1. ~cut /\ ~(k < Word)
    BY <1>2, <1>10, Zenon
  <2>2. k = Word /\ Len(down) > 0
    BY <1>4, <1>5, <2>1
  <2>3. m = n
    BY <2>1, <2>2 DEF WordRead
  <2> QED BY <1>1, <2>1, <2>2, <2>3, AnswerComing
<1>11. Turn'
  <2> SUFFICES ASSUME ~cut' PROVE ClientsTurn' /\ ServersTurn' /\ Nobodys' /\ Counted'
    BY DEF Turn
  <2>1. got'.c + Len(down') + Len(sOut) = n
    <3>1. got'.c = Word /\ Len(down') = Len(down) - Word /\ Len(down) + Len(sOut) = n
      BY <1>6, <1>8, <1>10
    <3>2. Word \in Nat /\ Len(down) \in Nat /\ Len(sOut) \in Nat
      BY <1>4
    <3> QED BY <3>1, <3>2
  <2>2. ClientsTurn' /\ ServersTurn'
    BY <1>1, <1>7, <1>10, <2>1 DEF ClientsTurn, ServersTurn
  <2>3. Word <= n
    BY <1>4, <1>5, <1>10
  <2>4. Nobodys' /\ Counted'
    BY <1>1, <1>4, <1>7, <1>8, <1>10, <2>3 DEF Turn, Nobodys, Counted, NotYet
  <2> QED BY <2>2, <2>4
<1>12. Contents'
  <2> SUFFICES ASSUME ~cut' PROVE ~bad /\ Twos(down', 0) /\ Twos(sOut, 0) /\ Twos(<<>>, 0)
    BY <1>1 DEF Contents, Twos
  <2>1. ~bad /\ Twos(down, Word) /\ Twos(sOut, Word - Len(down))
    BY <1>1, <1>10 DEF Contents
  <2>2. Twos(down', 0)
    BY <1>4, <1>6, <1>10, <2>1 DEF Twos
  <2>3. Twos(sOut, 0)
    BY <1>4, <1>5, <1>10, <2>1 DEF Twos
  <2> QED BY <2>1, <2>2, <2>3 DEF Twos
<1> QED BY <1>9, <1>11, <1>12

LEMMA InvClientReadsRest == ASSUME IInv, ClientReadsRest PROVE IInv'
<1> USE DEF IInv
<1>1. /\ pair = "bulk" /\ c = "rest"
      /\ UNCHANGED <<pair, n, c, s, up, cOut, sOut, want, iters, bad, reset, cut>>
  BY DEF ClientReadsRest
<1>2. PICK k \in 1 .. Min2(want.c, Len(down)) :
        /\ down' = SubSeq(down, k + 1, Len(down))
        /\ cbuf' = cbuf \o SubSeq(down, 1, k)
        /\ got' = [got EXCEPT !.c = @ + k]
  BY DEF ClientReadsRest
<1>3. /\ down \in Seq(Bytes) /\ cbuf \in Seq(Bytes) /\ n \in Nat /\ Capacity \in Nat
      /\ Len(down) \in Nat /\ Len(sOut) \in Nat /\ Len(cbuf) \in Nat /\ Len(down) <= Capacity
      /\ want.c \in Int /\ got \in [c : Nat, s : Nat]
  BY Empty, SamplesAssumption DEF Types
<1>4. k \in 0 .. Len(down)
  BY <1>3, UpToBoth
<1>5. /\ down' \in Seq(Bytes) /\ Len(down') = Len(down) - k
      /\ \A j \in 1 .. Len(down) - k : down'[j] = down[j + k]
  BY <1>2, <1>3, <1>4, OtherBytes
<1>6. /\ SubSeq(down, 1, k) \in Seq(Bytes) /\ Len(SubSeq(down, 1, k)) = k
      /\ \A j \in 1 .. k : SubSeq(down, 1, k)[j] = down[j]
  BY <1>3, <1>4, FirstBytes
<1>7. /\ cbuf' \in Seq(Bytes) /\ Len(cbuf') = Len(cbuf) + k
      /\ \A j \in 1 .. Len(cbuf) + k :
           cbuf'[j] = IF j <= Len(cbuf) THEN cbuf[j] ELSE SubSeq(down, 1, k)[j - Len(cbuf)]
  BY <1>2, <1>3, <1>6, Joined
<1>8. got' \in [c : Nat, s : Nat] /\ got'.c = got.c + k /\ got'.s = got.s
  <2>1. k \in Nat /\ got.c + k \in Nat
    BY <1>3, <1>4
  <2> QED BY <1>2, <1>3, <2>1
<1>9. Types'
  <2>1. Len(down') <= Capacity
    BY <1>3, <1>4, <1>5
  <2> QED BY <1>1, <1>5, <1>7, <1>8, <2>1 DEF Types
<1>10. Turn'
  <2> SUFFICES ASSUME ~cut PROVE ClientsTurn' /\ ServersTurn' /\ Nobodys' /\ Counted'
    BY <1>1 DEF Turn
  <2>1. ClientsTurn /\ ServersTurn /\ Nobodys /\ Counted
    BY DEF Turn
  <2>2. got'.c + Len(down') + Len(sOut) = got.c + Len(down) + Len(sOut)
    BY <1>3, <1>4, <1>5, <1>8
  <2>3. got.c + Len(down) + Len(sOut) = n /\ got'.c <= n
    BY <1>1, <1>3, <1>4, <1>5, <1>8, <2>1, <2>2 DEF ServersTurn
  <2> QED BY <1>1, <1>8, <2>1, <2>2, <2>3 DEF ClientsTurn, ServersTurn, Nobodys, Counted, NotYet
<1>11. Contents'
  <2> SUFFICES ASSUME ~cut PROVE ~bad /\ Twos(down', 0) /\ Twos(sOut, 0) /\ Twos(cbuf', 0)
    BY <1>1 DEF Contents, Twos
  <2>1. ~bad /\ Twos(down, 0) /\ Twos(sOut, 0) /\ Twos(cbuf, 0)
    BY <1>1 DEF Contents
  <2>2. Twos(down', 0)
    BY <1>3, <1>4, <1>5, <2>1 DEF Twos
  <2>3. \A j \in 1 .. k : SubSeq(down, 1, k)[j] = "2"
    BY <1>3, <1>4, <1>6, <2>1 DEF Twos
  <2>4. Twos(cbuf', 0)
    <3> SUFFICES ASSUME NEW j \in 1 .. Len(cbuf) + k PROVE cbuf'[j] = "2"
      BY <1>7 DEF Twos
    <3>1. CASE j <= Len(cbuf)
      <4>1. j \in 1 .. Len(cbuf) /\ j > 0
        BY <1>3, <3>1
      <4>2. cbuf[j] = "2"
        BY <2>1, <4>1 DEF Twos
      <4> QED BY <1>7, <3>1, <4>2
    <3>2. CASE j > Len(cbuf)
      <4>1. j - Len(cbuf) \in 1 .. k /\ ~(j <= Len(cbuf))
        BY <1>3, <1>4, <3>2
      <4> QED BY <1>7, <2>3, <4>1
    <3> QED BY <1>3, <3>1, <3>2
  <2> QED BY <2>1, <2>2, <2>4
<1> QED BY <1>9, <1>10, <1>11

LEMMA InvClientChecks == ASSUME IInv, ClientChecks PROVE IInv'
<1> USE DEF IInv
<1>1. /\ pair = "bulk" /\ c = "rest" /\ ~RestWanted("c") /\ iters' = iters - 1
      /\ bad' = (bad \/ \E j \in 1 .. Min2(want.c - Word, Len(cbuf)) : cbuf[j] # "2")
      /\ UNCHANGED <<pair, n, s, up, down, sOut, want, got, cbuf, sbuf, reset, cut>>
  BY DEF ClientChecks
<1>2. \/ iters' = 0 /\ c' = "ended" /\ cOut' = cOut
      \/ iters' # 0 /\ c' = "write" /\ cOut' = Message("1")
  BY DEF ClientChecks
<1>3. /\ n \in Nat \ {0} /\ iters \in 1 .. Iters /\ Iters \in Nat
      /\ want.c \in Int /\ got \in [c : Nat, s : Nat] /\ bad \in BOOLEAN
      /\ Len(down) \in Nat /\ Len(sOut) \in Nat /\ Len(cbuf) \in Nat /\ Word \in Nat
  BY <1>1, Empty, SamplesAssumption DEF Types
<1>4. cOut' \in Seq(Bytes) /\ (c' = "write" => Len(cOut') = n /\ cOut' # <<>>)
  <2>1. Message("1") \in Seq(Bytes) /\ Len(Message("1")) = n
    BY <1>1, Written
  <2>2. Message("1") # <<>>
    BY <1>3, <2>1, Empty
  <2>3. cOut \in Seq(Bytes)
    BY DEF Types
  <2> QED BY <1>2, <2>1, <2>2, <2>3
<1>5. Types'
  <2>1. iters' \in 0 .. Iters /\ (c' # "ended" => iters' > 0)
    BY <1>1, <1>2, <1>3
  <2>2. bad' \in BOOLEAN
    BY <1>1
  <2>3. c' \in {"write", "ended"}
    BY <1>2
  <2> QED BY <1>1, <1>4, <2>1, <2>2, <2>3 DEF Types
<1>6. ASSUME ~cut
      PROVE  /\ down = <<>> /\ sOut = <<>> /\ up = <<>> /\ s \in {"read", "ended"} /\ ~bad'
             /\ Len(up) = 0
  <2>1. ClientsTurn /\ ServersTurn /\ Nobodys /\ ~bad /\ Twos(cbuf, 0)
    BY <1>1, <1>6 DEF Turn, Contents
  <2>2. want.c = n /\ up = <<>> /\ s \in {"read", "write", "ended"} /\ got.c + Len(down) + Len(sOut) = n
    BY <1>1, <2>1 DEF ServersTurn
  <2>3. got.c >= n
    BY <1>1, <1>3, <2>2 DEF RestWanted
  <2>4. Len(down) = 0 /\ Len(sOut) = 0
    BY <1>3, <2>2, <2>3
  <2>5. down = <<>> /\ sOut = <<>>
    BY <2>4, Empty DEF Types
  <2>6. \A j \in 1 .. Min2(want.c - Word, Len(cbuf)) : cbuf[j] = "2"
    <3> TAKE j \in 1 .. Min2(want.c - Word, Len(cbuf))
    <3>1. j <= Len(cbuf)
      BY <1>3, UpToBoth
    <3> QED BY <1>3, <2>1, <3>1 DEF Twos
  <2>7. ~bad'
    BY <1>1, <2>1, <2>6
  <2> QED BY <2>1, <2>2, <2>5, <2>7 DEF Nobodys
<1>7. Turn'
  <2> SUFFICES ASSUME ~cut PROVE ClientsTurn' /\ ServersTurn' /\ Nobodys' /\ Counted'
    BY <1>1 DEF Turn
  <2>1. Len(up) + n = n
    BY <1>3, <1>6
  <2> QED BY <1>1, <1>2, <1>4, <1>6, <2>1 DEF Turn, ClientsTurn, ServersTurn, Nobodys, Counted, NotYet
<1>8. Contents'
  BY <1>1, <1>2, <1>6 DEF Contents
<1> QED BY <1>5, <1>7, <1>8

-----------------------------------------------------------------------------
(* The server.                                                               *)

LEMMA InvServerReadsLine == ASSUME IInv, ServerReadsLine PROVE IInv'
<1> USE DEF IInv
<1>1. /\ pair = "chat" /\ s = "read" /\ s' = "write" /\ sOut' \in Lines /\ n = LineLen /\ LineLen = 2
      /\ UNCHANGED <<pair, n, c, down, cOut, want, got, cbuf, sbuf, iters, bad, reset>>
  BY DEF ServerReadsLine, Types, LineLen
<1>2. sOut' \in Seq(Bytes) /\ Len(sOut') = n /\ sOut' # <<>>
  BY <1>1, Written, Empty
<1>3. /\ up \in Seq(Bytes) /\ Len(up) \in Nat /\ Len(up) <= Capacity /\ Capacity \in Nat
      /\ Len(down) \in Nat /\ cut \in BOOLEAN
  BY Empty, SamplesAssumption DEF Types
<1>4. CASE NoMore /\ UNCHANGED <<up, cut>>
  <2>1. Types'
    BY <1>1, <1>2, <1>4 DEF Types
  <2>2. Turn'
    BY <1>1, <1>2, <1>4 DEF NoMore, Turn, ClientsTurn, ServersTurn, Nobodys, Counted, NotYet
  <2>3. Contents'
    BY <1>1, <1>4 DEF NoMore, Contents
  <2> QED BY <2>1, <2>2, <2>3
<1>5. ASSUME NEW k \in 1 .. Min2(LineLen, Len(up)),
             up' = SubSeq(up, k + 1, Len(up)), cut' = (cut \/ k < LineLen)
      PROVE  IInv'
  <2>1. k <= 2 /\ k \in 1 .. Len(up) /\ k \in 0 .. Len(up)
    BY <1>1, <1>3, UpToBoth
  <2>2. up' \in Seq(Bytes) /\ Len(up') = Len(up) - k
    BY <1>3, <1>5, <2>1, OtherBytes
  <2>3. Types'
    <3>1. Len(up') <= Capacity /\ cut' \in BOOLEAN
      BY <1>3, <1>5, <2>1, <2>2
    <3> QED BY <1>1, <1>2, <2>2, <3>1 DEF Types
  <2>4. ASSUME ~cut' PROVE ~cut /\ c = "read" /\ up' = <<>> /\ Len(down) = 0
    <3>1. ~cut /\ k = 2
      <4>1. ~cut /\ ~(k < LineLen)
        BY <1>5, <2>4, Zenon
      <4> QED BY <1>1, <2>1, <4>1
    <3>2. ClientsTurn /\ ServersTurn /\ Nobodys /\ up # <<>> /\ Len(up) >= 2
      BY <1>3, <2>1, <3>1, Empty DEF Turn
    <3>3. c # "write"
      <4>1. ASSUME c = "write" PROVE Len(cOut) \in Nat \ {0} /\ Len(up) + Len(cOut) = 2
        BY <1>1, <3>2, <4>1, Empty DEF ClientsTurn, Types
      <4> QED BY <1>3, <3>2, <4>1
    <3>4. c = "read" /\ Len(up) = 2 /\ down = <<>>
      BY <1>1, <3>2, <3>3 DEF ServersTurn, Nobodys, Types, NotYet, SettingUp
    <3> QED BY <2>2, <3>1, <3>4, Empty
  <2>5. Turn'
    <3> SUFFICES ASSUME ~cut' PROVE ClientsTurn' /\ ServersTurn' /\ Nobodys' /\ Counted'
      BY DEF Turn
    <3>1. Len(down) + Len(sOut') = n
      BY <1>1, <1>2, <2>4
    <3> QED BY <1>1, <1>2, <2>4, <3>1 DEF ClientsTurn, ServersTurn, Nobodys, Counted, NotYet
  <2>6. Contents'
    BY <1>1, <2>4 DEF Contents
  <2> QED BY <2>3, <2>5, <2>6
<1> QED BY <1>4, <1>5 DEF ServerReadsLine

\* A word that is taken for the length of a message fits in the buffer.
LEMMA WordTaken ==
  ASSUME Types, NEW m \in Int, TakeWord(m)
  PROVE  /\ \/ s' = "rest" /\ m \in 1 .. SzBuf /\ want' = [want EXCEPT !.s = m] /\ got' = [got EXCEPT !.s = Word]
            \/ s' = "ended" /\ want' = want /\ got' = got
         /\ want' \in [c : Int, s : 0 .. SzBuf] /\ got' \in [c : Nat, s : Nat]
         /\ want'.c = want.c /\ got'.c = got.c
         /\ s' = "rest" => want'.s = m /\ got'.s = Word /\ want'.s > 0
<1>1. /\ want \in [c : Int, s : 0 .. SzBuf] /\ got \in [c : Nat, s : Nat] /\ Word \in Nat /\ SzBuf \in Nat
  BY SamplesAssumption DEF Types
<1>2. CASE InRange(m)
  BY <1>1, <1>2 DEF TakeWord, InRange
<1>3. CASE ~InRange(m)
  BY <1>1, <1>3 DEF TakeWord
<1> QED BY <1>2, <1>3

LEMMA InvServerReadsWord == ASSUME IInv, ServerReadsWord PROVE IInv'
<1> USE DEF IInv
<1>1. /\ pair = "bulk" /\ s = "read"
      /\ UNCHANGED <<pair, n, c, down, cOut, sOut, cbuf, iters, bad, reset>>
  BY DEF ServerReadsWord
<1>2. /\ Word \in Nat \ {0} /\ n \in Nat /\ Capacity \in Nat
      /\ up \in Seq(Bytes) /\ Len(up) \in Nat /\ Len(up) <= Capacity /\ Len(cOut) \in Nat
      /\ want.s \in Int /\ Unknown \subseteq Int /\ cut \in BOOLEAN /\ n \in Int
  BY <1>1, Empty, SamplesAssumption DEF Types
<1>3. ASSUME NoMore, UNCHANGED <<up, cut>>, NEW m \in (IF cut THEN Unknown \cup {n} ELSE {want.s}), TakeWord(m)
      PROVE  IInv'
  <2>1. m \in Int
    BY <1>2, <1>3
  <2>2. /\ s' \in {"rest", "ended"} /\ got'.c = got.c /\ (s' = "rest" => got'.s = Word /\ want'.s > 0)
        /\ (s' # "rest" => got' = got)
        /\ want' \in [c : Int, s : 0 .. SzBuf] /\ got' \in [c : Nat, s : Nat]
    BY <1>3, <2>1, WordTaken
  <2>3. Types'
    BY <1>1, <1>3, <2>2 DEF Types, SettingUp
  <2>4. ~cut /\ s' = "rest" => want.s > 0 /\ Word <= n
    BY <1>1, <1>2, <1>3, <2>1, <2>2, WordTaken DEF Turn, Counted
  <2>5. s' = "ended" => want' = want
    BY <1>3, <2>1, WordTaken
  <2>6. Turn'
    BY <1>1, <1>2, <1>3, <2>2, <2>4, <2>5 DEF NoMore, Turn, ClientsTurn, ServersTurn, Nobodys, Counted, NotYet
  <2>7. Contents'
    BY <1>1, <1>3 DEF NoMore, Contents
  <2> QED BY <2>3, <2>6, <2>7
<1>4. ASSUME NEW k \in 1 .. Min2(Word, Len(up)),
             up' = SubSeq(up, k + 1, Len(up)), cut' = (cut \/ k < Word),
             NEW m \in WordRead(k = Word), TakeWord(m)
      PROVE  IInv'
  <2>1. m \in Int
    BY <1>2 DEF WordRead
  <2>2. /\ s' \in {"rest", "ended"} /\ got'.c = got.c /\ want'.c = want.c
        /\ (s' = "rest" => got'.s = Word /\ want'.s = m /\ want'.s > 0) /\ (s' # "rest" => got' = got)
        /\ want' \in [c : Int, s : 0 .. SzBuf] /\ got' \in [c : Nat, s : Nat]
    BY <1>4, <2>1, WordTaken
  <2>3. k <= Word /\ k \in 0 .. Len(up) /\ k > 0
    BY <1>2, UpToBoth
  <2>4. up' \in Seq(Bytes) /\ Len(up') = Len(up) - k
    BY <1>2, <1>4, <2>3, OtherBytes
  <2>5. Types'
    <3>1. Len(up') <= Capacity /\ cut' \in BOOLEAN
      BY <1>2, <1>4, <2>3, <2>4
    <3> QED BY <1>1, <2>2, <2>4, <3>1 DEF Types, SettingUp
  <2>6. ASSUME ~cut'
        PROVE  /\ ~cut /\ k = Word /\ m = n /\ c \in {"write", "read"} /\ down = <<>>
               /\ c = "write" => Len(up) + Len(cOut) = n
               /\ c = "read" => Len(up) = n
    <3>1. ~cut /\ ~(k < Word)
      BY <1>4, <2>6, Zenon
    <3>2. k = Word /\ m = n
      <4>1. k = Word
        BY <1>2, <2>3, <3>1
      <4> QED BY <3>1, <4>1 DEF WordRead
    <3>3. up # <<>> /\ ClientsTurn /\ ServersTurn /\ Nobodys
      BY <1>2, <2>3, <3>1, Empty DEF Turn
    <3>4. c \in {"write", "read"}
      BY <1>1, <3>3 DEF ServersTurn, Nobodys, Types, NotYet, SettingUp
    <3> QED BY <1>1, <3>1, <3>2, <3>3, <3>4 DEF ClientsTurn, ServersTurn
  <2>7. Turn'
    <3> SUFFICES ASSUME ~cut' PROVE ClientsTurn' /\ ServersTurn' /\ Nobodys' /\ Counted'
      BY DEF Turn
    <3>1. ClientsTurn /\ ServersTurn /\ Nobodys /\ Counted
      BY <2>6 DEF Turn
    <3>2. Len(up') = Len(up) - Word
      BY <2>4, <2>6
    <3>3. /\ c = "write" => Word + Len(up') + Len(cOut) = n
          /\ c = "read" => Word + Len(up') = n
      BY <1>2, <2>6, <3>2
    <3>4. ClientsTurn' /\ ServersTurn'
      BY <1>1, <2>2, <2>6, <3>1, <3>3 DEF ClientsTurn, ServersTurn
    <3>5. Word <= n
      BY <1>2, <2>3, <2>6
    <3>6. Nobodys' /\ Counted'
      BY <1>1, <1>2, <2>2, <2>6, <3>1, <3>5 DEF Nobodys, Counted, NotYet
    <3> QED BY <3>4, <3>6
  <2>8. Contents'
    BY <1>1, <2>6 DEF Contents, Twos
  <2> QED BY <2>5, <2>7, <2>8
<1> QED BY <1>3, <1>4 DEF ServerReadsWord

LEMMA InvServerReadsRest == ASSUME IInv, ServerReadsRest PROVE IInv'
<1> USE DEF IInv
<1>1. /\ pair = "bulk" /\ s = "rest"
      /\ UNCHANGED <<pair, n, c, down, cOut, sOut, want, cbuf, iters, bad, reset, cut>>
  BY DEF ServerReadsRest
<1>2. CASE NoMore /\ s' = "ended" /\ UNCHANGED <<up, sbuf, got>>
  <2>1. Types'
    BY <1>1, <1>2 DEF Types, SettingUp
  <2>2. Turn'
    BY <1>1, <1>2 DEF NoMore, Turn, ClientsTurn, ServersTurn, Nobodys, Counted, NotYet
  <2>3. Contents'
    BY <1>1 DEF Contents, Twos
  <2> QED BY <2>1, <2>2, <2>3
<1>3. ASSUME NEW k \in 1 .. Min2(want.s, Len(up)), s' = s,
             up' = SubSeq(up, k + 1, Len(up)), got' = [got EXCEPT !.s = @ + k]
      PROVE  IInv'
  <2>1. /\ up \in Seq(Bytes) /\ Len(up) \in Nat /\ Len(up) <= Capacity /\ Capacity \in Nat
        /\ Len(cOut) \in Nat /\ want.s \in Int /\ got \in [c : Nat, s : Nat] /\ n \in Nat
    BY Empty, SamplesAssumption DEF Types
  <2>2. k \in 0 .. Len(up) /\ k > 0
    BY <2>1, UpToBoth
  <2>3. up' \in Seq(Bytes) /\ Len(up') = Len(up) - k
    BY <1>3, <2>1, <2>2, OtherBytes
  <2>4. got' \in [c : Nat, s : Nat] /\ got'.s = got.s + k /\ got'.c = got.c
    <3>1. got.s + k \in Nat
      BY <2>1, <2>2
    <3> QED BY <1>3, <2>1, <3>1
  <2>5. Types'
    <3>1. Len(up') <= Capacity
      BY <2>1, <2>2, <2>3
    <3> QED BY <1>1, <1>3, <2>3, <2>4, <3>1 DEF Types
  <2>6. Turn'
    <3> SUFFICES ASSUME ~cut PROVE ClientsTurn' /\ ServersTurn' /\ Nobodys' /\ Counted'
      BY <1>1 DEF Turn
    <3>1. ClientsTurn /\ ServersTurn /\ Nobodys /\ Counted /\ up # <<>>
      BY <2>1, <2>2, Empty DEF Turn
    <3>2. c \in {"write", "read"} /\ down = <<>>
      BY <1>1, <3>1 DEF ClientsTurn, ServersTurn, Nobodys, Types, NotYet, SettingUp
    <3>3. /\ got'.s + Len(up') + Len(cOut) = got.s + Len(up) + Len(cOut)
          /\ got'.s + Len(up') = got.s + Len(up)
      BY <2>1, <2>2, <2>3, <2>4
    <3>4. /\ c = "write" => got.s + Len(up) + Len(cOut) = n
          /\ c = "read" => got.s + Len(up) = n
      BY <1>1, <3>1 DEF ClientsTurn
    <3>5. got'.s <= n
      BY <2>1, <2>2, <2>4, <3>2, <3>4
    <3>6. ClientsTurn' /\ ServersTurn'
      BY <1>1, <1>3, <3>1, <3>2, <3>3 DEF ClientsTurn, ServersTurn
    <3>7. Nobodys' /\ Counted'
      BY <1>1, <1>3, <2>4, <3>1, <3>2, <3>5 DEF Nobodys, Counted, NotYet
    <3> QED BY <3>6, <3>7
  <2>7. Contents'
    BY <1>1 DEF Contents, Twos
  <2> QED BY <2>5, <2>6, <2>7
<1> QED BY <1>2, <1>3 DEF ServerReadsRest

LEMMA InvServerChecks == ASSUME IInv, ServerChecks PROVE IInv'
<1> USE DEF IInv
<1>1. /\ pair = "bulk" /\ s = "rest" /\ ~RestWanted("s")
      /\ UNCHANGED <<pair, n, c, up, down, cOut, want, got, cbuf, sbuf, iters, bad, reset, cut>>
  BY DEF ServerChecks
<1>2. \/ s' = "write" /\ sOut' = Echoed(want.s)
      \/ s' = "ended" /\ sOut' = sOut
  BY DEF ServerChecks
<1>3. /\ n \in Nat \ {0} /\ want.s \in Nat /\ got \in [c : Nat, s : Nat]
      /\ Len(up) \in Nat /\ Len(cOut) \in Nat /\ Len(down) \in Nat /\ sOut \in Seq(Bytes)
  BY Empty DEF Types
<1>4. Echoed(want.s) \in Seq(Bytes) /\ Len(Echoed(want.s)) = want.s /\ Twos(Echoed(want.s), Word)
  BY <1>3, Written
<1>5. Types'
  BY <1>1, <1>2, <1>3, <1>4 DEF Types, SettingUp
<1>6. ASSUME ~cut
      PROVE  /\ ClientsTurn /\ ServersTurn /\ Nobodys /\ Counted /\ sOut = <<>> /\ down = <<>>
             /\ c \in {"write", "read", "ended"} /\ c # "write"
             /\ c = "read" => up = <<>> /\ want.s = n
  <2>1. ClientsTurn /\ ServersTurn /\ Nobodys /\ Counted /\ sOut = <<>>
    BY <1>1, <1>6 DEF Turn, Nobodys
  <2>2. c \in {"write", "read", "ended"} /\ down = <<>>
    BY <1>1, <2>1 DEF ClientsTurn, ServersTurn, Nobodys, Types, NotYet, SettingUp
  <2>3. got.s >= want.s
    BY <1>1, <1>3 DEF RestWanted
  <2>4. c # "write"
    <3>1. ASSUME c = "write"
          PROVE  want.s = n /\ got.s + Len(up) + Len(cOut) = n /\ Len(cOut) # 0
      BY <1>1, <2>1, <3>1, Empty DEF ClientsTurn, Types
    <3> QED BY <1>3, <2>3, <3>1
  <2>5. ASSUME c = "read" PROVE up = <<>> /\ want.s = n
    <3>1. want.s = n /\ got.s + Len(up) = n
      BY <1>1, <2>1, <2>5 DEF ClientsTurn
    <3>2. Len(up) = 0
      BY <1>3, <2>3, <3>1
    <3> QED BY <3>1, <3>2, Empty DEF Types
  <2> QED BY <2>1, <2>2, <2>4, <2>5
<1>7. ~cut => (s' = "write" <=> sOut' # <<>>)
  <2>1. want.s > 0
    BY <1>1 DEF Types
  <2>2. Echoed(want.s) # <<>>
    BY <1>3, <1>4, <2>1, Empty
  <2> QED BY <1>2, <1>6, <2>2
<1>8. Turn'
  <2> SUFFICES ASSUME ~cut PROVE ClientsTurn' /\ ServersTurn' /\ Nobodys' /\ Counted'
    BY <1>1 DEF Turn
  <2>1. c = "read" /\ s' = "write" => Len(down) + Len(sOut') = n
    BY <1>2, <1>3, <1>4, <1>6, Empty DEF Types
  <2>2. ClientsTurn' /\ ServersTurn'
    BY <1>1, <1>2, <1>6, <2>1 DEF ClientsTurn, ServersTurn
  <2>3. Nobodys' /\ Counted'
    BY <1>1, <1>2, <1>6, <1>7 DEF Nobodys, Counted, NotYet
  <2> QED BY <2>2, <2>3
<1>9. Contents'
  <2> SUFFICES ASSUME ~cut, c = "read" PROVE Twos(sOut', Word - Len(down)) /\ Twos(down, Word)
    BY <1>1, <1>6 DEF Contents, Twos
  <2>1. Len(down) = 0 /\ Twos(down, Word) /\ Twos(<<>>, Word)
    BY <1>6 DEF Twos
  <2>2. sOut' = Echoed(want.s) \/ sOut' = <<>>
    BY <1>2, <1>6
  <2>3. Word - Len(down) = Word
    BY <2>1, SamplesAssumption
  <2> QED BY <1>4, <2>1, <2>2, <2>3
<1> QED BY <1>5, <1>8, <1>9

LEMMA InvServerWrites == ASSUME IInv, ServerWrites PROVE IInv'
<1> USE DEF IInv
<1>1. PICK k \in 1 .. Min2(Len(sOut), Capacity - Len(down)) :
        /\ down' = down \o SubSeq(sOut, 1, k)
        /\ sOut' = SubSeq(sOut, k + 1, Len(sOut))
        /\ s' = IF k = Len(sOut) THEN AfterWrite ELSE "write"
  BY DEF ServerWrites
<1>2. /\ s = "write" /\ c # "ended"
      /\ UNCHANGED <<pair, n, c, up, cOut, want, got, cbuf, sbuf, iters, bad, reset, cut>>
  BY DEF ServerWrites
<1>3. /\ down \in Seq(Bytes) /\ sOut \in Seq(Bytes) /\ n \in Nat \ {0} /\ got.c \in Nat
      /\ Len(down) \in Nat /\ Len(sOut) \in Nat /\ Capacity \in Nat /\ Word \in Nat
  BY Empty, SamplesAssumption DEF Types
<1>4. k \in 1 .. Len(sOut) /\ k <= Capacity - Len(down) /\ k \in 0 .. Len(sOut)
  BY <1>3, UpToBoth
<1>5. /\ SubSeq(sOut, 1, k) \in Seq(Bytes) /\ Len(SubSeq(sOut, 1, k)) = k
      /\ \A j \in 1 .. k : SubSeq(sOut, 1, k)[j] = sOut[j]
  BY <1>3, <1>4, FirstBytes
<1>6. /\ down' \in Seq(Bytes) /\ Len(down') = Len(down) + k
      /\ \A j \in 1 .. Len(down) + k :
           down'[j] = IF j <= Len(down) THEN down[j] ELSE SubSeq(sOut, 1, k)[j - Len(down)]
  BY <1>1, <1>3, <1>5, Joined
<1>7. /\ sOut' \in Seq(Bytes) /\ Len(sOut') = Len(sOut) - k
      /\ \A j \in 1 .. Len(sOut) - k : sOut'[j] = sOut[j + k]
  BY <1>1, <1>3, <1>4, OtherBytes
<1>8. /\ sOut' = <<>> <=> k = Len(sOut)
      /\ AfterWrite \in {"read", "ended"}
      /\ Len(down') + Len(sOut') = Len(down) + Len(sOut)
  <2>1. sOut' = <<>> <=> k = Len(sOut)
    BY <1>3, <1>4, <1>7, Empty
  <2>2. Len(down') + Len(sOut') = Len(down) + Len(sOut)
    BY <1>3, <1>4, <1>6, <1>7
  <2> QED BY <2>1, <2>2 DEF AfterWrite
<1>9. Types'
  <2>1. Len(down') <= Capacity
    BY <1>3, <1>4, <1>6
  <2>2. s' \in {"write", "read", "ended"}
    BY <1>1, <1>8
  <2> QED BY <1>2, <1>6, <1>7, <2>1, <2>2 DEF Types, SettingUp
<1>10. ASSUME ~cut
       PROVE  /\ ClientsTurn /\ ServersTurn /\ Nobodys /\ Counted
              /\ c \in {"read", "rest"} /\ up = <<>>
  <2>1. ClientsTurn /\ ServersTurn /\ Nobodys /\ Counted
    BY <1>10 DEF Turn
  <2>2. c \in {"read", "rest"}
    BY <1>2, <2>1 DEF ClientsTurn, Nobodys, Types, NotYet, SettingUp
  <2> QED BY <1>2, <2>1, <2>2 DEF ServersTurn
<1>11. Turn'
  <2> SUFFICES ASSUME ~cut PROVE ClientsTurn' /\ ServersTurn' /\ Nobodys' /\ Counted'
    BY <1>2 DEF Turn
  <2>1. s' = "write" <=> sOut' # <<>>
    BY <1>1, <1>8
  <2>2. s' \in {"write", "read", "ended"} /\ (c = "rest" => s' # "ended")
    BY <1>1, <1>2, <1>8 DEF AfterWrite, Types
  <2>3. s' # "write" => Len(sOut') = 0
    BY <2>1
  <2>4. CASE c = "read"
    <3>1. Len(down) + Len(sOut) = n
      BY <1>2, <1>10, <2>4 DEF ServersTurn
    <3>2. Len(down') + Len(sOut') = n /\ (s' # "write" => Len(down') = n)
      <4>1. Len(down') + Len(sOut') = n /\ Len(down') \in Int
        BY <1>3, <1>4, <1>6, <1>8, <3>1
      <4> QED BY <2>3, <4>1
    <3>3. ClientsTurn' /\ ServersTurn'
      BY <1>2, <1>10, <2>2, <2>4, <3>2 DEF ClientsTurn, ServersTurn
    <3> QED BY <1>2, <1>10, <2>1, <2>4, <3>3 DEF Nobodys, Counted, NotYet
  <2>5. CASE c = "rest"
    <3>1. got.c + Len(down) + Len(sOut) = n /\ want.c = n
      BY <1>10, <2>5 DEF ServersTurn
    <3>2. got.c + Len(down') + Len(sOut') = n
      BY <1>3, <1>4, <1>6, <1>7, <3>1
    <3>3. ClientsTurn' /\ ServersTurn'
      BY <1>2, <1>10, <2>2, <2>5, <3>1, <3>2 DEF ClientsTurn, ServersTurn
    <3> QED BY <1>2, <1>10, <2>1, <2>5, <3>3 DEF Nobodys, Counted, NotYet
  <2> QED BY <1>10, <2>4, <2>5
<1>12. Contents'
  <2> SUFFICES ASSUME ~cut
               PROVE  /\ ~bad
                      /\ c = "read" /\ pair = "bulk" => Twos(down', Word) /\ Twos(sOut', Word - Len(down'))
                      /\ c = "rest" => Twos(down', 0) /\ Twos(sOut', 0) /\ Twos(cbuf, 0)
    BY <1>2 DEF Contents, Twos
  <2>1. ASSUME NEW w \in Nat, Twos(down, w), Twos(sOut, w - Len(down))
        PROVE  Twos(down', w) /\ Twos(sOut', w - Len(down'))
    <3>1. ASSUME NEW j \in 1 .. Len(down) + k, j > w PROVE down'[j] = "2"
      <4>1. CASE j <= Len(down)
        BY <1>3, <1>6, <2>1, <3>1, <4>1 DEF Twos
      <4>2. CASE ~(j <= Len(down))
        <5>1. /\ j - Len(down) \in 1 .. k /\ j - Len(down) \in 1 .. Len(sOut)
              /\ j - Len(down) > w - Len(down)
          BY <1>3, <1>4, <3>1, <4>2
        <5>2. sOut[j - Len(down)] = "2"
          BY <2>1, <5>1 DEF Twos
        <5> QED BY <1>5, <1>6, <4>2, <5>1, <5>2
      <4> QED BY <4>1, <4>2
    <3>2. ASSUME NEW j \in 1 .. Len(sOut) - k, j > w - Len(down') PROVE sOut'[j] = "2"
      <4>1. j + k \in 1 .. Len(sOut) /\ j + k > w - Len(down)
        BY <1>3, <1>4, <1>6, <3>2
      <4> QED BY <1>7, <2>1, <4>1 DEF Twos
    <3> QED BY <1>6, <1>7, <3>1, <3>2 DEF Twos
  <2>2. /\ ~bad
        /\ c = "read" /\ pair = "bulk" => Twos(down, Word) /\ Twos(sOut, Word - Len(down))
        /\ c = "rest" => Twos(down, 0) /\ Twos(sOut, 0) /\ Twos(cbuf, 0)
    BY DEF Contents
  <2>3. ASSUME c = "rest" PROVE Twos(down', 0) /\ Twos(sOut', 0)
    <3>1. Twos(sOut, 0 - Len(down))
      BY <1>3, <2>2, <2>3 DEF Twos
    <3>2. Twos(down', 0) /\ Twos(sOut', 0 - Len(down'))
      BY <2>1, <2>2, <2>3, <3>1
    <3> QED BY <1>3, <1>6, <3>2 DEF Twos
  <2> QED BY <1>3, <2>1, <2>2, <2>3
<1> QED BY <1>9, <1>11, <1>12

LEMMA InvServerInVain == ASSUME IInv, ServerWritesInVain PROVE IInv'
<1> USE DEF IInv
<1>1. /\ s = "write" /\ c = "ended" /\ s' \in {"ended", "read"} /\ sOut' = <<>> /\ reset' = TRUE
      /\ UNCHANGED <<pair, n, c, up, down, cOut, want, got, cbuf, sbuf, iters, bad, cut>>
  BY DEF ServerWritesInVain, AfterWrite
<1>2. Types'
  BY <1>1 DEF Types, SettingUp
<1>3. Turn'
  BY <1>1 DEF Turn, ClientsTurn, ServersTurn, Nobodys, Counted, NotYet
<1>4. Contents'
  BY <1>1 DEF Contents
<1> QED BY <1>2, <1>3, <1>4

-----------------------------------------------------------------------------
LEMMA InvStep == IInv /\ [Next]_vars => IInv'
<1> SUFFICES ASSUME IInv, [Next]_vars PROVE IInv'
  OBVIOUS
<1>1. CASE ClientStep
  BY <1>1, InvSetUp, InvClientWrites, InvClientInVain, InvClientReadsLine, InvClientReadsWord,
     InvClientReadsRest, InvClientChecks DEF ClientStep
<1>2. CASE ServerStep
  BY <1>2, InvSetUp, InvServerReadsLine, InvServerReadsWord, InvServerReadsRest, InvServerChecks,
     InvServerWrites, InvServerInVain DEF ServerStep
<1>3. CASE UNCHANGED vars
  BY <1>3 DEF vars, IInv, Types, Turn, ClientsTurn, ServersTurn, Nobodys, Counted, Contents, Twos
<1> QED BY <1>1, <1>2, <1>3 DEF Next, ClientSpins, Finished

LEMMA Invariant == FairSpec => []IInv
<1> QED BY InvInit, InvStep, PTL DEF FairSpec

\* Neither direction ever holds more than the sockets do, the length my_server
\* takes a word for fits in its buffer ("[szbuf]"), and no iteration is made
\* beyond niters, whatever the words that were read in part.
THEOREM SamplesTypes == FairSpec => []TypeOK
<1>1. IInv => TypeOK
  BY DEF IInv, Types, TypeOK, NotYet, SettingUp
<1> QED BY <1>1, Invariant, PTL

\* For messages of any length, split anywhere: as long as words and lines came
\* whole the programs take turns, and the loops over partial reads, which ask
\* for the whole length each time, never take a byte of the next message.
THEOREM TakesTurns == FairSpec => []InTurn
<1>1. IInv => InTurn
  <2> SUFFICES ASSUME IInv, ~cut PROVE (up = <<>> \/ down = <<>>) /\ (pair = "bulk" => got.c <= n /\ got.s <= n)
    BY DEF InTurn
  <2>1. Types /\ ClientsTurn /\ ServersTurn /\ Nobodys /\ Counted
    BY DEF IInv, Turn
  <2>2. ASSUME c = "read" PROVE up = <<>> \/ down = <<>>
    <3>1. s \in {"accept", "rest"} => down = <<>>
      BY <2>1, <2>2 DEF ClientsTurn
    <3>2. s \in {"read", "write", "ended"} => up = <<>> \/ down = <<>>
      BY <2>1, <2>2 DEF ServersTurn
    <3>3. s \in {"accept", "read", "rest", "write", "ended"}
      BY <2>1, <2>2 DEF ClientsTurn
    <3> QED BY <3>1, <3>2, <3>3
  <2>3. ASSUME c # "read" PROVE up = <<>> \/ down = <<>>
    <3>1. c \in NotYet \cup {"write", "rest", "ended"}
      BY <2>1, <2>3 DEF Types
    <3>2. /\ c = "write" => down = <<>>
          /\ c = "rest" => up = <<>>
          /\ c = "ended" => down = <<>>
          /\ c \in NotYet => down = <<>>
      BY <2>1 DEF ClientsTurn, ServersTurn, Nobodys
    <3> QED BY <3>1, <3>2
  <2> QED BY <2>1, <2>2, <2>3 DEF Counted
<1> QED BY <1>1, Invariant, PTL

\* ... and every byte my_client looks at in an answer is one that my_server
\* put there for this message.
THEOREM AnswersAreRight == FairSpec => []AnswersRight
<1>1. IInv => AnswersRight
  BY DEF IInv, Contents, AnswersRight
<1> QED BY <1>1, Invariant, PTL
=============================================================================
