------------------------- MODULE RcliSessionProofs --------------------------
(***************************************************************************)
(* What a session gets, for every choice of the constants.  On any          *)
(* connection no response is taken for the answer of two calls.  A          *)
(* disciplined application has the variables of one R workspace (every step *)
(* of Rcli is a step of RemoteVars or none), and a server that has a        *)
(* request to answer whenever exec_str or set_vec waits for it.             *)
(***************************************************************************)
EXTENDS RcliProofs

-----------------------------------------------------------------------------
(* Each response once: the numbers of requests and responses only grow      *)
(* along the stream.                                                        *)

\* The number of the last call of which a whole request may have been sent.
LastSent == IF pc \in SendPcs THEN id - 1 ELSE id

\* Responses lie in the stream in the order of their requests.
InOrder ==
  /\ \A f \in frames : /\ f.start + HdrLen + f.len <= wpos
                       /\ f.id <= LastSent
                       /\ f.start >= rpos /\ f.id # 0 => f.id > ret.from
  /\ \A f, g \in frames : f.start < g.start /\ g.id # 0 => f.id < g.id

\* Requests wait in the order of their calls, and all of them are younger than
\* what has been answered.
Queued ==
  /\ \A i \in 1 .. Len(reqs) : /\ ret.from < reqs[i].id /\ reqs[i].id <= LastSent
                               /\ \A f \in frames : f.id < reqs[i].id
  /\ \A i, j \in 1 .. Len(reqs) : i < j => reqs[i].id < reqs[j].id

OInv == ret.from <= LastSent /\ InOrder /\ Queued

\* The numbers among the types.
Numbers ==
  /\ id \in Nat /\ LastSent \in Int /\ LastSent <= id /\ ret.from \in Nat
  /\ rpos \in Nat /\ wpos \in Nat /\ rpos <= wpos
  /\ \A f \in frames : f.id \in Nat /\ f.start \in Nat /\ f.len \in Nat
  /\ \A i \in 1 .. Len(reqs) : reqs[i].id \in Nat

LEMMA NumbersOK == TInv => Numbers
<1> SUFFICES ASSUME TInv PROVE Numbers
  OBVIOUS
<1>1. id \in Nat /\ rpos \in Nat /\ wpos \in Nat /\ rpos <= wpos
  BY ConstantsAssumption DEF TInv, WireOK
<1>2. ret.from \in Nat
  BY DEF TInv, OutcomeOK, Result
<1>3. \A f \in frames : f.id \in Nat /\ f.start \in Nat /\ f.len \in Nat
  BY DEF TInv, WireOK, Frame
<1>4. \A i \in 1 .. Len(reqs) : reqs[i].id \in Nat
  <2>1. \A r \in Request : r.id \in Nat
    BY DEF Request
  <2>2. \A i \in 1 .. Len(reqs) : reqs[i] \in Request
    <3> HIDE DEF Request
    <3> QED BY DEF TInv, WireOK
  <2> QED BY <2>1, <2>2
<1>5. LastSent \in Int /\ LastSent <= id
  BY <1>1 DEF LastSent
<1> QED BY <1>1, <1>2, <1>3, <1>4, <1>5 DEF Numbers

LEMMA OnceInit == Init => OInv
BY DEF Init, OInv, InOrder, Queued, LastSent, NoResult, SendPcs

-----------------------------------------------------------------------------
(* What most steps do: they drop responses that are read, or requests that   *)
(* will not be served, and hand out nothing new.                             *)

LEMMA KeepOnce ==
  ASSUME Numbers, Numbers', OInv,
         ret'.from \in {0, ret.from}, LastSent <= LastSent',
         frames' \subseteq frames, rpos <= rpos', wpos' = wpos, reqs' \in {reqs, <<>>}
  PROVE  OInv'
<1>0. LastSent \in Int /\ LastSent' \in Int /\ ret.from \in Nat
  BY DEF Numbers
<1>1. ret'.from <= ret.from /\ ret'.from \in Nat /\ ret'.from <= LastSent'
  BY <1>0 DEF OInv
<1>2. InOrder'
  <2>1. ASSUME NEW f \in frames'
        PROVE  /\ f.start + HdrLen + f.len <= wpos' /\ f.id <= LastSent'
               /\ f.start >= rpos' /\ f.id # 0 => f.id > ret'.from
    <3>1. f \in frames
      OBVIOUS
    <3>2. f.id \in Nat /\ f.start \in Nat /\ rpos \in Nat /\ rpos' \in Nat
      BY <3>1 DEF Numbers
    <3>3. /\ f.start + HdrLen + f.len <= wpos /\ f.id <= LastSent
          /\ f.start >= rpos /\ f.id # 0 => f.id > ret.from
      BY <3>1 DEF OInv, InOrder
    <3> QED BY <1>0, <1>1, <3>2, <3>3
  <2>2. \A f, g \in frames' : f.start < g.start /\ g.id # 0 => f.id < g.id
    BY DEF OInv, InOrder
  <2> QED BY <2>1, <2>2 DEF InOrder
<1>3. Queued'
  <2>1. CASE reqs' = <<>>
    BY <2>1 DEF Queued
  <2>2. CASE reqs' = reqs
    <3>1. ASSUME NEW i \in 1 .. Len(reqs)
          PROVE  /\ ret'.from < reqs[i].id /\ reqs[i].id <= LastSent'
                 /\ \A f \in frames' : f.id < reqs[i].id
      <4>1. reqs[i].id \in Nat
        BY DEF Numbers
      <4>2. /\ ret.from < reqs[i].id /\ reqs[i].id <= LastSent
            /\ \A f \in frames : f.id < reqs[i].id
        BY DEF OInv, Queued
      <4> QED BY <1>0, <1>1, <4>1, <4>2
    <3>2. \A i, j \in 1 .. Len(reqs) : i < j => reqs[i].id < reqs[j].id
      BY DEF OInv, Queued
    <3> QED BY <2>2, <3>1, <3>2 DEF Queued
  <2> QED BY <2>1, <2>2
<1> QED BY <1>1, <1>2, <1>3 DEF OInv

\* A call ends without an answer.
LEMMA FailOnce ==
  ASSUME Numbers, Numbers', OInv, NEW pcs, pcs \subseteq {"idle", "killed"},
         NEW status, FailTo(pcs, status), id' = id,
         frames' \subseteq frames, rpos <= rpos', wpos' = wpos, reqs' = reqs
  PROVE  OInv'
<1>1. ret'.from = 0
  BY DEF FailTo
<1>2. LastSent <= LastSent'
  <2>1. pc' \notin SendPcs
    BY DEF FailTo, SendPcs
  <2> QED BY <2>1 DEF Numbers, LastSent
<1> QED BY <1>1, <1>2, KeepOnce

\* ... or goes on reading.
LEMMA OnwardOnce ==
  ASSUME Numbers, Numbers', OInv, pc \notin SendPcs, pc' \notin SendPcs, ret' = ret, id' = id,
         frames' \subseteq frames, rpos <= rpos', wpos' = wpos, reqs' = reqs
  PROVE  OInv'
<1>1. LastSent <= LastSent'
  BY DEF Numbers, LastSent
<1> QED BY <1>1, KeepOnce

\* A call takes a response: what is left of the stream is behind it.
LEMMA ReturnOnce ==
  ASSUME Numbers, Numbers', OInv, pc \in ReadPcs, NEW n \in Nat, Consume(n), NEW from \in Nat,
         NEW ok, NEW val, Return(from, ok, val),
         from # 0 => \E h \in frames : h.id = from /\ h.start < rpos + n
  PROVE  OInv'
<1>0. /\ ret'.from = from /\ pc' = "idle" /\ id' = id /\ reqs' = reqs
      /\ wpos' = wpos /\ rpos' = rpos + n /\ frames' \subseteq frames
  BY DEF Return, Consume
<1>1. LastSent = id /\ LastSent' = id /\ id \in Nat
  BY <1>0 DEF Numbers, LastSent, SendPcs, ReadPcs
<1>2. from <= id
  <2>1. CASE from = 0
    BY <2>1, <1>1
  <2>2. CASE from # 0
    BY <2>2, <1>1 DEF OInv, InOrder
  <2> QED BY <2>1, <2>2
<1>3. InOrder'
  <2>1. ASSUME NEW f \in frames'
        PROVE  /\ f.start + HdrLen + f.len <= wpos' /\ f.id <= LastSent'
               /\ f.start >= rpos' /\ f.id # 0 => f.id > ret'.from
    <3>1. f \in frames /\ f.id \in Nat /\ f.start \in Nat /\ rpos \in Nat
      BY <1>0 DEF Numbers
    <3>2. f.start + HdrLen + f.len <= wpos' /\ f.id <= LastSent'
      BY <1>0, <1>1, <3>1 DEF OInv, InOrder
    <3>3. ASSUME f.start >= rpos', f.id # 0 PROVE f.id > from
      <4>1. CASE from = 0
        BY <3>1, <3>3, <4>1
      <4>2. CASE from # 0
        <5>1. PICK h \in frames : h.id = from /\ h.start < rpos + n
          BY <4>2
        <5>2. h.start \in Nat /\ h.start < f.start
          BY <1>0, <3>1, <3>3, <5>1 DEF Numbers
        <5> QED BY <3>1, <3>3, <5>1, <5>2 DEF OInv, InOrder
      <4> QED BY <4>1, <4>2
    <3> QED BY <1>0, <3>2, <3>3
  <2>2. \A f, g \in frames' : f.start < g.start /\ g.id # 0 => f.id < g.id
    BY <1>0 DEF OInv, InOrder
  <2> QED BY <2>1, <2>2 DEF InOrder
<1>4. Queued'
  <2>1. ASSUME NEW i \in 1 .. Len(reqs)
        PROVE  /\ from < reqs[i].id /\ reqs[i].id <= LastSent'
               /\ \A f \in frames' : f.id < reqs[i].id
    <3>1. reqs[i].id \in Nat /\ ret.from \in Nat
      BY DEF Numbers
    <3>2. /\ ret.from < reqs[i].id /\ reqs[i].id <= LastSent
          /\ \A f \in frames : f.id < reqs[i].id
      BY DEF OInv, Queued
    <3> QED BY <1>0, <1>1, <3>1, <3>2
  <2>2. \A i, j \in 1 .. Len(reqs) : i < j => reqs[i].id < reqs[j].id
    BY DEF OInv, Queued
  <2> QED BY <1>0, <2>1, <2>2 DEF Queued
<1> QED BY <1>0, <1>1, <1>2, <1>3, <1>4 DEF OInv

-----------------------------------------------------------------------------
(* One lemma for each group of actions.                                     *)

Typed == Numbers /\ Numbers' /\ TInv

LEMMA OnceApp == Typed /\ OInv /\ App => OInv'
<1>1. ASSUME Typed, OInv, NEW c \in Calls, Begin(c) PROVE OInv'
  <2>1. LastSent <= LastSent'
    BY <1>1 DEF Typed, Numbers, Begin, MayCall, LastSent, SendPcs
  <2> QED BY <1>1, <2>1, KeepOnce DEF Typed, Numbers, Begin, MayCall
<1>2. ASSUME Typed, OInv, NEW c \in Calls, Reject(c) PROVE OInv'
  <2>1. LastSent <= LastSent'
    BY <1>2 DEF Typed, Numbers, Reject, MayCall, LastSent, SendPcs
  <2> QED BY <1>2, <2>1, KeepOnce DEF Typed, Numbers, Reject, MayCall
<1>3. ASSUME Typed, OInv, CloseConn PROVE OInv'
  <2>1. LastSent <= LastSent'
    BY <1>3 DEF Typed, Numbers, CloseConn, client, LastSent, SendPcs
  <2> QED BY <1>3, <2>1, KeepOnce DEF Typed, Numbers, CloseConn, client
<1>4. ASSUME Typed, OInv, Rconnect PROVE OInv'
  BY <1>4 DEF Typed, OInv, InOrder, Queued, LastSent, Rconnect
<1> QED BY <1>1, <1>2, <1>3, <1>4 DEF App

\* With the last part of a request its number is the highest.
LEMMA OnceSendPart == ASSUME Typed, OInv, SendPart PROVE OInv'
<1>1. UNCHANGED <<id, ret, frames, rpos, wpos>> /\ pc \in SendPcs /\ pc' = NextSend
  BY DEF SendPart
<1>2. LastSent = id - 1 /\ LastSent <= LastSent'
  BY <1>1 DEF Typed, Numbers, LastSent
<1>3. CASE reqs' = reqs
  BY <1>1, <1>2, <1>3, KeepOnce DEF Typed, Numbers
<1>4. CASE reqs' = Append(reqs, [id |-> id, call |-> call]) /\ pc' = "readHdr"
  <2>1. LastSent' = id /\ id \in Nat /\ ret.from \in Nat
    BY <1>1, <1>4 DEF Typed, Numbers, LastSent, SendPcs
  <2>2. /\ Len(reqs') = Len(reqs) + 1 /\ Len(reqs) \in Nat
        /\ \A i \in 1 .. Len(reqs) : reqs'[i] = reqs[i]
        /\ reqs'[Len(reqs) + 1].id = id
    <3>1. reqs \in Seq(Request)
      BY DEF Typed, TInv, WireOK
    <3> QED BY <1>4, <3>1
  <2>3. ret.from < id /\ \A f \in frames : f.id \in Nat /\ f.id < id
    BY <1>2, <2>1 DEF Typed, Numbers, OInv, InOrder
  <2>4. \A i \in 1 .. Len(reqs) : reqs[i].id \in Nat /\ reqs[i].id < id
    BY <1>2, <2>1 DEF Typed, Numbers, OInv, Queued
  <2>5. InOrder'
    BY <1>1, <1>2, <2>1, <2>3 DEF OInv, InOrder
  <2>6. ASSUME NEW i \in 1 .. Len(reqs')
        PROVE  /\ ret.from < reqs'[i].id /\ reqs'[i].id <= id
               /\ \A f \in frames : f.id < reqs'[i].id
    <3>1. CASE i \in 1 .. Len(reqs)
      BY <2>1, <2>2, <2>4, <3>1 DEF OInv, Queued
    <3>2. CASE i = Len(reqs) + 1
      BY <2>1, <2>2, <2>3, <3>2
    <3> QED BY <2>2, <3>1, <3>2
  <2>7. ASSUME NEW i \in 1 .. Len(reqs'), NEW j \in 1 .. Len(reqs'), i < j
        PROVE  reqs'[i].id < reqs'[j].id
    <3>1. i \in 1 .. Len(reqs)
      BY <2>2, <2>7
    <3>2. CASE j \in 1 .. Len(reqs)
      BY <2>2, <2>7, <3>1, <3>2 DEF OInv, Queued
    <3>3. CASE j = Len(reqs) + 1
      BY <2>2, <2>4, <3>1, <3>3
    <3> QED BY <2>2, <3>2, <3>3
  <2>8. Queued'
    BY <1>1, <2>1, <2>6, <2>7 DEF Queued
  <2>9. ret'.from <= LastSent'
    BY <1>1, <2>1, <2>3
  <2> QED BY <2>5, <2>8, <2>9 DEF OInv
<1> QED BY <1>1, <1>3, <1>4 DEF SendPart

LEMMA OnceSend == Typed /\ OInv /\ Send => OInv'
<1>1. ASSUME Typed, OInv, SendFails PROVE OInv'
  <2>1. AfterFailure \subseteq {"idle", "killed"}
    BY DEF AfterFailure
  <2>2. /\ FailTo(AfterFailure, -1) /\ id' = id /\ frames' = frames /\ rpos' = rpos
        /\ wpos' = wpos /\ reqs' = reqs
    BY <1>1 DEF SendFails, Fail
  <2>3. rpos <= rpos' /\ frames' \subseteq frames /\ Numbers /\ Numbers'
    BY <1>1, <2>2 DEF Typed, Numbers
  <2> QED BY <1>1, <2>1, <2>2, <2>3, FailOnce
<1>2. ASSUME Typed, OInv, SendKills PROVE OInv'
  <2>1. LastSent <= LastSent'
    BY <1>2 DEF Typed, Numbers, SendKills, LastSent, SendPcs
  <2> QED BY <1>2, <2>1, KeepOnce DEF Typed, Numbers, SendKills
<1> QED BY <1>1, <1>2, OnceSendPart DEF Send

\* Reading n bytes and failing.
LEMMA OnceFail ==
  ASSUME Typed, OInv, NEW n \in Nat, Consume(n), NEW status, NEW pcs,
         pcs \subseteq {"idle", "killed"}, FailTo(pcs, status)
  PROVE  OInv'
<1>1. id' = id /\ frames' \subseteq frames /\ wpos' = wpos /\ reqs' = reqs
  BY DEF Consume
<1>2. rpos <= rpos'
  BY DEF Typed, Numbers, Consume
<1> QED BY <1>1, <1>2, FailOnce DEF Typed

\* ... and reading on.
LEMMA OnceOnward ==
  ASSUME Typed, OInv, NEW n \in Nat, Consume(n), pc \in ReadPcs, pc' \in ReadPcs, ret' = ret
  PROVE  OInv'
<1>1. id' = id /\ frames' \subseteq frames /\ wpos' = wpos /\ reqs' = reqs
  BY DEF Consume
<1>2. rpos <= rpos'
  BY DEF Typed, Numbers, Consume
<1>3. pc \notin SendPcs /\ pc' \notin SendPcs
  BY DEF ReadPcs, SendPcs
<1> QED BY <1>1, <1>2, <1>3, OnwardOnce DEF Typed

\* A header that is read is that of a response that starts there, or none's.
LEMMA SeenStarts ==
  ASSUME NEW h \in HdrSeen, h.id # 0
  PROVE  h \in frames /\ h.start = rpos
<1> DEFINE here == {f \in frames : f.start = rpos}
           garbage == [id : {0}, start : {rpos}, len : GarbageLens, ok : {FALSE}, val : {NoVal}]
<1>1. \A g \in garbage : g.id = 0
  OBVIOUS
<1>2. h \in here \/ h \in garbage
  BY Zenon DEF HdrSeen
<1> QED BY <1>1, <1>2

LEMMA OnceReturnHdr ==
  ASSUME Typed, OInv, ReadHdr, NEW h \in HdrSeen, Return(h.id, h.ok, NoVal)
  PROVE  OInv'
<1>1. Consume(HdrLen) /\ HdrLen \in Nat /\ pc \in ReadPcs
  BY DEF ReadHdr, HdrLen, ReadPcs
<1>2. h.id \in Nat
  BY HdrSeenOK DEF Typed, TInv
<1>3. h.id # 0 => \E f \in frames : f.id = h.id /\ f.start < rpos + HdrLen
  BY SeenStarts DEF Typed, Numbers, HdrLen
<1> QED BY <1>1, <1>2, <1>3, ReturnOnce DEF Typed

LEMMA OnceReadHdr ==
  ASSUME Typed, OInv, ExecVoidReadHdr \/ ExecEvalReadHdr \/ RawReadHdr \/ SetVecReadHdr
  PROVE  OInv'
<1>1. ReadHdr
  BY DEF ExecVoidReadHdr, ExecEvalReadHdr, RawReadHdr, SetVecReadHdr
<1>2. Consume(HdrLen) /\ HdrLen \in Nat /\ pc \in ReadPcs
  BY <1>1 DEF ReadHdr, HdrLen, ReadPcs
<1>3. CASE \E h \in HdrSeen : Return(h.id, h.ok, NoVal)
  BY <1>1, <1>3, OnceReturnHdr
<1>4. CASE Fail(-1)
  <2>1. AfterFailure \subseteq {"idle", "killed"}
    BY DEF AfterFailure
  <2> QED BY <1>2, <1>4, <2>1, OnceFail DEF Fail
<1>5. CASE pc' = "readSub" /\ ret' = ret
  <2>1. pc' \in ReadPcs
    BY <1>5 DEF ReadPcs
  <2> QED BY <1>2, <1>5, <2>1, OnceOnward
<1> QED
  <2>1. CASE ExecVoidReadHdr
    BY <1>3, <2>1 DEF ExecVoidReadHdr
  <2>2. CASE ExecEvalReadHdr
    BY <1>4, <1>5, <2>2 DEF ExecEvalReadHdr
  <2>3. CASE RawReadHdr
    BY <1>5, <2>3 DEF RawReadHdr
  <2>4. CASE SetVecReadHdr
    BY <1>3, <1>4, <2>4 DEF SetVecReadHdr
  <2> QED BY <2>1, <2>2, <2>3, <2>4

LEMMA OnceReadFails == ASSUME Typed, OInv, BufFails \/ RawFails \/ RawShortSub PROVE OInv'
<1>1. AfterFailure \subseteq {"idle", "killed"}
  BY DEF AfterFailure
<1>2. \E n \in Nat, status \in {-1, -2, -3} : Consume(n) /\ FailTo(AfterFailure, status)
  <2>1. CASE BufFails
    <3>1. Need \in Nat
      BY <2>1, NeedNat DEF BufFails, Typed
    <3>2. PICK k \in 0 .. (Need - 1) : Consume(k) /\ (Fail(-2) \/ Fail(-3))
      BY <2>1, Zenon DEF BufFails
    <3>3. k \in Nat
      BY <3>1
    <3> QED BY <3>2, <3>3 DEF Fail
  <2>2. CASE RawFails
    BY <2>2 DEF RawFails, Fail
  <2>3. CASE RawShortSub
    <3>1. PICK k \in 1 .. (SubLen - 1) : ShortBy(k) /\ Fail(-1)
      BY <2>3 DEF RawShortSub
    <3> QED BY <3>1 DEF ShortBy, Fail, SubLen
  <2> QED BY <2>1, <2>2, <2>3
<1> QED BY <1>1, <1>2, OnceFail

LEMMA OnceReadPayload ==
  ASSUME Typed, OInv, ReadSub \/ GetVecReadCount \/ ReadData \/ ShortScalar
  PROVE  OInv'
<1>1. AfterFailure \subseteq {"idle", "killed"}
  BY DEF AfterFailure
<1>2. CASE ReadSub
  <2>1. Consume(SubLen) /\ SubLen \in Nat /\ pc \in ReadPcs
    BY <1>2 DEF ReadSub, SubLen, ReadPcs
  <2>2. CASE Fail(-1)
    BY <1>1, <2>1, <2>2, OnceFail DEF Fail
  <2>3. CASE pc' \in ReadPcs /\ ret' = ret
    BY <2>1, <2>3, OnceOnward
  <2> QED BY <1>2, <2>2, <2>3 DEF ReadSub, ReadPcs
<1>3. CASE GetVecReadCount
  <2>1. Consume(CountLen) /\ CountLen \in Nat /\ pc \in ReadPcs
    BY <1>3 DEF GetVecReadCount, CountLen, ReadPcs
  <2>2. CASE FailTo({"idle"}, -1)
    BY <2>1, <2>2, OnceFail
  <2>3. CASE pc' \in ReadPcs /\ ret' = ret
    BY <2>1, <2>3, OnceOnward
  <2> QED BY <1>3, <2>2, <2>3 DEF GetVecReadCount, ReadPcs
<1>4. ASSUME pc = "readData" PROVE pc \in ReadPcs /\ DataLen \in Nat
  BY <1>4, DataLenNat DEF Typed, TInv, OutcomeOK, WireOK, Named, ReadPcs
<1>5. CASE ReadData
  <2>1. pc \in ReadPcs /\ DataLen \in Nat /\ Consume(DataLen)
    BY <1>4, <1>5 DEF ReadData
  <2>2. CASE Return(0, FALSE, Junk)
    BY <2>1, <2>2, ReturnOnce DEF Typed
  <2>3. ASSUME NEW f \in DataSeen, Return(f.id, TRUE, Handed(f.val)) PROVE OInv'
    <3>1. f \in frames /\ f.start + HdrLen + SubLen + Skip = rpos
      BY DEF DataSeen
    <3>2. f.id \in Nat /\ f.start \in Nat /\ Skip \in Nat
      BY <3>1 DEF Typed, Numbers, Skip, CountLen
    <3>3. f.start < rpos + DataLen
      BY <2>1, <3>1, <3>2 DEF HdrLen, SubLen
    <3> QED BY <2>1, <2>3, <3>1, <3>2, <3>3, ReturnOnce DEF Typed
  <2> QED BY <1>5, <2>2, <2>3 DEF ReadData
<1>6. CASE ShortScalar
  <2>1. pc \in ReadPcs /\ DataLen \in Nat /\ Return(0, FALSE, Junk)
    BY <1>4, <1>6 DEF ShortScalar
  <2>2. PICK k \in 1 .. (DataLen - 1) : Consume(k)
    BY <1>6 DEF ShortScalar, ShortBy
  <2>3. k \in Nat
    BY <2>1
  <2> QED BY <2>1, <2>2, <2>3, ReturnOnce DEF Typed
<1> QED BY <1>2, <1>3, <1>5, <1>6

-----------------------------------------------------------------------------
(* The server.                                                               *)

\* The response to the oldest request is put behind all others, and the rest
\* of the requests are younger.
LEMMA OnceAnswer ==
  ASSUME Typed, OInv, reqs # <<>>, reqs' = Tail(reqs), NEW ok, NEW val, NEW len \in Nat,
         Respond(Head(reqs).id, ok, len, val)
  PROVE  OInv'
<1> DEFINE n == Head(reqs).id
           new == [id |-> n, start |-> wpos, len |-> len, ok |-> ok, val |-> val]
<1>1. /\ frames' = frames \cup {new} /\ wpos' = wpos + HdrLen + len /\ rpos' = rpos
      /\ ret' = ret /\ LastSent' = LastSent
  BY DEF Respond, client, LastSent
<1>2. /\ new.id = n /\ new.start = wpos /\ new.len = len
  OBVIOUS
<1>3. /\ Len(reqs) \in Nat \ {0} /\ Len(reqs') = Len(reqs) - 1
      /\ \A i \in 1 .. Len(reqs') : i + 1 \in 1 .. Len(reqs) /\ reqs'[i] = reqs[i + 1]
      /\ n = reqs[1].id /\ 1 \in 1 .. Len(reqs)
  <2>1. reqs \in Seq(Request)
    BY DEF Typed, TInv, WireOK
  <2> QED BY <2>1
<1>4. /\ n \in Nat /\ ret.from \in Nat /\ ret.from < n /\ n <= LastSent /\ LastSent \in Int
      /\ \A f \in frames : f.id < n
  BY <1>3 DEF Typed, Numbers, OInv, Queued
<1>5. ASSUME NEW f \in frames PROVE f.start \in Nat /\ f.start < wpos
  <2>1. f.start \in Nat /\ f.len \in Nat /\ wpos \in Nat
    BY DEF Typed, Numbers
  <2>2. f.start + HdrLen + f.len <= wpos
    BY DEF OInv, InOrder
  <2> QED BY <2>1, <2>2 DEF HdrLen
<1> HIDE DEF n, new
<1>6. InOrder'
  <2>1. ASSUME NEW f \in frames'
        PROVE  /\ f.start + HdrLen + f.len <= wpos' /\ f.id <= LastSent'
               /\ f.start >= rpos' /\ f.id # 0 => f.id > ret'.from
    <3>1. CASE f \in frames
      <4>1. f.start + HdrLen + f.len <= wpos
        BY <3>1 DEF OInv, InOrder
      <4>2. f.start + HdrLen + f.len <= wpos'
        BY <1>1, <3>1, <4>1 DEF Typed, Numbers, HdrLen
      <4> QED BY <1>1, <3>1, <4>2 DEF OInv, InOrder
    <3>2. CASE f = new
      BY <1>1, <1>2, <1>4, <3>2 DEF Typed, Numbers, HdrLen
    <3> QED BY <1>1, <3>1, <3>2
  <2>2. ASSUME NEW f \in frames', NEW g \in frames', f.start < g.start, g.id # 0
        PROVE  f.id < g.id
    <3>1. CASE f \in frames /\ g \in frames
      BY <2>2, <3>1 DEF OInv, InOrder
    <3>2. CASE f \in frames /\ g = new
      BY <1>2, <1>4, <3>2
    <3>3. CASE f = new
      <4>1. g.start <= wpos /\ wpos \in Nat /\ g.start \in Nat
        BY <1>1, <1>2, <1>5 DEF Typed, Numbers
      <4> QED BY <1>2, <2>2, <3>3, <4>1
    <3> QED BY <1>1, <3>1, <3>2, <3>3
  <2> QED BY <2>1, <2>2 DEF InOrder
<1>7. Queued'
  <2>1. ASSUME NEW i \in 1 .. Len(reqs')
        PROVE  /\ ret'.from < reqs'[i].id /\ reqs'[i].id <= LastSent'
               /\ \A f \in frames' : f.id < reqs'[i].id
    <3>1. i \in Nat /\ 1 < i + 1 /\ i + 1 \in 1 .. Len(reqs)
      BY <1>3
    <3>2. n < reqs[i + 1].id
      BY <1>3, <3>1 DEF OInv, Queued
    <3>3. /\ ret.from < reqs[i + 1].id /\ reqs[i + 1].id <= LastSent
          /\ \A f \in frames : f.id < reqs[i + 1].id
      BY <3>1 DEF OInv, Queued
    <3> QED BY <1>1, <1>2, <1>3, <3>2, <3>3
  <2>2. ASSUME NEW i \in 1 .. Len(reqs'), NEW j \in 1 .. Len(reqs'), i < j
        PROVE  reqs'[i].id < reqs'[j].id
    <3>1. i + 1 \in 1 .. Len(reqs) /\ j + 1 \in 1 .. Len(reqs) /\ i + 1 < j + 1
      BY <1>3, <2>2
    <3> QED BY <1>3, <3>1 DEF OInv, Queued
  <2> QED BY <2>1, <2>2 DEF Queued
<1> QED BY <1>1, <1>6, <1>7 DEF OInv

\* What answers a torn request answers nobody.
LEMMA OnceNobody ==
  ASSUME Typed, OInv, frames = {}, reqs' = reqs, NEW ok, NEW val, NEW len \in Nat,
         Respond(0, ok, len, val)
  PROVE  OInv'
<1> DEFINE new == [id |-> 0, start |-> wpos, len |-> len, ok |-> ok, val |-> val]
<1>1. new.id = 0 /\ new.start = wpos /\ new.len = len
  OBVIOUS
<1>2. /\ frames' = {new} /\ wpos' = wpos + HdrLen + len /\ ret' = ret
      /\ LastSent' = LastSent /\ reqs' = reqs
  BY DEF Respond, client, LastSent
<1> HIDE DEF new
<1>3. 0 <= LastSent
  BY DEF Typed, Numbers, OInv
<1>4. InOrder'
  BY <1>1, <1>2, <1>3 DEF Typed, Numbers, InOrder, HdrLen
<1>5. ASSUME NEW i \in 1 .. Len(reqs) PROVE 0 < reqs[i].id
  BY DEF Typed, Numbers, OInv, Queued
<1>6. Queued'
  BY <1>1, <1>2, <1>5 DEF OInv, Queued
<1> QED BY <1>2, <1>4, <1>6 DEF OInv

LEMMA OnceTorn == ASSUME Typed, OInv, ServeTorn PROVE OInv'
<1>1. frames = {} /\ reqs' = reqs
  BY Zenon DEF ServeTorn
<1>2. CASE \E l \in ErrTexts : Respond(0, FALSE, l, NoVal)
  <2>1. ErrTexts \subseteq Nat
    BY ConstantsAssumption
  <2> QED BY <1>1, <1>2, <2>1, OnceNobody
<1>3. CASE \E v \in Values : Respond(0, TRUE, 0, NoVal) \/ Respond(0, TRUE, SubLen + v.size, v)
  <2>1. 0 \in Nat /\ \A v \in Values : SubLen + v.size \in Nat
    BY ValueSizes DEF SubLen
  <2> QED BY <1>1, <1>3, <2>1, OnceNobody
<1> QED BY <1>2, <1>3, Zenon DEF ServeTorn

LEMMA OnceServer == Typed /\ OInv /\ Server => OInv'
<1>1. ASSUME Typed, reqs # <<>> PROVE Head(reqs) \in Request
  BY <1>1 DEF Typed, TInv, WireOK
<1>2. ASSUME Typed, OInv, ServeOk PROVE OInv'
  <2>1. CASE Respond(Head(reqs).id, TRUE, 0, NoVal)
    <3>1. 0 \in Nat
      OBVIOUS
    <3> QED BY <1>2, <2>1, <3>1, OnceAnswer DEF ServeOk
  <2>2. CASE Respond(Head(reqs).id, TRUE, SubLen + Served.size, Served)
    <3>1. Head(reqs).call.val \in Values \cup {NoVal} /\ Head(reqs).call.name \in Names
      BY <1>1, <1>2, CallsAssumption DEF ServeOk, Request, Call
    <3>2. Served \in Values
      BY <1>2, <3>1 DEF Served, ServeOk, Typed, TInv, WireOK
    <3>3. SubLen + Served.size \in Nat
      BY <3>2, ValueSizes DEF SubLen
    <3> QED BY <1>2, <2>2, <3>3, OnceAnswer DEF ServeOk
  <2> QED BY <1>2, <2>1, <2>2 DEF ServeOk
<1>3. ASSUME Typed, OInv, ServeErr PROVE OInv'
  <2>1. PICK l \in ErrTexts : Respond(Head(reqs).id, FALSE, l, NoVal)
    BY <1>3 DEF ServeErr
  <2>2. l \in Nat
    BY ConstantsAssumption
  <2> QED BY <1>3, <2>1, <2>2, OnceAnswer DEF ServeErr
<1>4. ASSUME Typed, OInv, ServerClose PROVE OInv'
  <2>1. LastSent <= LastSent'
    BY <1>4 DEF Typed, Numbers, ServerClose, client, LastSent
  <2>2. rpos <= rpos' /\ Numbers /\ Numbers'
    BY <1>4 DEF ServerClose, Typed, Numbers
  <2> QED BY <1>4, <2>1, <2>2, KeepOnce DEF ServerClose, client
<1> QED BY <1>2, <1>3, <1>4, OnceTorn DEF Server

LEMMA OnceStutter == OInv /\ UNCHANGED vars => OInv'
BY DEF vars, OInv, InOrder, Queued, LastSent

LEMMA OnceStep == Typed /\ OInv /\ [Next]_vars => OInv'
BY OnceApp, OnceSend, OnceReadFails, OnceReadHdr, OnceReadPayload, OnceServer, OnceStutter
   DEF Next, Read, Done

LEMMA OnceInvariant == Spec => []OInv
<1>1. TInv /\ TInv' => Typed
  BY NumbersOK, PTL DEF Typed
<1> QED BY <1>1, OnceInit, OnceStep, TypeInvariant, PTL DEF Spec

\* Whatever failed before on the connection, exec_str, get_* and set_vec take
\* responses in the order of the requests, each at most once, though perhaps
\* for the answer of a later call than the one it was sent to.
THEOREM EachAnsweredOnce == Spec => []AnsweredOnce
<1>1. TInv /\ OInv => AnsweredOnce
  BY NumbersOK DEF OInv, InOrder, Queued, AnsweredOnce, Numbers
<1> QED BY <1>1, OnceInvariant, TypeInvariant, PTL
-----------------------------------------------------------------------------
(* The disciplined application, under the hypotheses of StaysInStep.        *)

\* A call is in progress only on a connection that has not failed.
Up == pc \notin {"idle", "killed"} => conn # "closed" /\ ~spoiled

LEMMA UpStep == ASSUME Disciplined PROVE Up /\ [Next]_vars => Up'
<1>1. ASSUME Up, App PROVE Up'
  BY <1>1 DEF Up, App, Begin, Reject, MayCall, CloseConn, Rconnect, client
<1>2. ASSUME Up, Send PROVE Up'
  BY <1>2 DEF Up, Send, SendPart, SendFails, SendKills, SendPcs, Fail, FailTo, AfterFailure
<1>3. ASSUME Up, NEW status, Fail(status) PROVE Up'
  BY <1>3 DEF Up, Fail, FailTo, AfterFailure
<1>4. ASSUME Up, NEW from, NEW ok, NEW val, Return(from, ok, val) PROVE Up'
  BY <1>4 DEF Up, Return
<1>5. ASSUME Up, pc \in ReadPcs, conn' = conn, spoiled' = spoiled PROVE Up'
  BY <1>5 DEF Up, ReadPcs
<1>6. ASSUME Up, BufFails \/ RawFails \/ RawShortSub PROVE Up'
  BY <1>3, <1>6, Zenon DEF BufFails, RawFails, RawShortSub
<1>7. ASSUME Up, ExecVoidReadHdr \/ SetVecReadHdr PROVE Up'
  BY <1>3, <1>4, <1>7, Zenon DEF ExecVoidReadHdr, SetVecReadHdr
<1>8. ASSUME Up, ReadHdr, UNCHANGED spoiled PROVE Up'
  BY <1>5, <1>8 DEF ReadHdr, Consume, ReadPcs
<1>9. ASSUME Up, ExecEvalReadHdr \/ RawReadHdr PROVE Up'
  BY <1>3, <1>8, <1>9, Zenon DEF ExecEvalReadHdr, RawReadHdr
<1>10. ASSUME Up, ReadSub PROVE Up'
  <2>1. pc \in ReadPcs /\ conn' = conn
    BY <1>10 DEF ReadSub, Consume, ReadPcs
  <2>2. Fail(-1) \/ UNCHANGED spoiled
    BY <1>10, Zenon DEF ReadSub
  <2> QED BY <1>3, <1>5, <1>10, <2>1, <2>2
<1>11. ASSUME Up, GetVecReadCount PROVE Up'
  BY <1>11 DEF Up, GetVecReadCount, FailTo, Consume
<1>12. ASSUME Up, ReadData \/ ShortScalar PROVE Up'
  BY <1>4, <1>12, Zenon DEF ReadData, ShortScalar
<1>13. ASSUME Up, Read PROVE Up'
  BY <1>6, <1>7, <1>9, <1>10, <1>11, <1>12, <1>13 DEF Read
<1>14. ASSUME Up, Server PROVE Up'
  BY <1>14 DEF Up, Server, ServeOk, ServeErr, ServeTorn, ServerClose, Respond, client
<1>15. ASSUME Up, UNCHANGED vars PROVE Up'
  BY <1>15 DEF Up, vars
<1> QED BY <1>1, <1>2, <1>13, <1>14, <1>15 DEF Next, Done

LEMMA UpInvariant == ASSUME Disciplined PROVE Spec => []Up
<1>1. Init => Up
  BY DEF Init, Up
<1> QED BY <1>1, UpStep, PTL DEF Spec

-----------------------------------------------------------------------------
(* The mapping, case by case.                                               *)

NoAnswer == [st |-> "pending", val |-> NoVal]
Denied   == [st |-> "refused", val |-> NoVal]
Given(f) == IF f.ok THEN [st |-> "done", val |-> f.val] ELSE Denied

LEMMA Pendings == NoAnswer # Denied /\ \A f : Given(f) # NoAnswer
BY DEF NoAnswer, Denied, Given

LEMMA MapIdle == ASSUME Phase # "busy" PROVE Ans = NoAnswer
BY DEF Ans, NoAnswer

LEMMA MapEmpty == ASSUME frames = {}, pc # "readSub" PROVE Ans = NoAnswer
BY DEF Ans, NoAnswer

LEMMA MapGiven == ASSUME NEW f, frames = {f}, Phase = "busy" PROVE Ans = Given(f)
<1>1. (CHOOSE g \in frames : TRUE) = f
  <2>1. \E g \in frames : TRUE
    OBVIOUS
  <2>2. (CHOOSE g \in frames : TRUE) \in frames
    BY <2>1, Zenon
  <2> QED BY <2>2
<1>2. frames # {}
  OBVIOUS
<1> HIDE DEF Denied
<1> QED BY <1>1, <1>2 DEF Ans, Given, Denied

LEMMA MapTaken == ASSUME frames = {}, pc = "readSub", Phase = "busy" PROVE Ans = Denied
BY DEF Ans, Denied

LEMMA PhaseBusy == ASSUME Up, pc \in SendPcs \cup ReadPcs PROVE Phase = "busy"
BY DEF Up, Phase, SendPcs, ReadPcs

\* A step the workspace does not notice.
Unnoticed == /\ Phase' = Phase /\ Ans' = Ans /\ call' = call
             /\ Phase # "down" => store' = store
             /\ ret'.status = ret.status /\ ret'.val = ret.val

LEMMA StutterStep == Unnoticed => UNCHANGED RV!avars
BY DEF Unnoticed, RV!avars, Fresh

\* A call that fails.
LEMMA FailRefines ==
  ASSUME Phase = "busy", call' = call, NEW pcs, NEW s \in {-1, -2, -3}, FailTo(pcs, s)
  PROVE  RV!Next
<1>1. Phase' = "down" /\ ret'.status = s /\ ret'.val = NoVal
  BY DEF FailTo, Phase
<1>2. Ans' = NoAnswer
  BY <1>1 DEF Ans, NoAnswer
<1>3. RV!Fail
  BY <1>1, <1>2 DEF RV!Fail, RV!Down, RV!Pending, RV!Fresh, Fresh, NoAnswer
<1> QED BY <1>3 DEF RV!Next

-----------------------------------------------------------------------------
(* Every action is a step of the remote variables or none.                  *)

Good == TInv /\ IInv /\ Up

LEMMA InitRefines == Init => RV!Init
<1> SUFFICES ASSUME Init PROVE RV!Init
  OBVIOUS
<1>1. Phase = "idle" /\ call \in Calls /\ store = Fresh /\ ret = NoResult
  BY DEF Init, Phase
<1>2. Ans = NoAnswer
  BY <1>1, MapIdle
<1> QED BY <1>1, <1>2 DEF RV!Init, RV!Pending, RV!Fresh, Fresh, NoAnswer, NoResult

LEMMA AppRefines == ASSUME Good, Disciplined, App PROVE [RV!Next]_(RV!avars)
<1>1. ASSUME NEW c \in Calls, Begin(c) PROVE RV!Next
  <2>1. /\ pc = "idle" /\ pc' = "sendHdr" /\ conn # "closed" /\ ~spoiled /\ c.name # NoName
        /\ call' = c /\ UNCHANGED <<ret, spoiled, conn, frames, store>>
    BY <1>1 DEF Begin, MayCall
  <2>2. Phase = "idle" /\ Phase' = "busy"
    BY <2>1 DEF Phase
  <2>3. frames' = {} /\ pc' # "readSub"
    BY <2>1 DEF Good, IInv, InStep, Quiet
  <2>4. Ans' = NoAnswer
    BY <2>3 DEF Ans, NoAnswer
  <2>5. RV!Invoke(c)
    BY <2>1, <2>2, <2>4 DEF RV!Invoke, RV!Pending, NoAnswer
  <2> QED BY <2>5 DEF RV!Next
<1>2. ASSUME NEW c \in Calls, Reject(c) PROVE RV!Next
  <2>1. /\ pc = "idle" /\ pc' \in {"idle", "killed"} /\ conn # "closed" /\ ~spoiled
        /\ c.name = NoName /\ call' = c /\ UNCHANGED <<spoiled, conn, store>>
        /\ ret'.status = -1 /\ ret'.val = NoVal
    BY <1>2 DEF Reject, MayCall
  <2>2. Phase = "idle" /\ Phase' \in {"idle", "down"}
    BY <2>1 DEF Phase
  <2>3. Ans = NoAnswer /\ Ans' = NoAnswer
    BY <2>2 DEF Ans, NoAnswer
  <2>4. CASE Phase' = "idle"
    <3>1. RV!Reject(c)
      BY <2>1, <2>2, <2>3, <2>4 DEF RV!Reject
    <3> QED BY <3>1 DEF RV!Next
  <2>5. CASE Phase' = "down"
    <3>1. RV!LeaveRejected
      BY <2>1, <2>2, <2>3, <2>5
         DEF RV!LeaveRejected, RV!Down, RV!Pending, RV!Fresh, Fresh, NoAnswer
    <3> QED BY <3>1 DEF RV!Next
  <2> QED BY <2>2, <2>4, <2>5
<1>3. ASSUME CloseConn PROVE [RV!Next]_(RV!avars)
  <2>1. /\ pc = "idle" /\ conn' = "closed"
        /\ UNCHANGED <<pc, call, ret, spoiled, frames, store>>
    BY <1>3 DEF CloseConn, client
  <2>2. Phase \in {"idle", "down"} /\ Phase' = "down"
    BY <2>1 DEF Phase
  <2>3. Ans = NoAnswer /\ Ans' = NoAnswer
    BY <2>2 DEF Ans, NoAnswer
  <2>4. CASE Phase = "idle"
    <3>1. RV!Leave
      BY <2>1, <2>2, <2>3, <2>4 DEF RV!Leave, RV!Down, RV!Pending, RV!Fresh, Fresh, NoAnswer
    <3> QED BY <3>1 DEF RV!Next
  <2>5. CASE Phase = "down"
    BY <2>1, <2>2, <2>3, <2>5, StutterStep DEF Unnoticed
  <2> QED BY <2>2, <2>4, <2>5
<1>4. ASSUME Rconnect PROVE RV!Next
  <2>1. /\ pc = "idle" /\ conn = "closed" /\ conn' = "open" /\ spoiled' = FALSE
        /\ store' = Fresh /\ UNCHANGED <<pc, call, ret>>
    BY <1>4 DEF Rconnect
  <2>2. Phase = "down" /\ Phase' = "idle"
    BY <2>1 DEF Phase
  <2>3. Ans = NoAnswer /\ Ans' = NoAnswer
    BY <2>2 DEF Ans, NoAnswer
  <2>4. RV!Connect
    BY <2>1, <2>2, <2>3 DEF RV!Connect
  <2> QED BY <2>4 DEF RV!Next
<1> QED BY <1>1, <1>2, <1>3, <1>4 DEF App

LEMMA SendRefines == ASSUME Good, Send PROVE [RV!Next]_(RV!avars)
<1>1. pc \in SendPcs
  BY DEF Send, SendPart, SendFails, SendKills
<1>2. Phase = "busy" /\ frames = {}
  BY <1>1, PhaseBusy DEF Good, IInv, InStep, Up, Quiet, SendPcs
<1>3. Ans = NoAnswer
  BY <1>1, <1>2, MapEmpty DEF SendPcs
<1>4. CASE SendPart
  <2>1. pc' \in SendPcs \cup {"readHdr"} /\ UNCHANGED <<call, ret, spoiled, conn, frames, store>>
    BY <1>4 DEF SendPart, NextSend, SendPcs
  <2>2. Phase' = "busy" /\ frames' = {} /\ pc' # "readSub"
    BY <1>1, <1>2, <2>1 DEF Phase, SendPcs, Good, Up
  <2>3. Ans' = NoAnswer
    BY <2>2 DEF Ans, NoAnswer
  <2> QED BY <1>2, <1>3, <2>1, <2>2, <2>3, StutterStep DEF Unnoticed
<1>5. CASE SendFails
  BY <1>2, <1>5, FailRefines DEF SendFails, Fail
<1>6. CASE SendKills
  <2>1. pc' = "killed" /\ UNCHANGED <<call, ret>>
    BY <1>6 DEF SendKills
  <2>2. Phase' = "down"
    BY <2>1 DEF Phase
  <2>3. Ans' = NoAnswer
    BY <2>2 DEF Ans, NoAnswer
  <2>4. RV!Leave
    BY <1>2, <2>1, <2>2, <2>3 DEF RV!Leave, RV!Down, RV!Pending, RV!Fresh, Fresh, NoAnswer
  <2> QED BY <2>4 DEF RV!Next
<1> QED BY <1>4, <1>5, <1>6 DEF Send

\* A call that returns what the response f says.
LEMMA ReturnRefines ==
  ASSUME Good, pc \in ReadPcs, NEW f, frames = {f}, NEW n, Consume(n), NEW ok, NEW val,
         Return(f.id, ok, val),
         IF call.fn \in VoidFns THEN val = NoVal
         ELSE f.ok /\ val = RV!Received(call, f.val) /\ call.xt \in {"any", f.val.xt}
  PROVE  RV!Next
<1>1. /\ pc' = "idle" /\ UNCHANGED <<call, conn, spoiled, store>>
      /\ ret'.status = 0 /\ ret'.val = val
  BY DEF Return, Consume
<1>2. Phase = "busy" /\ Phase' = "idle"
  BY <1>1, PhaseBusy DEF Good, Up, Phase, ReadPcs
<1>3. Ans = Given(f) /\ Ans # NoAnswer
  BY <1>2, MapGiven, Pendings
<1>4. Ans' = NoAnswer
  BY <1>2 DEF Ans, NoAnswer
<1>5. CASE call.fn \in VoidFns
  <2>1. RV!ReturnVoid
    BY <1>1, <1>2, <1>3, <1>4, <1>5 DEF RV!ReturnVoid, RV!Pending, NoAnswer
  <2> QED BY <2>1 DEF RV!Next
<1>6. CASE call.fn \notin VoidFns
  <2>1. Ans.st = "done" /\ Ans.val = f.val
    BY <1>3, <1>6 DEF Given
  <2>2. RV!ReturnValue
    BY <1>1, <1>2, <1>4, <1>6, <2>1 DEF RV!ReturnValue, RV!Pending, NoAnswer
  <2> QED BY <2>2 DEF RV!Next
<1> QED BY <1>5, <1>6

\* A read in the middle of the response.
LEMMA OnwardRefines ==
  ASSUME Good, pc \in ReadPcs, NEW f, frames = {f}, NEW n, Consume(n), UNCHANGED <<ret, spoiled>>,
         \/ frames' = {f} /\ pc' \in ReadPcs
         \/ frames' = {} /\ ~f.ok /\ pc' = "readSub"
  PROVE  [RV!Next]_(RV!avars)
<1>1. UNCHANGED <<call, conn, store>> /\ pc' \in ReadPcs
  BY DEF Consume, ReadPcs
<1>2. Phase = "busy" /\ Phase' = "busy"
  BY <1>1, PhaseBusy DEF Good, Up, Phase, ReadPcs
<1>3. Ans = Given(f)
  BY <1>2, MapGiven
<1>4. Ans' = Given(f)
  <2>1. CASE frames' = {f}
    <3>1. (CHOOSE g \in {f} : TRUE) = f
      OBVIOUS
    <3>2. frames' # {} /\ (CHOOSE g \in frames' : TRUE) = f
      BY <2>1, <3>1
    <3> QED BY <1>2, <3>2 DEF Ans, Given, Denied
  <2>2. CASE frames' = {} /\ ~f.ok /\ pc' = "readSub"
    BY <1>2, <2>2 DEF Ans, Given, Denied
  <2> QED BY <2>1, <2>2
<1> QED BY <1>1, <1>2, <1>3, <1>4, StutterStep DEF Unnoticed

LEMMA ReadFailsRefines ==
  ASSUME Good, BufFails \/ RawFails \/ RawShortSub PROVE RV!Next
<1>1. pc \in ReadPcs /\ call' = call
  BY Zenon DEF BufFails, RawFails, RawShortSub, ShortBy, Consume, ReadPcs
<1>2. Phase = "busy"
  BY <1>1, PhaseBusy DEF Good
<1>3. Fail(-1) \/ Fail(-2) \/ Fail(-3)
  BY Zenon DEF BufFails, RawFails, RawShortSub
<1> QED BY <1>1, <1>2, <1>3, FailRefines DEF Fail

LEMMA VoidHdrRefines == ASSUME Good, ExecVoidReadHdr \/ SetVecReadHdr PROVE RV!Next
<1>1. PICK h \in HdrSeen : Fail(-1) \/ Return(h.id, h.ok, NoVal)
  BY Zenon DEF ExecVoidReadHdr, SetVecReadHdr
<1>2. ReadHdr /\ call.fn \in VoidFns
  BY DEF ExecVoidReadHdr, SetVecReadHdr, VoidFns
<1>3. pc \in ReadPcs /\ ~spoiled /\ Consume(HdrLen) /\ call' = call
  BY <1>2 DEF Good, Up, ReadHdr, ReadPcs, Consume
<1>4. CASE Fail(-1)
  BY <1>3, <1>4, PhaseBusy, FailRefines DEF Fail, Good
<1>5. CASE Return(h.id, h.ok, NoVal)
  <2>1. PICK f \in frames : Owns(f, 0) /\ HdrSeen = {f}
    BY <1>2, <1>3, AtHdr DEF Good
  <2>2. h = f /\ frames = {f}
    BY <2>1 DEF Owns
  <2> QED BY <1>2, <1>3, <1>5, <2>2, ReturnRefines
<1> QED BY <1>1, <1>4, <1>5

LEMMA ValueHdrRefines ==
  ASSUME Good, ReadHdr, call.fn \notin VoidFns, pc' = "readSub", UNCHANGED <<ret, spoiled>>
  PROVE  [RV!Next]_(RV!avars)
<1>1. pc \in ReadPcs /\ ~spoiled /\ Consume(HdrLen) /\ pc' \in ReadPcs
  BY DEF Good, Up, ReadHdr, ReadPcs
<1>2. PICK f \in frames : Owns(f, 0) /\ HdrSeen = {f}
  BY <1>1, AtHdr DEF Good
<1>3. frames = {f} /\ Answers(f) /\ f.len \in Nat
  BY <1>2 DEF Owns, Frame
<1>4. /\ f.len > 0 => frames' = {f}
      /\ f.len = 0 => frames' = {}
  BY <1>1, <1>2, <1>3, ConsumeRest DEF HdrLen
<1>5. f.len = 0 => ~f.ok
  <2>1. ASSUME f.ok, f.len = 0 PROVE FALSE
    <3>1. f.val \in Values /\ f.len = SubLen + f.val.size
      BY <1>3, <2>1 DEF Answers
    <3>2. f.val.size \in Nat
      BY <3>1, ValueSizes
    <3> QED BY <2>1, <3>1, <3>2 DEF SubLen
  <2> QED BY <2>1
<1> QED BY <1>1, <1>3, <1>4, <1>5, OnwardRefines

\* A read that leaves the client in front of more bytes leaves the response.
LEMMA MoreRefines ==
  ASSUME Good, IInv', pc \in {"readSub", "readCount"}, NEW f \in frames, frames = {f}, NEW n,
         Consume(n), pc' \in {"readCount", "readData"}, UNCHANGED <<ret, spoiled>>
  PROVE  [RV!Next]_(RV!avars)
<1>1. ~spoiled' /\ pc \in ReadPcs /\ pc' \in ReadPcs
  BY DEF Good, Up, ReadPcs
<1>2. frames' # {}
  BY <1>1 DEF IInv, InStep, Reading
<1>3. frames' = {f}
  BY <1>2 DEF Consume
<1> QED BY <1>1, <1>3, OnwardRefines

LEMMA PayloadRefines ==
  ASSUME Good, IInv', ReadSub \/ GetVecReadCount \/ ReadData PROVE [RV!Next]_(RV!avars)
<1>0. pc \in ReadPcs /\ pc # "killed" /\ ~spoiled /\ call' = call /\ Phase = "busy"
  <2>1. pc \in ReadPcs /\ call' = call
    BY DEF ReadSub, GetVecReadCount, ReadData, Consume, ReadPcs
  <2> QED BY <2>1, PhaseBusy DEF Good, Up, ReadPcs
<1>1. CASE ReadSub
  <2>1. \/ Fail(-1)
        \/ pc' \in {"readCount", "readData"} /\ UNCHANGED <<ret, spoiled>>
    BY <1>1, Zenon DEF ReadSub
  <2>2. CASE Fail(-1)
    BY <1>0, <2>2, FailRefines DEF Fail
  <2>3. CASE pc' \in {"readCount", "readData"} /\ UNCHANGED <<ret, spoiled>>
    <3>1. PICK f \in frames : Owns(f, HdrLen)
      BY <1>0, <1>1, AtSub DEF Good, ReadSub
    <3> QED BY <1>1, <2>3, <3>1, MoreRefines DEF ReadSub, Owns
  <2> QED BY <2>1, <2>2, <2>3
<1>2. CASE GetVecReadCount
  <2>1. \/ FailTo({"idle"}, -1)
        \/ pc' \in {"readCount", "readData"} /\ UNCHANGED <<ret, spoiled>>
    BY <1>2, Zenon DEF GetVecReadCount
  <2>2. CASE FailTo({"idle"}, -1)
    BY <1>0, <2>2, FailRefines
  <2>3. CASE pc' \in {"readCount", "readData"} /\ UNCHANGED <<ret, spoiled>>
    <3>1. PICK f \in frames : Owns(f, HdrLen + SubLen)
      BY <1>0, <1>2, ReadingOwns DEF Good, IInv, InStep, GetVecReadCount, HdrLen, SubLen
    <3> QED BY <1>2, <2>3, <3>1, MoreRefines DEF GetVecReadCount, Owns
  <2> QED BY <2>1, <2>2, <2>3
<1>3. CASE ReadData
  <2>1. PICK f \in frames : /\ Owns(f, HdrLen + SubLen + Skip) /\ Checked(f)
                            /\ DataLen = f.val.size - Skip /\ DataSeen = {f}
    BY <1>0, <1>3, AtData DEF Good, ReadData
  <2>2. Return(f.id, TRUE, Handed(f.val)) /\ Consume(DataLen) /\ frames = {f}
    BY <1>3, <2>1, Zenon DEF ReadData, Owns
  <2>3. call.fn \notin VoidFns /\ f.ok /\ call.xt \in {"any", f.val.xt}
    BY <1>3, <2>1 DEF Good, TInv, OutcomeOK, Named, ReadData, Owns, Checked,
                      Skip, HdrLen, SubLen, CountLen
  <2>4. f.val \in Values
    BY <2>1, <2>3 DEF Owns, Answers
  <2>5. Handed(f.val) = RV!Received(call, f.val)
    BY <2>1, <2>3, <2>4, HandedReceived DEF Good
  <2>6. RV!Next
    BY <1>0, <2>2, <2>3, <2>5, ReturnRefines
  <2> QED BY <2>6
<1> QED BY <1>1, <1>2, <1>3

LEMMA ReadRefines ==
  ASSUME WholeReads, Good, IInv', Read PROVE [RV!Next]_(RV!avars)
<1>1. CASE BufFails \/ RawFails \/ RawShortSub
  BY <1>1, ReadFailsRefines
<1>2. CASE ExecVoidReadHdr \/ SetVecReadHdr
  BY <1>2, VoidHdrRefines
<1>3. CASE ExecEvalReadHdr
  <2>1. ReadHdr /\ call.fn \notin VoidFns
    BY <1>3 DEF ExecEvalReadHdr, VoidFns
  <2>2. Fail(-1) \/ (pc' = "readSub" /\ UNCHANGED <<ret, spoiled>>)
    BY <1>3, Zenon DEF ExecEvalReadHdr
  <2>3. CASE Fail(-1)
    <3>1. Phase = "busy" /\ call' = call
      BY <2>1, PhaseBusy DEF Good, ReadHdr, Consume, ReadPcs
    <3> QED BY <2>3, <3>1, FailRefines DEF Fail
  <2> QED BY <2>1, <2>2, <2>3, ValueHdrRefines
<1>4. CASE RawReadHdr
  BY <1>4, ValueHdrRefines DEF RawReadHdr, VoidFns, RawFns, ScalarFns
<1>5. CASE ReadSub \/ GetVecReadCount \/ ReadData
  BY <1>5, PayloadRefines
<1>6. CASE ShortScalar
  <2>0. ~spoiled
    BY <1>6 DEF Good, Up, ShortScalar
  <2>1. PICK k \in 1 .. (DataLen - 1) : ShortBy(k)
    BY <1>6 DEF ShortScalar
  <2>2. k = Unread
    BY <1>6, <2>1 DEF ShortScalar, Raw, Good, TInv, WireOK, ShortBy, WholeReads
  <2>3. Unread = DataLen
    BY <1>6, <2>0, AtData DEF Good, ShortScalar
  <2>4. DataLen \in Nat
    BY <1>6, DataLenNat DEF Good, TInv, OutcomeOK, WireOK, Named, ShortScalar
  <2> QED BY <2>1, <2>2, <2>3, <2>4
<1> QED BY <1>1, <1>2, <1>3, <1>4, <1>5, <1>6 DEF Read

\* The workspace answers the call in progress, if anyone still asks.
LEMMA RespondRefines ==
  ASSUME Good, Server, reqs # <<>>, NEW ok, NEW len, NEW val,
         Respond(Head(reqs).id, ok, len, val),
         Phase = "busy" /\ reqs = <<[id |-> id, call |-> call]>> =>
           IF ok THEN /\ Served # Absent
                      /\ store' = [store EXCEPT ![call.name] = Served]
                      /\ val = IF call.fn \in VoidFns THEN NoVal ELSE Served
           ELSE store' = store
  PROVE  [RV!Next]_(RV!avars)
<1>f. PICK f : f = [id |-> Head(reqs).id, start |-> wpos, len |-> len, ok |-> ok, val |-> val]
  OBVIOUS
<1>1. frames' = frames \cup {f} /\ UNCHANGED <<pc, call, id, ret, spoiled, conn>>
  BY <1>f DEF Respond, client
<1>2. Phase' = Phase
  BY <1>1 DEF Phase
<1>3. CASE Phase = "down"
  <2>1. Ans = NoAnswer /\ Ans' = NoAnswer
    BY <1>2, <1>3 DEF Ans, NoAnswer
  <2> QED BY <1>1, <1>2, <1>3, <2>1, StutterStep DEF Unnoticed
<1>4. CASE Phase # "down"
  <2>1. pc # "killed" /\ ~spoiled
    BY <1>4 DEF Phase
  <2>2. pc = "readHdr" /\ frames = {} /\ reqs = <<[id |-> id, call |-> call]>>
    <3>1. pc \in {"idle"} \cup SendPcs \cup ReadPcs
      BY <2>1 DEF Good, TInv, OutcomeOK, Pcs
    <3> QED BY <2>1, <3>1, Zenon DEF Good, IInv, InStep, Quiet, Reading, ReadPcs
  <2>3. Phase = "busy" /\ Phase' = "busy"
    BY <1>2, <2>2, PhaseBusy DEF Good, ReadPcs
  <2>4. Ans = NoAnswer
    BY <2>2, MapEmpty
  <2>5. Ans' = Given(f)
    <3>1. frames' = {f} /\ frames' # {}
      BY <1>1, <2>2
    <3>2. (CHOOSE g \in {f} : TRUE) = f
      OBVIOUS
    <3>3. (CHOOSE g \in frames' : TRUE) = f
      BY <3>1, <3>2
    <3> QED BY <2>3, <3>1, <3>3 DEF Ans, Given, Denied
  <2>6. CASE ok
    <3>1. Served = IF call.val # NoVal THEN call.val ELSE store[call.name]
      BY <2>2 DEF Served
    <3>2. Given(f) = [st |-> "done", val |-> IF call.fn \in VoidFns THEN NoVal ELSE Served]
      BY <1>f, <2>2, <2>3, <2>6 DEF Given
    <3>3. RV!Execute
      BY <1>1, <2>2, <2>3, <2>4, <2>5, <2>6, <3>1, <3>2 DEF RV!Execute, RV!Pending, NoAnswer
    <3> QED BY <3>3 DEF RV!Next
  <2>7. CASE ~ok
    <3>1. Given(f) = Denied
      BY <1>f, <2>7 DEF Given
    <3>2. RV!Refuse
      BY <1>1, <2>2, <2>3, <2>4, <2>5, <2>7, <3>1
         DEF RV!Refuse, RV!Pending, RV!Refused, NoAnswer, Denied
    <3> QED BY <3>2 DEF RV!Next
  <2> QED BY <2>6, <2>7
<1> QED BY <1>3, <1>4

LEMMA ServerRefines == ASSUME Good, Server PROVE [RV!Next]_(RV!avars)
<1>1. CASE ServeOk
  <2>1. /\ reqs # <<>> /\ Served # Absent
        /\ store' = [store EXCEPT ![Head(reqs).call.name] = Served]
    BY <1>1 DEF ServeOk
  <2>2. reqs = <<[id |-> id, call |-> call]>> => Head(reqs).call = call
    OBVIOUS
  <2>3. CASE Head(reqs).call.fn \in VoidFns
    <3>1. Respond(Head(reqs).id, TRUE, 0, NoVal)
      BY <1>1, <2>3 DEF ServeOk
    <3> QED BY <2>1, <2>2, <2>3, <3>1, RespondRefines
  <2>4. CASE Head(reqs).call.fn \notin VoidFns
    <3>1. Respond(Head(reqs).id, TRUE, SubLen + Served.size, Served)
      BY <1>1, <2>4 DEF ServeOk
    <3> QED BY <2>1, <2>2, <2>4, <3>1, RespondRefines
  <2> QED BY <2>3, <2>4
<1>2. CASE ServeErr
  <2>1. PICK l \in ErrTexts : Respond(Head(reqs).id, FALSE, l, NoVal)
    BY <1>2 DEF ServeErr
  <2>2. reqs # <<>> /\ store' = store
    BY <1>2 DEF ServeErr
  <2> QED BY <2>1, <2>2, RespondRefines
<1>3. CASE ServeTorn
  <2>1. spoiled /\ UNCHANGED <<pc, call, ret, spoiled, conn>>
    BY <1>3, Zenon DEF ServeTorn, Good, IInv, InStep, Respond, client
  <2>2. Phase = "down" /\ Phase' = "down"
    BY <2>1 DEF Phase
  <2>3. Ans = NoAnswer /\ Ans' = NoAnswer
    BY <2>2 DEF Ans, NoAnswer
  <2> QED BY <2>1, <2>2, <2>3, StutterStep DEF Unnoticed
<1>4. CASE ServerClose
  <2>1. /\ UNCHANGED <<pc, call, ret, spoiled, frames, store>>
        /\ conn = "open" /\ conn' = "shut"
    BY <1>4 DEF ServerClose, client
  <2>2. Phase' = Phase
    BY <2>1 DEF Phase
  <2>3. Ans' = Ans
    BY <2>1, <2>2 DEF Ans
  <2> QED BY <2>1, <2>2, <2>3, StutterStep DEF Unnoticed
<1> QED BY <1>1, <1>2, <1>3, <1>4 DEF Server

LEMMA VarsRefine == UNCHANGED vars => UNCHANGED RV!avars
<1> SUFFICES ASSUME UNCHANGED vars PROVE UNCHANGED RV!avars
  OBVIOUS
<1>1. UNCHANGED <<pc, call, ret, spoiled, conn, frames, store>>
  BY DEF vars
<1>2. Phase' = Phase
  BY <1>1 DEF Phase
<1>3. Ans' = Ans
  BY <1>1, <1>2 DEF Ans
<1> QED BY <1>1, <1>2, <1>3, StutterStep DEF Unnoticed

\* What the client functions promise: with an application that gives up a
\* connection on which a call failed, exec_str, get_* and set_vec are calls
\* on the variables of one workspace, each with at most one effect, and a
\* value that is returned is the one the workspace gave to that very call.
THEOREM WorkspaceRefined ==
  ASSUME BareErrors, WholeReads, Disciplined PROVE Spec => ImplementsRemoteVars
<1>1. Good /\ IInv' /\ [Next]_vars => [RV!Next]_(RV!avars)
  BY AppRefines, SendRefines, ReadRefines, ServerRefines, VarsRefine DEF Next, Done
<1>2. Spec => []Good
  <2>1. TInv /\ IInv /\ Up => Good
    BY DEF Good
  <2> QED BY <2>1, TypeInvariant, StepInvariant, UpInvariant, PTL
<1>3. Good => IInv
  BY DEF Good
<1> QED BY <1>1, <1>2, <1>3, InitRefines, PTL DEF Spec, ImplementsRemoteVars, RV!Spec

-----------------------------------------------------------------------------
(* Waiting.  get_I4, get_F8 and get_vec read 8 bytes after the header of an  *)
(* error too, which has none: the theorem is about calls of the others, in   *)
(* an application that may use these as well.                              *)

Buffered == call.fn \notin RawFns

\* In a read of the call in progress all the bytes it wants are there.
LEMMA AllThere ==
  ASSUME Buffered, Good, NEW f \in frames, NEW n \in Nat, Owns(f, n),
         pc \in ReadPcs, n \in {0, HdrLen}, pc = "readHdr" <=> n = 0,
         pc # "readHdr" => pc = "readSub"
  PROVE  ~Waits
<1>1. f.start \in Nat /\ f.len \in Nat /\ rpos = f.start + n /\ wpos = f.start + HdrLen + f.len
  BY DEF Owns, Frame
<1>2. ~Raw
  BY DEF Raw, Buffered, Good, TInv, WireOK, ScalarFns, RawFns
<1>3. CASE pc = "readHdr"
  BY <1>1, <1>2, <1>3 DEF Waits, Need, Unread, HdrLen
<1>4. CASE pc = "readSub"
  <2>1. call.fn = "exec_eval" /\ left >= SubLen
    BY <1>4, CallsAssumption
       DEF Buffered, Good, TInv, OutcomeOK, WireOK, Named, Call, Fns, VoidFns, RawFns
  <2>2. n = HdrLen /\ left = f.len
    BY <1>1, <1>4 DEF Owns, HdrLen
  <2> QED BY <1>1, <1>2, <1>4, <2>1, <2>2 DEF Waits, Need, Unread, HdrLen, SubLen
<1> QED BY <1>3, <1>4

\* Client and server do not wait for one another: when exec_str or set_vec
\* blocks in a read on a connection that is open, the server has its request.
THEOREM NeverBothWait ==
  ASSUME BareErrors, WholeReads, Disciplined PROVE Spec => []NoMutualWait
<1>1. ASSUME Good, Waits, Buffered PROVE reqs # <<>>
  <2>1. pc \in ReadPcs /\ pc # "killed" /\ conn = "open" /\ ~spoiled
    BY <1>1 DEF Waits, Good, Up, ReadPcs
  <2>2. CASE pc = "readHdr"
    <3>1. 0 \in Nat /\ (Reading(0) => \E f \in frames : Owns(f, 0))
      BY <1>1, <2>1, ReadingOwns DEF Good
    <3>2. ~Reading(0)
      BY <1>1, <2>1, <2>2, <3>1, AllThere
    <3> QED BY <1>1, <2>1, <2>2, <3>2 DEF Good, IInv, InStep
  <2>3. CASE pc = "readSub"
    <3>1. HdrLen \in Nat /\ HdrLen # 0
      BY DEF HdrLen
    <3>2. Reading(HdrLen) => \E f \in frames : Owns(f, HdrLen)
      BY <1>1, <2>1, <3>1, ReadingOwns DEF Good
    <3>3. ~Reading(HdrLen)
      BY <1>1, <2>1, <2>3, <3>1, <3>2, AllThere
    <3>4. left = 0
      BY <1>1, <2>1, <2>3, <3>3 DEF Good, IInv, InStep
    <3>5. call.fn = "exec_eval"
      BY <1>1, <2>3, CallsAssumption
         DEF Buffered, Good, TInv, OutcomeOK, WireOK, Named, Call, Fns, VoidFns, RawFns
    <3> QED BY <1>1, <2>3, <3>4, <3>5 DEF Good, TInv, OutcomeOK, Named, SubLen
  <2>4. CASE pc = "readCount"
    <3>1. Skip = CountLen /\ frames # {}
      BY <1>1, <2>1, <2>4 DEF Good, IInv, InStep, Facts, Reading
    <3> QED BY <1>1, <3>1 DEF Skip, CountLen, Buffered, Good, TInv, WireOK, RawFns
  <2>5. CASE pc = "readData"
    <3>1. Unread = DataLen
      BY <1>1, <2>1, <2>5, AtData DEF Good
    <3>2. ~Raw
      BY <1>1 DEF Raw, Buffered, Good, TInv, WireOK, ScalarFns, RawFns
    <3>3. DataLen \in Nat
      BY <1>1, <2>5, DataLenNat DEF Good, TInv, OutcomeOK, WireOK, Named
    <3> QED BY <1>1, <2>5, <3>1, <3>2, <3>3 DEF Waits, Need
  <2> QED BY <2>1, <2>2, <2>3, <2>4, <2>5 DEF ReadPcs
<1>2. Good => NoMutualWait
  BY <1>1 DEF NoMutualWait, Buffered
<1>3. TInv /\ IInv /\ Up => Good
  BY DEF Good
<1> QED BY <1>2, <1>3, TypeInvariant, StepInvariant, UpInvariant, PTL
=============================================================================
