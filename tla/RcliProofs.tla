----------------------------- MODULE RcliProofs -----------------------------
(***************************************************************************)
(* Theorems about the session of Rcli, for every choice of its constants   *)
(* that satisfies the named assumptions.                                   *)
(***************************************************************************)
EXTENDS Rcli, TLAPS

-----------------------------------------------------------------------------
(* Type correctness.  The invariant is split in the part the outcome of a  *)
(* call sets and the part that the wire and the server set.                *)

\* Only a request with arguments that were accepted is sent, only a function
\* that expects a payload reads one, and exec_str one that holds the 8 bytes.
Named == /\ pc \in SendPcs => call.name # NoName
         /\ pc \in {"readSub", "readCount", "readData"} => call.fn \notin VoidFns
         /\ pc = "readSub" /\ call.fn = "exec_eval" => left >= SubLen

OutcomeOK == pc \in Pcs /\ left \in Nat /\ ret \in Result /\ spoiled \in BOOLEAN /\ Named

WireOK == /\ call \in Calls /\ id \in 0 .. MaxCalls
          /\ conn \in {"open", "shut", "closed"} /\ torn \in BOOLEAN
          /\ reqs \in Seq(Request) /\ frames \subseteq Frame
          /\ rpos \in Nat /\ wpos \in Nat /\ rpos <= wpos
          /\ store \in [Names -> Values \cup {Absent}]

TInv == OutcomeOK /\ WireOK

LEMMA TInvTypeOK == TInv => TypeOK
BY DEF TInv, OutcomeOK, WireOK, TypeOK

\* The number of bytes a read asks for is a natural number.
LEMMA DataLenNat == ASSUME left \in Nat, call \in Calls, call.fn \notin VoidFns
                    PROVE  DataLen \in Nat
<1>1. call \in Call /\ (call.fn \in RawFns => call.xt \in {"INT", "DOUBLE", "BOOL"})
  BY CallsAssumption DEF RawFns, ScalarFns
<1>2. CASE call.fn = "exec_eval"
  BY <1>2 DEF DataLen
<1>3. CASE call.fn \in ScalarFns
  BY <1>1, <1>3 DEF DataLen, Width, ScalarFns, RawFns
<1>4. CASE call.fn = "get_vec"
  <2>1. \A w \in {1, 4, 8} : (left \div w) * w \in Nat
    OBVIOUS
  <2>2. Width[call.xt] \in {1, 4, 8}
    BY <1>1, <1>4 DEF Width, RawFns
  <2> QED BY <1>4, <2>1, <2>2 DEF DataLen, ScalarFns
<1> QED BY <1>1, <1>2, <1>3, <1>4 DEF Call, Fns, VoidFns, RawFns

\* The sizes of the values, and that a record is made of its fields.
LEMMA ValueSizes ==
  ASSUME NEW v \in Values
  PROVE  /\ v.xt \in Xts /\ v.n \in Nat \ {0} /\ v.size \in Nat \ {0}
         /\ v.xt \in {"INT", "DOUBLE"} => v.size = v.n * Width[v.xt]
         /\ v.xt = "BOOL" => v.size > CountLen /\ v.size = CountLen + RoundUp4(v.n)
         /\ v.size % Width[v.xt] = 0
         /\ [v EXCEPT !.n = v.n] = v
<1>1. v \in [xt : Xts, n : Nat \ {0}, size : Nat, tag : Nat]
  BY ValuesAssumption
<1>2. /\ v.xt \in {"INT", "DOUBLE"} => v.size = v.n * Width[v.xt]
      /\ v.xt = "BOOL" => v.size = CountLen + RoundUp4(v.n)
      /\ v.xt = "STR"  => v.size >= v.n
  BY ValuesAssumption
<1>3. v.xt \in {"INT", "DOUBLE", "BOOL", "STR"} /\ v.n \in Nat \ {0} /\ v.size \in Nat
  BY <1>1 DEF Xts, Width
<1>4. CASE v.xt = "BOOL"
  <2>1. \A n \in Nat \ {0} : 4 * ((n + 3) \div 4) \in Nat /\ 4 * ((n + 3) \div 4) > 0
    OBVIOUS
  <2>2. v.size > CountLen /\ v.size \in Nat \ {0}
    BY <1>2, <1>3, <1>4, <2>1 DEF CountLen, RoundUp4
  <2>3. v.size % Width[v.xt] = 0
    BY <1>4, <2>2 DEF Width
  <2>4. [v EXCEPT !.n = v.n] = v
    BY <1>1
  <2> QED BY <1>2, <1>3, <1>4, <2>2, <2>3, <2>4 DEF Xts, Width
<1>5. CASE v.xt = "STR"
  BY <1>1, <1>2, <1>3, <1>5 DEF Width
<1>6. CASE v.xt = "INT"
  BY <1>1, <1>2, <1>3, <1>6 DEF Width
<1>7. CASE v.xt = "DOUBLE"
  BY <1>1, <1>2, <1>3, <1>7 DEF Width
<1> QED BY <1>3, <1>4, <1>5, <1>6, <1>7

\* What an application is handed is a value, counted in some way.
LEMMA HandedOK == ASSUME call \in Calls, call.fn \notin VoidFns, DataLen \in Nat,
                         NEW f \in DataSeen
                  PROVE  Handed(f.val) \in Values \cup Counted
<1>1. f.val \in Values /\ f.val.size = Skip + DataLen /\ Skip \in Nat
  BY DEF DataSeen, Skip, CountLen
<1>2. CASE call.fn = "exec_eval"
  BY <1>1, <1>2 DEF Handed
<1>3. CASE call.fn # "exec_eval" /\ call.xt \in Xts
  <2> DEFINE k == DataLen \div Width[call.xt]
  <2>1. Width[call.xt] \in {1, 4, 8}
    BY <1>3 DEF Xts, Width
  <2>2. \A w \in {1, 4, 8}, d \in Nat : d \div w \in Nat /\ d \div w <= d
    OBVIOUS
  <2>3. k \in 0 .. f.val.size
    BY <1>1, <2>1, <2>2
  <2>4. Handed(f.val) = [f.val EXCEPT !.n = k]
    BY <1>3 DEF Handed
  <2> HIDE DEF k
  <2> QED BY <1>1, <2>3, <2>4 DEF Counted
<1>4. call.fn = "exec_eval" \/ call.xt \in Xts
  BY CallsAssumption DEF Call, Fns, VoidFns, RawFns, ScalarFns, Xts, Width
<1> QED BY <1>2, <1>3, <1>4

\* Consuming no more than what is unread keeps the wire well typed.
LEMMA ConsumeOK == ASSUME WireOK, NEW n \in Nat, n <= Unread, Consume(n)
                   PROVE  WireOK'
<1>1. rpos' \in Nat /\ wpos' \in Nat /\ rpos' <= wpos'
  BY DEF WireOK, Unread, Consume
<1>2. frames' \subseteq Frame
  BY DEF WireOK, Consume
<1>3. torn' \in BOOLEAN
  BY DEF WireOK, Consume
<1>4. /\ call' \in Calls /\ id' \in 0 .. MaxCalls /\ conn' \in {"open", "shut", "closed"}
      /\ reqs' \in Seq(Request) /\ store' \in [Names -> Values \cup {Absent}]
  BY DEF WireOK, Consume
<1> QED BY <1>1, <1>2, <1>3, <1>4, Zenon DEF WireOK

\* What a successful call hands out is well typed.
LEMMA ReturnOK == ASSUME TInv, NEW from \in Nat, NEW ok \in BOOLEAN,
                         NEW val \in Values \cup Counted \cup {NoVal, Junk}, Return(from, ok, val)
                  PROVE  OutcomeOK'
<1>1. ret' \in Result
  BY DEF TInv, WireOK, Return, Result
<1>2. spoiled' \in BOOLEAN
  BY DEF TInv, OutcomeOK, Return
<1>3. pc' \in Pcs /\ left' \in Nat /\ Named'
  BY DEF Return, Pcs, Named, SendPcs
<1> QED BY <1>1, <1>2, <1>3, Zenon DEF OutcomeOK

\* ... and so is what a failed call hands out.
LEMMA FailToOK == ASSUME TInv, NEW pcs, pcs \subseteq {"idle", "killed"},
                         NEW status \in {-1, -2, -3}, FailTo(pcs, status)
                  PROVE  OutcomeOK'
<1>1. ret' \in Result
  BY DEF TInv, WireOK, FailTo, Result
<1>2. spoiled' \in BOOLEAN
  BY DEF FailTo
<1>3. pc' \in Pcs /\ left' \in Nat /\ Named'
  BY DEF FailTo, Pcs, Named, SendPcs
<1> QED BY <1>1, <1>2, <1>3, Zenon DEF OutcomeOK

LEMMA FailOK == ASSUME TInv, NEW status \in {-1, -2, -3}, Fail(status)
                PROVE  OutcomeOK'
BY FailToOK DEF Fail, AfterFailure

LEMMA TypeInit == Init => TInv
<1> SUFFICES ASSUME Init PROVE TInv
  OBVIOUS
<1>1. ret \in Result
  BY DEF Init, Result, NoResult
<1>2. store \in [Names -> Values \cup {Absent}]
  BY DEF Init, Fresh
<1>3. reqs \in Seq(Request) /\ frames \subseteq Frame
  BY DEF Init
<1>4. id \in 0 .. MaxCalls
  BY ConstantsAssumption DEF Init
<1>5. spoiled \in BOOLEAN /\ torn \in BOOLEAN
  BY DEF Init
<1>6. pc \in Pcs /\ call \in Calls /\ left \in Nat /\ rpos \in Nat /\ wpos \in Nat /\ rpos <= wpos
  BY DEF Init, Pcs
<1>7. conn \in {"open", "shut", "closed"} /\ Named
  BY DEF Init, Named, SendPcs
<1> QED BY <1>1, <1>2, <1>3, <1>4, <1>5, <1>6, <1>7, Zenon DEF TInv, OutcomeOK, WireOK

LEMMA TypeApp == TInv /\ App => TInv'
<1>1. ASSUME TInv, NEW c \in Calls, Begin(c) PROVE TInv'
  <2>1. id' \in 0 .. MaxCalls /\ call' \in Calls
    BY <1>1, ConstantsAssumption DEF TInv, WireOK, Begin, MayCall
  <2>2. WireOK'
    BY <1>1, <2>1, Zenon DEF TInv, WireOK, Begin, MayCall
  <2>3. pc' \in Pcs /\ Named'
    BY <1>1 DEF Begin, MayCall, Pcs, SendPcs, Named
  <2> QED BY <1>1, <2>2, <2>3, Zenon DEF TInv, OutcomeOK, Begin
<1>2. ASSUME TInv, NEW c \in Calls, Reject(c) PROVE TInv'
  <2>1. id' \in 0 .. MaxCalls /\ call' \in Calls
    BY <1>2, ConstantsAssumption DEF TInv, WireOK, Reject, MayCall
  <2>2. WireOK'
    BY <1>2, <2>1, Zenon DEF TInv, WireOK, Reject, MayCall
  <2>3. pc' \in Pcs /\ Named'
    BY <1>2 DEF Reject, Pcs, SendPcs, Named
  <2>4. ret' \in Result
    BY <1>2, <2>1 DEF Reject, Result, MayCall, TInv, WireOK
  <2> QED BY <1>2, <2>2, <2>3, <2>4, Zenon DEF TInv, OutcomeOK, Reject
<1>3. ASSUME TInv, CloseConn PROVE TInv'
  <2>1. conn' \in {"open", "shut", "closed"}
    BY <1>3 DEF CloseConn
  <2>2. Named'
    BY <1>3 DEF TInv, OutcomeOK, CloseConn, client, Named
  <2> QED BY <1>3, <2>1, <2>2, Zenon DEF TInv, OutcomeOK, WireOK, CloseConn, client
<1>4. ASSUME TInv, Rconnect PROVE TInv'
  <2>1. store' \in [Names -> Values \cup {Absent}]
    BY <1>4 DEF Rconnect, Fresh
  <2>2. reqs' \in Seq(Request) /\ frames' \subseteq Frame
    BY <1>4 DEF Rconnect
  <2>3. conn' \in {"open", "shut", "closed"} /\ rpos' \in Nat /\ wpos' \in Nat /\ rpos' <= wpos'
    BY <1>4 DEF Rconnect
  <2>4. torn' \in BOOLEAN /\ spoiled' \in BOOLEAN
    BY <1>4 DEF Rconnect
  <2>5. Named'
    BY <1>4 DEF TInv, OutcomeOK, Rconnect, Named
  <2> QED BY <1>4, <2>1, <2>2, <2>3, <2>4, <2>5, Zenon DEF TInv, OutcomeOK, WireOK, Rconnect
<1> QED BY <1>1, <1>2, <1>3, <1>4 DEF App

LEMMA TypeSend == TInv /\ Send => TInv'
<1>1. ASSUME TInv, SendPart PROVE TInv'
  <2>1. NextSend \in Pcs /\ (NextSend \in SendPcs \/ NextSend = "readHdr")
    BY <1>1 DEF SendPart, NextSend, Pcs, SendPcs, ReadPcs
  <2>2. pc' \in Pcs /\ Named'
    BY <1>1, <2>1 DEF TInv, OutcomeOK, Named, SendPart, SendPcs
  <2>3. [id |-> id, call |-> call] \in Request
    BY <1>1 DEF TInv, WireOK, OutcomeOK, Named, SendPart, Request
  <2>4. reqs' \in Seq(Request)
    BY <1>1, <2>3 DEF TInv, WireOK, SendPart
  <2> QED BY <1>1, <2>2, <2>4, Zenon DEF TInv, OutcomeOK, WireOK, SendPart
<1>2. ASSUME TInv, SendFails PROVE TInv'
  <2>1. torn' \in BOOLEAN
    BY <1>2, Zenon DEF SendFails, TInv, WireOK
  <2>2. OutcomeOK'
    BY <1>2, FailOK DEF SendFails
  <2> QED BY <1>2, <2>1, <2>2, Zenon DEF TInv, WireOK, SendFails
<1>3. ASSUME TInv, SendKills PROVE TInv'
  <2>1. pc' \in Pcs /\ Named'
    BY <1>3 DEF SendKills, Pcs, Named, SendPcs
  <2> QED BY <1>3, <2>1, Zenon DEF TInv, OutcomeOK, WireOK, SendKills
<1> QED BY <1>1, <1>2, <1>3 DEF Send

LEMMA HdrSeenOK == ASSUME WireOK
                   PROVE  \A h \in HdrSeen : /\ h.id \in Nat /\ h.len \in Nat /\ h.ok \in BOOLEAN
                                             /\ h.val \in Values \cup {NoVal}
<1> DEFINE garbage == [id : {0}, start : {rpos}, len : GarbageLens, ok : {FALSE}, val : {NoVal}]
<1>1. HdrSeen \subseteq frames \cup garbage
  BY Zenon DEF HdrSeen
<1>2. garbage \subseteq Frame
  <2> SUFFICES ASSUME NEW h \in garbage PROVE h \in Frame
    OBVIOUS
  <2>1. PICK l \in GarbageLens : h = [id |-> 0, start |-> rpos, len |-> l, ok |-> FALSE, val |-> NoVal]
    OBVIOUS
  <2>2. l \in Nat /\ rpos \in Nat
    BY ConstantsAssumption DEF WireOK
  <2> QED BY <2>1, <2>2 DEF Frame
<1>3. HdrSeen \subseteq Frame
  BY <1>1, <1>2, Zenon DEF WireOK
<1> QED BY <1>3 DEF Frame

LEMMA NeedNat == ASSUME TInv, pc \in ReadPcs
                 PROVE  Need \in Nat
<1>1. CASE pc = "readData"
  <2>1. DataLen \in Nat
    BY <1>1, DataLenNat DEF TInv, OutcomeOK, WireOK, Named
  <2> QED BY <1>1, <2>1 DEF Need
<1>2. CASE pc # "readData"
  BY <1>2 DEF ReadPcs, Need, HdrLen, SubLen, CountLen
<1> QED BY <1>1, <1>2

LEMMA ReadHdrOK == ASSUME TInv, ReadHdr
                   PROVE  WireOK' /\ call' = call
<1>1. Consume(HdrLen) /\ HdrLen <= Unread
  BY DEF TInv, WireOK, ReadHdr, HdrLen, Unread
<1>2. HdrLen \in Nat
  BY DEF HdrLen
<1> QED BY <1>1, <1>2, ConsumeOK DEF TInv, Consume

LEMMA TypeReadFails == TInv /\ (BufFails \/ RawFails \/ RawShortSub) => TInv'
<1>1. ASSUME TInv, BufFails PROVE TInv'
  <2>1. Need \in Nat
    BY <1>1, NeedNat DEF BufFails
  <2>2. PICK k \in 0 .. (Need - 1) :
          /\ k <= Unread /\ Consume(k)
          /\ Fail(-2) \/ Fail(-3)
    BY <1>1, Zenon DEF BufFails
  <2>3. k \in Nat
    BY <2>1
  <2>4. WireOK'
    BY <1>1, <2>2, <2>3, ConsumeOK DEF TInv
  <2>5. OutcomeOK'
    BY <1>1, <2>2, FailOK
  <2> QED BY <2>4, <2>5 DEF TInv
<1>2. ASSUME TInv, RawFails PROVE TInv'
  <2>1. Consume(0) /\ (Fail(-2) \/ Fail(-3))
    BY <1>2, Zenon DEF RawFails
  <2>2. WireOK'
    BY <1>2, <2>1, ConsumeOK DEF TInv, WireOK, Unread
  <2>3. OutcomeOK'
    BY <1>2, <2>1, FailOK
  <2> QED BY <2>2, <2>3 DEF TInv
<1>3. ASSUME TInv, RawShortSub PROVE TInv'
  <2>1. PICK k \in 1 .. (SubLen - 1) : ShortBy(k) /\ Fail(-1)
    BY <1>3 DEF RawShortSub
  <2>2. WireOK'
    BY <1>3, <2>1, ConsumeOK DEF TInv, ShortBy, SubLen
  <2>3. OutcomeOK'
    BY <1>3, <2>1, FailOK
  <2> QED BY <2>2, <2>3 DEF TInv
<1> QED BY <1>1, <1>2, <1>3

LEMMA TypeReadHdr ==
  TInv /\ (ExecVoidReadHdr \/ ExecEvalReadHdr \/ RawReadHdr \/ SetVecReadHdr) => TInv'
<1>1. ASSUME TInv, ExecVoidReadHdr PROVE TInv'
  <2>1. WireOK'
    BY <1>1, ReadHdrOK DEF ExecVoidReadHdr
  <2>2. OutcomeOK'
    BY <1>1, HdrSeenOK, ReturnOK DEF ExecVoidReadHdr, TInv
  <2> QED BY <2>1, <2>2 DEF TInv
<1>2. ASSUME TInv, ExecEvalReadHdr PROVE TInv'
  <2>1. WireOK' /\ call' = call
    BY <1>2, ReadHdrOK DEF ExecEvalReadHdr
  <2>2. PICK h \in HdrSeen :
          \/ Fail(-1)
          \/ /\ h.len >= SubLen
             /\ pc' = "readSub" /\ left' = h.len /\ UNCHANGED <<ret, spoiled>>
    BY <1>2, Zenon DEF ExecEvalReadHdr
  <2>3. CASE Fail(-1)
    BY <1>2, <2>3, FailOK, <2>1 DEF TInv
  <2>4. CASE /\ h.len >= SubLen
             /\ pc' = "readSub" /\ left' = h.len /\ UNCHANGED <<ret, spoiled>>
    <3>1. pc' \in Pcs /\ left' \in Nat
      BY <1>2, <2>2, <2>4, HdrSeenOK DEF TInv, Pcs, ReadPcs
    <3>2. Named'
      BY <1>2, <2>1, <2>4 DEF Named, SendPcs, ExecEvalReadHdr, VoidFns
    <3> QED BY <1>2, <2>1, <2>4, <3>1, <3>2, Zenon DEF TInv, OutcomeOK
  <2> QED BY <2>2, <2>3, <2>4
<1>3. ASSUME TInv, RawReadHdr PROVE TInv'
  <2>1. WireOK' /\ call' = call
    BY <1>3, ReadHdrOK DEF RawReadHdr
  <2>2. pc' \in Pcs /\ left' \in Nat
    BY <1>3, HdrSeenOK DEF RawReadHdr, TInv, Pcs, ReadPcs
  <2>3. Named'
    BY <1>3, <2>1 DEF Named, SendPcs, RawReadHdr, VoidFns, RawFns, ScalarFns
  <2> QED BY <1>3, <2>1, <2>2, <2>3, Zenon DEF TInv, OutcomeOK, RawReadHdr
<1>4. ASSUME TInv, SetVecReadHdr PROVE TInv'
  <2>1. WireOK'
    BY <1>4, ReadHdrOK DEF SetVecReadHdr
  <2>2. PICK h \in HdrSeen : Return(h.id, h.ok, NoVal) \/ Fail(-1)
    BY <1>4, Zenon DEF SetVecReadHdr
  <2>3. OutcomeOK'
    BY <1>4, <2>2, HdrSeenOK, ReturnOK, FailOK DEF TInv
  <2> QED BY <2>1, <2>3 DEF TInv
<1> QED BY <1>1, <1>2, <1>3, <1>4

LEMMA TypeReadPayload ==
  TInv /\ (ReadSub \/ GetVecReadCount \/ ReadData \/ ShortScalar) => TInv'
<1>1. ASSUME TInv, ReadSub PROVE TInv'
  <2>1. WireOK' /\ call' = call
    BY <1>1, ConsumeOK DEF ReadSub, SubLen, TInv, WireOK, Unread, Consume
  <2>2. \/ Fail(-1)
        \/ /\ LenGood /\ pc' = IF Skip > 0 THEN "readCount" ELSE "readData"
           /\ left' = left - SubLen /\ UNCHANGED <<ret, spoiled>>
    BY <1>1, Zenon DEF ReadSub
  <2>3. CASE Fail(-1)
    BY <1>1, <2>1, <2>3, FailOK DEF TInv
  <2>4. CASE /\ LenGood /\ pc' = IF Skip > 0 THEN "readCount" ELSE "readData"
             /\ left' = left - SubLen /\ UNCHANGED <<ret, spoiled>>
    <3>1. pc' \in Pcs /\ Named'
      BY <1>1, <2>1, <2>4 DEF TInv, OutcomeOK, Named, Pcs, ReadPcs, SendPcs, ReadSub
    <3>2. left >= SubLen
      BY <1>1, <2>4, CallsAssumption
         DEF LenGood, ReadSub, TInv, OutcomeOK, WireOK, Named, Call, Fns, VoidFns
    <3>3. left' \in Nat
      BY <1>1, <2>4, <3>2 DEF TInv, OutcomeOK, SubLen
    <3> QED BY <1>1, <2>1, <2>4, <3>1, <3>3, Zenon DEF TInv, OutcomeOK
  <2> QED BY <2>2, <2>3, <2>4
<1>2. ASSUME TInv, GetVecReadCount PROVE TInv'
  <2>1. WireOK' /\ call' = call
    BY <1>2, ConsumeOK DEF GetVecReadCount, CountLen, TInv, WireOK, Unread, Consume
  <2>2. CASE left >= CountLen
    <3>1. pc' \in Pcs /\ Named' /\ left' \in Nat
      BY <1>2, <2>1, <2>2 DEF TInv, OutcomeOK, Named, Pcs, ReadPcs, SendPcs, GetVecReadCount, CountLen
    <3> QED BY <1>2, <2>1, <2>2, <3>1, Zenon DEF TInv, OutcomeOK, GetVecReadCount
  <2>3. CASE ~(left >= CountLen)
    <3>1. OutcomeOK'
      BY <1>2, <2>3, FailToOK DEF GetVecReadCount
    <3> QED BY <2>1, <3>1 DEF TInv
  <2> QED BY <2>2, <2>3
<1>3. ASSUME TInv, ReadData PROVE TInv'
  <2>1. DataLen \in Nat
    BY <1>3, DataLenNat DEF TInv, OutcomeOK, WireOK, Named, ReadData
  <2>2. WireOK'
    BY <1>3, <2>1, ConsumeOK DEF ReadData, TInv, WireOK, Unread
  <2>3. CASE Return(0, FALSE, Junk)
    <3>1. OutcomeOK'
      BY <1>3, <2>3, ReturnOK
    <3> QED BY <2>2, <3>1 DEF TInv
  <2>4. CASE \E f \in DataSeen : Return(f.id, TRUE, Handed(f.val))
    <3>1. \A f \in DataSeen : f.id \in Nat /\ Handed(f.val) \in Values \cup Counted
      <4>1. call \in Calls /\ call.fn \notin VoidFns
        BY <1>3 DEF TInv, OutcomeOK, WireOK, Named, ReadData
      <4>2. \A f \in DataSeen : f.id \in Nat
        BY <1>3 DEF DataSeen, TInv, WireOK, Frame
      <4> QED BY <2>1, <4>1, <4>2, HandedOK
    <3>2. OutcomeOK'
      BY <1>3, <2>4, <3>1, ReturnOK
    <3> QED BY <2>2, <3>2 DEF TInv
  <2> QED BY <1>3, <2>3, <2>4, Zenon DEF ReadData
<1>4. ASSUME TInv, ShortScalar PROVE TInv'
  <2>1. DataLen \in Nat
    BY <1>4, DataLenNat DEF TInv, OutcomeOK, WireOK, Named, ShortScalar
  <2>2. PICK k \in 1 .. (DataLen - 1) : ShortBy(k)
    BY <1>4 DEF ShortScalar
  <2>3. WireOK'
    BY <1>4, <2>1, <2>2, ConsumeOK DEF TInv, ShortBy
  <2>4. OutcomeOK'
    BY <1>4, ReturnOK DEF ShortScalar
  <2> QED BY <2>3, <2>4 DEF TInv
<1> QED BY <1>1, <1>2, <1>3, <1>4

LEMMA RespondOK == ASSUME TInv, NEW n \in Nat, NEW ok \in BOOLEAN, NEW len \in Nat,
                          NEW val \in Values \cup {NoVal}, Respond(n, ok, len, val),
                          torn' \in BOOLEAN, reqs' \in Seq(Request),
                          store' \in [Names -> Values \cup {Absent}]
                   PROVE  TInv'
<1>1. [id |-> n, start |-> wpos, len |-> len, ok |-> ok, val |-> val] \in Frame
  BY DEF TInv, WireOK, Frame
<1>2. frames' \subseteq Frame
  BY <1>1, Zenon DEF TInv, WireOK, Respond
<1>3. wpos' \in Nat /\ rpos' <= wpos'
  BY DEF TInv, WireOK, Respond, HdrLen
<1>4. Named'
  BY DEF TInv, OutcomeOK, Respond, client, Named
<1> QED BY <1>2, <1>3, <1>4, Zenon DEF TInv, OutcomeOK, WireOK, Respond, client

LEMMA TypeServer == TInv /\ Server => TInv'
<1>1. ASSUME TInv, reqs # <<>>
      PROVE  Head(reqs) \in Request /\ Tail(reqs) \in Seq(Request)
  BY <1>1 DEF TInv, WireOK
<1>2. ASSUME NEW r \in Request
      PROVE  /\ r.id \in Nat /\ r.call.fn \in Fns /\ r.call.name \in Names
             /\ r.call.val \in Values \cup {NoVal}
  BY CallsAssumption DEF Request, Call
<1>3. ASSUME TInv, ServeOk PROVE TInv'
  <2>1. /\ Head(reqs).id \in Nat /\ Head(reqs).call.name \in Names
        /\ Head(reqs).call.val \in Values \cup {NoVal} /\ reqs' \in Seq(Request)
    BY <1>1, <1>2, <1>3 DEF ServeOk
  <2>2. Served \in Values
    BY <1>3, <2>1 DEF Served, TInv, WireOK, ServeOk
  <2>3. store' \in [Names -> Values \cup {Absent}]
    BY <1>3, <2>1, <2>2 DEF TInv, WireOK, ServeOk
  <2>4. 0 \in Nat /\ SubLen + Served.size \in Nat
    BY <2>2, ValueSizes DEF SubLen
  <2>5. torn' \in BOOLEAN
    BY <1>3, Zenon DEF ServeOk, TInv, WireOK
  <2> QED BY <1>3, <2>1, <2>2, <2>3, <2>4, <2>5, RespondOK DEF ServeOk
<1>4. ASSUME TInv, ServeErr PROVE TInv'
  <2>1. Head(reqs).id \in Nat /\ reqs' \in Seq(Request)
    BY <1>1, <1>2, <1>4 DEF ServeErr
  <2>2. PICK l \in ErrTexts : Respond(Head(reqs).id, FALSE, l, NoVal)
    BY <1>4 DEF ServeErr
  <2>3. l \in Nat
    BY ConstantsAssumption
  <2>4. store' \in [Names -> Values \cup {Absent}]
    BY <1>4 DEF ServeErr, TInv, WireOK
  <2>5. torn' \in BOOLEAN
    BY <1>4, Zenon DEF ServeErr, TInv, WireOK
  <2> QED BY <1>4, <2>1, <2>2, <2>3, <2>4, <2>5, RespondOK
<1>5. ASSUME TInv, ServeTorn PROVE TInv'
  <2>1. /\ reqs' \in Seq(Request) /\ torn' \in BOOLEAN
        /\ 0 \in Nat
    BY <1>5 DEF ServeTorn, TInv, WireOK
  <2>2. CASE \E l \in ErrTexts : Respond(0, FALSE, l, NoVal) /\ UNCHANGED store
    <3>1. ErrTexts \subseteq Nat
      BY ConstantsAssumption
    <3>2. store' \in [Names -> Values \cup {Absent}]
      BY <1>5, <2>2 DEF TInv, WireOK
    <3> QED BY <1>5, <2>1, <2>2, <3>1, <3>2, RespondOK
  <2>3. ASSUME NEW v \in Values,
               store' \in {store} \cup {[store EXCEPT ![n] = v] : n \in Names},
               Respond(0, TRUE, 0, NoVal) \/ Respond(0, TRUE, SubLen + v.size, v)
        PROVE  TInv'
    <3>1. store' \in [Names -> Values \cup {Absent}]
      BY <1>5, <2>3 DEF TInv, WireOK
    <3>2. SubLen + v.size \in Nat
      BY ValueSizes DEF SubLen
    <3> QED BY <1>5, <2>1, <2>3, <3>1, <3>2, RespondOK
  <2> QED BY <1>5, <2>2, <2>3, Zenon DEF ServeTorn
<1>6. ASSUME TInv, ServerClose PROVE TInv'
  <2>1. conn' \in {"open", "shut", "closed"} /\ reqs' \in Seq(Request)
    BY <1>6 DEF ServerClose
  <2>2. Named'
    BY <1>6 DEF TInv, OutcomeOK, ServerClose, client, Named
  <2> QED BY <1>6, <2>1, <2>2, Zenon DEF TInv, OutcomeOK, WireOK, ServerClose, client
<1> QED BY <1>3, <1>4, <1>5, <1>6 DEF Server

LEMMA TypeStutter == TInv /\ UNCHANGED vars => TInv'
<1> SUFFICES ASSUME TInv, UNCHANGED vars PROVE TInv'
  OBVIOUS
<1>1. Named'
  BY DEF TInv, OutcomeOK, vars, Named
<1> QED BY <1>1, Zenon DEF TInv, OutcomeOK, WireOK, vars

LEMMA TypeStep == TInv /\ [Next]_vars => TInv'
BY TypeApp, TypeSend, TypeReadFails, TypeReadHdr, TypeReadPayload, TypeServer, TypeStutter
   DEF Next, Read, Done

LEMMA TypeInvariant == Spec => []TInv
BY TypeInit, TypeStep, PTL DEF Spec

\* The variables keep their types, and the client never consumes a byte the
\* server has not produced, for every choice of calls, values, timeouts and
\* response lengths.
THEOREM TypeCorrect == Spec => []TypeOK
BY TypeInvariant, TInvTypeOK, PTL

-----------------------------------------------------------------------------
(* The client stays in step.  The theorems need two hypotheses the code     *)
(* itself does not secure: error responses carry no text (exec_str without  *)
(* output would not read it), and get_I4 and get_F8 get what they ask for   *)
(* in one read (they do not look at how much they got).                     *)

BareErrors == ErrTexts = {0}
WholeReads == Segmented => \A c \in Calls : c.fn \notin ScalarFns

\* The response f answers the call in progress: its length is that of its
\* value, and the value is what the workspace holds.
Answers(f) == IF ~f.ok THEN f.len = 0
              ELSE IF call.fn \in VoidFns THEN f.len = 0
              ELSE /\ f.val \in Values /\ f.val = store[call.name]
                   /\ f.len = SubLen + f.val.size

\* The checks of the DT_ and XT_ words have been passed.
Checked(f) == /\ call.xt \in {"any", f.val.xt}
              /\ call.fn \in ScalarFns => f.val.size = Width[call.xt]

Facts == ~spoiled /\ pc # "killed" =>
           /\ \A f \in frames : Answers(f)
           /\ pc \in {"readCount", "readData"} => \A f \in frames : Checked(f)
           /\ pc = "readCount" => Skip = CountLen

IInv == InStep /\ Facts

\* What OwnAnswer and ReadBack ask of one step.
GoodStep == Succeeds =>
              /\ ret'.from = id
              /\ call.fn \notin VoidFns =>
                   LET v == store[call.name]
                   IN  /\ v \in Values /\ call.xt \in {"any", v.xt}
                       /\ call.fn \in ScalarFns => v.n = 1
                       /\ ret'.val = RV!Received(call, v)

LEMMA StepInit == Init => IInv
BY DEF Init, IInv, InStep, Facts, Quiet, SendPcs, ReadPcs

\* A spoiled connection makes no claim, and a failing call spoils it.
LEMMA FailToStep == ASSUME NEW pcs, NEW status \in {-1, -2, -3}, TInv, FailTo(pcs, status)
                    PROVE  IInv' /\ GoodStep
<1>1. spoiled' = TRUE /\ ret'.status # 0
  BY DEF FailTo
<1> QED BY <1>1 DEF IInv, InStep, Facts, GoodStep, Succeeds

LEMMA FailStep == ASSUME NEW status \in {-1, -2, -3}, TInv, Fail(status)
                  PROVE  IInv' /\ GoodStep
BY FailToStep DEF Fail

\* Between calls and while sending, quiet is all there is to be.
LEMMA QuietStep == ASSUME ~spoiled' => ~torn' /\ Quiet',
                          pc' \in {"idle", "killed"} \cup SendPcs
                   PROVE  IInv'
<1>1. pc' \notin ReadPcs
  BY DEF SendPcs, ReadPcs
<1> QED BY <1>1, Zenon DEF IInv, InStep, Facts, Quiet, ReadPcs

LEMMA StepApp == TInv /\ IInv /\ App => IInv' /\ GoodStep
<1>1. ASSUME TInv, IInv, NEW c \in Calls, Begin(c) PROVE IInv' /\ GoodStep
  BY <1>1 DEF IInv, InStep, Facts, Begin, MayCall, Quiet, SendPcs, GoodStep, Succeeds
<1>2. ASSUME TInv, IInv, NEW c \in Calls, Reject(c) PROVE IInv' /\ GoodStep
  BY <1>2 DEF IInv, InStep, Facts, Reject, MayCall, Quiet, SendPcs, GoodStep, Succeeds
<1>3. ASSUME TInv, IInv, CloseConn PROVE IInv' /\ GoodStep
  BY <1>3 DEF IInv, InStep, Facts, CloseConn, client, Quiet, SendPcs, GoodStep, Succeeds
<1>4. ASSUME TInv, IInv, Rconnect PROVE IInv' /\ GoodStep
  BY <1>4 DEF IInv, InStep, Facts, Rconnect, Quiet, SendPcs, GoodStep, Succeeds
<1> QED BY <1>1, <1>2, <1>3, <1>4 DEF App

LEMMA StepSend == TInv /\ IInv /\ Send => IInv' /\ GoodStep
<1>1. ASSUME TInv, IInv, SendPart PROVE IInv' /\ GoodStep
  <2>1. GoodStep
    BY <1>1 DEF GoodStep, Succeeds, SendPart
  <2>2. NextSend \in SendPcs \/ NextSend = "readHdr"
    BY <1>1 DEF SendPart, NextSend, SendPcs
  <2>3. ~spoiled => ~torn /\ Quiet
    BY <1>1, Zenon DEF IInv, InStep, SendPart
  <2>4. /\ pc' = NextSend
        /\ UNCHANGED <<call, id, left, ret, spoiled, conn, torn, frames, rpos, wpos, store>>
    BY <1>1, Zenon DEF SendPart
  <2>5. CASE NextSend # "readHdr"
    <3>1. reqs' = reqs
      BY <1>1, <2>5, Zenon DEF SendPart
    <3>2. ~spoiled' => ~torn' /\ Quiet'
      BY <2>3, <2>4, <3>1, Zenon DEF Quiet
    <3> QED BY <2>1, <2>2, <2>4, <2>5, <3>2, QuietStep
  <2>6. CASE NextSend = "readHdr"
    <3>1. pc' \notin {"idle", "readSub", "readCount", "readData"} \cup SendPcs
      BY <2>4, <2>6 DEF SendPcs
    <3>2. ~spoiled' => ~torn' /\ frames' = {} /\ rpos' = wpos'
      BY <2>3, <2>4, Zenon DEF Quiet
    <3>3. ~spoiled' => \/ reqs' = <<[id |-> id', call |-> call']>>
                       \/ reqs' = <<>> /\ conn' # "open"
      <4>1. CASE conn = "open" /\ ~torn
        <5>1. reqs' = Append(reqs, [id |-> id', call |-> call'])
          BY <1>1, <2>4, <2>6, <4>1, Zenon DEF SendPart
        <5>2. ~spoiled' => reqs = <<>>
          BY <2>3, <2>4, Zenon DEF Quiet
        <5> QED BY <5>1, <5>2
      <4>2. CASE ~(conn = "open" /\ ~torn)
        <5>1. reqs' = reqs
          BY <1>1, <4>2, Zenon DEF SendPart
        <5>2. ~spoiled' => reqs = <<>> /\ ~torn /\ conn' = conn
          BY <2>3, <2>4, Zenon DEF Quiet
        <5> QED BY <4>2, <5>1, <5>2, Zenon
      <4> QED BY <4>1, <4>2
    <3>4. /\ pc' \notin {"idle"} \cup SendPcs /\ pc' # "readSub"
          /\ pc' # "readCount" /\ pc' # "readData" /\ pc' \notin {"readCount", "readData"}
      BY <3>1 DEF SendPcs
    <3>5. InStep'
      BY <3>2, <3>3, <3>4, Zenon DEF InStep, Quiet
    <3>6. Facts'
      BY <3>2, <3>4, Zenon DEF Facts
    <3> QED BY <2>1, <3>5, <3>6 DEF IInv
  <2> QED BY <2>5, <2>6
<1>2. ASSUME TInv, IInv, SendFails PROVE IInv' /\ GoodStep
  BY <1>2, FailStep DEF SendFails
<1>3. ASSUME TInv, IInv, SendKills PROVE IInv' /\ GoodStep
  BY <1>3 DEF IInv, InStep, Facts, SendKills, SendPcs, GoodStep, Succeeds
<1> QED BY <1>1, <1>2, <1>3 DEF Send

\* The stream while a response is being read: f is the only one, it answers
\* the call in progress, and n bytes of it are consumed.
Owns(f, n) == /\ reqs = <<>> /\ frames = {f} /\ f \in Frame /\ f.id = id
              /\ rpos = f.start + n /\ wpos = f.start + HdrLen + f.len
              /\ n > HdrLen => f.ok
              /\ n >= HdrLen => left = HdrLen + f.len - n
              /\ Answers(f)

LEMMA ReadingOwns == ASSUME TInv, IInv, ~spoiled, pc # "killed", NEW n \in Nat, Reading(n)
                     PROVE  \E f \in frames : Owns(f, n)
BY Zenon DEF TInv, WireOK, IInv, Facts, Reading, Owns

\* Where the client is in the stream when as many bytes are there as it wants.
LEMMA AtHdr == ASSUME TInv, IInv, ~spoiled, ReadHdr
               PROVE  /\ \E f \in frames : Owns(f, 0) /\ HdrSeen = {f}
                      /\ ~torn /\ UNCHANGED <<call, id, conn, torn, reqs, wpos, store>>
<1>1. pc = "readHdr" /\ rpos # wpos
  BY DEF ReadHdr, Unread, TInv, WireOK, HdrLen
<1>2. Reading(0) /\ ~torn
  BY <1>1, Zenon DEF IInv, InStep, Quiet
<1>3. pc # "killed"
  BY <1>1
<1>4. PICK f \in frames : Owns(f, 0)
  BY <1>2, <1>3, ReadingOwns
<1>5. f.start = rpos
  BY <1>4 DEF Owns, Frame
<1>6. HdrSeen = {f}
  BY <1>4, <1>5 DEF Owns, HdrSeen
<1> QED BY <1>2, <1>4, <1>6 DEF ReadHdr, Consume

\* What is left of the only response once k more bytes are consumed.
LEMMA ConsumeRest == ASSUME NEW f, NEW n \in Nat, NEW k \in Nat, Owns(f, n), Consume(k)
                     PROVE  /\ rpos' = f.start + n + k /\ wpos' = f.start + HdrLen + f.len
                            /\ reqs' = <<>> /\ f.start \in Nat /\ f.len \in Nat
                            /\ HdrLen + f.len > n + k => frames' = {f}
                            /\ HdrLen + f.len = n + k => frames' = {} /\ rpos' = wpos'
<1>1. f.start \in Nat /\ f.len \in Nat
  BY DEF Owns, Frame
<1>2. rpos' = f.start + n + k /\ wpos' = f.start + HdrLen + f.len /\ reqs' = <<>>
  BY DEF Owns, Consume
<1>3. frames' = {g \in {f} : g.start + HdrLen + g.len > f.start + n + k}
  BY <1>1 DEF Owns, Consume
<1>4. HdrLen + f.len > n + k => frames' = {f}
  BY <1>1, <1>3 DEF HdrLen
<1>5. HdrLen + f.len = n + k => frames' = {} /\ rpos' = wpos'
  BY <1>1, <1>2, <1>3 DEF HdrLen
<1> QED BY <1>1, <1>2, <1>4, <1>5

LEMMA SpoiledStep == ASSUME spoiled, spoiled' PROVE IInv' /\ GoodStep
BY DEF IInv, InStep, Facts, GoodStep, Succeeds

\* A call that ends by consuming the rest of its response leaves quiet behind.
LEMMA ReturnStep == ASSUME NEW f, NEW n \in Nat, NEW k \in Nat, Owns(f, n), Consume(k),
                           HdrLen + f.len = n + k, ~torn, torn' = torn,
                           NEW ok, NEW val, Return(f.id, ok, val),
                           call.fn \notin VoidFns =>
                             /\ f.ok /\ Checked(f) /\ val = RV!Received(call, f.val)
                             /\ call.fn \in ScalarFns => f.val.n = 1
                    PROVE  IInv' /\ GoodStep
<1>1. frames' = {} /\ rpos' = wpos' /\ reqs' = <<>>
  BY ConsumeRest
<1>2. pc' \in {"idle", "killed"} \cup SendPcs
  BY DEF Return
<1>3. IInv'
  BY <1>1, <1>2, QuietStep DEF Quiet
<1>4. ret'.from = id /\ ret'.val = val
  BY DEF Return, Owns
<1>5. GoodStep
  BY <1>4 DEF GoodStep, Owns, Answers, Checked
<1> QED BY <1>3, <1>5

LEMMA StepVoidHdr ==
  ASSUME BareErrors, TInv, IInv, ExecVoidReadHdr \/ SetVecReadHdr PROVE IInv' /\ GoodStep
<1>1. PICK h \in HdrSeen : Fail(-1) \/ (Return(h.id, h.ok, NoVal))
  BY Zenon DEF ExecVoidReadHdr, SetVecReadHdr
<1>2. ReadHdr /\ call.fn \in VoidFns
  BY DEF ExecVoidReadHdr, SetVecReadHdr, VoidFns
<1>3. CASE Fail(-1)
  BY <1>3, FailStep
<1>4. CASE Return(h.id, h.ok, NoVal) /\ spoiled
  BY <1>4, SpoiledStep DEF Return
<1>5. CASE Return(h.id, h.ok, NoVal) /\ ~spoiled
  <2>1. PICK f \in frames : Owns(f, 0) /\ HdrSeen = {f}
    BY <1>2, <1>5, AtHdr
  <2>2. h = f /\ f.len = 0
    BY <1>2, <2>1 DEF Owns, Answers
  <2>3. ~torn /\ torn' = torn
    BY <1>2, <1>5, AtHdr
  <2>4. Consume(HdrLen) /\ HdrLen + f.len = 0 + HdrLen /\ HdrLen \in Nat
    BY <1>2, <2>2 DEF ReadHdr, HdrLen
  <2> QED BY <1>2, <1>5, <2>1, <2>2, <2>3, <2>4, ReturnStep
<1> QED BY <1>1, <1>3, <1>4, <1>5

\* After the header the client is 16 bytes into the response, or the response
\* was an error without text and nothing is left of it.
LEMMA StepEvalHdr ==
  ASSUME TInv, IInv, ReadHdr, call.fn \notin VoidFns, NEW h \in HdrSeen, left' = h.len,
         pc' = "readSub", UNCHANGED <<ret, spoiled>>
  PROVE  IInv' /\ GoodStep
<1>1. GoodStep
  BY DEF GoodStep, Succeeds
<1>2. CASE spoiled
  BY <1>2, SpoiledStep
<1>3. CASE ~spoiled
  <2>1. PICK f \in frames : Owns(f, 0) /\ HdrSeen = {f}
    BY <1>3, AtHdr
  <2>2. /\ rpos' = f.start + HdrLen /\ wpos' = f.start + HdrLen + f.len /\ reqs' = <<>>
        /\ f.start \in Nat /\ f.len \in Nat
        /\ f.len > 0 => frames' = {f}
        /\ f.len = 0 => frames' = {} /\ rpos' = wpos'
    BY <2>1, ConsumeRest DEF ReadHdr, HdrLen
  <2>3. left' = f.len /\ ~torn' /\ ~spoiled' /\ id' = id /\ call' = call /\ store' = store
    BY <1>3, <2>1, AtHdr
  <2>4. CASE f.len = 0
    <3>1. Quiet' /\ left' = 0
      BY <2>2, <2>3, <2>4 DEF Quiet
    <3>2. InStep'
      BY <2>3, <3>1, Zenon DEF InStep, SendPcs
    <3>3. Facts'
      BY <3>1 DEF Facts, Quiet
    <3> QED BY <1>1, <3>2, <3>3 DEF IInv
  <2>5. CASE f.len > 0
    <3>1. frames' = {f}
      BY <2>2, <2>5
    <3>2. left' = HdrLen + f.len - HdrLen /\ ~(HdrLen > HdrLen)
      BY <2>2, <2>3 DEF HdrLen
    <3>3. Reading(HdrLen)'
      BY <2>1, <2>2, <2>3, <3>1, <3>2, Zenon DEF Reading, Owns
    <3>4. InStep'
      BY <2>3, <3>3 DEF InStep, SendPcs
    <3>5. Answers(f)'
      BY <2>1, <2>3 DEF Owns, Answers
    <3>6. Facts'
      BY <3>1, <3>5 DEF Facts
    <3> QED BY <1>1, <3>4, <3>6 DEF IInv
  <2> QED BY <2>2, <2>4, <2>5
<1> QED BY <1>2, <1>3

\* The size of a value, as the reads of the functions split it.
LEMMA SizeSplit == ASSUME TInv, call.fn \notin VoidFns, NEW f, f.ok, Answers(f), LenGood,
                          left = SubLen + f.val.size, call.xt \in {"any", f.val.xt}
                   PROVE  /\ Checked(f) /\ f.val.size \in Nat /\ f.val.size > Skip
                          /\ Skip \in {0, CountLen}
<1>1. /\ f.val \in Values /\ f.val.size \in Nat /\ f.val.size > 0
      /\ f.val.xt = "BOOL" => f.val.size > CountLen
      /\ f.val.size % Width[f.val.xt] = 0 /\ f.val.xt \in Xts
  BY ValueSizes DEF Answers
<1>2. call.fn \in RawFns => call.xt \in {"INT", "DOUBLE", "BOOL"}
  BY CallsAssumption DEF RawFns, ScalarFns, TInv, WireOK
<1>3. f.val.size > Skip /\ Skip \in {0, CountLen}
  BY <1>1 DEF Skip
<1>4. ASSUME call.fn \in ScalarFns PROVE f.val.size = Width[call.xt]
  <2>1. f.val.xt = call.xt /\ call.xt \in {"INT", "DOUBLE"}
    BY <1>2, <1>4, CallsAssumption DEF RawFns, ScalarFns, TInv, WireOK
  <2>2. Width[call.xt] \in {4, 8}
    BY <2>1 DEF Width
  <2>3. f.val.size \div Width[call.xt] = 1 /\ f.val.size % Width[call.xt] = 0
    BY <1>1, <1>4, <2>1 DEF LenGood, RawFns, SubLen
  <2>4. \A w \in {4, 8}, n \in Nat : n \div w = 1 /\ n % w = 0 => n = w
    OBVIOUS
  <2> QED BY <1>1, <2>2, <2>3, <2>4
<1> QED BY <1>1, <1>3, <1>4 DEF Checked

LEMMA AtSub == ASSUME TInv, IInv, ~spoiled, pc = "readSub", Unread >= SubLen
               PROVE  \E f \in frames : /\ Owns(f, HdrLen) /\ f.len = left
                                        /\ SubGood = {f.ok /\ call.xt \in {"any", f.val.xt}}
<1>1. rpos # wpos
  BY DEF Unread, TInv, WireOK, SubLen
<1>2. Reading(HdrLen) /\ HdrLen \in Nat /\ pc # "killed"
  BY <1>1 DEF IInv, InStep, Quiet, HdrLen
<1>3. PICK f \in frames : Owns(f, HdrLen)
  BY <1>2, ReadingOwns
<1>4. f.start + HdrLen = rpos /\ f.len = left /\ frames = {f}
  BY <1>3 DEF Owns, Frame, HdrLen
<1>5. {g \in frames : g.start + HdrLen = rpos} = {f}
  BY <1>4
<1>6. SubGood = {f.ok /\ call.xt \in {"any", f.val.xt}}
  BY <1>5 DEF SubGood
<1> QED BY <1>3, <1>4, <1>6

LEMMA StepReadSub == ASSUME TInv, IInv, ReadSub PROVE IInv' /\ GoodStep
<1>1. pc = "readSub" /\ Unread >= SubLen /\ Consume(SubLen)
  BY DEF ReadSub
<1>2. PICK good \in SubGood :
         IF good /\ LenGood
         THEN /\ pc' = IF Skip > 0 THEN "readCount" ELSE "readData"
              /\ left' = left - SubLen /\ UNCHANGED <<ret, spoiled>>
         ELSE Fail(-1)
  BY DEF ReadSub
<1>3. CASE Fail(-1)
  BY <1>3, FailStep
<1>4. CASE /\ good /\ LenGood
           /\ pc' = IF Skip > 0 THEN "readCount" ELSE "readData"
           /\ left' = left - SubLen /\ UNCHANGED <<ret, spoiled>>
  <2>1. GoodStep
    BY <1>4 DEF GoodStep, Succeeds
  <2>2. CASE spoiled
    BY <1>4, <2>2, SpoiledStep
  <2>3. CASE ~spoiled
    <3>1. PICK f \in frames : /\ Owns(f, HdrLen) /\ f.len = left
                              /\ SubGood = {f.ok /\ call.xt \in {"any", f.val.xt}}
      BY <1>1, <2>3, AtSub
    <3>2. f.ok /\ call.xt \in {"any", f.val.xt}
      BY <1>2, <1>4, <3>1, Zenon
    <3>3. call.fn \notin VoidFns
      BY <1>1 DEF TInv, OutcomeOK, Named
    <3>4. f.len = SubLen + f.val.size /\ Answers(f)
      BY <3>1, <3>2, <3>3 DEF Owns, Answers
    <3>5. /\ Checked(f) /\ f.val.size \in Nat /\ f.val.size > Skip
          /\ Skip \in {0, CountLen}
      BY <1>4, <3>1, <3>2, <3>3, <3>4, SizeSplit
    <3>6. /\ rpos' = f.start + HdrLen + SubLen /\ wpos' = f.start + HdrLen + f.len
          /\ reqs' = <<>> /\ f.start \in Nat /\ f.len \in Nat /\ frames' = {f}
      <4>1. HdrLen \in Nat /\ SubLen \in Nat /\ Skip \in Nat
        BY <3>5 DEF HdrLen, SubLen, CountLen
      <4>2. f.val.size > 0
        BY <3>5, <4>1
      <4>3. HdrLen + f.len > HdrLen + SubLen
        BY <3>4, <3>5, <4>1, <4>2
      <4> QED BY <1>1, <3>1, <4>1, <4>3, ConsumeRest
    <3>7. /\ ~torn' /\ ~spoiled' /\ id' = id /\ call' = call /\ store' = store
      BY <1>1, <1>4, <2>3 DEF Consume, IInv, InStep
    <3>8. Skip' = Skip
      BY <3>7 DEF Skip
    <3>9. Reading(HdrLen + SubLen)'
      <4>1. /\ rpos' = f.start + (HdrLen + SubLen)
            /\ left' = HdrLen + f.len - (HdrLen + SubLen)
        BY <1>4, <3>1, <3>6 DEF HdrLen, SubLen
      <4> QED BY <3>1, <3>2, <3>6, <3>7, <4>1, Zenon DEF Reading, Owns
    <3>10. InStep'
      <4>1. CASE Skip > 0
        BY <1>4, <3>7, <3>9, <4>1 DEF InStep, SendPcs
      <4>2. CASE ~(Skip > 0)
        <5>1. Skip = 0 /\ HdrLen + SubLen + Skip' = HdrLen + SubLen
          BY <3>5, <3>8, <4>2 DEF CountLen, HdrLen, SubLen
        <5>2. pc' = "readData" /\ Reading(HdrLen + SubLen + Skip)'
          BY <1>4, <3>9, <4>2, <5>1
        <5> QED BY <3>7, <5>2 DEF InStep, SendPcs
      <4> QED BY <4>1, <4>2
    <3>11. Answers(f)' /\ Checked(f)'
      BY <3>4, <3>5, <3>7 DEF Answers, Checked
    <3>12. pc' = "readCount" => Skip' = CountLen
      BY <1>4, <3>5, <3>8 DEF CountLen
    <3> QED BY <2>1, <3>6, <3>10, <3>11, <3>12 DEF IInv, Facts
  <2> QED BY <2>2, <2>3
<1> QED BY <1>2, <1>3, <1>4

LEMMA StepReadCount == ASSUME TInv, IInv, GetVecReadCount PROVE IInv' /\ GoodStep
<1>1. CASE spoiled
  <2>1. spoiled'
    BY <1>1 DEF GetVecReadCount, FailTo
  <2> QED BY <1>1, <2>1, SpoiledStep
<1>2. CASE ~spoiled
  <2>1. pc = "readCount" /\ Consume(CountLen) /\ ~torn
    BY <1>2 DEF GetVecReadCount, IInv, InStep
  <2>2. PICK f \in frames : Owns(f, HdrLen + SubLen)
    BY <1>2, <2>1, ReadingOwns DEF IInv, InStep, HdrLen, SubLen
  <2>3. f.ok /\ Answers(f) /\ Checked(f) /\ Skip = CountLen /\ call.fn \notin VoidFns
    BY <1>2, <2>1, <2>2 DEF IInv, Facts, Owns, HdrLen, SubLen, TInv, OutcomeOK, Named
  <2>4. f.val.xt = "BOOL" /\ f.val \in Values /\ f.len = SubLen + f.val.size
    BY <2>3 DEF Skip, CountLen, Checked, Answers
  <2>5. f.val.size \in Nat /\ f.val.size > CountLen
    BY <2>4, ValueSizes
  <2>6. left = f.val.size
    BY <2>2, <2>4, <2>5 DEF Owns, HdrLen, SubLen
  <2>7. pc' = "readData" /\ left' = left - CountLen /\ UNCHANGED <<ret, spoiled>>
    BY <2>5, <2>6 DEF GetVecReadCount, CountLen
  <2>8. /\ rpos' = f.start + (HdrLen + SubLen) + CountLen
        /\ wpos' = f.start + HdrLen + f.len
        /\ reqs' = <<>> /\ f.start \in Nat /\ f.len \in Nat /\ frames' = {f}
    <3>1. HdrLen + SubLen \in Nat /\ CountLen \in Nat
      BY DEF HdrLen, SubLen, CountLen
    <3>2. HdrLen + f.len > HdrLen + SubLen + CountLen
      BY <2>4, <2>5 DEF HdrLen, SubLen, CountLen
    <3> QED BY <2>1, <2>2, <3>1, <3>2, ConsumeRest
  <2>9. /\ ~torn' /\ ~spoiled' /\ id' = id /\ call' = call /\ store' = store
    BY <1>2, <2>1, <2>7 DEF Consume
  <2>10. Skip' = CountLen
    BY <2>3, <2>9 DEF Skip
  <2>11. Reading(HdrLen + SubLen + Skip)'
    <3>1. rpos' = f.start + (HdrLen + SubLen + Skip')
      BY <2>8, <2>10 DEF HdrLen, SubLen, CountLen
    <3>2. left' = HdrLen + f.len - (HdrLen + SubLen + Skip')
      <4>1. left' = f.val.size - CountLen
        BY <2>6, <2>7
      <4>2. HdrLen + f.len - (HdrLen + SubLen + Skip') = f.val.size - CountLen
        BY <2>4, <2>5, <2>10 DEF HdrLen, SubLen, CountLen
      <4> QED BY <4>1, <4>2
    <3> QED BY <2>2, <2>3, <2>8, <2>9, <3>1, <3>2, Zenon DEF Reading, Owns
  <2>12. InStep'
    BY <2>7, <2>9, <2>11 DEF InStep, SendPcs
  <2>13. Answers(f)' /\ Checked(f)'
    BY <2>3, <2>9 DEF Answers, Checked
  <2>14. GoodStep
    BY <2>7 DEF GoodStep, Succeeds
  <2> QED BY <2>7, <2>8, <2>12, <2>13, <2>14 DEF IInv, Facts
<1> QED BY <1>1, <1>2

\* When the data is about to be read, what is left is exactly what is asked.
LEMMA AtData == ASSUME TInv, IInv, ~spoiled, pc = "readData"
                PROVE  \E f \in frames : /\ Owns(f, HdrLen + SubLen + Skip) /\ Checked(f)
                                         /\ HdrLen + f.len = HdrLen + SubLen + Skip + DataLen
                                         /\ DataLen = f.val.size - Skip
                                         /\ DataSeen = {f} /\ Unread = DataLen
<1>1. call.fn \notin VoidFns /\ pc # "killed" /\ Skip \in {0, CountLen}
  BY DEF TInv, OutcomeOK, Named, Skip
<1>2. HdrLen + SubLen + Skip \in Nat /\ HdrLen + SubLen + Skip > HdrLen
  BY <1>1 DEF HdrLen, SubLen, CountLen
<1>3. PICK f \in frames : Owns(f, HdrLen + SubLen + Skip)
  BY <1>1, <1>2, ReadingOwns DEF IInv, InStep
<1>4. f.ok /\ Checked(f) /\ f.val \in Values /\ f.len = SubLen + f.val.size /\ f \in Frame
  BY <1>1, <1>2, <1>3 DEF IInv, Facts, Owns, Answers
<1>5. /\ f.val.size \in Nat /\ f.val.size % Width[f.val.xt] = 0 /\ f.val.xt \in Xts
      /\ f.start \in Nat /\ f.len \in Nat /\ rpos \in Nat
  BY <1>4, ValueSizes DEF Frame, TInv, WireOK
<1>6. left = f.val.size - Skip
  <2>1. Skip \in Nat
    BY <1>1 DEF CountLen
  <2>2. left = HdrLen + f.len - (HdrLen + SubLen + Skip)
    BY <1>2, <1>3 DEF Owns, HdrLen
  <2>3. f.len = SubLen + f.val.size /\ f.val.size \in Nat
    BY <1>4, <1>5
  <2> QED BY <2>1, <2>2, <2>3 DEF HdrLen, SubLen
<1>7. DataLen = f.val.size - Skip
  <2>1. call \in Call /\ (call.fn \in RawFns => call.xt \in {"INT", "DOUBLE", "BOOL"})
    BY CallsAssumption DEF RawFns, ScalarFns, TInv, WireOK
  <2>2. CASE call.fn = "exec_eval"
    BY <1>6, <2>2 DEF DataLen
  <2>3. CASE call.fn \in ScalarFns
    BY <1>4, <1>5, <2>3 DEF DataLen, Checked, Skip, ScalarFns
  <2>4. CASE call.fn = "get_vec"
    <3>1. call.xt = f.val.xt /\ DataLen = (left \div Width[call.xt]) * Width[call.xt]
      BY <1>4, <2>1, <2>4 DEF Checked, DataLen, ScalarFns, RawFns
    <3>2. CASE call.xt = "BOOL"
      <4>1. left \in Int /\ Width[call.xt] = 1
        BY <1>1, <1>5, <1>6, <3>2 DEF Width, CountLen
      <4> QED BY <1>6, <3>1, <4>1
    <3>3. CASE call.xt \in {"INT", "DOUBLE"}
      <4>1. Skip = 0 /\ Width[call.xt] \in {4, 8}
        BY <3>3 DEF Skip, Width
      <4>2. \A w \in {4, 8}, n \in Nat : n % w = 0 => (n \div w) * w = n
        OBVIOUS
      <4>3. left = f.val.size /\ left % Width[call.xt] = 0 /\ left \in Nat
        BY <1>5, <1>6, <3>1, <4>1
      <4>4. DataLen = left
        BY <3>1, <4>1, <4>2, <4>3
      <4> QED BY <1>6, <4>4
    <3> QED BY <2>1, <2>4, <3>2, <3>3 DEF RawFns
  <2> QED BY <1>1, <2>1, <2>2, <2>3, <2>4 DEF Call, Fns, VoidFns, RawFns
<1>8. HdrLen + f.len = HdrLen + SubLen + Skip + DataLen /\ Unread = DataLen
  <2>1. Skip \in Nat
    BY <1>1 DEF CountLen
  <2>2. HdrLen + f.len = HdrLen + SubLen + Skip + DataLen
    BY <1>4, <1>5, <1>7, <2>1 DEF HdrLen, SubLen
  <2>3. rpos = f.start + (HdrLen + SubLen + Skip) /\ wpos = f.start + HdrLen + f.len
    BY <1>3 DEF Owns
  <2>4. Unread = DataLen
    BY <1>4, <1>5, <1>7, <2>1, <2>3 DEF Unread, HdrLen, SubLen
  <2> QED BY <2>2, <2>4
<1>9. f.start + HdrLen + SubLen + Skip = rpos /\ f.val.size = Skip + DataLen
  <2>1. Skip \in Nat
    BY <1>1 DEF CountLen
  <2>2. rpos = f.start + (HdrLen + SubLen + Skip)
    BY <1>3 DEF Owns
  <2>3. f.start + HdrLen + SubLen + Skip = rpos
    BY <1>5, <2>1, <2>2 DEF HdrLen, SubLen
  <2> QED BY <1>5, <1>7, <2>1, <2>3
<1>10. DataSeen = {f}
  BY <1>3, <1>4, <1>9 DEF DataSeen, Owns
<1> QED BY <1>3, <1>4, <1>7, <1>8, <1>10

\* What the elements of the data are, when the data is that of the value v.
LEMMA HandedReceived ==
  ASSUME TInv, call.fn \notin VoidFns, NEW f, f.val \in Values, Checked(f),
         DataLen = f.val.size - Skip
  PROVE  /\ Handed(f.val) = RV!Received(call, f.val)
         /\ call.fn \in ScalarFns => f.val.n = 1
<1> DEFINE v == f.val
<1>1. /\ v.n \in Nat \ {0} /\ v.size \in Nat /\ [v EXCEPT !.n = v.n] = v
      /\ v.xt \in {"INT", "DOUBLE"} => v.size = v.n * Width[v.xt]
      /\ v.xt = "BOOL" => v.size = CountLen + RoundUp4(v.n)
  BY ValueSizes
<1>2. call \in Call /\ (call.fn \in RawFns => call.xt \in {"INT", "DOUBLE", "BOOL"})
  BY CallsAssumption DEF RawFns, ScalarFns, TInv, WireOK
<1>3. call.xt \in {"any", v.xt} /\ (call.fn \in ScalarFns => v.size = Width[call.xt])
  BY DEF Checked
<1> HIDE DEF v
<1>4. CASE call.fn = "exec_eval"
  BY <1>4 DEF Handed, RV!Received, ScalarFns, v
<1>5. CASE call.fn \in RawFns /\ call.xt \in {"INT", "DOUBLE"}
  <2>1. v.xt = call.xt /\ Skip = 0 /\ Width[call.xt] \in {4, 8}
    BY <1>3, <1>5 DEF Skip, Width
  <2>2. DataLen = v.n * Width[call.xt]
    BY <1>1, <1>5, <2>1 DEF v
  <2>3. \A w \in {4, 8}, n \in Nat : (n * w) \div w = n /\ (n * w = w => n = 1)
    OBVIOUS
  <2>4. DataLen \div Width[call.xt] = v.n
    BY <1>1, <2>1, <2>2, <2>3
  <2>5. Handed(v) = v /\ RV!Received(call, v) = v
    BY <1>1, <1>5, <2>1, <2>4 DEF Handed, RV!Received, RawFns, ScalarFns
  <2>6. call.fn \in ScalarFns => v.n = 1
    BY <1>1, <1>3, <1>5, <2>1, <2>3
  <2> QED BY <2>5, <2>6 DEF v
<1>6. CASE call.fn \in RawFns /\ call.xt = "BOOL"
  <2>1. v.xt = "BOOL" /\ call.fn = "get_vec" /\ Skip = CountLen
    BY <1>2, <1>3, <1>6, CallsAssumption DEF RawFns, ScalarFns, Skip, TInv, WireOK
  <2>2. DataLen = 4 * ((v.n + 3) \div 4) /\ DataLen \in Nat
    BY <1>1, <2>1 DEF v, RoundUp4, CountLen
  <2>3. DataLen \div Width[call.xt] = DataLen
    BY <1>6, <2>2 DEF Width
  <2>4. Handed(v) = [v EXCEPT !.n = DataLen]
    BY <2>1, <2>3 DEF Handed
  <2>5. RV!Received(call, v) = [v EXCEPT !.n = DataLen]
    BY <2>1, <2>2 DEF RV!Received
  <2> QED BY <2>1, <2>4, <2>5 DEF v, ScalarFns
<1> QED BY <1>2, <1>4, <1>5, <1>6 DEF Call, Fns, VoidFns, RawFns

LEMMA StepReadData == ASSUME TInv, IInv, ReadData PROVE IInv' /\ GoodStep
<1>1. CASE spoiled
  <2>1. spoiled'
    BY <1>1, Zenon DEF ReadData, Return
  <2> QED BY <1>1, <2>1, SpoiledStep
<1>2. CASE ~spoiled
  <2>1. PICK f \in frames : /\ Owns(f, HdrLen + SubLen + Skip) /\ Checked(f)
                            /\ HdrLen + f.len = HdrLen + SubLen + Skip + DataLen
                            /\ DataLen = f.val.size - Skip /\ DataSeen = {f}
    BY <1>2, AtData DEF ReadData
  <2>2. Return(f.id, TRUE, Handed(f.val)) /\ Consume(DataLen)
    BY <2>1, Zenon DEF ReadData
  <2>3. DataLen \in Nat /\ HdrLen + SubLen + Skip \in Nat
    BY DataLenNat DEF TInv, OutcomeOK, WireOK, Named, ReadData, Skip, HdrLen, SubLen, CountLen
  <2>4. ~torn /\ torn' = torn
    BY <1>2, <2>2 DEF IInv, InStep, Consume
  <2>5. f.ok
    BY <2>1, <2>3 DEF Owns, HdrLen, SubLen, Skip, CountLen
  <2>6. call.fn \notin VoidFns /\ f.val \in Values
    BY <2>1, <2>5 DEF TInv, OutcomeOK, Named, ReadData, Owns, Answers
  <2>7. /\ Handed(f.val) = RV!Received(call, f.val)
        /\ call.fn \in ScalarFns => f.val.n = 1
    BY <2>1, <2>6, HandedReceived
  <2> QED BY <2>1, <2>2, <2>3, <2>4, <2>5, <2>7, ReturnStep
<1> QED BY <1>1, <1>2

\* With whole reads a scalar cannot come in part: all of it is there.
LEMMA StepShortScalar ==
  ASSUME WholeReads, TInv, IInv, ShortScalar PROVE IInv' /\ GoodStep
<1>1. CASE spoiled
  BY <1>1, SpoiledStep DEF ShortScalar, Return
<1>2. CASE ~spoiled
  <2>1. PICK k \in 1 .. (DataLen - 1) : ShortBy(k)
    BY DEF ShortScalar
  <2>2. call \in Calls /\ call.fn \in ScalarFns
    BY DEF ShortScalar, Raw, TInv, WireOK
  <2>3. k = Unread
    BY <2>1, <2>2 DEF ShortBy, WholeReads
  <2>4. Unread = DataLen
    BY <1>2, AtData DEF ShortScalar
  <2>5. DataLen \in Nat
    BY DataLenNat DEF TInv, OutcomeOK, WireOK, Named, ShortScalar
  <2> QED BY <2>1, <2>3, <2>4, <2>5
<1> QED BY <1>1, <1>2

LEMMA StepRead ==
  ASSUME BareErrors, WholeReads, TInv, IInv, Read PROVE IInv' /\ GoodStep
<1>1. CASE BufFails
  <2>1. Fail(-2) \/ Fail(-3)
    BY <1>1, Zenon DEF BufFails
  <2> QED BY <2>1, FailStep
<1>2. CASE RawFails
  <2>1. Fail(-2) \/ Fail(-3)
    BY <1>2, Zenon DEF RawFails
  <2> QED BY <2>1, FailStep
<1>3. CASE RawShortSub
  <2>1. Fail(-1)
    BY <1>3, Zenon DEF RawShortSub
  <2> QED BY <2>1, FailStep
<1>4. CASE ExecVoidReadHdr \/ SetVecReadHdr
  BY <1>4, StepVoidHdr
<1>5. CASE ExecEvalReadHdr
  <2>1. PICK h \in HdrSeen : \/ Fail(-1)
                             \/ pc' = "readSub" /\ left' = h.len /\ UNCHANGED <<ret, spoiled>>
    BY <1>5, Zenon DEF ExecEvalReadHdr
  <2>2. ReadHdr /\ call.fn \notin VoidFns
    BY <1>5 DEF ExecEvalReadHdr, VoidFns
  <2>3. CASE Fail(-1)
    BY <2>3, FailStep
  <2>4. CASE pc' = "readSub" /\ left' = h.len /\ UNCHANGED <<ret, spoiled>>
    BY <2>1, <2>2, <2>4, StepEvalHdr
  <2> QED BY <2>1, <2>3, <2>4
<1>6. CASE RawReadHdr
  <2>1. PICK h \in HdrSeen : left' = h.len
    BY <1>6 DEF RawReadHdr
  <2>2. /\ ReadHdr /\ call.fn \notin VoidFns
        /\ pc' = "readSub" /\ UNCHANGED <<ret, spoiled>>
    BY <1>6 DEF RawReadHdr, VoidFns, RawFns, ScalarFns
  <2> QED BY <2>1, <2>2, StepEvalHdr
<1>7. CASE ReadSub
  BY <1>7, StepReadSub
<1>8. CASE GetVecReadCount
  BY <1>8, StepReadCount
<1>9. CASE ReadData
  BY <1>9, StepReadData
<1>10. CASE ShortScalar
  BY <1>10, StepShortScalar
<1> QED BY <1>1, <1>2, <1>3, <1>4, <1>5, <1>6, <1>7, <1>8, <1>9, <1>10 DEF Read

\* The server's answer to the only request there is.
LEMMA StepRespond ==
  ASSUME TInv, IInv, reqs # <<>>, reqs' = Tail(reqs), NEW ok, NEW len \in Nat, NEW val,
         torn' = torn, Respond(Head(reqs).id, ok, len, val),
         ~spoiled /\ pc = "readHdr" /\ reqs = <<[id |-> id, call |-> call]>> =>
           IF ok THEN IF call.fn \in VoidFns THEN len = 0
                      ELSE val \in Values /\ val = store'[call.name] /\ len = SubLen + val.size
           ELSE len = 0
  PROVE  IInv' /\ GoodStep
<1>f. PICK f : f = [id |-> Head(reqs).id, start |-> wpos, len |-> len, ok |-> ok, val |-> val]
  OBVIOUS
<1>1. /\ frames' = frames \cup {f} /\ wpos' = wpos + HdrLen + len
      /\ UNCHANGED <<pc, call, id, left, ret, spoiled, conn, torn, rpos>>
  BY <1>f DEF Respond, client
<1>2. GoodStep
  BY <1>1 DEF GoodStep, Succeeds
<1>3. CASE spoiled
  BY <1>1, <1>3, SpoiledStep
<1>4. CASE ~spoiled /\ pc = "killed"
  <2>1. InStep'
    BY <1>1, <1>4 DEF IInv, InStep, SendPcs
  <2>2. Facts'
    BY <1>1, <1>4 DEF Facts
  <2> QED BY <1>2, <2>1, <2>2 DEF IInv
<1>5. CASE ~spoiled /\ pc # "killed"
  <2>1. pc = "readHdr" /\ frames = {} /\ rpos = wpos /\ reqs = <<[id |-> id, call |-> call]>>
    <3>1. pc \in {"idle"} \cup SendPcs \cup ReadPcs
      BY <1>5 DEF TInv, OutcomeOK, Pcs
    <3> QED BY <1>5, <3>1, Zenon DEF IInv, InStep, Quiet, Reading, ReadPcs
  <2>2. reqs' = <<>> /\ Head(reqs).id = id
    BY <2>1
  <2>3. frames' = {f} /\ f.id = id /\ f.start = wpos /\ f.len = len /\ f.ok = ok /\ f.val = val
    BY <1>f, <1>1, <2>1, <2>2
  <2>4. rpos' = f.start + 0 /\ wpos' = f.start + HdrLen + f.len
    BY <1>1, <2>1, <2>3 DEF TInv, WireOK
  <2>5. ~(0 > HdrLen) /\ ~(0 >= HdrLen)
    BY DEF HdrLen
  <2>6. Reading(0)'
    BY <1>1, <2>2, <2>3, <2>4, <2>5, Zenon DEF Reading
  <2>7. ~torn' /\ pc' = "readHdr"
    BY <1>1, <1>5, <2>1 DEF IInv, InStep
  <2>8. InStep'
    BY <2>6, <2>7 DEF InStep, SendPcs
  <2>9. Answers(f)'
    BY <1>1, <1>5, <2>1, <2>3 DEF Answers
  <2>10. Facts'
    BY <2>3, <2>7, <2>9 DEF Facts
  <2> QED BY <1>2, <2>8, <2>10 DEF IInv
<1> QED BY <1>3, <1>4, <1>5

LEMMA StepServer == ASSUME BareErrors, TInv, IInv, Server PROVE IInv' /\ GoodStep
<1>1. CASE ServeOk
  <2>1. /\ Head(reqs) \in Request /\ reqs # <<>> /\ reqs' = Tail(reqs)
        /\ Head(reqs).call.name \in Names
    <3>1. Head(reqs) \in Request /\ reqs # <<>> /\ reqs' = Tail(reqs)
      BY <1>1 DEF ServeOk, TInv, WireOK
    <3>2. Head(reqs).call.name \in Names
      BY <3>1, CallsAssumption DEF Request, Call
    <3> QED BY <3>1, <3>2
  <2>2. Served \in Values /\ store' = [store EXCEPT ![Head(reqs).call.name] = Served]
    BY <1>1, <2>1, CallsAssumption DEF ServeOk, Served, TInv, WireOK, Request, Call
  <2>3. store'[Head(reqs).call.name] = Served /\ SubLen + Served.size \in Nat /\ 0 \in Nat
    BY <2>1, <2>2, ValueSizes DEF TInv, WireOK, SubLen
  <2>4. ASSUME reqs = <<[id |-> id, call |-> call]>> PROVE Head(reqs).call = call
    BY <2>4
  <2>5. CASE Head(reqs).call.fn \in VoidFns
    <3>1. Respond(Head(reqs).id, TRUE, 0, NoVal) /\ torn' = torn
      BY <1>1, <2>5 DEF ServeOk
    <3> QED BY <2>1, <2>3, <2>4, <2>5, <3>1, StepRespond
  <2>6. CASE Head(reqs).call.fn \notin VoidFns
    <3>1. Respond(Head(reqs).id, TRUE, SubLen + Served.size, Served) /\ torn' = torn
      BY <1>1, <2>6 DEF ServeOk
    <3> QED BY <2>1, <2>2, <2>3, <2>4, <2>6, <3>1, StepRespond
  <2> QED BY <2>5, <2>6
<1>2. CASE ServeErr
  <2>1. /\ reqs # <<>> /\ reqs' = Tail(reqs) /\ Respond(Head(reqs).id, FALSE, 0, NoVal)
        /\ torn' = torn
    BY <1>2 DEF ServeErr, BareErrors
  <2> QED BY <2>1, StepRespond
<1>3. CASE ServeTorn
  <2>1. torn /\ UNCHANGED <<client, conn, rpos>>
    BY <1>3, Zenon DEF ServeTorn, Respond
  <2>2. spoiled /\ spoiled'
    BY <2>1 DEF IInv, InStep, client
  <2> QED BY <2>2, SpoiledStep
<1>4. CASE ServerClose
  <2>1. /\ UNCHANGED <<pc, call, id, left, ret, spoiled, torn, frames, rpos, wpos, store>>
        /\ reqs' = <<>> /\ conn' # "open"
    BY <1>4 DEF ServerClose, client
  <2>2. GoodStep
    BY <2>1 DEF GoodStep, Succeeds
  <2>3. Quiet => Quiet'
    BY <2>1 DEF Quiet
  <2>4. Skip' = Skip
    BY <2>1 DEF Skip
  <2>5. UNCHANGED <<id, left, frames, rpos, wpos>> /\ reqs' = <<>>
    BY <2>1
  <2>6. /\ Reading(0) => Reading(0)'
        /\ Reading(HdrLen) => Reading(HdrLen)'
        /\ Reading(HdrLen + SubLen) => Reading(HdrLen + SubLen)'
        /\ Reading(HdrLen + SubLen + Skip) => Reading(HdrLen + SubLen + Skip)'
    BY <2>4, <2>5, Zenon DEF Reading
  <2>7. InStep'
    <3>1. pc = "readHdr" /\ reqs = <<[id |-> id, call |-> call]>> /\ frames = {} /\ rpos = wpos
            => Quiet' /\ conn' # "open"
      BY <2>1, Zenon DEF Quiet
    <3>2. Quiet => Quiet' /\ conn' # "open"
      BY <2>1, <2>3
    <3>3. UNCHANGED <<pc, id, call, left, spoiled, torn>>
      BY <2>1
    <3> QED BY <2>6, <3>1, <3>2, <3>3, Zenon DEF IInv, InStep
  <2>8. \A f \in frames : (Answers(f) => Answers(f)') /\ (Checked(f) => Checked(f)')
    BY <2>1 DEF Answers, Checked
  <2>9. Facts'
    BY <2>1, <2>4, <2>8, Zenon DEF IInv, Facts
  <2> QED BY <2>2, <2>7, <2>9 DEF IInv
<1> QED BY <1>1, <1>2, <1>3, <1>4 DEF Server

LEMMA StepStutter == IInv /\ UNCHANGED vars => IInv' /\ GoodStep
BY DEF IInv, InStep, Facts, Quiet, Reading, Skip, Answers, Checked, vars, GoodStep, Succeeds

LEMMA StepNext ==
  ASSUME BareErrors, WholeReads PROVE TInv /\ IInv /\ [Next]_vars => IInv' /\ GoodStep
BY StepApp, StepSend, StepRead, StepServer, StepStutter DEF Next, Done

LEMMA StepInvariant == ASSUME BareErrors, WholeReads PROVE Spec => []IInv
<1>1. TInv /\ IInv /\ [Next]_vars => IInv'
  BY StepNext
<1> QED BY <1>1, TypeInvariant, StepInit, PTL DEF Spec

\* As long as no call has failed on a connection, the client is at a field
\* boundary of the response to the call it is in, and between calls nothing
\* is unread: whatever the calls, the values and the timeouts.
THEOREM StaysInStep == ASSUME BareErrors, WholeReads PROVE Spec => []InStep
BY StepInvariant, PTL DEF IInv

\* On such a connection a call that returns 0 took the response to its own
\* request for its answer.
THEOREM AnswersAreOwn == ASSUME BareErrors, WholeReads PROVE Spec => OwnAnswer
<1>1. TInv /\ IInv /\ [Next]_vars => [Succeeds => ret'.from = id]_vars
  BY StepNext DEF GoodStep
<1> QED BY <1>1, TypeInvariant, StepInvariant, PTL DEF Spec, OwnAnswer

\* ... and a value it returns is the one the workspace holds at that moment
\* under the name asked for, of the type asked for: as it is, but for get_vec
\* of booleans, which hands it over with its padding counted.
THEOREM ReadsBack == ASSUME BareErrors, WholeReads PROVE Spec => ReadBack
<1>1. TInv /\ IInv /\ [Next]_vars =>
        [Succeeds /\ call.fn \notin VoidFns =>
           LET v == store[call.name]
           IN  /\ v \in Values /\ call.xt \in {"any", v.xt}
               /\ call.fn \in ScalarFns => v.n = 1
               /\ ret'.val = RV!Received(call, v)]_vars
  BY StepNext DEF GoodStep
<1> QED BY <1>1, TypeInvariant, StepInvariant, PTL DEF Spec, ReadBack
=============================================================================
