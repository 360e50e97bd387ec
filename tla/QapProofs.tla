----------------------------- MODULE QapProofs -----------------------------
(***************************************************************************)
(* Theorems about the encoding of a request, for names, vectors and limits  *)
(* of any size.                                                             *)
(***************************************************************************)
EXTENDS Qap, FiniteSetTheorems, SequenceTheorems, WellFoundedInduction, TLAPS

-----------------------------------------------------------------------------
(* The padding of mk_dt_string.                                             *)

\* Where the loop stops: the first multiple of 8 above the length.
Target == ((req.name + 8) \div 8) * 8

\* The test of the loop holds at the multiples of 8 and nowhere else.
LEMMA PaddedIsMultiple == \A l \in Nat : Padded(l) <=> l % 8 = 0
BY DEF Padded

LEMMA TargetBounds == ASSUME req.name \in Nat
                      PROVE  /\ Target \in (req.name + 1) .. (req.name + 8)
                             /\ Target % 8 = 0
BY DEF Target

-----------------------------------------------------------------------------
(* The inductive invariant: the loop has not passed its target, and the     *)
(* bytes sent so far are those of the parts whose send has been passed.     *)

Early == {"start", "pad", "sizes", "lens", "copy", "words", "header"}

Nats == /\ req \in Requests /\ req.name \in Nat
        /\ len_name \in Nat /\ cum_len \in Nat /\ sent \in Nat /\ i \in Nat
        /\ pc \in Early \cup {"send1", "send2", "sendData", "done", "failed"}

Kinds == /\ pc \notin {"start", "failed"} => req.qtype # "??"
         /\ pc \in {"sizes", "lens", "copy", "words", "send2", "sendData"} => IsVec
         /\ pc = "lens" => req.qtype = "SC"

PadInv == /\ pc = "pad" => len_name \in (req.name + 1) .. Target
          /\ pc \notin {"start", "pad", "failed"} => len_name = Target

SendInv == /\ pc \in Early => sent = 0
           /\ pc = "send1" => sent = 0 /\ announced = PayloadLen % WordMod
           /\ pc = "send2" => /\ sent = len_param1 /\ len_param1 <= SendMax
                              /\ IsVec /\ announced = PayloadLen % WordMod
           /\ pc = "sendData" => /\ sent = len_param1 + len_hdr_param2 /\ len_param1 <= SendMax
                                 /\ IsVec /\ announced = PayloadLen % WordMod
           /\ pc = "done" => sent = announced

IInv == Nats /\ Kinds /\ PadInv /\ SendInv

LEMMA InvInit == Init => IInv
<1> SUFFICES ASSUME Init PROVE IInv
  OBVIOUS
<1>1. Nats
  BY RequestsAssumption DEF Init, Nats, Early, Request
<1> QED BY <1>1 DEF Init, IInv, Kinds, PadInv, SendInv, Early

\* What a request is made of.
LEMMA RequestParts == ASSUME Nats
                      PROVE  /\ req.name \in Nat /\ req.n \in Nat /\ req.qtype \in Qtypes
                             /\ req.strs \in Seq(Nat)
                             /\ req.qtype = "SC" => Len(req.strs) = req.n
BY RequestsAssumption DEF Nats, Request

\* The sizes set_vec computes are sizes.
LEMMA SizesNat == ASSUME IInv, Sizes PROVE cum_len' \in Nat
<1>1. CASE req.qtype = "SC"
  BY <1>1 DEF Sizes
<1>2. CASE req.qtype # "SC"
  <2>1. req.qtype \in {"F8", "I4", "I1"} /\ req.n \in Nat
    BY <1>2, RequestParts DEF IInv, Kinds, Sizes, IsVec, Qtypes
  <2>2. Width[req.qtype] \in {1, 4, 8}
    BY <2>1 DEF Width
  <2>3. req.n * Width[req.qtype] \in Nat
    BY <2>1, <2>2
  <2> QED BY <1>2, <2>3, LimitsAssumption DEF Sizes
<1> QED BY <1>1, <1>2

LEMMA AddLenNat == ASSUME IInv, AddLen PROVE cum_len' \in Nat /\ i' \in Nat
<1>1. req.strs \in Seq(Nat) /\ Len(req.strs) = req.n /\ i + 1 \in 1 .. req.n
  BY RequestParts DEF IInv, Nats, Kinds, AddLen
<1>2. req.strs[i + 1] \in Nat
  BY <1>1
<1> QED BY <1>2, LimitsAssumption DEF IInv, Nats, AddLen, StrSpace, Fail

\* Until the header is sent the length of the name, once padded, stays, and
\* nothing of the parameters is sent.
LEMMA InvBuild ==
  ASSUME IInv,
         Start \/ Pad \/ FirstParam \/ Sizes \/ AddLen \/ Allocate \/ CopyString \/ PadX
           \/ SecondParam \/ Header
  PROVE  IInv'
<1> USE DEF IInv, Nats, Kinds, PadInv, SendInv, Early, Target, IsVec
<1>1. CASE Start
  <2>1. CASE pc' = "failed"
    BY <1>1, <2>1 DEF Start, Fail
  <2>2. CASE pc' # "failed"
    <3>1. pc' = "pad" /\ len_name' = req.name + 1 /\ req.qtype # "??"
      BY <1>1, <2>2 DEF Start, Fail
    <3>2. UNCHANGED <<req, cum_len, i, announced, sent>>
      BY <1>1 DEF Start
    <3>3. len_name' \in (req.name + 1) .. Target
      BY <3>1, TargetBounds
    <3>4. sent = 0
      BY <1>1 DEF Start
    <3> QED BY <3>1, <3>2, <3>3, <3>4
  <2> QED BY <2>1, <2>2
<1>2. CASE Pad
  <2>1. len_name # Target
    BY <1>2, PaddedIsMultiple, TargetBounds DEF Pad
  <2>2. len_name' \in (req.name + 1) .. Target
    BY <1>2, <2>1, TargetBounds DEF Pad
  <2> QED BY <1>2, <2>2, TargetBounds DEF Pad
<1>3. CASE FirstParam
  <2>1. len_name % 8 = 0 /\ len_name \in (req.name + 1) .. Target
    BY <1>3, PaddedIsMultiple DEF FirstParam
  <2>2. len_name = Target
    BY <2>1
  <2> QED BY <1>3, <2>2 DEF FirstParam, Fail
<1>4. CASE Sizes
  BY <1>4, SizesNat DEF Sizes
<1>5. CASE AddLen
  BY <1>5, AddLenNat DEF AddLen, Fail
<1>6. CASE Allocate
  BY <1>6, LimitsAssumption DEF Allocate
<1>7. CASE CopyString \/ PadX \/ SecondParam
  BY <1>7 DEF CopyString, PadX, SecondParam
<1>8. CASE Header
  BY <1>8 DEF Header, Fail, PayloadLen, len_param1, len_param2, len_hdr_param2
<1> QED BY <1>1, <1>2, <1>3, <1>4, <1>5, <1>6, <1>7, <1>8

LEMMA SmallMod == \A a \in Nat : a < WordMod => a % WordMod = a
BY LimitsAssumption

\* A part whose send is not short is at most SendMax bytes, so that the sums
\* of set_vec did not wrap.
LEMMA InvSend == ASSUME IInv, SendParam1 \/ SendParam2 \/ SendData PROVE IInv'
<1> USE DEF IInv, Nats, Kinds, PadInv, SendInv, Early, Target, IsVec
<1>0. len_param1 \in Nat /\ len_hdr_param2 \in {8, 12} /\ cum_len \in Nat
  BY DEF len_param1, len_hdr_param2
<1>a. UNCHANGED <<len_param1, len_hdr_param2, len_param2, PayloadLen, req, len_name, cum_len, i, announced>>
  BY DEF SendParam1, SendParam2, SendData, SendBytes, len_param1, len_param2, len_hdr_param2, PayloadLen
<1>1. CASE SendParam1
  <2>1. CASE len_param1 <= SendMax /\ IsVec
    BY <1>0, <1>a, <1>1, <2>1 DEF SendParam1, SendBytes
  <2>2. CASE len_param1 <= SendMax /\ ~IsVec
    <3>1. announced = len_param1
      BY <1>0, <1>1, <2>2, SmallMod, LimitsAssumption DEF SendParam1, PayloadLen
    <3> QED BY <1>0, <1>a, <1>1, <2>2, <3>1 DEF SendParam1, SendBytes
  <2>3. CASE ~(len_param1 <= SendMax)
    BY <1>0, <1>a, <1>1, <2>3, LimitsAssumption DEF SendParam1, SendBytes, Fail
  <2> QED BY <2>1, <2>2, <2>3
<1>2. CASE SendParam2
  BY <1>0, <1>a, <1>2, LimitsAssumption DEF SendParam2, SendBytes, Fail
<1>3. CASE SendData
  <2>1. CASE cum_len <= SendMax
    <3>1. len_hdr_param2 + cum_len < WordMod
      BY <1>0, <2>1, LimitsAssumption
    <3>2. len_param2 = len_hdr_param2 + cum_len
      BY <1>0, <3>1, SmallMod DEF len_param2
    <3>3. PayloadLen = len_param1 + len_hdr_param2 + cum_len /\ PayloadLen < WordMod
      BY <1>0, <1>3, <2>1, <3>2, LimitsAssumption DEF SendData, PayloadLen
    <3>4. announced = len_param1 + len_hdr_param2 + cum_len
      BY <1>0, <1>3, <3>3, SmallMod DEF SendData
    <3> QED BY <1>0, <1>a, <1>3, <2>1, <3>4 DEF SendData, SendBytes
  <2>2. CASE ~(cum_len <= SendMax)
    BY <1>0, <1>a, <1>3, <2>2, LimitsAssumption DEF SendData, SendBytes, Fail
  <2> QED BY <2>1, <2>2
<1> QED BY <1>1, <1>2, <1>3

LEMMA InvStep == IInv /\ [Next]_vars => IInv'
<1> SUFFICES ASSUME IInv, [Next]_vars PROVE IInv'
  OBVIOUS
<1>1. CASE Start \/ Pad \/ FirstParam \/ Sizes \/ AddLen \/ Allocate \/ CopyString \/ PadX
             \/ SecondParam \/ Header
  BY <1>1, InvBuild
<1>2. CASE SendParam1 \/ SendParam2 \/ SendData
  BY <1>2, InvSend
<1>3. CASE UNCHANGED vars
  BY <1>3 DEF vars, IInv, Nats, Kinds, PadInv, SendInv, Early, Target, IsVec,
              PayloadLen, len_param1, len_param2, len_hdr_param2
<1> QED BY <1>1, <1>2, <1>3 DEF Next, Finished

LEMMA Invariant == Spec => []IInv
<1> QED BY InvInit, InvStep, PTL DEF Spec

-----------------------------------------------------------------------------
\* Whatever the sizes, wrapped or not, a request that set_vec, exec_str or a
\* get_* sent whole is as long as its header announced (mk_hdr, send).
THEOREM SentAsAnnounced == Spec => []AnnouncedIsSent
<1>1. IInv => AnnouncedIsSent
  BY DEF IInv, SendInv, AnnouncedIsSent
<1> QED BY <1>1, Invariant, PTL

\* For every length of the name mk_dt_string's loop stops behind the terminator,
\* less than 8 bytes behind it, where the parameter's length is divisible by 4.
THEOREM NameIsPadded == Spec => []NamePadded
<1>1. IInv => NamePadded
  <2> SUFFICES ASSUME IInv, pc \notin {"start", "failed"}
               PROVE  /\ req.name < len_name /\ len_name <= req.name + 8
                      /\ pc # "pad" \/ Padded(len_name) => len_param1 % 4 = 0
    BY DEF NamePadded
  <2>1. /\ req.name \in Nat /\ len_name \in (req.name + 1) .. Target
        /\ pc # "pad" => len_name = Target
    BY TargetBounds DEF IInv, Nats, PadInv
  <2>2. pc # "pad" \/ Padded(len_name) => len_name % 8 = 0
    BY <2>1, TargetBounds, PaddedIsMultiple
  <2>3. len_name % 8 = 0 => len_param1 % 4 = 0
    BY <2>1 DEF len_param1
  <2> QED BY <2>1, <2>2, <2>3, TargetBounds
<1> QED BY <1>1, Invariant, PTL

-----------------------------------------------------------------------------
(* A vector of numbers or booleans: what its words say, what is sent of it.  *)

Numbers == req.qtype \in {"F8", "I4", "I1"}
Bytes   == req.n * Width[req.qtype]
Sized   == {"words", "header", "send1", "send2", "sendData", "done"}

\* The strings' loops are not for it; its size is settled before the words are
\* written, and the second word of the second parameter carries it, or the
\* third has the count.
VecInv ==
  Numbers =>
    /\ pc \notin {"lens", "copy"}
    /\ pc \in Sized => cum_len = Bytes % WordMod
    /\ pc \in {"start", "pad"} => words = <<>>
    /\ pc \in {"sizes", "words"} => words = <<Word(len_name, "STRING")>>
    /\ pc \in Sized \ {"words"} =>
         IF req.qtype = "I1" THEN words[4] = CountWord(req.n) ELSE words[3].len = cum_len % LenMod
    /\ pc = "done" => sent = len_param1 + len_hdr_param2 + cum_len

LEMMA VecInit == Init => VecInv
BY DEF Init, VecInv, Sized

LEMMA VecStep == IInv /\ VecInv /\ [Next]_vars => VecInv'
<1> SUFFICES ASSUME IInv, VecInv, [Next]_vars, Numbers' PROVE VecInv'
  BY DEF VecInv
<1> USE DEF Numbers, Bytes, Sized
<1>0. req' = req /\ Numbers
  BY DEF Next, vars, Start, Pad, FirstParam, Sizes, AddLen, Allocate, CopyString, PadX,
         SecondParam, Header, SendParam1, SendParam2, SendData, SendBytes, Finished
<1>1. CASE Start \/ Pad
  BY <1>0, <1>1 DEF VecInv, Start, Pad, Fail
<1>2. CASE FirstParam
  BY <1>0, <1>2 DEF VecInv, FirstParam, Fail, Word, IsVec
<1>3. CASE Sizes
  BY <1>0, <1>3 DEF VecInv, Sizes
<1>4. CASE AddLen \/ Allocate \/ CopyString \/ PadX
  BY <1>0, <1>4 DEF VecInv, AddLen, Allocate, CopyString, PadX
<1>5. CASE SecondParam
  <2> DEFINE A == Word(len_name, "STRING")
             B == Word(len_param2, "SEXP")
             C == Word(IF req.qtype = "I1" THEN len_param2 ELSE cum_len, XtOf[req.qtype])
             D == CountWord(req.n)
  <2>1. /\ pc = "words" /\ pc' = "header" /\ cum_len' = cum_len
        /\ words' = <<A>> \o (<<B, C>> \o (IF req.qtype = "I1" THEN <<D>> ELSE <<>>))
             \/ words' = (<<A>> \o <<B, C>>) \o (IF req.qtype = "I1" THEN <<D>> ELSE <<>>)
    BY <1>0, <1>5 DEF SecondParam, VecInv
  <2>2. cum_len' = Bytes % WordMod
    BY <1>0, <2>1 DEF VecInv
  <2>3. ASSUME NEW a, NEW b, NEW c, NEW d
        PROVE  /\ (<<a>> \o (<<b, c>> \o <<>>))[3] = c /\ ((<<a>> \o <<b, c>>) \o <<>>)[3] = c
               /\ (<<a>> \o (<<b, c>> \o <<d>>))[4] = d /\ ((<<a>> \o <<b, c>>) \o <<d>>)[4] = d
    OBVIOUS
  <2>4. IF req.qtype = "I1" THEN words'[4] = D ELSE words'[3] = C
    <3> HIDE DEF A, B, C, D
    <3>1. CASE req.qtype = "I1"
      <4>1. words' = <<A>> \o (<<B, C>> \o <<D>>) \/ words' = (<<A>> \o <<B, C>>) \o <<D>>
        BY <2>1, <3>1
      <4>2. words'[4] = D
        BY <2>3, <4>1
      <4> QED BY <3>1, <4>2
    <3>2. CASE req.qtype # "I1"
      <4>1. words' = <<A>> \o (<<B, C>> \o <<>>) \/ words' = (<<A>> \o <<B, C>>) \o <<>>
        BY <2>1, <3>2
      <4>2. words'[3] = C
        BY <2>3, <4>1
      <4> QED BY <3>2, <4>2
    <3> QED BY <3>1, <3>2
  <2>5. IF req.qtype = "I1" THEN words'[4] = CountWord(req.n) ELSE words'[3].len = cum_len' % LenMod
    BY <2>1, <2>4 DEF Word
  <2> QED BY <1>0, <2>1, <2>2, <2>5 DEF VecInv
<1>6. CASE Header
  BY <1>0, <1>6 DEF VecInv, Header, Fail
<1>7. CASE SendParam1 \/ SendParam2
  BY <1>0, <1>7 DEF VecInv, SendParam1, SendParam2, SendBytes, Fail, IsVec
<1>8. CASE SendData
  <2>1. sent = len_param1 + len_hdr_param2
    BY <1>8 DEF IInv, SendInv, SendData
  <2>2. UNCHANGED <<len_param1, len_hdr_param2, cum_len, words>>
    BY <1>8 DEF SendData, SendBytes, len_param1, len_hdr_param2
  <2> QED BY <1>0, <1>8, <2>1, <2>2 DEF VecInv, SendData, SendBytes, Fail
<1>9. CASE UNCHANGED vars
  BY <1>9 DEF VecInv, vars, len_param1, len_hdr_param2
<1> QED BY <1>1, <1>2, <1>3, <1>4, <1>5, <1>6, <1>7, <1>8, <1>9 DEF Next, Finished

\* A vector of numbers that set_vec sent whole, and that the 24 bits of its
\* word can tell the length of, arrives with its length and all of its bytes; a
\* vector of booleans with its count.
THEOREM VectorIsSaid == Spec => []VectorSaid
<1>1. IInv /\ VecInv => VectorSaid
  <2> SUFFICES ASSUME IInv, VecInv, pc = "done", Numbers, Bytes < LenMod
               PROVE  /\ IF req.qtype = "I1" THEN words[4].len = req.n ELSE words[3].len = Bytes
                      /\ sent = len_param1 + len_hdr_param2 + Bytes
    BY DEF VectorSaid, Numbers, Bytes
  <2>1. req.n \in Nat /\ Width[req.qtype] \in {1, 4, 8} /\ (req.qtype = "I1" => Bytes = req.n)
    BY RequestParts DEF IInv, Numbers, Width, Bytes
  <2>2. Bytes \in Nat
    BY <2>1 DEF Bytes
  <2>3. Bytes % WordMod = Bytes /\ Bytes % LenMod = Bytes
    BY <2>2, LimitsAssumption
  <2>4. CASE req.qtype = "I1"
    <3>1. words[4] = CountWord(req.n) /\ req.n % WordMod = req.n
      BY <2>1, <2>3, <2>4 DEF VecInv, Sized
    <3>2. words[4].len = req.n
      BY <3>1 DEF CountWord
    <3> QED BY <2>3, <2>4, <3>2 DEF VecInv, Sized
  <2>5. CASE req.qtype # "I1"
    BY <2>3, <2>5 DEF VecInv, Sized
  <2> QED BY <2>4, <2>5
<1> QED BY <1>1, VecInit, VecStep, Invariant, PTL DEF Spec

-----------------------------------------------------------------------------
(* Induction over the natural numbers, with a set for the formula: the sets *)
(* 0..m are finite, and strict inclusion of finite sets is well-founded.    *)

LEMMA LeastNat == ASSUME NEW T \in SUBSET Nat, T # {} PROVE \E m \in T : \A k \in T : m <= k
<1> DEFINE R == StrictSubsetOrdering(Nat)
           F == {0 .. m : m \in T}
<1>1. F \subseteq FiniteSubsetsOf(Nat) /\ F # {}
  <2>1. \A m \in T : 0 .. m \subseteq Nat /\ IsFiniteSet(0 .. m)
    BY FS_Interval
  <2> QED BY <2>1 DEF FiniteSubsetsOf
<1>2. IsWellFoundedOn(R, FiniteSubsetsOf(Nat))
  BY FS_StrictSubsetOrderingWellFounded
<1>3. PICK x \in F : \A y \in F : <<y, x>> \notin R
  <2> HIDE DEF R, F
  <2> QED BY <1>1, <1>2, WFMin
<1>4. PICK m \in T : x = 0 .. m
  BY <1>3
<1>5. ASSUME NEW k \in T, k < m PROVE FALSE
  <2>1. 0 .. k \subseteq 0 .. m /\ 0 .. k # 0 .. m
    <3>1. m \in 0 .. m /\ m \notin 0 .. k
      BY <1>5
    <3> QED BY <1>5, <3>1
  <2>2. <<0 .. k, 0 .. m>> \in R
    BY <2>1 DEF StrictSubsetOrdering
  <2> QED BY <1>3, <1>4, <2>2
<1> QED BY <1>5

LEMMA InductionSet == ASSUME NEW S, 0 \in S, \A m \in Nat : m \in S => m + 1 \in S
                      PROVE  Nat \subseteq S
<1> SUFFICES ASSUME Nat \ S # {} PROVE FALSE
  OBVIOUS
<1>1. PICK m \in Nat \ S : \A k \in Nat \ S : m <= k
  BY LeastNat
<1>2. m # 0 /\ m - 1 \in Nat /\ m - 1 \in S
  BY <1>1
<1> QED BY <1>1, <1>2

-----------------------------------------------------------------------------
(* The ends of the strings.                                                 *)

\* There are such numbers.
LEMMA EndsExist ==
  ASSUME NEW strs \in Seq(Nat)
  PROVE  \E end : end = [k \in 0 .. Len(strs) |-> IF k = 0 THEN 0 ELSE end[k - 1] + strs[k] + 1]
<1> DEFINE Upto(m, e) == e[0] = 0 /\ \A k \in 1 .. m : e[k] = e[k - 1] + strs[k] + 1
           Exists(m)  == \E e \in [0 .. m -> Nat] : Upto(m, e)
           S == {m \in Nat : m <= Len(strs) => Exists(m)}
<1>0. Len(strs) \in Nat
  OBVIOUS
<1>1. 0 \in S
  <2>1. Upto(0, [k \in 0 .. 0 |-> 0]) /\ [k \in 0 .. 0 |-> 0] \in [0 .. 0 -> Nat]
    OBVIOUS
  <2> HIDE DEF Upto
  <2> QED BY <2>1
<1>2. ASSUME NEW m \in Nat, m \in S, m + 1 <= Len(strs)
      PROVE  \E e \in [0 .. m + 1 -> Nat] : Upto(m + 1, e)
  <2>1. PICK e \in [0 .. m -> Nat] : Upto(m, e)
    BY <1>0, <1>2
  <2>2. e[m] \in Nat /\ strs[m + 1] \in Nat
    BY <1>0, <1>2
  <2> DEFINE f == [k \in 0 .. m + 1 |-> IF k <= m THEN e[k] ELSE e[m] + strs[m + 1] + 1]
  <2>3. f \in [0 .. m + 1 -> Nat]
    BY <2>2
  <2>4. f[0] = 0
    BY <2>1
  <2>5. ASSUME NEW k \in 1 .. m + 1 PROVE f[k] = f[k - 1] + strs[k] + 1
    <3>1. CASE k <= m
      <4>1. f[k] = e[k] /\ f[k - 1] = e[k - 1]
        BY <3>1
      <4> QED BY <2>1, <3>1, <4>1
    <3>2. CASE k = m + 1
      <4>1. f[k] = e[m] + strs[m + 1] + 1 /\ f[k - 1] = e[m]
        BY <3>2
      <4> QED BY <3>2, <4>1
    <3> QED BY <3>1, <3>2
  <2> HIDE DEF f
  <2> QED BY <2>3, <2>4, <2>5
<1>3. Len(strs) \in S
  <2>1. ASSUME NEW m \in Nat, m \in S PROVE m + 1 \in S
    <3>1. CASE m + 1 <= Len(strs)
      <4>1. Exists(m + 1)
        BY <1>2, <2>1, <3>1
      <4> HIDE DEF Exists
      <4> QED BY <2>1, <4>1
    <3>2. CASE ~(m + 1 <= Len(strs))
      BY <2>1, <3>2
    <3> QED BY <3>1, <3>2
  <2> HIDE DEF S
  <2> QED BY <1>0, <1>1, <2>1, InductionSet
<1>4. PICK e \in [0 .. Len(strs) -> Nat] : Upto(Len(strs), e)
  BY <1>0, <1>3
<1>5. e = [k \in 0 .. Len(strs) |-> IF k = 0 THEN 0 ELSE e[k - 1] + strs[k] + 1]
  <2>1. \A k \in 0 .. Len(strs) : e[k] = IF k = 0 THEN 0 ELSE e[k - 1] + strs[k] + 1
    BY <1>0, <1>4
  <2> QED BY <2>1
<1> QED BY <1>5

LEMMA EndsEquation ==
  ASSUME NEW strs \in Seq(Nat)
  PROVE  EndsOf(strs) = [k \in 0 .. Len(strs) |->
                           IF k = 0 THEN 0 ELSE EndsOf(strs)[k - 1] + strs[k] + 1]
BY EndsExist DEF EndsOf

\* They are numbers, and each is behind the one before.
LEMMA EndsGrow ==
  ASSUME NEW strs \in Seq(Nat)
  PROVE  /\ EndsOf(strs) \in [0 .. Len(strs) -> Nat] /\ EndsOf(strs)[0] = 0
         /\ \A k \in 1 .. Len(strs) : EndsOf(strs)[k] = EndsOf(strs)[k - 1] + strs[k] + 1
         /\ \A j, k \in 0 .. Len(strs) : j < k => EndsOf(strs)[j] < EndsOf(strs)[k]
<1> DEFINE end == EndsOf(strs)
<1>0. /\ end = [k \in 0 .. Len(strs) |-> IF k = 0 THEN 0 ELSE end[k - 1] + strs[k] + 1]
      /\ Len(strs) \in Nat
  BY EndsEquation
<1> HIDE DEF end
<1>1. end[0] = 0
  BY <1>0
<1>2. ASSUME NEW k \in 1 .. Len(strs) PROVE end[k] = end[k - 1] + strs[k] + 1 /\ strs[k] \in Nat
  <2>1. k \in 0 .. Len(strs) /\ k # 0
    BY <1>0
  <2>2. strs[k] \in Nat
    BY <1>0
  <2> QED BY <1>0, <2>1, <2>2
<1>3. ASSUME NEW m \in Nat, m + 1 <= Len(strs)
      PROVE  end[m + 1] = end[m] + strs[m + 1] + 1 /\ strs[m + 1] \in Nat
  <2>1. m + 1 \in 1 .. Len(strs) /\ (m + 1) - 1 = m
    BY <1>0, <1>3
  <2> QED BY <1>2, <2>1
<1>4. \A m \in 0 .. Len(strs) : end[m] \in Nat
  <2> DEFINE S == {m \in Nat : m <= Len(strs) => end[m] \in Nat}
  <2>1. 0 \in S
    BY <1>1
  <2>2. ASSUME NEW m \in Nat, m \in S PROVE m + 1 \in S
    <3>1. CASE m + 1 <= Len(strs)
      <4>1. end[m] \in Nat
        BY <1>0, <2>2, <3>1
      <4>2. end[m + 1] = end[m] + strs[m + 1] + 1 /\ strs[m + 1] \in Nat
        BY <1>3, <3>1
      <4>3. end[m + 1] \in Nat
        BY <4>1, <4>2
      <4> QED BY <4>3
    <3>2. CASE ~(m + 1 <= Len(strs))
      BY <3>2
    <3> QED BY <3>1, <3>2
  <2>3. Nat \subseteq S
    <3> HIDE DEF S
    <3> QED BY <2>1, <2>2, InductionSet
  <2> QED BY <1>0, <2>3
<1>5. ASSUME NEW j \in 0 .. Len(strs), NEW k \in 0 .. Len(strs), j < k PROVE end[j] < end[k]
  <2> DEFINE S == {m \in Nat : j + 1 + m <= Len(strs) => end[j] < end[j + 1 + m]}
  <2>1. ASSUME NEW m \in Nat, j + 1 + m <= Len(strs)
        PROVE  /\ end[j + 1 + m] = end[j + m] + strs[j + 1 + m] + 1
               /\ strs[j + 1 + m] \in Nat /\ end[j + m] \in Nat /\ end[j + 1 + m] \in Nat
    <3>1. j + m \in Nat /\ j + m \in 0 .. Len(strs) /\ j + 1 + m \in 0 .. Len(strs)
          /\ (j + m) + 1 = j + 1 + m
      BY <1>0, <2>1
    <3> QED BY <1>3, <1>4, <2>1, <3>1
  <2>2. 0 \in S
    <3>1. CASE j + 1 + 0 <= Len(strs)
      <4>1. j + 0 = j /\ end[j] \in Nat
        BY <1>4
      <4>2. end[j + 1 + 0] = end[j + 0] + strs[j + 1 + 0] + 1 /\ strs[j + 1 + 0] \in Nat
        BY <2>1, <3>1
      <4>3. end[j] < end[j + 1 + 0]
        BY <4>1, <4>2
      <4> QED BY <4>3
    <3> QED BY <3>1
  <2>3. ASSUME NEW m \in Nat, m \in S PROVE m + 1 \in S
    <3>1. CASE j + 1 + (m + 1) <= Len(strs)
      <4>1. j + 1 + m <= Len(strs) /\ j + (m + 1) = j + 1 + m /\ m + 1 \in Nat
        BY <1>0, <3>1
      <4>2. end[j] < end[j + 1 + m] /\ end[j] \in Nat
        BY <1>4, <2>3, <4>1
      <4>3. /\ end[j + 1 + (m + 1)] = end[j + 1 + m] + strs[j + 1 + (m + 1)] + 1
            /\ strs[j + 1 + (m + 1)] \in Nat /\ end[j + 1 + m] \in Nat
        BY <2>1, <3>1, <4>1
      <4>4. end[j] < end[j + 1 + (m + 1)]
        BY <4>2, <4>3
      <4> QED BY <4>4
    <3> QED BY <3>1
  <2>4. Nat \subseteq S
    <3> HIDE DEF S
    <3> QED BY <2>2, <2>3, InductionSet
  <2>5. k - j - 1 \in Nat /\ j + 1 + (k - j - 1) = k /\ k <= Len(strs)
    BY <1>0, <1>5
  <2>6. k - j - 1 \in S
    BY <2>4, <2>5
  <2> QED BY <2>5, <2>6
<1>6. end \in [0 .. Len(strs) -> Nat]
  BY <1>0, <1>4
<1> QED BY <1>1, <1>2, <1>5, <1>6 DEF end

-----------------------------------------------------------------------------
(* Types: beside the numbers, the packed strings and the words.             *)

Kept  == {"c", "0", "X"}
Types == {"STRING", "SEXP"} \cup {XtOf[q] : q \in DOMAIN XtOf}
Words == [len : 0 .. (LenMod - 1), type : Types] \cup [len : 0 .. (WordMod - 1), type : {"COUNT"}]

Others == /\ status \in {0, -1} /\ idx \in Nat /\ announced \in Nat
          /\ alt_data \in Seq(Kept) /\ words \in Seq(Words)
          /\ pc = "copy" => req.qtype = "SC"

LEMMA FromTo == ASSUME NEW n \in Nat, NEW s \in [1 .. n -> Kept] PROVE s \in Seq(Kept)
BY SeqDef

LEMMA WordOK == ASSUME NEW len \in Nat, NEW type \in Types PROVE Word(len, type) \in Words
BY LimitsAssumption DEF Word, Words

LEMMA CountOK == ASSUME NEW n \in Nat PROVE CountWord(n) \in Words
BY LimitsAssumption DEF CountWord, Words

LEMMA PayloadNat == ASSUME IInv PROVE PayloadLen % WordMod \in Nat /\ len_param2 \in Nat
<1>1. len_name \in Nat /\ cum_len \in Nat
  BY DEF IInv, Nats
<1> QED BY <1>1, LimitsAssumption DEF PayloadLen, len_param1, len_param2, len_hdr_param2

LEMMA OthersStep == IInv /\ Others /\ [Next]_vars => Others'
<1> SUFFICES ASSUME IInv, Others, [Next]_vars PROVE Others'
  OBVIOUS
<1>1. CASE Start \/ Pad \/ Sizes \/ AddLen \/ SendParam1 \/ SendParam2 \/ SendData
           \/ UNCHANGED vars
  BY <1>1 DEF Others, Start, Pad, Sizes, AddLen, SendParam1, SendParam2, SendData, SendBytes,
              Fail, vars
<1>2. CASE FirstParam
  <2>1. Word(len_name, "STRING") \in Words
    BY WordOK DEF IInv, Nats, Types
  <2>2. words' \in Seq(Words)
    BY <1>2, <2>1 DEF FirstParam
  <2> QED BY <1>2, <2>2 DEF Others, FirstParam, Fail
<1>3. CASE Allocate
  <2>1. cum_len' \in Nat
    BY <1>3, LimitsAssumption DEF Allocate, IInv, Nats
  <2>2. alt_data' \in [1 .. cum_len' -> Kept]
    BY <1>3 DEF Allocate, Kept
  <2>3. alt_data' \in Seq(Kept)
    BY <2>1, <2>2, FromTo
  <2> QED BY <1>3, <2>3 DEF Others, Allocate, IInv, Kinds
<1>4. CASE CopyString
  <2>1. i + 1 \in 1 .. req.n /\ req.strs \in Seq(Nat) /\ Len(req.strs) = req.n
    BY <1>4, RequestParts DEF CopyString, IInv, Nats, Others
  <2>2. req.strs[i + 1] \in Nat
    BY <2>1
  <2>3. PICK n \in Nat : alt_data \in [1 .. n -> Kept]
    BY SeqDef DEF Others
  <2>4. alt_data' \in [1 .. n -> Kept]
    BY <1>4, <2>3 DEF CopyString, Kept
  <2>5. alt_data' \in Seq(Kept)
    BY <2>4, FromTo
  <2> QED BY <1>4, <2>2, <2>5 DEF Others, CopyString
<1>5. CASE PadX
  <2>1. PICK n \in Nat : alt_data \in [1 .. n -> Kept]
    BY SeqDef DEF Others
  <2>2. alt_data' \in [1 .. n -> Kept]
    BY <1>5, <2>1 DEF PadX, Kept
  <2>3. alt_data' \in Seq(Kept)
    BY <2>2, FromTo
  <2> QED BY <1>5, <2>3 DEF Others, PadX
<1>6. CASE SecondParam
  <2>1. XtOf[req.qtype] \in Types /\ "SEXP" \in Types
    <3>1. req.qtype \in DOMAIN XtOf
      BY <1>6, RequestParts DEF SecondParam, IInv, Nats, Kinds, IsVec, Qtypes, XtOf
    <3> QED BY <3>1 DEF Types
  <2>2. cum_len \in Nat /\ len_param2 \in Nat
    BY PayloadNat DEF IInv, Nats
  <2>3. /\ Word(len_param2, "SEXP") \in Words
        /\ Word(IF req.qtype = "I1" THEN len_param2 ELSE cum_len, XtOf[req.qtype]) \in Words
    BY <2>1, <2>2, WordOK
  <2>4. (IF req.qtype = "I1" THEN <<CountWord(req.n)>> ELSE <<>>) \in Seq(Words)
    BY CountOK, RequestParts DEF IInv
  <2>5. words' \in Seq(Words)
    BY <1>6, <2>3, <2>4 DEF SecondParam, Others
  <2> QED BY <1>6, <2>5 DEF Others, SecondParam
<1>7. CASE Header
  BY <1>7, PayloadNat DEF Others, Header, Fail
<1> QED BY <1>1, <1>2, <1>3, <1>4, <1>5, <1>6, <1>7 DEF Next, Finished

\* The lengths mk_dt_string, mk_hdr and set_vec compute are never negative,
\* the words have 24 bits of length, and what is copied is a string's byte, a
\* terminator or padding.
THEOREM QapTypes == Spec => []TypeOK
<1>1. Init => Others
  BY DEF Init, Others
<1>2. IInv /\ Others => TypeOK
  BY DEF IInv, Nats, Early, Others, TypeOK, Kept, Words, Types
<1> QED BY <1>1, <1>2, OthersStep, Invariant, PTL DEF Spec
-----------------------------------------------------------------------------
(* The packed strings.                                                      *)

End      == EndsOf(req.strs)
Packing  == req.qtype = "SC" /\ End[req.n] <= WordMod - 8
EndsSoFar(m) == {End[k] : k \in 1 .. m}

\* The first loop has added up to the end of string i, which is where the
\* second loop is when it comes to i; behind it all is zero, and before it
\* nothing but the terminators.
StrInv ==
  Packing =>
    /\ pc \in {"start", "pad", "sizes"} => i = 0
    /\ pc = "lens" => i \in 0 .. req.n /\ cum_len = End[i]
    /\ pc = "copy" =>
         /\ i \in 0 .. req.n /\ idx = End[i] /\ End[req.n] <= cum_len
         /\ alt_data \in [1 .. cum_len -> Kept]
         /\ \A j \in 1 .. cum_len : alt_data[j] = "0" <=> (j > idx \/ j \in EndsSoFar(i))
    /\ pc \in Sized =>
         alt_data \in [1 .. cum_len -> Kept] /\ Terminators = EndsSoFar(req.n)

LEMMA EndFacts ==
  ASSUME Nats, req.qtype = "SC"
  PROVE  /\ req.n \in Nat /\ req.strs \in Seq(Nat) /\ Len(req.strs) = req.n
         /\ \A k \in 0 .. req.n : End[k] \in Nat
         /\ End[0] = 0 /\ \A k \in 1 .. req.n : End[k] = End[k - 1] + req.strs[k] + 1
         /\ \A j, k \in 0 .. req.n : j < k => End[j] < End[k]
BY RequestParts, EndsGrow DEF End

\* The next string.
LEMMA NextEnd ==
  ASSUME Nats, req.qtype = "SC", i \in 0 .. req.n, i < req.n
  PROVE  /\ i + 1 \in 0 .. req.n /\ req.strs[i + 1] \in Nat /\ End[i] \in Nat
         /\ End[i + 1] = End[i] + req.strs[i + 1] + 1 /\ End[i + 1] <= End[req.n]
         /\ End[req.n] \in Nat /\ \A k \in 1 .. i : End[k] \in Nat /\ End[k] <= End[i]
         /\ EndsSoFar(i + 1) = EndsSoFar(i) \cup {End[i + 1]}
<1>1. i + 1 \in 1 .. req.n /\ i + 1 \in 0 .. req.n /\ (i + 1) - 1 = i /\ req.n \in 0 .. req.n
  BY EndFacts
<1>2. req.strs[i + 1] \in Nat
  BY <1>1, EndFacts
<1>3. End[i + 1] = End[i] + req.strs[i + 1] + 1
  BY <1>1, EndFacts
<1>4. End[i + 1] <= End[req.n]
  BY <1>1, EndFacts
<1>5. \A k \in 1 .. i : End[k] \in Nat /\ End[k] <= End[i]
  <2>1. \A k \in 1 .. i : k \in 0 .. req.n /\ (k < i \/ k = i)
    BY EndFacts
  <2> QED BY <2>1, EndFacts
<1>6. EndsSoFar(i + 1) = EndsSoFar(i) \cup {End[i + 1]}
  <2>1. 1 .. (i + 1) = (1 .. i) \cup {i + 1}
    BY EndFacts
  <2> QED BY <2>1, Zenon DEF EndsSoFar
<1> QED BY <1>1, <1>2, <1>3, <1>4, <1>5, <1>6, EndFacts

\* A string is copied behind the ones before.
LEMMA CopyKeeps ==
  ASSUME IInv, Packing, StrInv, CopyString
  PROVE  /\ i' \in 0 .. req.n /\ idx' = End[i'] /\ alt_data' \in [1 .. cum_len -> Kept]
         /\ \A j \in 1 .. cum_len : alt_data'[j] = "0" <=> (j > idx' \/ j \in EndsSoFar(i'))
<1>1. /\ i \in 0 .. req.n /\ i < req.n /\ idx = End[i] /\ End[req.n] <= cum_len
      /\ i' = i + 1 /\ idx' = idx + req.strs[i + 1] + 1
      /\ alt_data' = [j \in DOMAIN alt_data |->
                        IF j \in (idx + 1) .. (idx + req.strs[i + 1]) THEN "c" ELSE alt_data[j]]
      /\ alt_data \in [1 .. cum_len -> Kept]
      /\ \A j \in 1 .. cum_len : alt_data[j] = "0" <=> (j > idx \/ j \in EndsSoFar(i))
  BY DEF StrInv, CopyString
<1>2. Nats /\ req.qtype = "SC" /\ cum_len \in Nat
  BY DEF IInv, Packing, Nats
<1>3. /\ i + 1 \in 0 .. req.n /\ req.strs[i + 1] \in Nat /\ idx \in Nat
      /\ idx' = End[i + 1] /\ End[i + 1] = idx + req.strs[i + 1] + 1
      /\ EndsSoFar(i + 1) = EndsSoFar(i) \cup {idx'}
  BY <1>1, <1>2, NextEnd
<1>4. \A j \in EndsSoFar(i) : j \in Nat /\ j <= idx
  BY <1>1, <1>2, NextEnd DEF EndsSoFar
<1>5. ASSUME NEW j \in 1 .. cum_len
      PROVE  alt_data'[j] = "0" <=> (j > idx' \/ j \in EndsSoFar(i'))
  <2>1. alt_data'[j] = IF j \in (idx + 1) .. (idx + req.strs[i + 1]) THEN "c" ELSE alt_data[j]
    BY <1>1
  <2>2. CASE j \in (idx + 1) .. (idx + req.strs[i + 1])
    <3>1. ~(j > idx') /\ j # idx' /\ j \notin EndsSoFar(i)
      BY <1>2, <1>3, <1>4, <2>2
    <3> QED BY <1>1, <1>3, <2>1, <2>2, <3>1
  <2>3. CASE j <= idx
    <3>1. ~(j > idx') /\ j # idx' /\ ~(j > idx) /\ j \notin (idx + 1) .. (idx + req.strs[i + 1])
      BY <1>2, <1>3, <2>3
    <3> QED BY <1>1, <1>3, <2>1, <3>1
  <2>4. CASE j > idx + req.strs[i + 1]
    <3>1. (j > idx' \/ j = idx') /\ j > idx /\ j \notin (idx + 1) .. (idx + req.strs[i + 1])
      BY <1>2, <1>3, <2>4
    <3> QED BY <1>1, <1>3, <2>1, <3>1
  <2> QED BY <1>2, <1>3, <2>2, <2>3, <2>4
<1>6. alt_data' \in [1 .. cum_len -> Kept]
  BY <1>1 DEF Kept
<1> QED BY <1>1, <1>3, <1>5, <1>6

\* Rounded up to a multiple of 8 the size is still below 2^32.
LEMMA Rounded ==
  ASSUME NEW l \in Nat, l <= WordMod - 8
  PROVE  LET up == IF (l \div 8) * 8 # l THEN ((l \div 8 + 1) * 8) % WordMod ELSE l
         IN  up \in Nat /\ l <= up
<1> DEFINE m == (l \div 8 + 1) * 8
<1>1. m \in Nat /\ l <= m /\ m <= l + 8
  OBVIOUS
<1>2. CASE (l \div 8) * 8 # l
  <2>1. m < l + 8
    BY <1>2
  <2>2. m % WordMod = m
    BY <1>1, <2>1, SmallMod, LimitsAssumption
  <2> QED BY <1>1, <1>2, <2>2
<1>3. CASE (l \div 8) * 8 = l
  BY <1>3
<1> QED BY <1>2, <1>3

LEMMA StrInit == Init => StrInv
BY DEF Init, StrInv, Sized

LEMMA StrStep == IInv /\ StrInv /\ [Next]_vars => StrInv'
<1> SUFFICES ASSUME IInv, StrInv, [Next]_vars, Packing' PROVE StrInv'
  BY DEF StrInv
<1>0. req' = req /\ Packing /\ req.qtype = "SC" /\ End' = End /\ EndsSoFar(req.n)' = EndsSoFar(req.n)
  BY DEF Next, vars, Start, Pad, FirstParam, Sizes, AddLen, Allocate, CopyString, PadX, SecondParam,
         Header, SendParam1, SendParam2, SendData, SendBytes, Finished, Packing, End, EndsSoFar
<1>a. Nats /\ cum_len \in Nat /\ End[req.n] \in Nat /\ req.n \in Nat /\ End[0] = 0
  BY <1>0, EndFacts DEF IInv, Nats
<1>1. CASE Start \/ Pad \/ FirstParam
  BY <1>0, <1>1 DEF StrInv, Start, Pad, FirstParam, Fail, IsVec, Sized
<1>2. CASE Sizes
  BY <1>0, <1>a, <1>2 DEF StrInv, Sizes, Sized
<1>3. CASE AddLen
  <2>1. CASE pc' = "failed"
    BY <2>1 DEF StrInv, Sized
  <2>2. CASE pc' # "failed"
    <3>1. /\ i \in 0 .. req.n /\ i < req.n /\ cum_len = End[i] /\ i' = i + 1 /\ pc' = "lens"
          /\ cum_len' = (cum_len + (req.strs[i + 1] + 1)) % WordMod
      BY <1>0, <1>3, <2>2 DEF StrInv, AddLen, Fail, StrSpace
    <3>2. /\ i + 1 \in 0 .. req.n /\ cum_len + (req.strs[i + 1] + 1) = End[i + 1]
          /\ End[i + 1] \in Nat /\ End[i + 1] <= End[req.n]
      BY <1>0, <1>a, <3>1, NextEnd
    <3>3. End[i + 1] < WordMod
      BY <1>0, <1>a, <3>2, LimitsAssumption DEF Packing
    <3>4. cum_len' = End[i + 1]
      BY <3>1, <3>2, <3>3, SmallMod
    <3> QED BY <1>0, <3>1, <3>2, <3>4 DEF StrInv, Sized
  <2> QED BY <2>1, <2>2
<1>4. CASE Allocate
  <2>1. /\ cum_len = End[req.n] /\ pc' = "copy" /\ i' = 0 /\ idx' = 0
        /\ alt_data' = [j \in 1 .. cum_len' |-> "0"]
        /\ cum_len' = IF (cum_len \div 8) * 8 # cum_len
                       THEN ((cum_len \div 8 + 1) * 8) % WordMod ELSE cum_len
    BY <1>0, <1>4 DEF StrInv, Allocate
  <2>2. End[req.n] <= cum_len' /\ cum_len' \in Nat
    BY <1>0, <1>a, <2>1, Rounded DEF Packing
  <2>3. /\ alt_data' \in [1 .. cum_len' -> Kept]
        /\ \A j \in 1 .. cum_len' : alt_data'[j] = "0" /\ j > idx'
    BY <2>1, <2>2 DEF Kept
  <2>4. 0 \in 0 .. req.n /\ \A j \in 1 .. cum_len' : alt_data'[j] = "0" <=> (j > idx' \/ j \in EndsSoFar(i)')
    BY <1>a, <2>3
  <2>5. pc' = "copy" /\ i' \in 0 .. req.n /\ idx' = End[i'] /\ End[req.n] <= cum_len'
    BY <1>a, <2>1, <2>2, <2>4
  <2> QED BY <1>0, <2>3, <2>4, <2>5 DEF StrInv, Sized
<1>5. CASE CopyString
  <2>1. pc = "copy" /\ pc' = pc /\ cum_len' = cum_len /\ End[req.n] <= cum_len
    BY <1>0, <1>5 DEF CopyString, StrInv
  <2>2. EndsSoFar(i)' = EndsSoFar(i')
    BY <1>0 DEF EndsSoFar
  <2> QED BY <1>0, <1>5, <2>1, <2>2, CopyKeeps DEF StrInv, Sized
<1>6. CASE PadX
  <2>1. /\ i = req.n /\ idx = End[req.n] /\ idx <= cum_len /\ cum_len' = cum_len /\ pc' = "words"
        /\ alt_data \in [1 .. cum_len -> Kept]
        /\ \A j \in 1 .. cum_len : alt_data[j] = "0" <=> (j > idx \/ j \in EndsSoFar(req.n))
        /\ alt_data' = [j \in DOMAIN alt_data |-> IF j > idx THEN "X" ELSE alt_data[j]]
    BY <1>0, <1>6 DEF StrInv, PadX
  <2>2. alt_data' \in [1 .. cum_len -> Kept]
    BY <2>1 DEF Kept
  <2>3. EndsSoFar(req.n) \subseteq 1 .. idx
    <3>1. \A k \in 1 .. req.n : k \in 0 .. req.n /\ 0 < k /\ (k < req.n \/ k = req.n) /\ 0 \in 0 .. req.n
                                /\ req.n \in 0 .. req.n
      BY <1>a
    <3>2. \A k \in 1 .. req.n : End[k] \in Nat /\ End[0] < End[k] /\ End[k] <= End[req.n]
      BY <1>0, <1>a, <3>1, EndFacts
    <3>3. \A k \in 1 .. req.n : End[k] \in 1 .. idx
      BY <1>a, <2>1, <3>2
    <3> QED BY <3>3 DEF EndsSoFar
  <2>4. \A j \in 1 .. cum_len : alt_data'[j] = "0" <=> j \in EndsSoFar(req.n)
    BY <1>a, <2>1, <2>3
  <2>5. Terminators' = EndsSoFar(req.n)
    <3>1. EndsSoFar(req.n) \subseteq 1 .. cum_len
      BY <1>a, <2>1, <2>3
    <3> QED BY <2>2, <2>4, <3>1 DEF Terminators
  <2> QED BY <1>0, <2>1, <2>2, <2>5 DEF StrInv, Sized
<1>7. CASE SecondParam \/ Header
  BY <1>0, <1>7 DEF StrInv, SecondParam, Header, Fail, Sized, Terminators
<1>8. CASE SendParam1 \/ SendParam2 \/ SendData
  BY <1>0, <1>8 DEF StrInv, SendParam1, SendParam2, SendData, SendBytes, Fail, Sized, Terminators
<1>9. CASE UNCHANGED vars
  BY <1>9 DEF StrInv, vars, Packing, End, EndsSoFar, Terminators, Sized
<1> QED BY <1>1, <1>2, <1>3, <1>4, <1>5, <1>6, <1>7, <1>8, <1>9 DEF Next, Finished

\* For any strings whose lengths fit in a uint32_t: the bytes set_vec sends have
\* their zeros where the strings the application gave end and nowhere else, and
\* neither loop leaves the buffer.
THEOREM StringsAreKept == Spec => []StringsKept
<1>1. IInv /\ StrInv => StringsKept
  <2> SUFFICES ASSUME IInv, StrInv, Packing
               PROVE  /\ pc = "copy" => idx <= cum_len
                      /\ pc \in Sized => Len(alt_data) = cum_len /\ Terminators = EndsSoFar(req.n)
    BY DEF StringsKept, Packing, Sized, EndsSoFar, End
  <2>1. Nats /\ req.qtype = "SC" /\ cum_len \in Nat
    BY DEF IInv, Nats, Packing
  <2>2. ASSUME pc = "copy" PROVE idx <= cum_len
    <3>1. i \in 0 .. req.n /\ idx = End[i] /\ End[req.n] <= cum_len /\ req.n \in 0 .. req.n
      BY <2>1, <2>2, EndFacts DEF StrInv
    <3>2. End[i] <= End[req.n] /\ End[i] \in Nat /\ End[req.n] \in Nat
      BY <2>1, <3>1, EndFacts
    <3> QED BY <2>1, <3>1, <3>2
  <2>3. ASSUME pc \in Sized PROVE Len(alt_data) = cum_len /\ Terminators = EndsSoFar(req.n)
    <3>1. alt_data \in [1 .. cum_len -> Kept] /\ Terminators = EndsSoFar(req.n)
      BY <2>3 DEF StrInv
    <3>2. alt_data \in Seq(Kept) /\ DOMAIN alt_data = 1 .. cum_len
      BY <2>1, <3>1, FromTo
    <3> QED BY <2>1, <3>1, <3>2
  <2> QED BY <2>2, <2>3
<1> QED BY <1>1, StrInit, StrStep, Invariant, PTL DEF Spec

=============================================================================
