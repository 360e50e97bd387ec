--------------------------- MODULE NamedVecProofs ---------------------------
(***************************************************************************)
(* Theorems about get_named_vec_F8, for answers and buffers of any size.     *)
(***************************************************************************)
EXTENDS NamedVec, FiniteSetTheorems, SequenceTheorems, TLAPS

Working == {"sendHdr", "sendParam", "readHdr", "readHead", "readKeys", "readTag", "readVals"}

-----------------------------------------------------------------------------
(* The operators of the model.                                              *)

LEMMA AnswerParts == ASSUME NEW a \in Answers
                     PROVE  /\ a.kind \in {"list", "other", "error"} /\ a.keys \in Seq(KeyBytes)
                            /\ a.tag \in Nat /\ a.extra \in Nat /\ a.n \in Nat
                            /\ a.elem \in {4, 8, 16} /\ a.elem \in Nat
BY NamedVecAssumption DEF Answer

LEMMA BufferParts == ASSUME NEW b \in Buffers
                     PROVE  b.szKeys \in Nat /\ b.szVals \in Nat /\ b.doubles \in Nat
BY NamedVecAssumption DEF Buffer

LEMMA ZerosNat == ASSUME NEW b \in Seq(KeyBytes) PROVE Zeros(b) \in Nat
<1> DEFINE Z == {j \in DOMAIN b : b[j] = "0"}
<1>1. DOMAIN b = 1 .. Len(b) /\ Len(b) \in Nat
  OBVIOUS
<1>2. IsFiniteSet(1 .. Len(b))
  BY <1>1, FS_Interval
<1>3. Z \subseteq 1 .. Len(b)
  BY <1>1
<1>4. IsFiniteSet(Z)
  BY <1>2, <1>3, FS_Subset
<1> QED BY <1>4, FS_CardinalityType DEF Zeros

\* A buffer of n bytes is a sequence of them.
LEMMA BytesSeq == ASSUME NEW n \in Nat, NEW s \in [1 .. n -> KeyBytes]
                  PROVE  s \in Seq(KeyBytes) /\ Len(s) = n
<1>1. s \in Seq(KeyBytes)
  BY SeqDef
<1>2. DOMAIN s = 1 .. n
  OBVIOUS
<1> QED BY <1>1, <1>2

LEMMA SamePrefix == ASSUME NEW s \in Seq(KeyBytes), NEW t \in Seq(KeyBytes), Len(s) <= Len(t),
                           \A j \in 1 .. Len(s) : t[j] = s[j]
                    PROVE  IsPrefix(s, t)
<1>1. Len(s) \in Nat /\ Len(t) \in Nat
  OBVIOUS
<1>2. /\ SubSeq(s, 1, Len(s)) = [j \in 1 .. Len(s) |-> s[j]]
      /\ SubSeq(t, 1, Len(s)) = [j \in 1 .. Len(s) |-> t[j]]
  BY <1>1
<1>3. [j \in 1 .. Len(s) |-> s[j]] = [j \in 1 .. Len(s) |-> t[j]]
  OBVIOUS
<1> QED BY <1>2, <1>3 DEF IsPrefix

LEMMA ProductNat == \A i, j \in Nat : i * j \in Nat
OBVIOUS

LEMMA PayloadNat == ASSUME NEW a \in Answers PROVE Payload(a) \in Nat
<1>1. a.elem * a.n \in Nat
  BY AnswerParts, ProductNat
<1>2. Len(a.keys) \in Nat
  BY AnswerParts
<1>3. DataStart(a) \in Nat
  BY <1>2, AnswerParts DEF DataStart, HdrLen
<1>4. CASE a.kind = "list"
  <2>1. Payload(a) = DataStart(a) + a.elem * a.n
    BY <1>4 DEF Payload
  <2> HIDE DEF Payload, DataStart
  <2>2. \A i, j \in Nat : i + j \in Nat
    OBVIOUS
  <2> QED BY <2>1, <2>2, <1>1, <1>3
<1>5. CASE a.kind = "other"
  BY <1>5, AnswerParts DEF Payload
<1>6. CASE a.kind = "error"
  BY <1>6 DEF Payload
<1> QED BY <1>4, <1>5, <1>6, AnswerParts

\* A prefix of the keys put into the blob: its length stays, and so does what
\* is behind the prefix.
LEMMA FilledBlob ==
  ASSUME keys \in Seq(KeyBytes), key_blob \in Seq(KeyBytes),
         NEW m \in 0 .. Len(keys), m <= Len(key_blob)
  PROVE  /\ Filled(m) \in Seq(KeyBytes) /\ Len(Filled(m)) = Len(key_blob)
         /\ \A j \in 1 .. m : Filled(m)[j] = keys[j]
         /\ \A j \in (m + 1) .. Len(key_blob) : Filled(m)[j] = key_blob[j]
<1>1. DOMAIN key_blob \cup 1 .. m = 1 .. Len(key_blob)
  OBVIOUS
<1>2. Filled(m) = [j \in 1 .. Len(key_blob) |-> IF j <= m THEN keys[j] ELSE key_blob[j]]
  BY <1>1 DEF Filled
<1>3. \A j \in 1 .. Len(key_blob) : (IF j <= m THEN keys[j] ELSE key_blob[j]) \in KeyBytes
  OBVIOUS
<1> QED BY <1>2, <1>3

-----------------------------------------------------------------------------
(* The inductive invariant, in four parts: the types, the room in the        *)
(* buffers, the place in the answer, and the results.                        *)

Types ==
  /\ pc \in Working \cup {"start", "back"}
  /\ ans \in Answers /\ buf \in Buffers /\ peer \in {"open", "closed"}
  /\ rest \in Nat /\ rest <= Payload(ans) /\ chk_n_vals \in Nat
  /\ keys \in Seq(KeyBytes) /\ key_blob \in Seq(KeyBytes)
  /\ vals \in [from : Nat, written : Nat]
  /\ outs \in [n_vals : Nat \cup {-1}, n_key_blob : Nat \cup {-1}]
  /\ status \in {0, -1, -2, -3}

\* The keys fit with a byte to spare before they are read, the values before
\* they are: what has been written stays inside.
Room ==
  /\ pc \in Working => Len(key_blob) = buf.szKeys
  /\ pc = "start" => key_blob = <<>> /\ vals.written = 0
  /\ pc = "readKeys" => Len(keys) < buf.szKeys
  /\ pc = "readVals" => chk_n_vals < buf.szVals
  /\ key_blob = <<>> \/ (Len(key_blob) = buf.szKeys /\ key_blob[buf.szKeys] = "0")
  /\ buf.szVals = buf.doubles => vals.written <= 8 * buf.doubles

\* Bytes of the answer read before each of the reads.
Before(l) == CASE pc = "readHead" -> 0
               [] pc = "readKeys" -> HdrLen
               [] pc = "readTag"  -> HdrLen + l
               [] pc = "readVals" -> HdrLen + l + TagLen
               [] OTHER -> HdrLen + l + TagLen + 8 * ans.n

Succeeding == pc = "back" /\ status = 0

Place ==
  ans.kind = "list" =>
    /\ pc \in {"readHead", "readKeys", "readTag", "readVals"} \/ Succeeding =>
         rest = Payload(ans) - Before(Len(ans.keys))
    /\ pc \in {"readKeys", "readTag", "readVals"} \/ Succeeding => keys = ans.keys
    /\ pc \in {"readTag", "readVals"} \/ Succeeding => chk_n_vals = ans.n

KeysIn == /\ Len(keys) <= Len(key_blob)
          /\ \A j \in 1 .. Len(keys) : key_blob[j] = keys[j]

Results ==
  /\ pc # "back" => status = 0
  /\ pc \in {"readTag", "readVals"} \/ Succeeding => KeysIn
  /\ ~Succeeding => outs = NotSet
  /\ Succeeding => /\ outs = [n_vals |-> chk_n_vals, n_key_blob |-> Len(keys)]
                   /\ vals.from = Payload(ans) - rest - 8 * chk_n_vals

IInv == Types /\ Room /\ Place /\ Results

LEMMA InvInit == Init => IInv
<1> SUFFICES ASSUME Init PROVE IInv
  OBVIOUS
<1>1. Payload(ans) \in Nat
  BY PayloadNat DEF Init
<1>2. Types
  BY <1>1 DEF Init, Types, NotSet, Working
<1>3. Room
  BY BufferParts DEF Init, Room, Working
<1>4. Place
  BY DEF Init, Place, Succeeding
<1>5. Results
  BY DEF Init, Results, Succeeding
<1> QED BY <1>2, <1>3, <1>4, <1>5 DEF IInv

\* What every step leaves alone, and may rely on.
LEMMA Facts == ASSUME IInv
               PROVE  /\ Payload(ans) \in Nat /\ Len(keys) \in Nat /\ Len(ans.keys) \in Nat
                      /\ ans.n \in Nat /\ ans.keys \in Seq(KeyBytes) /\ Zeros(keys) \in Nat
                      /\ buf.szKeys \in Nat /\ buf.szVals \in Nat /\ buf.doubles \in Nat
                      /\ ans.kind = "list" => Zeros(ans.keys) = ans.n
BY PayloadNat, AnswerParts, BufferParts, ZerosNat, NamedVecAssumption DEF IInv, Types

\* A step that goes back with an error, or goes on without touching the data.
LEMMA FailKeepsInv ==
  ASSUME IInv, pc # "back", NEW st \in {-1, -2, -3}, Fail(st),
         ans' = ans, buf' = buf, peer' = peer, outs' = outs,
         rest' \in Nat, rest' <= Payload(ans), chk_n_vals' \in Nat, keys' \in Seq(KeyBytes),
         key_blob' \in Seq(KeyBytes), vals' \in [from : Nat, written : Nat],
         \/ key_blob' = key_blob
         \/ Len(key_blob') = buf.szKeys /\ key_blob'[buf.szKeys] = "0",
         \/ vals' = vals
         \/ buf.szVals = buf.doubles => vals'.written <= 8 * buf.doubles
  PROVE  IInv'
<1>1. pc' = "back" /\ status' = st /\ st # 0 /\ ~Succeeding'
  BY DEF Fail, Succeeding
<1>2. Payload(ans') = Payload(ans)
  OBVIOUS
<1>3. Types'
  BY <1>1, <1>2 DEF IInv, Types
<1>4. Room'
  BY <1>1 DEF IInv, Room, Working
<1>5. Place'
  BY <1>1 DEF Place
<1>6. Results'
  BY <1>1 DEF IInv, Results, Succeeding
<1> QED BY <1>3, <1>4, <1>5, <1>6 DEF IInv

LEMMA StartKeepsInv == IInv /\ Start => IInv'
<1> SUFFICES ASSUME IInv, Start PROVE IInv'
  OBVIOUS
<1>1. CASE Fail(-1) /\ UNCHANGED <<key_blob, vals>>
  BY <1>1, FailKeepsInv DEF Start, IInv, Types
<1>2. CASE /\ pc' = "sendHdr" /\ UNCHANGED status
           /\ key_blob' = [j \in 1 .. buf.szKeys |-> "0"]
           /\ vals' = [vals EXCEPT !.written = buf.szVals]
  <2>1. UNCHANGED <<ans, buf, peer, rest, keys, chk_n_vals, outs>> /\ pc = "start"
    BY DEF Start
  <2>2. key_blob' \in Seq(KeyBytes) /\ Len(key_blob') = buf.szKeys
    <3>1. buf.szKeys \in Nat /\ key_blob' = [j \in 1 .. buf.szKeys |-> "0"]
      BY <1>2, Facts
    <3>2. key_blob' \in [1 .. buf.szKeys -> KeyBytes]
      BY <3>1 DEF KeyBytes
    <3> QED BY <3>1, <3>2, BytesSeq
  <2>3. vals' \in [from : Nat, written : Nat] /\ vals'.written = buf.szVals
    BY <1>2, Facts DEF IInv, Types
  <2>4. ~Succeeding' /\ ~Succeeding
    BY <1>2, <2>1 DEF Succeeding
  <2>5. Types'
    BY <1>2, <2>1, <2>2, <2>3 DEF IInv, Types, Working
  <2>6. key_blob' = <<>> \/ (Len(key_blob') = buf.szKeys /\ key_blob'[buf.szKeys] = "0")
    BY <1>2, <2>2, Facts
  <2>7. Room'
    BY <1>2, <2>1, <2>2, <2>3, <2>6, Facts DEF Room, Working
  <2>8. Place' /\ Results'
    BY <1>2, <2>1, <2>4 DEF IInv, Place, Results
  <2> QED BY <2>5, <2>7, <2>8 DEF IInv
<1> QED BY <1>1, <1>2 DEF Start

LEMMA SendKeepsInv == IInv /\ (SendHdr \/ SendParam) => IInv'
<1> SUFFICES ASSUME IInv, SendHdr \/ SendParam PROVE IInv'
  OBVIOUS
<1>1. /\ UNCHANGED <<ans, buf, peer, rest, keys, key_blob, chk_n_vals, vals, outs>>
      /\ pc \in {"sendHdr", "sendParam"}
      /\ (pc' \in {"sendParam", "readHdr"} /\ UNCHANGED status) \/ Fail(-1)
  BY DEF SendHdr, SendParam
<1>2. CASE Fail(-1)
  BY <1>1, <1>2, FailKeepsInv DEF IInv, Types
<1>3. CASE pc' \in {"sendParam", "readHdr"} /\ UNCHANGED status
  <2>1. ~Succeeding' /\ ~Succeeding
    BY <1>1, <1>3 DEF Succeeding
  <2>2. Types' /\ Room'
    BY <1>1, <1>3 DEF IInv, Types, Room, Working
  <2>3. Place' /\ Results'
    BY <1>1, <1>3, <2>1 DEF IInv, Place, Results
  <2> QED BY <2>2, <2>3 DEF IInv
<1> QED BY <1>1, <1>2, <1>3

LEMMA ReadHdrKeepsInv == IInv /\ ReadHdr => IInv'
<1> SUFFICES ASSUME IInv, ReadHdr PROVE IInv'
  OBVIOUS
<1>1. /\ UNCHANGED <<ans, buf, peer, keys, key_blob, chk_n_vals, vals, outs>>
      /\ pc = "readHdr" /\ rest' = Payload(ans)
      /\ Fail(-1) \/ (pc' = "readHead" /\ UNCHANGED status)
  BY DEF ReadHdr
<1>2. CASE Fail(-1)
  BY <1>1, <1>2, FailKeepsInv, Facts DEF IInv, Types
<1>3. CASE pc' = "readHead" /\ UNCHANGED status
  <2>1. ~Succeeding' /\ ~Succeeding
    BY <1>1, <1>3 DEF Succeeding
  <2>2. Types' /\ Room'
    BY <1>1, <1>3, Facts DEF IInv, Types, Room, Working
  <2>3. Place'
    BY <1>1, <1>3, <2>1, Facts DEF IInv, Place, Before
  <2>4. Results'
    BY <1>1, <1>3, <2>1 DEF IInv, Results
  <2> QED BY <2>2, <2>3, <2>4 DEF IInv
<1> QED BY <1>1, <1>2, <1>3

\* The keys the words speak of are the answer's, or anything.
LEMMA ReadHeadKeepsInv == IInv /\ ReadHead => IInv'
<1> SUFFICES ASSUME IInv, ReadHead PROVE IInv'
  OBVIOUS
<1>1. /\ UNCHANGED <<ans, buf, peer, key_blob, chk_n_vals, vals, outs>>
      /\ pc = "readHead" /\ rest >= HdrLen /\ rest' = rest - HdrLen
  BY DEF ReadHead
<1>2. rest' \in Nat /\ rest' <= Payload(ans)
  BY <1>1, Facts DEF IInv, Types, HdrLen
<1>3. Claimed \subseteq Seq(KeyBytes)
  BY Facts, NamedVecAssumption DEF Claimed
<1>4. CASE Fail(-1) /\ UNCHANGED keys
  BY <1>1, <1>2, <1>4, FailKeepsInv DEF IInv, Types
<1>5. ASSUME NEW k \in Claimed, keys' = k,
             IF TooLong(Len(k)) THEN Fail(-1) ELSE pc' = "readKeys" /\ UNCHANGED status
      PROVE  IInv'
  <2>1. keys' \in Seq(KeyBytes) /\ Len(k) \in Nat
    BY <1>3, <1>5
  <2>2. CASE TooLong(Len(k))
    BY <1>1, <1>2, <1>5, <2>1, <2>2, FailKeepsInv DEF IInv, Types
  <2>3. CASE ~TooLong(Len(k))
    <3>1. pc' = "readKeys" /\ UNCHANGED status /\ Len(keys') < buf.szKeys
      BY <1>5, <2>1, <2>3, Facts DEF TooLong
    <3>2. ~Succeeding' /\ ~Succeeding
      BY <1>1, <3>1 DEF Succeeding
    <3>3. Types' /\ Room'
      BY <1>1, <1>2, <2>1, <3>1 DEF IInv, Types, Room, Working
    <3>4. ans.kind = "list" => keys' = ans.keys
      BY <1>5 DEF Claimed
    <3>5. Place'
      BY <1>1, <3>1, <3>2, <3>4, Facts DEF IInv, Place, Before, HdrLen
    <3>6. Results'
      BY <1>1, <3>1, <3>2 DEF IInv, Results
    <3> QED BY <3>3, <3>5, <3>6 DEF IInv
  <2> QED BY <2>2, <2>3
<1> QED BY <1>4, <1>5 DEF ReadHead

LEMMA ReadKeysKeepsInv == IInv /\ ReadKeys => IInv'
<1> SUFFICES ASSUME IInv, ReadKeys PROVE IInv'
  OBVIOUS
<1>1. /\ UNCHANGED <<ans, buf, peer, keys, vals, outs, status>>
      /\ pc = "readKeys" /\ pc' = "readTag"
      /\ rest >= Len(keys) /\ rest' = rest - Len(keys)
      /\ key_blob' = Filled(Len(keys)) /\ chk_n_vals' = Zeros(keys)
  BY DEF ReadKeys, CountZeros
<1>2. Len(key_blob) = buf.szKeys /\ Len(keys) < buf.szKeys /\ keys \in Seq(KeyBytes)
      /\ key_blob \in Seq(KeyBytes)
  BY <1>1 DEF IInv, Room, Types, Working
<1>3. /\ key_blob' \in Seq(KeyBytes) /\ Len(key_blob') = Len(key_blob)
      /\ \A j \in 1 .. Len(keys) : key_blob'[j] = keys[j]
      /\ key_blob'[buf.szKeys] = key_blob[buf.szKeys]
  <2>1. /\ Len(keys) \in 0 .. Len(keys) /\ Len(keys) <= Len(key_blob)
        /\ buf.szKeys \in (Len(keys) + 1) .. Len(key_blob)
    BY <1>2, Facts
  <2>2. /\ key_blob' \in Seq(KeyBytes) /\ Len(key_blob') = Len(key_blob)
        /\ \A j \in 1 .. Len(keys) : key_blob'[j] = keys[j]
        /\ \A j \in (Len(keys) + 1) .. Len(key_blob) : key_blob'[j] = key_blob[j]
    BY <1>1, <1>2, <2>1, FilledBlob
  <2> QED BY <2>1, <2>2
<1>4. key_blob[buf.szKeys] = "0"
  BY <1>2, Facts DEF IInv, Room
<1>5. ~Succeeding' /\ ~Succeeding
  BY <1>1 DEF Succeeding
<1>6. Types'
  BY <1>1, <1>3, Facts DEF IInv, Types, Working
<1>7. Room'
  BY <1>1, <1>2, <1>3, <1>4 DEF IInv, Room, Working
<1>8. Place'
  BY <1>1, <1>5, Facts DEF IInv, Place, Before, HdrLen
<1>9. Results'
  BY <1>1, <1>2, <1>3, <1>5, Facts DEF IInv, Results, KeysIn
<1> QED BY <1>6, <1>7, <1>8, <1>9 DEF IInv

LEMMA ReadTagKeepsInv == IInv /\ ReadTag => IInv'
<1> SUFFICES ASSUME IInv, ReadTag PROVE IInv'
  OBVIOUS
<1>1. /\ UNCHANGED <<ans, buf, peer, keys, key_blob, chk_n_vals, vals, outs>>
      /\ pc = "readTag" /\ rest >= TagLen /\ rest' = rest - TagLen
      /\ IF chk_n_vals >= buf.szVals THEN Fail(-1) ELSE pc' = "readVals" /\ UNCHANGED status
  BY DEF ReadTag
<1>2. rest' \in Nat /\ rest' <= Payload(ans)
  BY <1>1, Facts DEF IInv, Types, TagLen
<1>3. CASE chk_n_vals >= buf.szVals
  BY <1>1, <1>2, <1>3, FailKeepsInv DEF IInv, Types
<1>4. CASE ~(chk_n_vals >= buf.szVals)
  <2>1. pc' = "readVals" /\ UNCHANGED status /\ chk_n_vals < buf.szVals
    BY <1>1, <1>4, Facts DEF IInv, Types
  <2>2. ~Succeeding' /\ ~Succeeding
    BY <1>1, <2>1 DEF Succeeding
  <2>3. Types' /\ Room'
    BY <1>1, <1>2, <2>1 DEF IInv, Types, Room, Working
  <2>4. Place'
    BY <1>1, <2>1, <2>2, Facts DEF IInv, Place, Before, HdrLen, TagLen
  <2>5. Results'
    BY <1>1, <2>1, <2>2 DEF IInv, Results, KeysIn
  <2> QED BY <2>3, <2>4, <2>5 DEF IInv
<1> QED BY <1>3, <1>4

LEMMA ReadValsKeepsInv == IInv /\ ReadVals => IInv'
<1> SUFFICES ASSUME IInv, ReadVals PROVE IInv'
  OBVIOUS
<1> DEFINE w == IF 8 * chk_n_vals > vals.written THEN 8 * chk_n_vals ELSE vals.written
<1>1. /\ UNCHANGED <<ans, buf, peer, keys, key_blob, chk_n_vals, status>>
      /\ pc = "readVals" /\ pc' = "back"
      /\ rest >= 8 * chk_n_vals /\ rest' = rest - 8 * chk_n_vals
      /\ vals' = [from |-> Payload(ans) - rest, written |-> w]
      /\ outs' = [n_vals |-> chk_n_vals, n_key_blob |-> Len(keys)]
  BY DEF ReadVals
<1>2. /\ chk_n_vals \in Nat /\ rest \in Nat /\ rest <= Payload(ans)
      /\ vals.written \in Nat /\ chk_n_vals < buf.szVals
  BY <1>1 DEF IInv, Types, Room
<1>3. Succeeding' /\ ~Succeeding
  BY <1>1 DEF Succeeding, IInv, Results
<1>4. w \in Nat /\ vals' \in [from : Nat, written : Nat]
  BY <1>1, <1>2, Facts
<1>5. outs' \in [n_vals : Nat \cup {-1}, n_key_blob : Nat \cup {-1}]
  BY <1>1, <1>2, Facts
<1>6. Types'
  BY <1>1, <1>2, <1>4, <1>5, Facts DEF IInv, Types
<1>7. buf.szVals = buf.doubles => w <= 8 * buf.doubles
  BY <1>1, <1>2, Facts DEF IInv, Room
<1>8. Room'
  BY <1>1, <1>7 DEF IInv, Room, Working
<1>9. Place'
  BY <1>1, <1>2, <1>3, Facts DEF IInv, Place, Before, HdrLen, TagLen
<1>10. Results'
  BY <1>1, <1>2, <1>3, Facts DEF IInv, Results, KeysIn
<1> QED BY <1>6, <1>8, <1>9, <1>10 DEF IInv

LEMMA WantNat == ASSUME IInv
                 PROVE  /\ Want \in Nat
                        /\ pc = "readKeys" => Want = Len(keys)
                        /\ pc = "readVals" => Want = 8 * chk_n_vals
                        /\ Want > 0 => pc # "back"
BY Facts DEF Want, HdrLen, TagLen, IInv, Types

\* A read that fails has put a part of the bytes into the buffer at most.
LEMMA ReadFailsKeepsInv == IInv /\ ReadFails => IInv'
<1> SUFFICES ASSUME IInv, ReadFails PROVE IInv'
  OBVIOUS
<1>1. PICK m \in 0 .. (Want - 1) :
        /\ m <= rest /\ rest' = rest - m
        /\ key_blob' = IF pc = "readKeys" THEN Filled(m) ELSE key_blob
        /\ vals' = IF pc = "readVals" /\ m > vals.written THEN [vals EXCEPT !.written = m] ELSE vals
  BY DEF ReadFails
<1>2. PICK st \in {-2, -3} : Fail(st)
  BY DEF ReadFails
<1>3. UNCHANGED <<ans, buf, peer, keys, chk_n_vals, outs>> /\ pc # "back"
  BY WantNat DEF ReadFails
<1>4. m \in Nat /\ m < Want /\ Want \in Nat
  BY <1>1, WantNat
<1>5. rest' \in Nat /\ rest' <= Payload(ans)
  <2>1. m <= rest /\ rest' = rest - m
    BY <1>1
  <2>2. rest \in Nat /\ rest <= Payload(ans) /\ Payload(ans) \in Nat
    BY Facts DEF IInv, Types
  <2> QED BY <1>4, <2>1, <2>2
<1>6. /\ key_blob' \in Seq(KeyBytes)
      /\ key_blob' = key_blob \/ (Len(key_blob') = buf.szKeys /\ key_blob'[buf.szKeys] = "0")
  <2>1. CASE pc = "readKeys"
    <3>1. /\ Len(key_blob) = buf.szKeys /\ Len(keys) < buf.szKeys /\ keys \in Seq(KeyBytes)
          /\ key_blob \in Seq(KeyBytes) /\ m < Len(keys)
      BY <1>4, <2>1, WantNat DEF IInv, Room, Types, Working
    <3>2. key_blob[buf.szKeys] = "0"
      BY <3>1, Facts DEF IInv, Room
    <3>3. key_blob' = Filled(m) /\ m \in 0 .. Len(keys) /\ m <= Len(key_blob)
      BY <1>1, <1>4, <2>1, <3>1, Facts
    <3>4. /\ Filled(m) \in Seq(KeyBytes) /\ Len(Filled(m)) = Len(key_blob)
          /\ \A j \in (m + 1) .. Len(key_blob) : Filled(m)[j] = key_blob[j]
      BY <3>1, <3>3, FilledBlob
    <3>5. buf.szKeys \in (m + 1) .. Len(key_blob)
      BY <1>4, <3>1, Facts
    <3> QED BY <3>1, <3>2, <3>3, <3>4, <3>5
  <2>2. CASE pc # "readKeys"
    BY <1>1, <2>2 DEF IInv, Types
  <2> QED BY <2>1, <2>2
<1>7. /\ vals' \in [from : Nat, written : Nat]
      /\ vals' = vals \/ (buf.szVals = buf.doubles => vals'.written <= 8 * buf.doubles)
  <2>1. CASE pc = "readVals" /\ m > vals.written
    <3>1. vals \in [from : Nat, written : Nat] /\ vals' = [vals EXCEPT !.written = m]
      BY <1>1, <2>1 DEF IInv, Types
    <3>2. vals' \in [from : Nat, written : Nat] /\ vals'.written = m
      BY <1>4, <3>1
    <3>3. m < 8 * chk_n_vals /\ chk_n_vals < buf.szVals /\ chk_n_vals \in Nat
      BY <1>4, <2>1, WantNat DEF IInv, Room, Types
    <3> QED BY <1>4, <3>2, <3>3, Facts
  <2>2. CASE ~(pc = "readVals" /\ m > vals.written)
    BY <1>1, <2>2 DEF IInv, Types
  <2> QED BY <2>1, <2>2
<1> QED BY <1>2, <1>3, <1>5, <1>6, <1>7, FailKeepsInv DEF IInv, Types

LEMMA InvNext == IInv /\ [Next]_vars => IInv'
<1> SUFFICES ASSUME IInv, [Next]_vars PROVE IInv'
  OBVIOUS
<1>1. CASE Step
  BY <1>1, StartKeepsInv, SendKeepsInv, ReadHdrKeepsInv, ReadHeadKeepsInv, ReadKeysKeepsInv,
     ReadTagKeepsInv, ReadValsKeepsInv, ReadFailsKeepsInv DEF Step
<1>2. CASE ServerEnds
  BY <1>2 DEF ServerEnds, IInv, Types, Room, Place, Results, Before, Succeeding, KeysIn
<1>3. CASE UNCHANGED vars
  BY <1>3 DEF vars, IInv, Types, Room, Place, Results, Before, Succeeding, KeysIn
<1> QED BY <1>1, <1>2, <1>3 DEF Next, Finished

LEMMA SpecInv == Spec => []IInv
BY InvInit, InvNext, PTL DEF Spec

-----------------------------------------------------------------------------
(* The theorems.                                                            *)

\* The call is type-correct at every step.
THEOREM NamedVecTypes == Spec => []TypeOK
<1>1. IInv => TypeOK
  BY DEF IInv, Types, TypeOK, Working
<1> QED BY <1>1, SpecInv, PTL

\* For any answer and any buffers, cut or whole: key_blob is not overrun and
\* ends with a zero, and vals is not overrun when sz_vals counts elements.
THEOREM StaysInBuffers == Spec => []NoOverrun
<1>1. IInv => NoOverrun
  BY DEF IInv, Room, NoOverrun
<1> QED BY <1>1, SpecInv, PTL

\* What get_named_vec_F8 has read when it returns 0 is the whole answer, if
\* the vector is one of integers or doubles without other attributes.
THEOREM ReadsWholeAnswer == Spec => []WholeAnswer
<1>1. IInv => WholeAnswer
  <2> SUFFICES ASSUME IInv, Succeeded, ans.kind = "list", ans.extra = 0, ans.tag = TagLen,
                      ans.elem <= 8
               PROVE  rest = 0
    BY DEF WholeAnswer
  <2>1. rest = Payload(ans) - (HdrLen + Len(ans.keys) + TagLen + 8 * ans.n)
    BY DEF IInv, Place, Before, Succeeding, Succeeded
  <2>2. Payload(ans) = HdrLen + Len(ans.keys) + TagLen + 0 + ans.elem * ans.n
    BY DEF Payload, DataStart
  <2>3. ans.elem \in {4, 8} /\ ans.n \in Nat /\ Len(ans.keys) \in Nat /\ rest \in Nat
    BY AnswerParts, Facts DEF IInv, Types
  <2>4. CASE ans.elem = 8
    <3>1. Payload(ans) = HdrLen + Len(ans.keys) + TagLen + 0 + 8 * ans.n
      BY <2>2, <2>4
    <3> QED BY <2>1, <2>3, <3>1 DEF HdrLen, TagLen
  <2>5. CASE ans.elem = 4
    <3>1. Payload(ans) = HdrLen + Len(ans.keys) + TagLen + 0 + 4 * ans.n
      BY <2>2, <2>5
    <3> QED BY <2>1, <2>3, <3>1 DEF HdrLen, TagLen
  <2> QED BY <2>3, <2>4, <2>5
<1> QED BY <1>1, SpecInv, PTL

\* A named vector of doubles comes back with its keys and its own values, or
\* the call fails and sets none of its outputs.
THEOREM GetsKeysAndValues == Spec => []KeysAndValues
<1>1. IInv => KeysAndValues
  <2> SUFFICES ASSUME IInv, NamedDoubles(ans), pc = "back"
               PROVE  \/ /\ status = 0
                         /\ outs.n_vals = ans.n /\ vals.from = DataStart(ans)
                         /\ outs.n_key_blob = Len(ans.keys) /\ IsPrefix(ans.keys, key_blob)
                      \/ status < 0 /\ outs = NotSet
    BY DEF KeysAndValues
  <2>1. CASE status # 0
    BY <2>1 DEF IInv, Types, Results, Succeeding
  <2>2. CASE status = 0
    <3>1. /\ Succeeding /\ keys = ans.keys /\ chk_n_vals = ans.n /\ KeysIn
          /\ rest = Payload(ans) - (HdrLen + Len(ans.keys) + TagLen + 8 * ans.n)
          /\ outs = [n_vals |-> chk_n_vals, n_key_blob |-> Len(keys)]
          /\ vals.from = Payload(ans) - rest - 8 * chk_n_vals
      BY <2>2 DEF NamedDoubles, IInv, Place, Results, Succeeding, Before
    <3>2. DataStart(ans) = HdrLen + Len(ans.keys) + TagLen + 0
      BY DEF DataStart, NamedDoubles
    <3>3. vals.from = DataStart(ans)
      <4>1. Payload(ans) \in Nat /\ Len(ans.keys) \in Nat /\ ans.n \in Nat /\ HdrLen \in Nat /\ TagLen \in Nat
        BY AnswerParts, Facts DEF IInv, Types, HdrLen, TagLen
      <4>2. \A p, h, k, t, d \in Nat : p - (p - (h + k + t + d)) - d = h + k + t + 0
        OBVIOUS
      <4>3. 8 * ans.n \in Nat
        BY <4>1
      <4>4. /\ vals.from = Payload(ans) - rest - 8 * ans.n
            /\ rest = Payload(ans) - (HdrLen + Len(ans.keys) + TagLen + 8 * ans.n)
        BY <3>1
      <4>5. Payload(ans) - (Payload(ans) - (HdrLen + Len(ans.keys) + TagLen + 8 * ans.n)) - 8 * ans.n
              = HdrLen + Len(ans.keys) + TagLen + 0
        BY <4>1, <4>2, <4>3
      <4>6. Payload(ans) - rest - 8 * ans.n = HdrLen + Len(ans.keys) + TagLen + 0
        BY <4>4, <4>5, Zenon
      <4> QED BY <3>2, <4>4, <4>6, Zenon
    <3>4. ans.keys \in Seq(KeyBytes) /\ key_blob \in Seq(KeyBytes)
      BY Facts DEF IInv, Types
    <3>5. Len(ans.keys) <= Len(key_blob) /\ \A j \in 1..Len(ans.keys) : key_blob[j] = ans.keys[j]
      BY <3>1 DEF KeysIn
    <3>6. IsPrefix(ans.keys, key_blob)
      BY <3>4, <3>5, SamePrefix, Zenon
    <3> QED BY <2>2, <3>1, <3>3, <3>6
  <2> QED BY <2>1, <2>2
<1> QED BY <1>1, SpecInv, PTL
=============================================================================
