------------------------------ MODULE NamedVec ------------------------------
(***************************************************************************)
(* get_named_vec_F8: one call, from the request to the values, over the     *)
(* answers R may give for the name it asks about and over buffers of any    *)
(* size.  The function reads the answer in five pieces, each as long as it  *)
(* believes the layout to be, and never compares what it has read with the  *)
(* length in the header.                                                    *)
(*                                                                          *)
(* The answer for a named vector is 16 bytes of words (DT_SEXP, the         *)
(* vector's own, XT_LIST_TAG, XT_ARRAY_STR), the keys, a tag (its word and   *)
(* the symbol "names": 12 bytes), other attributes if there are any, and    *)
(* the elements.                                                            *)
(***************************************************************************)
EXTENDS Integers, SequencesExt

CONSTANTS
  Answers,      \* what R may answer
  Buffers,      \* the buffers callers pass
  GarbageKeys,  \* what may be taken for keys in an answer that is no named vector
  RcvTimeout    \* the socket has a receive timeout

\* "c" is part of a key, "0" ends one, "1" is Rserve's padding.
KeyBytes == {"c", "0", "1"}

\* list: a vector whose first attribute is a vector of strings; then extra is
\* the length of the attributes behind the names and elem the size of an
\* element (8: doubles).  other: any other answer, extra bytes long, of which
\* nothing is known.  error: an error without text.
Answer == [kind : {"list", "other", "error"}, keys : Seq(KeyBytes), tag : Nat,
           extra : Nat, elem : {4, 8, 16}, n : Nat]

\* vals has room for doubles; the caller says it is szVals.
Buffer == [szKeys : Nat, szVals : Nat, doubles : Nat]

Zeros(bytes) == Cardinality({j \in DOMAIN bytes : bytes[j] = "0"})

\* R has a name for every element.
ASSUME NamedVecAssumption ==
  /\ Answers \subseteq Answer /\ Buffers \subseteq Buffer
  /\ \A a \in Answers : a.kind = "list" => Zeros(a.keys) = a.n
  /\ GarbageKeys \subseteq Seq(KeyBytes) /\ RcvTimeout \in BOOLEAN

VARIABLES
  pc,           \* the read or send the function is at
  ans, buf,     \* the answer to come; the caller's buffers
  peer,         \* whether the server still has the connection
  rest,         \* bytes of the answer not read yet
  keys,         \* what the four words say the keys are
  key_blob,     \* the caller's buffer
  chk_n_vals,   \* strings counted in it
  vals,         \* where in the answer the values were taken from, and bytes written
  outs,         \* *ptr_n_vals and *ptr_n_key_blob
  status

vars == <<pc, ans, buf, peer, rest, keys, key_blob, chk_n_vals, vals, outs, status>>

HdrLen == 16
TagLen == 12

DataStart(a) == HdrLen + Len(a.keys) + a.tag + a.extra
Payload(a) == CASE a.kind = "list" -> DataStart(a) + a.elem * a.n
                [] a.kind = "other" -> a.extra
                [] a.kind = "error" -> 0

NotSet == [n_vals |-> -1, n_key_blob |-> -1]

Init == /\ pc = "start" /\ ans \in Answers /\ buf \in Buffers /\ peer = "open"
        /\ rest = 0 /\ keys = <<>> /\ key_blob = <<>> /\ chk_n_vals = 0
        /\ vals = [from |-> 0, written |-> 0] /\ outs = NotSet /\ status = 0

Fail(s) == pc' = "back" /\ status' = s

-----------------------------------------------------------------------------
\* mk_dt_string, which refuses a null name, and the two memsets: sz_vals is
\* bytes here.
Start ==
  /\ pc = "start"
  /\ \/ Fail(-1) /\ UNCHANGED <<key_blob, vals>>
     \/ /\ pc' = "sendHdr" /\ UNCHANGED status
        /\ key_blob' = [j \in 1 .. buf.szKeys |-> "0"]
        /\ vals' = [vals EXCEPT !.written = buf.szVals]
  /\ UNCHANGED <<ans, buf, peer, rest, keys, chk_n_vals, outs>>

\* A send goes out whole or the call fails.
SendHdr == /\ pc = "sendHdr"
           /\ \/ pc' = "sendParam" /\ UNCHANGED status
              \/ Fail(-1)
           /\ UNCHANGED <<ans, buf, peer, rest, keys, key_blob, chk_n_vals, vals, outs>>

SendParam == /\ pc = "sendParam"
             /\ \/ pc' = "readHdr" /\ UNCHANGED status
                \/ Fail(-1)
             /\ UNCHANGED <<ans, buf, peer, rest, keys, key_blob, chk_n_vals, vals, outs>>

\* Mutant: the length is taken to count the header.
ReadHdrInclusive ==
  /\ pc = "readHdr" /\ peer = "open"
  /\ rest' = Payload(ans) - HdrLen
  /\ IF rest' = 0 THEN Fail(-1) ELSE pc' = "readHead" /\ UNCHANGED status
  /\ UNCHANGED <<ans, buf, peer, keys, key_blob, chk_n_vals, vals, outs>>

\* The header: the command is not looked at, and the answer must have bytes.
\* What has come with it can be read after the server has gone.
ReadHdr ==
  /\ pc = "readHdr" /\ peer = "open"
  /\ rest' = Payload(ans)
  /\ IF rest' = 0 THEN Fail(-1) ELSE pc' = "readHead" /\ UNCHANGED status
  /\ UNCHANGED <<ans, buf, peer, keys, key_blob, chk_n_vals, vals, outs>>

\* What the four words may be taken for, when the tests pass.
Claimed == IF ans.kind = "list" THEN {ans.keys} ELSE GarbageKeys

\* Mutant: a blob that fills the buffer is accepted.
TooLongByOne(len) == len > buf.szKeys
TooLong(len) == len >= buf.szKeys

\* The tests of the words: the vector's own is not among them.
ReadHead ==
  /\ pc = "readHead" /\ rest >= HdrLen
  /\ rest' = rest - HdrLen
  /\ \/ ans.kind # "list" /\ Fail(-1) /\ UNCHANGED keys
     \/ \E k \in Claimed :
          /\ keys' = k
          /\ IF TooLong(Len(k)) THEN Fail(-1) ELSE pc' = "readKeys" /\ UNCHANGED status
  /\ UNCHANGED <<ans, buf, peer, key_blob, chk_n_vals, vals, outs>>

\* The first m bytes of the keys in the buffer.
Filled(m) == [j \in DOMAIN key_blob \cup 1 .. m |-> IF j <= m THEN keys[j] ELSE key_blob[j]]

\* Mutant: the last byte of the keys is not looked at.
CountZerosButLast == Cardinality({j \in 1 .. (Len(keys) - 1) : keys[j] = "0"})
CountZeros == Zeros(keys)

ReadKeys ==
  /\ pc = "readKeys" /\ rest >= Len(keys)
  /\ rest' = rest - Len(keys)
  /\ key_blob' = Filled(Len(keys))
  /\ chk_n_vals' = CountZeros
  /\ pc' = "readTag"
  /\ UNCHANGED <<ans, buf, peer, keys, vals, outs, status>>

\* Mutant: the twelve bytes, "but WHY????", are left in the stream.
ReadTagNot ==
  /\ pc = "readTag" /\ pc' = "readVals"
  /\ UNCHANGED <<ans, buf, peer, rest, keys, key_blob, chk_n_vals, vals, outs, status>>

\* Twelve bytes that are thrown away, and the test of the room for the
\* values: sz_vals is elements here.
ReadTag ==
  /\ pc = "readTag" /\ rest >= TagLen
  /\ rest' = rest - TagLen
  /\ IF chk_n_vals >= buf.szVals THEN Fail(-1) ELSE pc' = "readVals" /\ UNCHANGED status
  /\ UNCHANGED <<ans, buf, peer, keys, key_blob, chk_n_vals, vals, outs>>

ReadVals ==
  /\ pc = "readVals" /\ rest >= 8 * chk_n_vals
  /\ rest' = rest - 8 * chk_n_vals
  /\ vals' = [from |-> Payload(ans) - rest,
              written |-> IF 8 * chk_n_vals > vals.written THEN 8 * chk_n_vals ELSE vals.written]
  /\ outs' = [n_vals |-> chk_n_vals, n_key_blob |-> Len(keys)]
  /\ pc' = "back"
  /\ UNCHANGED <<ans, buf, peer, keys, key_blob, chk_n_vals, status>>

Want == CASE pc \in {"readHdr", "readHead"} -> HdrLen
          [] pc = "readKeys" -> Len(keys)
          [] pc = "readTag"  -> TagLen
          [] pc = "readVals" -> 8 * chk_n_vals
          [] OTHER -> 0

\* Mutant: a failed read is tried again.
ReadFailsRetried ==
  /\ Want > 0 /\ (peer = "closed" \/ RcvTimeout) /\ UNCHANGED vars

\* A read that ends early: at the end of the stream, or at the timeout, with
\* a part of the bytes in the buffer.
ReadFails ==
  /\ Want > 0
  /\ \/ peer = "closed" /\ Fail(-2)
     \/ (peer = "closed" \/ RcvTimeout) /\ Fail(-3)
  /\ \E m \in 0 .. (Want - 1) :
       /\ m <= rest
       /\ rest' = rest - m
       /\ key_blob' = IF pc = "readKeys" THEN Filled(m) ELSE key_blob
       /\ vals' = IF pc = "readVals" /\ m > vals.written THEN [vals EXCEPT !.written = m] ELSE vals
  /\ UNCHANGED <<ans, buf, peer, keys, chk_n_vals, outs>>

\* The server's process ends (external).
ServerEnds == /\ peer = "open" /\ pc # "back" /\ peer' = "closed"
              /\ UNCHANGED <<pc, ans, buf, rest, keys, key_blob, chk_n_vals, vals, outs, status>>

Finished == pc = "back" /\ UNCHANGED vars

Step == Start \/ SendHdr \/ SendParam \/ ReadHdr \/ ReadHead \/ ReadKeys \/ ReadTag \/ ReadVals \/ ReadFails

Next == Step \/ ServerEnds \/ Finished

Spec == Init /\ [][Next]_vars

FairSpec == Spec /\ WF_vars(Step)

-----------------------------------------------------------------------------
TypeOK ==
  /\ pc \in {"start", "sendHdr", "sendParam", "readHdr", "readHead", "readKeys",
             "readTag", "readVals", "back"}
  /\ ans \in Answers /\ buf \in Buffers /\ peer \in {"open", "closed"}
  /\ rest \in Nat /\ chk_n_vals \in Nat
  /\ keys \in Seq(KeyBytes) /\ key_blob \in Seq(KeyBytes)
  /\ vals \in [from : Nat, written : Nat]
  /\ outs \in [n_vals : Nat \cup {-1}, n_key_blob : Nat \cup {-1}]
  /\ status \in {0, -1, -2, -3}

Succeeded == pc = "back" /\ status = 0

\* Whatever the answer, a vector or not, whole or cut: the keys stay inside
\* key_blob and leave a zero at its end ("we error out if we do"), and the
\* values stay inside vals when sz_vals counts its elements, as the parameter's
\* comment has it; the two uses of sz_vals, bytes and elements, both do.
NoOverrun ==
  /\ pc # "start" /\ key_blob # <<>> =>
       /\ Len(key_blob) = buf.szKeys
       /\ key_blob[buf.szKeys] = "0"
  /\ buf.szVals = buf.doubles => vals.written <= 8 * buf.doubles

\* A named vector of integers or doubles without other attributes: a call that
\* returns 0 has read the whole answer, so that the next call of the connection
\* finds its own (of integers only an empty vector gets that far).  Of what
\* other attributes leave behind nothing is said.
WholeAnswer == Succeeded /\ ans.kind = "list" /\ ans.extra = 0 /\ ans.tag = TagLen /\ ans.elem <= 8
                 => rest = 0

\* What the function is for ("We assume that there exists a named vector in
\* R"): doubles.
NamedDoubles(a) == a.kind = "list" /\ a.tag = TagLen /\ a.extra = 0 /\ a.elem = 8

\* It gets keys and values, each as R has them, or fails and sets none of its
\* outputs.
KeysAndValues ==
  NamedDoubles(ans) /\ pc = "back" =>
    \/ /\ status = 0
       /\ outs.n_vals = ans.n /\ vals.from = DataStart(ans)
       /\ outs.n_key_blob = Len(ans.keys) /\ IsPrefix(ans.keys, key_blob)
    \/ status < 0 /\ outs = NotSet

\* The call comes back, also from an answer shorter than what it reads.
Returns == <>(pc = "back")
=============================================================================
