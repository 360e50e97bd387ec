-------------------------------- MODULE Qap --------------------------------
(***************************************************************************)
(* Building and sending one request: mk_dt_string, mk_hdr and the layout    *)
(* of set_vec's parameters, with the widths of the C types and of the       *)
(* protocol's fields.                                                       *)
(*                                                                          *)
(* A string is its length; the packed strings of a character vector are a   *)
(* sequence of bytes of three kinds (part of a string, terminator, padding).*)
(* A word of the protocol is the 24-bit length and the type it carries.     *)
(***************************************************************************)
EXTENDS Integers, Sequences

CONSTANTS
  Requests,     \* what the application asks for: [qtype, name, n, width, strs]
  LenMod,       \* 2^24: the length field of a word
  WordMod,      \* 2^32: uint32_t
  SendMax       \* the most one send() takes (the kernel's MAX_RW_COUNT)

Qtypes   == {"cmd", "F8", "I4", "I1", "SC", "??"}   \* "cmd": no vector, exec_str and get_*
Width    == [F8 |-> 8, I4 |-> 4, I1 |-> 1]
XtOf     == [F8 |-> "DOUBLE", I4 |-> "INT", I1 |-> "BOOL", SC |-> "STR"]

\* name is strlen(name); strs are the lengths of the n strings of a "SC".
Request == [qtype : Qtypes, name : Nat, n : Nat, width : Nat, strs : Seq(Nat)]

ASSUME LimitsAssumption ==
  /\ LenMod \in Nat \ {0} /\ WordMod \in Nat \ {0} /\ SendMax \in Nat
  /\ LenMod <= WordMod /\ 2 * SendMax + 12 < WordMod

ASSUME RequestsAssumption ==
  /\ Requests \subseteq Request
  /\ \A r \in Requests : r.qtype = "SC" => Len(r.strs) = r.n

VARIABLES
  pc,           \* where the function stands
  req,          \* its arguments
  len_name,     \* mk_dt_string: the string with its terminator and padding
  cum_len,      \* set_vec: the bytes of data
  i, idx,       \* set_vec: the loops over the strings
  alt_data,     \* set_vec: the packed strings
  words,        \* the words written: the first parameter's and the second's
  announced,    \* ph.len
  sent,         \* bytes sent after the header
  status

vars == <<pc, req, len_name, cum_len, i, idx, alt_data, words, announced, sent, status>>

IsVec == req.qtype # "cmd"

\* A word: the length is shifted by 8 into 32 bits, so that 24 of it remain.
WordUncut(len, type) == [len |-> len, type |-> type]       \* mutant
Word(len, type) == [len |-> len % LenMod, type |-> type]

\* A count of elements has all of a word.
CountWord(n) == [len |-> n % WordMod, type |-> "COUNT"]

len_param1     == 4 + len_name
len_hdr_param2 == IF req.qtype = "I1" THEN 12 ELSE 8
\* int plus uint32_t is uint32_t arithmetic
len_param2     == (len_hdr_param2 + cum_len) % WordMod

Fail == pc' = "failed" /\ status' = -1

-----------------------------------------------------------------------------
Init == /\ pc = "start" /\ req \in Requests
        /\ len_name = 0 /\ cum_len = 0 /\ i = 0 /\ idx = 0 /\ alt_data = <<>>
        /\ words = <<>> /\ announced = 0 /\ sent = 0 /\ status = 0

\* Mutant: strlen without the terminator.
StartUnterminated ==
  /\ pc = "start"
  /\ IF \/ req.qtype = "??"
        \/ IsVec /\ (req.name = 0 \/ req.n = 0)
        \/ req.qtype = "SC" /\ req.width = 0
     THEN Fail /\ UNCHANGED len_name
     ELSE pc' = "pad" /\ len_name' = req.name /\ UNCHANGED status
  /\ UNCHANGED <<req, cum_len, i, idx, alt_data, words, announced, sent>>

\* The checks on entry, and mk_dt_string's strlen.
Start ==
  /\ pc = "start"
  /\ IF \/ req.qtype = "??"
        \/ IsVec /\ (req.name = 0 \/ req.n = 0)
        \/ req.qtype = "SC" /\ req.width = 0
     THEN Fail /\ UNCHANGED len_name
     ELSE pc' = "pad" /\ len_name' = req.name + 1 /\ UNCHANGED status
  /\ UNCHANGED <<req, cum_len, i, idx, alt_data, words, announced, sent>>

Padded(l) == ((l + 4) \div 8) * 8 = l

\* mk_dt_string's loop.
Pad == /\ pc = "pad" /\ ~Padded(len_name)
       /\ len_name' = len_name + 1
       /\ UNCHANGED <<pc, req, cum_len, i, idx, alt_data, words, announced, sent, status>>

\* mk_dt_string after its loop, with the check at its end.
FirstParam ==
  /\ pc = "pad" /\ Padded(len_name)
  /\ IF len_param1 % 4 # 0 THEN Fail
     ELSE pc' = (IF IsVec THEN "sizes" ELSE "header") /\ UNCHANGED status
  /\ words' = <<Word(len_name, "STRING")>>
  /\ UNCHANGED <<req, len_name, cum_len, i, idx, alt_data, announced, sent>>

\* Mutant: the width of the elements is left out.
SizesUnscaled ==
  /\ pc = "sizes"
  /\ IF req.qtype = "SC" THEN cum_len' = 0 /\ pc' = "lens"
     ELSE cum_len' = req.n % WordMod /\ pc' = "words"
  /\ UNCHANGED <<req, len_name, i, idx, alt_data, words, announced, sent, status>>

\* n*width in uint32_t; for strings the sum of what they take.
Sizes ==
  /\ pc = "sizes"
  /\ IF req.qtype = "SC" THEN cum_len' = 0 /\ pc' = "lens"
     ELSE cum_len' = (req.n * Width[req.qtype]) % WordMod /\ pc' = "words"
  /\ UNCHANGED <<req, len_name, i, idx, alt_data, words, announced, sent, status>>

\* Mutant: the terminators are not counted.
StrSpaceUnterminated(l) == l
StrSpace(l) == l + 1

\* A string that does not leave room for its terminator in width is an error.
AddLen ==
  /\ pc = "lens" /\ i < req.n
  /\ IF req.strs[i + 1] >= req.width THEN Fail /\ UNCHANGED <<i, cum_len>>
     ELSE i' = i + 1 /\ cum_len' = (cum_len + StrSpace(req.strs[i + 1])) % WordMod
          /\ UNCHANGED <<pc, status>>
  /\ UNCHANGED <<req, len_name, idx, alt_data, words, announced, sent>>

\* Up to a multiple of 8, in a zeroed buffer of that size.
Allocate ==
  /\ pc = "lens" /\ i = req.n
  /\ cum_len' = IF (cum_len \div 8) * 8 # cum_len
                 THEN ((cum_len \div 8 + 1) * 8) % WordMod ELSE cum_len
  /\ alt_data' = [j \in 1 .. cum_len' |-> "0"]
  /\ pc' = "copy" /\ i' = 0 /\ idx' = 0
  /\ UNCHANGED <<req, len_name, words, announced, sent, status>>

\* Mutant: i is not advanced.
CopyStringAgain ==
  /\ pc = "copy" /\ i < req.n
  /\ alt_data' = [j \in DOMAIN alt_data |->
                    IF j \in (idx + 1) .. (idx + req.strs[i + 1]) THEN "c" ELSE alt_data[j]]
  /\ UNCHANGED <<idx, i, pc, req, len_name, cum_len, words, announced, sent, status>>

CopyString ==
  /\ pc = "copy" /\ i < req.n
  /\ alt_data' = [j \in DOMAIN alt_data |->
                    IF j \in (idx + 1) .. (idx + req.strs[i + 1]) THEN "c" ELSE alt_data[j]]
  /\ idx' = idx + req.strs[i + 1] + 1 /\ i' = i + 1
  /\ UNCHANGED <<pc, req, len_name, cum_len, words, announced, sent, status>>

\* What is left of the buffer is filled with "X", not with zeros, which
\* would be empty strings.
PadX ==
  /\ pc = "copy" /\ i = req.n
  /\ alt_data' = [j \in DOMAIN alt_data |-> IF j > idx THEN "X" ELSE alt_data[j]]
  /\ pc' = "words"
  /\ UNCHANGED <<req, len_name, cum_len, i, idx, words, announced, sent, status>>

\* The DT_ and the XT_ word of the second parameter, and for booleans the count.
SecondParam ==
  /\ pc = "words"
  /\ words' = words \o << Word(len_param2, "SEXP"),
                          Word(IF req.qtype = "I1" THEN len_param2 ELSE cum_len, XtOf[req.qtype]) >>
                    \o (IF req.qtype = "I1" THEN <<CountWord(req.n)>> ELSE <<>>)
  /\ pc' = "header"
  /\ UNCHANGED <<req, len_name, cum_len, i, idx, alt_data, announced, sent, status>>

\* Mutant: the header announces the first parameter only.
PayloadLenFirst == len_param1
PayloadLen == len_param1 + (IF IsVec THEN len_param2 ELSE 0)

\* mk_hdr takes an int, and refuses a negative one.
Header ==
  /\ pc = "header"
  /\ IF PayloadLen % WordMod >= WordMod \div 2 THEN Fail /\ UNCHANGED announced
     ELSE pc' = "send1" /\ announced' = PayloadLen % WordMod /\ UNCHANGED status
  /\ UNCHANGED <<req, len_name, cum_len, i, idx, alt_data, words, sent>>

\* One send() of l bytes; it takes at most SendMax of them, and a short one
\* is an error.
SendBytes(l, next) ==
  /\ IF l <= SendMax THEN pc' = next /\ sent' = sent + l /\ UNCHANGED status
     ELSE Fail /\ sent' = sent + SendMax
  /\ UNCHANGED <<req, len_name, cum_len, i, idx, alt_data, words, announced>>

SendParam1 == pc = "send1" /\ SendBytes(len_param1, IF IsVec THEN "send2" ELSE "done")
SendParam2 == pc = "send2" /\ SendBytes(len_hdr_param2, "sendData")
SendData   == pc = "sendData" /\ SendBytes(cum_len, "done")

Finished == pc \in {"done", "failed"} /\ UNCHANGED vars

Next == \/ Start \/ Pad \/ FirstParam \/ Sizes \/ AddLen \/ Allocate \/ CopyString \/ PadX
        \/ SecondParam \/ Header \/ SendParam1 \/ SendParam2 \/ SendData \/ Finished

Spec == Init /\ [][Next]_vars

FairSpec == Spec /\ WF_vars(Next)

-----------------------------------------------------------------------------
TypeOK ==
  /\ pc \in {"start", "pad", "sizes", "lens", "copy", "words", "header",
             "send1", "send2", "sendData", "done", "failed"}
  /\ req \in Requests /\ status \in {0, -1}
  /\ {len_name, cum_len, i, idx, announced, sent} \subseteq Nat
  /\ alt_data \in Seq({"c", "0", "X"})
  /\ words \in Seq([len : 0 .. (LenMod - 1), type : {"STRING", "SEXP"} \cup {XtOf[q] : q \in DOMAIN XtOf}]
                    \cup [len : 0 .. (WordMod - 1), type : {"COUNT"}])

\* A request that went out whole is as long as its header says: the server
\* finds the next header where the client puts it.
AnnouncedIsSent == pc = "done" => sent = announced

\* The string of the first parameter has room for its terminator ("for nullc")
\* and less than 8 bytes of padding, and the parameter's length is divisible by
\* 4, as the protocol requires ("make sure len_param is divisible by 4"): so the
\* check at the end of mk_dt_string never fails, and strcpy stays inside param.
NamePadded ==
  pc \notin {"start", "failed"} =>
    /\ req.name < len_name /\ len_name <= req.name + 8
    /\ pc # "pad" \/ Padded(len_name) => len_param1 % 4 = 0

\* What the comment above the loop says of it: "extend len_name so that 4 +
\* len_name is divisible by 8".  The loop stops at the multiples of 8 of
\* len_name itself.
ParameterBy8 == pc \notin {"start", "pad", "failed"} => len_param1 % 8 = 0

\* Where the strings end when they lie behind one another, each with its
\* terminator.
EndsOf(strs) ==
  LET end[k \in 0 .. Len(strs)] == IF k = 0 THEN 0 ELSE end[k - 1] + strs[k] + 1 IN end

\* The protocol takes every zero byte for the end of a string, and what follows
\* the last one for padding.
Terminators == {j \in DOMAIN alt_data : alt_data[j] = "0"}

\* As long as the lengths fit in a uint32_t, R gets the strings the application
\* gave, empty ones included, and no more, and the copying stays inside the
\* buffer ("you don't pad with NUL, because there would be no way to
\* distinguish it from valid, empty strings").
StringsKept ==
  LET end == EndsOf(req.strs)
  IN  req.qtype = "SC" /\ end[req.n] <= WordMod - 8 =>
        /\ pc = "copy" => idx <= cum_len
        /\ pc \in {"words", "header", "send1", "send2", "sendData", "done"} =>
             /\ Len(alt_data) = cum_len
             /\ Terminators = {end[k] : k \in 1 .. req.n}

\* mk_dt_string's loop and the loops of set_vec end.
Ends == <>(pc \in {"done", "failed"})

\* R is told of, and sent, the n elements the application gave ("store this as
\* vector in R"), as long as their length fits the 24 bits of the word; beyond
\* that the word says less than was given, and no error is raised.  It is the
\* XT word that says how many numbers there are, and the count behind it how
\* many booleans.
VectorSaid ==
  pc = "done" /\ req.qtype \in {"F8", "I4", "I1"} /\ req.n * Width[req.qtype] < LenMod =>
    /\ IF req.qtype = "I1" THEN words[4].len = req.n
       ELSE words[3].len = req.n * Width[req.qtype]
    /\ sent = len_param1 + len_hdr_param2 + req.n * Width[req.qtype]
=============================================================================
