---------------------------- MODULE AccessorsProofs ----------------------------
(***************************************************************************)
(* Theorems about the accessors, for any objects that R may hold, any names *)
(* and any number of calls.                                                 *)
(***************************************************************************)
EXTENDS Accessors, SequenceTheorems, TLAPS

Elements == Seq({0, 1, NA})
Held     == Objects \cup {Absent} \cup {Logical(b) : b \in {0, 1}}

\* Every answer that R gives to one of the expressions.
Answers == {Refused, Is("OTHER", <<0>>), Is("NULL", <<>>)}
      \cup {Is("BOOL", BoolData(bits)) : bits \in Elements}
      \cup {Is("INT", <<v>>) : v \in Nat}
      \cup {Is("STR", cls) : cls \in Seq(Classes \cup {"logical"})}

ResultOK(c, r) ==
  /\ r.status \in {0, -1, -2, -3} /\ r.v \in Nat \cup {NotSet, NoCount}
  /\ c.fn \in BoolFns => r.v \in {0, 1, NotSet}

Types ==
  /\ pc \in {"idle", "wait", "killed"} /\ call \in Calls /\ n \in 0 .. MaxCalls
  /\ ret.status \in {0, -1, -2, -3} /\ ret.v \in Nat \cup {NotSet, NoCount}
  /\ call.fn \in BoolFns => ret.v \in {0, 1, NotSet} \/ pc # "idle"
  /\ ws \in [Names -> Held]
  /\ conn \in {"open", "gone", "closed"} /\ line \in Seq(Answers)
  /\ skew \in BOOLEAN /\ hidden \in BOOLEAN

\* While no failure is hidden, what the client waits for is the answer to its
\* own call, and R still holds what that answer tells of.
Awaited ==
  \/ line = <<>> /\ conn = "gone"
  \/ line = <<Refused>>
  \/ /\ line = <<Evaluate(call)>>
     /\ call.fn = "set_bool" => ws[call.name] = Logical(call.x)

Waits == pc = "wait" => /\ conn # "closed" /\ call.name \in Names
                        /\ ~hidden => ~skew /\ Awaited
Rests == pc = "idle" /\ conn # "closed" /\ ~hidden => line = <<>> /\ ~skew

IInv == Types /\ Waits /\ Rests

-----------------------------------------------------------------------------
(* What R holds and answers.                                                *)

LEMMA Padding == ASSUME NEW m \in Nat
                 PROVE  LET pad == [j \in 1 .. m |-> 255] IN pad \in Seq(Int) /\ Len(pad) = m
<1> DEFINE pad == [j \in 1 .. m |-> 255]
<1>1. pad \in Seq(Int)
  <2>1. pad \in [1 .. m -> Int]
    OBVIOUS
  <2> QED BY <2>1, SeqDef
<1>2. DOMAIN pad = 1 .. m
  OBVIOUS
<1> HIDE DEF pad
<1>3. Len(pad) = m
  BY <1>1, <1>2
<1> QED BY <1>1, <1>3 DEF pad

LEMMA Joined ==
  ASSUME NEW q \in Seq(Int), NEW t \in Seq(Int)
  PROVE  /\ q \o t \in Seq(Int) /\ Len(q \o t) = Len(q) + Len(t)
         /\ \A j \in 1 .. Len(q) + Len(t) :
              (q \o t)[j] = IF j <= Len(q) THEN q[j] ELSE t[j - Len(q)]
BY ConcatProperties

\* The data of a logical: eight bytes that begin with 1 are those of a single
\* one, whose value is the fifth.
LEMMA BoolDataFacts ==
  ASSUME NEW bits \in Elements
  PROVE  /\ BoolData(bits) \in Seq(Int) /\ Len(BoolData(bits)) \in Nat
         /\ BoolData(bits)[1] = Len(bits) /\ Len(BoolData(bits)) >= 4
         /\ Len(bits) > 0 => BoolData(bits)[5] = bits[1] /\ Len(BoolData(bits)) >= 5
         /\ Len(BoolData(bits)) >= 5 => Len(bits) > 0
<1> DEFINE m == (-Len(bits)) % 4
           pad == [j \in 1 .. m |-> 255]
           count == <<Len(bits), 0, 0, 0>>
<1>1. bits \in Seq(Int) /\ Len(bits) \in Nat
  BY DEF Elements, NA
<1>2. m \in 0 .. 3 /\ (Len(bits) = 0 => m = 0)
  BY <1>1
<1>3. pad \in Seq(Int) /\ Len(pad) = m
  BY <1>2, Padding
<1>4. count \in Seq(Int) /\ Len(count) = 4 /\ count[1] = Len(bits)
  BY <1>1
<1>5. BoolData(bits) = (count \o bits) \o pad
  BY DEF BoolData
<1> HIDE DEF m, pad, count
<1>6. /\ count \o bits \in Seq(Int) /\ Len(count \o bits) = 4 + Len(bits)
      /\ (count \o bits)[1] = Len(bits)
      /\ Len(bits) > 0 => (count \o bits)[5] = bits[1]
  <2>1. /\ count \o bits \in Seq(Int) /\ Len(count \o bits) = 4 + Len(bits)
        /\ \A j \in 1 .. 4 + Len(bits) :
             (count \o bits)[j] = IF j <= 4 THEN count[j] ELSE bits[j - 4]
    <3>1. /\ count \o bits \in Seq(Int) /\ Len(count \o bits) = Len(count) + Len(bits)
          /\ \A j \in 1 .. Len(count) + Len(bits) :
               (count \o bits)[j] = IF j <= Len(count) THEN count[j] ELSE bits[j - Len(count)]
      BY <1>1, <1>4, Joined
    <3> QED BY <1>4, <3>1
  <2>2. 1 \in 1 .. 4 + Len(bits) /\ (count \o bits)[1] = count[1]
    <3>1. 1 \in 1 .. 4 + Len(bits) /\ 1 <= 4
      BY <1>1
    <3> QED BY <2>1, <3>1
  <2>3. ASSUME Len(bits) > 0 PROVE (count \o bits)[5] = bits[1]
    <3>1. 5 \in 1 .. 4 + Len(bits) /\ ~(5 <= 4) /\ 5 - 4 = 1
      BY <1>1, <2>3
    <3> QED BY <2>1, <3>1
  <2> QED BY <1>4, <2>1, <2>2, <2>3
<1>7. /\ BoolData(bits) \in Seq(Int) /\ Len(BoolData(bits)) = 4 + Len(bits) + m
      /\ \A j \in 1 .. 4 + Len(bits) : BoolData(bits)[j] = (count \o bits)[j]
  <2>1. /\ (count \o bits) \o pad \in Seq(Int)
        /\ Len((count \o bits) \o pad) = Len(count \o bits) + Len(pad)
        /\ \A j \in 1 .. Len(count \o bits) + Len(pad) :
             ((count \o bits) \o pad)[j] =
               IF j <= Len(count \o bits) THEN (count \o bits)[j] ELSE pad[j - Len(count \o bits)]
    BY <1>3, <1>6, Joined
  <2>2. /\ BoolData(bits) \in Seq(Int) /\ Len(BoolData(bits)) = 4 + Len(bits) + m
        /\ \A j \in 1 .. 4 + Len(bits) + m :
             BoolData(bits)[j] = IF j <= 4 + Len(bits) THEN (count \o bits)[j]
                                 ELSE pad[j - (4 + Len(bits))]
    BY <1>3, <1>5, <1>6, <2>1
  <2>3. \A j \in 1 .. 4 + Len(bits) : j \in 1 .. 4 + Len(bits) + m /\ j <= 4 + Len(bits)
    BY <1>1, <1>2
  <2> QED BY <2>2, <2>3
<1>8. 1 \in 1 .. 4 + Len(bits) /\ (Len(bits) > 0 => 5 \in 1 .. 4 + Len(bits))
  BY <1>1
<1>9. BoolData(bits)[1] = Len(bits) /\ (Len(bits) > 0 => BoolData(bits)[5] = bits[1])
  BY <1>6, <1>7, <1>8
<1>10. /\ Len(BoolData(bits)) \in Nat /\ Len(BoolData(bits)) >= 4
       /\ Len(bits) > 0 <=> Len(BoolData(bits)) >= 5
  BY <1>1, <1>2, <1>7
<1> QED BY <1>7, <1>9, <1>10

LEMMA SingleBit ==
  ASSUME NEW b \in {0, 1, NA}
  PROVE  /\ <<b>> \in Elements /\ Len(BoolData(<<b>>)) \in Nat /\ Len(BoolData(<<b>>)) >= 5
         /\ BoolData(<<b>>)[5] = b
<1>1. <<b>> \in Elements /\ Len(<<b>>) > 0 /\ <<b>>[1] = b
  BY DEF Elements
<1> DEFINE bits == <<b>>
<1> HIDE DEF bits
<1>2. bits \in Elements /\ Len(bits) > 0 /\ bits[1] = b
  BY <1>1 DEF bits
<1>3. Len(BoolData(bits)) \in Nat /\ Len(BoolData(bits)) >= 5 /\ BoolData(bits)[5] = b
  BY <1>2, BoolDataFacts
<1> QED BY <1>2, <1>3 DEF bits

LEMMA OnlyBit ==
  ASSUME NEW bits \in Elements, Len(BoolData(bits)) = 8, BoolData(bits)[1] = 1
  PROVE  Len(bits) = 1 /\ BoolData(bits)[5] = bits[1] /\ bits[1] \in {0, 1, NA}
<1>1. Len(bits) = 1
  BY BoolDataFacts
<1>2. bits[1] \in {0, 1, NA}
  BY <1>1 DEF Elements
<1> QED BY <1>1, <1>2, BoolDataFacts

LEMMA HeldObjects ==
  ASSUME NEW o \in Held, o # Absent
  PROVE  /\ o.cls \in Seq(Classes \cup {"logical"}) /\ o.cls # <<>>
         /\ o.len \in Nat /\ o.nrow \in Nat \cup {NoRows} /\ o.bits \in Elements
         /\ o.bits # <<>> => Len(o.bits) = o.len
<1>1. CASE o \in Objects
  <2>1. o \in Object
    BY <1>1, AccessorsAssumption
  <2>2. o.cls \in Seq(Classes \cup {"logical"})
    <3>1. o.cls \in Seq(Classes)
      BY <2>1 DEF Object
    <3> QED BY <3>1
  <2>3. o.len \in Nat /\ o.nrow \in Nat \cup {NoRows} /\ o.bits \in Elements
    BY <2>1 DEF Object, Elements
  <2> QED BY <1>1, <2>2, <2>3, AccessorsAssumption
<1>2. ASSUME NEW b \in {0, 1}, o = Logical(b)
      PROVE  /\ o.cls = <<"logical">> /\ o.len = 1 /\ o.nrow = NoRows
             /\ o.bits = <<b>> /\ o.bits \in Elements /\ Len(o.bits) = 1
  BY <1>2 DEF Logical, Elements
<1>3. <<"logical">> \in Seq(Classes \cup {"logical"}) /\ <<"logical">> # <<>>
  OBVIOUS
<1>4. CASE \E b \in {0, 1} : o = Logical(b)
  <2>1. /\ o.cls = <<"logical">> /\ o.len = 1 /\ o.nrow = NoRows
        /\ o.bits \in Elements /\ Len(o.bits) = 1
    BY <1>2, <1>4
  <2>2. o.cls \in Seq(Classes \cup {"logical"}) /\ o.cls # <<>>
    BY <1>3, <2>1
  <2> QED BY <2>1, <2>2
<1> QED BY <1>1, <1>4 DEF Held

LEMMA CallFacts ==
  ASSUME NEW c \in Calls
  PROVE  /\ c.fn \in Fns /\ c.name \in Names \cup {NoName}
         /\ c.fn = "set_bool" => c.x \in {0, 1}
BY DEF Calls, Fns, BoolFns, CountFns

\* What R makes of each expression.
LEMMA Evaluations ==
  ASSUME NEW c \in Calls
  PROVE  LET o == ws[c.name]
         IN  /\ c.fn \in {"exists1", "exists2"} => Evaluate(c) = Is("BOOL", BoolData(<<Bit(o # Absent)>>))
             /\ c.fn = "is_vector" => Evaluate(c) = Is("BOOL", BoolData(<<1>>))
             /\ c.fn = "set_bool" => Evaluate(c) = Is("BOOL", BoolData(<<c.x>>))
             /\ c.fn \in {"get_bool", "get_vec_len", "ncols_df", "nrows_df", "chk_R_class"} /\ o = Absent
                  => Evaluate(c) = Refused
             /\ o # Absent =>
                  /\ c.fn = "get_bool" => Evaluate(c) = Plain(o)
                  /\ c.fn \in {"get_vec_len", "ncols_df"} => Evaluate(c) = Is("INT", <<o.len>>)
                  /\ c.fn = "nrows_df" =>
                       Evaluate(c) = IF o.nrow = NoRows THEN Is("NULL", <<>>) ELSE Is("INT", <<o.nrow>>)
                  /\ c.fn = "chk_R_class" => Evaluate(c) = Is("STR", o.cls)
<1> DEFINE o == ws[c.name]
<1> HIDE DEF o
<1>1. Evaluate(c) = CASE c.fn \in {"exists1", "exists2"} -> Is("BOOL", BoolData(<<Bit(o # Absent)>>))
        [] c.fn = "is_vector" -> Is("BOOL", BoolData(<<1>>))
        [] c.fn = "set_bool"  -> Is("BOOL", BoolData(<<c.x>>))
        [] OTHER ->
             IF o = Absent THEN Refused
             ELSE CASE c.fn = "get_bool" -> Plain(o)
                    [] c.fn \in {"get_vec_len", "ncols_df"} -> Is("INT", <<o.len>>)
                    [] c.fn = "nrows_df" -> IF o.nrow = NoRows THEN Is("NULL", <<>>)
                                            ELSE Is("INT", <<o.nrow>>)
                    [] c.fn = "chk_R_class" -> Is("STR", o.cls)
  BY DEF Evaluate, o
<1>2. c.fn \in {"exists1", "exists2"} => Evaluate(c) = Is("BOOL", BoolData(<<Bit(o # Absent)>>))
  BY <1>1
<1>3. c.fn = "is_vector" => Evaluate(c) = Is("BOOL", BoolData(<<1>>))
  BY <1>1
<1>4. c.fn = "set_bool" => Evaluate(c) = Is("BOOL", BoolData(<<c.x>>))
  BY <1>1
<1>5. c.fn \in {"get_bool", "get_vec_len", "ncols_df", "nrows_df", "chk_R_class"} /\ o = Absent
        => Evaluate(c) = Refused
  BY <1>1
<1>6. o # Absent /\ c.fn = "get_bool" => Evaluate(c) = Plain(o)
  BY <1>1
<1>7. o # Absent /\ c.fn \in {"get_vec_len", "ncols_df"} => Evaluate(c) = Is("INT", <<o.len>>)
  BY <1>1
<1>8. o # Absent /\ c.fn = "nrows_df" =>
        Evaluate(c) = IF o.nrow = NoRows THEN Is("NULL", <<>>) ELSE Is("INT", <<o.nrow>>)
  BY <1>1
<1>9. o # Absent /\ c.fn = "chk_R_class" => Evaluate(c) = Is("STR", o.cls)
  BY <1>1
<1> QED BY <1>2, <1>3, <1>4, <1>5, <1>6, <1>7, <1>8, <1>9 DEF o

LEMMA EvaluateAnswers ==
  ASSUME ws \in [Names -> Held], NEW c \in Calls, c.name \in Names
  PROVE  Evaluate(c) \in Answers
<1> DEFINE o == ws[c.name]
<1> HIDE DEF o
<1>1. o \in Held /\ c.fn \in Fns /\ (c.fn = "set_bool" => c.x \in {0, 1})
  BY CallFacts DEF o
<1>2. ASSUME NEW bits \in Elements PROVE Is("BOOL", BoolData(bits)) \in Answers
  BY DEF Answers
<1>3. ASSUME NEW b \in {0, 1} PROVE Is("BOOL", BoolData(<<b>>)) \in Answers
  BY <1>2, SingleBit
<1>4. CASE c.fn \in {"exists1", "exists2", "is_vector", "set_bool"}
  BY <1>1, <1>3, <1>4, Evaluations DEF Bit, o
<1>5. CASE c.fn \in {"get_bool", "get_vec_len", "ncols_df", "nrows_df", "chk_R_class"} /\ o = Absent
  BY <1>5, Evaluations DEF Answers, o
<1>6. ASSUME o # Absent, c.fn = "get_bool" PROVE Evaluate(c) \in Answers
  <2>1. Evaluate(c) = Plain(o) /\ o.bits \in Elements
    BY <1>1, <1>6, Evaluations, HeldObjects DEF o
  <2> QED BY <1>2, <2>1 DEF Plain, Answers
<1>7. ASSUME o # Absent, c.fn \in {"get_vec_len", "ncols_df"} PROVE Evaluate(c) \in Answers
  <2>1. Evaluate(c) = Is("INT", <<o.len>>) /\ o.len \in Nat
    BY <1>1, <1>7, Evaluations, HeldObjects DEF o
  <2> QED BY <2>1 DEF Answers
<1>8. ASSUME o # Absent, c.fn = "nrows_df" PROVE Evaluate(c) \in Answers
  <2>1. /\ Evaluate(c) = IF o.nrow = NoRows THEN Is("NULL", <<>>) ELSE Is("INT", <<o.nrow>>)
        /\ o.nrow # NoRows => o.nrow \in Nat
    BY <1>1, <1>8, Evaluations, HeldObjects DEF o
  <2> QED BY <2>1 DEF Answers
<1>9. ASSUME o # Absent, c.fn = "chk_R_class" PROVE Evaluate(c) \in Answers
  <2>1. Evaluate(c) = Is("STR", o.cls) /\ o.cls \in Seq(Classes \cup {"logical"})
    BY <1>1, <1>9, Evaluations, HeldObjects DEF o
  <2> QED BY <2>1 DEF Answers
<1> QED BY <1>1, <1>4, <1>5, <1>6, <1>7, <1>8, <1>9 DEF Fns, BoolFns, CountFns

-----------------------------------------------------------------------------
(* What the functions make of it.                                           *)

LEMMA ExpectedTypes ==
  ASSUME NEW c \in Calls
  PROVE  /\ c.fn \in BoolFns => ExpectedXt[c.fn] = "BOOL"
         /\ c.fn = "set_bool" => ExpectedXt[c.fn] = "any"
         /\ c.fn = "chk_R_class" => ExpectedXt[c.fn] = "STR"
         /\ c.fn \in CountFns \cup {"get_vec_len"} => ExpectedXt[c.fn] = "INT"
BY CallFacts DEF ExpectedXt, Fns, BoolFns, CountFns

\* The answers of the types that the functions ask for.
LEMMA AnswerKinds ==
  ASSUME NEW a \in Answers
  PROVE  /\ a.xt \in {"BOOL", "INT", "STR", "NULL", "OTHER", "ERR"} /\ a # NoOutput
         /\ a.xt = "BOOL" => \E bits \in Elements : a.data = BoolData(bits)
         /\ a.xt = "INT" => \E v \in Nat : a.data = <<v>>
BY DEF Answers, Is, Refused, NoOutput

LEMMA Decodings ==
  ASSUME NEW c \in Calls, NEW e
  PROVE  /\ c.fn \in {"get_bool", "exists1"} => Decode(c, e) = {OneLogical(e)}
         /\ c.fn \in {"exists2", "is_vector"} => Decode(c, e) = FifthByte(e)
         /\ c.fn = "set_bool" => Decode(c, e) = {SetBool(e)}
         /\ c.fn = "get_vec_len" => Decode(c, e) = {GetVecLen(e)}
         /\ c.fn \in CountFns => Decode(c, e) = {NDf(e)}
         /\ c.fn = "chk_R_class" => Decode(c, e) = {ChkRClass(c, e)}
BY DEF Decode, CountFns

LEMMA Sight ==
  ASSUME NEW c \in Calls, NEW r
  PROVE  /\ c.fn \in CountFns => (Seen(c, r) <=> r.v = NoCount)
         /\ c.fn = "chk_R_class" => ~Seen(c, r)
         /\ c.fn \in BoolFns \cup {"set_bool", "get_vec_len"} => (Seen(c, r) <=> r.status < 0)
BY CallFacts DEF Seen, CountFns, BoolFns

\* A failure of exec_str can be told from the result, but for chk_R_class's.
LEMMA Failures ==
  ASSUME NEW c \in Calls, NEW st \in {-1, -2, -3}, NEW r \in Decode(c, Failed(st))
  PROVE  ResultOK(c, r) /\ (c.fn # "chk_R_class" => Seen(c, r))
<1> DEFINE e == Failed(st)
<1>1. e.status = st /\ e.out = NoOutput
  BY DEF Failed
<1> HIDE DEF e
<1>2. r \in Decode(c, e)
  BY DEF e
<1>3. CASE c.fn \in {"get_bool", "exists1"}
  <2>1. r = Result(-1, NotSet)
    BY <1>1, <1>2, <1>3, Decodings DEF OneLogical
  <2> QED BY <1>3, <2>1, Sight DEF Result, ResultOK, BoolFns
<1>4. CASE c.fn \in {"exists2", "is_vector"}
  <2>1. r = Result(-1, NotSet)
    BY <1>1, <1>2, <1>4, Decodings DEF FifthByte
  <2> QED BY <1>4, <2>1, Sight DEF Result, ResultOK, BoolFns
<1>5. CASE c.fn = "set_bool"
  <2>1. r = Result(st, NotSet)
    BY <1>1, <1>2, <1>5, Decodings DEF SetBool
  <2> QED BY <1>5, <2>1, Sight DEF Result, ResultOK, BoolFns
<1>6. CASE c.fn = "get_vec_len"
  <2>1. r = Result(st, NotSet)
    BY <1>1, <1>2, <1>6, Decodings DEF GetVecLen
  <2> QED BY <1>6, <2>1, Sight DEF Result, ResultOK, BoolFns
<1>7. CASE c.fn \in CountFns
  <2>1. r = Result(0, NoCount)
    BY <1>1, <1>2, <1>7, Decodings DEF NDf
  <2> QED BY <1>7, <2>1, Sight DEF Result, ResultOK, BoolFns, CountFns
<1>8. CASE c.fn = "chk_R_class"
  <2>1. r.status = 0 /\ r.v \in {0, 1}
    BY <1>2, <1>8, Decodings DEF ChkRClass, Result, Bit
  <2> QED BY <1>8, <2>1 DEF ResultOK, BoolFns
<1> QED BY <1>3, <1>4, <1>5, <1>6, <1>7, <1>8, CallFacts DEF Fns, BoolFns, CountFns

\* An answer of the type that was asked for has a result of its function's
\* range.
LEMMA Answered ==
  ASSUME call \in Calls, NEW a \in Answers, Typed(a),
         NEW r \in Decode(call, [status |-> 0, out |-> a])
  PROVE  ResultOK(call, r)
<1> DEFINE e == [status |-> 0, out |-> a]
<1>1. e.status = 0 /\ e.out = a /\ a # NoOutput
  BY AnswerKinds
<1> HIDE DEF e
<1>2. r \in Decode(call, e)
  BY DEF e
<1>3. CASE call.fn \in BoolFns
  <2>1. a.xt = "BOOL"
    BY <1>3, ExpectedTypes DEF Typed
  <2>2. PICK bits \in Elements : a.data = BoolData(bits)
    BY <2>1, AnswerKinds
  <2>3. CASE call.fn \in {"get_bool", "exists1"}
    <3>1. r = OneLogical(e)
      BY <1>2, <2>3, Decodings
    <3>2. CASE Len(a.data) = 8 /\ a.data[1] = 1
      <4>1. a.data[5] \in Int
        BY <2>2, <3>2, OnlyBit DEF NA
      <4>2. a.data[5] % 2 \in {0, 1}
        BY <4>1
      <4> QED BY <1>1, <3>1, <3>2, <4>2 DEF OneLogical, Result, ResultOK
    <3> QED BY <1>1, <3>1, <3>2 DEF OneLogical, Result, ResultOK
  <2>4. CASE call.fn \in {"exists2", "is_vector"}
    <3>1. r \in FifthByte(e)
      BY <1>2, <2>4, Decodings
    <3>2. r = Result(-1, NotSet) \/ r = Result(0, 0) \/ r = Result(0, 1)
      BY <1>1, <3>1 DEF FifthByte, Bit
    <3> QED BY <3>2 DEF Result, ResultOK
  <2> QED BY <1>3, <2>3, <2>4 DEF BoolFns
<1>4. CASE call.fn = "set_bool"
  BY <1>1, <1>2, <1>4, Decodings DEF SetBool, Result, ResultOK, BoolFns
<1>5. CASE call.fn \in CountFns \cup {"get_vec_len"}
  <2>1. a.xt = "INT"
    BY <1>5, ExpectedTypes DEF Typed
  <2>2. PICK v \in Nat : a.data = <<v>>
    BY <2>1, AnswerKinds
  <2>3. a.data # <<>> /\ a.data[1] \in Nat
    BY <2>2
  <2>4. CASE call.fn = "get_vec_len"
    BY <1>1, <1>2, <2>3, <2>4, Decodings DEF GetVecLen, Result, ResultOK, BoolFns
  <2>5. CASE call.fn \in CountFns
    BY <1>1, <1>2, <2>3, <2>5, Decodings DEF NDf, Result, ResultOK, BoolFns, CountFns
  <2> QED BY <1>5, <2>4, <2>5
<1>6. CASE call.fn = "chk_R_class"
  <2>1. r.status = 0 /\ r.v \in {0, 1}
    BY <1>2, <1>6, Decodings DEF ChkRClass, Result, Bit
  <2> QED BY <1>6, <2>1 DEF ResultOK, BoolFns
<1> QED BY <1>3, <1>4, <1>5, <1>6, CallFacts DEF Fns

\* ... and when it is the answer to this call, the truth.
LEMMA Truths ==
  ASSUME call \in Calls, call.name \in Names, ws \in [Names -> Held], Typed(Evaluate(call)),
         call.fn = "set_bool" => ws[call.name] = Logical(call.x), call.fn # "is_vector",
         NEW r \in Decode(call, [status |-> 0, out |-> Evaluate(call)]), ~Seen(call, r)
  PROVE  Truth(call, ws[call.name], r.v)
<1> DEFINE a == Evaluate(call)
           o == ws[call.name]
           e == [status |-> 0, out |-> a]
<1>1. a \in Answers /\ o \in Held /\ a # NoOutput
  BY EvaluateAnswers, AnswerKinds
<1>2. e.status = 0 /\ e.out = a /\ r \in Decode(call, e)
  OBVIOUS
<1>3. a # Refused /\ Typed(a)
  BY DEF Typed, Refused, Is
<1> HIDE DEF a, o, e
<1> SUFFICES Truth(call, o, r.v)
  BY DEF o
<1>4. CASE call.fn = "get_bool"
  <2>1. o # Absent /\ a = Plain(o)
    BY <1>3, <1>4, Evaluations DEF a, o
  <2>2. a.xt = "BOOL"
    BY <1>3, <1>4, ExpectedTypes DEF Typed, BoolFns
  <2>3. a.data = BoolData(o.bits) /\ o.bits \in Elements /\ (o.bits # <<>> => Len(o.bits) = o.len)
    BY <1>1, <2>1, <2>2, HeldObjects DEF Plain, Is
  <2>4. r = OneLogical(e) /\ r.status >= 0
    BY <1>2, <1>4, Decodings, Sight, Answered DEF OneLogical, Result, BoolFns
  <2>5. Len(a.data) = 8 /\ a.data[1] = 1 /\ r.v = a.data[5] % 2
    BY <1>1, <1>2, <2>4 DEF OneLogical, Result
  <2>6. Len(o.bits) = 1 /\ a.data[5] = o.bits[1] /\ o.bits[1] \in {0, 1, NA}
    BY <2>3, <2>5, OnlyBit
  <2>7. o.bits # <<>> /\ o.len = 1
    BY <2>3, <2>6
  <2>8. r.v = Bit(o.bits[1] = 1)
    BY <2>5, <2>6 DEF Bit, NA
  <2> QED BY <1>4, <2>1, <2>6, <2>7, <2>8 DEF Truth
<1>5. ASSUME NEW b \in {0, 1}, a = Is("BOOL", BoolData(<<b>>))
      PROVE  a.data[5] = b /\ Len(a.data) >= 5 /\ Len(a.data) # 0 /\ b % 2 = b
  <2>1. a.data = BoolData(<<b>>)
    BY <1>5 DEF Is
  <2>2. a.data[5] = b /\ Len(a.data) >= 5 /\ Len(a.data) \in Nat
    BY <2>1, SingleBit DEF NA
  <2> QED BY <2>2
<1>6. CASE call.fn = "exists1"
  <2>1. a = Is("BOOL", BoolData(<<Bit(o # Absent)>>)) /\ Bit(o # Absent) \in {0, 1}
    BY <1>6, Evaluations DEF a, o, Bit
  <2>2. r = OneLogical(e) /\ ~(r.status < 0)
    BY <1>2, <1>6, Decodings, Sight DEF BoolFns
  <2>3. r.v = a.data[5] % 2
    BY <1>1, <1>2, <2>2 DEF OneLogical, Result
  <2>4. r.v = Bit(o # Absent)
    BY <1>5, <2>1, <2>3
  <2> QED BY <1>6, <2>4 DEF Truth
<1>7. CASE call.fn = "exists2"
  <2>1. r \in FifthByte(e) /\ ~(r.status < 0)
    BY <1>2, <1>7, Decodings, Sight DEF BoolFns
  <2>2. a = Is("BOOL", BoolData(<<Bit(o # Absent)>>)) /\ Bit(o # Absent) \in {0, 1}
    BY <1>7, Evaluations DEF a, o, Bit
  <2>3. r = Result(0, Bit(a.data[5] # 0)) /\ a.data[5] = Bit(o # Absent)
    BY <1>1, <1>2, <1>5, <2>1, <2>2 DEF FifthByte
  <2>4. r.v = Bit(o # Absent)
    BY <2>3 DEF Result, Bit
  <2> QED BY <1>7, <2>4 DEF Truth
<1>8. CASE call.fn = "set_bool"
  BY <1>8 DEF Truth, o
<1>9. CASE call.fn \in {"get_vec_len", "ncols_df"}
  <2>1. o # Absent /\ a = Is("INT", <<o.len>>)
    BY <1>3, <1>9, Evaluations DEF a, o
  <2>2. a.data = <<o.len>> /\ o.len \in Nat
    BY <1>1, <2>1, HeldObjects DEF Is
  <2>3. a.data # <<>> /\ a.data[1] = o.len /\ ~(o.len < 0)
    BY <2>2
  <2>4. r.v = o.len
    BY <1>1, <1>2, <1>9, <2>3, Decodings DEF GetVecLen, NDf, Result, CountFns
  <2> QED BY <1>9, <2>1, <2>4 DEF Truth
<1>10. CASE call.fn = "nrows_df"
  <2>1. o # Absent /\ a = IF o.nrow = NoRows THEN Is("NULL", <<>>) ELSE Is("INT", <<o.nrow>>)
    BY <1>3, <1>10, Evaluations DEF a, o
  <2>2. a.xt = "INT"
    BY <1>3, <1>10, ExpectedTypes DEF Typed, CountFns
  <2>3. a.data = <<o.nrow>> /\ o.nrow \in Nat
    BY <1>1, <2>1, <2>2, HeldObjects DEF Is
  <2>4. a.data # <<>> /\ a.data[1] = o.nrow /\ ~(o.nrow < 0)
    BY <2>3
  <2>5. r.v = o.nrow
    BY <1>1, <1>2, <1>10, <2>4, Decodings DEF NDf, Result, CountFns
  <2> QED BY <1>10, <2>1, <2>3, <2>5 DEF Truth
<1>11. CASE call.fn = "chk_R_class"
  <2>1. o # Absent /\ a = Is("STR", o.cls)
    BY <1>3, <1>11, Evaluations DEF a, o
  <2>2. a.data = o.cls /\ o.cls \in Seq(Classes \cup {"logical"}) /\ o.cls # <<>>
    BY <1>1, <2>1, HeldObjects DEF Is
  <2>3. r.v = Bit(Head(o.cls) = call.class)
    <3>1. r = ChkRClass(call, e)
      BY <1>2, <1>11, Decodings
    <3> QED BY <1>1, <1>2, <2>2, <3>1 DEF ChkRClass, Result, Bit
  <2>4. Head(o.cls) = call.class => Contains(o.cls, call.class)
    <3>1. 1 \in 1 .. Len(o.cls) /\ o.cls[1] = Head(o.cls)
      BY <2>2
    <3> QED BY <3>1 DEF Contains
  <2> QED BY <1>11, <2>1, <2>3, <2>4 DEF Truth, Bit
<1> QED BY <1>4, <1>6, <1>7, <1>8, <1>9, <1>10, <1>11, CallFacts DEF Fns, BoolFns, CountFns

-----------------------------------------------------------------------------
(* The end of a call.                                                       *)

\* After a failure the connection is closed, or the failure is hidden.
LEMMA BackFailed ==
  ASSUME Types, NEW st \in {-1, -2, -3}, Back(Failed(st))
  PROVE  /\ pc' = "idle" /\ UNCHANGED <<call, n, ws>> /\ ResultOK(call, ret')
         /\ (conn' = "closed" \/ (conn' = conn /\ hidden')) /\ hidden' \in BOOLEAN
         /\ ~hidden' => Seen(call, ret')
<1>1. PICK r \in Decode(call, Failed(st)) :
        /\ pc' = "idle" /\ ret' = r /\ UNCHANGED <<call, n, ws>>
        /\ Seen(call, r) => conn' = "closed" /\ UNCHANGED hidden
        /\ ~Seen(call, r) => /\ UNCHANGED conn
                             /\ hidden' = (hidden \/ (call.fn = "chk_R_class" /\ Failed(st).status < 0))
  BY DEF Back
<1>2. ResultOK(call, r) /\ (call.fn # "chk_R_class" => Seen(call, r))
  BY Failures DEF Types
<1>3. Failed(st).status < 0 /\ hidden \in BOOLEAN
  BY DEF Failed, Types
<1>4. CASE Seen(call, r)
  BY <1>1, <1>2, <1>3, <1>4
<1>5. CASE ~Seen(call, r)
  <2>1. hidden' = TRUE /\ UNCHANGED conn
    BY <1>1, <1>2, <1>3, <1>5
  <2> QED BY <1>1, <1>2, <2>1
<1> QED BY <1>4, <1>5

LEMMA BackAnswered ==
  ASSUME Types, NEW a \in Answers, Typed(a), Back([status |-> 0, out |-> a])
  PROVE  /\ pc' = "idle" /\ UNCHANGED <<call, n, ws, hidden>> /\ ResultOK(call, ret')
         /\ conn' \in {conn, "closed"} /\ ret' \in Decode(call, [status |-> 0, out |-> a])
<1> DEFINE e == [status |-> 0, out |-> a]
<1>1. ~(e.status < 0)
  OBVIOUS
<1>2. PICK r \in Decode(call, e) :
        /\ pc' = "idle" /\ ret' = r /\ UNCHANGED <<call, n, ws>>
        /\ Seen(call, r) => conn' = "closed" /\ UNCHANGED hidden
        /\ ~Seen(call, r) => /\ UNCHANGED conn
                             /\ hidden' = (hidden \/ (call.fn = "chk_R_class" /\ e.status < 0))
  BY DEF Back
<1>3. ResultOK(call, r)
  BY Answered DEF Types
<1>4. hidden' = hidden /\ conn' \in {conn, "closed"}
  BY <1>1, <1>2 DEF Types
<1> QED BY <1>2, <1>3, <1>4

\* What the end of a call does to the types, whatever became of the answers.
LEMMA BackTypes ==
  ASSUME Types, pc' = "idle", UNCHANGED <<call, n, ws>>, ResultOK(call, ret'),
         conn' \in {"open", "gone", "closed"}, hidden' \in BOOLEAN,
         line' \in Seq(Answers), skew' \in BOOLEAN
  PROVE  Types'
BY DEF Types, ResultOK

-----------------------------------------------------------------------------
(* The invariant.                                                           *)

LEMMA InvInit == Init => IInv
<1> SUFFICES ASSUME Init PROVE IInv
  OBVIOUS
<1>1. [fn |-> "get_bool", name |-> NoName, x |-> 0, class |-> NoName] \in Calls
  BY DEF Calls
<1>2. call \in Calls
  BY <1>1 DEF Init
<1>3. ws \in [Names -> Held]
  BY DEF Init, Held
<1>4. /\ pc = "idle" /\ n = 0 /\ ret.status = 0 /\ ret.v = NotSet
      /\ conn = "open" /\ line = <<>> /\ skew = FALSE /\ hidden = FALSE
  BY DEF Init, Result
<1>5. Types
  <2>1. line \in Seq(Answers) /\ n \in 0 .. MaxCalls
    BY <1>4, AccessorsAssumption
  <2> QED BY <1>2, <1>3, <1>4, <2>1 DEF Types
<1> QED BY <1>4, <1>5 DEF IInv, Waits, Rests

LEMMA InvAsk == ASSUME IInv, NEW c \in Calls, Ask(c) PROVE IInv'
<1>1. /\ pc = "idle" /\ conn # "closed" /\ n < MaxCalls /\ call' = c /\ n' = n + 1
      /\ c.name # NoName /\ pc' = "wait" /\ UNCHANGED <<ret, conn, skew, hidden>>
  BY DEF Ask, MayCall
<1>2. Types /\ (~hidden => line = <<>> /\ ~skew) /\ c.name \in Names
  BY <1>1, CallFacts DEF IInv, Rests
<1>3. n' \in 0 .. MaxCalls
  BY <1>1, <1>2, AccessorsAssumption DEF Types
<1>4. /\ ws' \in [Names -> Held] /\ line' \in Seq(Answers)
      /\ ~hidden => Awaited'
  <2>1. CASE conn = "gone" /\ UNCHANGED <<ws, line>>
    BY <1>1, <1>2, <2>1 DEF Types, Awaited
  <2>2. CASE line' = Append(line, Refused) /\ UNCHANGED ws
    <3>1. Refused \in Answers
      BY DEF Answers
    <3>2. line' \in Seq(Answers)
      BY <1>2, <2>2, <3>1 DEF Types
    <3>3. line = <<>> => line' = <<Refused>>
      BY <2>2
    <3> QED BY <1>2, <2>2, <3>2, <3>3 DEF Types, Awaited
  <2>3. CASE /\ line' = Append(line, Evaluate(c))
             /\ ws' = IF c.fn = "set_bool" THEN [ws EXCEPT ![c.name] = Logical(c.x)] ELSE ws
    <3>1. Evaluate(c) \in Answers
      BY <1>2, EvaluateAnswers DEF Types
    <3>2. line' \in Seq(Answers)
      BY <1>2, <2>3, <3>1 DEF Types
    <3>3. c.fn = "set_bool" => Logical(c.x) \in Held
      BY CallFacts DEF Held
    <3>4. ws' \in [Names -> Held] /\ (c.fn = "set_bool" => ws'[c.name] = Logical(c.x))
      BY <1>2, <2>3, <3>3 DEF Types
    <3>5. Evaluate(c)' = Evaluate(c)
      <4>1. CASE c.fn = "set_bool"
        BY <4>1 DEF Evaluate
      <4>2. CASE c.fn # "set_bool"
        <5>1. ws' = ws
          BY <2>3, <4>2
        <5> QED BY <5>1 DEF Evaluate
      <4> QED BY <4>1, <4>2
    <3>6. line = <<>> => line' = <<Evaluate(c)>>
      BY <2>3
    <3>7. Evaluate(call)' = Evaluate(c)
      BY <1>1, <3>5
    <3> QED BY <1>1, <1>2, <3>2, <3>4, <3>6, <3>7 DEF Awaited
  <2> QED BY <2>1, <2>2, <2>3 DEF Ask
<1>5. Types'
  BY <1>1, <1>2, <1>3, <1>4 DEF Types
<1>6. Waits' /\ Rests'
  BY <1>1, <1>2, <1>4 DEF Waits, Rests
<1> QED BY <1>5, <1>6 DEF IInv

LEMMA InvReject == ASSUME IInv, NEW c \in Calls, Reject(c) PROVE IInv'
<1>1. /\ pc = "idle" /\ n < MaxCalls /\ call' = c /\ n' = n + 1
      /\ UNCHANGED <<ws, conn, line, skew, hidden>>
  BY DEF Reject, MayCall
<1>2. n' \in 0 .. MaxCalls
  BY <1>1, AccessorsAssumption DEF IInv, Types
<1>3. CASE pc' = "killed" /\ UNCHANGED ret
  BY <1>1, <1>2, <1>3 DEF IInv, Types, Waits, Rests
<1>4. CASE UNCHANGED pc /\ ret' = IF c.fn = "chk_R_class" THEN Result(0, 0) ELSE Result(-1, NotSet)
  <2>1. ret'.status \in {0, -1, -2, -3} /\ ret'.v \in {0, NotSet}
    BY <1>4 DEF Result
  <2>2. Types'
    BY <1>1, <1>2, <1>4, <2>1 DEF IInv, Types
  <2> QED BY <1>1, <1>4, <2>2 DEF IInv, Waits, Rests
<1> QED BY <1>3, <1>4 DEF Reject

\* What TakeAnswer takes and what it leaves.
LEMMA Taken ==
  ASSUME line \in Seq(Answers), line # <<>>
  PROVE  Head(line) \in Answers /\ Tail(line) \in Seq(Answers)
OBVIOUS

LEMMA InvTakeAnswer == ASSUME IInv, TakeAnswer PROVE IInv'
<1> USE DEF IInv
<1>1. pc = "wait" /\ ~skew /\ line # <<>> /\ line' = Tail(line) /\ conn # "closed"
  BY DEF TakeAnswer, Waits
<1>2. Types /\ Head(line) \in Answers /\ line' \in Seq(Answers)
  BY <1>1, Taken DEF Types
<1>3. ~hidden => line' = <<>>
  <2> SUFFICES ASSUME ~hidden PROVE line' = <<>>
    OBVIOUS
  <2>1. line = <<Refused>> \/ line = <<Evaluate(call)>>
    BY <1>1 DEF Waits, Awaited
  <2> QED BY <1>1, <2>1
<1>4. CASE Typed(Head(line))
  <2>1. Back([status |-> 0, out |-> Head(line)]) /\ UNCHANGED skew
    BY <1>4 DEF TakeAnswer
  <2>2. /\ pc' = "idle" /\ UNCHANGED <<call, n, ws, hidden>> /\ ResultOK(call, ret')
        /\ conn' \in {conn, "closed"}
    BY <1>2, <1>4, <2>1, BackAnswered
  <2>3. conn' \in {"open", "gone", "closed"} /\ hidden' \in BOOLEAN /\ skew' \in BOOLEAN
    BY <1>2, <2>1, <2>2 DEF Types
  <2>4. Types'
    BY <1>2, <2>2, <2>3, BackTypes
  <2> QED BY <1>1, <1>3, <2>1, <2>2, <2>4 DEF Waits, Rests
<1>5. CASE ~Typed(Head(line))
  <2>1. Back(Failed(-1)) /\ skew' = (Head(line).data # <<>>)
    BY <1>5 DEF TakeAnswer
  <2>2. /\ pc' = "idle" /\ UNCHANGED <<call, n, ws>> /\ ResultOK(call, ret')
        /\ (conn' = "closed" \/ (conn' = conn /\ hidden')) /\ hidden' \in BOOLEAN
    BY <1>2, <2>1, BackFailed
  <2>3. conn' \in {"open", "gone", "closed"} /\ skew' \in BOOLEAN
    BY <1>2, <2>1, <2>2 DEF Types
  <2>4. Types'
    BY <1>2, <2>2, <2>3, BackTypes
  <2> QED BY <2>2, <2>4 DEF Waits, Rests
<1> QED BY <1>4, <1>5

\* Bytes that are not where an answer starts come after a failure that is hidden.
LEMMA InvTakeBytes == ASSUME IInv, TakeBytes PROVE IInv' /\ hidden'
<1> USE DEF IInv
<1>1. pc = "wait" /\ hidden /\ UNCHANGED <<line, skew>> /\ Types
  BY DEF TakeBytes, Waits, Types
<1>2. /\ pc' = "idle" /\ UNCHANGED <<call, n, ws>> /\ ResultOK(call, ret') /\ hidden'
      /\ hidden' \in BOOLEAN /\ conn' \in {"open", "gone", "closed"}
  <2>1. CASE Back(Failed(-1))
    <3>1. hidden' = hidden \/ hidden' = TRUE
      BY <1>1, <2>1 DEF Back
    <3>2. /\ pc' = "idle" /\ UNCHANGED <<call, n, ws>> /\ ResultOK(call, ret')
          /\ (conn' = "closed" \/ (conn' = conn /\ hidden')) /\ hidden' \in BOOLEAN
      BY <1>1, <2>1, BackFailed
    <3> QED BY <1>1, <3>1, <3>2 DEF Types
  <2>2. ASSUME NEW c \in Calls, c.name # NoName, Typed(Evaluate(c)),
               Back([status |-> 0, out |-> Evaluate(c)])
        PROVE  /\ pc' = "idle" /\ UNCHANGED <<call, n, ws>> /\ ResultOK(call, ret') /\ hidden'
               /\ hidden' \in BOOLEAN /\ conn' \in {"open", "gone", "closed"}
    <3>1. Evaluate(c) \in Answers
      BY <1>1, <2>2, CallFacts, EvaluateAnswers DEF Types
    <3>2. /\ pc' = "idle" /\ UNCHANGED <<call, n, ws, hidden>> /\ ResultOK(call, ret')
          /\ conn' \in {conn, "closed"}
      BY <1>1, <2>2, <3>1, BackAnswered
    <3> QED BY <1>1, <3>2 DEF Types
  <2> QED BY <2>1, <2>2 DEF TakeBytes
<1>3. line' \in Seq(Answers) /\ skew' \in BOOLEAN
  BY <1>1 DEF Types
<1>4. Types'
  BY <1>1, <1>2, <1>3, BackTypes
<1> QED BY <1>2, <1>4 DEF Waits, Rests

LEMMA InvTimesOut == ASSUME IInv, TimesOut PROVE IInv'
<1> USE DEF IInv
<1>1. Types /\ line' = line /\ skew' \in BOOLEAN /\ Back(Failed(-3))
  BY DEF TimesOut, Types
<1>2. /\ pc' = "idle" /\ UNCHANGED <<call, n, ws>> /\ ResultOK(call, ret')
      /\ (conn' = "closed" \/ (conn' = conn /\ hidden')) /\ hidden' \in BOOLEAN
  BY <1>1, BackFailed
<1>3. conn' \in {"open", "gone", "closed"} /\ line' \in Seq(Answers)
  BY <1>1, <1>2 DEF Types
<1>4. Types'
  BY <1>1, <1>2, <1>3, BackTypes
<1> QED BY <1>2, <1>4 DEF Waits, Rests

LEMMA InvGone == ASSUME IInv, Gone PROVE IInv'
<1> USE DEF IInv
<1>1. Types /\ UNCHANGED <<line, skew>>
  BY DEF Gone
<1>2. ASSUME NEW st \in {-1, -2, -3}, Back(Failed(st)) PROVE IInv'
  <2>1. /\ pc' = "idle" /\ UNCHANGED <<call, n, ws>> /\ ResultOK(call, ret')
        /\ (conn' = "closed" \/ (conn' = conn /\ hidden')) /\ hidden' \in BOOLEAN
    BY <1>1, <1>2, BackFailed
  <2>2. conn' \in {"open", "gone", "closed"} /\ line' \in Seq(Answers) /\ skew' \in BOOLEAN
    BY <1>1, <2>1 DEF Types
  <2>3. Types'
    BY <1>1, <2>1, <2>2, BackTypes
  <2> QED BY <2>1, <2>3 DEF Waits, Rests
<1>3. ASSUME pc' = "killed", UNCHANGED <<call, n, ret, ws, conn, hidden>> PROVE IInv'
  BY <1>1, <1>3 DEF Types, Waits, Rests
<1> QED BY <1>2, <1>3 DEF Gone

LEMMA InvServerEnds == ASSUME IInv, ServerEnds PROVE IInv'
<1>1. /\ conn = "open" /\ conn' = "gone" /\ UNCHANGED <<pc, call, n, ret, ws, line, skew, hidden>>
  BY DEF ServerEnds
<1>2. Evaluate(call)' = Evaluate(call)
  BY <1>1 DEF Evaluate
<1> QED BY <1>1, <1>2 DEF IInv, Types, Waits, Rests, Awaited

LEMMA InvReconnect == ASSUME IInv, Reconnect PROVE IInv'
<1>1. /\ pc = "idle" /\ conn' = "open" /\ line' = <<>> /\ skew' = FALSE /\ hidden' = FALSE
      /\ UNCHANGED <<pc, call, n, ret>>
  BY DEF Reconnect
<1>2. ws' \in [Names -> Held]
  BY DEF Reconnect, Held
<1>3. line' \in Seq(Answers)
  BY <1>1
<1> QED BY <1>1, <1>2, <1>3 DEF IInv, Types, Waits, Rests

LEMMA InvStep == IInv /\ [Next]_vars => IInv'
<1> SUFFICES ASSUME IInv, [Next]_vars PROVE IInv'
  OBVIOUS
<1>1. CASE UNCHANGED vars
  <2>1. /\ UNCHANGED <<pc, call, n, ret, ws, conn, line, skew, hidden>>
        /\ Evaluate(call)' = Evaluate(call)
    BY <1>1 DEF vars, Evaluate
  <2> QED BY <2>1 DEF IInv, Types, Waits, Rests, Awaited
<1> QED BY <1>1, InvAsk, InvReject, InvTakeAnswer, InvTakeBytes, InvTimesOut, InvGone,
           InvServerEnds, InvReconnect DEF Next, Finished

LEMMA Invariant == Spec => []IInv
<1> QED BY InvInit, InvStep, PTL DEF Spec

-----------------------------------------------------------------------------
\* Every function gives a result of its range, a boolean or NotSet for the
\* boolean ones, whatever bytes it took for its answer.
THEOREM AccessorsTypes == Spec => []TypeOK
<1>1. IInv => TypeOK
  <2> SUFFICES ASSUME IInv PROVE TypeOK
    OBVIOUS
  <2>1. ASSUME NEW j \in DOMAIN line
        PROVE  line[j].xt \in {"BOOL", "INT", "STR", "NULL", "OTHER", "ERR"}
    <3>1. line[j] \in Answers
      BY DEF IInv, Types
    <3> QED BY <3>1, AnswerKinds
  <2> QED BY <2>1 DEF IInv, Types, TypeOK, Held
<1> QED BY <1>1, Invariant, PTL

\* Between two calls no answer is on its way and no byte of one unread, unless
\* chk_R_class has turned a failure into FALSE: every other function's failure
\* shows in its result, for any number of calls, timeouts and reconnects.
THEOREM StaysInStep == Spec => []InStep
<1>1. IInv => InStep
  BY DEF IInv, Rests, InStep
<1> QED BY <1>1, Invariant, PTL

\* What a function returns, when it is not a failure, is the answer to its own
\* call, not what an answer to an earlier one said: exists1 and exists2 tell
\* whether R holds the name, the counts are the object's, a boolean is its single
\* logical (NA read as FALSE) and a confirmed class one of its own.  is_vector,
\* which asks about the text of the name, is left out, and so is everything
\* behind a failure that chk_R_class has hidden.
THEOREM AccessorsTellTruth == Spec => TellsTruth
<1> DEFINE Told == /\ pc = "wait" /\ pc' = "idle" /\ ~hidden'
                  /\ ~Seen(call, ret') /\ call.fn # "is_vector"
                     => Truth(call, ws[call.name], ret'.v)
<1>1. IInv /\ [Next]_vars => [Told]_vars
  <2> SUFFICES ASSUME IInv, Next, pc = "wait", pc' = "idle", ~hidden', ~Seen(call, ret'),
                      call.fn # "is_vector"
               PROVE  Truth(call, ws[call.name], ret'.v)
    OBVIOUS
  <2>1. Types /\ call \in Calls /\ ws \in [Names -> Held] /\ call.name \in Names
    BY DEF IInv, Types, Waits
  <2>2. ASSUME NEW st \in {-1, -2, -3}, Back(Failed(st)) PROVE FALSE
    BY <2>1, <2>2, BackFailed
  <2>3. CASE TakeAnswer
    <3>1. Typed(Head(line)) /\ Back([status |-> 0, out |-> Head(line)])
      BY <2>2, <2>3 DEF TakeAnswer
    <3>2. line # <<>> /\ Head(line) \in Answers
      BY <2>1, <2>3, Taken DEF TakeAnswer, Types
    <3>3. ret' \in Decode(call, [status |-> 0, out |-> Head(line)]) /\ ~hidden
      BY <2>1, <3>1, <3>2, BackAnswered
    <3>4. Awaited
      BY <3>3 DEF IInv, Waits
    <3>5. line # <<Refused>>
      BY <3>1 DEF Typed, Refused, Is
    <3>6. /\ Head(line) = Evaluate(call)
          /\ call.fn = "set_bool" => ws[call.name] = Logical(call.x)
      BY <3>2, <3>4, <3>5 DEF Awaited
    <3>7. Typed(Evaluate(call)) /\ ret' \in Decode(call, [status |-> 0, out |-> Evaluate(call)])
      BY <3>1, <3>3, <3>6
    <3> QED BY <2>1, <3>6, <3>7, Truths
  <2>4. CASE TakeBytes
    BY <2>4, InvTakeBytes
  <2>5. CASE TimesOut
    BY <2>2, <2>5 DEF TimesOut
  <2>6. CASE Gone
    BY <2>2, <2>6 DEF Gone
  <2>7. ~(\E c \in Calls : Ask(c) \/ Reject(c)) /\ ~ServerEnds /\ ~Reconnect /\ ~Finished
    BY DEF Ask, Reject, MayCall, ServerEnds, Reconnect, Finished, vars
  <2> QED BY <2>3, <2>4, <2>5, <2>6, <2>7 DEF Next
<1> QED BY <1>1, Invariant, PTL DEF Spec, TellsTruth
=============================================================================
