------------------------------ MODULE Accessors ------------------------------
(***************************************************************************)
(* The small functions over exec_str: get_bool and set_bool, exists1,       *)
(* exists2 and is_vector, get_vec_len, ncols_df and nrows_df, chk_R_class.   *)
(* Each sends R one expression, has exec_str test the type of the answer,    *)
(* and decodes the bytes that come back.                                     *)
(*                                                                          *)
(* exec_str is taken at the level of whole answers; Rcli has its bytes.  The *)
(* application gives up a connection when it sees a call fail, which it      *)
(* cannot when the function hides the failure, as chk_R_class does.          *)
(***************************************************************************)
EXTENDS Integers, SequencesExt, FiniteSetsExt

CONSTANTS
  Names,       \* the variables asked about
  NoName,      \* a null name
  Objects,     \* what R may hold under a name
  Absent,      \* nothing under that name
  Classes,     \* the classes chk_R_class is asked about
  MaxCalls,    \* bound: calls in a behaviour
  RcvTimeout   \* the socket has a receive timeout

\* cls is R's class(); len its length(); nrow its nrow(), NoRows for NULL; bits
\* the elements of a logical: 0, 1 and NA, which Rserve sends as 2.
NA == 2
NoRows == -1
Object == [cls : Seq(Classes), len : Nat, nrow : Nat \cup {NoRows}, bits : Seq({0, 1, NA})]

BoolFns  == {"get_bool", "exists1", "exists2", "is_vector"}
CountFns == {"ncols_df", "nrows_df"}
Fns == BoolFns \cup CountFns \cup {"set_bool", "get_vec_len", "chk_R_class"}

\* x is the value set_bool is given, class the class asked about.
Calls == [fn : BoolFns \cup CountFns \cup {"get_vec_len"}, name : Names, x : {0}, class : {NoName}]
    \cup [fn : {"set_bool"}, name : Names, x : {0, 1}, class : {NoName}]
    \cup [fn : {"chk_R_class"}, name : Names, x : {0}, class : Classes]
    \cup [fn : {"get_bool", "exists1", "set_bool", "get_vec_len", "chk_R_class"}, name : {NoName},
          x : {0}, class : {NoName}]

ASSUME AccessorsAssumption ==
  /\ Objects \subseteq Object /\ Absent \notin Objects /\ NoName \notin Names \cup Classes
  /\ \A o \in Objects : o.cls # <<>> /\ (o.bits # <<>> => Len(o.bits) = o.len)
  /\ MaxCalls \in Nat /\ RcvTimeout \in BOOLEAN

VARIABLES
  pc,       \* "idle", "wait" (in exec_str), "killed"
  call, n,  \* the call in progress or made last; how many were made
  ret,      \* its status and its result
  ws,       \* the workspace
  conn,     \* "open", "gone" (the server has ended), "closed"
  line,     \* answers the client has not begun to read
  skew,     \* the client is not where an answer starts
  hidden    \* chk_R_class has failed on this connection, and said false

vars == <<pc, call, n, ret, ws, conn, line, skew, hidden>>

-----------------------------------------------------------------------------
(* What R answers (external): the type and the data behind it.               *)

Is(xt, data) == [xt |-> xt, data |-> data]
Refused == Is("ERR", <<>>)

\* A logical: the count in four bytes, a byte for each element, padded to a
\* multiple of four with 255.
BoolData(bits) ==
  <<Len(bits), 0, 0, 0>> \o bits \o [j \in 1 .. ((-Len(bits)) % 4) |-> 255]

Bit(b) == IF b THEN 1 ELSE 0

Plain(o) == IF o.cls = <<"logical">> THEN Is("BOOL", BoolData(o.bits)) ELSE Is("OTHER", <<0>>)

\* is.vector("name") asks about a string, which is one.
Evaluate(c) ==
  LET o == ws[c.name]
  IN  CASE c.fn \in {"exists1", "exists2"} -> Is("BOOL", BoolData(<<Bit(o # Absent)>>))
        [] c.fn = "is_vector" -> Is("BOOL", BoolData(<<1>>))
        [] c.fn = "set_bool"  -> Is("BOOL", BoolData(<<c.x>>))
        [] OTHER ->
             IF o = Absent THEN Refused
             ELSE CASE c.fn = "get_bool" -> Plain(o)
                    [] c.fn \in {"get_vec_len", "ncols_df"} -> Is("INT", <<o.len>>)
                    [] c.fn = "nrows_df" -> IF o.nrow = NoRows THEN Is("NULL", <<>>)
                                            ELSE Is("INT", <<o.nrow>>)
                    [] c.fn = "chk_R_class" -> Is("STR", o.cls)

Logical(b) == [cls |-> <<"logical">>, len |-> 1, nrow |-> NoRows, bits |-> <<b>>]

-----------------------------------------------------------------------------
(* What each function makes of exec_str's outcome: e.status, and in e.out     *)
(* the answer, or NoOutput where *ptr_output is NULL.                         *)

NoOutput == Is("none", <<>>)
NotSet  == -2       \* the caller's variable is not assigned
NoCount == -1       \* 0xFFFFFFFF of ncols_df and nrows_df

Result(status, v) == [status |-> status, v |-> v]

ExpectedXt == [f \in Fns |-> CASE f \in BoolFns -> "BOOL"
                               [] f = "set_bool" -> "any"
                               [] f = "chk_R_class" -> "STR"
                               [] OTHER -> "INT"]

\* Mutant: the count of the elements is not tested.
OneLogicalUncounted(e) == IF e.out = NoOutput \/ Len(e.out.data) # 8
                          THEN Result(-1, NotSet) ELSE Result(e.status, e.out.data[5] % 2)

\* Mutant: the whole byte counts.
OneLogicalByte(e) == IF e.out = NoOutput \/ Len(e.out.data) # 8 \/ e.out.data[1] # 1
                     THEN Result(-1, NotSet) ELSE Result(e.status, e.out.data[5])

\* get_bool and exists1: a single logical, of which the lowest bit counts.
OneLogical(e) == IF e.out = NoOutput \/ Len(e.out.data) # 8 \/ e.out.data[1] # 1
                 THEN Result(-1, NotSet) ELSE Result(e.status, e.out.data[5] % 2)

\* exists2 and is_vector: the fifth byte, whatever the length; behind the end
\* of the buffer any byte.
FifthByte(e) ==
  IF e.out = NoOutput \/ Len(e.out.data) = 0 THEN {Result(-1, NotSet)}
  ELSE {Result(e.status, Bit(b # 0)) : b \in IF Len(e.out.data) >= 5 THEN {e.out.data[5]} ELSE {0, 1}}

SetBool(e) == Result(e.status, NotSet)

\* The function of get_vec.c: exec_str's own status, and a count or none.
GetVecLen(e) == IF e.status # 0 THEN Result(e.status, NotSet)
                ELSE IF e.out = NoOutput \/ e.out.data = <<>> THEN Result(-1, NotSet)
                ELSE Result(0, e.out.data[1])

\* Mutant: a failure leaves the count at 0.
NDfZero(e) == IF e.status # 0 \/ e.out = NoOutput \/ e.out.data = <<>> \/ e.out.data[1] < 0
              THEN Result(0, 0) ELSE Result(0, e.out.data[1])

NDf(e) == IF e.status # 0 \/ e.out = NoOutput \/ e.out.data = <<>> \/ e.out.data[1] < 0
          THEN Result(0, NoCount) ELSE Result(0, e.out.data[1])

\* The first of R's classes; false is also what a failure returns.
ChkRClass(c, e) ==
  Result(0, Bit(e.status = 0 /\ e.out # NoOutput /\ e.out.data # <<>> /\ Head(e.out.data) = c.class))

\* The results a call may have.
Decode(c, e) == CASE c.fn \in {"get_bool", "exists1"} -> {OneLogical(e)}
                  [] c.fn \in {"exists2", "is_vector"} -> FifthByte(e)
                  [] c.fn = "set_bool" -> {SetBool(e)}
                  [] c.fn = "get_vec_len" -> {GetVecLen(e)}
                  [] c.fn \in CountFns -> {NDf(e)}
                  [] c.fn = "chk_R_class" -> {ChkRClass(c, e)}

\* What the application can see of a failure.
Seen(c, r) == CASE c.fn \in CountFns -> r.v = NoCount
                [] c.fn = "chk_R_class" -> FALSE
                [] OTHER -> r.status < 0

\* Every function frees exec_str's output and returns.  An application that
\* sees a failure closes the connection.
Back(e) ==
  \E r \in Decode(call, e) :
    /\ pc' = "idle" /\ ret' = r
    /\ IF Seen(call, r) THEN conn' = "closed" /\ UNCHANGED hidden
       ELSE UNCHANGED conn /\ hidden' = (hidden \/ (call.fn = "chk_R_class" /\ e.status < 0))
    /\ UNCHANGED <<call, n, ws>>

Failed(status) == [status |-> status, out |-> NoOutput]

-----------------------------------------------------------------------------
Init ==
  /\ pc = "idle" /\ call = (CHOOSE c \in Calls : TRUE) /\ n = 0 /\ ret = Result(0, NotSet)
  /\ ws \in [Names -> Objects \cup {Absent}]
  /\ conn = "open" /\ line = <<>> /\ skew = FALSE /\ hidden = FALSE

MayCall(c) == pc = "idle" /\ conn # "closed" /\ n < MaxCalls /\ call' = c /\ n' = n + 1

\* The request is sent.  R answers the requests of a connection in order and
\* nobody else uses its workspace: the answer is settled now, whenever it comes.
Ask(c) ==
  /\ MayCall(c) /\ c.name # NoName /\ pc' = "wait"
  /\ IF conn = "gone" THEN UNCHANGED <<ws, line>>
     ELSE \/ line' = Append(line, Refused) /\ UNCHANGED ws
          \/ /\ line' = Append(line, Evaluate(c))
             /\ ws' = IF c.fn = "set_bool" THEN [ws EXCEPT ![c.name] = Logical(c.x)] ELSE ws
  /\ UNCHANGED <<ret, conn, skew, hidden>>

\* The functions that take the length of the name without a look at it.
Unchecked == {"set_bool", "get_vec_len"}

\* A null name sends nothing: an error, false, or strlen(NULL).
Reject(c) ==
  /\ MayCall(c) /\ c.name = NoName
  /\ IF c.fn \in Unchecked THEN pc' = "killed" /\ UNCHANGED ret
     ELSE /\ UNCHANGED pc
          /\ ret' = IF c.fn = "chk_R_class" THEN Result(0, 0) ELSE Result(-1, NotSet)
  /\ UNCHANGED <<ws, conn, line, skew, hidden>>

\* Mutant: the type of the answer is not tested.
TypedAny(a) == a.xt # "ERR"
Typed(a) == a.xt # "ERR" /\ ExpectedXt[call.fn] \in {"any", a.xt}

\* exec_str takes the next answer.  An error has been read whole; of an answer
\* of another type the data stays behind, if it has any.  What the server has
\* sent can be read after it has ended.
TakeAnswer ==
  /\ pc = "wait" /\ ~skew /\ line # <<>>
  /\ LET a == Head(line)
     IN  IF Typed(a) THEN Back([status |-> 0, out |-> a]) /\ UNCHANGED skew
         ELSE Back(Failed(-1)) /\ skew' = (a.data # <<>>)
  /\ line' = Tail(line)

\* Bytes that start no answer: refused, or taken for one of the right type.
TakeBytes ==
  /\ pc = "wait" /\ conn = "open" /\ skew
  /\ \/ Back(Failed(-1))
     \/ \E c \in Calls :
          /\ c.name # NoName /\ Typed(Evaluate(c)) /\ Back([status |-> 0, out |-> Evaluate(c)])
  /\ UNCHANGED <<line, skew>>

\* The timeout, before the answer or in the middle of it.
TimesOut ==
  /\ pc = "wait" /\ conn = "open" /\ RcvTimeout
  /\ skew' \in {skew, TRUE}
  /\ Back(Failed(-3))
  /\ UNCHANGED line

\* The connection is gone: a send or a read fails, or SIGPIPE ends the process.
Gone ==
  /\ pc = "wait" /\ conn = "gone"
  /\ \/ \E s \in {-1, -2, -3} : Back(Failed(s))
     \/ pc' = "killed" /\ UNCHANGED <<call, n, ret, ws, conn, hidden>>
  /\ UNCHANGED <<line, skew>>

\* The server's process ends (external).
ServerEnds == /\ conn = "open" /\ conn' = "gone"
              /\ UNCHANGED <<pc, call, n, ret, ws, line, skew, hidden>>

\* A new connection has a workspace of its own.
Reconnect ==
  /\ pc = "idle" /\ conn = "closed" /\ conn' = "open"
  /\ ws' \in [Names -> Objects \cup {Absent}]
  /\ line' = <<>> /\ skew' = FALSE /\ hidden' = FALSE
  /\ UNCHANGED <<pc, call, n, ret>>

Finished == (pc = "killed" \/ (pc = "idle" /\ n = MaxCalls)) /\ UNCHANGED vars

Next == \/ \E c \in Calls : Ask(c) \/ Reject(c)
        \/ TakeAnswer \/ TakeBytes \/ TimesOut \/ Gone
        \/ ServerEnds \/ Reconnect \/ Finished

Spec == Init /\ [][Next]_vars

-----------------------------------------------------------------------------
TypeOK ==
  /\ pc \in {"idle", "wait", "killed"} /\ call \in Calls /\ n \in 0 .. MaxCalls
  /\ ret.status \in {0, -1, -2, -3} /\ ret.v \in Nat \cup {NotSet, NoCount}
  /\ call.fn \in BoolFns => ret.v \in {0, 1, NotSet} \/ pc # "idle"
  /\ ws \in [Names -> Objects \cup {Absent} \cup {Logical(b) : b \in {0, 1}}]
  /\ conn \in {"open", "gone", "closed"}
  /\ \A j \in DOMAIN line : line[j].xt \in {"BOOL", "INT", "STR", "NULL", "OTHER", "ERR"}
  /\ skew \in BOOLEAN /\ hidden \in BOOLEAN

\* Between calls nothing is owed and nothing is left unread, as long as no
\* chk_R_class has failed: every other failure can be told from a result, so
\* that the application leaves the connection, and set_bool's answer is read.
InStep == pc = "idle" /\ conn = "open" /\ ~hidden => line = <<>> /\ ~skew

\* What a call that gives an answer has to say, o being what R holds.
Truth(c, o, v) ==
  CASE c.fn = "get_bool" -> o # Absent /\ o.len = 1 /\ Len(o.bits) = 1 /\ v = Bit(o.bits[1] = 1)
    [] c.fn \in {"exists1", "exists2"} -> v = Bit(o # Absent)
    [] c.fn = "set_bool"    -> o = Logical(c.x)
    [] c.fn \in {"get_vec_len", "ncols_df"} -> o # Absent /\ v = o.len
    [] c.fn = "nrows_df"    -> o # Absent /\ v = o.nrow /\ v >= 0
    [] c.fn = "chk_R_class" -> /\ v = 1 => o # Absent /\ Contains(o.cls, c.class)
                               /\ v = 0 => o # Absent /\ Head(o.cls) # c.class

\* An accessor whose result is no failure answers its own call: exists1 and
\* exists2 tell whether R holds anything under the name at that moment, the
\* counts are the object's, TRUE and FALSE of get_bool are the single logical's,
\* a class that chk_R_class confirms is one of the object's and one it denies
\* is not its first, whatever calls, timeouts and reconnects went before.
\* Three things are not claimed.  is_vector is left out: it asks R about the
\* text of the name and says TRUE of whatever the name stands for.  get_bool
\* says FALSE of an NA.  And nothing is said behind a failure that chk_R_class
\* has hidden on the connection.
TellsTruth ==
  [][pc = "wait" /\ pc' = "idle" /\ ~hidden' /\ ~Seen(call, ret') /\ call.fn # "is_vector"
       => Truth(call, ws[call.name], ret'.v)]_vars
=============================================================================
