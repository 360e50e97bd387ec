-------------------------------- MODULE Rcli --------------------------------
(***************************************************************************)
(* One session of the C client with Rserve: an application that makes one  *)
(* blocking call at a time (exec_str, get_I4, get_F8, get_vec, set_vec) on *)
(* one connection, and the server at the other end.                        *)
(*                                                                         *)
(* The QAP1 protocol has no way to find the next message in the stream: a  *)
(* response is a 16-byte header followed by as many bytes as the header    *)
(* says, and the client takes the next 16 bytes it has not read yet for    *)
(* the answer to the call it is in.  The model therefore keeps the stream  *)
(* as positions (bytes produced, bytes consumed) and the responses as the  *)
(* stretches of it they occupy; what a read returns is exact when it       *)
(* starts where a field starts and arbitrary otherwise.                    *)
(***************************************************************************)
EXTENDS Integers, Sequences

CONSTANTS
  Names,         \* the R variables the application talks about
  NoName,        \* stands for any argument the functions reject (NULL, "", n = 0)
  Values,        \* the values stored in R: records [xt, n, size, tag] of a
                 \* type, a number of elements and a length in the response
  Absent,        \* what the workspace holds for a name that was never assigned
  NoVal,         \* "no value": of a call that does not assign, of a failed call
  Junk,          \* bytes that are no value of the server's
  Calls,         \* the calls the application may make: [fn, name, val, xt]
  MaxCalls,      \* bound: calls in a behaviour
  RcvTimeout,    \* rconnect was given rcv_timeout_sec > 0
  SndTimeout,    \* rconnect was given snd_timeout_sec > 0
  Segmented,     \* one read() may return part of what the server has sent
  Disciplined,   \* the application gives up a connection on which a call failed
  ErrTexts,      \* lengths of the text attached to an error response
  GarbageLens    \* lengths seen where no header starts

HdrLen   == 16                  \* sizeof(struct phdr)
SubLen   == 8                   \* the DT_ and XT_ words before the data
CountLen == 4                   \* XT_ARRAY_BOOL's element count

Width == [INT |-> 4, DOUBLE |-> 8, BOOL |-> 1, STR |-> 1]
Xts   == DOMAIN Width

VoidFns   == {"exec_void", "set_vec"}       \* the answer carries no value
ScalarFns == {"get_I4", "get_F8"}
RawFns    == ScalarFns \cup {"get_vec"}     \* call read() directly
Fns       == VoidFns \cup RawFns \cup {"exec_eval"}

Call == [fn : Fns, name : Names \cup {NoName},
         val : Values \cup {NoVal}, xt : Xts \cup {"any"}]

ASSUME ConstantsAssumption ==
  /\ MaxCalls \in Nat
  /\ {RcvTimeout, SndTimeout, Segmented, Disciplined} \subseteq BOOLEAN
  /\ ErrTexts \subseteq {l \in Nat : l = 0 \/ l >= SubLen}
  /\ GarbageLens \subseteq Nat
  /\ NoName \notin Names
  /\ {Absent, NoVal, Junk} \cap Values = {}

\* Rserve pads the data of a response to whole words.
RoundUp4(n) == 4 * ((n + 3) \div 4)

ASSUME ValuesAssumption ==
  /\ Values \subseteq [xt : Xts, n : Nat \ {0}, size : Nat, tag : Nat]
  /\ \A v \in Values : /\ v.xt \in {"INT", "DOUBLE"} => v.size = v.n * Width[v.xt]
                       /\ v.xt = "BOOL" => v.size = CountLen + RoundUp4(v.n)
                       /\ v.xt = "STR"  => v.size >= v.n

ASSUME CallsAssumption ==
  /\ Calls \subseteq Call
  /\ \A c \in Calls : /\ c.fn = "get_I4"  => c.xt = "INT"
                      /\ c.fn = "get_F8"  => c.xt = "DOUBLE"
                      /\ c.fn = "get_vec" => c.xt \in {"INT", "DOUBLE", "BOOL"}
                      /\ c.fn \in RawFns  => c.val = NoVal
                      /\ c.fn = "set_vec" => c.val # NoVal

VARIABLES
  \* the client
  pc,        \* what the client is about to do
  call,      \* the call it is in, or was in last
  id,        \* that call's number
  left,      \* payload_len / num_left_to_read
  ret,       \* what the last finished call handed to the application
  spoiled,   \* some call failed on this connection after it began to use it
  \* the connection
  conn,      \* "open", "shut" (by the server), "closed" (by the client)
  torn,      \* the server has received a part of a request
  reqs,      \* whole requests the server has received and not answered
  frames,    \* responses of which some byte is unread
  rpos,      \* bytes of the server's stream the client has consumed
  wpos,      \* bytes the server has produced
  \* the server's workspace of this connection
  store

client == <<pc, call, id, left, ret, spoiled>>
vars   == <<pc, call, id, left, ret, spoiled, conn, torn, reqs, frames, rpos, wpos, store>>

SendPcs == {"sendHdr", "sendParam1", "sendParam2", "sendData"}
ReadPcs == {"readHdr", "readSub", "readCount", "readData"}
Pcs     == SendPcs \cup ReadPcs \cup {"idle", "killed"}

\* Values with the number of elements an application counts in them.
Counted == UNION {{[v EXCEPT !.n = k] : k \in 0 .. v.size} : v \in Values}

Result == [id : Nat, status : {0, -1, -2, -3}, from : Nat, ok : BOOLEAN,
           val : Values \cup Counted \cup {NoVal, Junk}]
Frame  == [id : Nat, start : Nat, len : Nat, ok : BOOLEAN, val : Values \cup {NoVal}]
Request == [id : Nat, call : {c \in Calls : c.name # NoName}]
Fresh  == [n \in Names |-> Absent]

NoResult == [id |-> 0, status |-> 0, from |-> 0, ok |-> TRUE, val |-> NoVal]

-----------------------------------------------------------------------------
(* How a call ends.                                                        *)

\* The call hands status 0 to the application; from is the number of the
\* request whose response it took for its own (0: no response of the server).
Return(from, ok, val) ==
  /\ pc' = "idle" /\ left' = 0
  /\ ret' = [id |-> id, status |-> 0, from |-> from, ok |-> ok, val |-> val]
  /\ UNCHANGED spoiled

\* Mutant: the application goes on as if the call had not failed.
FailToUnnoticed(pcs, status) ==
  /\ pc' \in pcs /\ left' = 0
  /\ ret' = [id |-> id, status |-> status, from |-> 0, ok |-> FALSE, val |-> NoVal]
  /\ UNCHANGED spoiled

FailTo(pcs, status) ==
  /\ pc' \in pcs /\ left' = 0
  /\ ret' = [id |-> id, status |-> status, from |-> 0, ok |-> FALSE, val |-> NoVal]
  /\ spoiled' = TRUE

\* get_vec's BYE: frees and clears through the variable data, which is not
\* initialised before the malloc that precedes the read of the data.
AfterFailure == IF call.fn = "get_vec" /\ pc # "readData"
                THEN {"idle", "killed"} ELSE {"idle"}

Fail(status) == FailTo(AfterFailure, status)

-----------------------------------------------------------------------------
(* The application.                                                        *)

MayCall(c) == /\ pc = "idle" /\ conn # "closed" /\ id < MaxCalls
              /\ Disciplined => ~spoiled
              /\ call' = c /\ id' = id + 1
              /\ UNCHANGED <<conn, torn, reqs, frames, rpos, wpos, store>>

\* A call whose arguments pass the checks: mk_dt_string and mk_hdr build the
\* request, and the client is about to send it.
Begin(c) == /\ MayCall(c) /\ c.name # NoName
            /\ pc' = "sendHdr"
            /\ UNCHANGED <<left, ret, spoiled>>

\* A call whose arguments the checks reject: nothing is sent.
Reject(c) == /\ MayCall(c) /\ c.name = NoName
             /\ pc' \in IF c.fn = "get_vec" THEN {"idle", "killed"} ELSE {"idle"}
             /\ ret' = [id |-> id + 1, status |-> -1, from |-> 0, ok |-> FALSE, val |-> NoVal]
             /\ UNCHANGED <<left, spoiled>>

CloseConn == /\ pc = "idle" /\ conn # "closed"
             /\ conn' = "closed"
             /\ UNCHANGED <<client, torn, reqs, frames, rpos, wpos, store>>

\* rconnect that succeeds: a new stream, a workspace of its own.
Rconnect == /\ pc = "idle" /\ conn = "closed"
            /\ conn' = "open" /\ spoiled' = FALSE /\ torn' = FALSE
            /\ reqs' = <<>> /\ frames' = {} /\ rpos' = 0 /\ wpos' = 0
            /\ store' = Fresh
            /\ UNCHANGED <<pc, call, id, left, ret>>

-----------------------------------------------------------------------------
(* Sending the request: the header, the first parameter (the R text or the  *)
(* name), and for set_vec the second parameter's header and the data.       *)

NextSend == CASE pc = "sendHdr"    -> "sendParam1"
              [] pc = "sendParam1" -> IF call.fn = "set_vec" THEN "sendParam2" ELSE "readHdr"
              [] pc = "sendParam2" -> "sendData"
              [] pc = "sendData"   -> "readHdr"

\* The part is accepted by the kernel; with the last one the server has the
\* whole request, unless it is gone or takes it for the rest of a torn one.
SendPart ==
  /\ pc \in SendPcs /\ pc' = NextSend
  /\ reqs' = IF NextSend = "readHdr" /\ conn = "open" /\ ~torn
             THEN Append(reqs, [id |-> id, call |-> call]) ELSE reqs
  /\ UNCHANGED <<call, id, left, ret, spoiled, conn, torn, frames, rpos, wpos, store>>

\* send() takes fewer bytes or none: the peer is gone or the timeout expired.
SendFails ==
  /\ pc \in SendPcs
  /\ SndTimeout \/ conn = "shut"
  /\ torn' \in IF pc = "sendHdr" THEN {torn, TRUE} ELSE {TRUE}
  /\ Fail(-1)
  /\ UNCHANGED <<call, id, conn, reqs, frames, rpos, wpos, store>>

\* send() on a connection the peer has closed raises SIGPIPE, which neither
\* the library nor its flags (0) ask to suppress.
SendKills ==
  /\ pc \in SendPcs /\ conn = "shut"
  /\ pc' = "killed"
  /\ UNCHANGED <<call, id, left, ret, spoiled, conn, torn, reqs, frames, rpos, wpos, store>>

-----------------------------------------------------------------------------
(* Reading the response.                                                   *)

Unread == wpos - rpos

\* The read in progress is one read() and not get_buf_from_sock's loop.
Raw == \/ pc = "readSub" /\ call.fn \in RawFns
       \/ pc = "readData" /\ call.fn \in ScalarFns

\* get_vec skips the count of a vector of booleans before the data.
Skip == IF call.fn = "get_vec" /\ call.xt = "BOOL" THEN CountLen ELSE 0

DataLen == IF call.fn = "exec_eval" THEN left
           ELSE IF call.fn \in ScalarFns THEN Width[call.xt]
           ELSE (left \div Width[call.xt]) * Width[call.xt]

Need == CASE pc = "readHdr"   -> HdrLen
          [] pc = "readSub"   -> SubLen
          [] pc = "readCount" -> CountLen
          [] pc = "readData"  -> DataLen

Consume(n) == /\ rpos' = rpos + n
              /\ frames' = {f \in frames : f.start + HdrLen + f.len > rpos + n}
              /\ UNCHANGED <<call, id, conn, torn, reqs, wpos, store>>

\* Mutant: the loop of get_buf_from_sock goes on when read() fails.
BufFailsRetried ==
  /\ pc \in ReadPcs /\ ~Raw
  /\ \E k \in 0 .. (Need - 1) :
       /\ k <= Unread /\ Consume(k)
       /\ conn = "shut" /\ k = Unread /\ Fail(-2)

\* get_buf_from_sock in its caller: it gives up with the bytes it got thrown
\* away, -2 at the end of the stream and -3 on an error or a timeout.
BufFails ==
  /\ pc \in ReadPcs /\ ~Raw
  /\ \E k \in 0 .. (Need - 1) :
       /\ k <= Unread /\ Consume(k)
       /\ \/ conn = "shut" /\ k = Unread /\ Fail(-2)
          \/ (conn = "shut" \/ RcvTimeout) /\ Fail(-3)

\* read() of 8 or of a scalar: end of the stream, error.
RawFails ==
  /\ pc \in ReadPcs /\ Raw /\ Consume(0)
  /\ \/ conn = "shut" /\ Unread = 0 /\ Fail(-2)
     \/ (conn = "shut" \/ RcvTimeout) /\ Fail(-3)

\* read() returns k bytes, fewer than it was asked for.
ShortBy(k) == k <= Unread /\ (Segmented \/ k = Unread) /\ Consume(k)

RawShortSub == /\ pc = "readSub" /\ Raw
               /\ \E k \in 1 .. (SubLen - 1) : ShortBy(k) /\ Fail(-1)

\* The header the client believes to have read: the response that starts
\* here, or some length where none does.
HdrSeen == LET here == {f \in frames : f.start = rpos}
           IN  IF here # {} THEN here
               ELSE [id : {0}, start : {rpos}, len : GarbageLens, ok : {FALSE}, val : {NoVal}]

\* Mutants: the number of bytes read is not looked at; the header is peeked
\* at and left in the stream.
ReadHdrShort  == pc = "readHdr" /\ Unread >= 0 /\ Consume(HdrLen)
ReadHdrPeeked == pc = "readHdr" /\ Unread >= HdrLen /\ Consume(0)

ReadHdr == pc = "readHdr" /\ Unread >= HdrLen /\ Consume(HdrLen)

\* Mutant: the answer to a voidEval is not waited for.
ExecVoidUnread == /\ call.fn = "exec_void" /\ pc = "readHdr" /\ Consume(0)
                  /\ Return(id, TRUE, NoVal)

\* exec_str without output: neither ph.cmd nor ph.len is looked at.
ExecVoidReadHdr == /\ call.fn = "exec_void" /\ ReadHdr
                   /\ \E h \in HdrSeen : Return(h.id, h.ok, NoVal)

\* Mutant: no payload is no error ("I USED TO HAVE").
ExecEvalNoPayloadOk ==
  /\ call.fn = "exec_eval" /\ ReadHdr
  /\ \E h \in HdrSeen :
       \/ h.len < SubLen /\ Return(h.id, h.ok, NoVal)
       \/ h.len >= SubLen /\ pc' = "readSub" /\ left' = h.len /\ UNCHANGED <<ret, spoiled>>

\* exec_str with output: no payload is an error; the buffer for a payload
\* shorter than the 8 bytes has a length that wraps, and its malloc fails.
ExecEvalReadHdr ==
  /\ call.fn = "exec_eval" /\ ReadHdr
  /\ \E h \in HdrSeen :
       \/ h.len < SubLen /\ Fail(-1)
       \/ h.len >= SubLen /\ pc' = "readSub" /\ left' = h.len /\ UNCHANGED <<ret, spoiled>>

\* get_I4, get_F8, get_vec: ph.len is kept and the read of 8 bytes follows.
RawReadHdr == /\ call.fn \in RawFns /\ ReadHdr
              /\ \E h \in HdrSeen : left' = h.len
              /\ pc' = "readSub" /\ UNCHANGED <<ret, spoiled>>

\* set_vec: the only test is that nothing follows the header.
SetVecReadHdr == /\ call.fn = "set_vec" /\ ReadHdr
                 /\ \E h \in HdrSeen : IF h.len = 0 THEN Return(h.id, h.ok, NoVal) ELSE Fail(-1)

\* Mutant: the XT_ word is not looked at.
SubGoodUntyped == LET here == {f \in frames : f.start + HdrLen = rpos}
                  IN  IF here = {} THEN BOOLEAN ELSE {f.ok : f \in here}

\* The tests of the DT_ and XT_ words: the outcome for the response whose
\* payload starts here, either outcome where none does.
SubGood == LET here == {f \in frames : f.start + HdrLen = rpos}
           IN  IF here = {} THEN BOOLEAN
               ELSE {f.ok /\ call.xt \in {"any", f.val.xt} : f \in here}

\* ... and the tests of the length against the header's, for get_*.
LenGood == call.fn \in RawFns =>
             /\ left >= SubLen
             /\ call.fn \in ScalarFns => (left - SubLen) \div Width[call.xt] = 1

\* Mutant: the 8 bytes just read are not taken off the length.
ReadSubNotCounted ==
  /\ pc = "readSub" /\ Unread >= SubLen /\ Consume(SubLen)
  /\ \E good \in SubGood :
       IF good /\ LenGood
       THEN /\ pc' = IF Skip > 0 THEN "readCount" ELSE "readData"
            /\ left' = left /\ UNCHANGED <<ret, spoiled>>
       ELSE Fail(-1)

ReadSub ==
  /\ pc = "readSub" /\ Unread >= SubLen /\ Consume(SubLen)
  /\ \E good \in SubGood :
       IF good /\ LenGood
       THEN /\ pc' = IF Skip > 0 THEN "readCount" ELSE "readData"
            /\ left' = left - SubLen /\ UNCHANGED <<ret, spoiled>>
       ELSE Fail(-1)

\* A length below 4 makes the size of the buffer negative: its malloc fails,
\* and data is then NULL.
GetVecReadCount ==
  /\ pc = "readCount" /\ Unread >= CountLen /\ Consume(CountLen)
  /\ IF left >= CountLen
     THEN pc' = "readData" /\ left' = left - CountLen /\ UNCHANGED <<ret, spoiled>>
     ELSE FailTo({"idle"}, -1)

\* The response whose data is exactly the bytes about to be read.
DataSeen == {f \in frames : /\ f.ok /\ f.val \in Values
                            /\ f.start + HdrLen + SubLen + Skip = rpos
                            /\ f.val.size = Skip + DataLen}

\* exec_str hands the bytes over as they came, with their length; the others
\* take them for so many elements.  get_vec has dropped the count of a vector
\* of booleans, and the padding behind them is elements as well.
Handed(v) == IF call.fn = "exec_eval" THEN v
             ELSE [v EXCEPT !.n = DataLen \div Width[call.xt]]

ReadData ==
  /\ pc = "readData" /\ Unread >= DataLen /\ Consume(DataLen)
  /\ \/ DataSeen = {} /\ Return(0, FALSE, Junk)
     \/ \E f \in DataSeen : Return(f.id, TRUE, Handed(f.val))

\* get_I4 and get_F8 do not look at how many bytes the last read returned.
ShortScalar == /\ pc = "readData" /\ Raw
               /\ \E k \in 1 .. (DataLen - 1) : ShortBy(k)
               /\ Return(0, FALSE, Junk)

-----------------------------------------------------------------------------
(* The server (external): one process per connection, requests in order.   *)

Respond(n, ok, len, val) ==
  /\ frames' = frames \cup {[id |-> n, start |-> wpos, len |-> len, ok |-> ok, val |-> val]}
  /\ wpos' = wpos + HdrLen + len
  /\ UNCHANGED <<client, conn, rpos>>

Served == IF Head(reqs).call.val # NoVal THEN Head(reqs).call.val
          ELSE store[Head(reqs).call.name]

\* Evaluate or assign, and answer with the value when one was asked for.
ServeOk ==
  /\ conn = "open" /\ reqs # <<>> /\ Served # Absent
  /\ reqs' = Tail(reqs)
  /\ store' = [store EXCEPT ![Head(reqs).call.name] = Served]
  /\ UNCHANGED torn
  /\ IF Head(reqs).call.fn \in VoidFns
     THEN Respond(Head(reqs).id, TRUE, 0, NoVal)
     ELSE Respond(Head(reqs).id, TRUE, SubLen + Served.size, Served)

\* RESP_ERR: an R error, a name that is not there, an object too big.
ServeErr ==
  /\ conn = "open" /\ reqs # <<>>
  /\ reqs' = Tail(reqs)
  /\ \E l \in ErrTexts : Respond(Head(reqs).id, FALSE, l, NoVal)
  /\ UNCHANGED <<torn, store>>

\* What arrives after a torn request is taken for the rest of it.  The bytes
\* make no request, which an error answers, or one that nobody made: some
\* value is assigned or is the answer.  The next request may begin where the
\* server looks for it, or not.
ServeTorn ==
  /\ conn = "open" /\ torn /\ frames = {}
  /\ torn' \in BOOLEAN /\ UNCHANGED reqs
  /\ \/ \E l \in ErrTexts : Respond(0, FALSE, l, NoVal) /\ UNCHANGED store
     \/ \E v \in Values :
          /\ store' \in {store} \cup {[store EXCEPT ![n] = v] : n \in Names}
          /\ Respond(0, TRUE, 0, NoVal) \/ Respond(0, TRUE, SubLen + v.size, v)

\* The server's process ends: what it has not answered never will be.
ServerClose ==
  /\ conn = "open" /\ conn' = "shut" /\ reqs' = <<>>
  /\ UNCHANGED <<client, torn, frames, rpos, wpos, store>>

-----------------------------------------------------------------------------
Init ==
  /\ pc = "idle" /\ id = 0 /\ left = 0 /\ ret = NoResult /\ spoiled = FALSE
  /\ call \in Calls
  /\ conn = "open" /\ torn = FALSE /\ reqs = <<>> /\ frames = {}
  /\ rpos = 0 /\ wpos = 0 /\ store = Fresh

App    == (\E c \in Calls : Begin(c) \/ Reject(c)) \/ CloseConn \/ Rconnect
Send   == SendPart \/ SendFails \/ SendKills
Read   == \/ BufFails \/ RawFails \/ RawShortSub
          \/ ExecVoidReadHdr \/ ExecEvalReadHdr \/ RawReadHdr \/ SetVecReadHdr
          \/ ReadSub \/ GetVecReadCount \/ ReadData \/ ShortScalar
Server == ServeOk \/ ServeErr \/ ServeTorn \/ ServerClose

\* The application has made its calls, or is no more.
Done == (pc = "killed" \/ (pc = "idle" /\ id = MaxCalls)) /\ UNCHANGED vars

Next == App \/ Send \/ Read \/ Server \/ Done

Spec == Init /\ [][Next]_vars

\* Fairness.  A client that can go on goes on: the functions are sequential
\* code.  The server's process serves the requests it has received.
FairSpec == Spec /\ WF_vars(Send \/ Read) /\ WF_vars(ServeOk \/ ServeErr)

\* The client waits for bytes that are not there.
Waits == /\ pc \in ReadPcs /\ conn = "open"
         /\ Unread < (IF Raw THEN 1 ELSE Need)

\* The same without the timeouts' help: what ends a wait is bytes or the end
\* of the stream, as with rconnect(..., 0, 0).
ServedSpec == Spec /\ WF_vars(Send \/ (~Waits /\ Read)) /\ WF_vars(ServeOk \/ ServeErr)

-----------------------------------------------------------------------------
(* The session as an implementation of RemoteVars, for a disciplined         *)
(* application.                                                            *)

Phase == IF pc = "killed" \/ conn = "closed" \/ spoiled THEN "down"
         ELSE IF pc = "idle" THEN "idle" ELSE "busy"

\* What the workspace made of the call in progress, read off the response.
Ans == LET pending == [st |-> "pending", val |-> NoVal]
           refused == [st |-> "refused", val |-> NoVal]
       IN  IF Phase # "busy" THEN pending
           ELSE IF frames = {} THEN IF pc = "readSub" THEN refused ELSE pending
           ELSE LET f == CHOOSE f \in frames : TRUE
                IN  IF f.ok THEN [st |-> "done", val |-> f.val] ELSE refused

RV == INSTANCE RemoteVars WITH
        phase <- Phase, ans <- Ans,
        rvars <- IF Phase = "down" THEN Fresh ELSE store,
        out <- [status |-> ret.status, val |-> ret.val]

-----------------------------------------------------------------------------
(* Properties.                                                             *)

\* The types, and that nothing is consumed before it was produced.
TypeOK ==
  /\ pc \in Pcs /\ call \in Calls /\ id \in 0 .. MaxCalls /\ left \in Nat
  /\ ret \in Result /\ spoiled \in BOOLEAN
  /\ conn \in {"open", "shut", "closed"} /\ torn \in BOOLEAN
  /\ reqs \in Seq(Request) /\ frames \subseteq Frame
  /\ rpos \in Nat /\ wpos \in Nat /\ rpos <= wpos
  /\ store \in [Names -> Values \cup {Absent}]

\* Nothing is owed and nothing is unread.
Quiet == reqs = <<>> /\ frames = {} /\ rpos = wpos

\* The one unread response is that of the call in progress, and the client
\* has consumed n bytes of it.
Reading(n) == /\ reqs = <<>>
              /\ \E f \in frames : /\ frames = {f} /\ f.id = id
                                   /\ rpos = f.start + n
                                   /\ wpos = f.start + HdrLen + f.len
                                   /\ n > HdrLen => f.ok
                                   /\ n >= HdrLen => left = HdrLen + f.len - n

\* As long as no call has failed on the connection the client stays in step
\* with the server: between calls nothing is owed and nothing is unread, and
\* in a call the client is at a field boundary of the response to that call,
\* with the remaining length right.  ("I was not draining the socket
\* completely in previous call", exec_str.)
InStep ==
  ~spoiled =>
    /\ ~torn
    /\ pc \in {"idle"} \cup SendPcs => Quiet
    /\ pc = "readHdr" =>
         \/ Reading(0)
         \/ frames = {} /\ rpos = wpos /\ reqs = <<[id |-> id, call |-> call]>>
         \/ Quiet /\ conn # "open"
    /\ pc = "readSub" => Reading(HdrLen) \/ (Quiet /\ left = 0)
    /\ pc = "readCount" => Reading(HdrLen + SubLen)
    /\ pc = "readData" => Reading(HdrLen + SubLen + Skip)

\* A step in which a call returns 0 on a connection without failed calls.
Succeeds == ret' # ret /\ ret'.status = 0 /\ ~spoiled

\* A call that returns 0 on such a connection took for its answer the
\* response to its own request, not one left over from an earlier call.
OwnAnswer == [][Succeeds => ret'.from = id]_vars

\* A call that returns a value returns what the workspace holds at that moment
\* under the name it asked for, of the type it asked for (test4 sets a boolean
\* and gets it back) and, for get_I4 and get_F8, a single number.  Only get_vec
\* of booleans hands it over changed: what it returns as n is the number of
\* elements rounded up to a multiple of 4, the padding being the last of them.
ReadBack ==
  [][Succeeds /\ call.fn \notin VoidFns =>
       LET v == store[call.name]
       IN  /\ v \in Values /\ call.xt \in {"any", v.xt}
           /\ call.fn \in ScalarFns => v.n = 1
           /\ ret'.val = RV!Received(call, v)]_vars

\* Even on a connection that failed calls have put out of step, responses are
\* taken in the order of the calls they answer, each at most once: they lie in
\* the stream in that order, ahead of the requests that wait for theirs, and
\* what the client has still to read answers later calls than the one whose
\* response it took last.  (Not that it answers the call that will take it: a
\* response that comes late is taken for the answer of a later call.)
AnsweredOnce ==
  /\ \A f \in frames : f.start >= rpos /\ f.id # 0 => ret.from < f.id /\ f.id <= id
  /\ \A f, g \in frames : f.start < g.start /\ g.id # 0 => f.id < g.id
  /\ \A i \in 1 .. Len(reqs) :
       /\ ret.from < reqs[i].id /\ reqs[i].id <= id
       /\ \A f \in frames : f.id < reqs[i].id
       /\ \A j \in 1 .. Len(reqs) : i < j => reqs[i].id < reqs[j].id

\* Client and server do not wait for one another: when exec_str or set_vec
\* blocks in a read, the server has a request to answer.  (get_I4, get_F8 and
\* get_vec read 8 bytes behind the header of an error too.)
NoMutualWait == Waits /\ call.fn \notin RawFns => reqs # <<>>

\* So a call of theirs returns without a timeout, if the server serves.
ServedReturns ==
  pc \in SendPcs \cup ReadPcs /\ call.fn \notin RawFns ~> pc \in {"idle", "killed"}

\* Every call returns to the application (or takes the process with it).
CallReturns == pc \in SendPcs \cup ReadPcs ~> pc \in {"idle", "killed"}

\* Every step of the session is a step of the remote variables or none.
ImplementsRemoteVars == RV!Spec

-----------------------------------------------------------------------------
(* Claims of the comments, the headers and the tests that the code does    *)
(* not keep.  Each is refuted by a run.                                     *)


\* test3 sets a vector of n booleans, gets it with get_vec and fails when the
\* number of elements it gets is not n: what get_vec returns is what is stored.
VectorAsStored ==
  [][Succeeds /\ call.fn = "get_vec" => ret'.val = store[call.name]]_vars

\* "store this as vector in R" (set_vec): when it returns 0 the vector is
\* stored.
StoredOnSuccess == [][Succeeds /\ call.fn = "set_vec" => store[call.name] = call.val]_vars

=============================================================================
