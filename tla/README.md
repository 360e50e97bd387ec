# C2R in TLA+

C2R is a C library with which a program uses R through Rserve, Simon
Urbanek's server, over a TCP connection and its QAP1 protocol. This directory
holds TLA+ specifications of the library, TLC configurations that check them on
small instances, and proofs that the TLA+ proof system checks.

## The system: an inventory

| part | state | operations |
|---|---|---|
| `exec_str` (`src/aux_rcli.c`) | local: header, length left, buffer | send a command, with (`CMD_eval`) or without (`CMD_voidEval`) a value wanted, and read the answer |
| `get_I4`, `get_F8` | local: `num_left_to_read` | evaluate a name, read one scalar into the caller's variable |
| `get_vec` (with `get_vec_len`) | local: `num_left_to_read`, `data` | evaluate a name, read a vector into a buffer it allocates |
| `set_vec` | local: two parameters | send a name and a vector, read the answer |
| `get_named_vec_F8` | the caller's two buffers | evaluate a name, read keys and values |
| `get_buf_from_sock`, `read_hdr` | `total_num_read`, `buflen`, `buf` | read a number of bytes by a loop of `read()` |
| `rconnect`, `close_conn`, `rshutdown` | the socket | open (with timeouts), check the 32-byte greeting; close; stop the server |
| `mk_dt_string`, `mk_hdr`, `set_vec`'s layout | none | lengths, padding and the 24-bit fields of the protocol |
| accessors: `get_bool`, `set_bool`, `exists1`, `exists2`, `is_vector`, `ncols_df`, `nrows_df`, `chk_R_class` | none | a formatted command through `exec_str`, and a look at the bytes |
| `my_client`/`my_server`, `client`/`server` (`sample_client_socket/`) | a buffer, what is read of a message | two programs that send a message to and fro, two that take turns with lines |
| `mk_df_str`, `get_vec_len.c`, `rshutdown` (the program), `get_time_usec` | none | not part of the library the Makefile builds |
| the connection (external) | bytes under way in each direction | deliver in pieces, end, fail, time out |
| Rserve (external) | one process and one workspace per connection | evaluate, assign, answer, or end |
| the application (`test/unit_test_1.c`) | the socket, what it got | one call at a time |

**Interactions.** The library has no threads and no state of its own: all that
lasts from one call to the next is the connection, i.e. the bytes not yet read in
it, and the workspace at its other end. Every function takes the socket, writes
a request, and reads an answer: a header of 16 bytes, whose `len` says how many
follow, then 8 bytes of type words, then data. Nothing in the stream marks where
a message starts, and `mk_hdr` sends `msg_id` 0, so nothing ties an answer to
its request but the order.

**What is hard.** Two processes and the bytes between them: an answer that
comes after the client stopped waiting for it; a call that leaves bytes unread;
a `read()` that returns part of an answer; a `send` that is cut; a server that
ends with a request undone; two parties waiting for one another. `PROJECT.json`
lists these hazards with the line each comes from.

**What makes each part correct.**

* The functions together: on a connection without failed calls a call gets the
  answer to its own request, what it returns is what the workspace holds and of
  the type asked for, and between calls nothing is unread; every call returns.
* `get_buf_from_sock`: exactly the bytes asked for, in order, or an error.
* Connections: a socket handed out is the application's own, has passed the
  greeting and has its timeouts; closing one gives back that one; a failure
  loses one descriptor at most.
* Encoding: what the words say about a length is the length sent.
* `get_named_vec_F8`: it stays inside the caller's buffers whatever the answer,
  and gets the keys and values R has, leaving nothing behind.
* Accessors: what they say is what R holds at that moment under that name, and a
  failure can be told from an answer.
* Sample programs: each side reads a message whole before it writes the next.

## The modules

### `Rcli`: a session

The application, the functions, the connection and the server. One action is
what the code does between two points where the other side can act: a `send`,
a `read_hdr`, the read of 8 bytes with the tests after it, the read of the data.

| variable | code |
|---|---|
| `pc` | where the function stands: before a send, before a read, or back in the application (`idle`); `killed` is a process ended by SIGPIPE or by the free of a bad pointer |
| `call`, `id` | the function and its arguments; a number for the call (the code has none) |
| `left` | `payload_len` after the header (`exec_str`), `num_left_to_read` (the others) |
| `ret` | the status and the value handed back, and the request whose answer it was |
| `spoiled` | history: a call has failed on this connection |
| `conn`, `torn`, `reqs` | the state of the connection; a part of a request received; whole requests received |
| `frames`, `rpos`, `wpos` | the server's stream: answers with a byte unread, bytes consumed, bytes produced |
| `store` | the workspace |

| actions | code |
|---|---|
| `Begin`, `Reject` | the entry of a function, its checks, `mk_dt_string`, `mk_hdr`. `NoName` stands for any argument a check refuses |
| `SendPart`, `SendFails`, `SendKills` | the sends; a send that takes too few bytes; SIGPIPE |
| `ExecVoidReadHdr`, `ExecEvalReadHdr`, `RawReadHdr`, `SetVecReadHdr` | `read_hdr` and what each function does with `ph.len` |
| `ReadSub`, `GetVecReadCount`, `ReadData` | the 8 bytes and their tests; the count of a boolean vector; the data |
| `BufFails`, `RawFails`, `RawShortSub`, `ShortScalar` | the ways a read can fail or be short, in `get_buf_from_sock` and in the functions that call `read()` themselves |
| `CloseConn`, `Rconnect` | `close_conn`; an `rconnect` that succeeds |
| `ServeOk`, `ServeErr`, `ServeTorn`, `ServerClose` | external: Rserve |

Data is abstract: a value is a record of its R type, the number of its elements,
its size in the stream and a tag. A boolean vector is a count, a byte for each
element and the padding with which Rserve fills the last word (`RoundUp4`).
`exec_str` hands the bytes over as they came; the other functions make elements
of them (`Handed`), and `get_vec`, which drops the count, makes elements of the
padding too. The stream is not a sequence of bytes but positions in it. A read that
starts where a field starts sees that field; a read that starts anywhere else
sees one of `GarbageLens`, passes or fails each test, and hands out `Junk`.
A torn request is completed by whatever is sent next: what the server makes of
the bytes is an error, or a request that nobody made, which assigns something or
has some value for an answer; the next request may then begin where the server
looks for it, or not (`ServeTorn`).

### `RemoteVars`: what a session promises

The variables of one workspace and one call at a time, without stream, bytes or
messages: a call takes effect at most once and while it is in progress, and a
call that returns a value returns the one the workspace gave to that very call
(`Received`: a boolean vector that `get_vec` returns has its padding for elements).
`Rcli` implements it under the mapping at its end: a connection that failed, was
closed or lost its client is `down`, and the answer is read off the one frame
of the stream.

### `GetBuf` and `ExactRead`

The loop of `get_buf_from_sock`, one action per `read()`, over bytes that arrive
in pieces and a connection that ends or fails at any moment; and the promise its
callers rely on, an atomic read of `n` bytes. `Rcli` uses that promise: its reads
through `get_buf_from_sock` are one step (`Unread >= Need`), or fail with any
smaller number of bytes gone.

### `Conn` and `Sockets`

`Conn` is `rconnect` and `rshutdown` one system call at a time and `close_conn`,
in a process with few descriptors, for an application with several sockets (a
variable each, as `main` and `test10` have) and hosts where an Rserve, another
server or nothing listens.

| variable | code |
|---|---|
| `pc`, `slot`, `asked`, `sock` | the place in the function; whose `ptr_sock`; `server`; the local `sock` |
| `var`, `last` | the application's socket variables; the last status |
| `fds` | the process's descriptors, with what the other end has done: greeted, answered, closed |
| `hosts` | external: what listens |

`Socket` takes the lowest free descriptor. Each step can fail, and a failure
returns without closing (`Return` leaves `fds` alone). An application that closes
a socket, or whose `rshutdown` succeeded, forgets the number; one that calls
`rconnect` into a variable that still holds a socket loses it, as `test10` would.
`Sockets` is the promise: the connections held and the number of descriptors left.
Opening takes one, closing gives back one and changes one entry, an attempt that
fails takes one at most.

### `Qap`: the request as bytes

`mk_dt_string`'s padding loop, `mk_hdr`, and in `set_vec` the sizes, the packing of
strings, the words and the sends, with `uint32_t` sums and 24-bit lengths. A name
is its length; packed strings are bytes of three kinds: part of a string,
terminator, padding. The parameter of a boolean vector has a third word, the count (`CountWord`). The server is not in it, only what it could read. The data of
a character vector is taken to stay under 2^32 bytes.

### `NamedVec`: one call of `get_named_vec_F8`

| variable | code |
|---|---|
| `pc` | the send or read it is at: header, 16 bytes of words, keys, the 12 bytes of a tag, values |
| `ans`, `rest`, `peer` | external: the answer, what is unread of it, whether the server still has the connection |
| `buf` | the caller's `key_blob` and `vals`: their sizes as it says, and as they are |
| `keys`, `key_blob`, `chk_n_vals` | `l_sz_key_blob` and what these bytes are; the buffer; the zeros counted in it |
| `vals`, `outs` | where in the answer the values came from, bytes written; `*ptr_n_vals`, `*ptr_n_key_blob` |

An answer is a list (a vector whose first attribute is a vector of strings, with
`extra` bytes of other attributes and elements of 4, 8 or 16 bytes), something else, of which
only the length is known, or an error. The words of something else may fail the
tests or pass them, and then give any of `GarbageKeys`. Every read can end early, with any
part of what it wanted in the buffer.

### `Accessors`

`get_bool`, `set_bool`, `exists1`, `exists2`, `is_vector`, `get_vec_len`, `ncols_df`,
`nrows_df` and `chk_R_class`, over whole answers of `exec_str` (its bytes are `Rcli`'s).
`Evaluate` is what R makes of each expression (external), `Decode` what each function makes of
the bytes. `hidden` is a history variable: on this connection a `chk_R_class` has failed, which
its caller cannot see. An application that sees a failure closes the connection (`Back`).
After an answer of the wrong type, or a timeout in the middle of one, the client is not where
an answer starts (`skew`) and may take anything for an answer (`TakeBytes`). A null name is an
error or false, but `set_bool` and `get_vec_len` take `strlen` of it, which ends the process (`Reject`).
`get_vec_len` is the one of `get_vec.c`, which the Makefile builds; `get_vec_len.c` has another
that is in no target.

### `Samples`

`c` and `s` are the two programs, `up` and `down` the bytes under way between them, in
sockets that hold `Capacity` bytes; one action per system call, a `write` as many as the
socket takes at a time. A word whose bytes did not all arrive with one `read` is any of
`Unknown` (its memory was partly unset), and `cut` remembers that. The chat's `read` of a line
likewise. A write to a program that has ended may raise SIGPIPE at once, when the reset has come
already, or go nowhere the first time.

### `MCRcli`, `MCGetBuf`, `MCConn`, `MCQap`, `MCNamedVec`, `MCAccessors`, `MCSamples` and `RcliProofs`, `RcliSessionProofs`, `GetBufProofs`, `ConnProofs`, `QapProofs`, `NamedVecProofs`, `AccessorsProofs`, `SamplesProofs`

Instances for TLC, and the theorems. `RcliSessionProofs` holds those about `Rcli` that build on
`RcliProofs`: what holds out of step too, and what a careful application may rely on.

## The runs

Passing:

| run | what it asks |
|---|---|
| `session` | every function, timeouts, a server that may end, an application that gives up a connection on which a call failed; scalars come in one piece, one boolean has padding: `InStep`, `OwnAnswer`, `ReadBack` (of `get_vec`, booleans with their padding), the refinement of `RemoteVars`; and, for `exec_str` and `set_vec`, `NoMutualWait` and `ServedReturns`: they return without a timeout if the server serves |
| `careless` | every function in an application that goes on after failures, with error texts and torn requests that later bytes complete: `AnsweredOnce` (responses are taken in the order of the requests they answer, none twice; not that each answers the call that takes it), the types, and with timeouts `CallReturns`, in step or not |
| `getbuf` | the loop: bounds, no gaps, refinement of `ExactRead`, termination |
| `conn` | two sockets, two descriptors, two hosts, every failure: `HeldIsGood`, `ConnectsWhereAsked` (an address `inet_pton` takes is the one connected to), the refinement of `Sockets`, and that calls return |
| `qap` | names, vectors and strings on both sides of every limit: `AnnouncedIsSent`, `NamePadded` (room for the terminator, less than 8 bytes of padding, a parameter divisible by 4, so that the check behind the loop never fails), `VectorSaid` (below 2^24 bytes the words say the vector's length and the number of its booleans, and all of it is sent), `StringsKept`, and that the loops end |
| `named_vec` | vectors of up to three elements, other answers, cut answers, a server that ends, buffers on both sides of each test: `NoOverrun`, `WholeAnswer`, `KeysAndValues`, `Returns` |
| `accessors` | every accessor over two variables, refusals, timeouts, a server that ends, reconnects: `InStep`, `TellsTruth` (of every accessor but `is_vector`; an NA counts as FALSE) |
| `samples` | both pairs of programs, messages larger than the sockets hold, words read in part: `InTurn`, `AnswersRight`, `Completes`, `EndsTogether` |

Refuted, each a disagreement between the code and what it or its tests say
(the findings of `PROJECT.json`):

| run | what TLC finds |
|---|---|
| `stale_get` | after a call timed out, the next get returns the answer to the earlier call, status 0 |
| `refused_set` | `set_vec` returns 0 for an assignment the server refused: `ph.cmd` is not looked at |
| `padded_vec` | `get_vec` of one boolean returns `n` = 4 with status 0: the count that came is dropped (`get_vec.c:82-90`), where the test wants as many as were set (`unit_test_1.c:242`) |
| `padded_name` | the comment above the loop of `mk_dt_string` has `4 + len_name` divisible by 8; the loop makes `len_name` so (`aux_rcli.c:71-73`) |

Further disagreements, which the models hold as the code has them and no run
asks about:

* `exec_str` without output returns 0 and leaves the text of an error answer in
  the stream (`aux_rcli.c:206`; `ExecVoidReadHdr`);
* `get_I4` and `get_F8` return 0 with part of a value after a short `read()`
  (`get_I4.c:51`; `ShortScalar`);
* a `get_vec` that fails early frees a pointer never set (`get_vec.c:102`;
  `AfterFailure`);
* `rshutdown` returns 0 when the server refused (`aux_rcli.c:258`; `ShutRead`);
* `get_I4`, `get_F8` and `get_vec` wait for 8 bytes after an error answer, which may
  have none behind its header (`Rsrv.h:117`; `RawReadHdr`, and why `NoMutualWait` and
  `ServedReturns` leave these functions out);
* what `inet_pton` does not take, as a host name or an IPv6 address, is not an error of
  `rconnect`: the address stays 0, the local host (`aux_rcli.c:293`; `Target`);
* from 2^24 bytes on the word of a vector gives R another length, from 2^32 bytes on less
  is sent too; no error (`set_vec.c:99`; `Word`, `Sizes`);
* `sz_vals` is elements in `get_named_vec_F8`'s comment and test (`get_named_vec.c:28`,
  `:109`), bytes in its `memset` (`:42`) and in its caller (`unit_test_1.c:358`): a caller who
  gives bytes is not protected by the test (`ReadTag`; `NoOverrun` has elements for a hypothesis);
* it refuses a blob as long as its buffer, where its comment has `<=` (`TooLong`); the length
  it gives back includes the server's padding (`ReadVals`); the type of the vector itself is
  not tested, so that integers are taken for doubles (`ReadHead`), and other attributes
  for values (`KeysAndValues` is for doubles with names only);
* `is_vector` asks about the quoted name, a string, and so is true of everything, what is not
  there included (why `TellsTruth` leaves it out); `get_bool` reads NA as FALSE; `exists2` and `is_vector` read the fifth byte whatever the length;
  `ncols_df` asks for `length()` (`Evaluate`, `OneLogical`, `FifthByte`);
* `chk_R_class` knows the first class only, and says false for a failure: a later
  `chk_R_class` on that connection can then get the answer to an earlier one, about another
  variable (`ChkRClass`; why `InStep` and `TellsTruth` stop at `hidden`);
* `my_client` throws away what its test of the answer says, and reads on for ever at the end
  of the stream (`ClientChecks`, `ClientSpins`); the four programs do not look at how much
  of a word or a line they have read, after which both may wait (`WordRead`);
* a boolean vector may make a packet that is not quad-aligned, as `Rsrv.h:74`
  wants it (`set_vec.c:61`; `Sizes`);
* the length in the second parameter's word counts that word, the one in the first
  does not (`set_vec.c:96`, `aux_rcli.c:92`; `SecondParam`, `FirstParam`).

**Bounds.** `MaxCalls` is 2 or 3: a call that disturbs the stream, the call that
meets the disturbance, and one after it. Two names, so that an answer about one can
be taken for an answer about the other; values of one type that differ, and of
types and sizes that differ; one boolean, with three bytes of padding, and four with none. `GarbageLens` has a length without payload, one
with the 8 bytes only and one with data. `ErrTexts` is `{0}` where the
property needs answers without text, `{0, 8}` where it does not. `Segmented` says
whether one `read()` may return part of what the server has sent. In `GetBuf`,
lengths -1, 0, 1, 3 and 4 and nine bytes: three calls in a row, each split in
every way. In `Conn`, four calls with two descriptors: two that fail leave none, and
a descriptor that is closed is used again while the other variable holds its own.
In `qap` the limits are scaled down in their
order (`LenMod` 64 for 2^24, `WordMod` 256 for 2^32, `SendMax` 120 for the
kernel's limit on one `send`), so that names up to 250 and vectors up to 70
elements lie on both sides of each. In `named_vec` key buffers of 0, 4, 5, 8 and 9 bytes lie on both sides
of blobs of 4 and 8 (and 4 without padding), and 0 to 4 values on both sides of 0 to 3 elements;
attributes of 24 bytes are as long as three doubles. In `accessors` three calls: one that
fails, one that meets what it left, one after it; logicals of 0, 1, 2 and 5 elements are those
that padding can make look alike. In `samples` messages are shorter than a word (1, which `my_client` admits), a word (2 bytes) alone, up to
the server's buffer (4), and one byte more (5), which is refused; sockets hold 3 bytes, so that a
message of 4 never fits, and two iterations let the end of one run into the next.
The proofs leave all of them open.

**Fairness.** `WF(Send \/ Read)`: the client is sequential code that goes on when
it can; with a timeout it always can. `WF(ServeOk \/ ServeErr)`: Rserve serves
the requests it has received. Nothing is asked of the choice between success and
error, of the application, or of deliveries: the stream is what has arrived.
`careless` does not need the second conjunct. In `session` (`ServedSpec`) the first is weaker,
`WF(Send \/ (~Waits /\ Read))`: a read that waits for bytes ends when they come or the stream does,
as on a socket of `rconnect(..., 0, 0)`, and nothing relies on a timeout. `Conn` has `WF(Step)`, the steps of
`rconnect` and `rshutdown`, and nothing for the hosts: with a receive timeout a
read always can go on. `Qap` is one sequential function, `WF(Next)`. `NamedVec` has `WF(Step)`, the function's own
steps: every read can go on because the instance has a receive timeout, as a socket has
for which `rconnect` was given one. `Samples` has weak fairness for each program and, in the chat, for the user
who types its lines, and no timeouts: `Completes` and `EndsTogether` come from the order of
reads and writes alone. The kernel is taken to accept
a small send of a connection that is open.

**Deadlock** is checked in every run but `samples`: `Done` (`Finished` in the other modules)
is the only way to stop. In `samples` two programs of which one has read a word in part can
really wait for each other for ever; `Completes` and `EndsTogether` say what happens otherwise.

## What is proved

For every choice of the constants that satisfies the named assumptions
(`ConstantsAssumption`, `ValuesAssumption`: the data of a value has at least one element and the
size that goes with its type and number, count and padding included; `CallsAssumption`: a function asks for the type it
is for; `LensAssumption`: a buffer is as long as what is read into it; `LimitsAssumption`: two sends
and a vector's words fit in 32 bits, and 24 bits in 32; `NamedVecAssumption`: R has a name for every
element; `LimitAssumption`: a process has finitely many descriptors, and `None` is no host;
`AccessorsAssumption`: an object has a class, and a logical as many elements as its length says;
`SamplesAssumption`: a message has a length above 0, and the sockets hold something):

| theorem | statement |
|---|---|
| `TypeCorrect` | `Spec => []TypeOK` |
| `StaysInStep` | `BareErrors`, `WholeReads` prove `Spec => []InStep` |
| `AnswersAreOwn` | under the same, `Spec => OwnAnswer` |
| `ReadsBack` | under the same, `Spec => ReadBack` |
| `EachAnsweredOnce` | `Spec => []AnsweredOnce` |
| `WorkspaceRefined` | `BareErrors`, `WholeReads`, `Disciplined` prove that `Rcli`'s `Spec` implements `RemoteVars` |
| `NeverBothWait` | under the same, `Spec => []NoMutualWait` |
| `LoopTypes`, `NeverOverruns`, `StaysContiguous` | `GetBuf`: `Spec => []` of `TypeOK`, `NoOverrun`, `Contiguous` |
| `Refinement` | `GetBuf`'s `Spec` implements `ExactRead` |
| `ConnTypes`, `SocketsStayGood` | `Conn`: `Spec => []TypeOK`, `Spec => []HeldIsGood` |
| `ConnectsThere`, `SocketsRefined` | `Spec => []ConnectsWhereAsked`; `Conn`'s `Spec` implements `Sockets` |
| `QapTypes`, `SentAsAnnounced`, `NameIsPadded`, `VectorIsSaid`, `StringsAreKept` | `Qap`: `Spec => []` of `TypeOK`, `AnnouncedIsSent`, `NamePadded`, `VectorSaid`, `StringsKept` |
| `NamedVecTypes`, `StaysInBuffers`, `ReadsWholeAnswer`, `GetsKeysAndValues` | `NamedVec`: `Spec => []` of `TypeOK`, `NoOverrun`, `WholeAnswer`, `KeysAndValues` |
| `AccessorsTypes`, `StaysInStep`, `AccessorsTellTruth` | `Accessors`: `Spec => []TypeOK`, `Spec => []InStep`, `Spec => TellsTruth` |
| `SamplesTypes`, `TakesTurns`, `AnswersAreRight` | `Samples`: `FairSpec => []` of `TypeOK`, `InTurn`, `AnswersRight` |

The hypotheses of the theorems about `Rcli` are what the code does not
secure itself. `BareErrors` (error answers have no text): otherwise
the text stays unread behind an `exec_str` without output. `WholeReads` (a scalar
function gets what it asks for in one read): otherwise it returns part of a value
and leaves the rest. `Disciplined`: the application gives up a connection on which a call
failed. `NoMutualWait` is about `exec_str` and `set_vec` in itself: `get_I4`, `get_F8` and `get_vec`
read 8 bytes behind the header of an error too, which are not there. The other disagreements need no hypothesis: they do not put a
connection without failed calls out of step.

**The argument.** `TInv` is `TypeOK` with what each `pc` says of the call (only
functions that expect a payload read one). `IInv` is `InStep` with `Facts`: on a
connection without failed calls every frame carries what the workspace holds, in a
frame of the right length, and after the tests of the type words it has the type
asked for, so that `ReadBack` can say of `get_vec` that it hands over the stored vector with the
number of its data's bytes for the number of its booleans. `InStep` alone is not inductive: it says where the client stands in a
frame, not what the frame is about. Each action is a lemma that keeps `IInv`
and, when it returns success, shows `GoodStep`, from which the two action
properties follow.

In `RcliSessionProofs` `EachAnsweredOnce` needs none of this, as the client may be anywhere in the stream. Its invariant
is that the numbers of requests and answers only grow along the stream: from the last answer
taken, through the frames in their order, to the requests that wait, and none is above that of
the last request sent. Responses to what the server made of torn bytes have no number and lie apart. A call that returns takes a frame, and the frames in front of it are consumed.

For the other two theorems of that module `Up` is added: a call is in progress only on a connection that has not
failed, so `IInv` holds of it. Then there is one frame or none, and the mapping's answer is that
frame's, or a refusal when a bare error has been consumed with its header. Each action is a lemma that
names the abstract step: `Begin` invokes, the server's answers execute or refuse, the last read
returns, every failure fails, and what lies between is no step.

In `GetBufProofs` the invariant ties the offset, the bytes
counted and the bytes wanted together; the refinement maps a call in its loop to
a stream of which nothing is gone yet.

In `ConnProofs` `HeldIsGood` needs `Busy`: the local socket of an `rconnect` under way
is open, not greeted and in nobody's variable, and that of `rshutdown` is the one in
its caller's. So a greeting makes a socket of the application's that is no other
variable's, and no other call touches it. The assumptions are that -1 is no
descriptor and that the refused arguments are no hosts. The refinement needs `Where`: what the
local socket and the held ones are connected to. Seen from `Sockets` a step then leaves
everything as it is, takes a descriptor from the free ones, gives one to the application, or gives one back;
the count of free descriptors follows from the library's theorems about finite sets. In `QapProofs` the loop is
bounded by `Target`, the first multiple of 8 above the length, and the parts whose
`send` was whole are small: their sums did not wrap, whatever was computed
before, so the announced length is theirs. `VecInv` adds, for a vector, that its
size is settled before the words are written and that the third word carries it, or the fourth the
count of its booleans. For strings
`StrInv` says where the two loops stand after `i` strings: the sum of the first is where the `i`-th
string ends, and so is the offset of the second, whose buffer has room for all and holds zeros where the `i`
strings end and behind the offset, nowhere else. `EndsOf` is a recursive function of the strings: that there is one, and that its values grow, is proved first,
by induction in the form that the prover can use, over a set of naturals (`InductionSet`, from the
well-foundedness of `<` on a finite set) instead of a predicate.

In `NamedVecProofs` the invariant has four parts: `Types`; `Room`, that past `ReadHead` the
keys are shorter than `key_blob`, so that its last byte is still the zero of the `memset`, and past
`ReadTag` there are fewer values than `sz_vals`; `Place`, how much of a list has been read
at each `pc` (the reason why the values of a vector with names only start where the function
takes them from); and `Results`, that the outputs are set at the last step only.

In `AccessorsProofs` `InStep` is not inductive, as it is silent while a call waits. `Waits` says
what comes then, as long as no failure is hidden: one answer at most, a refusal or what R makes of this
very call in the workspace as it is. `Truths` goes through the functions one by one: an answer that passes the
test of its type and of its length decodes to what R holds, because of what the bytes of a
logical can be (`BoolDataFacts`: eight bytes that begin with a count of 1 hold a single element, the fifth
byte). `Failures` is the other half: each function but `chk_R_class` makes something visible
of a failure, so that the connection is given up (`BackFailed`).

In `SamplesProofs` the invariant says whose `Turn` it is, i.e. where the `n` bytes of the
message under way are: still to be written, in the sockets, or read by the other side; their
numbers add up to `n` at every place of the two programs. So the loops, which ask for all `n` bytes however
many are missing, find no byte of another message to read. `Contents` adds what the bytes of an
answer are, wherever they have got to. Both stop at `cut`: nothing of this holds once a word or a line
has been read in part. The types do not: `want.s` stays within `my_server`'s buffer whatever the word was.

**Only model-checked:** liveness (`CallReturns`, `ServedReturns`, `Returns` and `Ends` of the other modules, `Completes`,
`EndsTogether`), which is out of the prover's reach. Every safety property that a passing run checks
is a theorem. Induction over a predicate is out of reach too; where data needs induction
(`Qap`'s strings) the set form does.

## What is not modelled

* empty vectors (`XT_NULL` answers) and out-of-band messages: the library never
  expects either;
* `malloc` failing, signals that interrupt a `read()`, a socket number that the
  application uses after `close_conn`;
* what happens to a socket nobody holds any more; SIGPIPE in `rshutdown` (the
  process would end there; `Conn` takes it for a send that failed);
* an Rserve that does not fork, whose connections share a workspace;
* what the server makes of the words of `Qap`;
* names longer than the buffers that `n_df` and `chk_R_class` format commands into;
  in the sample programs the clock and the printing;
* `mk_df_str`, which cannot be compiled as it stands (it includes a header the repository
  does not have and jumps to a `BYE` it has not), so that it has no behaviour; `get_vec_len.c`, which
  no target of the Makefile compiles; `get_time_usec`,
  which reads the clock; Rserve's own headers, constants and declarations without code of which
  the library uses the few that the modules name.

## Plan

In this order; all but the last are done.

1. `GetBuf` and `ExactRead`: the loop, its refinement, its proofs.
2. `Rcli` and `RemoteVars`: the session, its runs and refutations.
3. `RcliProofs`: types, `InStep`, `OwnAnswer`, `ReadBack`.
4. `Conn` and `Sockets`: connections and descriptors; `HeldIsGood` proved.
5. `Qap`: the encoding of a request; `AnnouncedIsSent`, the padding and `VectorSaid` proved.
6. `NamedVec`: `get_named_vec_F8`, with its safety properties proved.
7. `Accessors` and `Samples`.
8. Proofs of `AnsweredOnce`, of `NoMutualWait` for the functions that keep it, of
   `Rcli` implementing `RemoteVars` and of `Conn` implementing `Sockets`.
9. Proofs about `Accessors`, `Samples` and the strings of `Qap`.
10. Boolean vectors with their padding in `Rcli`, torn requests that later bytes complete, the
    `get_vec_len` that is built: modelled, and the theorems they touch proved anew.
11. Open: if `get_vec` is changed to keep the count it reads, `Handed` becomes the identity and
    `VectorAsStored` takes the place of `ReadBack`'s last line.
