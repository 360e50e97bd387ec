------------------------------- MODULE GetBuf -------------------------------
(***************************************************************************)
(* get_buf_from_sock: the loop of read() calls under every response that   *)
(* exec_str, set_vec, get_vec and rconnect read.  One read() returns as     *)
(* many bytes as have arrived, at most as many as it is asked for; the     *)
(* server's bytes arrive in pieces, and the connection may end or fail at   *)
(* any moment.  A byte is named by its place in the stream.                *)
(***************************************************************************)
EXTENDS Integers

CONSTANTS
  Lens,         \* values of buflen the callers pass
  MaxLen,       \* size of the callers' buffers
  MaxSent,      \* bound: bytes the server sends in a behaviour
  RcvTimeout    \* the socket has SO_RCVTIMEO

ASSUME LensAssumption == /\ MaxLen \in Nat /\ MaxSent \in Nat
                         /\ Lens \subseteq {n \in Int : n <= MaxLen}

VARIABLES
  pc,                               \* "out" of the function or in its "loop"
  num_to_read, total_num_read,      \* the function's variables;
  buflen,                           \* its parameter, what is still wanted,
  off,                              \* and buf, as an offset in the caller's buffer
  mem,                              \* that buffer: the bytes it holds
  ret,                              \* the last result: [status, data]
  gone,                             \* bytes of the stream read() has returned
  arrived,                          \* bytes of the stream that have arrived
  peer                              \* "up", "fin" (closed), "rst" (failed)

local == <<num_to_read, total_num_read, buflen, off>>
vars  == <<pc, num_to_read, total_num_read, buflen, off, mem, ret, gone, arrived, peer>>

Stale   == -1                       \* what the buffer held before
Nothing == [i \in {} |-> 0]

Result(status) == [status |-> status, data |-> Nothing]

Init == /\ pc = "out" /\ num_to_read = 0 /\ total_num_read = 0 /\ buflen = 0 /\ off = 0
        /\ mem = [i \in 0 .. (MaxLen - 1) |-> Stale]
        /\ ret = Result(0) /\ gone = 0 /\ arrived = 0 /\ peer = "up"

\* The checks on entry; a length of 0 returns at once and leaves
\* *ptr_num_read as it was.
Call(n) ==
  /\ pc = "out"
  /\ IF n <= 0
     THEN /\ ret' = Result(IF n = 0 THEN 0 ELSE -1)
          /\ UNCHANGED <<pc, local, mem>>
     ELSE /\ pc' = "loop" /\ buflen' = n /\ num_to_read' = n
          /\ total_num_read' = 0 /\ off' = 0
          /\ mem' = [i \in 0 .. (MaxLen - 1) |-> Stale]
          /\ UNCHANGED ret
  /\ UNCHANGED <<gone, arrived, peer>>

\* Behind the bytes just stored, with so many fewer to read.
AdvanceSameLen(k)   == off' = off + k /\ UNCHANGED buflen                \* mutants of
AdvanceSamePlace(k) == UNCHANGED off /\ buflen' = buflen - k             \* Advance
AdvanceTooFar(k)    == off' = off + k /\ buflen' = buflen - total_num_read'
Advance(k)          == off' = off + k /\ buflen' = buflen - k

\* read() returns k > 0 bytes: the loop ends with the last of them, or goes
\* on behind them.
ReadSome(k) ==
  /\ pc = "loop" /\ k <= buflen /\ gone + k <= arrived
  /\ gone' = gone + k
  /\ mem' = [i \in 0 .. (MaxLen - 1) |-> IF i \in off .. (off + k - 1) THEN gone + (i - off) ELSE mem[i]]
  /\ total_num_read' = total_num_read + k
  /\ IF total_num_read' >= num_to_read
     THEN /\ pc' = "out" /\ UNCHANGED <<buflen, off>>
          /\ ret' = [status |-> 0, data |-> [i \in 0 .. (num_to_read - 1) |-> mem'[i]]]
     ELSE Advance(k) /\ UNCHANGED <<pc, ret>>
  /\ UNCHANGED <<num_to_read, arrived, peer>>

GiveUp(status) == /\ pc = "loop" /\ pc' = "out" /\ ret' = Result(status)
                  /\ UNCHANGED <<local, mem, gone, arrived, peer>>

\* read() returns 0: the server has closed and everything has been read.
ReadEof == peer = "fin" /\ gone = arrived /\ GiveUp(-2)

\* Mutant of ReadError: the loop tries again when read() fails.
ReadErrorRetried == peer = "rst" /\ pc = "loop" /\ UNCHANGED vars

\* read() returns -1: the connection failed, or the timeout expired.
ReadError == (peer = "rst" \/ (RcvTimeout /\ gone = arrived)) /\ GiveUp(-3)

\* The network (external).
Arrive(k) == /\ peer = "up" /\ arrived + k <= MaxSent /\ arrived' = arrived + k
             /\ UNCHANGED <<pc, local, mem, ret, gone, peer>>

PeerEnds == /\ peer = "up" /\ peer' \in {"fin", "rst"}
            /\ UNCHANGED <<pc, local, mem, ret, gone, arrived>>

Read == (\E k \in 1 .. MaxLen : ReadSome(k)) \/ ReadEof \/ ReadError

Next == (\E n \in Lens : Call(n)) \/ Read \/ (\E k \in 1 .. MaxSent : Arrive(k)) \/ PeerEnds

Spec == Init /\ [][Next]_vars

\* The function keeps reading; nothing is asked of the server.
FairSpec == Spec /\ WF_vars(Read)

-----------------------------------------------------------------------------
TypeOK ==
  /\ pc \in {"out", "loop"} /\ peer \in {"up", "fin", "rst"}
  /\ num_to_read \in Nat /\ total_num_read \in Nat /\ buflen \in Nat /\ off \in Nat
  /\ gone \in Nat /\ arrived \in Nat
  /\ gone <= arrived /\ arrived <= MaxSent
  /\ mem \in [0 .. (MaxLen - 1) -> Int]

\* The loop never asks for more than is wanted and never stores past the end
\* of the buffer; the warning after the loop ("total_num_read, num_to_read")
\* is never reached.
NoOverrun == /\ pc = "loop" => off + buflen <= num_to_read /\ total_num_read < num_to_read
             /\ total_num_read <= num_to_read /\ num_to_read <= MaxLen

\* What has been read so far is the stream, gapless, from where the call began.
Contiguous == pc = "loop" => \A i \in 0 .. (total_num_read - 1) :
                                mem[i] = gone - total_num_read + i

\* The bytes that are gone for the callers: a call in its loop has not
\* returned yet.
Taken == IF pc = "loop" THEN gone - total_num_read ELSE gone

ER == INSTANCE ExactRead WITH pos <- Taken, res <- ret

\* The loop is, for its callers, one read of exactly the bytes asked for.
ImplementsExactRead == ER!Spec

\* With a timeout every call returns, whatever the server and the network do.
CallReturns == pc = "loop" ~> pc = "out"
=============================================================================
