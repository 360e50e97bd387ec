------------------------------ MODULE ExactRead ------------------------------
(***************************************************************************)
(* What a caller of get_buf_from_sock may rely on: the call hands over the *)
(* next n bytes of the stream, all of them and in order, or it fails, and  *)
(* then fewer than n bytes are gone and the caller has none of them.       *)
(* GetBuf is shown to implement this.  A byte is named by its place in the *)
(* stream.                                                                 *)
(***************************************************************************)
EXTENDS Integers

CONSTANT Lens       \* the lengths the callers ask for

VARIABLES pos,      \* bytes of the stream that are gone
          res       \* the last result: [status, data]

Nothing == [i \in {} |-> 0]

Init == pos = 0 /\ res = [status |-> 0, data |-> Nothing]

Take(n) == /\ n > 0 /\ pos' = pos + n
           /\ res' = [status |-> 0, data |-> [i \in 0 .. (n - 1) |-> pos + i]]

Fail(n) == /\ n > 0
           /\ \E k \in 0 .. (n - 1) : pos' = pos + k
           /\ \E s \in {-2, -3} : res' = [status |-> s, data |-> Nothing]

\* A length of 0 is no error and a negative one is; no byte is touched.
Refuse(n) == /\ n <= 0 /\ UNCHANGED pos
             /\ res' = [status |-> IF n = 0 THEN 0 ELSE -1, data |-> Nothing]

Next == \E n \in Lens : Take(n) \/ Fail(n) \/ Refuse(n)

Spec == Init /\ [][Next]_<<pos, res>>
=============================================================================
