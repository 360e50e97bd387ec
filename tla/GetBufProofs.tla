---------------------------- MODULE GetBufProofs ----------------------------
(***************************************************************************)
(* The loop of get_buf_from_sock implements ExactRead, for every buffer    *)
(* size, every set of lengths and every way the bytes arrive.              *)
(***************************************************************************)
EXTENDS GetBuf, TLAPS

\* In the loop the offset and what is still wanted say how far it has come,
\* and the buffer holds, up to there, the stream from where the call began.
Loop == pc = "loop" =>
          /\ num_to_read \in Lens /\ buflen > 0
          /\ off = total_num_read /\ total_num_read + buflen = num_to_read
          /\ total_num_read <= gone
          /\ \A i \in 0 .. (total_num_read - 1) : mem[i] = gone - total_num_read + i

Bounds == total_num_read <= num_to_read /\ num_to_read <= MaxLen

IInv == TypeOK /\ Bounds /\ Loop

LEMMA InvInit == Init => IInv
BY LensAssumption DEF Init, IInv, TypeOK, Bounds, Loop, Stale

LEMMA InvCall == ASSUME IInv, NEW n \in Lens, Call(n) PROVE IInv'
<1>1. CASE n <= 0
  BY <1>1 DEF IInv, TypeOK, Bounds, Loop, Call, local
<1>2. CASE n > 0
  <2>1. n \in Nat /\ n <= MaxLen
    BY <1>2, LensAssumption
  <2>2. mem' \in [0 .. (MaxLen - 1) -> Int]
    BY <1>2, <2>1 DEF Call, Stale
  <2> QED BY <1>2, <2>1, <2>2 DEF IInv, TypeOK, Bounds, Loop, Call
<1> QED BY <1>1, <1>2, LensAssumption

\* What one read stores continues what the loop has stored before.
LEMMA StoreStep ==
  ASSUME IInv, NEW k \in 1 .. MaxLen, ReadSome(k)
  PROVE  /\ mem' \in [0 .. (MaxLen - 1) -> Int]
         /\ total_num_read' = total_num_read + k /\ gone' = gone + k
         /\ total_num_read + k <= num_to_read
         /\ \A i \in 0 .. (total_num_read + k - 1) : mem'[i] = gone - total_num_read + i
<1>1. /\ pc = "loop" /\ k <= buflen /\ gone' = gone + k /\ total_num_read' = total_num_read + k
      /\ mem' = [i \in 0 .. (MaxLen - 1) |->
                   IF i \in off .. (off + k - 1) THEN gone + (i - off) ELSE mem[i]]
  BY DEF ReadSome
<1>2. /\ off = total_num_read /\ total_num_read + buflen = num_to_read /\ num_to_read <= MaxLen
      /\ k \in Nat /\ gone \in Nat /\ total_num_read \in Nat /\ buflen \in Nat /\ num_to_read \in Nat /\ MaxLen \in Nat
      /\ mem \in [0 .. (MaxLen - 1) -> Int]
      /\ \A i \in 0 .. (total_num_read - 1) : mem[i] = gone - total_num_read + i
  BY <1>1, LensAssumption DEF IInv, Loop, TypeOK, Bounds
<1>3. mem' \in [0 .. (MaxLen - 1) -> Int]
  BY <1>1, <1>2
<1>4. total_num_read + k <= num_to_read
  BY <1>1, <1>2
<1>5. ASSUME NEW i \in 0 .. (total_num_read + k - 1) PROVE mem'[i] = gone - total_num_read + i
  <2>1. i \in 0 .. (MaxLen - 1)
    BY <1>2, <1>4
  <2>2. CASE i < total_num_read
    BY <1>1, <1>2, <2>1, <2>2
  <2>3. CASE i >= total_num_read
    BY <1>1, <1>2, <2>1, <2>3
  <2> QED BY <1>2, <2>2, <2>3
<1> QED BY <1>1, <1>3, <1>4, <1>5

LEMMA InvReadSome == ASSUME IInv, NEW k \in 1 .. MaxLen, ReadSome(k) PROVE IInv'
<1>1. /\ mem' \in [0 .. (MaxLen - 1) -> Int]
      /\ total_num_read' = total_num_read + k /\ gone' = gone + k
      /\ total_num_read + k <= num_to_read
      /\ \A i \in 0 .. (total_num_read + k - 1) : mem'[i] = gone - total_num_read + i
  BY StoreStep
<1>2. /\ pc = "loop" /\ gone + k <= arrived /\ UNCHANGED <<num_to_read, arrived, peer>>
      /\ \/ pc' = "out" /\ UNCHANGED <<buflen, off>>
         \/ total_num_read' < num_to_read /\ Advance(k) /\ UNCHANGED pc
  BY <1>1 DEF ReadSome, IInv, TypeOK
<1>3. Bounds'
  BY <1>1, <1>2 DEF IInv, Bounds
<1>4. CASE pc' = "out" /\ UNCHANGED <<buflen, off>>
  BY <1>1, <1>2, <1>3, <1>4 DEF IInv, TypeOK, Loop
<1>5. CASE total_num_read' < num_to_read /\ Advance(k) /\ UNCHANGED pc
  <2>1. off' = off + k /\ buflen' = buflen - k
    BY <1>5 DEF Advance
  <2>2. /\ off = total_num_read /\ total_num_read + buflen = num_to_read
        /\ num_to_read \in Lens /\ total_num_read <= gone
        /\ total_num_read \in Nat /\ buflen \in Nat /\ gone \in Nat /\ num_to_read \in Nat /\ k \in Nat
    BY <1>2 DEF IInv, Loop, TypeOK
  <2>3. /\ off' = total_num_read' /\ total_num_read' + buflen' = num_to_read' /\ buflen' > 0
        /\ total_num_read' <= gone' /\ buflen' \in Nat /\ off' \in Nat /\ num_to_read' \in Lens
    BY <1>1, <1>2, <1>5, <2>1, <2>2
  <2>4. \A i \in 0 .. (total_num_read' - 1) : mem'[i] = gone' - total_num_read' + i
    <3>1. gone' - total_num_read' = gone - total_num_read
      BY <1>1, <2>2
    <3> QED BY <1>1, <2>2, <3>1
  <2>5. TypeOK'
    BY <1>1, <1>2, <1>5, <2>2, <2>3 DEF IInv, TypeOK
  <2> QED BY <1>3, <2>3, <2>4, <2>5 DEF IInv, Loop
<1> QED BY <1>2, <1>4, <1>5

LEMMA InvStep == IInv /\ [Next]_vars => IInv'
<1>1. ASSUME IInv, NEW s, GiveUp(s) PROVE IInv'
  BY <1>1 DEF IInv, TypeOK, Bounds, Loop, GiveUp, local
<1>2. ASSUME IInv, Read PROVE IInv'
  BY <1>1, <1>2, InvReadSome DEF Read, ReadEof, ReadError
<1>3. ASSUME IInv, NEW k \in 1 .. MaxSent, Arrive(k) PROVE IInv'
  <2>1. arrived' \in Nat /\ gone <= arrived' /\ arrived' <= MaxSent
    BY <1>3, LensAssumption DEF Arrive, IInv, TypeOK
  <2> QED BY <1>3, <2>1 DEF Arrive, local, IInv, TypeOK, Bounds, Loop
<1>4. ASSUME IInv, PeerEnds PROVE IInv'
  BY <1>4 DEF PeerEnds, local, IInv, TypeOK, Bounds, Loop
<1>5. ASSUME IInv, UNCHANGED vars PROVE IInv'
  BY <1>5 DEF vars, local, IInv, TypeOK, Bounds, Loop
<1> QED BY <1>2, <1>3, <1>4, <1>5, InvCall DEF Next

LEMMA Invariant == Spec => []IInv
BY InvInit, InvStep, PTL DEF Spec

\* get_buf_from_sock's counts and offset stay natural numbers, and it never
\* has more bytes than have arrived.
THEOREM LoopTypes == Spec => []TypeOK
<1>1. IInv => TypeOK
  BY DEF IInv
<1> QED BY <1>1, Invariant, PTL

\* The loop never wants more than the buffer holds nor stores past its end,
\* and it never ends with a total other than what was asked: the warning
\* after it is dead code.
THEOREM NeverOverruns == Spec => []NoOverrun
<1>1. IInv => NoOverrun
  BY DEF IInv, TypeOK, Bounds, Loop, NoOverrun
<1> QED BY <1>1, Invariant, PTL

\* The buffer holds a gapless stretch of the stream.
THEOREM StaysContiguous == Spec => []Contiguous
<1>1. IInv => Contiguous
  BY DEF IInv, Loop, Contiguous
<1> QED BY <1>1, Invariant, PTL

\* Every step of the loop is, seen by the callers, one read of exactly the
\* bytes asked for, a failure with fewer gone, or nothing.
LEMMA RefineInit == Init => ER!Init
BY DEF Init, ER!Init, Taken, Result, Nothing, ER!Nothing

LEMMA RefineCall == ASSUME IInv, NEW n \in Lens, Call(n)
                    PROVE  ER!Next \/ UNCHANGED <<Taken, ret>>
<1>1. CASE n <= 0
  <2>1. ret' = [status |-> IF n = 0 THEN 0 ELSE -1, data |-> ER!Nothing]
    BY <1>1 DEF Call, Result, Nothing, ER!Nothing
  <2>2. Taken' = Taken
    BY <1>1 DEF Call, Taken, local
  <2> QED BY <1>1, <2>1, <2>2 DEF ER!Next, ER!Refuse
<1>2. CASE n > 0
  <2>1. ~(n <= 0)
    BY <1>2, LensAssumption
  <2>2. /\ pc = "out" /\ pc' = "loop" /\ ret' = ret
        /\ total_num_read' = 0 /\ gone' = gone /\ gone \in Nat
    BY <2>1 DEF Call, IInv, TypeOK
  <2> QED BY <2>2 DEF Taken
<1> QED BY <1>1, <1>2, LensAssumption

LEMMA RefineReadSome == ASSUME IInv, NEW k \in 1 .. MaxLen, ReadSome(k)
                        PROVE  ER!Next \/ UNCHANGED <<Taken, ret>>
<1>1. /\ total_num_read' = total_num_read + k /\ gone' = gone + k
      /\ total_num_read + k <= num_to_read
      /\ \A i \in 0 .. (total_num_read + k - 1) : mem'[i] = gone - total_num_read + i
  BY StoreStep
<1>2. /\ pc = "loop" /\ num_to_read \in Lens
      /\ total_num_read \in Nat /\ gone \in Nat /\ num_to_read \in Nat /\ k \in Nat /\ num_to_read > 0
  BY <1>1 DEF ReadSome, IInv, Loop, TypeOK
<1>3. CASE total_num_read' >= num_to_read
  <2>1. total_num_read + k = num_to_read
    BY <1>1, <1>2, <1>3
  <2>2. pc' = "out" /\ ret' = [status |-> 0, data |-> [i \in 0 .. (num_to_read - 1) |-> mem'[i]]]
    BY <1>3 DEF ReadSome
  <2>3. Taken = gone - total_num_read /\ Taken' = gone + k
    BY <1>1, <1>2, <2>2 DEF Taken
  <2>4. Taken' = Taken + num_to_read
    BY <1>2, <2>1, <2>3
  <2>5. [i \in 0 .. (num_to_read - 1) |-> mem'[i]] = [i \in 0 .. (num_to_read - 1) |-> Taken + i]
    <3>1. ASSUME NEW i \in 0 .. (num_to_read - 1) PROVE mem'[i] = Taken + i
      BY <1>1, <1>2, <2>1, <2>3, <3>1
    <3> QED BY <3>1
  <2>6. ER!Take(num_to_read)
    BY <1>2, <2>2, <2>4, <2>5 DEF ER!Take
  <2> QED BY <1>2, <2>6 DEF ER!Next
<1>4. CASE ~(total_num_read' >= num_to_read)
  <2>1. pc' = "loop" /\ ret' = ret
    BY <1>2, <1>4 DEF ReadSome
  <2>2. Taken' = Taken
    BY <1>1, <1>2, <2>1 DEF Taken
  <2> QED BY <2>1, <2>2
<1> QED BY <1>3, <1>4

LEMMA RefineGiveUp == ASSUME IInv, NEW s \in {-2, -3}, GiveUp(s)
                      PROVE  ER!Next
<1>1. /\ pc = "loop" /\ pc' = "out" /\ ret' = [status |-> s, data |-> ER!Nothing]
      /\ gone' = gone /\ num_to_read \in Lens
  BY DEF GiveUp, Result, Nothing, ER!Nothing, IInv, Loop
<1>2. /\ total_num_read \in 0 .. (num_to_read - 1) /\ num_to_read > 0
      /\ gone \in Nat /\ total_num_read \in Nat /\ num_to_read \in Nat
  BY <1>1 DEF IInv, Loop, TypeOK
<1>3. Taken' = Taken + total_num_read
  BY <1>1, <1>2 DEF Taken
<1>4. ER!Fail(num_to_read)
  BY <1>1, <1>2, <1>3 DEF ER!Fail
<1> QED BY <1>1, <1>4 DEF ER!Next

LEMMA RefineStep == IInv /\ [Next]_vars => [ER!Next]_<<Taken, ret>>
<1>1. ASSUME IInv, Read PROVE ER!Next \/ UNCHANGED <<Taken, ret>>
  BY <1>1, RefineReadSome, RefineGiveUp DEF Read, ReadEof, ReadError
<1>2. ASSUME NEW k \in 1 .. MaxSent, Arrive(k) PROVE UNCHANGED <<Taken, ret>>
  BY <1>2 DEF Arrive, local, Taken
<1>3. ASSUME PeerEnds PROVE UNCHANGED <<Taken, ret>>
  BY <1>3 DEF PeerEnds, local, Taken
<1>4. ASSUME UNCHANGED vars PROVE UNCHANGED <<Taken, ret>>
  BY <1>4 DEF vars, local, Taken
<1> QED BY <1>1, <1>2, <1>3, <1>4, RefineCall DEF Next

\* get_buf_from_sock implements ExactRead.
THEOREM Refinement == Spec => ImplementsExactRead
BY RefineInit, RefineStep, Invariant, PTL DEF Spec, ImplementsExactRead, ER!Spec
=============================================================================
