----------------------------- MODULE MCNamedVec -----------------------------
(* A small instance of NamedVec for TLC: named vectors of up to three         *)
(* elements, keys with padding and without, the same with attributes behind   *)
(* the names, with smaller and larger elements, answers that are something    *)
(* else, and buffers from nothing to more than enough, in elements and bytes. *)
EXTENDS NamedVec

Keys(n) == CASE n = 0 -> <<>>
             [] n = 1 -> <<"c", "0", "1", "1">>
             [] n = 2 -> <<"c", "0", "c", "0">>
             [] n = 3 -> <<"c", "0", "0", "c", "0", "1", "1", "1">>

List(n, extra, elem) == [kind |-> "list", keys |-> Keys(n), tag |-> TagLen,
                         extra |-> extra, elem |-> elem, n |-> n]
Else(kind, len) == [kind |-> kind, keys |-> <<>>, tag |-> 0, extra |-> len, elem |-> 8, n |-> 0]

MCAnswers == {List(n, x, e) : n \in 0 .. 3, x \in {0, 24}, e \in {4, 8, 16}}
        \cup {Else("other", l) : l \in {8, 12, 16, 40, 80}} \cup {Else("error", 0)}

MCBuffers == [szKeys : {0, 4, 5, 8, 9}, szVals : {0, 1, 2, 3, 4}, doubles : {4}]
        \cup {[szKeys |-> k, szVals |-> v, doubles |-> v] : k \in {5, 9}, v \in 0 .. 4}
        \cup {[szKeys |-> 9, szVals |-> 16, doubles |-> 2]}

MCGarbage == {<<>>, <<"0", "0", "0", "0">>, <<"c", "c", "c", "0", "1">>}
=============================================================================
