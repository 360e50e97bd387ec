------------------------------- MODULE MCQap -------------------------------
(* Small instances of Qap for TLC.  The limits are scaled down (LenMod, half *)
(* of WordMod and SendMax in the order of 2^24, 2^31 and the kernel's cap),  *)
(* so that the requests lie on both sides of each.                           *)
EXTENDS Qap

MCNames == 0 .. 17

Cmds == [qtype : {"cmd", "??"}, name : MCNames \cup {70, 130, 250}, n : {0}, width : {0}, strs : {<<>>}]
Vecs == [qtype : {"F8", "I4", "I1"}, name : {0, 1, 7}, n : 0 .. 70, width : {0}, strs : {<<>>}]
Strs == UNION {[qtype : {"SC"}, name : {1}, n : {n}, width : {0, 4, 5},
                strs : [1 .. n -> {0, 1, 4}]] : n \in 0 .. 4}

MCRequests == Cmds \cup Vecs \cup Strs
=============================================================================
