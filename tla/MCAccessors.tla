----------------------------- MODULE MCAccessors -----------------------------
(* A small instance of Accessors for TLC: a variable that is a logical of no,  *)
(* one, two or five elements, a number, a data frame, or one with two classes; *)
(* and a second one, whose answers those of the first may be taken for.        *)
EXTENDS Accessors

CONSTANTS x, y, noname, absent

MCNames   == {x, y}
MCClasses == {"logical", "numeric", "data.frame", "tbl"}

Mk(cls, len, nrow, bits) == [cls |-> cls, len |-> len, nrow |-> nrow, bits |-> bits]
Bits(b) == Mk(<<"logical">>, Len(b), NoRows, b)

MCObjects == {Bits(<<1>>), Bits(<<NA>>), Bits(<<1, 0>>), Bits(<<>>), Bits(<<1, 1, 1, 1, 1>>),
              Mk(<<"numeric">>, 2, NoRows, <<>>), Mk(<<"tbl", "data.frame">>, 2, 3, <<>>)}
=============================================================================
