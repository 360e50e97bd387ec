------------------------------ MODULE MCGetBuf ------------------------------
(* A small instance of GetBuf for TLC: the lengths around the interesting    *)
(* values (none, one byte, several) and a negative one.                      *)
EXTENDS GetBuf

MCLens == {-1, 0, 1, 3, 4}
=============================================================================
