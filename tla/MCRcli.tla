------------------------------- MODULE MCRcli -------------------------------
(* Small instances of Rcli for TLC.  The tag tells values of one type apart; *)
(* size is the length of the data in the response.  One boolean needs three   *)
(* bytes of padding, four need none.                                         *)
EXTENDS Rcli

CONSTANTS x, y, absent, noname, noval, junk

MCNames  == {x, y}
Int1     == [xt |-> "INT", n |-> 1, size |-> 4, tag |-> 1]
Double1  == [xt |-> "DOUBLE", n |-> 1, size |-> 8, tag |-> 1]
Double3  == [xt |-> "DOUBLE", n |-> 3, size |-> 24, tag |-> 3]
Bool1    == [xt |-> "BOOL", n |-> 1, size |-> 8, tag |-> 1]
Bool0    == [xt |-> "BOOL", n |-> 1, size |-> 8, tag |-> 0]
Bool4    == [xt |-> "BOOL", n |-> 4, size |-> 8, tag |-> 4]

Mk(fn, n, v, t) == [fn |-> fn, name |-> n, val |-> v, xt |-> t]

\* The functions that read through get_buf_from_sock only: exec_str in its
\* two forms (the first is set_bool) and set_vec.
BufValues == {Bool0, Bool1}
BufCalls  == {Mk("exec_eval", x, v, "any") : v \in BufValues}
        \cup {Mk("exec_eval", x, noval, "BOOL"), Mk("exec_eval", x, noval, "INT"),
              Mk("exec_eval", y, noval, "any"),
              Mk("exec_void", x, Bool1, "any"), Mk("set_vec", y, Bool0, "any"),
              Mk("exec_eval", noname, noval, "any")}

\* With the functions that call read() themselves.
RawValues == {Int1, Double1, Double3, Bool1, Bool4}
RawCalls  == {Mk("get_I4", x, noval, "INT"), Mk("get_F8", x, noval, "DOUBLE"),
              Mk("get_vec", x, noval, "DOUBLE"), Mk("get_vec", x, noval, "BOOL"),
              Mk("get_vec", noname, noval, "INT")}
        \cup {Mk("set_vec", x, v, "any") : v \in RawValues}

AllValues == BufValues \cup RawValues
SessionCalls == BufCalls \cup RawCalls
AllCalls  == {Mk("exec_eval", x, Bool1, "any"), Mk("exec_eval", x, noval, "BOOL"),
              Mk("exec_void", x, Int1, "any"), Mk("set_vec", x, Bool0, "any"),
              Mk("get_I4", x, noval, "INT"), Mk("get_vec", x, noval, "BOOL"),
              Mk("exec_eval", noname, noval, "any")}
=============================================================================
