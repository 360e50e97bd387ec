------------------------------- MODULE MCConn -------------------------------
(* Small instances of Conn for TLC: two sockets of the application, two      *)
(* descriptors, so that failures use them up, and two hosts.                 *)
EXTENDS Conn

CONSTANTS s1, s2, here, there

MCFds   == {3, 4}
MCSlots == {s1, s2}
MCHosts == {here, there}
=============================================================================
