------------------------------ MODULE MCSamples ------------------------------
(* A small instance of Samples for TLC: a word of two bytes, messages shorter  *)
(* than the word, of the word alone, of the server's whole buffer, and of one  *)
(* byte more; sockets that hold less than a message.                           *)
EXTENDS Samples

MCSizes   == {1, 2, 3, 4, 5}
MCUnknown == {-1, 1, 6}
=============================================================================
