------------------------------- MODULE MCFifo -------------------------------
(* Instance of Fifo for TLC: a ring of three bytes, arrays of up to five.  *)
EXTENDS Fifo

MCBytes == {0, 1}
=============================================================================
