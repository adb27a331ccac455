------------------------------ MODULE MCPacing ------------------------------
(***************************************************************************)
(* An instance of Pacing for TLC: speeds that divide the counter frequency *)
(* with and without a remainder, and one above it.                         *)
(***************************************************************************)
EXTENDS Pacing

MCSpeeds == {0, 2, 3, 7}
=============================================================================
