------------------------------- MODULE MCGboy -------------------------------
(***************************************************************************)
(* Instances of Gboy for TLC.                                              *)
(***************************************************************************)
EXTENDS GboyInv

\* Paused and two different running speeds.
MCSpeeds == {0, 1, 2}
=============================================================================
