-------------------------------- MODULE MCUi --------------------------------
(***************************************************************************)
(* Instance of Ui for TLC; its module evaluates the assumptions.           *)
(***************************************************************************)
EXTENDS Ui
=============================================================================
