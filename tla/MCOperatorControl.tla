------------------------- MODULE MCOperatorControl -------------------------
(***************************************************************************)
(* A small instance of OperatorControl.                                    *)
(***************************************************************************)
EXTENDS OperatorControl
=============================================================================
