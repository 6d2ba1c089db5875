--------------------------- MODULE MCMotionHandler ---------------------------
(***************************************************************************)
(* MotionHandler on a few events, for TLC.                                 *)
(***************************************************************************)
EXTENDS MotionHandler
=============================================================================
