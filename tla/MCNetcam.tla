------------------------------ MODULE MCNetcam ------------------------------
(***************************************************************************)
(* Netcam with the four kinds of camera, for TLC.                          *)
(***************************************************************************)
EXTENDS Netcam
=============================================================================
