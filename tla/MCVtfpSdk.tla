----------------------------- MODULE MCVtfpSdk -----------------------------
(***************************************************************************)
(* The library on a controller with one dangerous command.                 *)
(***************************************************************************)
EXTENDS VtfpSdk, TLC

MCPolicy == 1 :> "VTFP_ARM_REQUIRED"
=============================================================================
