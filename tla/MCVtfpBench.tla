---------------------------- MODULE MCVtfpBench ----------------------------
(***************************************************************************)
(* The bench on a controller with a dangerous command 1, a safe command 2  *)
(* and handlers that succeed, or fail with PARAM_RANGE.                    *)
(***************************************************************************)
EXTENDS VtfpBench, TLC

MCPolicy == 1 :> "VTFP_ARM_REQUIRED" @@ 2 :> "VTFP_ARM_NONE"

(* Commands of every part of the partition, with a right and a wrong key.  *)
MCCalls ==
    ({1, 2, 5, 16, 17, 18, 19, 20, 32, 255} \X {0}) \cup ({VTFP_CMD_ARM} \X {0, SafetyKey})
=============================================================================
