---------------------------- MODULE MCVtfpCore ----------------------------
(***************************************************************************)
(* A small controller for TLC: a dangerous command 1, a safe command 2, a  *)
(* key and a wrong key, a millisecond counter of a few values, and a PC    *)
(* that stores the commands of the ARM protocol, a standard one and one    *)
(* that no handler is registered for.                                      *)
(***************************************************************************)
EXTENDS VtfpCore, TLC

MCPolicy == 1 :> "VTFP_ARM_REQUIRED" @@ 2 :> "VTFP_ARM_NONE"

MCHostWrites ==
    ({"command"} \X {1, 5, VTFP_CMD_QUERY_INFO, VTFP_CMD_ARM, VTFP_CMD_DISARM})
      \cup ({"param"} \X {SafetyKey})
=============================================================================
