---------------------------- MODULE VtfpProtocol ----------------------------
(***************************************************************************)
(* The numbers that both sides of VTFP share: the command partition and    *)
(* the result codes of vtfp_command.h and vtfp_result.h.                   *)
(***************************************************************************)
EXTENDS Integers

VTFP_CMD_USER_BASE == 1
VTFP_CMD_USER_MAX == 15
VTFP_CMD_STD_BASE == 16
VTFP_CMD_QUERY_INFO == 16
VTFP_CMD_QUERY_STATE == 17
VTFP_CMD_RESET == 18
VTFP_CMD_HEARTBEAT == 19
VTFP_CMD_STD_MAX == 31
VTFP_CMD_ARM == 254
VTFP_CMD_DISARM == 255

UserRange == VTFP_CMD_USER_BASE .. VTFP_CMD_USER_MAX
StdRange == VTFP_CMD_STD_BASE .. VTFP_CMD_STD_MAX

VTFP_R_OK == 0
VTFP_R_NOT_ARMED == 1
VTFP_R_ARM_EXPIRED == 2
VTFP_R_SAFETY_KEY == 3
VTFP_R_BUF_OVERFLOW == 6
VTFP_R_UNKNOWN_CMD == 255

=============================================================================
