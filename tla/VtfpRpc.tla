------------------------------ MODULE VtfpRpc ------------------------------
(***************************************************************************)
(* What the VTFP runtime promises to a PC that writes a whole header, then *)
(* waits for the poll to return and then reads the result: an atomic       *)
(* remote call, with the ARM window measured in real time.                 *)
(*                                                                         *)
(* Where VTFP/vtfp-protocol/SPEC.md and the code give different answers,   *)
(* the answer is left open: either one is a reply of this server.  These   *)
(* are an ARM with a wrong key while a grant is open, QUERY_STATE, RESET   *)
(* and HEARTBEAT, and a dangerous command after its window.  What is       *)
(* promised in these cases is that the call returns with one of them, that *)
(* no user handler runs and that no grant opens.                           *)
(***************************************************************************)
EXTENDS VtfpProtocol

CONSTANTS Timeout, SafetyKey, AutoDisarm, Policy, HandlerResults, HandlerLens, InfoLen

VARIABLES
    phase,    \* of the call: "none", "pending", "admitted", "served"
    request,  \* its command and parameter
    reply,    \* its result and the length of its data
    left      \* milliseconds left of the grant

rpcVars == <<phase, request, reply, left>>

Registered == DOMAIN Policy
NoReply == [result |-> VTFP_R_OK, len |-> 0]
Result(r) == [result |-> r, len |-> 0]

(* What a dangerous command is told without a grant.  SPEC.md:148 wants    *)
(* ARM_EXPIRED when there was one; the code always says NOT_ARMED.         *)
Refusals == {Result(VTFP_R_NOT_ARMED), Result(VTFP_R_ARM_EXPIRED)}

Init ==
    /\ phase = "none"
    /\ request = [command |-> 0, param |-> 0]
    /\ reply = NoReply
    /\ left = 0

Call ==
    /\ phase = "none"
    /\ phase' = "pending"
    /\ request' \in [command : 1 .. 255, param : Nat]
    /\ reply' = NoReply
    /\ UNCHANGED left

Serve(r) == phase = "pending" /\ phase' = "served" /\ reply' = r /\ UNCHANGED request

ServeArm ==
    /\ request.command = VTFP_CMD_ARM
    /\ \/ request.param = SafetyKey /\ Serve(Result(VTFP_R_OK)) /\ left' = Timeout
       \* a wrong key never opens a grant, whatever the answer says
       \/ /\ request.param # SafetyKey
          /\ \E r \in {VTFP_R_OK, VTFP_R_SAFETY_KEY} : Serve(Result(r))
          /\ UNCHANGED left

ServeDisarm ==
    /\ request.command = VTFP_CMD_DISARM
    /\ Serve(Result(VTFP_R_OK))
    /\ left' = 0

(* SPEC.md:85-88 asks for a state of 8 bytes and for an OK (RESET only     *)
(* under a grant); the code says BUF_OVERFLOW and UNKNOWN_CMD.             *)
StandardReplies(cmd) ==
    CASE cmd = VTFP_CMD_QUERY_INFO -> {[result |-> VTFP_R_OK, len |-> InfoLen]}
      [] cmd = VTFP_CMD_QUERY_STATE ->
            {[result |-> VTFP_R_OK, len |-> 8], Result(VTFP_R_BUF_OVERFLOW)}
      [] cmd = VTFP_CMD_RESET -> {Result(VTFP_R_OK), Result(VTFP_R_UNKNOWN_CMD)} \cup Refusals
      [] cmd = VTFP_CMD_HEARTBEAT -> {Result(VTFP_R_OK), Result(VTFP_R_UNKNOWN_CMD)}
      [] OTHER -> {Result(VTFP_R_UNKNOWN_CMD)}

ServeStandard ==
    /\ request.command \in StdRange
    /\ \E r \in StandardReplies(request.command) : Serve(r)
    /\ UNCHANGED left

ServeUnknown ==
    /\ request.command \notin Registered \cup StdRange \cup {VTFP_CMD_ARM, VTFP_CMD_DISARM}
    /\ Serve(Result(VTFP_R_UNKNOWN_CMD))
    /\ UNCHANGED left

Dangerous == Policy[request.command] = "VTFP_ARM_REQUIRED"

ServeNotArmed ==
    /\ request.command \in Registered /\ Dangerous
    /\ left = 0
    /\ \E r \in Refusals : Serve(r)
    /\ UNCHANGED left

(* The handler starts under an open grant, and spends it.                  *)
Admit ==
    /\ phase = "pending" /\ phase' = "admitted"
    /\ request.command \in Registered
    /\ Dangerous => left > 0
    /\ left' = IF Dangerous /\ AutoDisarm THEN 0 ELSE left
    /\ UNCHANGED <<request, reply>>

Finish ==
    /\ phase = "admitted" /\ phase' = "served"
    /\ \E r \in HandlerResults, n \in HandlerLens : reply' = [result |-> r, len |-> n]
    /\ UNCHANGED <<request, left>>

Return == phase = "served" /\ phase' = "none" /\ UNCHANGED <<request, reply, left>>

Elapse == left > 0 /\ left' = left - 1 /\ UNCHANGED <<phase, request, reply>>

Next ==
    \/ Call
    \/ ServeArm
    \/ ServeDisarm
    \/ ServeStandard
    \/ ServeUnknown
    \/ ServeNotArmed
    \/ Admit
    \/ Finish
    \/ Return
    \/ Elapse

Spec == Init /\ [][Next]_rpcVars

=============================================================================
