------------------------------ MODULE VtfpCore ------------------------------
(***************************************************************************)
(* The VTFP runtime on the controller (vtfp_core.c, vtfp_dispatch.c,       *)
(* vtfp_checksum.c) and the header in RAM that it shares with the debug    *)
(* probe of a PC.                                                          *)
(*                                                                         *)
(* Both sides access the header word by word and nothing excludes one from *)
(* the other, so each load and each store is a step of its own.  The PC of *)
(* this module is the most general one: it stores any word of HostWrites   *)
(* at any time and may seal the header with a checksum at any time.        *)
(* VtfpBench and VtfpSdk replace it by the two PCs of the repository.      *)
(*                                                                         *)
(* The CRC-32 is modelled as injective: the checksum word holds the words  *)
(* it was computed over.  `features', `data_addr' and `flags' never change *)
(* after vtfp_init() and are left out, and so are the bytes of the data    *)
(* segment.                                                                *)
(***************************************************************************)
EXTENDS VtfpArm, VtfpProtocol, Sequences

CONSTANTS
    Policy,          \* arm policy of each registered user command
    HandlerResults,  \* the results that user handlers end with
    HandlerLens,     \* the response lengths that user handlers report
    InfoLen,         \* length of the QUERY_INFO answer
    HostWrites,      \* the <<word, value>> stores of the general PC
    Restarts         \* whether the controller may be reset

(* The words under the checksum, in address order.                         *)
WordAt == <<"magic", "version", "command", "result", "seq", "param", "data_len">>
Words == {"magic", "version", "command", "result", "seq", "param", "data_len"}
VTFP_MAGIC == 1346786390
VTFP_VERSION == 1

(* vtfp_register_handler() refuses an id outside the user partition.       *)
Registered == DOMAIN Policy

ASSUME CoreAssumption ==
    /\ Registered \subseteq UserRange
    /\ Policy \in [Registered -> {"VTFP_ARM_NONE", "VTFP_ARM_REQUIRED"}]
    /\ HandlerResults \subseteq Nat
    /\ HandlerLens \subseteq Nat
    /\ InfoLen \in Nat
    /\ HostWrites \subseteq Words \X Nat
    /\ Restarts \in BOOLEAN

VARIABLES
    hdr,       \* g_header: the covered words
    checksum,  \* g_header->checksum
    pc,        \* where the VTFP task is in vtfp_init / vtfp_poll
    copied,    \* how many words memcpy() has copied, or the CRC has read
    snap,      \* the local copy of the covered words, or what the CRC read
    snapsum,   \* the local copy of the checksum
    todo       \* the stores to the header that the task still has to do

coreVars == <<hdr, checksum, pc, copied, snap, snapsum, todo>>
vars == <<armVars, coreVars>>

Zero == [w \in Words |-> 0]

(***************************************************************************)
(* Start of the task: vtfp_init(), while a probe may already be writing    *)
(***************************************************************************)

InitStores ==
    << <<"magic", VTFP_MAGIC>>, <<"version", VTFP_VERSION>>, <<"command", 0>>,
       <<"result", VTFP_R_OK>>, <<"seq", 0>>, <<"param", 0>>, <<"data_len", 0>> >>

(* The section that holds the header is zeroed by the startup code.        *)
Init ==
    /\ ArmInit
    /\ hdr = Zero
    /\ checksum = Zero
    /\ pc = "init"
    /\ copied = 0
    /\ snap = Zero
    /\ snapsum = Zero
    /\ todo = InitStores

(* vtfp_checksum_write(): the checksum word is cleared, the CRC reads the  *)
(* words of the shared header one after the other, as they are by then,    *)
(* and what it read is sealed.  No other line of the controller seals.     *)
ClearChecksum ==
    /\ pc = "init"
    /\ todo = <<>>
    /\ checksum' = Zero
    /\ pc' = "seal"
    /\ UNCHANGED <<armVars, hdr, copied, snap, snapsum, todo>>

ReadWord(at) ==
    /\ pc = at
    /\ copied < Len(WordAt)
    /\ copied' = copied + 1
    /\ LET w == WordAt[copied + 1] IN snap' = [snap EXCEPT ![w] = hdr[w]]
    /\ UNCHANGED <<armVars, hdr, checksum, pc, snapsum, todo>>

SealWord == ReadWord("seal")

(* The seal, then vtfp_arm_init() and the registration of the handlers.    *)
WriteChecksum ==
    /\ pc = "seal"
    /\ copied = Len(WordAt)
    /\ checksum' = snap
    /\ pc' = "sleep"
    /\ copied' = 0 /\ snap' = Zero
    /\ s_arm' = Disarmed /\ age' = 0
    /\ UNCHANGED <<clock, hdr, snapsum, todo>>

Restart ==
    /\ Restarts
    /\ s_arm' = Disarmed /\ clock' = 0 /\ age' = 0
    /\ hdr' = Zero /\ checksum' = Zero
    /\ pc' = "init"
    /\ copied' = 0 /\ snap' = Zero /\ snapsum' = Zero /\ todo' = InitStores

(***************************************************************************)
(* vtfp_poll(): the snapshot                                               *)
(***************************************************************************)

(* vTaskDelay() returns.                                                   *)
Wake ==
    /\ pc = "sleep"
    /\ pc' = "copy"
    /\ UNCHANGED <<armVars, hdr, checksum, copied, snap, snapsum, todo>>

(* memcpy() loads the words one after the other, the checksum last.        *)
CopyWord == ReadWord("copy")

CopyChecksum ==
    /\ pc = "copy"
    /\ copied = Len(WordAt)
    /\ snapsum' = checksum
    /\ pc' = "check"
    /\ UNCHANGED <<armVars, hdr, checksum, copied, snap, todo>>

(***************************************************************************)
(* vtfp_poll(): validation and dispatch, on the snapshot only              *)
(***************************************************************************)

(* Deviations: answers that leave the command in the header.               *)
Respond_NoClear(r) == <<<<"result", r>>>>
Answer_NoClear(r, len) == <<<<"result", r>>, <<"data_len", len>>>>

(* Most answers clear the command before they store the result ...         *)
Respond(r) == <<<<"command", 0>>, <<"result", r>>>>

(* ... and the answer of a handler clears it last.                         *)
Answer(r, len) == <<<<"result", r>>, <<"data_len", len>>, <<"command", 0>>>>

Command == snap["command"]

(* Deviation: the checksum is not looked at.                               *)
Valid_NoChecksum ==
    /\ snap["magic"] = VTFP_MAGIC
    /\ snap["version"] = VTFP_VERSION

(* vtfp_checksum_verify() and the tests before it.                         *)
Valid ==
    /\ snap["magic"] = VTFP_MAGIC
    /\ snap["version"] = VTFP_VERSION
    /\ snapsum = snap

Pending == pc = "check" /\ Command # 0
Accepted == Pending /\ Valid

(* The end of a poll: its locals are gone.                                 *)
Sleep ==
    /\ pc' = "sleep"
    /\ copied' = 0 /\ snap' = Zero /\ snapsum' = Zero
    /\ UNCHANGED <<hdr, checksum, todo>>

Reply(stores) ==
    /\ pc' = "store"
    /\ todo' = stores
    /\ UNCHANGED <<hdr, checksum, copied, snap, snapsum>>

PollIdle ==
    /\ pc = "check" /\ Command = 0
    /\ Sleep
    /\ UNCHANGED armVars

PollCorrupt ==
    /\ Pending /\ ~Valid
    /\ Reply(Respond(VTFP_R_UNKNOWN_CMD))
    /\ UNCHANGED armVars

(* The answer looks at the flag, not at the key that came with the command.*)
PollArm ==
    /\ Accepted /\ Command = VTFP_CMD_ARM
    /\ vtfp_arm_try_arm(snap["param"])
    /\ Reply(Respond(IF s_arm'.state = "ARMED" THEN VTFP_R_OK ELSE VTFP_R_SAFETY_KEY))

PollDisarm ==
    /\ Accepted /\ Command = VTFP_CMD_DISARM
    /\ vtfp_arm_disarm
    /\ UNCHANGED clock
    /\ Reply(Respond(VTFP_R_OK))

(* vtfp_dispatch_standard(): QUERY_STATE tests the length of the answer,   *)
(* which vtfp_poll() has just set to 0.                                    *)
PollStandard ==
    /\ Accepted /\ Command \in StdRange
    /\ \/ Command = VTFP_CMD_QUERY_INFO /\ Reply(Answer(VTFP_R_OK, InfoLen))
       \/ Command = VTFP_CMD_QUERY_STATE /\ Reply(Answer(VTFP_R_BUF_OVERFLOW, 0))
       \/ /\ Command \notin {VTFP_CMD_QUERY_INFO, VTFP_CMD_QUERY_STATE}
          /\ Reply(Respond(VTFP_R_UNKNOWN_CMD))
    /\ UNCHANGED armVars

PollUnknown ==
    /\ Accepted
    /\ Command \notin StdRange \cup Registered \cup {VTFP_CMD_ARM, VTFP_CMD_DISARM}
    /\ Reply(Respond(VTFP_R_UNKNOWN_CMD))
    /\ UNCHANGED armVars

(* A registered user command: the flag guards the dangerous ones.          *)
Dangerous == Command \in Registered /\ Policy[Command] = "VTFP_ARM_REQUIRED"

PollNotArmed ==
    /\ Accepted /\ Dangerous
    /\ ~WindowOpen
    /\ vtfp_arm_is_armed
    /\ Reply(Respond(VTFP_R_NOT_ARMED))

PollAdmit ==
    /\ Accepted /\ Command \in Registered
    /\ IF Dangerous THEN WindowOpen /\ vtfp_arm_is_armed ELSE UNCHANGED armVars
    /\ pc' = "run"
    /\ UNCHANGED <<hdr, checksum, copied, snap, snapsum, todo>>

(* The handler runs after the check, possibly much later: the LCD task may *)
(* preempt the VTFP task in between.                                       *)
RunHandler ==
    /\ pc = "run"
    /\ \E r \in HandlerResults, len \in HandlerLens : todo' = Answer(r, len)
    /\ pc' = "finish"
    /\ UNCHANGED <<armVars, hdr, checksum, copied, snap, snapsum>>

(***************************************************************************)
(* The stores to the header, of vtfp_init() and of an answer, and the end  *)
(* of a poll                                                               *)
(***************************************************************************)

StoreWord ==
    /\ pc \in {"init", "store", "finish"}
    /\ todo # <<>>
    /\ hdr' = [hdr EXCEPT ![Head(todo)[1]] = Head(todo)[2]]
    /\ todo' = Tail(todo)
    /\ UNCHANGED <<armVars, checksum, pc, copied, snap, snapsum>>

(* Deviation: the grant outlives the command.                              *)
PollReturn_KeepsGrant ==
    /\ pc \in {"store", "finish"}
    /\ todo = <<>>
    /\ UNCHANGED armVars
    /\ Sleep

(* A dangerous command that was run spends the grant.                      *)
PollReturn ==
    /\ pc \in {"store", "finish"}
    /\ todo = <<>>
    /\ IF pc = "finish" /\ Dangerous /\ AutoDisarm
       THEN vtfp_arm_disarm /\ UNCHANGED clock
       ELSE UNCHANGED armVars
    /\ Sleep

Dispatch ==
    \/ PollIdle
    \/ PollCorrupt
    \/ PollArm
    \/ PollDisarm
    \/ PollStandard
    \/ PollUnknown
    \/ PollNotArmed
    \/ PollAdmit

(* The VTFP task: vtfp_init() once, then vtfp_poll() and vTaskDelay().     *)
vtfp_init ==
    \/ ClearChecksum
    \/ SealWord
    \/ WriteChecksum

vTaskVTFP ==
    \/ vtfp_init
    \/ Wake
    \/ CopyWord
    \/ CopyChecksum
    \/ Dispatch
    \/ RunHandler
    \/ StoreWord
    \/ PollReturn

(* What happens around it.                                                 *)
Tick == TickMs /\ UNCHANGED coreVars

Device == vTaskVTFP \/ Tick \/ Restart

(***************************************************************************)
(* The most general PC                                                     *)
(***************************************************************************)

HostStore ==
    /\ \E s \in HostWrites : hdr' = [hdr EXCEPT ![s[1]] = s[2]]
    /\ UNCHANGED <<armVars, checksum, pc, copied, snap, snapsum, todo>>

HostSeal ==
    /\ checksum' = hdr
    /\ UNCHANGED <<armVars, hdr, pc, copied, snap, snapsum, todo>>

Next == Device \/ HostStore \/ HostSeal

Spec == Init /\ [][Next]_vars

-----------------------------------------------------------------------------
(***************************************************************************)
(* Properties                                                              *)
(***************************************************************************)

TaskStates == {"init", "seal", "sleep", "copy", "check", "run", "store", "finish"}

(* The type invariant of the runtime and of the shared header.             *)
TypeOK ==
    /\ ArmTypeOK
    /\ hdr \in [Words -> Nat]
    /\ checksum \in [Words -> Nat]
    /\ pc \in TaskStates
    /\ copied \in 0 .. Len(WordAt)
    /\ snap \in [Words -> Nat]
    /\ snapsum \in [Words -> Nat]
    /\ todo \in Seq(Words \X Nat)

(* The inductive invariant of the ARM window.  On the tick clock the flag  *)
(* stands for a grant of the age that the counter tells, up to full turns  *)
(* of the counter; and a command between its admission and the end of its  *)
(* poll is a validated one.                                                *)
ClockAgreesWithAge ==
    Armed => /\ age <= MaxAge
             /\ Sub32(clock, s_arm.arm_tick) = age % ClockMod

AdmittedWasValid == pc \in {"run", "finish"} => Valid /\ Command \in Registered

ArmInv == TypeOK /\ ClockAgreesWithAge /\ AdmittedWasValid

(* A dangerous command passes the check of vtfp_poll() only in the first   *)
(* Timeout milliseconds of real time after the ARM that authorises it,     *)
(* however late the flag is looked at and whether or not the counter       *)
(* wrapped in between - up to a limit that the code has and the formula    *)
(* names: nothing clears an idle flag, so the Timeout milliseconds after   *)
(* every full turn of the counter (2^32 ms, 49.7 days) pass as well.       *)
AdmittedInWindow ==
    [][pc = "check" /\ pc' = "run" /\ Dangerous
       => Armed /\ age % ClockMod < Timeout]_vars

(* An ARM with a wrong key is answered SAFETY_KEY.                         *)
WrongKeyRefused ==
    [][pc = "check" /\ pc' = "store" /\ Valid /\ Command = VTFP_CMD_ARM
         /\ snap["param"] # SafetyKey
       => todo'[2] = <<"result", VTFP_R_SAFETY_KEY>>]_vars

(* Refinement: a grant of vtfp_arm.c is an abstract grant while it is      *)
(* younger than the window and no command has been admitted under it.  A   *)
(* command that runs on a flag which has stood for a full turn of the      *)
(* counter is not shown: it is admitted under no grant of ArmGrant, and    *)
(* AdmittedInWindow says when it can be.                                   *)
InDangerousCommand == pc \in {"run", "finish"} /\ Dangerous

Busy == InDangerousCommand /\ age < ClockMod

GrantLeft ==
    IF Armed /\ age < Timeout /\ ~(InDangerousCommand /\ AutoDisarm)
    THEN Timeout - age
    ELSE 0

Grants == INSTANCE ArmGrant WITH left <- GrantLeft, busy <- Busy

(* The runtime keeps the promise of ArmGrant whatever a PC stores in the   *)
(* header and however its stores fall between the loads of the snapshot:   *)
(* one grant, one window, and with auto_disarm one dangerous command, for  *)
(* every flag that is used before it has stood for a full turn.            *)
ImplementsArmGrant == Grants!Spec

(* A command that a PC leaves in the header is cleared in the end, under a *)
(* specification that keeps vTaskVTFP running: also a command of which     *)
(* only some words arrived, or whose sender gave up long ago.              *)
CommandIsCleared == hdr["command"] # 0 ~> hdr["command"] = 0

=============================================================================
