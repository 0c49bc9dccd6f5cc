------------------------------ MODULE VtfpSdk ------------------------------
(***************************************************************************)
(* The controller with the PC library as its PC (sdk.py, over the serial   *)
(* debug probe of bridge.py).  Each access of the library to the header is *)
(* a command to the probe and interleaves with the loads and stores of the *)
(* poll loop.  A block read of the probe is taken as one step.             *)
(*                                                                         *)
(* The probe fails silently.  send_command() clears its input, sends a     *)
(* line and returns the first line that comes in before its own timeout,   *)
(* or what it has by then: a store may be lost without an error, a load    *)
(* may return nothing, and a reply that arrives after its timeout is taken *)
(* for the reply of the next access, whose own reply is then late in turn. *)
(* The loads after the acknowledgement, whose values no property needs,    *)
(* are left out.                                                           *)
(***************************************************************************)
EXTENDS VtfpCore

CONSTANTS
    MaxSent,     \* BOUND: transactions that all calls together may begin
    MaxPolls,    \* BOUND: turns of the 20 ms loop before the deadline
    Direct,      \* which one-transaction methods are called, by command
    Eager,       \* whether calls begin before vtfp_init() has finished
    Lossy        \* whether the probe can lose an access or answer it late

ASSUME SdkAssumption ==
    /\ MaxSent \in Nat
    /\ MaxPolls \in Nat
    /\ Direct \subseteq {VTFP_CMD_ARM, VTFP_CMD_DISARM, VTFP_CMD_QUERY_INFO,
                         VTFP_CMD_QUERY_STATE}
    /\ Eager \in BOOLEAN
    /\ Lossy \in BOOLEAN

VARIABLES
    sdk,       \* where the agent is in the method that runs
    seq,       \* _seq of the agent
    budget,    \* BOUND: transactions that may still begin
    plan,      \* the <<command, param>> pairs this method has yet to send
    polls,     \* turns of the loop that are left
    got,       \* result_code, as last read
    outcome,   \* how the last method ended
    late,      \* BOUND: one reply that the library no longer waits for
    abandoned, \* ghost: the call that sent the command gave up on it
    misled,    \* ghost: that call took another reply for the acknowledgement
    served,    \* ghost: the controller has accepted a command since it was sent
    early      \* ghost: the command was stored before vtfp_init() sealed it

callVars == <<sdk, seq, budget, plan, polls, got, outcome>>
ghostVars == <<abandoned, misled, served, early>>
allVars == <<vars, callVars, late, ghostVars>>

(* Replies: a word, the text that acknowledges a store, or nothing.  Only  *)
(* a word can be unpacked.                                                 *)
Text == -1
NoReply == -2

SdkInit ==
    /\ Init
    /\ sdk = "idle" /\ seq = 0 /\ budget = MaxSent /\ plan = <<>>
    /\ polls = 0 /\ got = VTFP_R_OK /\ outcome = "none"
    /\ late = NoReply
    /\ abandoned = FALSE /\ misled = FALSE /\ served = FALSE /\ early = FALSE

SdkStep(from, to) == sdk = from /\ sdk' = to

(* A method returns or raises: its locals are gone.                        *)
End(how) ==
    /\ sdk' = "idle" /\ outcome' = how
    /\ plan' = <<>> /\ polls' = 0 /\ got' = VTFP_R_OK

(* An access that the probe answers with r is answered in time (anything   *)
(* older is cleared or read before it), gets a late reply in its place, or *)
(* gets none in time.                                                      *)
InTime == late' = NoReply
Behind(r) == Lossy /\ late # NoReply /\ late' = r
NotInTime(r) == Lossy /\ late' \in {NoReply, r}

(* _read_u32() of a word w of the header.                                  *)
Load(w, reply) ==
    \/ reply = hdr[w] /\ InTime
    \/ reply = late /\ Behind(hdr[w])
    \/ reply = NoReply /\ NotInTime(hdr[w])

Replies(w) == {hdr[w], late, NoReply}
IsWord(reply) == reply \notin {Text, NoReply}

(* _write_u32(): the only effect on the controller.                        *)
WriteU32(w, value) ==
    /\ \/ hdr' = [hdr EXCEPT ![w] = value] /\ (InTime \/ Behind(Text) \/ NotInTime(Text))
       \/ Lossy /\ hdr' = hdr /\ late' \in {NoReply, late}
    /\ UNCHANGED <<armVars, checksum, pc, copied, snap, snapsum, todo>>

(***************************************************************************)
(* The public methods                                                      *)
(***************************************************************************)

Begin(steps, at) ==
    /\ SdkStep("idle", at)
    /\ Eager \/ pc \notin {"init", "seal"}
    /\ Len(steps) <= budget
    /\ budget' = budget - Len(steps)
    /\ plan' = steps
    /\ outcome' = "none"
    /\ UNCHANGED <<vars, seq, polls, got, late, ghostVars>>

(* arm(), disarm(), query_info() and query_state(): one transaction each.  *)
direct(cmd) ==
    Begin(<<<<cmd, IF cmd = VTFP_CMD_ARM THEN SafetyKey ELSE 0>>>>, "seq")

discover == Begin(<<<<VTFP_CMD_QUERY_INFO, 0>>>>, "magic")

(* A command with requires_arm is preceded by arm().                       *)
invoke(cmd) ==
    IF Policy[cmd] = "VTFP_ARM_REQUIRED"
    THEN Begin(<<<<VTFP_CMD_ARM, SafetyKey>>, <<cmd, 0>>>>, "seq")
    ELSE Begin(<<<<cmd, 0>>>>, "data_len")

(* Every MCP tool call makes an agent of its own.                          *)
NewAgent ==
    /\ sdk = "idle" /\ seq > 0
    /\ seq' = 0
    /\ UNCHANGED <<vars, sdk, budget, plan, polls, got, outcome, late, ghostVars>>

(* discover(): the magic, then the header with its checksum and version.   *)
CheckMagic ==
    /\ \E reply \in Replies("magic") :
          /\ Load("magic", reply) /\ IsWord(reply)
          /\ IF reply = VTFP_MAGIC
             THEN SdkStep("magic", "verify") /\ UNCHANGED <<plan, polls, got, outcome>>
             ELSE sdk = "magic" /\ End("not_found")
    /\ UNCHANGED <<vars, seq, budget, ghostVars>>

CheckHeader ==
    /\ sdk = "verify"
    /\ InTime
    /\ IF checksum # hdr THEN End("corrupt")
       ELSE IF hdr["version"] # VTFP_VERSION THEN End("version")
       ELSE sdk' = "seq" /\ UNCHANGED <<plan, polls, got, outcome>>
    /\ UNCHANGED <<vars, seq, budget, ghostVars>>

(* invoke() without payload zeroes data_len.                               *)
WriteDataLen ==
    /\ SdkStep("data_len", "seq")
    /\ WriteU32("data_len", 0)
    /\ UNCHANGED <<seq, budget, plan, polls, got, outcome, ghostVars>>

(***************************************************************************)
(* _send_command_and_wait()                                                *)
(***************************************************************************)

WriteSeq ==
    /\ SdkStep("seq", "param")
    /\ seq' = seq + 1
    /\ WriteU32("seq", seq')
    /\ UNCHANGED <<budget, plan, polls, got, outcome, ghostVars>>

WriteParam ==
    /\ SdkStep("param", "command")
    /\ WriteU32("param", Head(plan)[2])
    /\ UNCHANGED <<seq, budget, plan, polls, got, outcome, ghostVars>>

(* The controller has cleared the command word in vtfp_init() and its CRC  *)
(* has not read it yet.                                                    *)
InitWindow ==
    \/ pc = "init" /\ \A i \in DOMAIN todo : todo[i][1] # "command"
    \/ pc = "seal" /\ copied < 3

WriteCommand ==
    /\ SdkStep("command", "result")
    /\ WriteU32("command", Head(plan)[1])
    /\ polls' = MaxPolls
    /\ got' = VTFP_R_UNKNOWN_CMD
    /\ abandoned' = FALSE /\ misled' = FALSE /\ served' = FALSE
    /\ early' = (early \/ InitWindow)
    /\ UNCHANGED <<seq, budget, plan, outcome>>

(* A turn of the loop reads the result first, and again if that fails ...  *)
ReadResult ==
    /\ sdk = "result" /\ polls > 0
    /\ polls' = polls - 1
    /\ \E reply \in Replies("result") :
          /\ Load("result", reply)
          /\ IF IsWord(reply)
             THEN sdk' = "ack" /\ got' = reply
             ELSE UNCHANGED <<sdk, got>>
    /\ UNCHANGED <<vars, seq, budget, plan, outcome, ghostVars>>

(* Deviation: any result but the initial one counts as an answer.          *)
Acknowledged_ResultOnly(cmd_now) == got # VTFP_R_UNKNOWN_CMD

(* ... and then whether the command is cleared.                            *)
Acknowledged(cmd_now) == cmd_now = 0 /\ got # VTFP_R_UNKNOWN_CMD

ReadCommandAgain ==
    /\ SdkStep("ack", "result")
    /\ \E reply \in Replies("command") :
          Load("command", reply) /\ IsWord(reply) /\ ~Acknowledged(reply)
    /\ UNCHANGED <<vars, seq, budget, plan, polls, got, outcome, ghostVars>>

(* arm() wants OK, and NOT_ARMED always raises; other results are returned.*)
ReadCommandDone ==
    /\ sdk = "ack"
    /\ \/ Acknowledged(hdr["command"]) /\ InTime /\ UNCHANGED misled
       \/ IsWord(late) /\ Acknowledged(late) /\ Behind(hdr["command"]) /\ misled' = TRUE
    /\ CASE got # VTFP_R_OK /\ (Head(plan)[1] \in {VTFP_CMD_ARM, VTFP_CMD_DISARM}
                                \/ got = VTFP_R_NOT_ARMED) -> End("raised")
         [] got = VTFP_R_OK /\ Len(plan) > 1 ->
               sdk' = "data_len" /\ plan' = Tail(plan) /\ UNCHANGED <<polls, got, outcome>>
         [] got = VTFP_R_OK /\ Len(plan) = 1 -> End("ok")
         [] OTHER -> End("returned_error")
    /\ UNCHANGED <<vars, seq, budget, abandoned, served, early>>

GivesUp(how) ==
    /\ End(how)
    /\ abandoned' = TRUE
    /\ UNCHANGED <<vars, seq, budget, misled, served, early>>

(* A reply that cannot be unpacked raises, inside the loop only for the    *)
(* command word; discover() does not catch it either.  The block that      *)
(* discover() reads second has more bytes than a late word.                *)
ReadFails ==
    /\ \/ sdk = "ack" /\ \E r \in Replies("command") : Load("command", r) /\ ~IsWord(r)
       \/ sdk = "magic" /\ \E r \in Replies("magic") : Load("magic", r) /\ ~IsWord(r)
       \/ sdk = "verify" /\ (Behind(hdr["magic"]) \/ NotInTime(hdr["magic"]))
    /\ GivesUp("error")

(* Deviation: the deadline is looked at only after a result was read.      *)
DeadlinePasses_AfterResult ==
    /\ sdk = "result" /\ got # VTFP_R_UNKNOWN_CMD
    /\ GivesUp("timeout")
    /\ UNCHANGED late

(* The deadline may pass after any number of turns: the probe is slow.     *)
DeadlinePasses ==
    /\ sdk = "result"
    /\ GivesUp("timeout")
    /\ UNCHANGED late

Access ==
    \/ CheckMagic
    \/ CheckHeader
    \/ WriteDataLen
    \/ WriteSeq
    \/ WriteParam
    \/ WriteCommand
    \/ ReadResult
    \/ ReadCommandAgain
    \/ ReadCommandDone
    \/ ReadFails
    \/ DeadlinePasses

User ==
    \/ \E cmd \in Direct : direct(cmd)
    \/ discover
    \/ \E cmd \in Registered : invoke(cmd)
    \/ NewAgent

(* The controller knows nothing of the library; `served' follows its polls *)
(* and a restart, which loses the header, ends what `early' tells.         *)
Controller ==
    /\ \/ (vTaskVTFP \/ Tick) /\ UNCHANGED early
       \/ Restart /\ early' = FALSE
    /\ served' = (served \/ Accepted)
    /\ UNCHANGED <<callVars, late, abandoned, misled>>

SdkNext == Controller \/ Access \/ User

(* A method that was called runs on, and the poll loop keeps polling.      *)
SdkSpec ==
    /\ SdkInit
    /\ [][SdkNext]_allVars
    /\ WF_allVars(Access)
    /\ WF_allVars(vTaskVTFP /\ Controller)

-----------------------------------------------------------------------------
(***************************************************************************)
(* Properties                                                              *)
(***************************************************************************)

(* The library never seals the header it changes, so the controller takes  *)
(* a command of it only if vtfp_init() sealed it: the library stored it    *)
(* between the controller's store of the command word and the end of its   *)
(* CRC (vtfp_core.c:68-78).  Otherwise no handler runs and no grant is     *)
(* ever opened, whatever is called, lost, late or restarted.               *)
OnlyEarlyIsAccepted == Accepted \/ Armed \/ pc \in {"run", "finish"} => early

(* A call that the library reports as a success has been taken by the      *)
(* controller ("this triggers MCU processing").                            *)
SuccessIsExecuted ==
    [][sdk # "idle" /\ sdk' = "idle" /\ outcome' = "ok" => served]_allVars

(* discover() finds a controller that runs and that nobody else writes to. *)
HealthyIsNotCorrupt ==
    [][sdk = "verify" /\ sdk' = "idle" => outcome' # "corrupt"]_allVars

(* The library replaces a command the controller has not taken only after  *)
(* it gave up on the call that wrote it, or took a late reply to another   *)
(* access for the acknowledgement.                                         *)
OverwritesOnlyAbandoned ==
    [][hdr["command"] # 0 /\ hdr'["command"] \notin {0, hdr["command"]}
       => abandoned \/ misled]_allVars

(* Every call ends, with an answer, an exception or a timeout, whatever    *)
(* the probe loses.                                                        *)
CallsEnd == sdk # "idle" ~> sdk = "idle"

=============================================================================
