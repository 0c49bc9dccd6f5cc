--------------------------- MODULE VtfpSdk_proofs ---------------------------
(***************************************************************************)
(* Theorems about the PC library and the VTFP runtime together, for every  *)
(* clock, window, dispatch table, number of calls and of turns, and for    *)
(* every loss, late reply and restart.                                     *)
(***************************************************************************)
EXTENDS VtfpSdk, VtfpCore_proofs

(* The stores that the controller has left to do go to header words, and   *)
(* it stores no command but 0.                                             *)
TodoInv ==
    /\ DOMAIN hdr = Words
    /\ todo \in Seq(Words \X Nat)
    /\ \A n \in DOMAIN todo : todo[n][1] = "command" => todo[n][2] = 0

ClearsCommand == \E n \in DOMAIN todo : todo[n][1] = "command"

(* Unless a command was stored in the window of vtfp_init(), whatever the  *)
(* controller seals, or has sealed, holds no command.                      *)
SealedIsIdle ==
    /\ DOMAIN snap = Words /\ copied \in 0 .. 7
    /\ pc = "init" => copied = 0
    /\ ~early =>
        /\ pc = "init" => ClearsCommand \/ hdr["command"] = 0
        /\ pc = "seal" => IF copied < 3 THEN hdr["command"] = 0 ELSE snap["command"] = 0
        /\ checksum["command"] = 0 /\ snapsum["command"] = 0
        /\ ~Armed
        /\ pc \notin {"run", "finish"}

(* A command in the header belongs to the call that polls for its answer,  *)
(* or to one that was given up or misled.                                  *)
CommandInv == hdr["command"] # 0 /\ sdk \notin {"result", "ack"} => abandoned \/ misled

LEMMA CommandIsAWord ==
    /\ {"command", "data_len", "seq", "param"} \subseteq Words
    /\ DOMAIN Zero = Words /\ Zero["command"] = 0
    /\ WordAt[3] = "command" /\ Len(WordAt) = 7
    /\ \A i \in 1 .. 7 : WordAt[i] \in Words /\ (WordAt[i] = "command" => i = 3)
<1>1. "command" \in Words /\ Len(WordAt) = 7
  BY DEF Words, WordAt
<1>2. DOMAIN Zero = Words /\ Zero["command"] = 0
  BY <1>1 DEF Zero
<1>3. \A i \in 1 .. 7 : WordAt[i] \in Words /\ (WordAt[i] = "command" => i = 3)
  BY DEF Words, WordAt
<1>4. QED
  BY <1>1, <1>2, <1>3 DEF Words, WordAt

-----------------------------------------------------------------------------
(* What the controller stores.                                             *)

LEMMA TypedStores ==
    /\ \A r \in Nat : /\ Respond(r) \in Seq(Words \X Nat)
                      /\ \A n \in DOMAIN Respond(r) :
                            Respond(r)[n][1] = "command" => Respond(r)[n][2] = 0
    /\ \A r, len \in Nat : /\ Answer(r, len) \in Seq(Words \X Nat)
                           /\ \A n \in DOMAIN Answer(r, len) :
                                Answer(r, len)[n][1] = "command" => Answer(r, len)[n][2] = 0
    /\ InitStores \in Seq(Words \X Nat)
    /\ \A n \in DOMAIN InitStores : InitStores[n][1] = "command" => InitStores[n][2] = 0
    /\ \E n \in DOMAIN InitStores : InitStores[n][1] = "command"
<1>1. ASSUME NEW r \in Nat, NEW n \in DOMAIN Respond(r), Respond(r)[n][1] = "command"
      PROVE  Respond(r)[n][2] = 0
  BY <1>1 DEF Respond
<1>2. ASSUME NEW r \in Nat, NEW len \in Nat,
             NEW n \in DOMAIN Answer(r, len), Answer(r, len)[n][1] = "command"
      PROVE  Answer(r, len)[n][2] = 0
  BY <1>2 DEF Answer
<1>3. ASSUME NEW n \in DOMAIN InitStores, InitStores[n][1] = "command"
      PROVE  InitStores[n][2] = 0
  BY <1>3 DEF InitStores
<1>4. 3 \in DOMAIN InitStores /\ InitStores[3][1] = "command"
  BY DEF InitStores
<1>5. QED
  BY <1>1, <1>2, <1>3, <1>4, AnswersAreStores

(* The answers of the dispatch.                                            *)
LEMMA DispatchStores ==
    ASSUME TodoInv, Dispatch \/ RunHandler
    PROVE  TodoInv' /\ hdr' = hdr
<1>. USE DEF TodoInv
<1>1. ASSUME NEW r \in Nat, Reply(Respond(r)) PROVE TodoInv' /\ hdr' = hdr
  BY <1>1, TypedStores DEF Reply
<1>2. ASSUME NEW r \in Nat, NEW len \in Nat, Reply(Answer(r, len)) PROVE TodoInv' /\ hdr' = hdr
  BY <1>2, TypedStores DEF Reply
<1>3. /\ VTFP_R_OK \in Nat /\ VTFP_R_UNKNOWN_CMD \in Nat /\ VTFP_R_SAFETY_KEY \in Nat
      /\ VTFP_R_NOT_ARMED \in Nat /\ VTFP_R_BUF_OVERFLOW \in Nat /\ InfoLen \in Nat
  BY CoreAssumption DEF VTFP_R_OK, VTFP_R_UNKNOWN_CMD, VTFP_R_SAFETY_KEY, VTFP_R_NOT_ARMED,
     VTFP_R_BUF_OVERFLOW
<1>4. CASE PollIdle
  BY <1>4 DEF PollIdle, Sleep
<1>5. CASE PollAdmit
  BY <1>5 DEF PollAdmit
<1>6. CASE PollCorrupt \/ PollDisarm \/ PollUnknown \/ PollNotArmed
  BY <1>1, <1>3, <1>6 DEF PollCorrupt, PollDisarm, PollUnknown, PollNotArmed
<1>7. CASE PollArm
  BY <1>1, <1>3, <1>7 DEF PollArm
<1>8. CASE PollStandard
  BY <1>1, <1>2, <1>3, <1>8 DEF PollStandard
<1>9. CASE RunHandler
  <2>1. PICK r \in HandlerResults, len \in HandlerLens : todo' = Answer(r, len) /\ hdr' = hdr
    BY <1>9 DEF RunHandler
  <2>2. r \in Nat /\ len \in Nat
    BY CoreAssumption
  <2>3. QED
    BY <2>1, <2>2, TypedStores
<1>10. QED
  BY <1>4, <1>5, <1>6, <1>7, <1>8, <1>9 DEF Dispatch

(* One store: the command is cleared or left alone, and left alone unless  *)
(* a clearing was still to be done.                                        *)
LEMMA StoreClears ==
    ASSUME TodoInv, StoreWord
    PROVE  /\ TodoInv'
           /\ hdr'["command"] \in {0, hdr["command"]}
           /\ ClearsCommand => ClearsCommand' \/ hdr'["command"] = 0
<1>. USE DEF TodoInv
<1>1. /\ todo # <<>> /\ todo' = Tail(todo)
      /\ hdr' = [hdr EXCEPT ![Head(todo)[1]] = Head(todo)[2]]
  BY DEF StoreWord
<1>2. Head(todo) = todo[1] /\ 1 \in DOMAIN todo
  BY <1>1
<1>3. /\ todo' \in Seq(Words \X Nat)
      /\ \A n \in DOMAIN todo' : n + 1 \in DOMAIN todo /\ todo'[n] = todo[n + 1]
      /\ \A n \in DOMAIN todo : n # 1 => n - 1 \in DOMAIN todo' /\ todo'[n - 1] = todo[n]
  BY <1>1
<1>4. \A n \in DOMAIN todo' : todo'[n][1] = "command" => todo'[n][2] = 0
  BY <1>3
<1>5. CASE todo[1][1] = "command"
  <2>1. DOMAIN hdr' = Words /\ hdr'["command"] = 0
    BY <1>1, <1>2, <1>5, CommandIsAWord
  <2>2. QED
    BY <1>3, <1>4, <2>1
<1>6. CASE todo[1][1] # "command"
  <2>1. DOMAIN hdr' = Words /\ hdr'["command"] = hdr["command"]
    BY <1>1, <1>2, <1>6, CommandIsAWord
  <2>2. ASSUME ClearsCommand PROVE ClearsCommand'
    <3>1. PICK n \in DOMAIN todo : todo[n][1] = "command"
      BY <2>2 DEF ClearsCommand
    <3>2. n # 1
      BY <1>6, <3>1
    <3>3. n - 1 \in DOMAIN todo' /\ todo'[n - 1][1] = "command"
      BY <1>3, <3>1, <3>2
    <3>4. QED
      BY <3>3 DEF ClearsCommand
  <2>3. QED
    BY <1>3, <1>4, <2>1, <2>2
<1>7. QED
  BY <1>5, <1>6

LEMMA ControllerClears ==
    ASSUME TodoInv, Device
    PROVE  TodoInv' /\ hdr'["command"] \in {0, hdr["command"]}
<1>1. CASE Restart
  BY <1>1, TypedStores, CommandIsAWord DEF Restart, TodoInv
<1>2. CASE UNCHANGED <<hdr, todo>>
  BY <1>2 DEF TodoInv
<1>3. vtfp_init \/ Wake \/ CopyWord \/ CopyChecksum \/ PollReturn \/ Tick => UNCHANGED <<hdr, todo>>
  BY DEF vtfp_init, ClearChecksum, SealWord, WriteChecksum, ReadWord, Wake, CopyWord,
         CopyChecksum, PollReturn, Sleep, Tick, coreVars
<1>4. QED
  BY <1>1, <1>2, <1>3, StoreClears, DispatchStores DEF Device, vTaskVTFP

-----------------------------------------------------------------------------
(* What the controller seals.                                              *)

(* A snapshot that passes the checksum is a sealed header: no command.     *)
LEMMA SealedIsNotAccepted == SealedIsIdle /\ ~early => ~Accepted
BY DEF SealedIsIdle, Accepted, Pending, Valid, Command

(* A step of the task, when it accepts nothing.                            *)
LEMMA TaskSeals ==
    ASSUME TodoInv, SealedIsIdle, vTaskVTFP \/ Tick, early' = early
    PROVE  SealedIsIdle'
<1>1. CASE ClearChecksum
  <2>1. /\ pc = "init" /\ pc' = "seal" /\ todo = <<>> /\ checksum' = Zero
        /\ UNCHANGED <<armVars, hdr, copied, snap, snapsum>>
    BY <1>1 DEF ClearChecksum
  <2>2. ~ClearsCommand
    BY <2>1 DEF ClearsCommand
  <2>3. QED
    BY <2>1, <2>2, CommandIsAWord DEF SealedIsIdle, armVars, Armed
<1>2. CASE SealWord \/ CopyWord
  <2>1. /\ pc \in {"seal", "copy"} /\ copied \in 0 .. 6 /\ copied' = copied + 1
        /\ snap' = [snap EXCEPT ![WordAt[copied + 1]] = hdr[WordAt[copied + 1]]]
        /\ UNCHANGED <<armVars, hdr, checksum, pc, snapsum>>
    <3>1. copied \in 0 .. 7 /\ copied < 7
      BY <1>2, CommandIsAWord DEF SealWord, CopyWord, ReadWord, SealedIsIdle
    <3>2. copied \in 0 .. 6
      BY <3>1
    <3>3. QED
      BY <1>2, <3>2 DEF SealWord, CopyWord, ReadWord
  <2>2. DOMAIN snap' = Words /\ copied' \in 0 .. 7
    BY <2>1 DEF SealedIsIdle
  <2>3. WordAt[copied + 1] = "command" <=> copied = 2
    BY <2>1, CommandIsAWord
  <2>4. snap'["command"] = IF copied = 2 THEN hdr["command"] ELSE snap["command"]
    BY <2>1, <2>3, CommandIsAWord DEF SealedIsIdle
  <2>5. pc = "seal" /\ ~early => IF copied' < 3 THEN hdr["command"] = 0 ELSE snap'["command"] = 0
    BY <2>1, <2>4 DEF SealedIsIdle
  <2>6. QED
    BY <2>1, <2>2, <2>5 DEF SealedIsIdle, armVars, Armed
<1>3. CASE WriteChecksum
  <2>1. /\ pc = "seal" /\ copied = 7 /\ checksum' = snap /\ pc' = "sleep" /\ copied' = 0
        /\ snap' = Zero /\ snapsum' = snapsum /\ s_arm' = Disarmed
    BY <1>3, CommandIsAWord DEF WriteChecksum
  <2>2. ~early => snap["command"] = 0
    BY <2>1 DEF SealedIsIdle
  <2>3. QED
    BY <2>1, <2>2, CommandIsAWord DEF SealedIsIdle, Armed, Disarmed
<1>4. CASE Wake \/ CopyChecksum
  <2>1. /\ pc \notin {"init", "seal", "run", "finish"} /\ pc' \in {"copy", "check"}
        /\ snapsum' \in {snapsum, checksum} /\ UNCHANGED <<armVars, checksum, copied, snap>>
    BY <1>4 DEF Wake, CopyChecksum
  <2>2. QED
    BY <2>1 DEF SealedIsIdle, armVars, Armed
<1>5. CASE PollIdle \/ PollReturn
  <2>1. /\ pc' = "sleep" /\ copied' = 0 /\ snap' = Zero /\ snapsum' = Zero /\ checksum' = checksum
        /\ UNCHANGED s_arm \/ s_arm' = Disarmed
    BY <1>5 DEF PollIdle, PollReturn, Sleep, armVars, vtfp_arm_disarm
  <2>2. QED
    BY <2>1, CommandIsAWord DEF SealedIsIdle, Armed, Disarmed
<1>6. CASE PollCorrupt
  <2>1. pc' = "store" /\ UNCHANGED <<s_arm, checksum, copied, snap, snapsum>>
    BY <1>6 DEF PollCorrupt, Reply, armVars
  <2>2. QED
    BY <2>1 DEF SealedIsIdle, Armed
<1>7. CASE PollArm \/ PollDisarm \/ PollStandard \/ PollUnknown \/ PollNotArmed \/ PollAdmit
  <2>1. Accepted /\ pc' \in {"store", "run"} /\ UNCHANGED <<copied, snap>>
    BY <1>7 DEF PollArm, PollDisarm, PollStandard, PollUnknown, PollNotArmed, PollAdmit, Reply
  <2>2. early
    BY <2>1, SealedIsNotAccepted
  <2>3. QED
    BY <2>1, <2>2 DEF SealedIsIdle
<1>8. CASE RunHandler
  <2>1. pc = "run" /\ pc' = "finish" /\ UNCHANGED <<copied, snap>>
    BY <1>8 DEF RunHandler
  <2>2. QED
    BY <2>1 DEF SealedIsIdle
<1>9. CASE StoreWord
  <2>1. /\ pc \in {"init", "store", "finish"}
        /\ UNCHANGED <<armVars, checksum, pc, copied, snap, snapsum>>
    BY <1>9 DEF StoreWord
  <2>2. ClearsCommand \/ hdr["command"] = 0 => ClearsCommand' \/ hdr'["command"] = 0
    BY <1>9, StoreClears
  <2>3. QED
    BY <2>1, <2>2 DEF SealedIsIdle, armVars, Armed
<1>10. CASE Tick
  <2>1. UNCHANGED <<s_arm, hdr, checksum, pc, copied, snap, snapsum, todo>>
    BY <1>10 DEF Tick, TickMs, coreVars
  <2>2. QED
    BY <2>1 DEF SealedIsIdle, Armed, ClearsCommand
<1>11. QED
  BY <1>1, <1>2, <1>3, <1>4, <1>5, <1>6, <1>7, <1>8, <1>9, <1>10
  DEF vTaskVTFP, Dispatch, vtfp_init

LEMMA RestartSeals == Restart => SealedIsIdle'
<1>. SUFFICES ASSUME Restart PROVE SealedIsIdle'
  OBVIOUS
<1>1. /\ pc' = "init" /\ copied' = 0 /\ snap' = Zero /\ checksum' = Zero /\ snapsum' = Zero
      /\ s_arm' = Disarmed /\ hdr' = Zero
  BY DEF Restart
<1>2. QED
  BY <1>1, CommandIsAWord DEF SealedIsIdle, Armed, Disarmed

(* A step of the library stores at most one word of the header; the        *)
(* command word only in WriteCommand.                                      *)
LEMMA LibraryStep ==
    ASSUME TodoInv, Access \/ User
    PROVE  /\ UNCHANGED <<armVars, checksum, pc, copied, snap, snapsum, todo>>
           /\ DOMAIN hdr' = Words
           /\ ~WriteCommand => hdr'["command"] = hdr["command"] /\ early' = early
<1>. USE DEF vars, coreVars, ghostVars, TodoInv
<1>1. CASE User
  BY <1>1 DEF User, direct, discover, invoke, Begin, NewAgent
<1>2. CASE WriteDataLen \/ WriteSeq \/ WriteParam
  <2>1. /\ UNCHANGED <<armVars, checksum, pc, copied, snap, snapsum, todo, early>>
        /\ hdr' = hdr \/ \E w \in {"data_len", "seq", "param"} : \E v : hdr' = [hdr EXCEPT ![w] = v]
    BY <1>2 DEF WriteDataLen, WriteSeq, WriteParam, WriteU32
  <2>2. DOMAIN hdr' = Words /\ hdr'["command"] = hdr["command"]
    BY <2>1, CommandIsAWord
  <2>3. QED
    BY <2>1, <2>2
<1>3. CASE WriteCommand
  <2>1. /\ UNCHANGED <<armVars, checksum, pc, copied, snap, snapsum, todo>>
        /\ hdr' = hdr \/ \E v : hdr' = [hdr EXCEPT !["command"] = v]
    BY <1>3 DEF WriteCommand, WriteU32
  <2>2. DOMAIN hdr' = Words
    BY <2>1
  <2>3. QED
    BY <1>3, <2>1, <2>2
<1>4. CASE CheckMagic \/ CheckHeader \/ ReadResult \/ ReadCommandAgain
  BY <1>4 DEF CheckMagic, CheckHeader, ReadResult, ReadCommandAgain
<1>5. CASE ReadCommandDone
  BY <1>5 DEF ReadCommandDone
<1>6. CASE ReadFails \/ DeadlinePasses
  BY <1>6 DEF ReadFails, DeadlinePasses, GivesUp
<1>7. QED
  BY <1>1, <1>2, <1>3, <1>4, <1>5, <1>6 DEF Access

LEMMA LibrarySeals ==
    ASSUME TodoInv, SealedIsIdle, Access \/ User
    PROVE  TodoInv' /\ SealedIsIdle'
<1>1. /\ UNCHANGED <<s_arm, checksum, pc, copied, snap, snapsum, todo>> /\ DOMAIN hdr' = Words
      /\ ~WriteCommand => hdr'["command"] = hdr["command"] /\ early' = early
  BY LibraryStep DEF armVars
<1>2. TodoInv' /\ (ClearsCommand' <=> ClearsCommand) /\ (Armed' <=> Armed)
  BY <1>1 DEF TodoInv, ClearsCommand, Armed
<1>3. CASE ~WriteCommand
  BY <1>1, <1>2, <1>3 DEF SealedIsIdle
<1>4. CASE WriteCommand
  <2>1. ~early' => ~early /\ ~InitWindow
    BY <1>4 DEF WriteCommand
  <2>2. ~InitWindow /\ pc = "init" => ClearsCommand
    BY DEF InitWindow, ClearsCommand
  <2>3. ~InitWindow /\ pc = "seal" => ~(copied < 3)
    BY DEF InitWindow
  <2>4. QED
    BY <1>1, <1>2, <2>1, <2>2, <2>3 DEF SealedIsIdle
<1>5. QED
  BY <1>2, <1>3, <1>4

LEMMA InitSealed == SdkInit => TodoInv /\ SealedIsIdle
<1>. SUFFICES ASSUME SdkInit PROVE TodoInv /\ SealedIsIdle
  OBVIOUS
<1>1. /\ pc = "init" /\ copied = 0 /\ snap = Zero /\ checksum = Zero /\ snapsum = Zero
      /\ s_arm = Disarmed /\ hdr = Zero /\ todo = InitStores
  BY DEF SdkInit, Init, ArmInit
<1>2. TodoInv
  BY <1>1, TypedStores, CommandIsAWord DEF TodoInv
<1>3. SealedIsIdle
  BY <1>1, CommandIsAWord DEF SealedIsIdle, Armed, Disarmed
<1>4. QED
  BY <1>2, <1>3

LEMMA SealedStep ==
    ASSUME TodoInv, SealedIsIdle, [SdkNext]_allVars
    PROVE  TodoInv' /\ SealedIsIdle'
<1>1. CASE Controller
  <2>1. Device /\ (Restart \/ ((vTaskVTFP \/ Tick) /\ early' = early))
    BY <1>1 DEF Controller, Device
  <2>2. QED
    BY <2>1, ControllerClears, TaskSeals, RestartSeals
<1>2. CASE UNCHANGED allVars
  <2>1. UNCHANGED <<s_arm, hdr, checksum, pc, copied, snap, snapsum, todo, early>>
    BY <1>2 DEF allVars, vars, armVars, coreVars, ghostVars
  <2>2. QED
    BY <2>1 DEF TodoInv, SealedIsIdle, Armed, ClearsCommand
<1>3. QED
  BY <1>1, <1>2, LibrarySeals DEF SdkNext

(* The controller takes a command of the library only if it sealed that    *)
(* command itself, in vtfp_init(); all others are rejected, run no handler *)
(* and open no grant.                                                      *)
THEOREM OnlySealedAtInitIsServed == SdkSpec => []OnlyEarlyIsAccepted
<1>1. TodoInv /\ SealedIsIdle /\ [SdkNext]_allVars => (TodoInv /\ SealedIsIdle)'
  BY SealedStep
<1>2. SealedIsIdle => OnlyEarlyIsAccepted
  BY SealedIsNotAccepted DEF SealedIsIdle, OnlyEarlyIsAccepted
<1>3. QED
  BY <1>1, <1>2, InitSealed, PTL DEF SdkSpec

-----------------------------------------------------------------------------
(* What the library replaces.                                              *)

LEMMA LibraryStores ==
    ASSUME TodoInv, CommandInv, Access \/ User
    PROVE  /\ CommandInv'
           /\ hdr["command"] # 0 /\ hdr'["command"] \notin {0, hdr["command"]}
                => abandoned \/ misled
<1>. USE DEF CommandInv, ghostVars, vars, coreVars, SdkStep, End
<1>0. ~WriteCommand => hdr'["command"] = hdr["command"]
  BY LibraryStep
<1>1. CASE WriteCommand
  BY <1>1 DEF WriteCommand
<1>2. CASE User
  BY <1>2 DEF User, direct, discover, invoke, Begin, NewAgent
<1>3. CASE CheckMagic \/ CheckHeader
  BY <1>3 DEF CheckMagic, CheckHeader
<1>4. CASE WriteDataLen \/ WriteSeq \/ WriteParam
  <2>1. sdk \notin {"result", "ack"} /\ UNCHANGED <<abandoned, misled>>
    BY <1>4 DEF WriteDataLen, WriteSeq, WriteParam
  <2>2. ~WriteCommand
    BY <1>4 DEF WriteDataLen, WriteSeq, WriteParam, WriteCommand
  <2>3. QED
    BY <1>0, <2>1, <2>2
<1>5. CASE ReadResult \/ ReadCommandAgain
  BY <1>5 DEF ReadResult, ReadCommandAgain
<1>6. CASE ReadCommandDone
  <2>1. hdr' = hdr /\ abandoned' = abandoned /\ (hdr["command"] = 0 \/ misled')
    BY <1>6 DEF ReadCommandDone, Acknowledged
  <2>2. QED
    BY <2>1
<1>7. CASE ReadFails \/ DeadlinePasses
  BY <1>7 DEF ReadFails, DeadlinePasses, GivesUp
<1>8. QED
  BY <1>1, <1>2, <1>3, <1>4, <1>5, <1>6, <1>7 DEF Access

(* A command that the controller has not taken is replaced only when the   *)
(* call that stored it has given up, or took a late reply to another       *)
(* access for the acknowledgement.                                         *)
THEOREM OnlyAbandonedIsOverwritten == SdkSpec => OverwritesOnlyAbandoned
<1>1. SdkInit => CommandInv
  BY CommandIsAWord DEF SdkInit, Init, CommandInv
<1>2. ASSUME TodoInv, CommandInv, Controller
      PROVE  CommandInv' /\ hdr'["command"] \in {0, hdr["command"]}
  <2>1. hdr'["command"] \in {0, hdr["command"]}
    BY <1>2, ControllerClears DEF Controller, Device
  <2>2. UNCHANGED <<sdk, abandoned, misled>>
    BY <1>2 DEF Controller, callVars
  <2>3. QED
    BY <1>2, <2>1, <2>2 DEF CommandInv
<1>3. TodoInv /\ CommandInv /\ [SdkNext]_allVars => CommandInv'
  <2>1. ASSUME CommandInv, UNCHANGED allVars PROVE CommandInv'
    BY <2>1 DEF CommandInv, allVars, vars, coreVars, callVars, ghostVars
  <2>2. QED
    BY <1>2, <2>1, LibraryStores DEF SdkNext
<1>4. TodoInv /\ CommandInv /\ [SdkNext]_allVars =>
        [hdr["command"] # 0 /\ hdr'["command"] \notin {0, hdr["command"]}
           => abandoned \/ misled]_allVars
  BY <1>2, LibraryStores DEF SdkNext
<1>5. SdkInit => TodoInv /\ SealedIsIdle
  BY InitSealed
<1>6. TodoInv /\ SealedIsIdle /\ [SdkNext]_allVars => (TodoInv /\ SealedIsIdle)'
  BY SealedStep
<1>7. QED
  BY <1>1, <1>3, <1>4, <1>5, <1>6, PTL DEF SdkSpec, OverwritesOnlyAbandoned

=============================================================================
