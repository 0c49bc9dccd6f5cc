-------------------------- MODULE VtfpCore_proofs --------------------------
(***************************************************************************)
(* Theorems about the VTFP runtime against the most general PC, for every  *)
(* clock width, window, key, dispatch table and set of stores.             *)
(***************************************************************************)
EXTENDS VtfpCore, TLAPS

(* The two shapes of an answer, and what vtfp_init() stores, are sequences *)
(* of stores to header words.                                              *)
LEMMA AnswersAreStores ==
    /\ \A r \in Nat : Respond(r) \in Seq(Words \X Nat)
    /\ \A r, len \in Nat : Answer(r, len) \in Seq(Words \X Nat)
    /\ InitStores \in Seq(Words \X Nat)
<1>1. {"magic", "version", "command", "result", "seq", "param", "data_len"} \subseteq Words
  BY DEF Words
<1>2. ASSUME NEW r \in Nat PROVE Respond(r) \in Seq(Words \X Nat)
  BY <1>1 DEF Respond
<1>3. ASSUME NEW r \in Nat, NEW len \in Nat PROVE Answer(r, len) \in Seq(Words \X Nat)
  BY <1>1 DEF Answer
<1>4. InitStores \in Seq(Words \X Nat)
  BY <1>1 DEF InitStores, VTFP_MAGIC, VTFP_VERSION, VTFP_R_OK
<1>5. QED
  BY <1>2, <1>3, <1>4

(* The counter stays in its range.                                         *)
LEMMA Succ32InRange ==
    ASSUME NEW t \in 0 .. ClockMod - 1
    PROVE  Succ32(t) \in 0 .. ClockMod - 1
BY ArmAssumption DEF Succ32

(* One millisecond more of elapsed time, as the wrapping counter tells it. *)
LEMMA ElapsedAdvances ==
    ASSUME NEW a \in 0 .. ClockMod - 1, NEW b \in 0 .. ClockMod - 1
    PROVE  Sub32(Succ32(a), b) = Succ32(Sub32(a, b))
BY ArmAssumption DEF Sub32, Succ32

LEMMA ElapsedStartsAtZero ==
    ASSUME NEW a \in 0 .. ClockMod - 1
    PROVE  Sub32(a, a) = 0
BY DEF Sub32

(* Turns of the counter: a number is so many turns and a rest, and there   *)
(* is one way to write it so.                                              *)
LEMMA TurnsAndRest ==
    ASSUME NEW a \in Nat
    PROVE  /\ a = (ClockMod * (a \div ClockMod)) + (a % ClockMod)
           /\ a % ClockMod \in 0 .. ClockMod - 1
           /\ a \div ClockMod \in Int
BY ArmAssumption, SMT

LEMMA RestIsUnique ==
    ASSUME NEW q \in Int, NEW r \in 0 .. ClockMod - 1,
           NEW q2 \in Int, NEW r2 \in 0 .. ClockMod - 1,
           (ClockMod * q) + r = (ClockMod * q2) + r2
    PROVE  r = r2
<1>. ClockMod \in Nat /\ ClockMod > 0
  BY ArmAssumption
<1>1. ClockMod * (q - q2) = r2 - r
  OBVIOUS
<1>2. CASE q - q2 >= 1
  <2>1. ClockMod * (q - q2) >= ClockMod
    BY <1>2
  <2>2. QED
    BY <1>1, <2>1
<1>3. CASE q - q2 <= -1
  <2>1. ClockMod * (q - q2) <= -ClockMod
    BY <1>3
  <2>2. QED
    BY <1>1, <2>1
<1>4. CASE q = q2
  BY <1>1, <1>4
<1>5. QED
  BY <1>2, <1>3, <1>4

LEMMA RestOfLessThanATurn ==
    ASSUME NEW a \in Nat, a < ClockMod
    PROVE  a % ClockMod = a
<1>1. a = (ClockMod * 0) + a /\ a \in 0 .. ClockMod - 1
  BY ArmAssumption
<1>2. QED
  BY <1>1, TurnsAndRest, RestIsUnique

(* The rest counts as the counter does.                                    *)
LEMMA RestAdvances ==
    ASSUME NEW a \in Nat
    PROVE  (a + 1) % ClockMod = Succ32(a % ClockMod)
<1>. DEFINE q == a \div ClockMod
            r == a % ClockMod
<1>1. a = (ClockMod * q) + r /\ r \in 0 .. ClockMod - 1 /\ q \in Int
  BY TurnsAndRest
<1>2. /\ a + 1 = (ClockMod * ((a + 1) \div ClockMod)) + ((a + 1) % ClockMod)
      /\ (a + 1) % ClockMod \in 0 .. ClockMod - 1
      /\ (a + 1) \div ClockMod \in Int
  BY TurnsAndRest
<1>. ClockMod \in Nat /\ ClockMod > 0
  BY ArmAssumption
<1>3. CASE r + 1 = ClockMod
  <2>1. a + 1 = (ClockMod * (q + 1)) + 0 /\ q + 1 \in Int /\ 0 \in 0 .. ClockMod - 1
    BY <1>1, <1>3
  <2>2. (a + 1) % ClockMod = 0
    BY <1>2, <2>1, RestIsUnique
  <2>3. QED
    BY <1>3, <2>2 DEF Succ32
<1>4. CASE r + 1 # ClockMod
  <2>1. a + 1 = (ClockMod * q) + (r + 1) /\ r + 1 \in 0 .. ClockMod - 1
    BY <1>1, <1>4
  <2>2. (a + 1) % ClockMod = r + 1
    BY <1>1, <1>2, <2>1, RestIsUnique
  <2>3. QED
    BY <1>4, <2>2 DEF Succ32
<1>5. QED
  BY <1>3, <1>4

-----------------------------------------------------------------------------

(* The part of type correctness that the ARM flag owns.                    *)
LEMMA ArmTypeStep ==
    ASSUME ArmTypeOK
    PROVE  /\ UNCHANGED armVars => ArmTypeOK'
           /\ vtfp_arm_is_armed => ArmTypeOK'
           /\ TickMs => ArmTypeOK'
           /\ vtfp_arm_disarm /\ clock' \in 0 .. ClockMod - 1 => ArmTypeOK'
           /\ \A key \in Nat : vtfp_arm_try_arm(key) => ArmTypeOK'
<1>. USE ArmAssumption DEF ArmTypeOK, Disarmed
<1>1. 0 \in 0 .. ClockMod - 1
  OBVIOUS
<1>2. vtfp_port_now_ms => clock' \in 0 .. ClockMod - 1
  BY Succ32InRange DEF vtfp_port_now_ms
<1>3. UNCHANGED armVars => ArmTypeOK'
  BY DEF armVars
<1>4. vtfp_arm_is_armed => ArmTypeOK'
  BY <1>1, <1>2 DEF vtfp_arm_is_armed
<1>5. TickMs => ArmTypeOK'
  BY Succ32InRange DEF TickMs
<1>6. vtfp_arm_disarm /\ clock' \in 0 .. ClockMod - 1 => ArmTypeOK'
  BY <1>1 DEF vtfp_arm_disarm
<1>7. ASSUME NEW key \in Nat PROVE vtfp_arm_try_arm(key) => ArmTypeOK'
  BY <1>2 DEF vtfp_arm_try_arm
<1>8. QED
  BY <1>3, <1>4, <1>5, <1>6, <1>7

(* Every step of the system keeps the words and the answers of their types. *)
LEMMA TypeStep ==
    ASSUME TypeOK, [Next]_vars
    PROVE  TypeOK'
<1>. USE DEF TypeOK
<1>. DEFINE SameArm == UNCHANGED armVars
            SamePoll == UNCHANGED <<copied, snap, snapsum>>
            SameRam == UNCHANGED <<hdr, checksum>>
<1>a. SameArm => ArmTypeOK'
  BY ArmTypeStep
<1>b. Zero \in [Words -> Nat]
  BY DEF Zero
<1>c. Sleep /\ ArmTypeOK' => TypeOK'
  BY <1>b DEF Sleep, TaskStates, WordAt
<1>d. ASSUME NEW s \in Seq(Words \X Nat), Reply(s), ArmTypeOK' PROVE TypeOK'
  BY <1>d DEF Reply, TaskStates
<1>e. ASSUME NEW at, ReadWord(at) PROVE TypeOK'
  <2>1. WordAt \in Seq(Words)
    BY DEF WordAt, Words
  <2>2. copied + 1 \in 1 .. Len(WordAt)
    BY <1>e DEF ReadWord, WordAt
  <2>3. WordAt[copied + 1] \in Words
    BY <2>1, <2>2
  <2>4. snap' \in [Words -> Nat]
    BY <1>e, <2>3 DEF ReadWord
  <2>5. copied' \in 0 .. Len(WordAt)
    BY <1>e, <2>2 DEF ReadWord, WordAt
  <2>6. QED
    BY <1>e, <1>a, <2>4, <2>5 DEF ReadWord
<1>1. CASE vtfp_init
  <2>1. CASE ClearChecksum
    BY <2>1, <1>a, <1>b DEF ClearChecksum, TaskStates
  <2>2. CASE SealWord
    BY <2>2, <1>e DEF SealWord
  <2>3. CASE WriteChecksum
    <3>1. ArmTypeOK'
      BY <2>3, ArmAssumption DEF WriteChecksum, ArmTypeOK, Disarmed
    <3>2. QED
      BY <2>3, <1>b, <3>1 DEF WriteChecksum, TaskStates, WordAt
  <2>4. QED
    BY <1>1, <2>1, <2>2, <2>3 DEF vtfp_init
<1>2. CASE Wake
  BY <1>2, <1>a DEF Wake, TaskStates
<1>3. CASE CopyWord
  BY <1>3, <1>e DEF CopyWord
<1>4. CASE CopyChecksum
  BY <1>4, <1>a DEF CopyChecksum, TaskStates
<1>5. CASE PollIdle
  BY <1>5, <1>a, <1>c DEF PollIdle
<1>6. CASE PollCorrupt
  <2>1. Reply(Respond(VTFP_R_UNKNOWN_CMD)) /\ UNCHANGED armVars
    BY <1>6 DEF PollCorrupt
  <2>2. VTFP_R_UNKNOWN_CMD \in Nat
    BY DEF VTFP_R_UNKNOWN_CMD
  <2>3. Respond(VTFP_R_UNKNOWN_CMD) \in Seq(Words \X Nat)
    BY <2>2, AnswersAreStores
  <2>4. QED
    BY <1>a, <1>d, <2>1, <2>3
<1>7. CASE PollArm
  <2>1. snap["param"] \in Nat
    BY DEF Words
  <2>2. ArmTypeOK'
    BY <1>7, <2>1, ArmTypeStep DEF PollArm
  <2>3. PICK r \in {VTFP_R_OK, VTFP_R_SAFETY_KEY} : Reply(Respond(r))
    BY <1>7 DEF PollArm
  <2>4. r \in Nat
    BY DEF VTFP_R_OK, VTFP_R_SAFETY_KEY
  <2>5. QED
    BY <1>d, <2>2, <2>3, <2>4, AnswersAreStores
<1>8. CASE PollDisarm
  <2>1. ArmTypeOK'
    BY <1>8, ArmTypeStep DEF PollDisarm, ArmTypeOK
  <2>2. Reply(Respond(VTFP_R_OK))
    BY <1>8 DEF PollDisarm
  <2>3. VTFP_R_OK \in Nat
    BY DEF VTFP_R_OK
  <2>4. Respond(VTFP_R_OK) \in Seq(Words \X Nat)
    BY <2>3, AnswersAreStores
  <2>5. QED
    BY <1>d, <2>1, <2>2, <2>4
<1>9. CASE PollStandard
  <2>1. PICK s \in {Answer(VTFP_R_OK, InfoLen), Answer(VTFP_R_BUF_OVERFLOW, 0),
                    Respond(VTFP_R_UNKNOWN_CMD)} : Reply(s)
    BY <1>9 DEF PollStandard
  <2>2. s \in Seq(Words \X Nat)
    <3>1. VTFP_R_OK \in Nat /\ VTFP_R_BUF_OVERFLOW \in Nat /\ VTFP_R_UNKNOWN_CMD \in Nat
      BY DEF VTFP_R_OK, VTFP_R_BUF_OVERFLOW, VTFP_R_UNKNOWN_CMD
    <3>2. InfoLen \in Nat /\ 0 \in Nat
      BY CoreAssumption
    <3>3. QED
      BY <2>1, <3>1, <3>2, AnswersAreStores
  <2>3. ArmTypeOK'
    BY <1>9, <1>a DEF PollStandard
  <2>4. QED
    BY <1>d, <2>1, <2>2, <2>3
<1>10. CASE PollUnknown
  <2>1. Reply(Respond(VTFP_R_UNKNOWN_CMD)) /\ UNCHANGED armVars
    BY <1>10 DEF PollUnknown
  <2>2. VTFP_R_UNKNOWN_CMD \in Nat
    BY DEF VTFP_R_UNKNOWN_CMD
  <2>3. Respond(VTFP_R_UNKNOWN_CMD) \in Seq(Words \X Nat)
    BY <2>2, AnswersAreStores
  <2>4. QED
    BY <1>a, <1>d, <2>1, <2>3
<1>11. CASE PollNotArmed
  <2>1. ArmTypeOK'
    BY <1>11, ArmTypeStep DEF PollNotArmed
  <2>2. Reply(Respond(VTFP_R_NOT_ARMED))
    BY <1>11 DEF PollNotArmed
  <2>3. VTFP_R_NOT_ARMED \in Nat
    BY DEF VTFP_R_NOT_ARMED
  <2>4. Respond(VTFP_R_NOT_ARMED) \in Seq(Words \X Nat)
    BY <2>3, AnswersAreStores
  <2>5. QED
    BY <1>d, <2>1, <2>2, <2>4
<1>12. CASE PollAdmit
  <2>1. ArmTypeOK'
    BY <1>12, <1>a, ArmTypeStep DEF PollAdmit
  <2>2. QED
    BY <1>12, <2>1 DEF PollAdmit, TaskStates
<1>13. CASE RunHandler
  <2>1. todo' \in Seq(Words \X Nat)
    <3>1. PICK r \in HandlerResults, len \in HandlerLens : todo' = Answer(r, len)
      BY <1>13 DEF RunHandler
    <3>2. r \in Nat /\ len \in Nat
      BY CoreAssumption
    <3>3. QED
      BY <3>1, <3>2, AnswersAreStores
  <2>2. QED
    BY <1>13, <1>a, <2>1 DEF RunHandler, TaskStates
<1>14. CASE StoreWord
  <2>1. Head(todo) \in Words \X Nat /\ Tail(todo) \in Seq(Words \X Nat)
    <3>1. todo # <<>>
      BY <1>14 DEF StoreWord
    <3>2. QED
      BY <3>1
  <2>2. hdr' \in [Words -> Nat]
    BY <1>14, <2>1 DEF StoreWord
  <2>3. QED
    BY <1>14, <1>a, <2>1, <2>2 DEF StoreWord
<1>15. CASE PollReturn
  <2>1. ArmTypeOK'
    BY <1>15, <1>a, ArmTypeStep DEF PollReturn, ArmTypeOK
  <2>2. QED
    BY <1>15, <1>c, <2>1 DEF PollReturn
<1>16. CASE Tick
  BY <1>16, ArmTypeStep DEF Tick, coreVars
<1>17. CASE Restart
  <2>1. ArmTypeOK'
    BY <1>17, ArmAssumption DEF Restart, ArmTypeOK, Disarmed
  <2>2. todo' \in Seq(Words \X Nat)
    BY <1>17, AnswersAreStores DEF Restart
  <2>3. copied' \in 0 .. Len(WordAt)
    BY <1>17 DEF Restart, WordAt
  <2>4. QED
    BY <1>17, <1>b, <2>1, <2>2, <2>3 DEF Restart, TaskStates
<1>18. CASE HostStore
  <2>1. hdr' \in [Words -> Nat]
    BY <1>18, CoreAssumption DEF HostStore
  <2>2. QED
    BY <1>18, <1>a, <2>1 DEF HostStore
<1>19. CASE HostSeal
  BY <1>19, <1>a DEF HostSeal
<1>20. CASE UNCHANGED vars
  BY <1>20, <1>a DEF vars, coreVars
<1>21. QED
  BY <1>1, <1>2, <1>3, <1>4, <1>5, <1>6, <1>7, <1>8, <1>9, <1>10, <1>11, <1>12,
     <1>13, <1>14, <1>15, <1>16, <1>17, <1>18, <1>19, <1>20
  DEF Next, Device, vTaskVTFP, Dispatch

LEMMA InitTypeOK == Init => TypeOK
<1>. USE DEF TypeOK
<1>1. ArmInit => ArmTypeOK
  BY ArmAssumption DEF ArmInit, ArmTypeOK, Disarmed
<1>2. Zero \in [Words -> Nat]
  BY DEF Zero
<1>3. Init => todo \in Seq(Words \X Nat)
  BY AnswersAreStores DEF Init
<1>4. Init => copied \in 0 .. Len(WordAt)
  BY DEF Init, WordAt
<1>5. QED
  BY <1>1, <1>2, <1>3, <1>4 DEF Init, TaskStates

(* The words and the answers are of their types in every state: nothing    *)
(* outside the covered words is stored, by the controller or by the PC.    *)
THEOREM TypeCorrect == Spec => []TypeOK
BY InitTypeOK, TypeStep, PTL DEF Spec

-----------------------------------------------------------------------------

(* Everything that can happen to the ARM flag in a step of the task, and   *)
(* in a step of the system.                                                *)
LEMMA TaskArmMoves ==
    ASSUME vTaskVTFP
    PROVE  \/ UNCHANGED armVars
           \/ s_arm' = Disarmed
           \/ \E key : vtfp_arm_try_arm(key)
           \/ vtfp_arm_is_armed
<1>1. WriteChecksum => s_arm' = Disarmed
  BY DEF WriteChecksum
<1>2. ClearChecksum \/ SealWord \/ Wake \/ CopyWord \/ CopyChecksum \/ RunHandler \/ StoreWord
        => UNCHANGED armVars
  BY DEF ClearChecksum, SealWord, ReadWord, Wake, CopyWord, CopyChecksum, RunHandler, StoreWord
<1>3. PollIdle \/ PollCorrupt \/ PollStandard \/ PollUnknown => UNCHANGED armVars
  BY DEF PollIdle, PollCorrupt, PollStandard, PollUnknown
<1>4. PollArm => \E key : vtfp_arm_try_arm(key)
  BY DEF PollArm
<1>5. PollDisarm => s_arm' = Disarmed
  BY DEF PollDisarm, vtfp_arm_disarm
<1>6. PollNotArmed => vtfp_arm_is_armed
  BY DEF PollNotArmed
<1>7. PollAdmit => vtfp_arm_is_armed \/ UNCHANGED armVars
  BY DEF PollAdmit
<1>8. PollReturn => s_arm' = Disarmed \/ UNCHANGED armVars
  BY DEF PollReturn, vtfp_arm_disarm
<1>9. QED
  BY <1>1, <1>2, <1>3, <1>4, <1>5, <1>6, <1>7, <1>8 DEF vTaskVTFP, Dispatch, vtfp_init

LEMMA ArmMoves ==
    ASSUME [Next]_vars
    PROVE  \/ UNCHANGED armVars
           \/ s_arm' = Disarmed
           \/ \E key : vtfp_arm_try_arm(key)
           \/ vtfp_arm_is_armed
           \/ TickMs
<1>1. Restart => s_arm' = Disarmed
  BY DEF Restart
<1>2. Tick => TickMs
  BY DEF Tick
<1>3. HostStore \/ HostSeal \/ UNCHANGED vars => UNCHANGED armVars
  BY DEF HostStore, HostSeal, vars
<1>4. QED
  BY <1>1, <1>2, <1>3, TaskArmMoves DEF Next, Device

(* The tick counter is the age of the grant, wrap or not, up to the full   *)
(* turns that it made since.                                               *)
LEMMA ClockStep ==
    ASSUME PortClock = "ticks",
           ArmTypeOK, ClockAgreesWithAge, [Next]_vars
    PROVE  ClockAgreesWithAge'
<1>. USE DEF ClockAgreesWithAge, Armed
<1>1. CASE UNCHANGED armVars
  BY <1>1 DEF armVars, Sub32
<1>2. CASE s_arm' = Disarmed
  BY <1>2 DEF Disarmed
<1>3. ASSUME NEW key, vtfp_arm_try_arm(key) PROVE ClockAgreesWithAge'
  <2>1. clock' = clock /\ clock \in 0 .. ClockMod - 1
    BY <1>3 DEF vtfp_arm_try_arm, vtfp_port_now_ms, ArmTypeOK
  <2>2. CASE key = SafetyKey
    <3>1. age' = 0 /\ s_arm'.arm_tick = clock
      BY <1>3, <2>2 DEF vtfp_arm_try_arm
    <3>2. Sub32(clock', s_arm'.arm_tick) = 0
      BY <2>1, <3>1, ElapsedStartsAtZero
    <3>3. 0 % ClockMod = 0
      BY ArmAssumption, RestOfLessThanATurn
    <3>4. QED
      BY <3>1, <3>2, <3>3, ArmAssumption
  <2>3. CASE key # SafetyKey
    BY <1>3, <2>1, <2>3 DEF vtfp_arm_try_arm, Sub32
  <2>4. QED
    BY <2>2, <2>3
<1>4. CASE vtfp_arm_is_armed
  <2>1. clock' = clock
    BY <1>4 DEF vtfp_arm_is_armed, vtfp_port_now_ms
  <2>2. QED
    BY <1>4, <2>1 DEF vtfp_arm_is_armed, Disarmed, Sub32
<1>5. CASE TickMs
  <2>1. SUFFICES ASSUME Armed
                 PROVE  age' <= MaxAge /\ Sub32(clock', s_arm'.arm_tick) = age' % ClockMod
    BY <1>5 DEF TickMs
  <2>2. /\ age' = age + 1 /\ s_arm' = s_arm /\ clock' = Succ32(clock)
        /\ age < MaxAge /\ Sub32(clock, s_arm.arm_tick) = age % ClockMod
    BY <1>5, <2>1 DEF TickMs
  <2>3. /\ clock \in 0 .. ClockMod - 1 /\ s_arm.arm_tick \in 0 .. ClockMod - 1
        /\ age \in Nat
    BY DEF ArmTypeOK
  <2>4. age + 1 <= MaxAge
    BY <2>2, <2>3, ArmAssumption
  <2>5. Sub32(Succ32(clock), s_arm.arm_tick) = Succ32(age % ClockMod)
    BY <2>2, <2>3, ElapsedAdvances
  <2>6. Succ32(age % ClockMod) = (age + 1) % ClockMod
    BY <2>3, RestAdvances
  <2>7. QED
    BY <2>2, <2>4, <2>5, <2>6
<1>6. QED
  BY <1>1, <1>2, <1>3, <1>4, <1>5, ArmMoves

(* A snapshot that was validated stays as it is until the poll ends, and   *)
(* PollAdmit is the only way into the handler.                             *)
LEMMA AdmittedStep ==
    ASSUME AdmittedWasValid, [Next]_vars
    PROVE  AdmittedWasValid'
<1>. USE DEF AdmittedWasValid, Valid, Command
<1>1. CASE PollAdmit
  BY <1>1 DEF PollAdmit, Accepted
<1>2. CASE UNCHANGED <<pc, snap, snapsum>>
  BY <1>2
<1>3. CASE pc' \notin {"run", "finish"}
  BY <1>3
<1>4. CASE RunHandler
  BY <1>4 DEF RunHandler
<1>5. vtfp_init \/ Restart \/ Wake \/ CopyChecksum => pc' \notin {"run", "finish"}
  BY DEF vtfp_init, ClearChecksum, SealWord, ReadWord, WriteChecksum, Restart, Wake, CopyChecksum
<1>6. CopyWord => pc' \notin {"run", "finish"}
  BY DEF CopyWord, ReadWord
<1>7. PollIdle \/ PollCorrupt \/ PollArm \/ PollDisarm \/ PollStandard \/ PollUnknown
        \/ PollNotArmed \/ PollReturn => pc' \notin {"run", "finish"}
  BY DEF PollIdle, PollCorrupt, PollArm, PollDisarm, PollStandard, PollUnknown,
         PollNotArmed, PollReturn, Reply, Sleep
<1>8. StoreWord \/ Tick \/ HostStore \/ HostSeal \/ UNCHANGED vars
        => UNCHANGED <<pc, snap, snapsum>>
  BY DEF StoreWord, Tick, HostStore, HostSeal, vars, coreVars
<1>9. QED
  BY <1>1, <1>2, <1>3, <1>4, <1>5, <1>6, <1>7, <1>8
  DEF Next, Device, vTaskVTFP, Dispatch

(* The inductive invariant of the ARM window, for the tick counter and a   *)
(* flag of any age.                                                        *)
THEOREM ArmInvariant ==
    ASSUME PortClock = "ticks"
    PROVE  Spec => []ArmInv
<1>1. Init => ClockAgreesWithAge /\ AdmittedWasValid
  BY DEF Init, ArmInit, Disarmed, Armed, ClockAgreesWithAge, AdmittedWasValid
<1>2. TypeOK /\ ClockAgreesWithAge /\ AdmittedWasValid /\ [Next]_vars
        => (ClockAgreesWithAge /\ AdmittedWasValid)'
  BY ClockStep, AdmittedStep DEF TypeOK
<1>3. QED
  BY <1>1, <1>2, TypeCorrect, PTL DEF Spec, ArmInv

(* No dangerous command is admitted outside the window of the ARM that     *)
(* authorises it, in real time and up to full turns of the counter: the    *)
(* age of the flag is not bounded, since nothing in the code bounds it.    *)
THEOREM AdmissionNeedsGrant ==
    ASSUME PortClock = "ticks"
    PROVE  Spec => AdmittedInWindow
<1>1. ASSUME ArmInv, Next, pc = "check", pc' = "run", Dangerous
      PROVE  Armed /\ age % ClockMod < Timeout
  <2>1. PollAdmit
    BY <1>1 DEF Next, Device, vTaskVTFP, Dispatch, vtfp_init, ClearChecksum,
       SealWord, ReadWord, WriteChecksum, Restart, Wake, CopyWord, CopyChecksum, PollIdle, PollCorrupt, PollArm, PollDisarm, PollStandard, PollUnknown,
       PollNotArmed, RunHandler, StoreWord, PollReturn, Tick, coreVars, HostStore, HostSeal,
       Reply, Sleep
  <2>2. WindowOpen
    BY <1>1, <2>1 DEF PollAdmit
  <2>3. QED
    BY <1>1, <2>2 DEF WindowOpen, ArmInv, ClockAgreesWithAge
<1>2. ArmInv /\ [Next]_vars
        => [pc = "check" /\ pc' = "run" /\ Dangerous
              => Armed /\ age % ClockMod < Timeout]_vars
  BY <1>1
<1>3. QED
  BY <1>2, ArmInvariant, PTL DEF Spec, AdmittedInWindow

-----------------------------------------------------------------------------

(* What the abstract grant reads, for a command that is being served or not*)
LEMMA GrantLeftIs ==
    /\ ~InDangerousCommand => GrantLeft = IF Armed /\ age < Timeout THEN Timeout - age ELSE 0
    /\ ~InDangerousCommand' => GrantLeft' = IF Armed' /\ age' < Timeout THEN Timeout - age' ELSE 0
BY DEF GrantLeft

(* A step that leaves the ARM flag and the command that is run alone is    *)
(* invisible.                                                              *)
LEMMA Invisible ==
    ASSUME UNCHANGED armVars, InDangerousCommand' = InDangerousCommand
    PROVE  UNCHANGED <<GrantLeft, Busy>>
BY DEF armVars, GrantLeft, Busy, Armed

(* The window is open exactly while the age of the flag, up to full turns  *)
(* of the counter, is less than Timeout.                                   *)
LEMMA WindowByAge ==
    ASSUME ArmInv
    PROVE  /\ WindowOpen /\ age < ClockMod => Armed /\ age < Timeout
           /\ Armed /\ age < Timeout => WindowOpen
<1>1. age \in Nat /\ Timeout \in Nat /\ ClockMod \in Nat /\ Timeout < ClockMod
  BY ArmAssumption DEF ArmInv, TypeOK, ArmTypeOK
<1>2. Armed => Sub32(clock, s_arm.arm_tick) = age % ClockMod
  BY DEF ArmInv, ClockAgreesWithAge
<1>3. age < ClockMod => age % ClockMod = age
  BY <1>1, RestOfLessThanATurn
<1>4. ASSUME age < ClockMod PROVE WindowOpen <=> Armed /\ age < Timeout
  <2>1. Armed => Sub32(clock, s_arm.arm_tick) = age
    BY <1>2, <1>3, <1>4
  <2>2. QED
    BY <2>1 DEF WindowOpen
<1>5. age < Timeout => age < ClockMod
  BY <1>1
<1>6. QED
  BY <1>4, <1>5

(* Refinement of ArmGrant.  The abstract grant is the flag cleared of what *)
(* the code does late: expiry, seen only by the next look at the flag, and *)
(* the disarming that follows the handler.  A flag of a full turn's age    *)
(* and a command that runs on it are not shown.                            *)
THEOREM GrantsRefined ==
    ASSUME PortClock = "ticks"
    PROVE  Spec => ImplementsArmGrant
<1>1. Init => Grants!Init
  BY DEF Init, ArmInit, Disarmed, Armed, Grants!Init, GrantLeft, Busy, InDangerousCommand
<1>2. ArmInv /\ [Next]_vars => [Grants!Next]_(Grants!grantVars)
  <2>. SUFFICES ASSUME ArmInv, [Next]_vars
                PROVE  Grants!Next \/ UNCHANGED <<GrantLeft, Busy>>
    BY DEF Grants!grantVars
  <2>. USE DEF Grants!Next
  <2>a. /\ age \in Nat /\ Timeout \in Nat \ {0}
        /\ ClockMod \in Nat /\ Timeout < ClockMod
    BY ArmAssumption DEF ArmInv, TypeOK, ArmTypeOK
  <2>b. /\ InDangerousCommand \in BOOLEAN /\ InDangerousCommand' \in BOOLEAN
        /\ Busy \in BOOLEAN /\ Busy' \in BOOLEAN
    BY DEF InDangerousCommand, Busy
  <2>c. pc \notin {"run", "finish"} => InDangerousCommand = FALSE /\ Busy = FALSE
    BY DEF InDangerousCommand, Busy
  <2>d. pc' \notin {"run", "finish"} => InDangerousCommand' = FALSE /\ Busy' = FALSE
    BY DEF InDangerousCommand, Busy
  <2>1. CASE WriteChecksum \/ Restart
    <3>1. s_arm' = Disarmed /\ pc' \in {"init", "sleep"}
      BY <2>1 DEF WriteChecksum, Restart
    <3>2. GrantLeft' = 0 /\ Busy' = FALSE
      BY <2>d, <3>1 DEF GrantLeft, Armed, Disarmed
    <3>3. QED
      BY <3>2 DEF Grants!Restart
  <2>2. CASE PollArm
    <3>1. pc = "check" /\ pc' = "store" /\ clock' = clock
      BY <2>2 DEF PollArm, Accepted, Pending, Reply, vtfp_arm_try_arm, vtfp_port_now_ms
    <3>2. InDangerousCommand = FALSE /\ InDangerousCommand' = FALSE /\ Busy = FALSE /\ Busy' = FALSE
      BY <2>c, <2>d, <3>1
    <3>3. CASE UNCHANGED armVars
      BY <3>2, <3>3, Invisible
    <3>4. CASE Armed' /\ age' = 0
      <4>1. GrantLeft' = Timeout
        BY <2>a, <3>2, <3>4, GrantLeftIs
      <4>2. QED
        BY <3>2, <4>1 DEF Grants!Grant
    <3>5. QED
      BY <2>2, <3>1, <3>3, <3>4 DEF PollArm, vtfp_arm_try_arm, Armed, armVars
  <2>3. CASE PollDisarm
    <3>1. pc = "check" /\ pc' = "store" /\ s_arm' = Disarmed
      BY <2>3 DEF PollDisarm, Accepted, Pending, Reply, vtfp_arm_disarm
    <3>2. Busy = FALSE /\ Busy' = FALSE
      BY <2>c, <2>d, <3>1
    <3>3. GrantLeft' = 0
      BY <3>1 DEF GrantLeft, Armed, Disarmed
    <3>4. QED
      BY <3>2, <3>3 DEF Grants!Revoke
  <2>4. CASE PollNotArmed
    <3>1. pc = "check" /\ pc' = "store" /\ ~(Armed /\ age < Timeout)
      BY <2>4, WindowByAge DEF PollNotArmed, Accepted, Pending, Reply
    <3>2. InDangerousCommand = FALSE /\ InDangerousCommand' = FALSE /\ Busy = FALSE /\ Busy' = FALSE
      BY <2>c, <2>d, <3>1
    <3>3. ~Armed'
      BY <2>4, <3>1 DEF PollNotArmed, vtfp_arm_is_armed, Armed, Disarmed
    <3>4. GrantLeft = 0 /\ GrantLeft' = 0
      BY <3>1, <3>2, <3>3, GrantLeftIs
    <3>5. QED
      BY <3>2, <3>4
  <2>5. CASE PollAdmit
    <3>1. pc = "check" /\ pc' = "run" /\ snap' = snap
      BY <2>5 DEF PollAdmit, Accepted, Pending
    <3>2. /\ InDangerousCommand = FALSE /\ Busy = FALSE
          /\ (InDangerousCommand' = TRUE <=> Dangerous)
      BY <2>b, <2>c, <3>1 DEF InDangerousCommand, Dangerous, Command
    <3>3. CASE Dangerous
      <4>1. WindowOpen /\ Armed /\ s_arm' = s_arm /\ age' = age
        BY <2>5, <3>3 DEF PollAdmit, WindowOpen, vtfp_arm_is_armed
      <4>2. CASE age < ClockMod
        <5>1. age < Timeout
          BY <4>1, <4>2, WindowByAge
        <5>2. GrantLeft = Timeout - age
          BY <3>2, <4>1, <5>1, GrantLeftIs
        <5>3. GrantLeft' = IF AutoDisarm THEN 0 ELSE GrantLeft
          BY <3>2, <3>3, <4>1, <5>1, <5>2, ArmAssumption DEF GrantLeft, Armed
        <5>4. GrantLeft > 0
          BY <2>a, <5>1, <5>2
        <5>5. Busy' = TRUE
          BY <3>2, <3>3, <4>1, <4>2 DEF Busy
        <5>6. QED
          BY <3>2, <5>3, <5>4, <5>5 DEF Grants!Begin
      <4>3. CASE ~(age < ClockMod)
        <5>1. ~(age < Timeout)
          BY <2>a, <4>3
        <5>2. GrantLeft = 0 /\ GrantLeft' = 0
          BY <4>1, <5>1 DEF GrantLeft
        <5>3. Busy' = FALSE
          BY <2>b, <4>1, <4>3 DEF Busy
        <5>4. QED
          BY <3>2, <5>2, <5>3
      <4>4. QED
        BY <4>2, <4>3
    <3>4. CASE ~Dangerous
      BY <2>5, <2>b, <3>2, <3>4, Invisible DEF PollAdmit
    <3>5. QED
      BY <3>3, <3>4
  <2>6. CASE PollReturn
    <3>1. pc' = "sleep" /\ InDangerousCommand' = FALSE /\ Busy' = FALSE
      BY <2>6, <2>d DEF PollReturn, Sleep
    <3>2. CASE InDangerousCommand = FALSE
      <4>1. UNCHANGED armVars
        BY <2>6, <3>2 DEF PollReturn, InDangerousCommand
      <4>2. QED
        BY <3>1, <3>2, <4>1, Invisible
    <3>3. CASE InDangerousCommand = TRUE
      <4>1. UNCHANGED GrantLeft
        <5>1. CASE AutoDisarm
          BY <2>6, <3>1, <3>3, <5>1
          DEF PollReturn, InDangerousCommand, GrantLeft, vtfp_arm_disarm, Armed, Disarmed
        <5>2. CASE ~AutoDisarm
          BY <2>6, <5>2 DEF PollReturn, GrantLeft, Armed, armVars
        <5>3. QED
          BY <5>1, <5>2
      <4>2. QED
        BY <2>b, <3>1, <4>1 DEF Grants!End
    <3>4. QED
      BY <2>b, <3>2, <3>3
  <2>7. CASE Tick
    <3>1. UNCHANGED <<s_arm, pc, snap>> /\ age' = IF Armed THEN age + 1 ELSE age
      BY <2>7 DEF Tick, TickMs, coreVars
    <3>2. UNCHANGED InDangerousCommand
      BY <3>1 DEF InDangerousCommand, Dangerous, Command
    <3>3. CASE GrantLeft > 0
      <4>1. Armed /\ age < Timeout /\ ~(InDangerousCommand /\ AutoDisarm)
        BY <3>3 DEF GrantLeft
      <4>2. GrantLeft = Timeout - age /\ age' = age + 1 /\ Armed'
        BY <3>1, <4>1 DEF GrantLeft, Armed
      <4>3. GrantLeft' = IF age + 1 < Timeout THEN Timeout - (age + 1) ELSE 0
        BY <3>2, <4>1, <4>2 DEF GrantLeft
      <4>4. GrantLeft' = GrantLeft - 1
        BY <2>a, <4>1, <4>2, <4>3
      <4>5. age < ClockMod /\ age' < ClockMod
        BY <2>a, <4>1, <4>2
      <4>6. UNCHANGED Busy
        BY <3>2, <4>5 DEF Busy
      <4>7. QED
        BY <3>3, <4>4, <4>6 DEF Grants!Elapse
    <3>4. CASE ~(GrantLeft > 0)
      <4>1. ~(Armed /\ age < Timeout /\ ~(InDangerousCommand /\ AutoDisarm))
        BY <2>a, <3>4 DEF GrantLeft
      <4>2. GrantLeft = 0 /\ GrantLeft' = 0
        BY <2>a, <3>1, <3>2, <4>1 DEF GrantLeft, Armed
      <4>3. UNCHANGED Busy \/ (Busy /\ Busy' = FALSE)
        BY <2>a, <2>b, <3>1, <3>2 DEF Busy
      <4>4. QED
        BY <4>2, <4>3 DEF Grants!End
    <3>5. QED
      BY <3>3, <3>4
  <2>8. CASE ClearChecksum \/ SealWord \/ Wake \/ CopyWord \/ CopyChecksum
    <3>1. UNCHANGED armVars /\ pc \notin {"run", "finish"} /\ pc' \notin {"run", "finish"}
      BY <2>8 DEF ClearChecksum, SealWord, Wake, CopyWord, ReadWord, CopyChecksum
    <3>2. QED
      BY <2>c, <2>d, <3>1, Invisible
  <2>9. CASE PollIdle \/ PollCorrupt \/ PollStandard \/ PollUnknown
    <3>1. pc = "check" /\ pc' \in {"sleep", "store"} /\ UNCHANGED armVars
      BY <2>9 DEF PollIdle, PollCorrupt, PollStandard, PollUnknown, Accepted, Pending,
         Reply, Sleep
    <3>2. QED
      BY <2>c, <2>d, <3>1, Invisible
  <2>10. CASE RunHandler \/ StoreWord \/ HostStore \/ HostSeal \/ UNCHANGED vars
    <3>1. /\ UNCHANGED <<armVars, snap>>
          /\ pc' = pc \/ (pc = "run" /\ pc' = "finish")
      BY <2>10 DEF RunHandler, StoreWord, HostStore, HostSeal, vars, coreVars
    <3>2. UNCHANGED InDangerousCommand
      BY <3>1 DEF InDangerousCommand, Dangerous, Command
    <3>3. QED
      BY <3>1, <3>2, Invisible
  <2>11. QED
    BY <2>1, <2>2, <2>3, <2>4, <2>5, <2>6, <2>7, <2>8, <2>9, <2>10
    DEF Next, Device, vTaskVTFP, Dispatch, vtfp_init
<1>3. QED
  BY <1>1, <1>2, ArmInvariant, PTL DEF Spec, ImplementsArmGrant, Grants!Spec

=============================================================================
