-------------------------- MODULE VtfpBench_proofs --------------------------
(***************************************************************************)
(* A PC that waits for each answer sees an atomic call server, for every   *)
(* clock width, window, key, dispatch table and set of calls.              *)
(***************************************************************************)
EXTENDS VtfpBench, VtfpCore_proofs, SequenceTheorems

-----------------------------------------------------------------------------
(* The stores of an answer: each word is stored once, so the order does    *)
(* not matter to what the header will be.                                  *)

Once(stores) == \A i, j \in DOMAIN stores : stores[i][1] = stores[j][1] => i = j

(* The words that an answer stores.                                        *)
AnswerWords == {"command", "result", "data_len"}

Answers(stores) == Once(stores) /\ \A i \in DOMAIN stores : stores[i][1] \in AnswerWords

LEMMA FinalIs ==
    ASSUME NEW s, Once(s), NEW h, NEW w
    PROVE  /\ \A i \in DOMAIN s : s[i][1] = w => Final(s, h, w) = s[i][2]
           /\ (\A i \in DOMAIN s : s[i][1] # w) => Final(s, h, w) = h[w]
<1>1. ASSUME NEW i \in DOMAIN s, s[i][1] = w PROVE Final(s, h, w) = s[i][2]
  <2>1. (CHOOSE j \in DOMAIN s : s[j][1] = w) = i
    BY <1>1 DEF Once
  <2>2. QED
    BY <1>1, <2>1 DEF Final
<1>2. QED
  BY <1>1 DEF Final

LEMMA FinalOfNone ==
    ASSUME NEW h, NEW w
    PROVE  Once(<<>>) /\ Final(<<>>, h, w) = h[w]
BY DEF Once, Final

(* One store less to do, and one that is done.                             *)
IsTail(t, s) ==
    \E n \in Nat :
        DOMAIN s = 1 .. n + 1 /\ DOMAIN t = 1 .. n /\ \A i \in 1 .. n : t[i] = s[i + 1]

LEMMA FinalStep ==
    ASSUME NEW s, NEW t, Once(s), IsTail(t, s), NEW h, NEW g
    PROVE  /\ Once(t)
           /\ \A w : g[w] = (IF s[1][1] = w THEN s[1][2] ELSE h[w])
                      => Final(t, g, w) = Final(s, h, w)
<1>. PICK n \in Nat :
        DOMAIN s = 1 .. n + 1 /\ DOMAIN t = 1 .. n /\ \A i \in 1 .. n : t[i] = s[i + 1]
  BY DEF IsTail
<1>1. Once(t)
  <2>. SUFFICES ASSUME NEW i \in 1 .. n, NEW j \in 1 .. n, t[i][1] = t[j][1] PROVE i = j
    BY DEF Once
  <2>1. i + 1 \in 1 .. n + 1 /\ j + 1 \in 1 .. n + 1
    OBVIOUS
  <2>2. s[i + 1][1] = s[j + 1][1]
    OBVIOUS
  <2>3. i + 1 = j + 1
    BY <2>1, <2>2 DEF Once
  <2>4. QED
    BY <2>3
<1>2. SUFFICES ASSUME NEW w, g[w] = (IF s[1][1] = w THEN s[1][2] ELSE h[w])
               PROVE  Final(t, g, w) = Final(s, h, w)
  BY <1>1
<1>3. CASE \E i \in 1 .. n : t[i][1] = w
  <2>1. PICK i \in 1 .. n : t[i][1] = w
    BY <1>3
  <2>2. i + 1 \in 1 .. n + 1 /\ s[i + 1] = t[i]
    OBVIOUS
  <2>3. Final(t, g, w) = t[i][2] /\ Final(s, h, w) = s[i + 1][2]
    BY <1>1, <2>1, <2>2, FinalIs
  <2>4. QED
    BY <1>1, <2>2, <2>3
<1>4. CASE \A i \in 1 .. n : t[i][1] # w
  <2>1. Final(t, g, w) = g[w]
    BY <1>1, <1>4, FinalIs
  <2>2. 1 \in DOMAIN s
    OBVIOUS
  <2>3. CASE s[1][1] = w
    <3>1. Final(s, h, w) = s[1][2]
      BY <2>2, <2>3, FinalIs
    <3>2. QED
      BY <1>2, <2>1, <2>3, <3>1
  <2>4. CASE s[1][1] # w
    <3>1. \A i \in 1 .. n + 1 : s[i][1] # w
      <4>1. ASSUME NEW i \in 1 .. n + 1, i # 1 PROVE s[i][1] # w
        <5>1. i - 1 \in 1 .. n
          BY <4>1
        <5>2. t[i - 1] = s[i]
          BY <5>1
        <5>3. QED
          BY <1>4, <5>1, <5>2
      <4>2. QED
        BY <2>4, <4>1
    <3>2. Final(s, h, w) = h[w]
      BY <3>1, FinalIs
    <3>3. QED
      BY <1>2, <2>1, <2>4, <3>2
  <2>5. QED
    BY <2>3, <2>4
<1>5. QED
  BY <1>3, <1>4

-----------------------------------------------------------------------------
(***************************************************************************)
(* The invariant: what the poll knows of the call in progress              *)
(***************************************************************************)

(* The stores of vtfp_init(), the header between two calls, and the stages *)
(* of a poll.                                                              *)
StageInv ==
    /\ request \in [command : Nat, param : Nat] /\ waiting \in BOOLEAN
    /\ pc = "init" => /\ Once(todo)
                      /\ Final(todo, hdr, "magic") = VTFP_MAGIC
                      /\ Final(todo, hdr, "version") = VTFP_VERSION
                      /\ Final(todo, hdr, "command") = 0
    /\ pc \in {"init", "seal"} => ~waiting /\ ~Armed
    /\ pc # "init" => hdr["magic"] = VTFP_MAGIC /\ hdr["version"] = VTFP_VERSION
    /\ pc \in {"init", "sleep"} => copied = 0 /\ snap["command"] = 0
    /\ pc \notin {"init", "store", "finish"} => todo = <<>>
    /\ ~waiting => /\ pc \in {"init", "seal", "sleep", "copy", "check"}
                   /\ snap["command"] = 0
                   /\ pc # "init" => hdr["command"] = 0
    /\ waiting /\ pc \in {"copy", "check", "run"} => hdr["command"] # 0

(* Until it is answered the header is the one that the PC wrote.           *)
SentInv ==
    waiting /\ pc \notin {"store", "finish"} /\ hdr["command"] # 0 =>
        /\ hdr["command"] = request.command /\ hdr["param"] = request.param
        /\ hdr["result"] = VTFP_R_OK /\ hdr["data_len"] = 0
        /\ checksum = hdr

(* The snapshot is the header, as far as it has been copied.               *)
SnapInv ==
    waiting =>
        /\ pc = "copy" => \A i \in 1 .. copied : snap[WordAt[i]] = hdr[WordAt[i]]
        /\ pc \in {"check", "run"} => snap = hdr
        /\ pc = "check" => snapsum = hdr
        /\ pc = "run" => Command \in Registered

(* The stores that are left clear the command.                             *)
AnswerInv ==
    pc \in {"store", "finish"} =>
        waiting /\ Answers(todo) /\ Final(todo, hdr, "command") = 0

CallInv == StageInv /\ SentInv /\ SnapInv /\ AnswerInv

(* No grant is left alone for a full turn of the counter.                  *)
YoungInv == Armed => age < ClockMod

BenchInv == TypeOK /\ ClockAgreesWithAge /\ YoungInv /\ CallInv

(* The window is then what the age says.                                   *)
LEMMA YoungWindow ==
    ASSUME BenchInv
    PROVE  WindowOpen <=> Armed /\ age < Timeout
<1>1. age \in Nat
  BY DEF BenchInv, TypeOK, ArmTypeOK
<1>2. Armed => Sub32(clock, s_arm.arm_tick) = age
  BY <1>1, RestOfLessThanATurn DEF BenchInv, ClockAgreesWithAge, YoungInv
<1>3. QED
  BY <1>2 DEF WindowOpen

LEMMA YoungStep ==
    ASSUME YoungInv, ArmTypeOK, vTaskVTFP \/ BenchTick \/ UNCHANGED armVars
    PROVE  YoungInv'
<1>. USE DEF YoungInv, Armed
<1>1. 0 < ClockMod
  BY ArmAssumption
<1>2. UNCHANGED armVars => YoungInv'
  BY DEF armVars
<1>3. BenchTick => YoungInv'
  BY DEF BenchTick, Tick, TickMs
<1>4. s_arm' = Disarmed => YoungInv'
  BY DEF Disarmed
<1>5. ASSUME NEW key, vtfp_arm_try_arm(key) PROVE YoungInv'
  BY <1>1, <1>5 DEF vtfp_arm_try_arm
<1>6. vtfp_arm_is_armed => YoungInv'
  BY <1>4 DEF vtfp_arm_is_armed
<1>7. QED
  BY <1>2, <1>3, <1>4, <1>5, <1>6, TaskArmMoves

(* A command that reaches the dispatch is the one that the PC sent.        *)
LEMMA DispatchedIsSent ==
    ASSUME CallInv, Pending
    PROVE  /\ waiting /\ Valid /\ snap = hdr
           /\ Command = request.command /\ snap["param"] = request.param
           /\ hdr["result"] = VTFP_R_OK /\ hdr["data_len"] = 0
BY DEF CallInv, StageInv, SentInv, SnapInv, Pending, Valid, Command

LEMMA RespondAnswers ==
    ASSUME NEW r, NEW h
    PROVE  /\ Answers(Respond(r)) /\ Final(Respond(r), h, "command") = 0
           /\ ReplyOf(Respond(r), h) = [result |-> r, len |-> h["data_len"]]
<1>1. /\ DOMAIN Respond(r) = {1, 2}
      /\ Respond(r)[1] = <<"command", 0>> /\ Respond(r)[2] = <<"result", r>>
  BY DEF Respond
<1>2. Once(Respond(r))
  BY <1>1 DEF Once
<1>3. /\ Final(Respond(r), h, "command") = 0 /\ Final(Respond(r), h, "result") = r
      /\ Final(Respond(r), h, "data_len") = h["data_len"]
  BY <1>1, <1>2, FinalIs
<1>4. QED
  BY <1>1, <1>2, <1>3 DEF ReplyOf, Answers, AnswerWords

LEMMA AnswerAnswers ==
    ASSUME NEW r, NEW n, NEW h
    PROVE  /\ Answers(Answer(r, n)) /\ Final(Answer(r, n), h, "command") = 0
           /\ ReplyOf(Answer(r, n), h) = [result |-> r, len |-> n]
<1>1. /\ DOMAIN Answer(r, n) = {1, 2, 3}
      /\ Answer(r, n)[1] = <<"result", r>> /\ Answer(r, n)[2] = <<"data_len", n>>
      /\ Answer(r, n)[3] = <<"command", 0>>
  BY DEF Answer
<1>2. Once(Answer(r, n))
  BY <1>1 DEF Once
<1>3. /\ Final(Answer(r, n), h, "command") = 0 /\ Final(Answer(r, n), h, "result") = r
      /\ Final(Answer(r, n), h, "data_len") = n
  BY <1>1, <1>2, FinalIs
<1>4. QED
  BY <1>1, <1>2, <1>3 DEF ReplyOf, Answers, AnswerWords

(* What vtfp_init() stores.                                                *)
LEMMA InitStoresOnce ==
    ASSUME NEW h
    PROVE  /\ Once(InitStores)
           /\ Final(InitStores, h, "magic") = VTFP_MAGIC
           /\ Final(InitStores, h, "version") = VTFP_VERSION
           /\ Final(InitStores, h, "command") = 0
           /\ Final(InitStores, h, "result") = 0
           /\ Final(InitStores, h, "data_len") = 0
<1>1. /\ DOMAIN InitStores = 1 .. 7
      /\ InitStores[1] = <<"magic", VTFP_MAGIC>> /\ InitStores[2] = <<"version", VTFP_VERSION>>
      /\ InitStores[3] = <<"command", 0>> /\ InitStores[4] = <<"result", 0>>
      /\ InitStores[5] = <<"seq", 0>> /\ InitStores[6] = <<"param", 0>>
      /\ InitStores[7] = <<"data_len", 0>>
  BY DEF InitStores, VTFP_R_OK
<1>2. Once(InitStores)
  BY <1>1 DEF Once
<1>3. QED
  BY <1>1, <1>2, FinalIs

(* A store changes what is left to do and what is done, and nothing of     *)
(* what the header will be.                                                *)
LEMMA StoreStep ==
    ASSUME TypeOK, StoreWord, Once(todo)
    PROVE  /\ Once(todo')
           /\ \A w \in Words : Final(todo', hdr', w) = Final(todo, hdr, w)
           /\ Answers(todo) => /\ Answers(todo')
                               /\ hdr'["magic"] = hdr["magic"]
                               /\ hdr'["version"] = hdr["version"]
<1>1. /\ todo \in Seq(Words \X Nat) /\ todo # <<>> /\ hdr \in [Words -> Nat]
      /\ hdr' = [hdr EXCEPT ![Head(todo)[1]] = Head(todo)[2]] /\ todo' = Tail(todo)
  BY DEF TypeOK, StoreWord
<1>2. PICK n \in Nat : DOMAIN todo = 1 .. n + 1
  <2>1. Len(todo) \in Nat /\ Len(todo) # 0 /\ DOMAIN todo = 1 .. Len(todo)
    BY <1>1
  <2>2. Len(todo) - 1 \in Nat /\ (Len(todo) - 1) + 1 = Len(todo)
    BY <2>1
  <2>3. QED
    BY <2>1, <2>2
<1>3. DOMAIN todo' = 1 .. n /\ \A i \in 1 .. n : todo'[i] = todo[i + 1]
  BY <1>1, <1>2, HeadTailProperties
<1>4. Head(todo) = todo[1] /\ 1 \in DOMAIN todo
  BY <1>1, <1>2
<1>5. ASSUME NEW w \in Words
      PROVE  hdr'[w] = IF todo[1][1] = w THEN todo[1][2] ELSE hdr[w]
  BY <1>1, <1>4
<1>6. IsTail(todo', todo)
  BY <1>2, <1>3 DEF IsTail
<1>7. ASSUME NEW w \in Words
      PROVE  Once(todo') /\ Final(todo', hdr', w) = Final(todo, hdr, w)
  BY <1>5, <1>6, FinalStep
<1>8. "magic" \in Words /\ "version" \in Words /\ {"magic", "version"} \cap AnswerWords = {}
  BY DEF Words, AnswerWords
<1>9. Once(todo')
  BY <1>7, <1>8
<1>10. ASSUME Answers(todo)
       PROVE  Answers(todo') /\ hdr'["magic"] = hdr["magic"] /\ hdr'["version"] = hdr["version"]
  <2>1. todo[1][1] \in AnswerWords
    BY <1>4, <1>10 DEF Answers
  <2>2. ASSUME NEW i \in 1 .. n PROVE todo'[i][1] \in AnswerWords
    <3>1. i + 1 \in DOMAIN todo
      BY <1>2
    <3>2. QED
      BY <1>3, <1>10, <3>1 DEF Answers
  <2>3. QED
    BY <1>3, <1>5, <1>8, <1>9, <2>1, <2>2 DEF Answers
<1>11. QED
  BY <1>7, <1>9, <1>10

-----------------------------------------------------------------------------
(* The poll keeps the invariant.                                           *)

(* Every answer of the dispatch is a sequence of stores that ends the call.*)
LEMMA ReplyStep ==
    ASSUME CallInv, Pending, UNCHANGED <<waiting, request>>,
           NEW s, Reply(s), Answers(s), Final(s, hdr, "command") = 0
    PROVE  CallInv'
<1>1. pc = "check" /\ pc' = "store" /\ todo' = s /\ UNCHANGED <<hdr, checksum, copied, snap, snapsum>>
  BY DEF Pending, Reply
<1>2. waiting /\ hdr["command"] # 0
  BY DispatchedIsSent DEF CallInv, StageInv, Pending
<1>3. QED
  BY <1>1, <1>2 DEF CallInv, StageInv, SentInv, SnapInv, AnswerInv

(* The dispatch of a command that is not run.                              *)
Refusals == PollArm \/ PollDisarm \/ PollStandard \/ PollUnknown \/ PollNotArmed

LEMMA RefusalStep ==
    ASSUME CallInv, Refusals, UNCHANGED <<waiting, request>>
    PROVE  CallInv'
<1>1. Pending
  BY DEF Refusals, PollArm, PollDisarm, PollStandard, PollUnknown, PollNotArmed, Accepted
<1>2. \/ \E r : Reply(Respond(r))
      \/ \E r, n : Reply(Answer(r, n))
  BY DEF Refusals, PollArm, PollDisarm, PollStandard, PollUnknown, PollNotArmed
<1>3. ASSUME NEW r, Reply(Respond(r)) PROVE CallInv'
  BY <1>1, <1>3, RespondAnswers, ReplyStep
<1>4. ASSUME NEW r, NEW n, Reply(Answer(r, n)) PROVE CallInv'
  BY <1>1, <1>4, AnswerAnswers, ReplyStep
<1>5. QED
  BY <1>2, <1>3, <1>4

LEMMA CallStep ==
    ASSUME TypeOK, CallInv, Poll
    PROVE  CallInv'
<1>. USE DEF CallInv
<1>a. vTaskVTFP /\ UNCHANGED <<waiting, request>>
  BY DEF Poll
<1>1. CASE vtfp_init
  <2>1. CASE ClearChecksum
    <3>1. pc = "init" /\ pc' = "seal" /\ todo = <<>> /\ UNCHANGED <<armVars, hdr, snap, todo>>
      BY <2>1 DEF ClearChecksum
    <3>2. hdr["magic"] = VTFP_MAGIC /\ hdr["version"] = VTFP_VERSION /\ hdr["command"] = 0
      BY <3>1, FinalOfNone DEF StageInv
    <3>3. QED
      BY <1>a, <3>1, <3>2 DEF StageInv, SentInv, SnapInv, AnswerInv, armVars, Armed
  <2>2. CASE SealWord
    <3>1. /\ pc = "seal" /\ pc' = "seal" /\ copied \in 0 .. 6
          /\ UNCHANGED <<armVars, hdr, todo>>
          /\ snap' = [snap EXCEPT ![WordAt[copied + 1]] = hdr[WordAt[copied + 1]]]
          /\ snap \in [Words -> Nat]
      <4>1. Len(WordAt) = 7
        BY DEF WordAt
      <4>2. copied \in 0 .. 7 /\ copied < 7 /\ snap \in [Words -> Nat]
        BY <2>2, <4>1 DEF SealWord, ReadWord, TypeOK
      <4>3. copied \in 0 .. 6
        BY <4>2
      <4>4. QED
        BY <2>2, <4>2, <4>3 DEF SealWord, ReadWord
    <3>2. ~waiting /\ hdr["command"] = 0 /\ snap["command"] = 0
      BY <3>1 DEF StageInv
    <3>3. snap'["command"] = 0
      BY <3>1, <3>2 DEF Words
    <3>4. QED
      BY <1>a, <3>1, <3>2, <3>3 DEF StageInv, SentInv, SnapInv, AnswerInv, armVars, Armed
  <2>3. CASE WriteChecksum
    <3>1. pc = "seal" /\ pc' = "sleep" /\ copied' = 0 /\ snap' = Zero /\ UNCHANGED <<hdr, todo>>
      BY <2>3 DEF WriteChecksum
    <3>2. Zero["command"] = 0
      BY DEF Zero, Words
    <3>3. QED
      BY <1>a, <3>1, <3>2 DEF StageInv, SentInv, SnapInv, AnswerInv
  <2>4. QED
    BY <1>1, <2>1, <2>2, <2>3 DEF vtfp_init
<1>2. CASE Wake
  <2>1. pc = "sleep" /\ pc' = "copy" /\ UNCHANGED <<hdr, checksum, copied, snap, snapsum, todo>>
        /\ copied = 0
    BY <1>2 DEF Wake, StageInv
  <2>2. ~(waiting /\ hdr["command"] = 0)
    BY <2>1 DEF Poll
  <2>3. QED
    BY <1>a, <2>1, <2>2 DEF StageInv, SentInv, SnapInv, AnswerInv
<1>3. CASE CopyWord
  <2>1. /\ pc = "copy" /\ pc' = "copy" /\ UNCHANGED <<hdr, checksum, snapsum, todo>>
        /\ copied \in 0 .. 6 /\ copied' = copied + 1
        /\ snap' = [snap EXCEPT ![WordAt[copied + 1]] = hdr[WordAt[copied + 1]]]
        /\ snap \in [Words -> Nat]
    <3>1. Len(WordAt) = 7
      BY DEF WordAt
    <3>2. copied \in 0 .. 7 /\ copied < 7 /\ snap \in [Words -> Nat]
      BY <1>3, <3>1 DEF CopyWord, ReadWord, TypeOK
    <3>3. copied \in 0 .. 6
      BY <3>2
    <3>4. QED
      BY <1>3, <3>2, <3>3 DEF CopyWord, ReadWord
  <2>2. \A i \in 1 .. 7 : WordAt[i] \in Words
    BY DEF WordAt, Words
  <2>3. StageInv'
    <3>1. ~waiting => snap'["command"] = 0
      BY <2>1 DEF StageInv, Words
    <3>2. QED
      BY <1>a, <2>1, <3>1 DEF StageInv
  <2>4. ASSUME waiting, NEW i \in 1 .. copied + 1 PROVE snap'[WordAt[i]] = hdr[WordAt[i]]
    <3>1. WordAt[i] \in Words
      BY <2>1, <2>2
    <3>2. CASE i \in 1 .. copied
      BY <2>1, <2>4, <3>1, <3>2 DEF SnapInv
    <3>3. CASE i = copied + 1
      BY <2>1, <3>1, <3>3
    <3>4. QED
      BY <2>1, <3>2, <3>3
  <2>5. QED
    BY <1>a, <2>1, <2>3, <2>4 DEF SentInv, SnapInv, AnswerInv
<1>4. CASE CopyChecksum
  <2>1. /\ pc = "copy" /\ pc' = "check" /\ copied = 7 /\ snapsum' = checksum
        /\ UNCHANGED <<hdr, checksum, copied, snap, todo>>
        /\ snap \in [Words -> Nat] /\ hdr \in [Words -> Nat]
    BY <1>4 DEF CopyChecksum, TypeOK, WordAt
  <2>2. ASSUME waiting PROVE snap = hdr
    <3>1. \A i \in 1 .. 7 : snap[WordAt[i]] = hdr[WordAt[i]]
      BY <2>1, <2>2 DEF SnapInv
    <3>2. \A w \in Words : snap[w] = hdr[w]
      BY <3>1 DEF WordAt, Words
    <3>3. QED
      BY <2>1, <3>2
  <2>3. waiting => hdr["command"] # 0 /\ checksum = hdr
    BY <2>1 DEF StageInv, SentInv
  <2>4. QED
    BY <1>a, <2>1, <2>2, <2>3 DEF StageInv, SentInv, SnapInv, AnswerInv
<1>5. CASE PollIdle
  <2>1. ~waiting
    BY <1>5 DEF PollIdle, StageInv, SnapInv, Command
  <2>2. pc = "check" /\ pc' = "sleep" /\ copied' = 0 /\ snap' = Zero /\ UNCHANGED <<hdr, checksum, todo>>
    BY <1>5 DEF PollIdle, Sleep
  <2>3. Zero["command"] = 0
    BY DEF Zero, Words
  <2>4. QED
    BY <1>a, <2>1, <2>2, <2>3 DEF StageInv, SentInv, SnapInv, AnswerInv
<1>6. CASE PollCorrupt
  BY <1>6, DispatchedIsSent DEF PollCorrupt
<1>7. CASE Refusals
  BY <1>a, <1>7, RefusalStep
<1>8. CASE PollAdmit
  <2>1. pc = "check" /\ pc' = "run" /\ UNCHANGED <<hdr, checksum, copied, snap, snapsum, todo>>
        /\ Command \in Registered /\ waiting
    BY <1>8, DispatchedIsSent DEF PollAdmit, Accepted, Pending
  <2>2. QED
    BY <1>a, <2>1 DEF StageInv, SentInv, SnapInv, AnswerInv, Command
<1>9. CASE RunHandler
  <2>1. PICK r, n : todo' = Answer(r, n)
    BY <1>9 DEF RunHandler
  <2>2. pc = "run" /\ pc' = "finish" /\ waiting /\ UNCHANGED <<hdr, checksum, copied, snap, snapsum>>
    BY <1>9 DEF RunHandler, StageInv
  <2>3. Answers(todo') /\ Final(todo', hdr, "command") = 0
    BY <2>1, AnswerAnswers
  <2>4. QED
    BY <1>a, <2>2, <2>3 DEF StageInv, SentInv, SnapInv, AnswerInv
<1>10. CASE StoreWord
  <2>1. pc \in {"init", "store", "finish"} /\ UNCHANGED <<armVars, checksum, pc, copied, snap, snapsum>>
    BY <1>10 DEF StoreWord
  <2>2. Once(todo)
    BY <2>1 DEF StageInv, AnswerInv, Answers
  <2>3. /\ Once(todo') /\ \A w \in Words : Final(todo', hdr', w) = Final(todo, hdr, w)
        /\ Answers(todo) => /\ Answers(todo')
                            /\ hdr'["magic"] = hdr["magic"] /\ hdr'["version"] = hdr["version"]
    BY <1>10, <2>2, StoreStep
  <2>4. {"magic", "version", "command"} \subseteq Words
    BY DEF Words
  <2>5. CASE pc = "init"
    BY <1>a, <2>1, <2>3, <2>4, <2>5 DEF StageInv, SentInv, SnapInv, AnswerInv, armVars, Armed
  <2>6. CASE pc \in {"store", "finish"}
    BY <1>a, <2>1, <2>3, <2>4, <2>6 DEF StageInv, SentInv, SnapInv, AnswerInv
  <2>7. QED
    BY <2>1, <2>5, <2>6
<1>11. CASE PollReturn
  <2>1. pc \in {"store", "finish"} /\ todo = <<>> /\ pc' = "sleep" /\ copied' = 0 /\ snap' = Zero
        /\ UNCHANGED <<hdr, checksum, todo>>
    BY <1>11 DEF PollReturn, Sleep
  <2>2. waiting /\ hdr["command"] = 0
    BY <2>1, FinalOfNone DEF AnswerInv
  <2>3. Zero["command"] = 0
    BY DEF Zero, Words
  <2>4. QED
    BY <1>a, <2>1, <2>2, <2>3 DEF StageInv, SentInv, SnapInv, AnswerInv
<1>12. QED
  BY <1>a, <1>1, <1>2, <1>3, <1>4, <1>5, <1>6, <1>7, <1>8, <1>9, <1>10, <1>11
  DEF vTaskVTFP, Dispatch, Refusals

(* A step of the bench changes the header only while the poll sleeps.      *)
LEMMA WriteStep ==
    ASSUME TypeOK, CallInv, NEW c \in Calls, mock_write_command(c[1], c[2])
    PROVE  TypeOK' /\ CallInv'
<1>1. c[1] \in 1 .. 255 /\ c[2] \in Nat
  BY BenchAssumption
<1>2. /\ pc = "sleep" /\ ~waiting /\ waiting' = TRUE
      /\ request' = [command |-> c[1], param |-> c[2]]
      /\ hdr' = [hdr EXCEPT !["command"] = c[1], !["param"] = c[2], !["seq"] = 1,
                            !["result"] = VTFP_R_OK, !["data_len"] = 0]
      /\ checksum' = hdr'
      /\ UNCHANGED <<s_arm, clock, age, pc, copied, snap, snapsum, todo>>
      /\ hdr \in [Words -> Nat]
  BY DEF mock_write_command, TypeOK, armVars
<1>3. /\ hdr' \in [Words -> Nat]
      /\ hdr'["command"] = c[1] /\ hdr'["param"] = c[2] /\ hdr'["result"] = VTFP_R_OK
      /\ hdr'["data_len"] = 0 /\ hdr'["magic"] = hdr["magic"] /\ hdr'["version"] = hdr["version"]
  BY <1>1, <1>2 DEF Words, VTFP_R_OK
<1>4. TypeOK'
  BY <1>2, <1>3 DEF TypeOK, ArmTypeOK
<1>5. StageInv'
  <2>1. request' \in [command : Nat, param : Nat]
    BY <1>1, <1>2
  <2>2. QED
    BY <1>2, <1>3, <2>1 DEF CallInv, StageInv
<1>6. SentInv'
  BY <1>2, <1>3 DEF SentInv
<1>7. SnapInv' /\ AnswerInv'
  BY <1>2 DEF SnapInv, AnswerInv
<1>8. QED
  BY <1>4, <1>5, <1>6, <1>7 DEF CallInv

LEMMA BenchInvStep ==
    ASSUME PortClock = "ticks", BenchInv, [BenchNext]_benchVars
    PROVE  BenchInv'
<1>1. TypeOK /\ ClockAgreesWithAge /\ YoungInv /\ CallInv /\ ArmTypeOK
  BY DEF BenchInv, TypeOK
<1>2. CASE Poll
  <2>1. [Next]_vars
    BY <1>2 DEF Poll, Next, Device
  <2>2. QED
    BY <1>1, <1>2, <2>1, TypeStep, ClockStep, YoungStep, CallStep DEF BenchInv, Poll
<1>3. CASE ReadResult \/ UNCHANGED benchVars
  <2>1. UNCHANGED vars /\ request' = request
    BY <1>3 DEF ReadResult, benchVars
  <2>2. TypeOK' /\ ClockAgreesWithAge' /\ YoungInv'
    BY <1>1, <2>1, TypeStep, ClockStep, YoungStep DEF vars
  <2>3. UNCHANGED <<s_arm, hdr, checksum, pc, copied, snap, snapsum, todo>>
    BY <2>1 DEF vars, armVars, coreVars
  <2>4. waiting' = waiting \/ (waiting' = FALSE /\ pc = "sleep" /\ hdr["command"] = 0)
    BY <1>3 DEF ReadResult, benchVars
  <2>5. CallInv'
    <3>1. StageInv'
      <4>1. CASE waiting' = waiting
        BY <1>1, <2>1, <2>3, <4>1 DEF CallInv, StageInv, Armed
      <4>2. CASE waiting' = FALSE /\ pc = "sleep" /\ hdr["command"] = 0
        <5>1. StageInv
          BY <1>1 DEF CallInv
        <5>2. pc' = "sleep" /\ hdr'["command"] = 0 /\ snap'["command"] = 0 /\ copied' = 0
          BY <2>3, <4>2, <5>1 DEF StageInv
        <5>3. todo' = <<>> /\ hdr'["magic"] = VTFP_MAGIC /\ hdr'["version"] = VTFP_VERSION
          BY <2>3, <4>2, <5>1 DEF StageInv
        <5>4. request' \in [command : Nat, param : Nat]
          BY <2>1, <5>1 DEF StageInv
        <5>5. QED
          BY <4>2, <5>2, <5>3, <5>4 DEF StageInv
      <4>3. QED
        BY <2>4, <4>1, <4>2
    <3>2. SentInv' /\ SnapInv'
      BY <1>1, <2>1, <2>3, <2>4 DEF CallInv, SentInv, SnapInv, Command
    <3>3. AnswerInv'
      BY <1>1, <2>3, <2>4 DEF CallInv, AnswerInv
    <3>4. QED
      BY <3>1, <3>2, <3>3 DEF CallInv
  <2>6. QED
    BY <2>2, <2>5 DEF BenchInv
<1>4. ASSUME NEW c \in Calls, mock_write_command(c[1], c[2]) PROVE BenchInv'
  <2>1. UNCHANGED armVars
    BY <1>4 DEF mock_write_command
  <2>2. ClockAgreesWithAge'
    BY <1>1, <2>1 DEF ClockAgreesWithAge, armVars, Armed, Sub32
  <2>3. QED
    BY <1>1, <1>4, <2>1, <2>2, WriteStep, YoungStep DEF BenchInv
<1>5. CASE BenchTick
  <2>1. [Next]_vars
    BY <1>5 DEF BenchTick, Next, Device
  <2>2. TypeOK' /\ ClockAgreesWithAge' /\ YoungInv'
    BY <1>1, <1>5, <2>1, TypeStep, ClockStep, YoungStep
  <2>3. UNCHANGED <<s_arm, hdr, checksum, pc, copied, snap, snapsum, todo, waiting, request>>
    BY <1>5 DEF BenchTick, Tick, TickMs, coreVars
  <2>4. CallInv'
    BY <1>1, <2>3 DEF CallInv, StageInv, SentInv, SnapInv, AnswerInv, Command, Armed
  <2>5. QED
    BY <2>2, <2>4 DEF BenchInv
<1>6. QED
  BY <1>2, <1>3, <1>4, <1>5 DEF BenchNext

-----------------------------------------------------------------------------
(***************************************************************************)
(* Refinement                                                              *)
(***************************************************************************)

(* What a step leaves alone of the abstract call.                          *)
LEMMA SameReply ==
    ASSUME UNCHANGED <<todo, hdr>> PROVE UNCHANGED ReplyOf(todo, hdr)
BY DEF ReplyOf, Final

(* A step that is no part of the dispatch leaves the grant alone, but for  *)
(* the milliseconds.                                                       *)
LEMMA SameGrant ==
    ASSUME UNCHANGED <<armVars, InDangerousCommand>>
    PROVE  UNCHANGED GrantLeft
BY DEF GrantLeft, Armed, armVars

(* The two sides number the commands and the results alike.                *)
LEMMA SameNumbers ==
    /\ Rpc!VTFP_CMD_ARM = VTFP_CMD_ARM
    /\ Rpc!VTFP_CMD_DISARM = VTFP_CMD_DISARM
    /\ Rpc!VTFP_CMD_QUERY_INFO = VTFP_CMD_QUERY_INFO
    /\ Rpc!VTFP_CMD_QUERY_STATE = VTFP_CMD_QUERY_STATE
    /\ Rpc!VTFP_CMD_RESET = VTFP_CMD_RESET
    /\ Rpc!VTFP_CMD_HEARTBEAT = VTFP_CMD_HEARTBEAT
    /\ Rpc!StdRange = StdRange
    /\ Rpc!VTFP_R_OK = VTFP_R_OK
    /\ Rpc!VTFP_R_SAFETY_KEY = VTFP_R_SAFETY_KEY
    /\ Rpc!VTFP_R_BUF_OVERFLOW = VTFP_R_BUF_OVERFLOW
    /\ Rpc!VTFP_R_UNKNOWN_CMD = VTFP_R_UNKNOWN_CMD
    /\ Rpc!VTFP_R_NOT_ARMED = VTFP_R_NOT_ARMED
    /\ Rpc!Registered = Registered
BY DEF VTFP_CMD_ARM, Rpc!VTFP_CMD_ARM, VTFP_CMD_DISARM, Rpc!VTFP_CMD_DISARM,
   VTFP_CMD_QUERY_INFO, Rpc!VTFP_CMD_QUERY_INFO, VTFP_CMD_QUERY_STATE,
   Rpc!VTFP_CMD_QUERY_STATE, VTFP_CMD_RESET, Rpc!VTFP_CMD_RESET, VTFP_CMD_HEARTBEAT,
   Rpc!VTFP_CMD_HEARTBEAT, StdRange, Rpc!StdRange, VTFP_R_OK, Rpc!VTFP_R_OK,
   VTFP_R_SAFETY_KEY, Rpc!VTFP_R_SAFETY_KEY, VTFP_R_BUF_OVERFLOW,
   Rpc!VTFP_R_BUF_OVERFLOW, VTFP_R_UNKNOWN_CMD, Rpc!VTFP_R_UNKNOWN_CMD,
   VTFP_R_NOT_ARMED, Rpc!VTFP_R_NOT_ARMED, VTFP_CMD_STD_BASE,
   Rpc!VTFP_CMD_STD_BASE, VTFP_CMD_STD_MAX, Rpc!VTFP_CMD_STD_MAX, Registered,
   Rpc!Registered

LEMMA DistinctCommands ==
    /\ VTFP_CMD_QUERY_INFO \notin {VTFP_CMD_QUERY_STATE, VTFP_CMD_RESET, VTFP_CMD_HEARTBEAT}
    /\ VTFP_CMD_QUERY_STATE \notin {VTFP_CMD_RESET, VTFP_CMD_HEARTBEAT}
    /\ VTFP_CMD_RESET # VTFP_CMD_HEARTBEAT
BY DEF VTFP_CMD_QUERY_INFO, VTFP_CMD_QUERY_STATE, VTFP_CMD_RESET, VTFP_CMD_HEARTBEAT

(* The answers of the dispatch are among the answers of the abstract       *)
(* server.                                                                 *)
LEMMA RefusalRefines ==
    ASSUME PortClock = "ticks", BenchInv, Refusals, UNCHANGED <<waiting, request>>
    PROVE  Rpc!Next
<1>. USE DEF Rpc!Next, Rpc!Result, Rpc!Serve
<1>a. Pending /\ Accepted
  BY DEF Refusals, PollArm, PollDisarm, PollStandard, PollUnknown, PollNotArmed, Accepted
<1>b. /\ waiting /\ Command = request.command /\ snap["param"] = request.param
      /\ hdr["data_len"] = 0 /\ hdr["command"] # 0 /\ pc = "check"
  BY <1>a, DispatchedIsSent DEF BenchInv, CallInv, StageInv, Pending
<1>c. age \in Nat /\ Timeout \in Nat \ {0} /\ (WindowOpen <=> Armed /\ age < Timeout)
  BY ArmAssumption, YoungWindow DEF BenchInv, TypeOK, ArmTypeOK
<1>d. pc' = "store" /\ hdr' = hdr /\ waiting' = waiting
  BY DEF Refusals, PollArm, PollDisarm, PollStandard, PollUnknown, PollNotArmed, Reply
<1>e. Phase = "pending" /\ Phase' = "served" /\ request' = request
  BY <1>b, <1>d DEF Phase
<1>f. ~InDangerousCommand /\ ~InDangerousCommand'
  BY <1>b, <1>d DEF InDangerousCommand
<1>g. UNCHANGED armVars => UNCHANGED GrantLeft
  BY <1>f, GrantLeftIs DEF armVars, Armed
<1>h. ASSUME NEW r, Reply(Respond(r)) PROVE ReplyOf(todo, hdr)' = [result |-> r, len |-> 0]
  BY <1>b, <1>d, <1>h, RespondAnswers DEF Reply, ReplyOf
<1>i. ASSUME NEW r, NEW n, Reply(Answer(r, n)) PROVE ReplyOf(todo, hdr)' = [result |-> r, len |-> n]
  BY <1>d, <1>i, AnswerAnswers DEF Reply, ReplyOf
<1>1. CASE PollArm
  <2>1. request.command = VTFP_CMD_ARM /\ clock' = clock
    BY <1>1, <1>b DEF PollArm, vtfp_arm_try_arm, vtfp_port_now_ms
  <2>2. CASE request.param = SafetyKey
    <3>1. Armed' /\ age' = 0 /\ s_arm'.state = "ARMED"
      BY <1>1, <1>b, <2>2 DEF PollArm, vtfp_arm_try_arm, Armed
    <3>2. GrantLeft' = Timeout
      BY <1>c, <1>f, <3>1, GrantLeftIs
    <3>3. Reply(Respond(VTFP_R_OK))
      BY <1>1, <3>1 DEF PollArm
    <3>4. QED
      BY <1>e, <1>h, <2>1, <2>2, <3>2, <3>3, SameNumbers DEF Rpc!ServeArm
  <2>3. CASE request.param # SafetyKey
    <3>1. UNCHANGED armVars
      BY <1>1, <1>b, <2>1, <2>3 DEF PollArm, vtfp_arm_try_arm, armVars
    <3>2. PICK r \in {VTFP_R_OK, VTFP_R_SAFETY_KEY} : Reply(Respond(r))
      BY <1>1 DEF PollArm
    <3>3. QED
      BY <1>e, <1>g, <1>h, <2>1, <2>3, <3>1, <3>2, SameNumbers DEF Rpc!ServeArm
  <2>4. QED
    BY <2>2, <2>3
<1>2. CASE PollDisarm
  <2>1. request.command = VTFP_CMD_DISARM /\ Reply(Respond(VTFP_R_OK)) /\ ~Armed'
    BY <1>2, <1>b DEF PollDisarm, vtfp_arm_disarm, Disarmed, Armed
  <2>2. GrantLeft' = 0
    BY <2>1 DEF GrantLeft
  <2>3. QED
    BY <1>e, <1>h, <2>1, <2>2, SameNumbers DEF Rpc!ServeDisarm
<1>3. CASE PollStandard
  <2>1. request.command \in StdRange /\ UNCHANGED GrantLeft
    BY <1>3, <1>b, <1>g DEF PollStandard
  <2>2. VTFP_CMD_QUERY_INFO # VTFP_CMD_QUERY_STATE
    BY DistinctCommands
  <2>3. ReplyOf(todo, hdr)' \in Rpc!StandardReplies(request.command)
    <3>1. CASE request.command = VTFP_CMD_QUERY_INFO
      <4>1. ReplyOf(todo, hdr)' = [result |-> VTFP_R_OK, len |-> InfoLen]
        BY <1>3, <1>b, <1>i, <2>2, <3>1 DEF PollStandard
      <4>2. QED
        BY <3>1, <4>1, DistinctCommands, SameNumbers DEF Rpc!StandardReplies
    <3>2. CASE request.command = VTFP_CMD_QUERY_STATE
      <4>1. ReplyOf(todo, hdr)' = [result |-> VTFP_R_BUF_OVERFLOW, len |-> 0]
        BY <1>3, <1>b, <1>i, <2>2, <3>2 DEF PollStandard
      <4>2. QED
        BY <3>2, <4>1, DistinctCommands, SameNumbers DEF Rpc!StandardReplies, Rpc!Result
    <3>3. CASE request.command \notin {VTFP_CMD_QUERY_INFO, VTFP_CMD_QUERY_STATE}
      <4>1. ReplyOf(todo, hdr)' = [result |-> VTFP_R_UNKNOWN_CMD, len |-> 0]
        BY <1>3, <1>b, <1>h, <3>3 DEF PollStandard
      <4>2. QED
        BY <3>3, <4>1, DistinctCommands, SameNumbers DEF Rpc!StandardReplies, Rpc!Result
    <3>4. QED
      BY <3>1, <3>2, <3>3
  <2>4. QED
    BY <1>e, <2>1, <2>3, SameNumbers DEF Rpc!ServeStandard
<1>4. CASE PollUnknown
  <2>1. /\ request.command \notin Registered \cup StdRange \cup {VTFP_CMD_ARM, VTFP_CMD_DISARM}
        /\ Reply(Respond(VTFP_R_UNKNOWN_CMD)) /\ UNCHANGED GrantLeft
    BY <1>4, <1>b, <1>g DEF PollUnknown
  <2>2. QED
    BY <1>e, <1>h, <2>1, SameNumbers DEF Rpc!ServeUnknown
<1>5. CASE PollNotArmed
  <2>1. /\ request.command \in Registered /\ Policy[request.command] = "VTFP_ARM_REQUIRED"
        /\ Reply(Respond(VTFP_R_NOT_ARMED)) /\ ~(Armed /\ age < Timeout)
    BY <1>5, <1>b, <1>c DEF PollNotArmed, Dangerous
  <2>2. ~Armed'
    BY <1>5, <2>1 DEF PollNotArmed, vtfp_arm_is_armed, Armed, Disarmed
  <2>3. GrantLeft = 0 /\ GrantLeft' = 0
    BY <2>1, <2>2 DEF GrantLeft
  <2>4. QED
    BY <1>e, <1>h, <2>1, <2>3, SameNumbers DEF Rpc!ServeNotArmed, Rpc!Refusals, Rpc!Dangerous
<1>6. QED
  BY <1>1, <1>2, <1>3, <1>4, <1>5 DEF Refusals

LEMMA InitRefines == BenchInit => Rpc!Init
<1>. SUFFICES ASSUME BenchInit PROVE Rpc!Init
  OBVIOUS
<1>1. /\ waiting = FALSE /\ request = [command |-> 0, param |-> 0] /\ todo = InitStores
      /\ hdr = Zero /\ ~Armed
  BY DEF BenchInit, Init, ArmInit, Disarmed, Armed
<1>2. Phase = "none" /\ GrantLeft = 0
  BY <1>1 DEF Phase, GrantLeft
<1>3. ReplyOf(todo, hdr) = [result |-> 0, len |-> 0]
  BY <1>1, InitStoresOnce DEF ReplyOf
<1>4. QED
  BY <1>1, <1>2, <1>3 DEF Rpc!Init, Rpc!NoReply, Rpc!VTFP_R_OK

(* Every step of the bench is a step of the abstract call, or invisible.   *)
LEMMA StepRefines ==
    ASSUME PortClock = "ticks", BenchInv, BenchInv', [BenchNext]_benchVars
    PROVE  [Rpc!Next]_(Rpc!rpcVars)
<1>. DEFINE Unseen == UNCHANGED <<Phase, request, ReplyOf(todo, hdr), GrantLeft>>
<1>. SUFFICES Rpc!Next \/ Unseen
  BY DEF Rpc!rpcVars
<1>. HIDE DEF Unseen
<1>a. CallInv /\ TypeOK /\ CallInv' /\ TypeOK'
  BY DEF BenchInv
<1>b. age \in Nat /\ Timeout \in Nat \ {0} /\ (WindowOpen <=> Armed /\ age < Timeout)
  BY ArmAssumption, YoungWindow DEF BenchInv, TypeOK, ArmTypeOK
<1>c. pc \notin {"run", "finish"} => ~InDangerousCommand
  BY DEF InDangerousCommand
<1>d. pc' \notin {"run", "finish"} => ~InDangerousCommand'
  BY DEF InDangerousCommand
<1>e. InDangerousCommand \in BOOLEAN /\ InDangerousCommand' \in BOOLEAN
  BY DEF InDangerousCommand
<1>1. CASE Poll /\ vtfp_init
  <2>1. /\ pc \in {"init", "seal"} /\ ~waiting /\ ~Armed /\ ~Armed'
        /\ UNCHANGED <<hdr, todo, waiting, request>>
    <3>1. /\ pc \in {"init", "seal"} /\ (s_arm' = s_arm \/ s_arm' = Disarmed)
          /\ UNCHANGED <<hdr, todo, waiting, request>>
      BY <1>1 DEF Poll, vtfp_init, ClearChecksum, SealWord, ReadWord, WriteChecksum, armVars
    <3>2. ~waiting /\ ~Armed
      BY <1>a, <3>1 DEF CallInv, StageInv
    <3>3. QED
      BY <3>1, <3>2 DEF Armed, Disarmed
  <2>2. Phase = "none" /\ Phase' = "none"
    BY <2>1 DEF Phase
  <2>3. GrantLeft = 0 /\ GrantLeft' = 0
    BY <2>1 DEF GrantLeft
  <2>4. QED
    BY <2>1, <2>2, <2>3, SameReply DEF Unseen
<1>2. CASE Poll /\ (Wake \/ CopyWord \/ CopyChecksum \/ PollIdle)
  <2>1. /\ pc \in {"sleep", "copy", "check"} /\ pc' \in {"sleep", "copy", "check"}
        /\ UNCHANGED <<armVars, hdr, todo, waiting, request>>
    BY <1>2 DEF Poll, Wake, CopyWord, ReadWord, CopyChecksum, PollIdle, Sleep
  <2>2. Phase' = Phase
    BY <2>1 DEF Phase
  <2>3. UNCHANGED InDangerousCommand
    BY <1>c, <1>d, <1>e, <2>1
  <2>4. QED
    BY <2>1, <2>2, <2>3, SameReply, SameGrant DEF Unseen
<1>3. CASE Poll /\ PollCorrupt
  BY <1>3, <1>a, DispatchedIsSent DEF PollCorrupt
<1>4. CASE Poll /\ Refusals
  BY <1>4, RefusalRefines DEF Poll
<1>5. CASE Poll /\ PollAdmit
  <2>1. /\ pc = "check" /\ pc' = "run" /\ waiting /\ hdr["command"] # 0 /\ Command = request.command
        /\ Command \in Registered /\ UNCHANGED <<hdr, snap, todo, waiting, request>>
    BY <1>5, <1>a, DispatchedIsSent DEF Poll, PollAdmit, Accepted, Pending, CallInv, StageInv
  <2>2. Phase = "pending" /\ Phase' = "admitted" /\ UNCHANGED ReplyOf(todo, hdr)
    BY <2>1, SameReply DEF Phase
  <2>3. ~InDangerousCommand /\ (InDangerousCommand' <=> Dangerous)
    BY <1>c, <2>1 DEF InDangerousCommand, Dangerous, Command
  <2>4. Dangerous <=> Policy[request.command] = "VTFP_ARM_REQUIRED"
    BY <2>1 DEF Dangerous
  <2>5. CASE Dangerous
    <3>1. Armed /\ age < Timeout /\ s_arm' = s_arm /\ age' = age
      BY <1>5, <1>b, <2>5 DEF PollAdmit, vtfp_arm_is_armed
    <3>2. GrantLeft = Timeout - age /\ GrantLeft > 0
      BY <1>b, <2>3, <3>1, GrantLeftIs
    <3>3. GrantLeft' = IF AutoDisarm THEN 0 ELSE GrantLeft
      BY <2>3, <2>5, <3>1, <3>2, ArmAssumption DEF GrantLeft, Armed
    <3>4. QED
      BY <2>1, <2>2, <2>4, <2>5, <3>2, <3>3, SameNumbers DEF Rpc!Next, Rpc!Admit, Rpc!Dangerous
  <2>6. CASE ~Dangerous
    <3>1. UNCHANGED GrantLeft
      BY <1>5, <1>e, <2>3, <2>6, SameGrant DEF PollAdmit
    <3>2. QED
      BY <2>1, <2>2, <2>4, <2>6, <3>1, SameNumbers DEF Rpc!Next, Rpc!Admit, Rpc!Dangerous
  <2>7. QED
    BY <2>5, <2>6
<1>6. CASE Poll /\ RunHandler
  <2>1. PICK r \in HandlerResults, n \in HandlerLens : todo' = Answer(r, n)
    BY <1>6 DEF RunHandler
  <2>2. /\ pc = "run" /\ pc' = "finish" /\ waiting
        /\ UNCHANGED <<armVars, hdr, snap, waiting, request>>
    BY <1>6, <1>a DEF Poll, RunHandler, CallInv, StageInv
  <2>3. Phase = "admitted" /\ Phase' = "served"
    BY <2>2 DEF Phase
  <2>4. UNCHANGED InDangerousCommand
    BY <2>2 DEF InDangerousCommand, Dangerous, Command
  <2>5. ReplyOf(todo, hdr)' = [result |-> r, len |-> n]
    BY <2>1, <2>2, AnswerAnswers DEF ReplyOf
  <2>6. UNCHANGED GrantLeft
    BY <2>2, <2>4, SameGrant
  <2>7. QED
    BY <2>2, <2>3, <2>5, <2>6 DEF Rpc!Next, Rpc!Finish
<1>7. CASE Poll /\ StoreWord
  <2>1. pc \in {"init", "store", "finish"} /\ UNCHANGED <<armVars, pc, snap, waiting, request>>
    BY <1>7 DEF Poll, StoreWord
  <2>2. pc = "init" => ~waiting
    BY <1>a DEF CallInv, StageInv
  <2>3. Phase' = Phase /\ UNCHANGED InDangerousCommand
    BY <2>1, <2>2 DEF Phase, InDangerousCommand, Dangerous, Command
  <2>4. Once(todo)
    BY <1>a, <2>1 DEF CallInv, StageInv, AnswerInv, Answers
  <2>5. ReplyOf(todo, hdr)' = ReplyOf(todo, hdr)
    BY <1>7, <1>a, <2>4, StoreStep DEF ReplyOf, Words
  <2>6. QED
    BY <2>1, <2>3, <2>5, SameGrant DEF Unseen
<1>8. CASE Poll /\ PollReturn
  <2>1. /\ pc \in {"store", "finish"} /\ waiting /\ todo = <<>> /\ pc' = "sleep"
        /\ UNCHANGED <<hdr, todo, waiting, request>>
    BY <1>8, <1>a DEF Poll, PollReturn, Sleep, CallInv, AnswerInv
  <2>2. hdr["command"] = 0
    BY <1>a, <2>1, FinalOfNone DEF CallInv, AnswerInv
  <2>3. Phase' = Phase /\ UNCHANGED ReplyOf(todo, hdr)
    BY <2>1, <2>2, SameReply DEF Phase
  <2>4. ~InDangerousCommand'
    BY <1>d, <2>1
  <2>5. UNCHANGED GrantLeft
    <3>1. CASE InDangerousCommand /\ AutoDisarm
      BY <1>8, <2>4, <3>1
      DEF PollReturn, InDangerousCommand, GrantLeft, vtfp_arm_disarm, Armed, Disarmed
    <3>2. CASE ~(InDangerousCommand /\ AutoDisarm)
      <4>1. UNCHANGED armVars
        BY <1>8, <3>2 DEF PollReturn, InDangerousCommand
      <4>2. QED
        BY <2>4, <3>2, <4>1 DEF GrantLeft, armVars, Armed
    <3>3. QED
      BY <3>1, <3>2
  <2>6. QED
    BY <2>1, <2>3, <2>5 DEF Unseen
<1>9. CASE ReadResult
  <2>1. /\ waiting /\ pc = "sleep" /\ hdr["command"] = 0 /\ ~waiting'
        /\ UNCHANGED <<armVars, pc, snap, hdr, todo, request>>
    BY <1>9 DEF ReadResult, vars, coreVars
  <2>2. Phase = "served" /\ Phase' = "none" /\ UNCHANGED ReplyOf(todo, hdr)
    BY <2>1, SameReply DEF Phase
  <2>3. UNCHANGED GrantLeft
    BY <2>1, SameGrant DEF InDangerousCommand, Dangerous, Command
  <2>4. QED
    BY <2>1, <2>2, <2>3 DEF Rpc!Next, Rpc!Return
<1>10. ASSUME NEW c \in Calls, mock_write_command(c[1], c[2]) PROVE Rpc!Next
  <2>1. c[1] \in 1 .. 255 /\ c[2] \in Nat
    BY BenchAssumption
  <2>2. /\ pc = "sleep" /\ ~waiting /\ waiting' = TRUE
        /\ request' = [command |-> c[1], param |-> c[2]]
        /\ UNCHANGED <<armVars, pc, todo, snap>>
    BY <1>10 DEF mock_write_command, armVars
  <2>3. todo = <<>> /\ hdr \in [Words -> Nat]
    BY <1>a, <2>2 DEF CallInv, StageInv, TypeOK
  <2>4. hdr'["command"] = c[1] /\ hdr'["result"] = VTFP_R_OK /\ hdr'["data_len"] = 0
    BY <1>10, <2>3 DEF mock_write_command, Words
  <2>5. Phase = "none" /\ Phase' = "pending"
    BY <2>1, <2>2, <2>4 DEF Phase
  <2>6. ReplyOf(todo, hdr)' = Rpc!NoReply
    BY <2>2, <2>3, <2>4, FinalOfNone, SameNumbers DEF ReplyOf, Rpc!NoReply
  <2>7. UNCHANGED GrantLeft
    BY <2>2, SameGrant DEF InDangerousCommand, Dangerous, Command
  <2>8. request' \in [command : 1 .. 255, param : Nat]
    BY <2>1, <2>2
  <2>9. QED
    BY <2>5, <2>6, <2>7, <2>8 DEF Rpc!Next, Rpc!Call
<1>11. CASE BenchTick
  <2>1. UNCHANGED <<s_arm, pc, snap, hdr, todo>> /\ age' = IF Armed THEN age + 1 ELSE age
    BY <1>11 DEF BenchTick, Tick, TickMs, coreVars
  <2>2. UNCHANGED <<Phase, request, InDangerousCommand, ReplyOf(todo, hdr)>>
    BY <1>11, <2>1, SameReply DEF BenchTick, Phase, InDangerousCommand, Dangerous, Command
  <2>3. CASE GrantLeft > 0
    <3>1. Armed /\ age < Timeout /\ ~(InDangerousCommand /\ AutoDisarm)
      BY <2>3 DEF GrantLeft
    <3>2. GrantLeft = Timeout - age /\ age' = age + 1 /\ Armed'
      BY <2>1, <3>1 DEF GrantLeft, Armed
    <3>3. GrantLeft' = IF age + 1 < Timeout THEN Timeout - (age + 1) ELSE 0
      BY <2>2, <3>1, <3>2 DEF GrantLeft
    <3>4. GrantLeft' = GrantLeft - 1
      BY <1>b, <3>1, <3>2, <3>3
    <3>5. QED
      BY <2>2, <2>3, <3>4 DEF Rpc!Next, Rpc!Elapse
  <2>4. CASE ~(GrantLeft > 0)
    <3>1. ~(Armed /\ age < Timeout /\ ~(InDangerousCommand /\ AutoDisarm))
      BY <1>b, <2>4 DEF GrantLeft
    <3>2. GrantLeft = 0 /\ GrantLeft' = 0
      BY <1>b, <2>1, <2>2, <3>1 DEF GrantLeft, Armed
    <3>3. QED
      BY <2>2, <3>2 DEF Unseen
  <2>5. QED
    BY <2>3, <2>4
<1>12. CASE UNCHANGED benchVars
  <2>1. UNCHANGED <<armVars, pc, snap, hdr, todo, waiting, request>>
    BY <1>12 DEF benchVars, vars, coreVars
  <2>2. QED
    BY <2>1, SameReply, SameGrant DEF Unseen, Phase, InDangerousCommand, Dangerous, Command
<1>13. QED
  BY <1>1, <1>2, <1>3, <1>4, <1>5, <1>6, <1>7, <1>8, <1>9, <1>10, <1>11, <1>12
  DEF BenchNext, Poll, vTaskVTFP, Dispatch, Refusals

(* The refinement.  To a PC that writes one whole command and reads one    *)
(* answer at a time the word-wise copying, the lazy expiry, the wrapping   *)
(* counter and the order of the stores of an answer do not show: it talks  *)
(* to an atomic server with one grant measured in real time.               *)
THEOREM BenchIsRpc ==
    ASSUME PortClock = "ticks"
    PROVE  BenchSpec => ImplementsRpc
<1>1. BenchInit => BenchInv
  <2>. SUFFICES ASSUME BenchInit PROVE BenchInv
    OBVIOUS
  <2>1. TypeOK
    BY InitTypeOK DEF BenchInit
  <2>2. ClockAgreesWithAge
    BY DEF BenchInit, Init, ArmInit, Disarmed, Armed, ClockAgreesWithAge
  <2>3. Zero["command"] = 0
    BY DEF Zero, Words
  <2>4. CallInv
    <3>1. StageInv
      BY <2>3, InitStoresOnce DEF BenchInit, Init, StageInv, ArmInit, Disarmed, Armed
    <3>2. SentInv /\ SnapInv /\ AnswerInv
      BY DEF BenchInit, Init, SentInv, SnapInv, AnswerInv
    <3>3. QED
      BY <3>1, <3>2 DEF CallInv
  <2>5. YoungInv
    BY DEF BenchInit, Init, ArmInit, Disarmed, Armed, YoungInv
  <2>6. QED
    BY <2>1, <2>2, <2>4, <2>5 DEF BenchInv
<1>2. BenchInv /\ [BenchNext]_benchVars => BenchInv'
  BY BenchInvStep
<1>3. BenchInv /\ BenchInv' /\ [BenchNext]_benchVars => [Rpc!Next]_(Rpc!rpcVars)
  BY StepRefines
<1>4. QED
  BY <1>1, <1>2, <1>3, InitRefines, PTL DEF BenchSpec, ImplementsRpc, Rpc!Spec
=============================================================================
