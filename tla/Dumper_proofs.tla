--------------------------- MODULE Dumper_proofs ---------------------------
(***************************************************************************)
(* Theorems about the dumper, for any callers, periods and bounds, and any *)
(* number of blocks: it has one process at most, it tells the truth about  *)
(* it, it is the DumperLike that the server relies on, a frame shows one   *)
(* sample, a sample of which all blocks arrive is shown, and there are     *)
(* never more frames than samples.                                         *)
(*                                                                         *)
(* IInv is about the calls, the process and the state; PipesOK to AccInv   *)
(* follow a block from the process to the accumulator; DueInv counts the   *)
(* samples that were shown.                                                *)
(***************************************************************************)
EXTENDS Dumper, FiniteSetTheorems, SequenceTheorems, TLAPS

Stats == {"none", "alive", "hung", "closing_ok", "closing_failed", "ok", "failed"}
Requests == [by : Callers, op : {"start", "stop"}, period : Periods]
InStop == pc \in {"close", "wait", "wait2"}

(* What the steps of a process, a thread or a reader cannot disturb.       *)
CallsOK ==
    /\ calls \in Seq(Requests)
    /\ pc \in {"idle", "close", "wait", "wait2", "spawn"}
    /\ pc # "idle" => calls # <<>>
    /\ pc = "spawn" => proc = 0 /\ Serving("start")
    /\ InStop => proc # 0
    /\ spawned \in Nat /\ proc \in Procs \cup {0} /\ proc <= spawned

ReadersOK ==
    /\ rdr \in [Procs -> {"off", "get", "done", "stopped"}]
    /\ \A p \in Procs : p > spawned => rdr[p] = "off"

ProcsOK ==
    /\ stat \in [Procs -> Stats]
    /\ NoOrphan
    /\ pc = "wait2" => ~Alive(proc)

IInv == CallsOK /\ ReadersOK /\ ProcsOK /\ StateIsTrue

LEMMA DumperInitOK == Init => IInv
<1>. SUFFICES ASSUME Init PROVE IInv
  OBVIOUS
<1>1. CallsOK
  BY EmptySeq DEF Init, CallsOK, InStop
<1>2. ReadersOK
  BY DEF Init, ReadersOK
<1>3. ProcsOK
  BY DEF Init, ProcsOK, NoOrphan, Alive, Stats
<1>4. StateIsTrue
  BY DEF Init, StateIsTrue
<1>5. QED
  BY <1>1, <1>2, <1>3, <1>4 DEF IInv

(* A call that is served leaves the calls behind it.                       *)
LEMMA ServedLeaves ==
    ASSUME CallsOK, calls # <<>>
    PROVE  Tail(calls) \in Seq(Requests) /\ (Serving("start") \/ Serving("stop"))
<1>1. Tail(calls) \in Seq(Requests) /\ Head(calls) \in Requests
  BY HeadTailProperties DEF CallsOK
<1>2. QED
  BY <1>1 DEF Serving, Requests

LEMMA DumperStep == IInv /\ [Next]_vars => IInv'
<1>. SUFFICES ASSUME IInv, [Next]_vars PROVE IInv'
  OBVIOUS
<1>. USE DumperAssumption
<1>1. ASSUME UNCHANGED <<calls, pc, proc, spawned, rdr, state>>,
             stat' \in [Procs -> Stats],
             \A p \in Procs : Alive(p)' => Alive(p)
      PROVE  IInv'
  <2>1. CallsOK' /\ ReadersOK' /\ ProcsOK'
    BY <1>1 DEF IInv, CallsOK, InStop, Serving, ReadersOK, ProcsOK, NoOrphan
  <2>2. StateIsTrue'
    BY <1>1 DEF IInv, CallsOK, StateIsTrue
  <2>3. QED
    BY <2>1, <2>2 DEF IInv
<1>2. CASE \E p \in Procs : thread_main(p) \/ Prints(p) \/ Quits(p) \/ Exits(p)
  <2>1. PICK p \in Procs : thread_main(p) \/ Prints(p) \/ Quits(p) \/ Exits(p)
    BY <1>2
  <2>2. UNCHANGED <<calls, pc, proc, spawned, rdr, state>>
    BY <2>1 DEF thread_main, NextLine, ReadEof, Prints, PrintBlock, PrintStatus, BrokenPipe,
       Quits, Exits, callVars
  <2>3. \/ stat' = stat
        \/ \E s \in Stats \ {"alive"} : Alive(p) /\ stat' = [stat EXCEPT ![p] = s]
        \/ stat' = [stat EXCEPT ![p] = "ok"]
        \/ stat' = [stat EXCEPT ![p] = "failed"]
    BY <2>1 DEF thread_main, NextLine, ReadEof, Prints, PrintBlock, PrintStatus, BrokenPipe,
       Quits, Exits, procVars, Becomes, Stats, Alive
  <2>4. stat' \in [Procs -> Stats] /\ \A q \in Procs : Alive(q)' => Alive(q)
    BY <2>3 DEF IInv, ProcsOK, Alive, Stats
  <2>5. QED
    BY <1>1, <2>2, <2>4
<1>3. CASE \E p \in Procs : _reader(p)
  <2>1. /\ UNCHANGED <<calls, pc, proc, spawned, stat>>
        /\ state' = state \/ state' = "ERROR" \/ (state = "STARTING" /\ state' = "RUNNING")
        /\ rdr' = rdr \/ \E p \in Procs : rdr[p] = "get" /\ rdr' = [rdr EXCEPT ![p] = "done"]
    BY <1>3 DEF _reader, ReaderEnds, ReaderFeeds, ReaderHas, callVars, procVars
  <2>2. CallsOK' /\ ReadersOK' /\ ProcsOK'
    BY <2>1 DEF IInv, CallsOK, InStop, Serving, ReadersOK, ProcsOK, NoOrphan, Alive
  <2>3. StateIsTrue'
    BY <2>1 DEF IInv, CallsOK, StateIsTrue, Alive
  <2>4. QED
    BY <2>2, <2>3 DEF IInv
<1>4. CASE \E c \in Callers, op \in {"start", "stop"}, ms \in Periods : Call(c, op, ms)
  <2>1. PICK c \in Callers, op \in {"start", "stop"}, ms \in Periods : Call(c, op, ms)
    BY <1>4
  <2>2. /\ calls' = Append(calls, [by |-> c, op |-> op, period |-> ms]) /\ pc # "spawn"
        /\ UNCHANGED <<pc, proc, spawned, rdr, state, stat>>
    BY <2>1 DEF Call, LoopRuns, procVars
  <2>3. calls' \in Seq(Requests) /\ calls' # <<>>
    BY <2>2 DEF IInv, CallsOK, Requests
  <2>4. CallsOK' /\ ReadersOK' /\ ProcsOK'
    BY <2>2, <2>3 DEF IInv, CallsOK, InStop, ReadersOK, ProcsOK, NoOrphan, Alive
  <2>5. StateIsTrue'
    BY <2>2 DEF IInv, CallsOK, StateIsTrue, Alive
  <2>6. QED
    BY <2>4, <2>5 DEF IInv
<1>5. CASE StopIdle \/ FileNotFound
  <2>1. /\ calls # <<>> /\ calls' = Tail(calls) /\ pc' = "idle" /\ pc \in {"idle", "spawn"}
        /\ UNCHANGED <<proc, spawned, rdr, stat>>
        /\ state' = "ERROR" \/ (state' = "IDLE" /\ proc = 0)
    BY <1>5 DEF StopIdle, FileNotFound, AtPopen, Serving, procVars, IInv, CallsOK
  <2>2. CallsOK' /\ ReadersOK' /\ ProcsOK'
    BY <2>1, ServedLeaves DEF IInv, CallsOK, InStop, ReadersOK, ProcsOK, NoOrphan, Alive
  <2>3. StateIsTrue'
    BY <2>1 DEF StateIsTrue
  <2>4. QED
    BY <2>2, <2>3 DEF IInv
<1>6. CASE Stopping \/ CloseReturns
  <2>1. /\ calls # <<>> /\ pc' \in {"close", "wait"} /\ proc # 0
        /\ UNCHANGED <<calls, proc, spawned, rdr, stat>>
        /\ state' = "STOPPING" \/ (state' = state /\ pc = "close")
    BY <1>6 DEF Stopping, CloseReturns, Serving, procVars, IInv, CallsOK, InStop
  <2>2. CallsOK' /\ ReadersOK' /\ ProcsOK'
    BY <2>1 DEF IInv, CallsOK, InStop, ReadersOK, ProcsOK, NoOrphan, Alive
  <2>3. StateIsTrue'
    BY <2>1 DEF IInv, StateIsTrue
  <2>4. QED
    BY <2>2, <2>3 DEF IInv
<1>7. CASE kill
  <2>1. /\ pc = "wait" /\ pc' = "wait2" /\ proc \in Procs
        /\ stat' = [stat EXCEPT ![proc] = "closing_failed"]
        /\ UNCHANGED <<calls, proc, spawned, rdr, state>>
    BY <1>7 DEF kill, Becomes, IInv, CallsOK, InStop
  <2>2. CallsOK' /\ ReadersOK' /\ ProcsOK'
    BY <2>1 DEF IInv, CallsOK, InStop, ReadersOK, ProcsOK, NoOrphan, Alive, Stats
  <2>3. StateIsTrue'
    BY <2>1 DEF IInv, StateIsTrue, ProcsOK, Alive, Stats
  <2>4. QED
    BY <2>2, <2>3 DEF IInv
<1>8. CASE Stopped
  <2>1. /\ InStop /\ proc \in Procs /\ ~Alive(proc) /\ proc' = 0 /\ state' \in {"ERROR", "IDLE"}
        /\ rdr' = [rdr EXCEPT ![proc] = "stopped"]
        /\ UNCHANGED <<spawned, stat>>
    BY <1>8 DEF Stopped, IInv, CallsOK, ProcsOK, InStop, Exited, Alive, procVars
  <2>2. CASE Serving("stop")
    <3>1. calls' = Tail(calls) /\ pc' = "idle" /\ calls # <<>>
      BY <1>8, <2>2 DEF Stopped, Serving
    <3>2. CallsOK' /\ ReadersOK' /\ ProcsOK'
      BY <2>1, <3>1, ServedLeaves DEF IInv, CallsOK, InStop, ReadersOK, ProcsOK, NoOrphan, Alive
    <3>3. StateIsTrue'
      BY <2>1, <3>1 DEF StateIsTrue
    <3>4. QED
      BY <3>2, <3>3 DEF IInv
  <2>3. CASE ~Serving("stop")
    <3>1. calls' = calls /\ pc' = "spawn" /\ calls # <<>>
      BY <1>8, <2>1, <2>3 DEF Stopped, IInv, CallsOK, InStop
    <3>2. Serving("start")'
      BY <2>3, <3>1, ServedLeaves DEF IInv, Serving
    <3>3. CallsOK' /\ ReadersOK' /\ ProcsOK'
      BY <2>1, <3>1, <3>2 DEF IInv, CallsOK, InStop, ReadersOK, ProcsOK, NoOrphan, Alive
    <3>4. StateIsTrue'
      BY <2>1, <3>1 DEF StateIsTrue
    <3>5. QED
      BY <3>3, <3>4 DEF IInv
  <2>4. QED
    BY <2>2, <2>3
<1>9. CASE Popen
  <2>1. /\ calls # <<>> /\ calls' = Tail(calls) /\ pc' = "idle" /\ spawned' = spawned + 1
        /\ proc' = spawned + 1 /\ proc' \in Procs /\ state' = "STARTING"
        /\ stat' = [stat EXCEPT ![proc'] = "alive"]
        /\ rdr' = [rdr EXCEPT ![proc'] = "get"]
    BY <1>9 DEF Popen, AtPopen, Serving, IInv, CallsOK, Procs
  <2>2. \A p \in Procs : ~Alive(p)
    BY <1>9 DEF Popen, AtPopen, IInv, CallsOK, ProcsOK, NoOrphan, Alive, Exited, Procs
  <2>3. CallsOK' /\ ReadersOK' /\ ProcsOK'
    BY <2>1, <2>2, ServedLeaves
    DEF IInv, CallsOK, InStop, ReadersOK, ProcsOK, NoOrphan, Alive, Stats, Procs
  <2>4. StateIsTrue'
    BY <2>1 DEF StateIsTrue, Procs
  <2>5. QED
    BY <2>3, <2>4 DEF IInv
<1>10. CASE UNCHANGED vars
  BY <1>1, <1>10 DEF vars, callVars, procVars, IInv, ProcsOK, Alive
<1>11. QED
  BY <1>2, <1>3, <1>4, <1>5, <1>6, <1>7, <1>8, <1>9, <1>10 DEF Next, Serve

(* However starts, stops, hangs, exits and kills follow one another, no    *)
(* process runs but the one that the next stop() will stop.                *)
THEOREM OneProcess == Spec => []NoOrphan
<1>1. IInv => NoOrphan
  BY DEF IInv, ProcsOK
<1>2. QED
  BY <1>1, DumperInitOK, DumperStep, PTL DEF Spec

(* The state that is reported is that of the process.                      *)
THEOREM ReportsTheTruth == Spec => []StateIsTrue
<1>1. IInv => StateIsTrue
  BY DEF IInv
<1>2. QED
  BY <1>1, DumperInitOK, DumperStep, PTL DEF Spec

-----------------------------------------------------------------------------
(* Two processes at most matter to what the server is told: the one of     *)
(* _proc, and any that was replaced and whose reader still has lines.      *)

LEMMA LikeInit == Init => Like!DumperInit
BY DEF Init, Like!DumperInit, Run, Stray

LEMMA LikeStep == IInv /\ [Next]_vars => [Like!DumperNext]_Like!dumperVars
<1>. SUFFICES ASSUME IInv, [Next]_vars PROVE [Like!DumperNext]_Like!dumperVars
  OBVIOUS
<1>. USE DumperAssumption DEF IInv
<1>1. ASSUME UNCHANGED <<calls, period, latest, published, proc, rdr>>,
             proc # 0 => (Exited(proc)' <=> Exited(proc))
      PROVE  UNCHANGED Like!dumperVars
  BY <1>1 DEF Like!dumperVars, Run, Stray
<1>2. CASE \E p \in Procs : thread_main(p) \/ Prints(p) \/ Quits(p)
  <2>1. UNCHANGED <<calls, period, latest, published, proc, rdr>>
    BY <1>2 DEF thread_main, NextLine, ReadEof, Prints, PrintBlock, PrintStatus, BrokenPipe,
       Quits, callVars, frameVars
  <2>2. stat' = stat \/ \E p \in Procs, s \in {"closing_ok", "closing_failed", "hung"} :
                            stat[p] = "alive" /\ stat' = [stat EXCEPT ![p] = s]
    BY <1>2 DEF thread_main, NextLine, ReadEof, Prints, PrintBlock, PrintStatus, BrokenPipe,
       Quits, procVars, Becomes
  <2>3. \A p \in Procs : Exited(p)' <=> Exited(p)
    BY <2>2 DEF ProcsOK, Exited
  <2>4. QED
    BY <1>1, <2>1, <2>3 DEF CallsOK
<1>3. ASSUME NEW p \in Procs, Exits(p) PROVE [Like!DumperNext]_Like!dumperVars
  <2>1. /\ UNCHANGED <<calls, period, latest, published, proc, rdr>>
        /\ ~Exited(p) /\ Exited(p)'
        /\ \A q \in Procs : q # p => (Exited(q)' <=> Exited(q))
    BY <1>3 DEF Exits, callVars, frameVars, ProcsOK, Exited
  <2>2. CASE p = proc
    <3>1. Run = "on" /\ Run' = "ended" /\ UNCHANGED Stray
      BY <2>1, <2>2 DEF Run, Stray, Procs
    <3>2. QED
      BY <2>1, <3>1 DEF Like!DumperNext, Like!Ends
  <2>3. CASE p # proc
    BY <1>1, <2>1, <2>3 DEF CallsOK
  <2>4. QED
    BY <2>2, <2>3
<1>4. ASSUME NEW p \in Procs, ReaderFeeds(p) PROVE [Like!DumperNext]_Like!dumperVars
  <2>1. /\ UNCHANGED <<calls, period, proc, rdr, stat>> /\ rdr[p] = "get"
        /\ \/ published' = published + 1 /\ latest' = published'
           \/ UNCHANGED <<published, latest>>
    BY <1>4 DEF ReaderFeeds, ReaderHas, callVars, procVars
  <2>2. UNCHANGED <<Run, Stray>>
    BY <2>1 DEF Run, Stray, Exited
  <2>3. Run # "off" \/ Stray
    BY <2>1 DEF Run, Stray, Procs
  <2>4. QED
    BY <2>1, <2>2, <2>3 DEF Like!DumperNext, Like!Publish, Like!dumperVars
<1>5. ASSUME NEW p \in Procs, ReaderEnds(p) PROVE [Like!DumperNext]_Like!dumperVars
  <2>1. /\ UNCHANGED <<calls, period, latest, published, proc, stat>> /\ rdr[p] = "get"
        /\ rdr' = [rdr EXCEPT ![p] = "done"]
    BY <1>5 DEF ReaderEnds, ReaderHas, callVars, procVars, frameVars
  <2>2. UNCHANGED Run
    BY <2>1 DEF Run, Exited
  <2>3. Stray' \in BOOLEAN /\ Stray \in BOOLEAN /\ (Stray' => Stray)
    BY <2>1 DEF Stray, ReadersOK
  <2>4. CASE UNCHANGED Stray
    BY <2>1, <2>2, <2>4 DEF Like!dumperVars
  <2>5. CASE Stray /\ Stray' = FALSE
    BY <2>1, <2>2, <2>5 DEF Like!DumperNext, Like!Drains
  <2>6. QED
    BY <2>3, <2>4, <2>5
<1>6. ASSUME NEW c \in Callers, NEW op \in {"start", "stop"}, NEW ms \in Periods, Call(c, op, ms)
      PROVE  [Like!DumperNext]_Like!dumperVars
  <2>1. UNCHANGED <<Run, Stray>>
    BY <1>6 DEF Call, procVars, Run, Stray, Exited
  <2>2. Like!Call(c, op, ms)
    BY <1>6, <2>1 DEF Call, Like!Call, Like!InCall, InCall, Like!Request, frameVars
  <2>3. QED
    BY <2>2 DEF Like!DumperNext
<1>7. CASE StopIdle
  <2>1. UNCHANGED <<Run, Stray>> /\ Run = "off"
    BY <1>7 DEF StopIdle, procVars, Run, Stray, Exited
  <2>2. Like!StaysOff
    BY <1>7, <2>1 DEF StopIdle, Like!StaysOff, Like!Serving, Serving, frameVars
  <2>3. QED
    BY <2>2 DEF Like!DumperNext, Like!Serve
<1>8. CASE Stopping \/ CloseReturns
  BY <1>1, <1>8 DEF Stopping, CloseReturns, procVars, frameVars, Exited
<1>9. CASE kill
  <2>1. Exited(proc)' <=> Exited(proc)
    BY <1>9 DEF kill, Becomes, Exited, ProcsOK, CallsOK, InStop
  <2>2. QED
    BY <1>1, <1>9, <2>1 DEF kill, frameVars
<1>10. CASE Stopped
  <2>1. /\ InStop /\ proc \in Procs /\ calls # <<>>
        /\ proc' = 0 /\ latest' = 0 /\ UNCHANGED <<period, published>>
        /\ rdr' = [rdr EXCEPT ![proc] = "stopped"]
        /\ IF Serving("stop") THEN calls' = Tail(calls) ELSE calls' = calls
    BY <1>10 DEF Stopped, CallsOK, InStop, Serving
  <2>2. Run # "off" /\ Run' = "off"
    BY <2>1 DEF Run, Procs
  <2>3. UNCHANGED Stray
    BY <2>1 DEF Stray, ReadersOK, Procs
  <2>4. Like!TurnOff
    BY <2>1, <2>2, <2>3, ServedLeaves DEF Like!TurnOff, Like!Serving, Serving
  <2>5. QED
    BY <2>4 DEF Like!DumperNext, Like!Serve
<1>11. CASE Popen
  <2>1. /\ Serving("start") /\ calls' = Tail(calls) /\ period' = Head(calls).period
        /\ proc' = spawned + 1 /\ proc' \in Procs
        /\ stat'[proc'] = "alive" /\ rdr' = [rdr EXCEPT ![proc'] = "get"]
        /\ UNCHANGED <<latest, published>>
        /\ proc = 0 \/ Exited(proc)
    BY <1>11 DEF Popen, AtPopen, CallsOK, ProcsOK, Procs, frameVars
  <2>2. Run # "on" /\ Run' = "on" /\ (Run = "ended" <=> proc # 0)
    BY <2>1 DEF Run, Exited, Procs
  <2>3. proc = 0 => UNCHANGED Stray
    BY <2>1 DEF Stray, ReadersOK, CallsOK, Procs
  <2>4. Stray' \in BOOLEAN
    BY DEF Stray
  <2>5. Like!TurnOn
    BY <2>1, <2>2, <2>3, <2>4 DEF Like!TurnOn, Like!Serving, Serving
  <2>6. QED
    BY <2>5 DEF Like!DumperNext, Like!Serve
<1>12. CASE FileNotFound
  <2>1. Serving("start") /\ (proc = 0 \/ Exited(proc))
    BY <1>12 DEF FileNotFound, AtPopen, CallsOK
  <2>2. Run # "on" /\ UNCHANGED <<Run, Stray>>
    BY <1>12, <2>1 DEF FileNotFound, procVars, Run, Stray, Exited
  <2>3. Like!SpawnFails
    BY <1>12, <2>1, <2>2 DEF FileNotFound, Like!SpawnFails, Like!Serving, Serving, frameVars
  <2>4. QED
    BY <2>3 DEF Like!DumperNext, Like!Serve
<1>13. CASE UNCHANGED vars
  BY <1>1, <1>13 DEF vars, callVars, procVars, frameVars, Exited
<1>14. QED
  BY <1>2, <1>3, <1>4, <1>5, <1>6, <1>7, <1>8, <1>9, <1>10, <1>11, <1>12, <1>13
  DEF Next, Serve, _reader

(* The dumper does what the WebSocket server is written for: every step of *)
(* its coroutines, threads and processes is one of DumperLike, or none.    *)
THEOREM DumperIsDumperLike == Spec => ImplementsDumperLike
BY LikeInit, LikeStep, DumperInitOK, DumperStep, PTL DEF Spec, ImplementsDumperLike, Like!DumperSpec

-----------------------------------------------------------------------------
(* The pipes and the blocks in them.                                       *)

(* The pipe of a process is open until a stop() closes it; a reader at     *)
(* work that is not that of _proc is one of a process that was replaced.   *)
PipesOK ==
    /\ open \in [Procs -> BOOLEAN] /\ \A p \in Procs : open[p] => p <= spawned
    /\ proc # 0 /\ pc \notin {"wait", "wait2"} => open[proc]
    /\ \A p \in Procs : rdr[p] = "get" /\ p # proc => open[p]

Lines == Block \cup {EOF}
Coming == [sample : 0 .. MaxSamples, index : 0 .. NBlocks - 1, started : BOOLEAN, whole : BOOLEAN]

(* A queue has blocks of its own process, of samples that there were.      *)
QueuesOK ==
    /\ samples \in 0 .. MaxSamples
    /\ queue \in [Procs -> Seq(Lines)] /\ cur \in [Procs -> Coming]
    /\ thr \in [Procs -> {"off", "between", "read", "done"}]
    /\ \A p \in Procs : cur[p].index # 0 => cur[p].sample \in 1 .. samples
    /\ \A p \in Procs : \A i \in 1 .. Len(queue[p]) :
            queue[p][i] # EOF => queue[p][i].proc = p /\ queue[p][i].sample <= samples
    /\ \A p \in Procs : p > spawned => queue[p] = <<>> /\ cur[p] = BeforeFirst /\ thr[p] = "off"

(* The line that a reader gets next, or will be the next to be printed.    *)
Upcoming(p) == IF queue[p] = <<>> THEN cur[p] ELSE Head(queue[p])

(* A block that is not the first tells of the one before it: its sample is *)
(* the same when block 0 got through, and nothing is missing in between    *)
(* when all did.                                                           *)
Follows(x, y) ==
    x # EOF /\ y # EOF /\ y.index # 0 =>
        /\ y.started => x.started /\ x.sample = y.sample
        /\ y.whole => x.whole /\ x.sample = y.sample /\ x.index = y.index - 1

Behind(p, i) == IF i = Len(queue[p]) THEN cur[p] ELSE queue[p][i + 1]

ChainInv == \A p \in Procs : \A i \in 1 .. Len(queue[p]) : Follows(queue[p][i], Behind(p, i))

AccOK ==
    /\ acc.count \in {0, NBlocks} /\ DOMAIN acc.blocks \subseteq 0 .. acc.count - 1
    /\ \A i \in DOMAIN acc.blocks : acc.blocks[i] \in Block

(* What the accumulator has of the sample that a reader is in: the blocks  *)
(* before the one that comes, if all came, and besides them only what the  *)
(* reader of a replaced process fed.                                       *)
Prepared(p, x) ==
    x # EOF /\ x.index # 0 =>
        /\ x.started => \A i \in DOMAIN acc.blocks :
                acc.blocks[i].sample # x.sample => acc.blocks[i].proc # p /\ Replaced
        /\ x.whole /\ ~Replaced =>
                /\ acc.count = NBlocks /\ DOMAIN acc.blocks = 0 .. x.index - 1
                /\ \A i \in DOMAIN acc.blocks : acc.blocks[i].sample = x.sample

AccInv == \A p \in Procs : rdr[p] = "get" => Prepared(p, Upcoming(p))

(* A sample may still be shown while its last block is to come; that is so *)
(* at one place only, and what was shown is past.                          *)
IsLast(x) == x # EOF /\ x.index = NBlocks - 1

Due(p, s) ==
    \/ cur[p].index # 0 /\ cur[p].sample = s
    \/ \E i \in 1 .. Len(queue[p]) : IsLast(queue[p][i]) /\ queue[p][i].sample = s

Past == {s \in 1 .. samples : \A p \in Procs : ~Due(p, s)}

DueOnce(p) ==
    \A i \in 1 .. Len(queue[p]) : IsLast(queue[p][i]) =>
        /\ cur[p].index # 0 => queue[p][i].sample # cur[p].sample
        /\ \A j \in 1 .. Len(queue[p]) :
                IsLast(queue[p][j]) /\ queue[p][i].sample = queue[p][j].sample => i = j

DueInv ==
    /\ \A p \in Procs : DueOnce(p)
    /\ \A p, q \in Procs : \A s \in 1 .. samples : Due(p, s) /\ Due(q, s) => p = q
    /\ published \in Nat /\ published <= Cardinality(Past)

LEMMA LineKinds ==
    /\ EOF \notin Block /\ EOF \in Lines
    /\ \A x \in Lines : x # EOF => x \in Block
    /\ \A x \in Block : /\ x.proc \in Procs /\ x.index \in 0 .. NBlocks - 1 /\ x.count = NBlocks
                        /\ x.sample \in 1 .. MaxSamples /\ x.started \in BOOLEAN /\ x.whole \in BOOLEAN
<1>1. ASSUME NEW x \in Block PROVE x # EOF
  <2>1. DOMAIN x = {"proc", "index", "count", "sample", "started", "whole"}
    BY DEF Block
  <2>2. DOMAIN EOF = {"line"}
    BY DEF EOF
  <2>3. QED
    BY <2>1, <2>2
<1>2. QED
  BY <1>1 DEF Lines, Block

-----------------------------------------------------------------------------
(* What can happen to the queues, the accumulator left aside.              *)

Rests == UNCHANGED <<queue, cur, samples>>

Forgets(p) == cur' = [cur EXCEPT ![p] = BeforeFirst] /\ UNCHANGED <<queue, samples>>

Clears(p) == queue' = [queue EXCEPT ![p] = <<>>] /\ rdr'[p] # "get" /\ UNCHANGED <<cur, samples>>

Closes(p) == p <= spawned /\ Put(p, EOF) /\ UNCHANGED <<cur, samples>>

Moves(p) == Forgets(p) \/ Clears(p) \/ Closes(p) \/ \E got \in BOOLEAN : PrintBlock(p, got)

(* Readers begin with their process, and go on until they end.             *)
LEMMA QueueMoves ==
    ASSUME IInv, QueuesOK, [Next]_vars
    PROVE  /\ \/ /\ UNCHANGED <<acc, published>> /\ latest' \in {0, latest}
                 /\ (Rests \/ \E p \in Procs : Moves(p))
              \/ \E p \in Procs : ReaderFeeds(p)
           /\ spawned' \in {spawned, spawned + 1}
           /\ \A p \in Procs : rdr'[p] = "get" => rdr[p] = "get" \/ (p = spawned' /\ spawned' = spawned + 1)
<1>. USE DumperAssumption
<1>1. CASE \E p \in Procs : thread_main(p)
  <2>1. PICK p \in Procs : NextLine(p) \/ ReadEof(p)
    BY <1>1 DEF thread_main
  <2>2. Rests \/ Closes(p)
    BY <2>1 DEF NextLine, ReadEof, Rests, Closes, QueuesOK, procVars, IInv, CallsOK, Procs
  <2>3. UNCHANGED <<acc, published, latest, spawned, rdr>>
    BY <2>1 DEF NextLine, ReadEof, frameVars
  <2>4. QED
    BY <2>2, <2>3 DEF Moves, IInv, CallsOK
<1>2. CASE \E p \in Procs : Prints(p) \/ Quits(p) \/ Exits(p)
  <2>1. PICK p \in Procs : Prints(p) \/ Quits(p) \/ Exits(p)
    BY <1>2
  <2>2. Rests \/ Forgets(p) \/ \E got \in BOOLEAN : PrintBlock(p, got)
    BY <2>1 DEF Prints, PrintStatus, BrokenPipe, Quits, Exits, Becomes, Rests, Forgets, procVars
  <2>3. UNCHANGED <<acc, published, latest, spawned, rdr>>
    BY <2>1 DEF Prints, PrintBlock, PrintStatus, BrokenPipe, Quits, Exits, frameVars
  <2>4. QED
    BY <2>2, <2>3 DEF Moves, IInv, CallsOK
<1>3. ASSUME NEW p \in Procs, ReaderFeeds(p)
      PROVE  UNCHANGED <<spawned, rdr>>
  BY <1>3 DEF ReaderFeeds
<1>4. ASSUME NEW p \in Procs, ReaderEnds(p)
      PROVE  Clears(p) /\ UNCHANGED <<acc, published, latest, spawned>> /\ rdr' = [rdr EXCEPT ![p] = "done"]
  BY <1>4 DEF ReaderEnds, Clears, procVars, frameVars, IInv, ReadersOK
<1>5. CASE \E c \in Callers, op \in {"start", "stop"}, ms \in Periods : Call(c, op, ms)
  BY <1>5 DEF Call, Rests, procVars, frameVars, IInv, CallsOK
<1>6. CASE StopIdle \/ FileNotFound \/ Stopping \/ CloseReturns
  <2>1. Rests /\ UNCHANGED <<acc, published, latest, spawned, rdr>>
    BY <1>6 DEF StopIdle, FileNotFound, Stopping, CloseReturns, Rests, procVars, frameVars
  <2>2. QED
    BY <2>1 DEF IInv, CallsOK
<1>7. CASE kill
  <2>1. proc \in Procs /\ Forgets(proc) /\ UNCHANGED <<acc, published, latest, spawned, rdr>>
    BY <1>7 DEF kill, Becomes, Forgets, frameVars, IInv, CallsOK, InStop
  <2>2. QED
    BY <2>1 DEF Moves, IInv, CallsOK
<1>8. CASE Stopped
  <2>1. /\ proc \in Procs /\ Clears(proc) /\ UNCHANGED <<acc, published, spawned>> /\ latest' = 0
        /\ rdr' = [rdr EXCEPT ![proc] = "stopped"]
    BY <1>8 DEF Stopped, Clears, procVars, IInv, CallsOK, InStop, ReadersOK
  <2>2. QED
    BY <2>1 DEF Moves, IInv, CallsOK, ReadersOK
<1>9. CASE Popen
  <2>1. /\ Rests /\ UNCHANGED <<acc, published, latest>>
        /\ spawned' = spawned + 1 /\ proc' = spawned + 1 /\ rdr' = [rdr EXCEPT ![proc'] = "get"]
    BY <1>9 DEF Popen, Rests, frameVars
  <2>2. QED
    BY <2>1 DEF IInv, ReadersOK
<1>10. CASE UNCHANGED vars
  BY <1>10 DEF vars, procVars, frameVars, Rests, IInv, CallsOK
<1>11. QED
  <2>1. CASE \E p \in Procs : ReaderFeeds(p)
    BY <1>3, <2>1 DEF IInv, CallsOK
  <2>2. CASE \E p \in Procs : ReaderEnds(p)
    BY <1>4, <2>2 DEF Moves, IInv, CallsOK, ReadersOK
  <2>3. QED
    BY <1>1, <1>2, <1>5, <1>6, <1>7, <1>8, <1>9, <1>10, <2>1, <2>2 DEF Next, Serve, _reader

(* Whatever is fed, and by whom, the accumulator holds blocks of the count *)
(* that it expects.                                                        *)
LEMMA FedIsOK ==
    ASSUME AccOK, NEW b \in Block
    PROVE  LET a == feed(acc, b)
           IN  /\ a.count \in {0, NBlocks} /\ DOMAIN a.blocks \subseteq 0 .. a.count - 1
               /\ \A i \in DOMAIN a.blocks : a.blocks[i] \in Block
<1>. USE DumperAssumption
<1>1. b.index \in 0 .. NBlocks - 1 /\ b.count = NBlocks
  BY LineKinds
<1>2. CASE Completes(acc, b)
  <2>1. feed(acc, b) = [blocks |-> <<>>, count |-> 0] /\ DOMAIN <<>> = {}
    BY <1>2 DEF feed, FrameAccumulator
  <2>2. QED
    BY <2>1
<1>3. CASE ~Completes(acc, b)
  <2>1. feed(acc, b).blocks = Joined(acc, b) /\ feed(acc, b).count = NBlocks
    BY <1>1, <1>3 DEF feed
  <2>2. \A i \in DOMAIN acc.blocks : i \in 0 .. NBlocks - 1
    BY DEF AccOK
  <2>3. DOMAIN <<>> = {}
    OBVIOUS
  <2>4. \A i \in DOMAIN Joined(acc, b) : i \in 0 .. NBlocks - 1 /\ Joined(acc, b)[i] \in Block
    BY <1>1, <2>2, <2>3 DEF Joined, AccOK
  <2>5. QED
    BY <2>1, <2>4
<1>4. QED
  BY <1>2, <1>3

LEMMA ReaderSees ==
    ASSUME QueuesOK, NEW p \in Procs, queue[p] # <<>>
    PROVE  /\ Len(queue[p]) \in Nat \ {0} /\ Head(queue[p]) = queue[p][1] /\ queue[p][1] \in Lines
           /\ Tail(queue[p]) \in Seq(Lines) /\ Len(Tail(queue[p])) = Len(queue[p]) - 1
           /\ \A i \in 1 .. Len(queue[p]) - 1 : Tail(queue[p])[i] = queue[p][i + 1]
           /\ Tail(queue[p]) = <<>> <=> Len(queue[p]) = 1
<1>1. queue[p] \in Seq(Lines)
  BY DEF QueuesOK
<1>2. /\ Tail(queue[p]) \in Seq(Lines) /\ Len(Tail(queue[p])) = Len(queue[p]) - 1
      /\ \A i \in 1 .. Len(Tail(queue[p])) : Tail(queue[p])[i] = queue[p][i + 1]
  BY <1>1, HeadTailProperties
<1>3. Len(queue[p]) \in Nat \ {0} /\ Head(queue[p]) = queue[p][1]
  BY <1>1, EmptySeq
<1>4. queue[p][1] \in Lines
  BY <1>1, <1>3, ElementOfSeq
<1>5. Tail(queue[p]) = <<>> <=> Len(Tail(queue[p])) = 0
  BY <1>2, EmptySeq
<1>6. QED
  BY <1>2, <1>3, <1>4, <1>5

LEMMA AccStep == IInv /\ QueuesOK /\ AccOK /\ [Next]_vars => AccOK'
<1>. SUFFICES ASSUME IInv, QueuesOK, AccOK, [Next]_vars PROVE AccOK'
  OBVIOUS
<1>1. CASE acc' = acc
  BY <1>1 DEF AccOK
<1>2. ASSUME NEW p \in Procs, ReaderFeeds(p) PROVE AccOK'
  <2>1. Head(queue[p]) \in Block /\ acc' = feed(acc, Head(queue[p]))
    BY <1>2, ReaderSees, LineKinds DEF ReaderFeeds, ReaderHas
  <2>2. QED
    BY <2>1, FedIsOK DEF AccOK
<1>3. QED
  BY <1>1, <1>2, QueueMoves

LEMMA PipesStep == IInv /\ PipesOK /\ QueuesOK /\ [Next]_vars => PipesOK' /\ (Replaced => Replaced')
<1>. SUFFICES ASSUME IInv, PipesOK, QueuesOK, [Next]_vars PROVE PipesOK' /\ (Replaced => Replaced')
  OBVIOUS
<1>. USE DumperAssumption
<1>1. ASSUME UNCHANGED <<open, proc, spawned>>, pc' \in {"wait", "wait2"} \/ pc \notin {"wait", "wait2"},
             \A p \in Procs : rdr'[p] = "get" => rdr[p] = "get"
      PROVE  PipesOK' /\ (Replaced => Replaced')
  BY <1>1 DEF PipesOK, Replaced
<1>2. CASE \E p \in Procs : _reader(p) \/ thread_main(p) \/ Prints(p) \/ Quits(p) \/ Exits(p)
  <2>1. PICK p \in Procs : _reader(p) \/ thread_main(p) \/ Prints(p) \/ Quits(p) \/ Exits(p)
    BY <1>2
  <2>2. UNCHANGED <<open, proc, spawned, pc>>
    BY <2>1 DEF _reader, ReaderEnds, ReaderFeeds, thread_main, NextLine, ReadEof, Prints, PrintBlock,
       PrintStatus, BrokenPipe, Quits, Exits, callVars
  <2>3. rdr' = rdr \/ rdr' = [rdr EXCEPT ![p] = "done"]
    BY <2>1 DEF _reader, ReaderEnds, ReaderFeeds, thread_main, NextLine, ReadEof, Prints, PrintBlock,
       PrintStatus, BrokenPipe, Quits, Exits
  <2>4. QED
    BY <1>1, <2>2, <2>3 DEF IInv, ReadersOK
<1>3. CASE \E c \in Callers, op \in {"start", "stop"}, ms \in Periods : Call(c, op, ms)
  BY <1>1, <1>3 DEF Call
<1>4. CASE StopIdle \/ Stopping \/ kill
  BY <1>1, <1>4 DEF StopIdle, Stopping, kill
<1>5. CASE FileNotFound
  <2>1. pc \notin {"wait", "wait2"} /\ UNCHANGED <<open, proc, spawned, rdr>>
    BY <1>5 DEF FileNotFound, AtPopen
  <2>2. QED
    BY <1>1, <2>1
<1>6. CASE CloseReturns
  <2>1. /\ proc \in Procs /\ open' = [open EXCEPT ![proc] = FALSE] /\ pc' = "wait"
        /\ UNCHANGED <<proc, spawned, rdr>>
    BY <1>6 DEF CloseReturns, IInv, CallsOK, InStop
  <2>2. QED
    BY <2>1 DEF PipesOK, Replaced
<1>7. CASE Stopped
  <2>1. /\ proc \in Procs /\ proc' = 0 /\ rdr' = [rdr EXCEPT ![proc] = "stopped"]
        /\ UNCHANGED <<open, spawned>>
    BY <1>7 DEF Stopped, IInv, CallsOK, InStop
  <2>2. QED
    BY <2>1 DEF PipesOK, Replaced, IInv, ReadersOK, CallsOK, Procs
<1>8. CASE Popen
  <2>1. /\ spawned' = spawned + 1 /\ proc' = spawned' /\ proc' \in Procs
        /\ open' = [open EXCEPT ![proc'] = TRUE] /\ rdr' = [rdr EXCEPT ![proc'] = "get"]
        /\ pc \in {"idle", "spawn"} /\ pc' = "idle" /\ spawned \in Nat /\ proc <= spawned
    BY <1>8 DEF Popen, AtPopen, IInv, CallsOK, Procs
  <2>2. proc # 0 => open[proc]
    BY <2>1 DEF PipesOK
  <2>3. PipesOK'
    BY <2>1, <2>2 DEF PipesOK, IInv, ReadersOK, CallsOK, Procs
  <2>4. Replaced => Replaced'
    BY <2>1 DEF Replaced, PipesOK, Procs
  <2>5. QED
    BY <2>3, <2>4
<1>9. CASE UNCHANGED vars
  BY <1>1, <1>9 DEF vars, callVars
<1>10. QED
  BY <1>2, <1>3, <1>4, <1>5, <1>6, <1>7, <1>8, <1>9 DEF Next, Serve

(* Two readers are at work only when one is of a process that was replaced. *)
LEMMA TwoReaders ==
    ASSUME IInv, PipesOK, NEW p \in Procs, NEW q \in Procs, p # q, rdr[p] = "get", rdr[q] = "get"
    PROVE  Replaced
BY DumperAssumption DEF PipesOK, Replaced, Procs, IInv, CallsOK

LEMMA NextIndex ==
    ASSUME NEW i \in 0 .. NBlocks - 1
    PROVE  (i + 1) % NBlocks = IF i = NBlocks - 1 THEN 0 ELSE i + 1
BY DumperAssumption

(* What a step of printing does, told without records of records.          *)
LEMMA PrintIs ==
    ASSUME QueuesOK, NEW p \in Procs, NEW got \in BOOLEAN, PrintBlock(p, got)
    PROVE  LET b == NextBlock(p, got)
           IN  /\ b \in Block /\ b.proc = p /\ b.index = cur[p].index
               /\ b.sample = (IF cur[p].index = 0 THEN samples + 1 ELSE cur[p].sample)
               /\ b.started = (IF cur[p].index = 0 THEN got ELSE cur[p].started)
               /\ b.whole = (got /\ (cur[p].index = 0 \/ cur[p].whole))
               /\ cur'[p] \in Coming
               /\ \A q \in Procs : q # p => cur'[q] = cur[q]
               /\ cur'[p].index = (IF b.index = NBlocks - 1 THEN 0 ELSE b.index + 1)
               /\ cur'[p].sample = b.sample /\ cur'[p].started = b.started /\ cur'[p].whole = b.whole
               /\ samples' = (IF cur[p].index = 0 THEN samples + 1 ELSE samples)
               /\ samples' \in 0 .. MaxSamples /\ samples <= samples' /\ b.sample <= samples'
               /\ IF got THEN queue' = [queue EXCEPT ![p] = Append(queue[p], b)] ELSE queue' = queue
<1>. DEFINE b == NextBlock(p, got)
<1>. USE DumperAssumption
<1>1. /\ cur[p] \in Coming /\ cur[p].index \in 0 .. NBlocks - 1 /\ cur[p].sample \in 0 .. MaxSamples
      /\ cur[p].started \in BOOLEAN /\ cur[p].whole \in BOOLEAN
      /\ cur[p].index # 0 => cur[p].sample \in 1 .. samples
      /\ samples \in 0 .. MaxSamples
      /\ cur[p].index = 0 => samples < MaxSamples
  BY DEF QueuesOK, Coming, PrintBlock
<1>2. /\ b.proc = p /\ b.index = cur[p].index /\ b.count = NBlocks
      /\ b.sample = (IF cur[p].index = 0 THEN samples + 1 ELSE cur[p].sample)
      /\ b.started = (IF cur[p].index = 0 THEN got ELSE cur[p].started)
      /\ b.whole = (got /\ (cur[p].index = 0 \/ cur[p].whole))
  BY DEF NextBlock
<1>3. b \in Block
  <2>1. /\ (IF cur[p].index = 0 THEN samples + 1 ELSE cur[p].sample) \in 1 .. MaxSamples
        /\ (IF cur[p].index = 0 THEN got ELSE cur[p].started) \in BOOLEAN
        /\ (got /\ (cur[p].index = 0 \/ cur[p].whole)) \in BOOLEAN
    BY <1>1
  <2>2. QED
    BY <1>1, <2>1 DEF NextBlock, Block
<1>4. /\ cur' = [cur EXCEPT ![p] = [sample |-> b.sample, index |-> (b.index + 1) % NBlocks,
                                     started |-> b.started, whole |-> b.whole]]
      /\ samples' = (IF b.index = 0 THEN samples + 1 ELSE samples)
      /\ IF got THEN queue' = [queue EXCEPT ![p] = Append(@, b)] ELSE queue' = queue
  BY DEF PrintBlock, Put
<1>5. (b.index + 1) % NBlocks = (IF b.index = NBlocks - 1 THEN 0 ELSE b.index + 1)
  BY <1>1, <1>2, NextIndex
<1>6. /\ cur'[p].index = (IF b.index = NBlocks - 1 THEN 0 ELSE b.index + 1)
      /\ cur'[p].sample = b.sample /\ cur'[p].started = b.started /\ cur'[p].whole = b.whole
      /\ \A q \in Procs : q # p => cur'[q] = cur[q]
      /\ cur'[p] \in Coming
  <2>. HIDE DEF b
  <2>1. cur'[p] = [sample |-> b.sample, index |-> (b.index + 1) % NBlocks,
                   started |-> b.started, whole |-> b.whole]
    BY <1>4 DEF QueuesOK
  <2>2. /\ b.sample \in 0 .. MaxSamples /\ b.started \in BOOLEAN /\ b.whole \in BOOLEAN
        /\ (b.index + 1) % NBlocks \in 0 .. NBlocks - 1
    BY <1>1, <1>2, <1>3, <1>5, LineKinds
  <2>3. cur'[p] \in Coming
    BY <2>1, <2>2 DEF Coming
  <2>4. QED
    BY <1>4, <1>5, <2>1, <2>3 DEF QueuesOK
<1>7. /\ samples' = (IF cur[p].index = 0 THEN samples + 1 ELSE samples)
      /\ samples' \in 0 .. MaxSamples /\ samples <= samples' /\ b.sample <= samples'
  BY <1>1, <1>2, <1>4
<1>8. IF got THEN queue' = [queue EXCEPT ![p] = Append(queue[p], b)] ELSE queue' = queue
  BY <1>4 DEF QueuesOK
<1>9. QED
  BY <1>2, <1>3, <1>6, <1>7, <1>8

LEMMA ThreadsStep ==
    ASSUME IInv, QueuesOK, [Next]_vars
    PROVE  /\ thr' \in [Procs -> {"off", "between", "read", "done"}]
           /\ \A p \in Procs : p > spawned' => thr'[p] = "off"
<1>. USE DumperAssumption
<1>1. ASSUME UNCHANGED <<thr, spawned>> PROVE thr' \in [Procs -> {"off", "between", "read", "done"}]
                                              /\ \A p \in Procs : p > spawned' => thr'[p] = "off"
  BY <1>1 DEF QueuesOK
<1>2. ASSUME NEW p \in Procs, NEW t \in {"between", "read", "done"}, p <= spawned,
             thr' = [thr EXCEPT ![p] = t], spawned' = spawned
      PROVE  /\ thr' \in [Procs -> {"off", "between", "read", "done"}]
             /\ \A q \in Procs : q > spawned' => thr'[q] = "off"
  <2>1. thr' \in [Procs -> {"off", "between", "read", "done"}] /\ thr \in [Procs -> {"off", "between", "read", "done"}]
    BY <1>2 DEF QueuesOK
  <2>2. ASSUME NEW q \in Procs, q > spawned PROVE thr'[q] = "off"
    <3>1. thr[q] = "off"
      BY <2>2 DEF QueuesOK
    <3>2. p # q
      BY <1>2, <2>2 DEF Procs, IInv, CallsOK
    <3>3. QED
      BY <1>2, <2>1, <3>1, <3>2
  <2>3. QED
    BY <1>2, <2>1, <2>2
<1>3. CASE \E p \in Procs : _reader(p) \/ Quits(p) \/ Exits(p) \/ BrokenPipe(p)
  BY <1>1, <1>3 DEF _reader, ReaderEnds, ReaderFeeds, Quits, Exits, BrokenPipe
<1>4. ASSUME NEW p \in Procs, thread_main(p) \/ PrintStatus(p) \/ \E got \in BOOLEAN : PrintBlock(p, got)
      PROVE  /\ thr' \in [Procs -> {"off", "between", "read", "done"}]
             /\ \A q \in Procs : q > spawned' => thr'[q] = "off"
  <2>1. thr[p] # "off" /\ spawned' = spawned
    BY <1>4 DEF thread_main, NextLine, ReadEof, PrintStatus, PrintBlock
  <2>2. \E t \in {"between", "read", "done"} : thr' = [thr EXCEPT ![p] = t]
    BY <1>4 DEF thread_main, NextLine, ReadEof, PrintStatus, PrintBlock
  <2>3. p <= spawned
    BY <2>1 DEF QueuesOK, Procs, IInv, CallsOK
  <2>4. QED
    BY <1>2, <2>1, <2>2, <2>3
<1>5. CASE \E c \in Callers, op \in {"start", "stop"}, ms \in Periods : Call(c, op, ms)
  BY <1>1, <1>5 DEF Call
<1>6. CASE StopIdle \/ Stopping \/ kill \/ FileNotFound \/ CloseReturns
  BY <1>1, <1>6 DEF StopIdle, Stopping, kill, FileNotFound, CloseReturns
<1>7. CASE Stopped
  BY <1>2, <1>7 DEF Stopped, IInv, CallsOK, InStop
<1>8. CASE Popen
  <2>1. /\ spawned < MaxStarts /\ spawned' = spawned + 1
        /\ thr' = [thr EXCEPT ![spawned + 1] = "between"]
    BY <1>8 DEF Popen
  <2>2. /\ spawned \in Nat /\ thr \in [Procs -> {"off", "between", "read", "done"}]
        /\ \A p \in Procs : p > spawned => thr[p] = "off"
    BY DEF QueuesOK, IInv, CallsOK
  <2>3. ASSUME NEW p \in Procs, p > spawned' PROVE thr'[p] = "off"
    <3>1. p \in Nat /\ p > spawned /\ p # spawned + 1
      BY <2>1, <2>2, <2>3 DEF Procs
    <3>2. QED
      BY <2>1, <2>2, <3>1
  <2>4. QED
    BY <2>1, <2>2, <2>3
<1>9. CASE UNCHANGED vars
  BY <1>1, <1>9 DEF vars
<1>10. QED
  BY <1>3, <1>4, <1>5, <1>6, <1>7, <1>8, <1>9 DEF Next, Serve, Prints

LEMMA QueuesStep == IInv /\ QueuesOK /\ [Next]_vars => QueuesOK'
<1>. SUFFICES ASSUME IInv, QueuesOK, [Next]_vars PROVE QueuesOK'
  OBVIOUS
<1>. USE DumperAssumption
<1>. DEFINE OfIts(p) == \A i \in 1 .. Len(queue[p]) :
                queue[p][i] # EOF => queue[p][i].proc = p /\ queue[p][i].sample <= samples
<1>1. /\ samples \in 0 .. MaxSamples /\ spawned \in Nat /\ spawned' \in Nat /\ spawned <= spawned'
      /\ queue \in [Procs -> Seq(Lines)] /\ cur \in [Procs -> Coming]
      /\ \A p \in Procs : cur[p].index # 0 => cur[p].sample \in 1 .. samples
      /\ \A p \in Procs : OfIts(p)
      /\ \A p \in Procs : p > spawned => queue[p] = <<>> /\ cur[p] = BeforeFirst
  <2>1. spawned \in Nat /\ spawned' \in {spawned, spawned + 1}
    BY QueueMoves DEF IInv, CallsOK
  <2>2. spawned' \in Nat /\ spawned <= spawned'
    BY <2>1
  <2>3. QED
    BY <2>1, <2>2 DEF QueuesOK
<1>2. /\ thr' \in [Procs -> {"off", "between", "read", "done"}]
      /\ \A p \in Procs : p > spawned' => thr'[p] = "off"
  BY ThreadsStep
(* The queue and the block of one process change.                          *)
<1>3. ASSUME NEW p \in Procs, samples' \in samples .. MaxSamples,
             NEW s \in Seq(Lines), queue' = [queue EXCEPT ![p] = s],
             \A i \in 1 .. Len(s) : s[i] # EOF => s[i].proc = p /\ s[i].sample <= samples',
             cur' \in [Procs -> Coming], \A q \in Procs : q # p => cur'[q] = cur[q],
             cur'[p].index # 0 => cur'[p].sample \in 1 .. samples',
             p <= spawned \/ (s = <<>> /\ cur'[p] = BeforeFirst)
      PROVE  QueuesOK'
  <2>1. queue' \in [Procs -> Seq(Lines)] /\ queue'[p] = s /\ \A q \in Procs : q # p => queue'[q] = queue[q]
    BY <1>1, <1>3
  <2>2. \A q \in Procs : OfIts(q)'
    <3>1. \A q \in Procs : \A i \in 1 .. Len(queue[q]) :
                queue[q][i] \in Lines /\ (queue[q][i] # EOF => queue[q][i].sample \in Int)
      BY <1>1, ElementOfSeq, LineKinds
    <3>2. ASSUME NEW q \in Procs, q # p PROVE OfIts(q)'
      BY <1>1, <1>3, <2>1, <3>1, <3>2
    <3>3. OfIts(p)'
      BY <1>3, <2>1
    <3>4. QED
      BY <3>2, <3>3
  <2>3. ASSUME NEW q \in Procs, cur'[q].index # 0 PROVE cur'[q].sample \in 1 .. samples'
    <3>1. CASE q = p
      BY <1>3, <2>3, <3>1
    <3>2. CASE q # p
      <4>1. cur'[q].sample \in 1 .. samples
        BY <1>1, <1>3, <2>3, <3>2
      <4>2. QED
        BY <1>1, <1>3, <4>1
    <3>3. QED
      BY <3>1, <3>2
  <2>4. \A q \in Procs : q > spawned' => queue'[q] = <<>> /\ cur'[q] = BeforeFirst
    <3>1. ASSUME NEW q \in Procs, q > spawned' PROVE q > spawned
      BY <1>1, <3>1 DEF Procs
    <3>2. ASSUME p <= spawned, NEW q \in Procs, q > spawned PROVE q # p
      BY <1>1, <3>2 DEF Procs
    <3>3. QED
      BY <1>1, <1>3, <2>1, <3>1, <3>2
  <2>5. samples' \in 0 .. MaxSamples
    BY <1>1, <1>3
  <2>6. QED
    BY <1>2, <1>3, <2>1, <2>2, <2>3, <2>4, <2>5 DEF QueuesOK
<1>4. CASE Rests
  <2>1. \A p \in Procs : p > spawned' => p > spawned
    BY <1>1 DEF Procs
  <2>2. QED
    BY <1>1, <1>2, <1>4, <2>1 DEF Rests, QueuesOK
<1>5. BeforeFirst \in Coming /\ BeforeFirst.index = 0
  BY DEF BeforeFirst, Coming
<1>6. \A p \in Procs : queue[p] \in Seq(Lines) /\ queue = [queue EXCEPT ![p] = queue[p]]
  BY <1>1
<1>7. ASSUME NEW p \in Procs, Forgets(p) PROVE QueuesOK'
  <2>1. p <= spawned \/ (queue[p] = <<>> /\ cur'[p] = BeforeFirst)
    BY <1>1, <1>7 DEF Procs, Forgets
  <2>2. /\ cur' \in [Procs -> Coming] /\ cur'[p].index = 0
        /\ queue' = [queue EXCEPT ![p] = queue[p]] /\ samples' \in samples .. MaxSamples
        /\ samples' = samples /\ \A q \in Procs : q # p => cur'[q] = cur[q]
    BY <1>1, <1>5, <1>6, <1>7 DEF Forgets
  <2>3. \A i \in 1 .. Len(queue[p]) : queue[p][i] # EOF => queue[p][i].proc = p /\ queue[p][i].sample <= samples'
    BY <1>1, <2>2
  <2>4. queue[p] \in Seq(Lines)
    BY <1>6
  <2>5. QED
    BY <1>3, <2>1, <2>2, <2>3, <2>4
<1>8. ASSUME NEW p \in Procs, Clears(p) PROVE QueuesOK'
  <2>1. /\ <<>> \in Seq(Lines) /\ Len(<<>>) = 0 /\ queue' = [queue EXCEPT ![p] = <<>>] /\ cur' = cur
        /\ samples' = samples /\ samples' \in samples .. MaxSamples
    BY <1>1, <1>8, EmptySeq DEF Clears
  <2>2. p <= spawned \/ cur'[p] = BeforeFirst
    BY <1>1, <2>1 DEF Procs
  <2>3. \A i \in 1 .. Len(<<>>) : FALSE
    BY <2>1
  <2>4. \A q \in Procs : cur'[q] = cur[q]
    BY <2>1
  <2>5. cur'[p].index # 0 => cur'[p].sample \in 1 .. samples'
    BY <1>1, <2>1
  <2>6. cur' \in [Procs -> Coming]
    BY <1>1, <2>1
  <2>7. QED
    BY <1>3, <2>1, <2>2, <2>3, <2>4, <2>5, <2>6
(* A line is put behind the others.                                        *)
<1>9. ASSUME NEW p \in Procs, NEW x \in Lines, queue' = [queue EXCEPT ![p] = Append(queue[p], x)],
             x # EOF => x.proc = p /\ x.sample <= samples', samples' \in samples .. MaxSamples,
             cur' \in [Procs -> Coming], \A q \in Procs : q # p => cur'[q] = cur[q],
             cur'[p].index # 0 => cur'[p].sample \in 1 .. samples', p <= spawned
      PROVE  QueuesOK'
  <2>. DEFINE s == Append(queue[p], x)
  <2>1. /\ s \in Seq(Lines) /\ Len(s) = Len(queue[p]) + 1 /\ s[Len(queue[p]) + 1] = x
        /\ \A i \in 1 .. Len(queue[p]) : s[i] = queue[p][i]
        /\ Len(queue[p]) \in Nat
    BY <1>6
  <2>2. \A i \in 1 .. Len(queue[p]) : queue[p][i] # EOF => queue[p][i].sample \in Int
    BY <1>6, ElementOfSeq, LineKinds
  <2>3. \A i \in 1 .. Len(s) : s[i] # EOF => s[i].proc = p /\ s[i].sample <= samples'
    <3>1. ASSUME NEW i \in 1 .. Len(queue[p]), s[i] # EOF PROVE s[i].proc = p /\ s[i].sample <= samples'
      <4>1. queue[p][i].proc = p /\ queue[p][i].sample <= samples
        BY <1>1, <2>1, <3>1
      <4>2. QED
        BY <1>1, <1>9, <2>1, <2>2, <3>1, <4>1
    <3>2. QED
      BY <1>9, <2>1, <3>1
  <2>4. QED
    BY <1>3, <1>9, <2>1, <2>3
<1>10. ASSUME NEW p \in Procs, Closes(p) PROVE QueuesOK'
  <2>1. /\ queue' = [queue EXCEPT ![p] = Append(queue[p], EOF)] /\ cur' = cur /\ samples' = samples
        /\ samples' \in samples .. MaxSamples /\ p <= spawned
    BY <1>1, <1>10 DEF Closes, Put
  <2>2. QED
    BY <1>1, <1>9, <2>1, LineKinds
<1>11. ASSUME NEW p \in Procs, NEW got \in BOOLEAN, PrintBlock(p, got) PROVE QueuesOK'
  <2>. DEFINE b == NextBlock(p, got)
  <2>1. /\ b \in Block /\ b \in Lines /\ b.proc = p /\ b.sample <= samples' /\ cur'[p] \in Coming
        /\ \A q \in Procs : q # p => cur'[q] = cur[q]
        /\ samples' \in samples .. MaxSamples /\ cur'[p].sample = b.sample /\ b.sample \in 1 .. MaxSamples
        /\ IF got THEN queue' = [queue EXCEPT ![p] = Append(queue[p], b)] ELSE queue' = queue
    BY <1>1, <1>11, PrintIs, LineKinds DEF Lines
  <2>. HIDE DEF b
  <2>2. cur' \in [Procs -> Coming]
    BY <1>1, <1>11, <2>1 DEF PrintBlock
  <2>3. cur'[p].sample \in 1 .. samples'
    BY <1>1, <2>1
  <2>4. p <= spawned
    <3>1. thr[p] = "read"
      BY <1>11 DEF PrintBlock
    <3>2. QED
      BY <1>1, <3>1 DEF QueuesOK, Procs
  <2>5. CASE got
    BY <1>9, <2>1, <2>2, <2>3, <2>4, <2>5
  <2>6. CASE ~got
    <3>1. \A i \in 1 .. Len(queue[p]) : queue[p][i] # EOF => queue[p][i].sample \in Int
      BY <1>6, ElementOfSeq, LineKinds
    <3>2. \A i \in 1 .. Len(queue[p]) : queue[p][i] # EOF => queue[p][i].proc = p /\ queue[p][i].sample <= samples'
      BY <1>1, <2>1, <3>1
    <3>3. queue' = [queue EXCEPT ![p] = queue[p]]
      BY <1>6, <2>1, <2>6
    <3>4. QED
      BY <1>3, <1>6, <2>1, <2>2, <2>3, <2>4, <3>2, <3>3
  <2>7. QED
    BY <2>5, <2>6
<1>12. ASSUME NEW p \in Procs, ReaderFeeds(p) PROVE QueuesOK'
  <2>. DEFINE s == Tail(queue[p])
  <2>1. /\ queue[p] # <<>> /\ queue' = [queue EXCEPT ![p] = s] /\ cur' = cur /\ samples' = samples
        /\ samples' \in samples .. MaxSamples
    BY <1>1, <1>12 DEF ReaderFeeds, ReaderHas, procVars
  <2>2. /\ s \in Seq(Lines) /\ Len(s) = Len(queue[p]) - 1 /\ Len(queue[p]) \in Nat
        /\ \A i \in 1 .. Len(queue[p]) - 1 : s[i] = queue[p][i + 1]
    BY <2>1, ReaderSees
  <2>3. \A i \in 1 .. Len(s) : s[i] # EOF => s[i].proc = p /\ s[i].sample <= samples'
    <3>1. \A i \in 1 .. Len(s) : i + 1 \in 1 .. Len(queue[p])
      BY <2>2
    <3>2. QED
      BY <1>1, <2>1, <2>2, <3>1
  <2>4. p <= spawned
    BY <1>1, <2>1 DEF Procs
  <2>. HIDE DEF s
  <2>5. QED
    BY <1>1, <1>3, <2>1, <2>2, <2>3, <2>4
<1>13. QED
  BY <1>4, <1>7, <1>8, <1>10, <1>11, <1>12, QueueMoves DEF Moves

-----------------------------------------------------------------------------
(* The order of the blocks.                                                *)

(* What takes the place of a line says no more than that line did.         *)
NoMore(x, y) ==
    \/ y = EOF
    \/ y.index = 0
    \/ /\ y.started => x # EOF /\ x.index # 0 /\ x.started /\ x.sample = y.sample
       /\ y.whole => x # EOF /\ x.index # 0 /\ x.whole /\ x.sample = y.sample /\ x.index = y.index

LEMMA ComingIsNoEof == \A x \in Coming : x # EOF
<1>1. ASSUME NEW x \in Coming PROVE x # EOF
  <2>1. DOMAIN x = {"sample", "index", "started", "whole"}
    BY <1>1 DEF Coming
  <2>2. DOMAIN EOF = {"line"}
    BY DEF EOF
  <2>3. QED
    BY <2>1, <2>2
<1>2. QED
  BY <1>1

LEMMA FollowsNoMore ==
    ASSUME NEW w, NEW x, NEW y, Follows(w, x), NoMore(x, y)
    PROVE  Follows(w, y)
BY DEF Follows, NoMore

LEMMA SaysItself == \A x : NoMore(x, x)
BY DEF NoMore

LEMMA PrintKeeps ==
    ASSUME QueuesOK, NEW p \in Procs, NEW got \in BOOLEAN, PrintBlock(p, got)
    PROVE  IF got THEN NoMore(cur[p], NextBlock(p, got)) /\ Follows(NextBlock(p, got), cur'[p])
                  ELSE NoMore(cur[p], cur'[p])
<1>. DEFINE b == NextBlock(p, got)
<1>1. /\ b \in Block /\ b.index = cur[p].index
      /\ b.sample = (IF cur[p].index = 0 THEN samples + 1 ELSE cur[p].sample)
      /\ b.started = (IF cur[p].index = 0 THEN got ELSE cur[p].started)
      /\ b.whole = (got /\ (cur[p].index = 0 \/ cur[p].whole))
      /\ cur'[p].index = (IF b.index = NBlocks - 1 THEN 0 ELSE b.index + 1)
      /\ cur'[p].sample = b.sample /\ cur'[p].started = b.started /\ cur'[p].whole = b.whole
  BY PrintIs
<1>2. cur[p] # EOF /\ cur[p].index \in 0 .. NBlocks - 1 /\ b.index \in Int
  <2>1. cur[p] \in Coming
    BY DEF QueuesOK
  <2>2. QED
    BY <1>1, <2>1, ComingIsNoEof DEF Coming
<1>. HIDE DEF b
<1>3. CASE got
  <2>1. NoMore(cur[p], b)
    BY <1>1, <1>2, <1>3 DEF NoMore
  <2>2. cur'[p].index # 0 => b.index = cur'[p].index - 1
    BY <1>1, <1>2
  <2>3. Follows(b, cur'[p])
    BY <1>1, <2>2 DEF Follows
  <2>4. QED
    BY <1>3, <2>1, <2>3 DEF b
<1>4. CASE ~got
  <2>1. NoMore(cur[p], cur'[p])
    BY <1>1, <1>2, <1>4 DEF NoMore
  <2>2. QED
    BY <1>4, <2>1
<1>5. QED
  BY <1>3, <1>4

LEMMA ChainStep == IInv /\ QueuesOK /\ ChainInv /\ [Next]_vars => ChainInv'
<1>. SUFFICES ASSUME IInv, QueuesOK, ChainInv, [Next]_vars PROVE ChainInv'
  OBVIOUS
<1>. DEFINE Chain(p) == \A i \in 1 .. Len(queue[p]) : Follows(queue[p][i], Behind(p, i))
<1>1. /\ \A p \in Procs : queue[p] \in Seq(Lines) /\ Len(queue[p]) \in Nat /\ cur[p] \in Coming
      /\ \A p \in Procs : Chain(p)
      /\ queue \in [Procs -> Seq(Lines)] /\ cur \in [Procs -> Coming]
  BY DEF QueuesOK, ChainInv
<1>2. CASE Rests
  BY <1>2 DEF Rests, ChainInv, Behind
<1>3. ASSUME NEW p \in Procs, \A q \in Procs : q # p => queue'[q] = queue[q] /\ cur'[q] = cur[q],
             Chain(p)'
      PROVE  ChainInv'
  <2>1. ASSUME NEW q \in Procs, q # p PROVE Chain(q)'
    BY <1>1, <1>3, <2>1 DEF Behind
  <2>2. QED
    BY <1>3, <2>1 DEF ChainInv
(* The queue stays, and what the process prints next says no more.         *)
<1>4. ASSUME NEW p \in Procs, queue'[p] = queue[p], NoMore(cur[p], cur'[p]) PROVE Chain(p)'
  <2>1. ASSUME NEW i \in 1 .. Len(queue[p]) PROVE Follows(queue[p][i], Behind(p, i)')
    <3>1. Behind(p, i)' = (IF i = Len(queue[p]) THEN cur'[p] ELSE queue[p][i + 1])
      BY <1>4 DEF Behind
    <3>2. CASE i = Len(queue[p])
      <4>1. Follows(queue[p][i], cur[p])
        BY <1>1, <3>2 DEF Behind
      <4>2. QED
        BY <1>4, <3>1, <3>2, <4>1, FollowsNoMore
    <3>3. CASE i # Len(queue[p])
      <4>1. Follows(queue[p][i], queue[p][i + 1])
        BY <1>1, <3>3 DEF Behind
      <4>2. QED
        BY <3>1, <3>3, <4>1
    <3>4. QED
      BY <3>2, <3>3
  <2>2. QED
    BY <1>4, <2>1
(* A line is put behind the others.                                        *)
<1>5. ASSUME NEW p \in Procs, NEW x \in Lines, queue'[p] = Append(queue[p], x),
             NoMore(cur[p], x), Follows(x, cur'[p])
      PROVE  Chain(p)'
  <2>. DEFINE n == Len(queue[p])
  <2>1. /\ n \in Nat /\ Len(queue'[p]) = n + 1 /\ queue'[p][n + 1] = x
        /\ \A i \in 1 .. n : queue'[p][i] = queue[p][i]
    BY <1>1, <1>5
  <2>2. ASSUME NEW i \in 1 .. n PROVE Follows(queue'[p][i], Behind(p, i)')
    <3>1. Behind(p, i)' = queue'[p][i + 1]
      BY <2>1 DEF Behind
    <3>2. CASE i = n
      <4>1. Follows(queue[p][i], cur[p])
        BY <1>1, <3>2 DEF Behind
      <4>2. QED
        BY <1>5, <2>1, <3>1, <3>2, <4>1, FollowsNoMore
    <3>3. CASE i # n
      <4>1. Follows(queue[p][i], queue[p][i + 1]) /\ i + 1 \in 1 .. n
        BY <1>1, <2>1, <3>3 DEF Behind
      <4>2. QED
        BY <2>1, <3>1, <4>1
    <3>4. QED
      BY <3>2, <3>3
  <2>3. ASSUME NEW i \in 1 .. n + 1 PROVE Follows(queue'[p][i], Behind(p, i)')
    <3>1. CASE i = n + 1
      <4>1. Behind(p, i)' = cur'[p]
        BY <2>1, <3>1 DEF Behind
      <4>2. QED
        BY <1>5, <2>1, <3>1, <4>1
    <3>2. CASE i # n + 1
      <4>1. i \in 1 .. n
        BY <2>1, <3>2
      <4>2. QED
        BY <2>2, <4>1
    <3>3. QED
      BY <3>1, <3>2
  <2>4. QED
    BY <2>1, <2>3
<1>6. ASSUME NEW p \in Procs, Forgets(p) PROVE ChainInv'
  <2>1. queue' = queue /\ cur'[p] = BeforeFirst /\ \A q \in Procs : q # p => cur'[q] = cur[q]
    BY <1>1, <1>6 DEF Forgets
  <2>2. NoMore(cur[p], cur'[p])
    BY <2>1 DEF NoMore, BeforeFirst
  <2>3. QED
    BY <1>3, <1>4, <2>1, <2>2
<1>7. ASSUME NEW p \in Procs, Clears(p) PROVE ChainInv'
  <2>1. queue'[p] = <<>> /\ cur' = cur /\ \A q \in Procs : q # p => queue'[q] = queue[q]
    BY <1>1, <1>7 DEF Clears
  <2>2. Chain(p)'
    BY <2>1, EmptySeq
  <2>3. QED
    BY <1>3, <2>1, <2>2
<1>8. ASSUME NEW p \in Procs, Closes(p) PROVE ChainInv'
  <2>1. queue'[p] = Append(queue[p], EOF) /\ cur' = cur /\ \A q \in Procs : q # p => queue'[q] = queue[q]
    BY <1>1, <1>8 DEF Closes, Put
  <2>2. NoMore(cur[p], EOF) /\ Follows(EOF, cur'[p]) /\ EOF \in Lines
    BY LineKinds DEF NoMore, Follows
  <2>3. QED
    BY <1>3, <1>5, <2>1, <2>2
<1>9. ASSUME NEW p \in Procs, NEW got \in BOOLEAN, PrintBlock(p, got) PROVE ChainInv'
  <2>. DEFINE b == NextBlock(p, got)
  <2>1. /\ b \in Lines /\ \A q \in Procs : q # p => cur'[q] = cur[q]
        /\ IF got THEN queue' = [queue EXCEPT ![p] = Append(queue[p], b)] ELSE queue' = queue
    BY <1>9, PrintIs DEF Lines
  <2>2. IF got THEN NoMore(cur[p], b) /\ Follows(b, cur'[p]) ELSE NoMore(cur[p], cur'[p])
    BY <1>9, PrintKeeps
  <2>. HIDE DEF b
  <2>3. CASE got
    <3>1. queue'[p] = Append(queue[p], b) /\ \A q \in Procs : q # p => queue'[q] = queue[q]
      BY <1>1, <2>1, <2>3
    <3>2. Chain(p)'
      BY <1>5, <2>1, <2>2, <2>3, <3>1
    <3>3. QED
      BY <1>3, <2>1, <3>1, <3>2
  <2>4. CASE ~got
    <3>1. Chain(p)'
      BY <1>4, <2>1, <2>2, <2>4
    <3>2. QED
      BY <1>3, <2>1, <2>4, <3>1
  <2>5. QED
    BY <2>3, <2>4
<1>10. ASSUME NEW p \in Procs, ReaderFeeds(p) PROVE ChainInv'
  <2>1. /\ queue[p] # <<>> /\ queue'[p] = Tail(queue[p]) /\ cur' = cur
        /\ \A q \in Procs : q # p => queue'[q] = queue[q]
    BY <1>1, <1>10 DEF ReaderFeeds, ReaderHas, procVars
  <2>2. /\ Len(queue[p]) \in Nat \ {0} /\ Len(queue'[p]) = Len(queue[p]) - 1
        /\ \A i \in 1 .. Len(queue[p]) - 1 : queue'[p][i] = queue[p][i + 1]
    BY <2>1, ReaderSees
  <2>3. ASSUME NEW i \in 1 .. Len(queue'[p]) PROVE Follows(queue'[p][i], Behind(p, i)')
    <3>1a. i + 1 \in 1 .. Len(queue[p]) /\ i \in 1 .. Len(queue[p]) - 1
      BY <2>2
    <3>1. queue'[p][i] = queue[p][i + 1] /\ Follows(queue[p][i + 1], Behind(p, i + 1))
      BY <1>1, <2>2, <3>1a
    <3>2. Behind(p, i)' = Behind(p, i + 1)
      <4>1. CASE i = Len(queue'[p])
        BY <2>1, <2>2, <4>1 DEF Behind
      <4>2. CASE i # Len(queue'[p])
        <5>1. i + 1 \in 1 .. Len(queue[p]) - 1 /\ i + 1 # Len(queue[p])
          BY <2>2, <4>2
        <5>2. QED
          BY <2>2, <4>2, <5>1 DEF Behind
      <4>3. QED
        BY <4>1, <4>2
    <3>3. QED
      BY <3>1, <3>2
  <2>4. QED
    BY <1>3, <2>1, <2>3
<1>11. QED
  BY <1>2, <1>6, <1>7, <1>8, <1>9, <1>10, QueueMoves DEF Moves

-----------------------------------------------------------------------------
(* What the readers put together.                                          *)

LEMMA UpcomingKeeps ==
    ASSUME IInv, QueuesOK, Rests \/ \E q \in Procs : Moves(q), NEW p \in Procs, rdr'[p] = "get"
    PROVE  NoMore(Upcoming(p), Upcoming(p)')
<1>1. /\ queue[p] \in Seq(Lines) /\ queue \in [Procs -> Seq(Lines)] /\ cur \in [Procs -> Coming]
  BY DEF QueuesOK
<1>2. CASE UNCHANGED <<queue[p], cur[p]>>
  BY <1>2, SaysItself DEF Upcoming
<1>3. ASSUME queue'[p] = queue[p], NoMore(cur[p], cur'[p]) PROVE NoMore(Upcoming(p), Upcoming(p)')
  BY <1>3, SaysItself DEF Upcoming
<1>4. ASSUME NEW x \in Lines, NoMore(cur[p], x), queue'[p] = Append(queue[p], x)
      PROVE  NoMore(Upcoming(p), Upcoming(p)')
  <2>1. CASE queue[p] = <<>>
    <3>1. queue'[p] # <<>> /\ Head(queue'[p]) = x
      BY <1>1, <1>4, <2>1
    <3>2. QED
      BY <1>4, <2>1, <3>1 DEF Upcoming
  <2>2. CASE queue[p] # <<>>
    <3>1. queue'[p] # <<>> /\ Head(queue'[p]) = Head(queue[p])
      BY <1>1, <1>4, <2>2, HeadTailAppend
    <3>2. QED
      BY <2>2, <3>1, SaysItself DEF Upcoming
  <2>3. QED
    BY <2>1, <2>2
<1>5. CASE Rests
  BY <1>2, <1>5 DEF Rests
<1>6. ASSUME NEW q \in Procs, Forgets(q) PROVE NoMore(Upcoming(p), Upcoming(p)')
  <2>1. queue' = queue /\ cur'[p] \in {cur[p], BeforeFirst}
    BY <1>1, <1>6 DEF Forgets
  <2>2. NoMore(cur[p], cur'[p])
    BY <2>1, SaysItself DEF NoMore, BeforeFirst
  <2>3. QED
    BY <1>3, <2>1, <2>2
<1>7. ASSUME NEW q \in Procs, Clears(q) PROVE NoMore(Upcoming(p), Upcoming(p)')
  BY <1>1, <1>2, <1>7 DEF Clears
<1>8. ASSUME NEW q \in Procs, Closes(q) PROVE NoMore(Upcoming(p), Upcoming(p)')
  <2>1. CASE q = p
    <3>1. queue'[p] = Append(queue[p], EOF)
      BY <1>1, <1>8, <2>1 DEF Closes, Put
    <3>2. QED
      BY <1>4, <3>1, LineKinds DEF NoMore
  <2>2. CASE q # p
    BY <1>1, <1>2, <1>8, <2>2 DEF Closes, Put
  <2>3. QED
    BY <2>1, <2>2
<1>9. ASSUME NEW q \in Procs, NEW got \in BOOLEAN, PrintBlock(q, got)
      PROVE  NoMore(Upcoming(p), Upcoming(p)')
  <2>. DEFINE b == NextBlock(q, got)
  <2>1. /\ b \in Lines /\ \A r \in Procs : r # q => cur'[r] = cur[r]
        /\ IF got THEN queue' = [queue EXCEPT ![q] = Append(queue[q], b)] ELSE queue' = queue
    BY <1>9, PrintIs DEF Lines
  <2>2. IF got THEN NoMore(cur[q], b) ELSE NoMore(cur[q], cur'[q])
    BY <1>9, PrintKeeps
  <2>. HIDE DEF b
  <2>3. CASE q # p
    BY <1>1, <1>2, <2>1, <2>3
  <2>4. CASE q = p /\ got
    BY <1>1, <1>4, <2>1, <2>2, <2>4
  <2>5. CASE q = p /\ ~got
    BY <1>3, <2>1, <2>2, <2>5
  <2>6. QED
    BY <2>3, <2>4, <2>5
<1>10. QED
  BY <1>5, <1>6, <1>7, <1>8, <1>9 DEF Moves

(* A block that is fed prepares for the one that follows it.               *)
LEMMA FedPrepares ==
    ASSUME AccOK, NEW p \in Procs, NEW b \in Block, NEW y, Prepared(p, b), Follows(b, y),
           y # EOF => y.index \in 0 .. NBlocks - 1,
           acc' = feed(acc, b), UNCHANGED Replaced
    PROVE  Prepared(p, y)'
<1>. USE DumperAssumption
<1>. SUFFICES ASSUME y # EOF, y.index # 0 PROVE Prepared(p, y)'
  BY DEF Prepared
<1>1. /\ b.index \in 0 .. NBlocks - 1 /\ b.count = NBlocks /\ b # EOF /\ y.index \in 1 .. NBlocks - 1
      /\ y.started => b.started /\ b.sample = y.sample
      /\ y.whole => b.whole /\ b.sample = y.sample /\ b.index = y.index - 1
  BY LineKinds DEF Follows
<1>2. /\ DOMAIN acc.blocks \subseteq 0 .. acc.count - 1 /\ acc.count \in {0, NBlocks}
  BY DEF AccOK
<1>3. b.index = 0 => Joined(acc, b) = [i \in {0} |-> b]
  <2>1. ASSUME b.index = 0 PROVE (IF Starts(acc, b) THEN <<>> ELSE acc.blocks) = <<>> \/ DOMAIN acc.blocks = {}
    BY <1>2, <2>1 DEF Starts
  <2>2. DOMAIN <<>> = {}
    OBVIOUS
  <2>3. ASSUME b.index = 0, Starts(acc, b) PROVE Joined(acc, b) = [i \in {0} |-> b]
    BY <2>2, <2>3 DEF Joined
  <2>4. ASSUME b.index = 0, ~Starts(acc, b) PROVE Joined(acc, b) = [i \in {0} |-> b]
    <3>1. DOMAIN acc.blocks = {}
      BY <1>2, <2>4 DEF Starts
    <3>2. QED
      BY <2>4, <3>1 DEF Joined
  <2>5. QED
    BY <2>3, <2>4
<1>4. b.index # 0 => Joined(acc, b) = [i \in DOMAIN acc.blocks \cup {b.index} |-> IF i = b.index THEN b ELSE acc.blocks[i]]
  <2>1. ASSUME b.index # 0 PROVE ~Starts(acc, b)
    BY <1>1, <1>2, <2>1 DEF Starts
  <2>2. QED
    BY <2>1 DEF Joined
<1>5. CASE Completes(acc, b)
  <2>1. b.index = NBlocks - 1
    BY <1>1, <1>5 DEF Completes
  <2>2. ~y.whole
    BY <1>1, <2>1
  <2>3. acc'.blocks = <<>> /\ DOMAIN <<>> = {}
    BY <1>5 DEF feed, FrameAccumulator
  <2>4. QED
    BY <2>2, <2>3 DEF Prepared
<1>6. CASE ~Completes(acc, b)
  <2>1. acc'.blocks = Joined(acc, b) /\ acc'.count = NBlocks
    BY <1>1, <1>6 DEF feed
  <2>2. ASSUME y.started, NEW i \in DOMAIN acc'.blocks, acc'.blocks[i].sample # y.sample
        PROVE  acc'.blocks[i].proc # p /\ Replaced
    <3>1. b.started /\ b.sample = y.sample
      BY <1>1, <2>2
    <3>2. b.index # 0 /\ i \in DOMAIN acc.blocks /\ acc'.blocks[i] = acc.blocks[i]
      BY <1>3, <1>4, <2>1, <2>2, <3>1
    <3>3. QED
      BY <1>1, <2>2, <3>1, <3>2 DEF Prepared
  <2>3. ASSUME y.whole, ~Replaced
        PROVE  /\ DOMAIN acc'.blocks = 0 .. y.index - 1
               /\ \A i \in DOMAIN acc'.blocks : acc'.blocks[i].sample = y.sample
    <3>1. b.whole /\ b.sample = y.sample /\ b.index = y.index - 1
      BY <1>1, <2>3
    <3>2. CASE b.index = 0
      <4>1. 0 .. y.index - 1 = {0}
        BY <1>1, <3>1, <3>2
      <4>2. acc'.blocks = [i \in {0} |-> b]
        BY <1>3, <2>1, <3>2
      <4>3. DOMAIN acc'.blocks = {0} /\ acc'.blocks[0] = b
        BY <4>2
      <4>4. QED
        BY <3>1, <4>1, <4>3
    <3>3. CASE b.index # 0
      <4>1. /\ DOMAIN acc.blocks = 0 .. b.index - 1
            /\ \A i \in DOMAIN acc.blocks : acc.blocks[i].sample = b.sample
        BY <1>1, <2>3, <3>1, <3>3 DEF Prepared
      <4>2. 0 .. y.index - 1 = (0 .. b.index - 1) \cup {b.index}
        BY <1>1, <3>1
      <4>3. acc'.blocks = [i \in DOMAIN acc.blocks \cup {b.index} |-> IF i = b.index THEN b ELSE acc.blocks[i]]
        BY <1>4, <2>1, <3>3
      <4>4. /\ DOMAIN acc'.blocks = DOMAIN acc.blocks \cup {b.index}
            /\ \A i \in DOMAIN acc'.blocks : acc'.blocks[i] = b \/ (i \in DOMAIN acc.blocks /\ acc'.blocks[i] = acc.blocks[i])
        BY <4>3
      <4>5. QED
        BY <3>1, <4>1, <4>2, <4>4
    <3>4. QED
      BY <3>2, <3>3
  <2>4. QED
    BY <2>1, <2>2, <2>3 DEF Prepared
<1>7. QED
  BY <1>5, <1>6

LEMMA AccInvStep ==
    IInv /\ PipesOK /\ QueuesOK /\ ChainInv /\ AccOK /\ AccInv /\ [Next]_vars => AccInv'
<1>. SUFFICES ASSUME IInv, PipesOK, QueuesOK, ChainInv, AccOK, AccInv, [Next]_vars PROVE AccInv'
  OBVIOUS
<1>. USE DumperAssumption
<1>1. CASE acc' = acc /\ (Rests \/ \E q \in Procs : Moves(q))
  <2>1. ASSUME NEW p \in Procs, rdr'[p] = "get" PROVE Prepared(p, Upcoming(p))
    <3>1. CASE rdr[p] = "get"
      BY <3>1 DEF AccInv
    <3>2. CASE p = spawned + 1
      <4>1. Upcoming(p) = BeforeFirst
        BY <3>2 DEF QueuesOK, Upcoming, IInv, CallsOK
      <4>2. QED
        BY <4>1 DEF Prepared, BeforeFirst
    <3>3. QED
      BY <2>1, <3>1, <3>2, QueueMoves
  <2>2. ASSUME NEW p \in Procs, NEW x, NEW y, Prepared(p, x), NoMore(x, y) PROVE Prepared(p, y)'
    <3>1. Replaced => Replaced'
      BY PipesStep
    <3>2. SUFFICES ASSUME y # EOF, y.index # 0 PROVE Prepared(p, y)'
      BY DEF Prepared
    <3>3. ASSUME y.started, NEW i \in DOMAIN acc'.blocks, acc'.blocks[i].sample # y.sample
          PROVE  acc'.blocks[i].proc # p /\ Replaced'
      BY <1>1, <2>2, <3>1, <3>2, <3>3 DEF Prepared, NoMore
    <3>4. ASSUME y.whole, ~Replaced'
          PROVE  /\ acc'.count = NBlocks /\ DOMAIN acc'.blocks = 0 .. y.index - 1
                 /\ \A i \in DOMAIN acc'.blocks : acc'.blocks[i].sample = y.sample
      BY <1>1, <2>2, <3>1, <3>2, <3>4 DEF Prepared, NoMore
    <3>5. QED
      BY <3>3, <3>4 DEF Prepared
  <2>3. ASSUME NEW p \in Procs, rdr'[p] = "get" PROVE Prepared(p, Upcoming(p))'
    <3>1. NoMore(Upcoming(p), Upcoming(p)')
      BY <1>1, <2>3, UpcomingKeeps
    <3>2. QED
      BY <2>1, <2>2, <2>3, <3>1
  <2>4. QED
    BY <2>3 DEF AccInv
<1>2. ASSUME NEW q \in Procs, ReaderFeeds(q) PROVE AccInv'
  <2>1. /\ queue[q] # <<>> /\ Head(queue[q]) # EOF /\ rdr[q] = "get"
        /\ UNCHANGED <<rdr, open, proc, spawned, cur>>
        /\ acc' = feed(acc, Head(queue[q])) /\ queue' = [queue EXCEPT ![q] = Tail(queue[q])]
    BY <1>2 DEF ReaderFeeds, ReaderHas, procVars, QueuesOK
  <2>2. Replaced' = Replaced
    BY <2>1 DEF Replaced
  <2>3. PICK b \in Block : b = Head(queue[q])
    BY <2>1, ReaderSees, LineKinds
  <2>4. b.proc = q
    BY <2>1, <2>3, ReaderSees DEF QueuesOK
  (* The other reader feeds only besides that of a process that was        *)
  (* replaced.                                                             *)
  <2>5. ASSUME NEW p \in Procs, p # q, rdr[p] = "get" PROVE Prepared(p, Upcoming(p))'
    <3>1. Upcoming(p)' = Upcoming(p) /\ Prepared(p, Upcoming(p))
      BY <2>1, <2>5 DEF Upcoming, AccInv, QueuesOK
    <3>2. Replaced
      BY <2>1, <2>5, TwoReaders
    <3>3. \A i \in DOMAIN acc'.blocks : acc'.blocks[i] = b \/ (i \in DOMAIN acc.blocks /\ acc'.blocks[i] = acc.blocks[i])
      <4>1. DOMAIN <<>> = {}
        OBVIOUS
      <4>2. CASE Completes(acc, b)
        BY <2>1, <2>3, <4>1, <4>2 DEF feed, FrameAccumulator
      <4>3. CASE ~Completes(acc, b)
        <5>1. acc'.blocks = Joined(acc, b)
          BY <2>1, <2>3, <4>3 DEF feed
        <5>2. QED
          BY <4>1, <5>1 DEF Joined
      <4>4. QED
        BY <4>2, <4>3
    <3>. DEFINE x == Upcoming(p)
    <3>4. ASSUME x # EOF, x.index # 0, x.started, NEW i \in DOMAIN acc'.blocks, acc'.blocks[i].sample # x.sample
          PROVE  acc'.blocks[i].proc # p
      <4>1. CASE acc'.blocks[i] = b
        BY <2>4, <2>5, <4>1
      <4>2. CASE i \in DOMAIN acc.blocks /\ acc'.blocks[i] = acc.blocks[i]
        BY <3>1, <3>4, <4>2 DEF Prepared
      <4>3. QED
        BY <3>3, <3>4, <4>1, <4>2
    <3>5. Upcoming(p)' = x
      BY <3>1
    <3>. HIDE DEF x
    <3>6. QED
      BY <2>2, <3>2, <3>4, <3>5 DEF Prepared
  <2>6. Prepared(q, Upcoming(q))'
    <3>1. Upcoming(q) = b /\ Prepared(q, b)
      BY <2>1, <2>3 DEF Upcoming, AccInv
    <3>2. /\ Len(queue[q]) \in Nat \ {0} /\ queue[q][1] = b
          /\ Tail(queue[q]) \in Seq(Lines) /\ Len(Tail(queue[q])) = Len(queue[q]) - 1
          /\ \A i \in 1 .. Len(queue[q]) - 1 : Tail(queue[q])[i] = queue[q][i + 1]
          /\ Tail(queue[q]) = <<>> <=> Len(queue[q]) = 1
          /\ queue'[q] = Tail(queue[q])
      BY <2>1, <2>3, ReaderSees DEF QueuesOK
    <3>3. Upcoming(q)' = Behind(q, 1)
      <4>1. CASE Len(queue[q]) = 1
        BY <2>1, <3>2, <4>1 DEF Upcoming, Behind
      <4>2. CASE Len(queue[q]) # 1
        <5>1. Head(queue'[q]) = queue[q][2] /\ queue'[q] # <<>>
          BY <3>2, <4>2
        <5>2. QED
          BY <4>2, <5>1 DEF Upcoming, Behind
      <4>3. QED
        BY <4>1, <4>2
    <3>4. Follows(b, Upcoming(q)')
      BY <3>2, <3>3 DEF ChainInv
    <3>5. Upcoming(q)' # EOF => Upcoming(q)'.index \in 0 .. NBlocks - 1
      <4>1. Upcoming(q)' \in Lines \/ Upcoming(q)' \in Coming
        <5>1. cur'[q] \in Coming
          BY <2>1 DEF QueuesOK
        <5>2. queue'[q] # <<>> => Head(queue'[q]) \in Lines
          BY <3>2, HeadTailProperties
        <5>3. QED
          BY <5>1, <5>2 DEF Upcoming
      <4>2. QED
        BY <4>1, LineKinds DEF Coming
    <3>6. ASSUME NEW y, y = Upcoming(q)' PROVE Prepared(q, y)'
      BY <2>1, <2>2, <2>3, <3>1, <3>4, <3>5, <3>6, FedPrepares
    <3>7. QED
      BY <3>6 DEF Prepared
  <2>7. QED
    BY <2>1, <2>5, <2>6 DEF AccInv
<1>3. QED
  BY <1>1, <1>2, QueueMoves

-----------------------------------------------------------------------------
FrameInv == IInv /\ PipesOK /\ QueuesOK /\ ChainInv /\ AccOK /\ AccInv

LEMMA FrameInvariant == Spec => []FrameInv
<1>1. Init => FrameInv
  <2>. SUFFICES ASSUME Init PROVE FrameInv
    OBVIOUS
  <2>. USE DumperAssumption
  <2>1. /\ acc = [blocks |-> <<>>, count |-> 0] /\ DOMAIN <<>> = {} /\ samples = 0 /\ spawned = 0
        /\ \A p \in Procs : queue[p] = <<>> /\ cur[p] = BeforeFirst /\ rdr[p] = "off"
    BY DEF Init, FrameAccumulator
  <2>2. PipesOK
    BY DEF Init, PipesOK
  <2>3. QueuesOK
    <3>1. <<>> \in Seq(Lines) /\ Len(<<>>) = 0
      BY EmptySeq
    <3>2. BeforeFirst \in Coming /\ BeforeFirst.index = 0
      BY DEF BeforeFirst, Coming
    <3>3. samples \in 0 .. MaxSamples
      BY <2>1
    <3>4. QED
      BY <2>1, <3>1, <3>2, <3>3 DEF Init, QueuesOK
  <2>4. ChainInv
    BY <2>1, EmptySeq DEF ChainInv
  <2>5. AccOK /\ AccInv
    BY <2>1 DEF AccOK, AccInv
  <2>6. QED
    BY <2>2, <2>3, <2>4, <2>5, DumperInitOK DEF FrameInv
<1>2. FrameInv /\ [Next]_vars => FrameInv'
  BY DumperStep, PipesStep, QueuesStep, ChainStep, AccStep, AccInvStep DEF FrameInv
<1>3. QED
  BY <1>1, <1>2, PTL DEF Spec

(* The block that a reader is about to feed, and what is there of its      *)
(* sample.                                                                 *)
LEMMA NextFed ==
    ASSUME FrameInv, NEW p \in Procs, ReaderHas(p), NEW b, b = Head(queue[p]), b # EOF
    PROVE  /\ b \in Block /\ b.proc = p /\ Prepared(p, b)
           /\ b.index = 0 => DOMAIN Joined(acc, b) = {0}
           /\ b.index # 0 => DOMAIN Joined(acc, b) = DOMAIN acc.blocks \cup {b.index}
           /\ \A i \in DOMAIN Joined(acc, b) :
                \/ Joined(acc, b)[i] = b
                \/ b.index # 0 /\ i \in DOMAIN acc.blocks /\ Joined(acc, b)[i] = acc.blocks[i]
<1>. USE DumperAssumption DEF FrameInv
<1>1. queue[p] # <<>> /\ rdr[p] = "get"
  BY DEF ReaderHas
<1>2. b \in Block
  BY <1>1, ReaderSees, LineKinds
<1>3. b.proc = p
  BY <1>1, <1>2, ReaderSees DEF QueuesOK
<1>4. Prepared(p, b)
  BY <1>1, <1>2 DEF AccInv, Upcoming
<1>5. /\ DOMAIN acc.blocks \subseteq 0 .. acc.count - 1 /\ acc.count \in {0, NBlocks}
      /\ b.count = NBlocks /\ b.index \in 0 .. NBlocks - 1 /\ DOMAIN <<>> = {}
  BY <1>2, LineKinds DEF AccOK
<1>6. ASSUME b.index = 0 PROVE Joined(acc, b) = [i \in {0} |-> b]
  <2>1. CASE Starts(acc, b)
    BY <1>5, <1>6, <2>1 DEF Joined
  <2>2. CASE ~Starts(acc, b)
    <3>1. DOMAIN acc.blocks = {}
      BY <1>5, <1>6, <2>2 DEF Starts
    <3>2. QED
      BY <1>6, <2>2, <3>1 DEF Joined
  <2>3. QED
    BY <2>1, <2>2
<1>7. b.index # 0 => Joined(acc, b) =
        [i \in DOMAIN acc.blocks \cup {b.index} |-> IF i = b.index THEN b ELSE acc.blocks[i]]
  <2>1. b.index # 0 => ~Starts(acc, b)
    BY <1>5 DEF Starts
  <2>2. QED
    BY <2>1 DEF Joined
<1>8. \A i \in DOMAIN Joined(acc, b) :
        \/ Joined(acc, b)[i] = b
        \/ b.index # 0 /\ i \in DOMAIN acc.blocks /\ Joined(acc, b)[i] = acc.blocks[i]
  BY <1>6, <1>7
<1>9. QED
  BY <1>2, <1>3, <1>4, <1>6, <1>7, <1>8

LEMMA TailIsShorter ==
    ASSUME NEW S, NEW s \in Seq(S), s # <<>>
    PROVE  Tail(s) # s /\ \A x \in S : Tail(s) # Append(s, x)
<1>1. Len(s) \in Nat /\ Len(Tail(s)) = Len(s) - 1
  BY HeadTailProperties, LenProperties
<1>2. \A x \in S : Len(Append(s, x)) = Len(s) + 1
  BY AppendProperties
<1>3. ASSUME NEW t, Len(t) = Len(s) \/ Len(t) = Len(s) + 1 PROVE Tail(s) # t
  BY <1>1, <1>3
<1>4. QED
  BY <1>2, <1>3

(* Only to feed its block takes a line from a queue whose reader goes on.  *)
LEMMA OnlyFeeds ==
    ASSUME IInv, QueuesOK, [Next]_vars, NEW p \in Procs, queue[p] # <<>>,
           queue'[p] = Tail(queue[p]), rdr'[p] = "get"
    PROVE  ReaderFeeds(p)
<1>1. queue \in [Procs -> Seq(Lines)]
  BY DEF QueuesOK
<1>2. queue'[p] # queue[p]
  BY <1>1, TailIsShorter
<1>3. \A x \in Lines : queue'[p] # Append(queue[p], x)
  BY <1>1, TailIsShorter
<1>4. CASE \E q \in Procs : ReaderFeeds(q)
  <2>1. PICK q \in Procs : ReaderFeeds(q)
    BY <1>4
  <2>2. queue' = [queue EXCEPT ![q] = Tail(queue[q])]
    BY <1>1, <2>1 DEF ReaderFeeds
  <2>3. q = p
    BY <1>1, <1>2, <2>2
  <2>4. QED
    BY <2>1, <2>3
<1>5. CASE Rests
  BY <1>2, <1>5 DEF Rests
<1>6. ASSUME NEW q \in Procs, Moves(q) PROVE FALSE
  <2>1. CASE Forgets(q)
    BY <1>2, <2>1 DEF Forgets
  <2>2. CASE Clears(q)
    BY <1>1, <1>2, <2>2 DEF Clears
  <2>3. ASSUME NEW x \in Lines, queue' = [queue EXCEPT ![q] = Append(queue[q], x)] PROVE FALSE
    <3>1. queue'[p] = queue[p] \/ queue'[p] = Append(queue[p], x)
      BY <1>1, <2>3
    <3>2. QED
      BY <1>2, <1>3, <3>1
  <2>4. CASE Closes(q)
    BY <1>1, <2>3, <2>4, LineKinds DEF Closes, Put
  <2>5. ASSUME NEW got \in BOOLEAN, PrintBlock(q, got) PROVE FALSE
    <3>1. /\ NextBlock(q, got) \in Lines
          /\ IF got THEN queue' = [queue EXCEPT ![q] = Append(queue[q], NextBlock(q, got))]
                    ELSE queue' = queue
      BY <2>5, PrintIs DEF Lines
    <3>2. QED
      BY <1>2, <2>3, <3>1
  <2>6. QED
    BY <1>6, <2>1, <2>2, <2>4, <2>5 DEF Moves
<1>7. QED
  BY <1>4, <1>5, <1>6, QueueMoves

(* The blocks of a frame are of one sample, for any number of blocks,      *)
(* processes and lost blocks, but for the two cases that the invariant     *)
(* names: a lost block 0, and the reader of a process that was replaced.   *)
THEOREM FramesShowOneSample == Spec => []FrameIsOneSample
<1>1. FrameInv => FrameIsOneSample
  <2>1. ASSUME FrameInv, NEW p \in Procs, ReaderHas(p), NEW b, b = Head(queue[p]), b # EOF,
               NEW j \in DOMAIN Joined(acc, b), Joined(acc, b)[j].sample # b.sample, b.started
        PROVE  Joined(acc, b)[j].proc # p /\ Replaced
    <3>1. /\ b \in Block /\ b.proc = p /\ Prepared(p, b)
          /\ b.index = 0 => DOMAIN Joined(acc, b) = {0}
          /\ b.index # 0 => DOMAIN Joined(acc, b) = DOMAIN acc.blocks \cup {b.index}
          /\ \A i \in DOMAIN Joined(acc, b) :
                \/ Joined(acc, b)[i] = b
                \/ b.index # 0 /\ i \in DOMAIN acc.blocks /\ Joined(acc, b)[i] = acc.blocks[i]
      BY <2>1, NextFed
    <3>2. b.index # 0 /\ j \in DOMAIN acc.blocks /\ Joined(acc, b)[j] = acc.blocks[j]
      BY <2>1, <3>1
    <3>3. QED
      BY <2>1, <3>1, <3>2 DEF Prepared
  <2>2. QED
    BY <2>1 DEF FrameIsOneSample, FrameOf
<1>2. QED
  BY <1>1, FrameInvariant, PTL

(* A sample of which every block arrives makes a frame, and the frame      *)
(* shows that sample: nothing that was lost before it, and nothing that is *)
(* left over, keeps it from being shown.                                   *)
THEOREM WholeSamplesAreShown == Spec => WholeSampleIsShown
<1>1. ASSUME FrameInv, [Next]_vars, NEW p \in Procs, ReaderHas(p), queue'[p] = Tail(queue[p]),
             rdr'[p] = "get", NEW b, b = Head(queue[p]), b.whole, b.index = NBlocks - 1, ~Replaced
      PROVE  published' = published + 1 /\ \A i \in DOMAIN Joined(acc, b) : Joined(acc, b)[i].sample = b.sample
  <2>. USE DumperAssumption
  <2>1. queue[p] # <<>> /\ IInv /\ QueuesOK
    BY <1>1 DEF ReaderHas, FrameInv
  <2>2. ReaderFeeds(p)
    BY <1>1, <2>1, OnlyFeeds
  <2>3. /\ b \in Block /\ Prepared(p, b)
        /\ b.index = 0 => DOMAIN Joined(acc, b) = {0}
        /\ b.index # 0 => DOMAIN Joined(acc, b) = DOMAIN acc.blocks \cup {b.index}
        /\ \A i \in DOMAIN Joined(acc, b) :
                \/ Joined(acc, b)[i] = b
                \/ b.index # 0 /\ i \in DOMAIN acc.blocks /\ Joined(acc, b)[i] = acc.blocks[i]
    <3>1. b # EOF
      BY <1>1, <2>2 DEF ReaderFeeds
    <3>2. QED
      BY <1>1, <3>1, NextFed
  <2>4. /\ DOMAIN Joined(acc, b) = 0 .. NBlocks - 1
        /\ \A i \in DOMAIN Joined(acc, b) : Joined(acc, b)[i].sample = b.sample
    <3>1. CASE b.index = 0
      <4>1. 0 .. NBlocks - 1 = {0}
        BY <3>1, <1>1
      <4>2. QED
        BY <2>3, <3>1, <4>1
    <3>2. CASE b.index # 0
      <4>1. /\ DOMAIN acc.blocks = 0 .. b.index - 1
            /\ \A i \in DOMAIN acc.blocks : acc.blocks[i].sample = b.sample
        BY <1>1, <2>3, <3>2, LineKinds DEF Prepared
      <4>2. 0 .. NBlocks - 1 = (0 .. b.index - 1) \cup {b.index}
        BY <1>1
      <4>3. QED
        BY <2>3, <3>2, <4>1, <4>2
    <3>3. QED
      BY <3>1, <3>2
  <2>5. Completes(acc, b)
    BY <1>1, <2>3, <2>4, LineKinds DEF Completes
  <2>6. published' = published + 1
    BY <1>1, <2>2, <2>5 DEF ReaderFeeds
  <2>7. QED
    BY <2>4, <2>6
<1>2. FrameInv /\ [Next]_vars =>
        [\A p \in Procs :
            LET b == Head(queue[p])
                frame == FrameOf(acc, b)
            IN  /\ ReaderHas(p) /\ queue'[p] = Tail(queue[p]) /\ rdr'[p] = "get"
                /\ b.whole /\ b.index = NBlocks - 1 /\ ~Replaced
                => /\ published' = published + 1
                   /\ \A i \in DOMAIN frame : frame[i].sample = b.sample]_vars
  BY <1>1 DEF FrameOf
<1>3. QED
  BY <1>2, FrameInvariant, PTL DEF Spec, WholeSampleIsShown

-----------------------------------------------------------------------------
(* How many frames there can be.                                           *)

LEMMA PastIsFinite ==
    ASSUME QueuesOK PROVE IsFiniteSet(Past) /\ Cardinality(Past) \in Nat
<1>1. samples \in Int /\ IsFiniteSet(1 .. samples)
  BY FS_Interval, DumperAssumption DEF QueuesOK
<1>2. Past \subseteq 1 .. samples
  BY DEF Past
<1>3. QED
  BY <1>1, <1>2, FS_Subset, FS_CardinalityType

(* A step after which nothing is due that was not, or that was not there.  *)
LEMMA DueShrinks ==
    ASSUME QueuesOK, QueuesOK', DueInv, samples' \in {samples, samples + 1},
           \A q \in Procs : \A s \in 1 .. samples : Due(q, s)' => Due(q, s),
           \A q \in Procs : DueOnce(q)',
           NEW p \in Procs,
           \A q \in Procs : \A s \in 1 .. samples' : s > samples /\ Due(q, s)' => q = p,
           \/ published' = published
           \/ published' = published + 1 /\ \E s \in 1 .. samples : Due(p, s) /\ \A q \in Procs : ~Due(q, s)'
    PROVE  DueInv'
<1>1. samples \in Nat /\ samples' \in Nat
  BY DumperAssumption DEF QueuesOK
<1>2. ASSUME NEW q \in Procs, NEW r \in Procs, NEW s \in 1 .. samples', Due(q, s)', Due(r, s)' PROVE q = r
  <2>1. CASE s \in 1 .. samples
    BY <1>2, <2>1 DEF DueInv
  <2>2. CASE s > samples
    BY <1>2, <2>2
  <2>3. QED
    BY <1>1, <2>1, <2>2
<1>3. IsFiniteSet(Past) /\ Cardinality(Past) \in Nat /\ IsFiniteSet(Past') /\ Cardinality(Past') \in Nat
  <2>1. IsFiniteSet(Past) /\ Cardinality(Past) \in Nat
    BY PastIsFinite
  <2>2. IsFiniteSet(Past') /\ Cardinality(Past') \in Nat
    <3>1. samples' \in Int /\ IsFiniteSet(1 .. samples')
      BY <1>1, FS_Interval
    <3>2. Past' \subseteq 1 .. samples'
      BY DEF Past
    <3>3. QED
      BY <3>1, <3>2, FS_Subset, FS_CardinalityType
  <2>3. QED
    BY <2>1, <2>2
<1>4. Past \subseteq Past'
  BY <1>1 DEF Past
<1>5. published' \in Nat /\ published' <= Cardinality(Past')
  <2>1. CASE published' = published
    <3>1. Cardinality(Past) <= Cardinality(Past')
      BY <1>3, <1>4, FS_Subset
    <3>2. QED
      BY <1>3, <2>1, <3>1 DEF DueInv
  <2>2. ASSUME published' = published + 1, NEW s \in 1 .. samples, Due(p, s), \A q \in Procs : ~Due(q, s)'
        PROVE  published' \in Nat /\ published' <= Cardinality(Past')
    <3>1. s \notin Past /\ s \in Past'
      BY <1>1, <2>2 DEF Past
    <3>2. Cardinality(Past \cup {s}) = Cardinality(Past) + 1
      BY <1>3, <3>1, FS_AddElement
    <3>3. Cardinality(Past \cup {s}) <= Cardinality(Past')
      <4>1. Past \cup {s} \subseteq Past'
        BY <1>4, <3>1
      <4>2. QED
        BY <1>3, <4>1, FS_Subset
    <3>4. QED
      BY <1>3, <2>2, <3>2, <3>3 DEF DueInv
  <2>3. QED
    BY <2>1, <2>2
<1>6. QED
  BY <1>2, <1>5 DEF DueInv

(* What a process is due does not change with the queues of the others.    *)
LEMMA DueStays ==
    ASSUME NEW q \in Procs, queue'[q] = queue[q], cur'[q] = cur[q]
    PROVE  (DueOnce(q)' <=> DueOnce(q)) /\ \A s : Due(q, s)' <=> Due(q, s)
<1>. DEFINE dueIn(l, c, s) == \/ c.index # 0 /\ c.sample = s
                              \/ \E i \in 1 .. Len(l) : IsLast(l[i]) /\ l[i].sample = s
            onceIn(l, c) ==
                \A i \in 1 .. Len(l) : IsLast(l[i]) =>
                    /\ c.index # 0 => l[i].sample # c.sample
                    /\ \A j \in 1 .. Len(l) : IsLast(l[j]) /\ l[i].sample = l[j].sample => i = j
<1>1. (DueOnce(q) <=> onceIn(queue[q], cur[q])) /\ (DueOnce(q)' <=> onceIn(queue'[q], cur'[q]))
  BY DEF DueOnce
<1>2. \A s : (Due(q, s) <=> dueIn(queue[q], cur[q], s)) /\ (Due(q, s)' <=> dueIn(queue'[q], cur'[q], s))
  BY DEF Due
<1>. HIDE DEF dueIn, onceIn
<1>3. QED
  BY <1>1, <1>2

LEMMA DueStep == IInv /\ QueuesOK /\ DueInv /\ [Next]_vars => DueInv'
<1>. SUFFICES ASSUME IInv, QueuesOK, DueInv, [Next]_vars PROVE DueInv'
  OBVIOUS
<1>. USE DumperAssumption
<1>1. /\ QueuesOK' /\ samples \in Nat
      /\ queue \in [Procs -> Seq(Lines)] /\ cur \in [Procs -> Coming]
      /\ \A p \in Procs : Len(queue[p]) \in Nat
  BY QueuesStep DEF QueuesOK
<1>2. CASE Rests /\ published' = published
  <2>1. Past' = Past /\ (\A p \in Procs : DueOnce(p)' <=> DueOnce(p))
        /\ \A p \in Procs : \A s \in 1 .. samples : Due(p, s)' <=> Due(p, s)
    BY <1>2 DEF Rests, Past, DueOnce, Due
  <2>2. QED
    BY <1>2, <2>1 DEF DueInv, Rests
(* Only one process has another queue or another block, and no new sample. *)
<1>3. ASSUME NEW p \in Procs, \A q \in Procs : q # p => queue'[q] = queue[q] /\ cur'[q] = cur[q],
             samples' = samples, \A s \in 1 .. samples : Due(p, s)' => Due(p, s), DueOnce(p)',
             \/ published' = published
             \/ published' = published + 1 /\ \E s \in 1 .. samples : Due(p, s) /\ ~Due(p, s)'
      PROVE  DueInv'
  <2>1. ASSUME NEW q \in Procs, q # p PROVE DueOnce(q)' /\ \A s \in 1 .. samples : Due(q, s)' <=> Due(q, s)
    BY <1>3, <2>1, DueStays DEF DueInv
  <2>2. \A q \in Procs : DueOnce(q)' /\ \A s \in 1 .. samples : Due(q, s)' => Due(q, s)
    BY <1>3, <2>1
  <2>3. ASSUME NEW s \in 1 .. samples, Due(p, s), ~Due(p, s)', NEW q \in Procs PROVE ~Due(q, s)'
    BY <2>1, <2>3 DEF DueInv
  <2>4. \A q \in Procs : \A s \in 1 .. samples' : s > samples /\ Due(q, s)' => q = p
    BY <1>1, <1>3
  <2>5. QED
    BY <1>1, <1>3, <2>2, <2>3, <2>4, DueShrinks
<1>4. ASSUME NEW p \in Procs, Forgets(p), published' = published PROVE DueInv'
  <2>1. /\ queue' = queue /\ cur'[p].index = 0 /\ samples' = samples
        /\ \A q \in Procs : q # p => cur'[q] = cur[q]
    BY <1>1, <1>4 DEF Forgets, BeforeFirst
  <2>2. DueOnce(p)' /\ \A s \in 1 .. samples : Due(p, s)' => Due(p, s)
    BY <2>1 DEF DueInv, DueOnce, Due
  <2>3. QED
    BY <1>3, <1>4, <2>1, <2>2
<1>5. ASSUME NEW p \in Procs, Clears(p), published' = published PROVE DueInv'
  <2>1. /\ queue'[p] = <<>> /\ cur' = cur /\ samples' = samples /\ Len(<<>>) = 0
        /\ \A q \in Procs : q # p => queue'[q] = queue[q]
    BY <1>1, <1>5, EmptySeq DEF Clears
  <2>2. DueOnce(p)' /\ \A s \in 1 .. samples : Due(p, s)' => Due(p, s)
    BY <2>1 DEF DueOnce, Due
  <2>3. QED
    BY <1>3, <1>5, <2>1, <2>2
<1>6. ASSUME NEW p \in Procs, Closes(p), published' = published PROVE DueInv'
  <2>. DEFINE n == Len(queue[p])
  <2>1. /\ queue'[p] = Append(queue[p], EOF) /\ cur' = cur /\ samples' = samples
        /\ \A q \in Procs : q # p => queue'[q] = queue[q]
    BY <1>1, <1>6 DEF Closes, Put
  <2>2. /\ n \in Nat /\ Len(queue'[p]) = n + 1 /\ queue'[p][n + 1] = EOF
        /\ \A i \in 1 .. n : queue'[p][i] = queue[p][i]
    BY <1>1, <2>1, LineKinds
  <2>3. \A i \in 1 .. n + 1 : IsLast(queue'[p][i]) => i \in 1 .. n
    BY <2>2 DEF IsLast
  <2>4. DueOnce(p)' /\ \A s \in 1 .. samples : Due(p, s)' => Due(p, s)
    BY <2>1, <2>2, <2>3 DEF DueInv, DueOnce, Due
  <2>5. QED
    BY <1>3, <1>6, <2>1, <2>4
<1>7. ASSUME NEW p \in Procs, NEW got \in BOOLEAN, PrintBlock(p, got), published' = published PROVE DueInv'
  <2>. DEFINE b == NextBlock(p, got)
              n == Len(queue[p])
  <2>1. /\ b \in Lines /\ b.index = cur[p].index
        /\ b.sample = (IF cur[p].index = 0 THEN samples + 1 ELSE cur[p].sample)
        /\ cur'[p].index = (IF b.index = NBlocks - 1 THEN 0 ELSE b.index + 1)
        /\ cur'[p].sample = b.sample
        /\ samples' = (IF cur[p].index = 0 THEN samples + 1 ELSE samples)
        /\ \A q \in Procs : q # p => cur'[q] = cur[q]
        /\ IF got THEN queue' = [queue EXCEPT ![p] = Append(queue[p], b)] ELSE queue' = queue
    BY <1>7, PrintIs DEF Lines
  <2>. HIDE DEF b
  <2>2. /\ \A q \in Procs : q # p => queue'[q] = queue[q]
        /\ n \in Nat /\ Len(queue'[p]) \in {n, n + 1} /\ \A i \in 1 .. n : queue'[p][i] = queue[p][i]
        /\ Len(queue'[p]) = n + 1 => queue'[p][n + 1] = b
    BY <1>1, <2>1
  <2>3. \A q \in Procs : \A i \in 1 .. Len(queue[q]) : IsLast(queue[q][i]) => queue[q][i].sample \in 1 .. samples
    <3>1. ASSUME NEW q \in Procs, NEW i \in 1 .. Len(queue[q]), queue[q][i] # EOF
          PROVE  queue[q][i].sample \in 1 .. samples
      <4>1. queue[q][i] \in Lines
        BY <1>1, ElementOfSeq
      <4>2. queue[q][i].sample \in 1 .. MaxSamples /\ queue[q][i].sample <= samples
        BY <3>1, <4>1, LineKinds DEF QueuesOK
      <4>3. QED
        BY <1>1, <4>2
    <3>2. QED
      BY <3>1 DEF IsLast
  <2>4. \A q \in Procs : cur[q].index # 0 => cur[q].sample \in 1 .. samples
    BY DEF QueuesOK
  <2>5. ASSUME NEW i \in 1 .. Len(queue'[p]) PROVE i \in 1 .. n \/ (i = n + 1 /\ queue'[p][i] = b)
    BY <2>2
  (* The sample that the block is of was due, or it is new.                *)
  <2>6. ASSUME NEW s \in 1 .. samples, Due(p, s)' PROVE Due(p, s)
    <3>1. CASE s = b.sample
      BY <1>1, <2>1, <3>1 DEF Due
    <3>2. CASE s # b.sample
      <4>1. PICK i \in 1 .. Len(queue'[p]) : IsLast(queue'[p][i]) /\ queue'[p][i].sample = s
        BY <2>1, <2>6, <3>2 DEF Due
      <4>2. i \in 1 .. n
        BY <2>5, <3>2, <4>1
      <4>3. QED
        BY <2>2, <4>1, <4>2 DEF Due
    <3>3. QED
      BY <3>1, <3>2
  <2>7. ASSUME NEW i \in 1 .. n, IsLast(queue[p][i]) PROVE queue[p][i].sample # b.sample
    <3>1. CASE cur[p].index = 0
      BY <1>1, <2>1, <2>3, <2>7, <3>1
    <3>2. CASE cur[p].index # 0
      BY <2>1, <2>7, <3>2 DEF DueInv, DueOnce
    <3>3. QED
      BY <3>1, <3>2
  <2>8. DueOnce(p)'
    <3>1. ASSUME NEW i \in 1 .. Len(queue'[p]), IsLast(queue'[p][i])
          PROVE  /\ cur'[p].index # 0 => queue'[p][i].sample # cur'[p].sample
                 /\ \A j \in 1 .. Len(queue'[p]) :
                        IsLast(queue'[p][j]) /\ queue'[p][i].sample = queue'[p][j].sample => i = j
      <4>1. CASE i \in 1 .. n
        <5>1. queue'[p][i] = queue[p][i] /\ queue[p][i].sample # b.sample
          BY <2>2, <2>7, <3>1, <4>1
        <5>2. ASSUME NEW j \in 1 .. Len(queue'[p]), IsLast(queue'[p][j]),
                     queue'[p][i].sample = queue'[p][j].sample
              PROVE  i = j
          <6>1. j \in 1 .. n
            BY <2>5, <5>1, <5>2
          <6>2. QED
            <7>1. DueOnce(p) /\ IsLast(queue[p][i]) /\ IsLast(queue[p][j])
                  /\ queue[p][i].sample = queue[p][j].sample
              BY <2>2, <3>1, <4>1, <5>2, <6>1 DEF DueInv
            <7>2. QED
              BY <4>1, <6>1, <7>1 DEF DueOnce
        <5>3. QED
          BY <2>1, <5>1, <5>2
      <4>2. CASE i = n + 1 /\ queue'[p][i] = b
        <5>1. cur'[p].index = 0
          BY <2>1, <3>1, <4>2 DEF IsLast
        <5>2. ASSUME NEW j \in 1 .. Len(queue'[p]), IsLast(queue'[p][j]),
                     queue'[p][i].sample = queue'[p][j].sample
              PROVE  i = j
          BY <2>2, <2>5, <2>7, <4>2, <5>2
        <5>3. QED
          BY <5>1, <5>2
      <4>3. QED
        BY <2>5, <4>1, <4>2
    <3>2. QED
      BY <3>1 DEF DueOnce
  <2>9. ASSUME NEW q \in Procs, q # p PROVE DueOnce(q)' /\ \A s : Due(q, s)' <=> Due(q, s)
    BY <2>1, <2>2, <2>9, DueStays DEF DueInv
  <2>10. ASSUME NEW q \in Procs, NEW s \in 1 .. samples', s > samples, Due(q, s)' PROVE q = p
    <3>1. SUFFICES ASSUME q # p PROVE FALSE
      OBVIOUS
    <3>2. Due(q, s)
      BY <2>9, <2>10, <3>1
    <3>3. s \in 1 .. samples
      BY <2>3, <2>4, <3>2 DEF Due
    <3>4. QED
      BY <1>1, <2>10, <3>3
  <2>11. samples' \in {samples, samples + 1}
    BY <2>1
  <2>12. \A q \in Procs : DueOnce(q)' /\ \A s \in 1 .. samples : Due(q, s)' => Due(q, s)
    BY <2>6, <2>8, <2>9
  <2>13. QED
    BY <1>1, <1>7, <2>10, <2>11, <2>12, DueShrinks
<1>8. ASSUME NEW p \in Procs, ReaderFeeds(p) PROVE DueInv'
  <2>1. /\ queue[p] # <<>> /\ Head(queue[p]) # EOF /\ queue'[p] = Tail(queue[p])
        /\ cur' = cur /\ samples' = samples /\ \A q \in Procs : q # p => queue'[q] = queue[q]
    BY <1>1, <1>8 DEF ReaderFeeds, ReaderHas, procVars
  <2>2. /\ Len(queue[p]) \in Nat \ {0} /\ Head(queue[p]) = queue[p][1] /\ queue[p][1] \in Lines
        /\ Len(queue'[p]) = Len(queue[p]) - 1
        /\ \A i \in 1 .. Len(queue[p]) - 1 : queue'[p][i] = queue[p][i + 1]
    BY <2>1, ReaderSees
  <2>3. \A i \in 1 .. Len(queue'[p]) : i + 1 \in 1 .. Len(queue[p]) /\ queue'[p][i] = queue[p][i + 1]
    BY <2>2
  <2>4. \A s \in 1 .. samples : Due(p, s)' => Due(p, s)
    BY <2>1, <2>3 DEF Due
  <2>5. DueOnce(p)'
    <3>1. ASSUME NEW i \in 1 .. Len(queue'[p]), IsLast(queue'[p][i])
          PROVE  /\ cur'[p].index # 0 => queue'[p][i].sample # cur'[p].sample
                 /\ \A j \in 1 .. Len(queue'[p]) :
                        IsLast(queue'[p][j]) /\ queue'[p][i].sample = queue'[p][j].sample => i = j
      <4>1. DueOnce(p)
        BY DEF DueInv
      <4>2. i + 1 \in 1 .. Len(queue[p]) /\ queue'[p][i] = queue[p][i + 1] /\ IsLast(queue[p][i + 1])
        BY <2>3, <3>1
      <4>3. cur[p].index # 0 => queue[p][i + 1].sample # cur[p].sample
        BY <4>1, <4>2 DEF DueOnce
      <4>4. ASSUME NEW j \in 1 .. Len(queue'[p]), IsLast(queue'[p][j]),
                   queue'[p][i].sample = queue'[p][j].sample
            PROVE  i = j
        <5>1. j + 1 \in 1 .. Len(queue[p]) /\ IsLast(queue[p][j + 1])
              /\ queue[p][i + 1].sample = queue[p][j + 1].sample
          BY <2>3, <4>2, <4>4
        <5>2. i + 1 = j + 1
          BY <4>1, <4>2, <5>1 DEF DueOnce
        <5>3. i \in Nat /\ j \in Nat
          BY <2>2
        <5>4. QED
          BY <5>2, <5>3
      <4>5. QED
        BY <2>1, <4>2, <4>3, <4>4
    <3>2. QED
      BY <3>1 DEF DueOnce
  <2>6. CASE published' = published
    BY <1>3, <2>1, <2>4, <2>5, <2>6
  <2>7. CASE published' # published
    <3>. DEFINE b == queue[p][1]
    <3>1. published' = published + 1 /\ Completes(acc, b) /\ b # EOF
      BY <1>8, <2>1, <2>2, <2>7 DEF ReaderFeeds
    <3>2. b \in Block /\ b.sample \in 1 .. samples /\ IsLast(b)
      <4>1. b \in Block
        BY <2>2, <3>1, LineKinds
      <4>2. b.sample <= samples /\ b.sample \in 1 .. MaxSamples /\ b.count = NBlocks
        BY <2>2, <3>1, <4>1, LineKinds DEF QueuesOK
      <4>3. IsLast(b)
        BY <3>1, <4>2 DEF Completes, IsLast
      <4>4. QED
        BY <1>1, <4>1, <4>2, <4>3
    <3>3. 1 \in 1 .. Len(queue[p])
      BY <2>2
    <3>4. ASSUME NEW s \in 1 .. samples, s = b.sample PROVE Due(p, s) /\ ~Due(p, s)'
      <4>1. Due(p, s)
        BY <3>2, <3>3, <3>4 DEF Due
      <4>2. cur[p].index # 0 => cur[p].sample # s
        BY <3>2, <3>3, <3>4 DEF DueInv, DueOnce
      <4>3. ASSUME NEW i \in 1 .. Len(queue'[p]), IsLast(queue'[p][i]), queue'[p][i].sample = s PROVE FALSE
        <5>1. i + 1 \in 1 .. Len(queue[p]) /\ IsLast(queue[p][i + 1]) /\ queue[p][i + 1].sample = b.sample
          BY <2>3, <3>4, <4>3
        <5>2. 1 = i + 1
          BY <3>2, <3>3, <5>1 DEF DueInv, DueOnce
        <5>3. QED
          BY <5>2
      <4>4. QED
        BY <2>1, <4>1, <4>2, <4>3 DEF Due
    <3>5. \E s \in 1 .. samples : Due(p, s) /\ ~Due(p, s)'
      BY <3>2, <3>4
    <3>6. QED
      BY <1>3, <2>1, <2>4, <2>5, <3>1, <3>5
  <2>8. QED
    BY <2>6, <2>7
<1>9. QED
  BY <1>2, <1>4, <1>5, <1>6, <1>7, <1>8, QueueMoves DEF Moves

-----------------------------------------------------------------------------
(* What is left of the types.                                              *)

OncePerCaller(s) == \A i, j \in 1 .. Len(s) : s[i].by = s[j].by => i = j

MiscInv ==
    /\ OncePerCaller(calls)
    /\ period \in Periods /\ state \in DumperState
    /\ latest \in {0, published} /\ spawned <= MaxStarts
    /\ \A p \in Procs : (stat[p] = "none") <=> (p > spawned)

(* Another caller's call is appended, and the first of the calls returns.  *)
LEMMA CallersOnce ==
    ASSUME CallsOK, OncePerCaller(calls)
    PROVE  /\ calls # <<>> => OncePerCaller(Tail(calls))
           /\ \A k \in Requests : ~InCall(k.by) => OncePerCaller(Append(calls, k))
<1>1. calls \in Seq(Requests) /\ Len(calls) \in Nat /\ DOMAIN calls = 1 .. Len(calls)
  BY DEF CallsOK
<1>2. ASSUME calls # <<>> PROVE OncePerCaller(Tail(calls))
  <2>. DEFINE s == Tail(calls)
  <2>1. /\ Len(s) = Len(calls) - 1 /\ \A i \in 1 .. Len(s) : s[i] = calls[i + 1]
    BY <1>1, <1>2, HeadTailProperties
  <2>2. ASSUME NEW i \in 1 .. Len(s), NEW j \in 1 .. Len(s), s[i].by = s[j].by PROVE i = j
    <3>1. i + 1 \in 1 .. Len(calls) /\ j + 1 \in 1 .. Len(calls)
      BY <1>1, <2>1
    <3>2. i + 1 = j + 1
      BY <2>1, <2>2, <3>1 DEF OncePerCaller
    <3>3. QED
      BY <1>1, <2>1, <3>2
  <2>3. QED
    BY <2>2 DEF OncePerCaller
<1>3. ASSUME NEW k \in Requests, ~InCall(k.by) PROVE OncePerCaller(Append(calls, k))
  <2>. DEFINE s == Append(calls, k)
              n == Len(calls)
  <2>1. /\ Len(s) = n + 1 /\ s[n + 1] = k /\ \A i \in 1 .. n : s[i] = calls[i]
    BY <1>1, AppendProperties
  <2>2. \A i \in 1 .. n : s[i].by # k.by
    BY <1>1, <1>3, <2>1 DEF InCall
  <2>3. ASSUME NEW i \in 1 .. Len(s), NEW j \in 1 .. Len(s), s[i].by = s[j].by PROVE i = j
    <3>1. (i \in 1 .. n \/ i = n + 1) /\ (j \in 1 .. n \/ j = n + 1)
      BY <1>1, <2>1
    <3>2. CASE i \in 1 .. n /\ j \in 1 .. n
      BY <2>1, <2>3, <3>2 DEF OncePerCaller
    <3>3. CASE i = n + 1 \/ j = n + 1
      BY <2>1, <2>2, <2>3, <3>1, <3>3
    <3>4. QED
      BY <3>1, <3>2, <3>3
  <2>4. QED
    BY <2>3 DEF OncePerCaller
<1>4. QED
  BY <1>2, <1>3

LEMMA CallsMove ==
    ASSUME IInv, [Next]_vars, OncePerCaller(calls), period \in Periods
    PROVE  OncePerCaller(calls)' /\ period' \in Periods
<1>1. CASE UNCHANGED <<calls, period>>
  BY <1>1
<1>2. ASSUME calls # <<>>, calls' = Tail(calls), period' \in {period, Head(calls).period}
      PROVE  OncePerCaller(calls)' /\ period' \in Periods
  <2>1. Head(calls) \in Requests
    BY <1>2, HeadTailProperties DEF IInv, CallsOK
  <2>2. OncePerCaller(Tail(calls))
    BY <1>2, CallersOnce DEF IInv
  <2>3. QED
    BY <1>2, <2>1, <2>2 DEF Requests
<1>3. ASSUME NEW c \in Callers, NEW op \in {"start", "stop"}, NEW ms \in Periods, Call(c, op, ms)
      PROVE  OncePerCaller(calls)' /\ period' \in Periods
  <2>. DEFINE k == [by |-> c, op |-> op, period |-> ms]
  <2>1. k \in Requests /\ k.by = c /\ ~InCall(c) /\ calls' = Append(calls, k) /\ period' = period
    BY <1>3 DEF Call, Requests
  <2>. HIDE DEF k
  <2>2. OncePerCaller(Append(calls, k))
    BY <2>1, CallersOnce DEF IInv
  <2>3. QED
    BY <2>1, <2>2
<1>4. CASE StopIdle \/ FileNotFound
  BY <1>2, <1>4 DEF StopIdle, FileNotFound, AtPopen, Serving, IInv, CallsOK
<1>5. CASE Popen
  BY <1>2, <1>5 DEF Popen, AtPopen, Serving, IInv, CallsOK
<1>6. CASE Stopped
  BY <1>1, <1>2, <1>6 DEF Stopped, Serving
<1>7. CASE Stopping \/ kill \/ CloseReturns \/ UNCHANGED vars
  BY <1>1, <1>7 DEF Stopping, kill, CloseReturns, vars, callVars
<1>8. CASE \E p \in Procs : _reader(p) \/ thread_main(p) \/ Prints(p) \/ Quits(p) \/ Exits(p)
  BY <1>1, <1>8 DEF _reader, ReaderEnds, ReaderFeeds, thread_main, NextLine, ReadEof, Prints,
     PrintBlock, PrintStatus, BrokenPipe, Quits, Exits, callVars
<1>9. QED
  BY <1>3, <1>4, <1>5, <1>6, <1>7, <1>8 DEF Next, Serve

(* Only Popen() makes a process, and no process is unmade.                 *)
LEMMA ProcsMove ==
    ASSUME IInv, [Next]_vars, state \in DumperState, spawned <= MaxStarts,
           \A p \in Procs : (stat[p] = "none") <=> (p > spawned)
    PROVE  /\ state' \in DumperState /\ spawned' <= MaxStarts
           /\ \A p \in Procs : (stat'[p] = "none") <=> (p > spawned')
<1>. USE DumperAssumption
<1>1. stat \in [Procs -> Stats] /\ proc \in Procs \cup {0} /\ proc <= spawned /\ spawned \in Nat
  BY DEF IInv, ProcsOK, CallsOK
<1>2. CASE Popen
  <2>1. /\ spawned' = spawned + 1 /\ spawned < MaxStarts /\ state' = "STARTING"
        /\ stat' = [stat EXCEPT ![spawned + 1] = "alive"]
    BY <1>2 DEF Popen
  <2>2. QED
    BY <1>1, <2>1 DEF DumperState, Procs
<1>3. ASSUME spawned' = spawned, state' \in DumperState, NEW p \in Procs, NEW s \in Stats \ {"none"},
             p <= spawned, stat' = [stat EXCEPT ![p] = s]
      PROVE  /\ state' \in DumperState /\ spawned' <= MaxStarts
             /\ \A q \in Procs : (stat'[q] = "none") <=> (q > spawned')
  BY <1>1, <1>3 DEF Procs
<1>4. CASE kill
  <2>1. proc \in Procs /\ UNCHANGED <<spawned, state>> /\ stat' = [stat EXCEPT ![proc] = "closing_failed"]
    BY <1>4 DEF kill, Becomes, IInv, CallsOK, InStop
  <2>2. QED
    BY <1>1, <1>3, <2>1 DEF Stats
<1>5. CASE StopIdle \/ Stopping \/ FileNotFound \/ Stopped \/ CloseReturns \/ UNCHANGED vars
           \/ \E c \in Callers, op \in {"start", "stop"}, ms \in Periods : Call(c, op, ms)
  BY <1>5 DEF StopIdle, Stopping, FileNotFound, Stopped, CloseReturns, Call, vars, procVars, DumperState
<1>6. ASSUME NEW p \in Procs, _reader(p) \/ thread_main(p)
      PROVE  /\ state' \in DumperState /\ spawned' <= MaxStarts
             /\ \A q \in Procs : (stat'[q] = "none") <=> (q > spawned')
  BY <1>6 DEF _reader, ReaderEnds, ReaderFeeds, thread_main, NextLine, ReadEof, procVars, DumperState
<1>7. ASSUME NEW p \in Procs, Prints(p) \/ Quits(p) \/ Exits(p)
      PROVE  /\ state' \in DumperState /\ spawned' <= MaxStarts
             /\ \A q \in Procs : (stat'[q] = "none") <=> (q > spawned')
  <2>1. /\ UNCHANGED <<spawned, state>>
        /\ \/ stat' = stat
           \/ stat[p] # "none" /\ \E s \in Stats \ {"none"} : stat' = [stat EXCEPT ![p] = s]
    BY <1>7 DEF Prints, PrintBlock, PrintStatus, BrokenPipe, Quits, Exits, Becomes, procVars, Stats
  <2>2. stat[p] # "none" => p <= spawned
    BY <1>1 DEF Procs
  <2>3. QED
    BY <1>3, <2>1, <2>2
<1>8. QED
  BY <1>2, <1>4, <1>5, <1>6, <1>7 DEF Next, Serve

(* What is shown was published last, or nothing is shown.                  *)
LEMMA LatestMove ==
    ASSUME IInv, QueuesOK, [Next]_vars, latest \in {0, published}
    PROVE  latest' \in {0, published'}
<1>1. CASE UNCHANGED <<acc, published>> /\ latest' \in {0, latest}
  BY <1>1
<1>2. CASE \E p \in Procs : ReaderFeeds(p)
  BY <1>2 DEF ReaderFeeds
<1>3. QED
  BY <1>1, <1>2, QueueMoves

LEMMA DueInit == Init => DueInv
<1>. SUFFICES ASSUME Init PROVE DueInv
  OBVIOUS
<1>. USE DumperAssumption
<1>1. /\ samples = 0 /\ published = 0
      /\ \A p \in Procs : queue[p] = <<>> /\ Len(queue[p]) = 0
  BY EmptySeq DEF Init
<1>2. 1 .. samples = {} /\ \A p \in Procs : 1 .. Len(queue[p]) = {}
  BY <1>1
<1>3. Past = {}
  BY <1>2 DEF Past
<1>4. Cardinality(Past) = 0
  BY <1>3, FS_EmptySet
<1>5. QED
  BY <1>1, <1>2, <1>4 DEF DueInv, DueOnce

TypeInv == FrameInv /\ DueInv /\ MiscInv

LEMMA TypeInvariant == Spec => []TypeInv
<1>1. Init => DueInv /\ MiscInv
  <2>. SUFFICES ASSUME Init PROVE MiscInv
    BY DueInit
  <2>. USE DumperAssumption
  <2>1. calls = <<>> /\ Len(<<>>) = 0 /\ spawned = 0 /\ stat = [p \in Procs |-> "none"]
    BY EmptySeq DEF Init
  <2>2. QED
    BY <2>1 DEF Init, MiscInv, OncePerCaller, DumperState, Procs
<1>2. TypeInv /\ FrameInv' /\ [Next]_vars => TypeInv'
  <2>. SUFFICES ASSUME TypeInv, FrameInv', [Next]_vars PROVE DueInv' /\ MiscInv'
    BY DEF TypeInv
  <2>1. DueInv'
    BY DueStep DEF TypeInv, FrameInv
  <2>2. OncePerCaller(calls)' /\ period' \in Periods
    BY CallsMove DEF TypeInv, FrameInv, MiscInv
  <2>3. /\ state' \in DumperState /\ spawned' <= MaxStarts
        /\ \A p \in Procs : (stat'[p] = "none") <=> (p > spawned')
    BY ProcsMove DEF TypeInv, FrameInv, MiscInv
  <2>4. latest' \in {0, published'}
    BY LatestMove DEF TypeInv, FrameInv, MiscInv
  <2>5. QED
    BY <2>1, <2>2, <2>3, <2>4 DEF MiscInv
<1>3. QED
  BY <1>1, <1>2, FrameInvariant, PTL DEF Spec, TypeInv

(* The variables have their types.  The two parts that are more than that: *)
(* a caller has one call at a time, and there are never more frames than   *)
(* samples, since every frame shows another sample than all before it.     *)
THEOREM DumperIsWellTyped == Spec => []TypeOK
<1>1. TypeInv => TypeOK
  <2>. SUFFICES ASSUME TypeInv PROVE TypeOK
    OBVIOUS
  <2>. USE DumperAssumption
  <2>1. IInv /\ QueuesOK /\ AccOK /\ PipesOK /\ DueInv /\ MiscInv
    BY DEF TypeInv, FrameInv
  <2>2. \A i \in DOMAIN calls :
            /\ calls[i] \in [by : Callers, op : {"start", "stop"}, period : Periods]
            /\ \A j \in DOMAIN calls : calls[i].by = calls[j].by => i = j
    <3>1. calls \in Seq(Requests) /\ DOMAIN calls = 1 .. Len(calls)
      BY <2>1 DEF IInv, CallsOK
    <3>2. \A i \in 1 .. Len(calls) : calls[i] \in Requests
      BY <3>1, ElementOfSeq
    <3>3. QED
      BY <2>1, <3>1, <3>2 DEF MiscInv, OncePerCaller, Requests
  <2>3. spawned \in 0 .. MaxStarts /\ proc \in 0 .. spawned
    <3>1. spawned \in Nat /\ proc \in Procs \cup {0} /\ proc <= spawned
      BY <2>1 DEF IInv, CallsOK
    <3>2. spawned <= MaxStarts
      BY <2>1 DEF MiscInv
    <3>3. QED
      BY <3>1, <3>2 DEF Procs
  <2>4. samples \in 0 .. MaxSamples /\ published \in 0 .. samples
    <3>1. samples \in 0 .. MaxSamples /\ samples \in Nat
      BY <2>1 DEF QueuesOK
    <3>2. IsFiniteSet(1 .. samples) /\ Cardinality(1 .. samples) = samples
      BY <3>1, FS_Interval
    <3>3. Past \subseteq 1 .. samples
      BY DEF Past
    <3>4. Cardinality(Past) <= samples /\ Cardinality(Past) \in Nat
      BY <2>1, <3>2, <3>3, FS_Subset, PastIsFinite
    <3>5. QED
      BY <2>1, <3>1, <3>4 DEF DueInv
  <2>5. ASSUME NEW p \in Procs
        PROVE  /\ stat[p] \in {"none", "alive", "hung", "closing_ok", "closing_failed", "ok", "failed"}
               /\ (stat[p] = "none") <=> (p > spawned)
               /\ rdr[p] \in {"off", "get", "done", "stopped"}
               /\ thr[p] \in {"off", "between", "read", "done"}
               /\ open[p] \in BOOLEAN
               /\ \A i \in DOMAIN queue[p] : queue[p][i] \in Block \cup {EOF}
    <3>1. queue[p] \in Seq(Lines) /\ DOMAIN queue[p] = 1 .. Len(queue[p])
      BY <2>1 DEF QueuesOK
    <3>2. \A i \in 1 .. Len(queue[p]) : queue[p][i] \in Lines
      BY <3>1, ElementOfSeq
    <3>3. stat[p] \in Stats /\ ((stat[p] = "none") <=> (p > spawned))
      BY <2>1 DEF MiscInv, IInv, ProcsOK
    <3>4. /\ rdr[p] \in {"off", "get", "done", "stopped"} /\ thr[p] \in {"off", "between", "read", "done"}
          /\ open[p] \in BOOLEAN
      BY <2>1 DEF IInv, ReadersOK, QueuesOK, PipesOK
    <3>5. QED
      BY <3>1, <3>2, <3>3, <3>4 DEF Stats, Lines
  <2>6. /\ pc \in {"idle", "close", "wait", "wait2", "spawn"} /\ (pc # "idle" => calls # <<>>)
        /\ period \in Periods /\ state \in DumperState /\ latest \in {0, published}
    BY <2>1 DEF IInv, CallsOK, MiscInv
  <2>7. QED
    BY <2>1, <2>2, <2>3, <2>4, <2>5, <2>6 DEF TypeOK, AccOK
<1>2. QED
  BY <1>1, TypeInvariant, PTL
=============================================================================
