------------------------------- MODULE Dumper -------------------------------
(***************************************************************************)
(* The subprocess of the LCD viewer (dumper.py): start() and stop() under  *)
(* an asyncio lock, the reader coroutine, the daemon thread that reads the *)
(* pipe for it, and the process at the other end.                          *)
(*                                                                         *)
(* The coroutines share one thread, the event loop: between two awaits     *)
(* nothing else of them runs, but the daemon threads and the processes do. *)
(* The calls wait in a sequence, as the waiters of an asyncio.Lock do; the *)
(* first is the one that holds the lock.                                   *)
(*                                                                         *)
(* Lines that are no block (blank ones, status lines, lines that do not    *)
(* parse) have no effect on the reader and are not queued.  A pipe and the *)
(* Queue behind it are one sequence; a thread in `read' waits for a line.  *)
(***************************************************************************)
EXTENDS Frame, Sequences

CONSTANTS
    Callers, Periods,
    NBlocks,      \* the number of blocks of a sample
    MaxStarts,    \* bound: how many processes there are
    MaxSamples    \* bound: how many samples they print together

ASSUME DumperAssumption ==
    /\ NBlocks \in Nat \ {0}
    /\ MaxStarts \in Nat /\ MaxSamples \in Nat
    /\ Periods # {}

EOF == [line |-> "None"]    \* the sentinel that the thread puts last
Procs == 1 .. MaxStarts
DumperState == {"IDLE", "STARTING", "RUNNING", "STOPPING", "ERROR"}

VARIABLES
    calls,      \* the calls of start() and stop() that have not returned
    pc,         \* where the first of them is
    proc,       \* _proc: a process by its number, 0 for None
    state,      \* _state
    latest,     \* _latest by its number, 0 for None
    acc,        \* _acc
    period,     \* the --period of the last process
    rdr,        \* the reader coroutine of a process
    stat,       \* the process
    open,       \* our end of its pipe is open
    thr,        \* the thread that reads the pipe
    queue,      \* what the thread has read and the reader has not
    cur,        \* the block that the process prints next
    spawned, samples, published     \* counters

callVars == <<calls, pc, period>>
frameVars == <<latest, acc, published>>
procVars == <<stat, cur, samples>>
vars == <<callVars, frameVars, procVars, proc, state, rdr, open, thr, queue, spawned>>

Exited(p) == stat[p] \in {"ok", "failed"}
Alive(p) == stat[p] \in {"alive", "hung"}

BeforeFirst == [sample |-> 0, index |-> 0, started |-> FALSE, whole |-> FALSE]

Init ==
    /\ calls = <<>> /\ pc = "idle" /\ period \in Periods
    /\ latest = 0 /\ acc = FrameAccumulator /\ published = 0
    /\ proc = 0 /\ state = "IDLE" /\ spawned = 0 /\ samples = 0
    /\ stat = [p \in Procs |-> "none"]
    /\ rdr = [p \in Procs |-> "off"]
    /\ thr = [p \in Procs |-> "off"]
    /\ open = [p \in Procs |-> FALSE]
    /\ queue = [p \in Procs |-> <<>>]
    /\ cur = [p \in Procs |-> BeforeFirst]

(* A process that prints no more forgets what it would have printed.       *)
Becomes(p, s) ==
    /\ stat' = [stat EXCEPT ![p] = s]
    /\ cur' = [cur EXCEPT ![p] = BeforeFirst]

-----------------------------------------------------------------------------
(* start() and stop().                                                     *)

(* stdout.close() and Popen() block the event loop.                        *)
LoopRuns == pc \notin {"close", "spawn"}

InCall(c) == \E i \in DOMAIN calls : calls[i].by = c
Serving(op) == calls # <<>> /\ Head(calls).op = op

StartsCalled == Len(SelectSeq(calls, LAMBDA k : k.op = "start"))

Call(c, op, ms) ==
    /\ LoopRuns /\ ~InCall(c)
    /\ op = "start" => spawned + StartsCalled < MaxStarts
    /\ calls' = Append(calls, [by |-> c, op |-> op, period |-> ms])
    /\ UNCHANGED <<pc, period, frameVars, procVars, proc, state, rdr, open, thr, queue, spawned>>

(* stop() without a process.                                               *)
StopIdle ==
    /\ pc = "idle" /\ Serving("stop") /\ proc = 0
    /\ state' = "IDLE"
    /\ calls' = Tail(calls)
    /\ UNCHANGED <<pc, period, frameVars, procVars, proc, rdr, open, thr, queue, spawned>>

(* _stop_locked() up to stdout.close(); start() does the same first when   *)
(* poll() says that the process runs.                                      *)
Stopping ==
    /\ pc = "idle" /\ proc # 0
    /\ Serving("stop") \/ (Serving("start") /\ ~Exited(proc))
    /\ state' = "STOPPING" /\ pc' = "close"
    /\ UNCHANGED <<calls, period, frameVars, procVars, proc, rdr, open, thr, queue, spawned>>

(* A thread that waits in a read holds the lock of the buffered file, and  *)
(* close() waits for that lock.                                            *)
CloseReturns ==
    /\ pc = "close" /\ thr[proc] # "read"
    /\ open' = [open EXCEPT ![proc] = FALSE]
    /\ pc' = "wait"
    /\ UNCHANGED <<calls, period, frameVars, procVars, proc, state, rdr, thr, queue, spawned>>

(* wait(2.0) raised TimeoutExpired.  Deviation: a wait() without a time.   *)
kill_NoTimeout ==
    /\ pc = "wait" /\ Exited(proc)
    /\ Becomes(proc, "closing_failed")
    /\ pc' = "wait2"
    /\ UNCHANGED <<calls, period, frameVars, samples, proc, state, rdr, open, thr, queue, spawned>>

kill ==
    /\ pc = "wait" /\ ~Exited(proc)
    /\ Becomes(proc, "closing_failed")
    /\ pc' = "wait2"
    /\ UNCHANGED <<calls, period, frameVars, samples, proc, state, rdr, open, thr, queue, spawned>>

(* The rest of _stop_locked().  A start() goes on to Popen() at once.      *)
(* What the thread and the process do from here on, nobody sees: they are  *)
(* done.  Deviation: the reader is not cancelled.                          *)
Stopped_KeepsReader ==
    /\ \/ pc \in {"wait", "wait2"} /\ Exited(proc)
       \/ pc = "wait2"
    /\ proc' = 0
    /\ latest' = 0
    /\ state' = IF stat[proc] = "failed" THEN "ERROR" ELSE "IDLE"
    /\ IF Serving("stop") THEN calls' = Tail(calls) /\ pc' = "idle"
                          ELSE UNCHANGED calls /\ pc' = "spawn"
    /\ UNCHANGED <<period, acc, published, procVars, rdr, queue, open, thr, spawned>>

Stopped ==
    /\ \/ pc \in {"wait", "wait2"} /\ Exited(proc)
       \/ pc = "wait2"    \* the second wait(2.0) raised
    /\ rdr' = [rdr EXCEPT ![proc] = "stopped"]
    /\ queue' = [queue EXCEPT ![proc] = <<>>]
    /\ thr' = [thr EXCEPT ![proc] = "done"]
    /\ proc' = 0
    /\ latest' = 0
    /\ state' = IF stat[proc] = "failed" THEN "ERROR" ELSE "IDLE"
    /\ IF Serving("stop") THEN calls' = Tail(calls) /\ pc' = "idle"
                          ELSE UNCHANGED calls /\ pc' = "spawn"
    /\ UNCHANGED <<period, acc, published, procVars, open, spawned>>

(* start() at Popen().  A process that has exited is replaced as it is:    *)
(* its reader is neither cancelled nor waited for.  Deviation: so is one   *)
(* that runs.                                                              *)
AtPopen_Always == pc = "spawn" \/ (pc = "idle" /\ Serving("start"))

AtPopen ==
    \/ pc = "spawn"
    \/ pc = "idle" /\ Serving("start") /\ (proc # 0 => Exited(proc))

Popen ==
    /\ AtPopen /\ spawned < MaxStarts
    /\ spawned' = spawned + 1 /\ proc' = spawned'
    /\ stat' = [stat EXCEPT ![proc'] = "alive"]
    /\ open' = [open EXCEPT ![proc'] = TRUE]
    /\ thr' = [thr EXCEPT ![proc'] = "between"]
    /\ rdr' = [rdr EXCEPT ![proc'] = "get"]
    /\ state' = "STARTING"
    /\ period' = Head(calls).period
    /\ calls' = Tail(calls) /\ pc' = "idle"
    /\ UNCHANGED <<frameVars, cur, samples, queue>>

FileNotFound ==
    /\ AtPopen
    /\ state' = "ERROR"
    /\ calls' = Tail(calls) /\ pc' = "idle"
    /\ UNCHANGED <<period, frameVars, procVars, proc, rdr, open, thr, queue, spawned>>

Serve == StopIdle \/ Stopping \/ kill \/ Stopped \/ Popen \/ FileNotFound

-----------------------------------------------------------------------------
(* The reader coroutine.                                                   *)

ReaderHas(p) == LoopRuns /\ rdr[p] = "get" /\ queue[p] # <<>>

(* The line None, and the finally clause.  It asks for the exit code of    *)
(* _proc, which may be a later process than the reader's own.              *)
ReaderEnds(p) ==
    /\ ReaderHas(p) /\ Head(queue[p]) = EOF
    /\ rdr' = [rdr EXCEPT ![p] = "done"]
    /\ queue' = [queue EXCEPT ![p] = <<>>]
    /\ state' = IF proc # 0 /\ stat[proc] = "failed" THEN "ERROR" ELSE state
    /\ UNCHANGED <<callVars, frameVars, procVars, proc, open, thr, spawned>>

(* Deviation: a frame always makes the state RUNNING.                      *)
ReaderFeeds_Runs(p) ==
    /\ ReaderHas(p) /\ Head(queue[p]) # EOF
    /\ LET b == Head(queue[p]) IN
       /\ acc' = feed(acc, b)
       /\ IF Completes(acc, b)
          THEN /\ published' = published + 1
               /\ latest' = published'
               /\ state' = "RUNNING"
          ELSE UNCHANGED <<published, latest, state>>
    /\ queue' = [queue EXCEPT ![p] = Tail(@)]
    /\ UNCHANGED <<callVars, procVars, proc, rdr, open, thr, spawned>>

ReaderFeeds(p) ==
    /\ ReaderHas(p) /\ Head(queue[p]) # EOF
    /\ LET b == Head(queue[p]) IN
       /\ acc' = feed(acc, b)
       /\ IF Completes(acc, b)
          THEN /\ published' = published + 1
               /\ latest' = published'
               /\ state' = IF state = "STARTING" THEN "RUNNING" ELSE state
          ELSE UNCHANGED <<published, latest, state>>
    /\ queue' = [queue EXCEPT ![p] = Tail(@)]
    /\ UNCHANGED <<callVars, procVars, proc, rdr, open, thr, spawned>>

_reader(p) == ReaderEnds(p) \/ ReaderFeeds(p)

Put(p, line) == queue' = [queue EXCEPT ![p] = Append(@, line)]

(* The loop of thread_main(): a closed file raises ValueError.             *)
NextLine(p) ==
    /\ thr[p] = "between"
    /\ thr' = [thr EXCEPT ![p] = IF open[p] THEN "read" ELSE "done"]
    /\ IF open[p] THEN UNCHANGED queue ELSE Put(p, EOF)
    /\ UNCHANGED <<callVars, frameVars, procVars, proc, state, rdr, open, spawned>>

ReadEof(p) ==
    /\ thr[p] = "read" /\ ~Alive(p)
    /\ thr' = [thr EXCEPT ![p] = "done"]
    /\ Put(p, EOF)
    /\ UNCHANGED <<callVars, frameVars, procVars, proc, state, rdr, open, spawned>>

thread_main(p) == NextLine(p) \/ ReadEof(p)

-----------------------------------------------------------------------------
(* `mklink dump-memory', as the code uses it.                              *)

(* The block that comes now.  Its sample is `started' when its block 0 got *)
(* through, this one included, and `whole' when all did up to this one.    *)
NextBlock(p, got) ==
    LET c == cur[p]
        first == c.index = 0
    IN  [proc |-> p, index |-> c.index, count |-> NBlocks,
         sample |-> IF first THEN samples + 1 ELSE c.sample,
         started |-> IF first THEN got ELSE c.started,
         whole |-> got /\ (first \/ c.whole)]

(* A block is printed; what arrives may be no block (got is FALSE).        *)
PrintBlock(p, got) ==
    /\ stat[p] = "alive" /\ thr[p] = "read"
    /\ cur[p].index = 0 => samples < MaxSamples
    /\ LET b == NextBlock(p, got) IN
       /\ cur' = [cur EXCEPT ![p] =
              [sample |-> b.sample, index |-> (b.index + 1) % NBlocks,
               started |-> b.started, whole |-> b.whole]]
       /\ samples' = IF b.index = 0 THEN samples + 1 ELSE samples
       /\ IF got THEN Put(p, b) ELSE UNCHANGED queue
    /\ thr' = [thr EXCEPT ![p] = "between"]
    /\ UNCHANGED <<callVars, frameVars, stat, proc, state, rdr, open, spawned>>

PrintStatus(p) ==
    /\ stat[p] = "alive" /\ thr[p] = "read"
    /\ thr' = [thr EXCEPT ![p] = "between"]
    /\ UNCHANGED <<callVars, frameVars, procVars, proc, state, rdr, open, queue, spawned>>

(* It writes to a pipe that nobody reads.                                  *)
BrokenPipe(p) ==
    /\ stat[p] = "alive" /\ ~open[p]
    /\ Becomes(p, "closing_failed")
    /\ UNCHANGED <<callVars, frameVars, samples, proc, state, rdr, open, thr, queue, spawned>>

Prints(p) == (\E got \in BOOLEAN : PrintBlock(p, got)) \/ PrintStatus(p) \/ BrokenPipe(p)

(* It ends, or it waits for the probe and prints nothing more.             *)
Quits(p) ==
    /\ stat[p] = "alive"
    /\ \E s \in {"closing_ok", "closing_failed", "hung"} : Becomes(p, s)
    /\ UNCHANGED <<callVars, frameVars, samples, proc, state, rdr, open, thr, queue, spawned>>

(* The pipe of a process that ends is at its end before its exit code is   *)
(* there to be polled.  After stop() nobody asks for it.                   *)
Exits(p) ==
    /\ stat[p] \in {"closing_ok", "closing_failed"} /\ rdr[p] # "stopped"
    /\ stat' = [stat EXCEPT ![p] = IF @ = "closing_ok" THEN "ok" ELSE "failed"]
    /\ UNCHANGED <<callVars, frameVars, cur, samples, proc, state, rdr, open, thr, queue, spawned>>

-----------------------------------------------------------------------------
Next ==
    \/ \E c \in Callers, op \in {"start", "stop"}, ms \in Periods : Call(c, op, ms)
    \/ Serve
    \/ CloseReturns
    \/ \E p \in Procs : _reader(p) \/ thread_main(p) \/ Prints(p) \/ Quits(p) \/ Exits(p)

(* The call that holds the lock, the threads and the system go on.  A      *)
(* process that does not hang keeps printing, so its thread leaves read    *)
(* again and again; the lock that close() waits for is free as often.  No  *)
(* call waits for a reader, so nothing is assumed of it.                   *)
Spec ==
    /\ Init /\ [][Next]_vars
    /\ WF_vars(Serve)
    /\ SF_vars(CloseReturns)
    /\ WF_vars(\E p \in Procs : thread_main(p))
    /\ WF_vars(\E p \in Procs : Prints(p) \/ Exits(p))

-----------------------------------------------------------------------------
Block == [proc : Procs, index : 0 .. NBlocks - 1, count : {NBlocks},
          sample : 1 .. MaxSamples, started : BOOLEAN, whole : BOOLEAN]

(* Blocks that wait for the rest of their sample are blocks of the count   *)
(* that the accumulator expects, and there are none when it expects none.  *)
TypeOK ==
    /\ \A i \in DOMAIN calls :
        /\ calls[i] \in [by : Callers, op : {"start", "stop"}, period : Periods]
        /\ \A j \in DOMAIN calls : calls[i].by = calls[j].by => i = j
    /\ pc \in {"idle", "close", "wait", "wait2", "spawn"}
    /\ pc # "idle" => calls # <<>>
    /\ period \in Periods
    /\ spawned \in 0 .. MaxStarts /\ proc \in 0 .. spawned
    /\ state \in DumperState
    /\ samples \in 0 .. MaxSamples /\ published \in 0 .. samples
    /\ latest \in {0, published}
    /\ acc.count \in {0, NBlocks} /\ DOMAIN acc.blocks \subseteq 0 .. acc.count - 1
    /\ \A i \in DOMAIN acc.blocks : acc.blocks[i] \in Block
    /\ \A p \in Procs :
        /\ stat[p] \in {"none", "alive", "hung", "closing_ok", "closing_failed", "ok", "failed"}
        /\ (stat[p] = "none") <=> (p > spawned)
        /\ rdr[p] \in {"off", "get", "done", "stopped"}
        /\ thr[p] \in {"off", "between", "read", "done"}
        /\ open[p] \in BOOLEAN
        /\ \A i \in DOMAIN queue[p] : queue[p][i] \in Block \cup {EOF}

(* At most one `mklink' runs, and it is the one that a stop() would stop:  *)
(* neither a restart nor a stop leaves one behind.                         *)
NoOrphan == \A p \in Procs : Alive(p) => p = proc

(* The state that the clients are told: in STARTING and RUNNING there is a *)
(* process, which may have ended; IDLE means that there is none.  Frames   *)
(* that arrive while a process is being stopped do not make it RUNNING.    *)
StateIsTrue ==
    /\ state \in {"STARTING", "RUNNING"} => proc # 0
    /\ proc # 0 /\ Alive(proc) => state # "IDLE"
    /\ pc \in {"close", "wait", "wait2"} => proc # 0 /\ state \in {"STOPPING", "ERROR"}
    /\ state = "STOPPING" => pc \in {"close", "wait", "wait2"}

(* start() has replaced a process that had exited, and left its pipe open  *)
(* and its reader at work.                                                 *)
Replaced == \E p \in 1 .. spawned : p # proc /\ open[p]

(* A frame shows one sample.  The last block of a sample is joined with a  *)
(* block of another only when the block 0 of its own was lost, or when the *)
(* other is one that the reader of a replaced process feeds.               *)
FrameIsOneSample ==
    \A p \in Procs :
        LET b == Head(queue[p])
            frame == FrameOf(acc, b)
        IN  ReaderHas(p) /\ b # EOF /\ Completes(acc, b) =>
                \A i \in DOMAIN frame :
                    frame[i].sample # b.sample =>
                        ~b.started \/ (frame[i].proc # p /\ Replaced)

(* A sample of which every block arrives is shown, whatever was lost       *)
(* before it or is left over of an earlier process.                        *)
WholeSampleIsShown ==
    [][\A p \in Procs :
        LET b == Head(queue[p])
            frame == FrameOf(acc, b)
        IN  /\ ReaderHas(p) /\ queue'[p] = Tail(queue[p]) /\ rdr'[p] = "get"
            /\ b.whole /\ b.index = NBlocks - 1 /\ ~Replaced
            => /\ published' = published + 1
               /\ \A i \in DOMAIN frame : frame[i].sample = b.sample]_vars

(* A call of start() or stop() returns, unless stdout.close() waits for a  *)
(* process that is silent for ever.                                        *)
CallsReturn ==
    \A c \in Callers :
        InCall(c) ~> (~InCall(c) \/ (pc = "close" /\ stat[proc] = "hung"))

(* What the WebSocket server is told of all this.                          *)
Run == IF proc = 0 THEN "off" ELSE IF Exited(proc) THEN "ended" ELSE "on"
Stray == \E p \in Procs : p # proc /\ rdr[p] = "get"

Like == INSTANCE DumperLike WITH run <- Run, stray <- Stray

(* A dumper is the DumperLike that the server is written for.              *)
ImplementsDumperLike == Like!DumperSpec
=============================================================================
