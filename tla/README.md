# TLA+ models of the GD32F405RG HMI firmware and its PC side

The repository is a small operator panel: a GD32F405 controller with an
ST7586 LCD and four keys under FreeRTOS, plus **VTFP**, a command protocol that
runs over a header in the controller's RAM. A PC reads and writes that header
through a debug probe while the controller runs. The models here cover the
protocol from both ends, the ARM safety window, the keypad driver, the menu, the
tasks that share the menu cursor and the display mode, and the PC program that
shows the LCD in a browser (`tools/lcd_viewer`).

Run everything in this directory:

    tlc -workers 2 -config MCVtfpCore.cfg MCVtfpCore     # and the other MC*.cfg
    tlapm VtfpCore_proofs.tla                            # and the other *_proofs.tla

## 1. Inventory

| Component | Source | State | Operations | Interacts by |
|---|---|---|---|---|
| ARM state machine | `VTFP/vtfp-runtime/src/vtfp_arm.c`, `ports/vtfp_port_freertos.c` | flag, tick of the grant, ms counter | try_arm, disarm, is_armed, now_ms | called by the runtime |
| VTFP runtime | `vtfp_core.c`, `vtfp_dispatch.c`, `vtfp_checksum.c` | shared header, snapshot, dispatch table | init, poll | header in RAM, shared word by word with the probe |
| PC library | `VTFP/mklink-vtfp/src/mklink_vtfp/sdk.py` | sequence counter, local result | discover, query_*, arm, disarm, invoke | stores and loads through the probe |
| Probe, MCP server | `transport/bridge.py`, `mcp_server.py` | serial port | send_command, one tool per method | silent timeouts |
| Test bench | `vtfp-runtime/tests/test_vtfp_core.c` | mock RAM | mock_write_command, poll, read | same thread as the poll loop |
| Keypad driver | `APP/key.c` | debounce and long-press counters, level, edge flag per key | key_scan | polled by Key_Task every 10 ms |
| Menu navigator | `APP/menu.c` | cursor, last key | menu_navigate, menu_set_last_key | called by Key_Task **and** the VTFP task |
| Application menu | `User/main.c` 202-327 | item tree | link_*_menu, callbacks | data of the navigator |
| Display mode | `APP/lcd_test.c` | mode, index of the AUTO loop | LCD_SetDisplayMode, LCD_RefreshDisplay | written by two tasks, read and written by LCD_Task |
| User handlers | `generated/vtfp_user_dispatch.c` | - | KEY_PRESS, SET_DISPLAY_MODE, DUMP_FRAMEBUFFER, QUERY_STATE | run inside the poll |
| Viewer: dumper | `tools/lcd_viewer/dumper.py`, `frame.py` | `mklink` subprocess, its pipe, daemon thread, queue, reader coroutine, accumulator, state shown | start, stop, feed | called by the server, calls back on each frame |
| Viewer: server | `tools/lcd_viewer/ws_server.py`, `server.py` | clients, lock, period, event, broadcast loop | connect, set_period, disconnect, broadcast, shutdown | coroutines of one loop, an executor thread |
| LCD driver | `APP/lcd_st7586.c` | framebuffer | drawing, SPI | called by LCD_Task |

What is hard in this code: the header is shared **without any exclusion**, one
side of it over a lossy probe; the ARM window is judged on a wrapping counter,
lazily; three tasks share menu and display state without locks, and the most
important of them busy-waits; key_scan() skips keys in a scan; the viewer's
coroutines share a subprocess. What makes each part correct:

* ARM: a grant lasts its window of real time and admits one dangerous command.
* Runtime: the command is cleared on every path; only validated commands run; a
  PC that follows the protocol sees an atomic remote call.
* Library: its calls end, do not overwrite one another's commands, and a success
  means that the controller took the command.
* Keys: debounced levels, no lost press, long presses on time, no starvation.
* Menu and display: the cursor is always an item, the AUTO loop keeps its order,
  a selected mode is drawn, tasks get through.
* Dumper: at most one process, and none that stop() would not find; the state
  shown is true; a frame is made of blocks of one sample and a whole sample is
  shown; calls return.
* Server: the dumper runs iff a client is connected; one broadcast loop, frames
  in order, the latest one not lost; nothing is left after a shutdown.

`PROJECT.json` lists every component with its status, and under `hazards` each
of these dangers at its line with the properties that would catch it.

## 2. Modules

| Module | Models |
|---|---|
| `VtfpArm` | the flag, the wrapping counter, both clock builds |
| `VtfpProtocol` | command partition and result codes |
| `VtfpCore` | the VTFP task and the header, with the most general PC |
| `ArmGrant` | abstract: what ARM promises (time left, a command in progress) |
| `VtfpBench` | `VtfpCore` with the PC of the runtime's test program |
| `VtfpRpc` | abstract: an atomic call server with a real-time ARM window |
| `VtfpSdk` | `VtfpCore` with the PC library over the probe |
| `KeyScan` | the keypad driver |
| `Menu`, `HmiTree` | the navigator on a constant tree; the tree of `main.c` |
| `HmiTasks` | LCD_Task, Key_Task and the VTFP handlers on the shared state |
| `Frame` | the accumulator that joins blocks to frames |
| `Dumper` | start, stop, reader, daemon thread and the `mklink` process |
| `DumperLike` | abstract: calls served in order, a source that is on, off or ended |
| `WsServer` | the WebSocket server, composed with `DumperLike`, and the shutdown |
| `MC*` | constants for TLC |
| `*_proofs` | theorems and proofs |

**VtfpCore.** `hdr` is the part of the header under the checksum that ever
changes, one value per word; `checksum` holds the words it was computed over,
that is, the CRC-32 is taken as injective. A load or a store of one word is one
step. `pc` follows `vtfp_init()`, which is not atomic either: `init` (the stores of
lines 65-77 one by one, the checksum word cleared) and `seal` (the CRC reads the
shared words one after the other, and what it read is stored). A probe that
stores in between gets its word sealed by the controller, or has it overwritten.
Then `pc` follows `vtfp_poll()`: `copy` (memcpy word after word), `check` (the
tests and the dispatch, which look at the snapshot only and at no shared word),
`run` (a handler), `store`/`finish` (the stores of the answer in `todo`, in the
order of the code: rejections clear the command *before* they store the result,
handlers *after*). `Restart` can strike between any two steps. `HostStore` and
`HostSeal` are a PC that stores any word of a set at any time, and may seal the
header with the checksum of what it finds.

**VtfpBench and VtfpSdk** extend the same runtime with another PC and drop the
general one. The bench writes a sealed header between two polls and reads the
result when the poll has returned; `BenchTick` leaves no grant alone for a full
turn of the counter. The library performs one access at a time, from the start
of the controller on (`Eager`). Under `Lossy` the probe fails as
`send_command()` lets it fail: a store or a load is lost without an error, and a
reply that comes after its timeout is taken for that of the *next* access, whose
own reply is then `late` in turn (`InTime`, `Behind`, `NotInTime`). So a store can
be acknowledged by an old word, the result word be read as the command word, and
a text where a word is expected raises. Whatever the clock does not bound, the
deadline of a call may pass at any turn of its loop. A block read of the header
by the probe is one step. `abandoned`, `misled`, `served` and `early` are ghosts.

**VtfpRpc** is the abstract server of the bench. Where `SPEC.md` and the code
disagree about an answer it leaves the answer open, so that `ImplementsRpc` says
nothing about who is right: an ARM with a wrong key while a grant is open
(`SPEC.md` 146; a finding), QUERY_STATE (86), RESET and HEARTBEAT (87-88), and a
dangerous command after its window (148). What is promised in these cases too is
that the call returns, that no user handler runs and that no grant opens.

**KeyScan.** One step is one `key_scan()`; only Key_Task calls it. `Reached`
is the early return: keys behind the first event are left alone in that scan.
`samples` and `held` are ghosts.

**HmiTasks.** Key_Task and the VTFP task have priority 2 and time slicing, so
their loads and stores of shared variables interleave. LCD_Task has priority 3
and busy-waits while it draws: a lower task takes a step only while `lcd` is
"delayed", and a whole `LCD_RefreshDisplay()` is one step. `VtfpCore` says when
handlers run; here they may run at any time.

**Frame and Dumper.** Coroutines of one event loop switch only at an `await`;
the daemon thread, the process and its pipe run all the time, except that
`stdout.close()` and `Popen()` are called on the event loop itself and hold it
(`LoopRuns`). `calls` are the coroutines that wait for the `asyncio.Lock`, which
is fair; `pc` is where the first of them is: `close` (in `stdout.close()`),
`wait` and `wait2` (the two `wait(2.0)`), `spawn` (at `Popen()` after a stop).
`close()` returns only when the thread is not inside a read, as the lock of
CPython's buffered file has it. A process prints blocks or status lines, loses
blocks (a line that does not parse), ends with or without an error, breaks on
the closed pipe, or hangs: it stays alive and silent. The end of its pipe can
be read before its exit code is there. A block carries its sample and process
for the properties only; `feed` looks at `block_index` and `block_count`, as
the code does.

**WsServer** does not know pipes and threads: its dumper is `DumperLike`, named
after the protocol class of `ws_server.py`, and `Dumper` implements it
(`ImplementsDumperLike`, run and theorem), so what holds of the server with
*any* `DumperLike` holds with this dumper. Both have an order of calls and one
of frames in common; `Callers` are the handlers and `_main()`. A step of the
server is what a coroutine does from one `await` to the next; `lock` is the
queue of its `asyncio.Lock`. The wait for the event in an executor thread and
what follows in the loop are two steps (`Wake`, `Take`), and each send is one.
A handler notices that its client is gone only where it sends or receives.

`map` in `PROJECT.json` gives the source lines of every definition. Operators
marked *Deviation* in the modules are plausible mistakes in the definition that
follows them; no specification uses them.

## 3. What each run checks

| Run | Bounds | Result |
|---|---|---|
| `core` | counter of 3 values, window 2 ms, a flag may stand for 3 ms, a full turn; a dangerous command, a standard one, an unknown one, ARM, DISARM, right and wrong key; restarts | passes |
| `core_calls` | as `core`, fallback clock | **AdmittedInWindow fails** |
| `bench` | counter of 5, window 3, age below 5; commands of every part of the partition, right and wrong key, handlers that succeed or fail | passes |
| `bench_wrongkey` | as `bench` | **WrongKeyRefused fails** |
| `sdk` | two transactions in all, any number of agents, one or no turn of the polling loop before the deadline, a probe that loses accesses and answers late, calls from the start of the controller, fallback clock (as built), counter of 2 values, window 1 | passes |
| `sdk_corrupt` | as `sdk`, nothing lost or late, calls after `vtfp_init()` | **HealthyIsNotCorrupt fails** |
| `sdk_unserved` | as `sdk_corrupt` | **SuccessIsExecuted fails** |
| `keyscan` | three keys, debounce 2, long press 4 | passes |
| `hmi` | five items in two lists, three pictures, events UP, ENTER and ESC_LONG, parameters 2 and 256 | passes |
| `menu_downwraps` | the menu of `main.c`, all short events | **DownWraps fails** |
| `dumper` | two callers, two processes, two samples of two blocks | passes |
| `viewer` | two clients, two broadcast loops, two frames | passes |

*Why the bounds are enough.* With a counter of 3 values and flags that stand for
up to 3 ms, a grant is opened at every position relative to the wrap, expires
before anyone looks, is looked at after the counter wrapped, and after a full
turn of it. Three keys give one
that has two in front of it; debounce 2 and threshold 4 make the limits
reachable while an event of another key cuts a scan short. Two transactions are
what a call with ARM needs, and what an abandoned command or a late reply needs
to meet a second call, of the same agent or of a new one. `late` holds one
reply, because an access waits for one line and the next one starts after that. Three
pictures tell "next", "first" and "skipped" apart. Two processes and two samples
are what a restart needs to leave blocks, a reader or an exit code of the first
behind for the second, and two callers put a start behind a stop. Two clients
are one that leaves while another comes; two loops are an old one and its
successor; two frames are one being sent and one that comes meanwhile. Both
runs have one period: that the last one asked for wins is proved, for all.
The counters `spawned`, `samples` and `published` have bounds, so these runs
stop and do not check for deadlock; what must go on is in their liveness
properties.

*Properties.* `AdmittedInWindow`: no dangerous command is admitted outside the
real-time window of its grant, *up to full turns of the counter*. Nothing clears
an idle flag, so one that has stood for a full turn (2^32 ms, 49.7 days) passes
the test of `vtfp_arm.c` 51-52 again; the formula says `age % ClockMod` for that
reason, and `core` gets there: with `age < Timeout` in its place TLC finds the
violation. `ImplementsArmGrant`: one window and one command under each grant that
is used within a turn. `CallsReturn`: no path of the poll forgets the command;
`CommandIsCleared`: also when only some words of it arrived or its sender gave
up. `ImplementsRpc`: the bench sees an atomic server. `OnlyEarlyIsAccepted`: a
command of the library is accepted only if it was stored while `vtfp_init()` was
at work (see finding 3). `OverwritesOnlyAbandoned`: a command that waits is
overwritten only when the library has given up on it, or took a late reply for
its acknowledgement. `CallsEnd`: and its calls end.
`StableBeforeTaken`, `PressIsReported`,
`LongPressIsTimed`, `HeldIsReported`: the keypad in spite of cut scans.
`AutoInOrder`, `ModeIsShown`, `TasksReturn`: the display under preemption.
`NoOrphan`, `StateIsTrue`: no restart or stop leaves a `mklink` behind that
holds the probe, and the clients are told the truth about it. `FrameIsOneSample`
names exactly when a frame *can* mix samples: the block 0 of the later one was
lost, or two readers feed. `WholeSampleIsShown`: and then the next whole sample
is still shown. `CallsReturn` of the dumper has its one exception in the
formula: `stdout.close()` on a process that hangs. `OffWhenUnwatched`,
`WatchedIsOn`, `ShutdownLeavesNothing`: whatever the order in which handlers
got the lock and their calls were served. `FramesInOrder`, `LatestReaches`,
`LoopEnds`: the broadcast loop across restarts of the source and itself.

### Findings

1. **The ARM window does not close in the Keil build** (`core_calls`). The port
   tests `FREERTOS_CONFIG_H` before including a FreeRTOS header, the project
   preincludes only `vtfp_compat.h`, and so the fallback clock, which counts
   calls, is compiled. Nothing ages between two calls.
2. **A wrong key can be answered OK** (`bench_wrongkey`): the answer depends on
   the flag, not on the key. The grant itself is not opened or prolonged
   (`ImplementsRpc` holds).
3. **The library reports success for commands that were rejected**
   (`sdk_unserved`). It changes covered words and never writes the checksum, so
   the controller answers UNKNOWN_CMD and clears the command; yet a call can end
   as OK. The OK is the one that `vtfp_init()` stored: the library reads the
   result word first, then the command word, and the whole poll falls between
   the two loads. The order of the controller's own stores plays no part in it.
   `sdk.py` 363 says that the store "triggers MCU processing".
   Theorem `OnlySealedAtInitIsServed` says how general the rejection is: no
   command of the library is ever accepted, whatever is called, lost, late or
   restarted, *unless* since the last reset one was stored between line 68 of
   `vtfp_core.c` and the end of the CRC in line 78: the controller seals that one
   itself.
4. **A second discover() finds a "corrupt" header** (`sdk_corrupt`), for the
   same reason.
5. **DOWN does not wrap** (`menu_downwraps`).

Seen on the way, without a run of their own: QUERY_STATE (0x11) and the
handlers 0x03 and 0x04 test a response length that is always 0 and always
answer BUF_OVERFLOW, where `SPEC.md` 86 has a state of 8 bytes; an expired window
is answered NOT_ARMED, and the ARM_EXPIRED of `SPEC.md` 148 (and `sdk.py` 286) is
never used; RESET and HEARTBEAT are answered UNKNOWN_CMD, against `SPEC.md` 87-88
and `vtfp_command.h` 27-30 (`VtfpRpc` leaves these answers open); an idle ARMED
flag counts as fresh again after 49.7 days; a store that falls into `vtfp_init()`
is sealed with the header; a late reply of the probe is taken for the reply of
the next access; the answer 0xFF is
also the library's "no answer yet", so an UNKNOWN_CMD ends in a timeout; the
library's default header address is not that of `vtfp.yaml`, and nothing passes
the address of the file to it (the models assume the right address);
`menu_index_of()` (`menu.c` 198-211) counts an item of the root list, which has
no parent, from itself, so its cursor index is always 0, while
`vtfp_user_dispatch.c:83` calls it the position in the list.

Seen in the viewer:

* `dumper.py` 134-136: `stdout.close()` on the event loop waits for the lock that
  the reading thread holds; with a `mklink` that is alive and silent the whole
  server stands still. The comment expects the close to unblock the reader. This
  is the exception in `CallsReturn`; there is no `terminate()` before it.
* A process that breaks on the closed pipe, or is killed, ends with a code other
  than 0, so a normal stop can show ERROR. An end with code 0 leaves the state
  RUNNING.
* `start()` on a process that has exited leaves its reader at work, next to its
  successor's and on the same accumulator (`Replaced`).
* `frame.py` 11-12 and 84-85: `crc_ok` is stored and never read, and a frame of
  two samples can pass when the last block of one and the first of the next are
  lost (`FrameIsOneSample` says when).
* `ws_server.py` 265: "we never lose a frame" holds for the latest frame
  (`LatestReaches`), not for those in between; line 288, "Runs in dumper thread":
  it runs in the event loop. A second client of a source that has ended gets no
  frame until a new one comes.
* hello and status messages are JSON sent as bytes, so the page takes them for
  binary messages and does not read them.

## 4. Fairness

* `core`: none; it checks safety. Nothing is ever promised about a general PC,
  restarts or time.
* `bench`: weak fairness of the poll and of reading a result: the test program
  calls both in turn.
* `sdk`: weak fairness of the library's own steps (it is sequential code with a
  deadline) and of the VTFP task, which the scheduler runs every 20 ms.
* `keyscan`: weak fairness of the scan.
* `hmi`: weak fairness of LCD_Task waking and drawing; strong fairness of each
  lower task, because LCD_Task disables and enables them again and again and
  in each of its 100 ms sleeps a ready task is scheduled. Nothing forces keys
  or commands to come.
* `dumper`: weak fairness of the call that holds the lock (its waits have a
  timeout), of the threads, and of processes together, which print or exit
  unless they hang; strong fairness of `close()`, because the thread takes and
  gives back the lock it needs with every line. Nothing is assumed of the reader
  coroutine, and no process has to end.
* `viewer`: weak fairness of each handler, of the broadcast loop and of the
  dumper's service of a call. The last needs a process that does not hang (see
  `CallsReturn`); a send ends because the server closes a connection after
  20 s without a pong. Nobody has to connect, to leave or to print a frame.

## 5. Proofs

| Theorem | Says | Assumes |
|---|---|---|
| `TypeCorrect` | `Spec => []TypeOK` of the runtime | the constants' assumptions |
| `ArmInvariant` | `Spec => []ArmInv` | tick clock |
| `AdmissionNeedsGrant` | `Spec => AdmittedInWindow` | tick clock |
| `GrantsRefined` | `Spec => ImplementsArmGrant` | tick clock |
| `BenchIsRpc` | `BenchSpec => ImplementsRpc` | tick clock |
| `OnlySealedAtInitIsServed` | `SdkSpec => []OnlyEarlyIsAccepted` | none further |
| `OnlyAbandonedIsOverwritten` | `SdkSpec => OverwritesOnlyAbandoned` | none further |
| `LoopIsInOrder` | `Spec => AutoInOrder` of the HMI | none further |
| `HmiTypes` | `Spec => []TypeOK` of the HMI | `ListsEnd`: every list of the menu has an end |
| `KeyTypes`, `NoPressIsLost` | `[]TypeOK`, `PressIsReported` of the driver | none further |
| `LevelIsStable`, `LongPressOnTime` | `StableBeforeTaken`, `LongPressIsTimed` of the driver | none further |
| `OneProcess`, `ReportsTheTruth` | `[]NoOrphan`, `[]StateIsTrue` of the dumper | none further |
| `DumperIsDumperLike` | `Spec => ImplementsDumperLike` of the dumper | none further |
| `FramesShowOneSample`, `WholeSamplesAreShown` | `[]FrameIsOneSample`, `WholeSampleIsShown` of the dumper | none further |
| `DumperIsWellTyped` | `Spec => []TypeOK` of the dumper | none further |
| `UnwatchedIsOff`, `PeriodIsTheLast` | `[]OffWhenUnwatched`, `[]LastPeriodWins` of the server | none further |
| `ShutdownIsComplete` | `[]ShutdownLeavesNothing` of the server | none further |
| `WatchedHasSource` | `[]WatchedIsOn` of the server | none further |
| `FramesComeInOrder` | `Spec => FramesInOrder` of the server | none further |
| `ServerIsConsistent` | `Spec => []TypeOK` of the server | none further |

"None further": besides the named assumptions on the constants, which TLC
evaluates in the runs. Those of the server ask that the bound `MaxFrames` is a
number.

*ARM.* Admission is decided on a difference of wrapped counters, the property
speaks of real time, so the inductive invariant `ArmInv` ties them:
`ClockAgreesWithAge` says that while the flag is ARMED the 32-bit difference is
the age up to full turns, `age % ClockMod`. The lemmas above it are about that
remainder: it is unique (`RestIsUnique`), it is the age itself within a turn
(`RestOfLessThanATurn`), and a tick moves it as it moves the counter
(`RestAdvances`). Nothing is assumed about how long the flag stands: `MaxAge` may
be any number. `AdmissionNeedsGrant` therefore has the limit of the code in its
statement, and `GrantsRefined` hides a command that runs on a flag older than a
turn (`Busy`), which `ArmGrant` knows no grant for.
`AdmittedWasValid` is what the refinement needs at the end of a poll, where the
grant is spent only if the snapshot still names the admitted command.
`GrantsRefined` maps each step to a step of `ArmGrant` or a stutter: a late
look at an expired flag and a tick after the window are stutters.

*Library.* `OnlyEarlyIsAccepted` is not inductive; `SealedIsIdle` is: unless a
command was stored early, what the controller sealed holds no command, nor does
what its CRC has read of the command word, and a snapshot that verifies equals
what was sealed. `TodoInv` says that the controller stores nothing but 0 to the
command word.

*AUTO loop.* `LoopInv`: the index is 0 or one more than the picture shown last,
which every store of 0 keeps, from whatever task and between whatever steps.

*Keypad.* `TypeOK` includes that no edge is pending between scans;
`NoPressIsLost` rests on it: a level that changes in a scan is an edge in that
scan, and a key whose scan was cut short does not change its level.

`StableBeforeTaken` speaks of the samples, the code of a counter: `CountInv`
says that a count of n different samples in a row is what the last n samples
were. `HeldInv` ties the long-press counter to the scans since the press or the
last event in the same way.

*Bench.* `BenchInv` follows one call from the header through the snapshot to the
answer: `StageInv` (where the call is when `pc` is where it is), `SentInv` (the
header is what was sent until it is answered), `SnapInv` (the words copied so
far, and after that the snapshot, are the request), `AnswerInv` (what `todo`
will store is the reply of the abstract server). The refinement maps the words
not yet stored through `Final`, so that an answer counts as given when it is
decided and its stores are stutters, as those of `vtfp_init()` are
(`InitStoresOnce`). `YoungInv` is what `BenchTick` gives: no flag stands for a full
turn, so `ClockAgreesWithAge` turns the test of the window into one of real time
here too.

*Overwriting.* `CommandInv`: a command that is in the header while no call polls
for its answer belongs to a call that was given up or misled; and whatever the
controller has still to store, it only clears the command (`ControllerClears`).

*HMI types.* `LocalsInv`: what a task carries from its load to its store is an
item and a key event, so its target is an item too. `ListsEnd` is an assumption
because that a list ends is a property of the tree, by induction over it; TLC
evaluates it on the tree of `main.c` and on that of `hmi`.

*Dumper.* `IInv`: `CallsOK` (where `pc` can be for the call in front),
`ReadersOK` (a reader belongs to a process that was spawned), `ProcsOK` (a
process that is alive is `_proc`) and `StateIsTrue` itself. `AtPopen` is where
it matters: a start gets there only with no process or with one that has
exited. The refinement maps close, wait and kill to stutters, and `Stopped` to
`TurnOff`.

*Frames.* `FrameIsOneSample` speaks of the one block that completes a frame, so
its invariant has to follow a block all the way (`FrameInv`). `QueuesOK`: a queue
has blocks of its own process, of samples that have begun. `ChainInv` relates
every block of a queue to the line behind it, or to the one still to be printed:
if block 0 of the later one got through, it is in front of it with the same
sample, and if all did, nothing is missing in between. `AccInv` says what the
accumulator has of the sample that a reader is in: only its own blocks, or those
of the reader of a replaced process (`Prepared`); and exactly the blocks before
the next one when all came. Feeding the head of the queue hands `Prepared` on to
the line behind it by `ChainInv`. `PipesOK` connects a second reader with
`Replaced`, which never becomes false again. `TypeOK` bounds `published` by
`samples`: no count of that kind is inductive, so `DueInv` counts the samples that
can no longer be shown (`Past`). A sample is due while its last block is queued
or still to come, at one place only, and every frame makes its sample past.

*Server.* Neither "no client" nor "no process" is inductive while calls wait.
`EndsOff` says what the waiting calls *will* leave: without clients the last of
them is a stop, or there is none and the source is off. It is kept because a
call of `set_period` is made by a client that is still counted, so it is in
front of the stop of whoever leaves last. `EndsInPeriod` does the same for the
period. `DownInv`: from the close of the server on, no handler and no call but
that of `_main()` is left.

The other side, `WatchedIsOn`, needs the lock: `LockInv` says that a handler is in
the queue of the lock once and exactly while it waits for it or holds it, and
that only the holder can have a start or a last stop under way. So no stop of a
handler that left comes behind the start of one that came (`SourceInv`, with
`EndsOn` for what the waiting calls will leave), and the loop is started by the
holder alone (`LoopInv`: a loop that counts as running is the only one, and
clients without one are clients whose start is not over). `FramesInOrder` adds
`FramesOK` and `GotInv`: no client has a frame that the loop of now has not
taken, so the next send cannot go back; a connection that is not registered yet
has got nothing.

A proof corrected one property. `FrameIsOneSample` once compared any two blocks
of a frame: that is true with the two blocks of `dumper` and false with three,
where two blocks that the reader of a replaced process feeds can be of different
samples. It now compares each block with the one that completes the frame.
TLC has checked it, with all parts of the inductive invariant, also for three
samples of three blocks and one caller (7 million states; too long for a run of
the project).

Only model-checked: the liveness properties (`CommandIsCleared`, the two
`CallsReturn`, `CallsEnd`, `HeldIsReported`, `ModeIsShown`, `TasksReturn`,
`LatestReaches`, `LoopEnds`), which are out of the prover's reach. Every other
property of a passing run is a theorem.

## 6. Not modelled

Bytes of the data segment, CRC arithmetic (injective), features, flags and
addresses of the header (constant after init), the exception classes of the
library, payloads of invoke(), the backlight pin, pixels and SPI, System_Task
and logging, real time in the HMI. Of the viewer: static HTTP files, the texts
of hello and status, save_png, payloads of blocks and their length, errors of
`Popen()` other than a missing file, the delay of a send to a slow client.

The HMI run has the lost update of the menu cursor by two tasks in it
(`LoadCursor`, `StoreCursor`); nothing in the repository claims that navigation
events are never lost, so no property does.

Vendored code (FreeRTOS, CMSIS, the GD32 peripheral library, SEGGER RTT), other
ports, samples and code generators are left out, and they are nearly all of the
repository by lines: the program's own logic is a few thousand lines of about
four hundred thousand. The models use FreeRTOS only by its scheduling rules
(priorities, time slicing, delays); to model its kernel would be a project about
another program. The share of all lines that the map covers is small for that
reason.

## 7. What is left

1. The QUERY_STATE and DUMP_FRAMEBUFFER handlers with their always-failing test
   of the length, composed with the runtime; `menu_get_cursor_index()`.
2. Drawing times against the ARM window and the key scan, composing `VtfpArm`
   with `HmiTasks`.
3. Delays of sends in `WsServer`, for the hold of one slow client on the others.
4. Proofs: theorems about the navigator on any menu (`Menu`), and what the
   dumper's readers show after a replacement.
