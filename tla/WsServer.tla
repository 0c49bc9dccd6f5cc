------------------------------ MODULE WsServer ------------------------------
(***************************************************************************)
(* The server of the LCD viewer (ws_server.py, and _main() of server.py):  *)
(* the handlers of the connections, the broadcast loop, and the shutdown,  *)
(* all coroutines of one event loop, with a dumper as in DumperLike.       *)
(*                                                                         *)
(* A step is what a coroutine does between two awaits.  self._lock is the  *)
(* sequence of the clients that wait for it, its holder first.  A frame is *)
(* its number; hello, status and PNG messages change nothing here and are  *)
(* left out, and so are the messages pause, resume and save_png.           *)
(***************************************************************************)
EXTENDS DumperLike, FiniteSets

CONSTANTS
    Clients,     \* connections; one that has ended may be used again
    Main,        \* _main()
    Loops,       \* names for broadcast loops
    MaxFrames    \* bound: how many frames are published

ASSUME WsAssumption ==
    /\ Callers = Clients \cup {Main} /\ Main \notin Clients
    /\ 0 \notin Loops
    /\ MaxFrames \in Nat

VARIABLES
    at,          \* where the handler of a connection is
    gone,        \* the connections that their clients have left
    lock,        \* _lock
    clients,     \* _clients
    count,       \* _client_count
    period_ms,   \* _period_ms
    event,       \* _new_frame_event is set
    task,        \* _state_task: a loop, or 0 for None
    loop,        \* the broadcast loops, with their local variables: `last' is
                 \* last_sent_ts, `todo' the targets still to be sent the frame
    got,         \* the last frame that a client got
    phase,       \* where _main() is
    missing      \* the last start() did not find mklink

handlerVars == <<at, gone, lock, clients, count, period_ms>>
loopVars == <<event, task, loop, got>>
serverVars == <<handlerVars, loopVars, phase, missing>>
vars == <<dumperVars, serverVars>>

Done == [pc |-> "done", last |-> 0, todo |-> {}]
IsDone(l) == loop[l] = Done

Init ==
    /\ DumperInit
    /\ at = [c \in Clients |-> "out"] /\ gone = {} /\ lock = <<>>
    /\ clients = {} /\ count = 0 /\ period_ms = period
    /\ event = FALSE /\ task = 0
    /\ loop = [l \in Loops |-> Done]
    /\ got = [c \in Clients |-> 0]
    /\ phase = "serving" /\ missing = FALSE

-----------------------------------------------------------------------------
(* The handler of a connection (_ws_loop).                                 *)

Goes(c, from, to) == at[c] = from /\ at' = [at EXCEPT ![c] = to]
Waits(c) == lock' = Append(lock, c)
Holds(c) == lock # <<>> /\ Head(lock) = c
Releases == lock' = Tail(lock)

Connect(c) ==
    /\ phase = "serving"
    /\ Goes(c, "out", "registering") /\ Waits(c)
    /\ UNCHANGED <<dumperVars, gone, clients, count, period_ms, loopVars, phase, missing>>

(* _register_client(): the first client starts the dumper, and holds the   *)
(* lock until that is done.                                                *)
Register(c) ==
    /\ Holds(c)
    /\ clients' = clients \cup {c}
    /\ count' = count + 1
    /\ IF count = 0
       THEN /\ Goes(c, "registering", "starting")
            /\ Call(c, "start", period_ms) /\ UNCHANGED lock
       ELSE /\ Goes(c, "registering", "hello")
            /\ Releases /\ UNCHANGED dumperVars
    /\ UNCHANGED <<gone, period_ms, loopVars, phase, missing>>

(* start() has returned.  A loop is created when _state_task is done.      *)
(* Deviations: always; and only when there was none.                       *)
LoopIsDone_Always == TRUE
LoopIsDone_None == task = 0
LoopIsDone == task # 0 => IsDone(task)

Started(c) ==
    /\ Goes(c, "starting", "hello") /\ ~InCall(c)
    /\ Releases
    /\ IF LoopIsDone
       THEN /\ \E l \in Loops : IsDone(l)
            /\ task' = CHOOSE l \in Loops : IsDone(l)
            /\ loop' = [loop EXCEPT ![task'] = [Done EXCEPT !.pc = "wait"]]
       ELSE UNCHANGED <<task, loop>>
    /\ UNCHANGED <<dumperVars, gone, clients, count, period_ms, event, got, phase, missing>>

Hello(c) ==
    /\ c \notin gone
    /\ Goes(c, "hello", "serving")
    /\ UNCHANGED <<dumperVars, gone, lock, clients, count, period_ms, loopVars, phase, missing>>

(* set_period; then start() has returned.                                  *)
SetPeriod(c, ms) ==
    /\ Goes(c, "serving", "control")
    /\ period_ms' = ms
    /\ Call(c, "start", ms)
    /\ UNCHANGED <<gone, lock, clients, count, loopVars, phase, missing>>

Controlled(c) ==
    /\ Goes(c, "control", "serving") /\ ~InCall(c)
    /\ UNCHANGED <<dumperVars, gone, lock, clients, count, period_ms, loopVars, phase, missing>>

(* The client goes away.  Its handler finds out when it next sends or      *)
(* receives; a call of the dumper is not interrupted.                      *)
Disconnect(c) ==
    /\ at[c] # "out" /\ c \notin gone
    /\ gone' = gone \cup {c}
    /\ UNCHANGED <<dumperVars, at, lock, clients, count, period_ms, loopVars, phase, missing>>

ConnectionClosed(c) ==
    /\ c \in gone
    /\ Goes(c, "hello", "unregistering") \/ Goes(c, "serving", "unregistering")
    /\ Waits(c)
    /\ UNCHANGED <<dumperVars, gone, clients, count, period_ms, loopVars, phase, missing>>

(* The end of a handler.  Whoever connects by that name again is another   *)
(* connection: to send to this one raises.                                 *)
Left(c) ==
    /\ gone' = gone \ {c}
    /\ got' = [got EXCEPT ![c] = 0]
    /\ loop' = [l \in Loops |-> [loop[l] EXCEPT !.todo = @ \ {c}]]

(* _unregister_client().  Deviations: the last client is not noticed; the  *)
(* client stays in the set.                                                *)
Unregister_OffByOne(c) ==
    /\ Holds(c)
    /\ clients' = clients \ {c}
    /\ count' = count - 1
    /\ IF count <= 0
       THEN /\ Goes(c, "unregistering", "stopping")
            /\ Call(c, "stop", period_ms) /\ UNCHANGED <<lock, gone, got, loop>>
       ELSE /\ Goes(c, "unregistering", "out")
            /\ Releases /\ Left(c) /\ UNCHANGED dumperVars
    /\ UNCHANGED <<period_ms, event, task, phase, missing>>

Unregister_Keeps(c) ==
    /\ Holds(c)
    /\ count' = count - 1
    /\ IF count' <= 0
       THEN /\ Goes(c, "unregistering", "stopping")
            /\ Call(c, "stop", period_ms) /\ UNCHANGED <<lock, gone, got, loop>>
       ELSE /\ Goes(c, "unregistering", "out")
            /\ Releases /\ Left(c) /\ UNCHANGED dumperVars
    /\ UNCHANGED <<clients, period_ms, event, task, phase, missing>>

Unregister(c) ==
    /\ Holds(c)
    /\ clients' = clients \ {c}
    /\ count' = count - 1
    /\ IF count' <= 0
       THEN /\ Goes(c, "unregistering", "stopping")
            /\ Call(c, "stop", period_ms) /\ UNCHANGED <<lock, gone, got, loop>>
       ELSE /\ Goes(c, "unregistering", "out")
            /\ Releases /\ Left(c) /\ UNCHANGED dumperVars
    /\ UNCHANGED <<period_ms, event, task, phase, missing>>

(* stop() has returned; the broadcast loop is woken to see that nobody is  *)
(* left.  Deviation: it is not.                                            *)
Stopped_Quietly(c) ==
    /\ Goes(c, "stopping", "out") /\ ~InCall(c)
    /\ Releases /\ Left(c)
    /\ UNCHANGED <<dumperVars, clients, count, period_ms, event, task, phase, missing>>

Stopped(c) ==
    /\ Goes(c, "stopping", "out") /\ ~InCall(c)
    /\ event' = TRUE
    /\ Releases /\ Left(c)
    /\ UNCHANGED <<dumperVars, clients, count, period_ms, task, phase, missing>>

_handler(c) ==
    \/ Register(c) \/ Started(c) \/ Hello(c) \/ Controlled(c)
    \/ ConnectionClosed(c) \/ Unregister(c) \/ Stopped(c)

-----------------------------------------------------------------------------
(* The broadcast loop.                                                     *)

Becomes(l, pc) == loop' = [loop EXCEPT ![l].pc = pc]

(* The condition of the while.                                             *)
Again(l) == IF count > 0 THEN Becomes(l, "wait") ELSE loop' = [loop EXCEPT ![l] = Done]

(* The thread of the executor that waits for the event returns.            *)
Wake(l) ==
    /\ loop[l].pc = "wait" /\ event
    /\ Becomes(l, "woken")
    /\ UNCHANGED <<dumperVars, handlerVars, event, task, got, phase, missing>>

(* The event is cleared, then the frame is read.                           *)
Take(l) ==
    /\ loop[l].pc = "woken"
    /\ event' = FALSE
    /\ IF latest = 0 \/ latest = loop[l].last
       THEN Again(l)
       ELSE loop' = [loop EXCEPT ![l] = [pc |-> "send", last |-> latest, todo |-> clients]]
    /\ UNCHANGED <<dumperVars, handlerVars, task, got, phase, missing>>

(* send() raises for a client that has gone.                               *)
Send(l, c) ==
    /\ c \in loop[l].todo
    /\ loop' = [loop EXCEPT ![l].todo = @ \ {c}]
    /\ got' = IF c \in clients \ gone THEN [got EXCEPT ![c] = loop[l].last] ELSE got
    /\ UNCHANGED <<dumperVars, handlerVars, event, task, phase, missing>>

(* Deviation: the event is cleared once more.                              *)
SentAll_Clears(l) ==
    /\ loop[l].pc = "send" /\ loop[l].todo = {}
    /\ Again(l) /\ event' = FALSE
    /\ UNCHANGED <<dumperVars, handlerVars, task, got, phase, missing>>

SentAll(l) ==
    /\ loop[l].pc = "send" /\ loop[l].todo = {}
    /\ Again(l)
    /\ UNCHANGED <<dumperVars, handlerVars, event, task, got, phase, missing>>

_broadcast_loop(l) == Wake(l) \/ Take(l) \/ (\E c \in Clients : Send(l, c)) \/ SentAll(l)

-----------------------------------------------------------------------------
(* The dumper.  It calls _on_new_frame() after each frame.                 *)

PublishFrame ==
    /\ published < MaxFrames
    /\ Publish /\ event' = TRUE
    /\ UNCHANGED <<handlerVars, task, loop, got, phase, missing>>

ServeCall ==
    /\ \/ (TurnOff \/ StaysOff) /\ UNCHANGED missing
       \/ TurnOn /\ missing' = FALSE
       \/ SpawnFails /\ missing' = TRUE
    /\ UNCHANGED <<handlerVars, loopVars, phase>>

Source == (Ends \/ Drains) /\ UNCHANGED serverVars

-----------------------------------------------------------------------------
(* The shutdown: SIGINT, server.stop(), dumper.stop().  Closing the server *)
(* closes the connections and waits for their handlers.                    *)

Sigint ==
    /\ phase = "serving" /\ phase' = "closing"
    /\ gone' = {c \in Clients : at[c] # "out"}
    /\ UNCHANGED <<dumperVars, at, lock, clients, count, period_ms, loopVars, missing>>

(* Deviation: the handlers are not waited for.                             *)
Closed_NoWait ==
    /\ phase = "closing" /\ phase' = "closed"
    /\ event' = TRUE
    /\ UNCHANGED <<dumperVars, handlerVars, task, loop, got, missing>>

Closed ==
    /\ phase = "closing" /\ phase' = "closed"
    /\ \A c \in Clients : at[c] = "out"
    /\ event' = TRUE
    /\ UNCHANGED <<dumperVars, handlerVars, task, loop, got, missing>>

(* The loop has ended, or 2 s have passed and it is cancelled.             *)
LoopOver ==
    /\ phase = "closed" /\ phase' = "stopping"
    /\ loop' = [l \in Loops |-> IF l = task THEN Done ELSE loop[l]]
    /\ task' = 0
    /\ Call(Main, "stop", period)
    /\ UNCHANGED <<handlerVars, event, got, missing>>

Over ==
    /\ phase = "stopping" /\ phase' = "over" /\ ~InCall(Main)
    /\ UNCHANGED <<dumperVars, handlerVars, loopVars, missing>>

_main == Closed \/ LoopOver \/ Over

-----------------------------------------------------------------------------
Next ==
    \/ \E c \in Clients :
        \/ Connect(c) \/ Disconnect(c) \/ _handler(c)
        \/ \E ms \in Periods : SetPeriod(c, ms)
    \/ \E l \in Loops : _broadcast_loop(l)
    \/ ServeCall \/ PublishFrame \/ Source
    \/ Sigint \/ _main

(* The event loop schedules what is ready, the dumper serves its calls (no *)
(* process hangs, see Dumper), and a send ends: ping_timeout closes a      *)
(* connection that takes nothing.                                          *)
Spec ==
    /\ Init /\ [][Next]_vars
    /\ WF_vars(ServeCall)
    /\ \A c \in Clients : WF_vars(_handler(c))
    /\ WF_vars(\E l \in Loops : _broadcast_loop(l))

-----------------------------------------------------------------------------
(* Every client is counted once, and the handlers and the loops agree with *)
(* what the server knows of them.                                          *)
TypeOK ==
    /\ at \in [Clients -> {"out", "registering", "starting", "hello", "serving",
                            "control", "unregistering", "stopping"}]
    /\ count = Cardinality(clients)
    /\ clients = {c \in Clients :
                    at[c] \in {"starting", "hello", "serving", "control", "unregistering"}}
    /\ gone \subseteq {c \in Clients : at[c] # "out"}
    /\ \A c \in Clients :
        (at[c] \in {"registering", "starting", "unregistering", "stopping"})
            <=> (\E i \in DOMAIN lock : lock[i] = c)
    /\ run \in {"off", "on", "ended"} /\ stray \in BOOLEAN
    /\ period \in Periods /\ period_ms \in Periods
    /\ published \in 0 .. MaxFrames /\ latest \in {0, published}
    /\ event \in BOOLEAN /\ missing \in BOOLEAN
    /\ task \in Loops \cup {0}
    /\ loop \in [Loops -> [pc : {"done", "wait", "woken", "send"},
                            last : 0 .. published, todo : SUBSET Clients]]
    /\ got \in [Clients -> 0 .. published]
    /\ phase \in {"serving", "closing", "closed", "stopping", "over"}

(* No handler is in the middle of something.                               *)
Quiet == lock = <<>> /\ calls = <<>>

(* The probe is left alone when nobody watches: whatever the clients did,  *)
(* in whatever order their handlers were served, no process is left.       *)
OffWhenUnwatched == Quiet /\ clients = {} => run = "off"

(* Somebody who watches has a source, unless mklink was not found, and a   *)
(* broadcast loop, until the server is shut down; and there is one only.   *)
WatchedIsOn ==
    /\ Quiet /\ clients # {} => run # "off" \/ missing
    /\ Quiet /\ clients # {} => task # 0 /\ ~IsDone(task)
    /\ \A l \in Loops : l # task => IsDone(l)

(* The source runs with the period that was set last, by whomever.         *)
LastPeriodWins == calls = <<>> /\ run = "on" => period = period_ms

(* A client never gets an earlier frame after a later one, across restarts *)
(* of the source and of the loop.                                          *)
FramesInOrder ==
    [][\A c \in Clients : c \in clients /\ c \in clients' => got'[c] >= got[c]]_vars

(* When the server is down, nothing of it is left.                         *)
ShutdownLeavesNothing ==
    phase = "over" => run = "off" /\ clients = {} /\ \A l \in Loops : IsDone(l)

(* A frame that is signalled, and that the loop has not taken yet, gets to *)
(* every client, or a later one that takes its place does, unless the      *)
(* source is turned off.                                                   *)
Taken == task # 0 /\ loop[task].last = latest

LatestReaches ==
    \A c \in Clients :
        (event /\ latest # 0 /\ ~Taken /\ c \in clients)
            ~> (got[c] = latest \/ latest = 0 \/ c \notin clients \ gone)

(* The broadcast loop does not outlive the clients.                        *)
LoopEnds == clients = {} ~> ((\A l \in Loops : IsDone(l)) \/ clients # {})
=============================================================================
