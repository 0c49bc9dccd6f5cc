----------------------------- MODULE DumperLike -----------------------------
(***************************************************************************)
(* What the WebSocket server relies on (class DumperLike in ws_server.py): *)
(* calls of start() and stop() are served one after the other, in the      *)
(* order in which they were made; a source of frames is on or off; and     *)
(* nothing is left of it when it is off.  No subprocess, pipe or thread.   *)
(***************************************************************************)
EXTENDS Integers, Sequences

CONSTANTS
    Callers,   \* the coroutines that may call the dumper
    Periods    \* the sampling periods that may be asked for

VARIABLES
    calls,      \* the calls that have not returned, the one served first
    run,        \* "off", "on", or "ended": it stopped of itself
    period,     \* what the last start() that succeeded asked for
    latest,     \* latest_frame by its number, 0 for None
    published,  \* how many frames there have been
    stray       \* frames of an earlier, ended source may still come

dumperVars == <<calls, run, period, latest, published, stray>>

DumperInit ==
    /\ calls = <<>>
    /\ run = "off"
    /\ period \in Periods
    /\ latest = 0 /\ published = 0
    /\ stray = FALSE

InCall(c) == \E i \in DOMAIN calls : calls[i].by = c

Request(c, op, ms) == [by |-> c, op |-> op, period |-> ms]

Call(c, op, ms) ==
    /\ ~InCall(c)
    /\ calls' = Append(calls, Request(c, op, ms))
    /\ UNCHANGED <<run, period, latest, published, stray>>

Serving(op) == calls # <<>> /\ Head(calls).op = op

(* stop(), and the first half of a start() that finds the source on.       *)
TurnOff ==
    /\ run # "off" /\ run' = "off"
    /\ latest' = 0
    /\ \/ Serving("stop") /\ calls' = Tail(calls)
       \/ Serving("start") /\ UNCHANGED calls
    /\ UNCHANGED <<period, published, stray>>

StaysOff ==
    /\ Serving("stop") /\ run = "off"
    /\ calls' = Tail(calls)
    /\ UNCHANGED <<run, period, latest, published, stray>>

(* A source that ended is replaced without waiting for its last frames.    *)
TurnOn ==
    /\ Serving("start") /\ run # "on"
    /\ run' = "on" /\ period' = Head(calls).period
    /\ stray' \in IF run = "ended" THEN BOOLEAN ELSE {stray}
    /\ calls' = Tail(calls)
    /\ UNCHANGED <<latest, published>>

SpawnFails ==
    /\ Serving("start") /\ run # "on"
    /\ calls' = Tail(calls)
    /\ UNCHANGED <<run, period, latest, published, stray>>

Ends ==
    /\ run = "on" /\ run' = "ended"
    /\ UNCHANGED <<calls, period, latest, published, stray>>

Drains ==
    /\ stray /\ stray' = FALSE
    /\ UNCHANGED <<calls, run, period, latest, published>>

Publish ==
    /\ run # "off" \/ stray
    /\ published' = published + 1
    /\ latest' = published'
    /\ UNCHANGED <<calls, run, period, stray>>

Serve == TurnOff \/ StaysOff \/ TurnOn \/ SpawnFails

DumperNext ==
    \/ \E c \in Callers, op \in {"start", "stop"}, ms \in Periods : Call(c, op, ms)
    \/ Serve
    \/ Ends
    \/ Drains
    \/ Publish

DumperSpec == DumperInit /\ [][DumperNext]_dumperVars

=============================================================================
