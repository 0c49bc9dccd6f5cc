------------------------------ MODULE KeyScan ------------------------------
(***************************************************************************)
(* The keypad driver (key.c): debouncing, the press edge and the repeated  *)
(* long press of each key, and key_scan(), which looks at the keys in      *)
(* order and returns with the first event, so that the keys behind it are  *)
(* not sampled in that scan.                                               *)
(*                                                                         *)
(* Only Key_Task calls the driver: a scan is one step.  The pins change at *)
(* any time between scans.                                                 *)
(***************************************************************************)
EXTENDS Integers, Sequences

CONSTANTS
    NKeys,               \* number of keys, 4 in the code
    KEY_DEBOUNCE_COUNT,  \* samples that make a level stable
    LONGPRESS_THRESHOLD  \* scans between two long-press events

ASSUME KeyAssumption ==
    /\ NKeys \in Nat \ {0}
    /\ KEY_DEBOUNCE_COUNT \in Nat \ {0}
    /\ LONGPRESS_THRESHOLD \in Nat \ {0}

Keys == 0 .. NKeys - 1

VARIABLES
    pin,       \* 1 where the key is down (key_read_pin)
    key,       \* the driver's counters and flags of each key
    event,     \* what key_scan() returned last
    samples,   \* ghost: the last KEY_DEBOUNCE_COUNT samples of each key
    held       \* ghost: samples since the last event of a key that is down

keyVars == <<pin, key, event, samples, held>>

NoEvent == [kind |-> "NONE", key |-> 0]
Short(i) == [kind |-> "SHORT", key |-> i]
Long(i) == [kind |-> "LONG", key |-> i]

(* The arrays of key.c, of one key.                                        *)
Idle == [state |-> 0, debounce |-> 0, last_press |-> 0, longpress |-> 0]

Init ==
    /\ pin = [i \in Keys |-> 0]
    /\ key = [i \in Keys |-> Idle]
    /\ event = NoEvent
    /\ samples = [i \in Keys |-> [n \in 1 .. KEY_DEBOUNCE_COUNT |-> 0]]
    /\ held = [i \in Keys |-> 0]

(***************************************************************************)
(* key_process_single()                                                    *)
(***************************************************************************)

(* Deviation: a sample of the old level does not restart the count.        *)
Debounced_KeepsCount(k, raw) ==
    IF raw = k.state THEN k
    ELSE IF k.debounce + 1 < KEY_DEBOUNCE_COUNT THEN [k EXCEPT !.debounce = @ + 1]
    ELSE [k EXCEPT !.state = raw, !.debounce = 0]

(* Deviation: the count goes one sample too far.                           *)
Debounced_OneMore(k, raw) ==
    IF raw = k.state THEN [k EXCEPT !.debounce = 0]
    ELSE IF k.debounce < KEY_DEBOUNCE_COUNT THEN [k EXCEPT !.debounce = @ + 1]
    ELSE [k EXCEPT !.state = raw, !.debounce = 0]

(* A level is taken over when it was sampled often enough in a row.        *)
Debounced(k, raw) ==
    IF raw = k.state THEN [k EXCEPT !.debounce = 0]
    ELSE IF k.debounce + 1 < KEY_DEBOUNCE_COUNT THEN [k EXCEPT !.debounce = @ + 1]
    ELSE [k EXCEPT !.state = raw, !.debounce = 0]

Edge(k) == k.state # k.last_press

(* Deviation: the counter of the long press is not restarted.              *)
Detected_NoRestart(k) ==
    CASE Edge(k) -> [k EXCEPT !.last_press = k.state, !.longpress = 0]
      [] ~Edge(k) /\ k.state = 0 -> k
      [] ~Edge(k) /\ k.state = 1 ->
           [k EXCEPT !.longpress = IF @ + 1 < LONGPRESS_THRESHOLD THEN @ + 1 ELSE @]

(* Deviation: the long press comes one scan late.                          *)
EventOf_Late(i, k) ==
    CASE Edge(k) /\ k.state = 1 -> Short(i)
      [] ~Edge(k) /\ k.state = 1 /\ k.longpress >= LONGPRESS_THRESHOLD -> Long(i)
      [] OTHER -> NoEvent

(* Press edge, release edge, and the counter of a key that is held.        *)
Detected(k) ==
    CASE Edge(k) -> [k EXCEPT !.last_press = k.state, !.longpress = 0]
      [] ~Edge(k) /\ k.state = 0 -> k
      [] ~Edge(k) /\ k.state = 1 ->
           [k EXCEPT !.longpress = IF @ + 1 < LONGPRESS_THRESHOLD THEN @ + 1 ELSE 0]

EventOf(i, k) ==
    CASE Edge(k) /\ k.state = 1 -> Short(i)
      [] ~Edge(k) /\ k.state = 1 /\ k.longpress + 1 >= LONGPRESS_THRESHOLD -> Long(i)
      [] OTHER -> NoEvent

(* The key and the event that key_process_single(i) leaves.                *)
After(i) == Detected(Debounced(key[i], pin[i]))
Raised(i) == EventOf(i, Debounced(key[i], pin[i]))

(***************************************************************************)
(* key_scan()                                                              *)
(***************************************************************************)

(* Deviation: every key is processed, and the first event is returned.     *)
Reached_All(i) == TRUE

(* key_scan() returns at the first event.                                  *)
Reached(i) == \A j \in Keys : j < i => Raised(j) = NoEvent

(* The count of samples of a key that is down starts anew.                 *)
Spent(i) == After(i).state = 0 \/ Raised(i) # NoEvent

key_scan ==
    /\ key' = [i \in Keys |-> IF Reached(i) THEN After(i) ELSE key[i]]
    /\ \/ event' = NoEvent /\ \A i \in Keys : Raised(i) = NoEvent
       \/ \E i \in Keys :
            /\ \A j \in Keys : j < i => Raised(j) = NoEvent
            /\ Raised(i) # NoEvent
            /\ event' = Raised(i)
    /\ samples' = [i \in Keys |-> IF Reached(i) THEN Append(Tail(samples[i]), pin[i])
                                                ELSE samples[i]]
    /\ held' = [i \in Keys |-> CASE ~Reached(i) -> held[i]
                                 [] Reached(i) /\ Spent(i) -> 0
                                 [] OTHER -> held[i] + 1]
    /\ UNCHANGED pin

(* A key goes down or up, or bounces.                                      *)
PinChanges ==
    /\ \E i \in Keys : pin' = [pin EXCEPT ![i] = 1 - @]
    /\ UNCHANGED <<key, event, samples, held>>

Next == key_scan \/ PinChanges

(* Key_Task scans again and again; the pins do what they like.             *)
Spec == Init /\ [][Next]_keyVars /\ WF_keyVars(key_scan)

-----------------------------------------------------------------------------
(***************************************************************************)
(* Properties                                                              *)
(***************************************************************************)

KeyRecords ==
    [state : 0 .. 1, debounce : 0 .. KEY_DEBOUNCE_COUNT - 1, last_press : 0 .. 1,
     longpress : 0 .. LONGPRESS_THRESHOLD - 1]

Events == {NoEvent} \cup {Short(i) : i \in Keys} \cup {Long(i) : i \in Keys}

(* The type invariant of the driver: its counters stay below the limits    *)
(* they are compared with, and between scans no edge waits to be seen.     *)
TypeOK ==
    /\ pin \in [Keys -> 0 .. 1]
    /\ key \in [Keys -> KeyRecords]
    /\ event \in Events
    /\ \A i \in Keys : ~Edge(key[i])

(* Debouncing: the driver's level of a key changes only when the last      *)
(* KEY_DEBOUNCE_COUNT samples of it are all the new level, also when scans *)
(* in between were cut short by the event of another key.                  *)
StableBeforeTaken ==
    [][\A i \in Keys : key'[i].state # key[i].state
         => \A n \in 1 .. KEY_DEBOUNCE_COUNT : samples'[i][n] = key'[i].state]_keyVars

(* No press is lost: in the scan in which a press is recognised its event  *)
(* is the one that is returned, whatever the other keys do.                *)
PressIsReported ==
    [][\A i \in Keys : key[i].state = 0 /\ key'[i].state = 1 => event' = Short(i)]_keyVars

(* A long press comes with the LONGPRESS_THRESHOLDth sample since the last *)
(* event of a key that is down: never before it and never after it.        *)
LongPressIsTimed ==
    [][\A i \in Keys : /\ held'[i] < LONGPRESS_THRESHOLD
                       /\ key' # key /\ event' = Long(i)
                            => held[i] + 1 = LONGPRESS_THRESHOLD]_keyVars

(* A key that stays down is reported again and again: the keys in front of *)
(* it cannot keep key_scan() from reaching it by being held or by bouncing.*)
HeldIsReported ==
    \A i \in Keys : <>[](pin[i] = 1) => []<>(event = Long(i))

=============================================================================
