------------------------------ MODULE HmiTasks ------------------------------
(***************************************************************************)
(* The tasks of the application (main.c) and what they share: the cursor   *)
(* of the menu (menu.c) and the display mode (lcd_test.c).                 *)
(*                                                                         *)
(* Key_Task and the VTFP task have the same priority and take turns at any *)
(* tick, so each load and each store of a shared variable is a step.       *)
(* LCD_Task has a higher one: it interrupts them anywhere, and draws with  *)
(* busy waiting, so that they do not run until it sleeps again.            *)
(*                                                                         *)
(* The VTFP task runs the handlers of vtfp_user_dispatch.c; VtfpCore says  *)
(* when.  Neither the backlight pin nor the picture is modelled: `screen'  *)
(* names the test picture that was drawn last.                             *)
(***************************************************************************)
EXTENDS Menu, Integers, Sequences

CONSTANTS
    Screens,   \* the pictures of the AUTO loop, in order
    Pressed,   \* the events that key_get_event() returns
    Params     \* the parameters that VTFP commands carry

Modes == {"AUTO"} \cup {Screens[n] : n \in DOMAIN Screens}

(* The enumerations key_event_t and display_mode_t.                        *)
ShortKey == <<"UP", "DOWN", "ENTER", "ESC">>
ModeOf(n) == IF n = 0 THEN "AUTO" ELSE Screens[n]

ASSUME HmiAssumption ==
    /\ Screens \in Seq(STRING) \ {<<>>}
    /\ "AUTO" \notin {Screens[n] : n \in DOMAIN Screens}
    /\ Pressed \subseteq KeyEvents
    /\ Params \subseteq Nat

Tasks == {"Key", "VTFP"}

VARIABLES
    current,      \* g_navigator.current
    last_key,     \* g_last_key
    display_mode, \* g_display_mode
    auto_index,   \* g_display_auto_index
    lcd,          \* LCD_Task: "ready" (it runs) or "delayed"
    at,           \* where each of the two other tasks is
    event,        \* their local `event'
    cur,          \* their local `cur'
    action,       \* the callback they are in, or the mode they set
    screen,       \* the picture on the LCD
    shown         \* ghost: the index of the last picture of the AUTO loop

sharedVars == <<current, last_key, display_mode, auto_index>>
lcdVars == <<lcd, screen, shown>>
hmiVars == <<sharedVars, lcdVars, at, event, cur, action>>

Init ==
    /\ current = NULL
    /\ last_key = "NONE"
    /\ display_mode = "AUTO"
    /\ auto_index = 0
    /\ lcd = "ready"
    /\ at = [t \in Tasks |-> IF t = "Key" THEN "init" ELSE "idle"]
    /\ event = [t \in Tasks |-> "NONE"]
    /\ cur = [t \in Tasks |-> NULL]
    /\ action = [t \in Tasks |-> NULL]
    /\ screen = "AUTO"
    /\ shown = Len(Screens) - 1

(***************************************************************************)
(* Key_Task and the VTFP task                                              *)
(***************************************************************************)

(* A lower task runs only while LCD_Task is delayed.                       *)
Runs(t, from, to) ==
    /\ lcd = "delayed"
    /\ at[t] = from
    /\ at' = [at EXCEPT ![t] = to]
    /\ UNCHANGED lcdVars

(* The end of an activation: the locals of the task are gone.              *)
Done(t) ==
    /\ event' = [event EXCEPT ![t] = "NONE"]
    /\ cur' = [cur EXCEPT ![t] = NULL]
    /\ action' = [action EXCEPT ![t] = NULL]

(* Key_Task links the menu and calls menu_init() before its loop.          *)
menu_init ==
    /\ Runs("Key", "init", "idle")
    /\ current' = menu_root
    /\ UNCHANGED <<last_key, display_mode, auto_index, event, cur, action>>

Navigates(t, e) ==
    /\ Runs(t, "idle", "note")
    /\ event' = [event EXCEPT ![t] = e]
    /\ UNCHANGED <<sharedVars, cur, action>>

Key_Task == \E e \in Pressed : Navigates("Key", e)

(* my_key_press_handler(): the low byte of the parameter is a short key    *)
(* event, and anything else is refused before it changes anything.         *)
my_key_press_handler ==
    \E p \in Params :
      LET k == p % 256 IN
      k \in DOMAIN ShortKey /\ Navigates("VTFP", ShortKey[k])

(* my_set_display_mode_handler(): the low byte is a mode or is refused.    *)
my_set_display_mode_handler ==
    /\ Runs("VTFP", "idle", "call")
    /\ \E p \in Params :
         LET m == p % 256 IN
         m < Len(Screens) + 1 /\ action' = [action EXCEPT !["VTFP"] = ModeOf(m)]
    /\ UNCHANGED <<sharedVars, event, cur>>

(* menu_set_last_key() precedes menu_navigate() in both tasks.             *)
menu_set_last_key(t) ==
    /\ Runs(t, "note", "load")
    /\ last_key' = event[t]
    /\ UNCHANGED <<current, display_mode, auto_index, event, cur, action>>

(* menu_navigate(): the load of the cursor, ...                            *)
LoadCursor(t) ==
    /\ Runs(t, "load", "navigate")
    /\ current # NULL
    /\ cur' = [cur EXCEPT ![t] = current]
    /\ UNCHANGED <<sharedVars, event, action>>

NoMenuYet(t) ==
    /\ Runs(t, "load", "idle")
    /\ current = NULL
    /\ Done(t)
    /\ UNCHANGED sharedVars

(* ... the store of the new cursor, or the callback, or nothing.           *)
Target(t) == menu_navigate(cur[t], event[t])

StoreCursor(t) ==
    /\ Runs(t, "navigate", "idle")
    /\ Target(t) # NULL
    /\ current' = Target(t)
    /\ Done(t)
    /\ UNCHANGED <<last_key, display_mode, auto_index>>

CallsBack(t) ==
    /\ Runs(t, "navigate", "call")
    /\ Target(t) = NULL /\ Confirms(cur[t], event[t]) # NULL
    /\ action' = [action EXCEPT ![t] = Confirms(cur[t], event[t])]
    /\ UNCHANGED <<sharedVars, event, cur>>

NothingToDo(t) ==
    /\ Runs(t, "navigate", "idle")
    /\ Target(t) = NULL /\ Confirms(cur[t], event[t]) = NULL
    /\ Done(t)
    /\ UNCHANGED sharedVars

(* A callback that switches the backlight or writes to the log.            *)
OtherCallback(t) ==
    /\ Runs(t, "call", "idle")
    /\ action[t] \notin Modes
    /\ Done(t)
    /\ UNCHANGED sharedVars

(* LCD_SetDisplayMode(): the mode, and then the index.                     *)
StoreMode(t) ==
    /\ Runs(t, "call", "index")
    /\ action[t] \in Modes
    /\ display_mode' = action[t]
    /\ UNCHANGED <<current, last_key, auto_index, event, cur, action>>

StoreIndex(t) ==
    /\ Runs(t, "index", "idle")
    /\ auto_index' = 0
    /\ Done(t)
    /\ UNCHANGED <<current, last_key, display_mode>>

Works(t) ==
    \/ t = "Key" /\ menu_init
    \/ menu_set_last_key(t)
    \/ LoadCursor(t)
    \/ NoMenuYet(t)
    \/ StoreCursor(t)
    \/ CallsBack(t)
    \/ NothingToDo(t)
    \/ OtherCallback(t)
    \/ StoreMode(t)
    \/ StoreIndex(t)

(***************************************************************************)
(* LCD_Task                                                                *)
(***************************************************************************)

(* Its 100 ms are over: it takes the processor.                            *)
LcdWakes ==
    /\ lcd = "delayed"
    /\ lcd' = "ready"
    /\ UNCHANGED <<sharedVars, screen, shown, at, event, cur, action>>

(* Deviation: the loop of LCD_Task has no delay.                           *)
Sleeps_Never == lcd = "ready" /\ lcd' = "ready"

Sleeps == lcd = "ready" /\ lcd' = "delayed"

(* Deviations: the picture is not flushed to the LCD; the index moves in   *)
(* every mode.                                                             *)
DrawMode_NoFlush ==
    /\ Sleeps
    /\ display_mode # "AUTO"
    /\ UNCHANGED <<sharedVars, screen, shown, at, event, cur, action>>

DrawMode_Advances ==
    /\ Sleeps
    /\ display_mode # "AUTO"
    /\ screen' = display_mode
    /\ auto_index' = (auto_index + 1) % Len(Screens)
    /\ UNCHANGED <<current, last_key, display_mode, shown, at, event, cur, action>>

(* LCD_RefreshDisplay().  No lower task runs between its load of the mode  *)
(* and its store of the index, long as the drawing takes.                  *)
DrawMode ==
    /\ Sleeps
    /\ display_mode # "AUTO"
    /\ screen' = display_mode
    /\ UNCHANGED <<sharedVars, shown, at, event, cur, action>>

(* Deviation: the index does not wrap.                                     *)
DrawAuto_NoWrap ==
    /\ Sleeps
    /\ display_mode = "AUTO"
    /\ screen' = Screens[auto_index + 1]
    /\ shown' = auto_index
    /\ auto_index' = auto_index + 1
    /\ UNCHANGED <<current, last_key, display_mode, at, event, cur, action>>

DrawAuto ==
    /\ Sleeps
    /\ display_mode = "AUTO"
    /\ screen' = Screens[auto_index + 1]
    /\ shown' = auto_index
    /\ auto_index' = (auto_index + 1) % Len(Screens)
    /\ UNCHANGED <<current, last_key, display_mode, at, event, cur, action>>

LCD_RefreshDisplay == DrawMode \/ DrawAuto

Next ==
    \/ Key_Task
    \/ my_key_press_handler
    \/ my_set_display_mode_handler
    \/ \E t \in Tasks : Works(t)
    \/ LcdWakes
    \/ LCD_RefreshDisplay

(* LCD_Task wakes again and again and draws at once; in each of its sleeps *)
(* a task that is ready gets on, so that it cannot be held up for ever.    *)
Spec ==
    /\ Init
    /\ [][Next]_hmiVars
    /\ WF_hmiVars(LcdWakes)
    /\ WF_hmiVars(LCD_RefreshDisplay)
    /\ \A t \in Tasks : SF_hmiVars(Works(t))

-----------------------------------------------------------------------------
(***************************************************************************)
(* Properties                                                              *)
(***************************************************************************)

Places == {"init", "idle", "note", "load", "navigate", "call", "index"}

(* The type invariant.  The cursor is an item from menu_init() on, and the *)
(* index of the AUTO loop names a picture.                                 *)
TypeOK ==
    /\ current \in Items \cup {NULL} /\ (at["Key"] # "init" => current # NULL)
    /\ last_key \in KeyEvents \cup {"NONE"}
    /\ display_mode \in Modes
    /\ auto_index \in 0 .. Len(Screens) - 1
    /\ lcd \in {"ready", "delayed"}
    /\ at \in [Tasks -> Places]
    /\ event \in [Tasks -> KeyEvents \cup {"NONE"}]
    /\ cur \in [Tasks -> Items \cup {NULL}]
    /\ screen \in Modes
    /\ shown \in 0 .. Len(Screens) - 1

(* The AUTO loop never skips a picture: it goes on with the next one or    *)
(* starts again with the first, however LCD_Task falls between the two     *)
(* stores of LCD_SetDisplayMode() in either task.                          *)
AutoInOrder ==
    [][shown' # shown => shown' \in {0, shown + 1}]_hmiVars

(* A mode that was selected, by key or by command, is drawn, unless        *)
(* another one is selected first.                                          *)
ModeIsShown ==
    \A m \in Modes \ {"AUTO"} : display_mode = m ~> screen = m \/ display_mode # m

(* Every key event and every mode is dealt with in the end: neither the    *)
(* display nor the other task holds a task up for ever.                    *)
TasksReturn == \A t \in Tasks : at[t] # "idle" ~> at[t] = "idle"

(* On the last item of a list, DOWN goes to the first one.                 *)
DownWraps ==
    [][\A t \in Tasks :
         at[t] = "navigate" /\ at'[t] = "idle" /\ event[t] \in Downs /\ sibling[cur[t]] = NULL
         => current' = FirstOf(cur[t])]_hmiVars

=============================================================================
