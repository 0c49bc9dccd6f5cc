-------------------------- MODULE HmiTasks_proofs --------------------------
(***************************************************************************)
(* Theorems about the tasks of the application, for every menu, list of    *)
(* pictures and set of inputs.                                             *)
(***************************************************************************)
EXTENDS HmiTasks, TLAPS

(* The index of the next picture: the first one or the one after the last  *)
(* that the loop has drawn.  The index alone does not say which was drawn. *)
LoopInv ==
    /\ shown \in 0 .. Len(Screens) - 1
    /\ auto_index \in 0 .. Len(Screens) - 1
    /\ auto_index \in {0, shown + 1}

LEMMA PicturesAreCounted ==
    /\ Len(Screens) \in Nat \ {0}
    /\ \A n \in 0 .. Len(Screens) - 1 :
         (n + 1) % Len(Screens) = IF n + 1 = Len(Screens) THEN 0 ELSE n + 1
<1>1. Len(Screens) \in Nat \ {0}
  BY HmiAssumption
<1>2. ASSUME NEW n \in Nat, NEW m \in Nat, n + 1 < m PROVE (n + 1) % m = n + 1
  BY <1>2
<1>3. ASSUME NEW m \in Nat \ {0} PROVE m % m = 0
  BY <1>3
<1>4. QED
  BY <1>1, <1>2, <1>3

(* Only LCD_RefreshDisplay() moves the loop; LCD_SetDisplayMode() restarts *)
(* it, in whichever task.                                                  *)
LEMMA LoopMoves ==
    ASSUME [Next]_hmiVars
    PROVE  \/ DrawAuto
           \/ UNCHANGED <<shown, auto_index>>
           \/ UNCHANGED shown /\ auto_index' = 0
<1>. USE DEF Runs, lcdVars, sharedVars
<1>1. ASSUME NEW t \in Tasks, Works(t)
      PROVE  UNCHANGED <<shown, auto_index>> \/ (UNCHANGED shown /\ auto_index' = 0)
  BY <1>1 DEF Works, menu_init, menu_set_last_key, LoadCursor, NoMenuYet, StoreCursor,
     CallsBack, NothingToDo, OtherCallback, StoreMode, StoreIndex
<1>2. Key_Task \/ my_key_press_handler \/ my_set_display_mode_handler
        => UNCHANGED <<shown, auto_index>>
  BY DEF Key_Task, my_key_press_handler, my_set_display_mode_handler, Navigates
<1>3. LcdWakes \/ DrawMode \/ UNCHANGED hmiVars => UNCHANGED <<shown, auto_index>>
  BY DEF LcdWakes, DrawMode, hmiVars
<1>4. QED
  BY <1>1, <1>2, <1>3 DEF Next, LCD_RefreshDisplay

(* The AUTO loop never skips a picture.                                    *)
THEOREM LoopIsInOrder == Spec => AutoInOrder
<1>1. Init => LoopInv
  BY PicturesAreCounted DEF Init, LoopInv
<1>2. LoopInv /\ [Next]_hmiVars => LoopInv'
  <2>1. ASSUME LoopInv, DrawAuto PROVE LoopInv'
    <3>1. /\ shown' = auto_index
          /\ auto_index' = IF auto_index + 1 = Len(Screens) THEN 0 ELSE auto_index + 1
      BY <2>1, PicturesAreCounted DEF LoopInv, DrawAuto
    <3>2. QED
      BY <2>1, <3>1, PicturesAreCounted DEF LoopInv
  <2>2. ASSUME LoopInv, UNCHANGED <<shown, auto_index>> PROVE LoopInv'
    BY <2>2 DEF LoopInv
  <2>3. ASSUME LoopInv, UNCHANGED shown, auto_index' = 0 PROVE LoopInv'
    BY <2>3, PicturesAreCounted DEF LoopInv
  <2>4. QED
    BY <2>1, <2>2, <2>3, LoopMoves
<1>3. LoopInv /\ [Next]_hmiVars => [shown' # shown => shown' \in {0, shown + 1}]_hmiVars
  <2>1. ASSUME LoopInv, DrawAuto PROVE shown' \in {0, shown + 1}
    BY <2>1 DEF LoopInv, DrawAuto
  <2>2. QED
    BY <2>1, LoopMoves
<1>4. QED
  BY <1>1, <1>2, <1>3, PTL DEF Spec, AutoInOrder

-----------------------------------------------------------------------------
(***************************************************************************)
(* The cursor is always an item.                                           *)
(***************************************************************************)

(* Where menu_navigate() leads from an item.                               *)
LEMMA NavigatesToItems ==
    ASSUME NEW i \in Items, NEW e \in KeyEvents
    PROVE  menu_navigate(i, e) \in Items \cup {NULL}
<1>1. get_prev_sibling(i) \in Items \cup {NULL}
  BY DEF get_prev_sibling
<1>2. menu_get_sibling_head(i) \in Items
  BY DEF menu_get_sibling_head
<1>3. {parent[i], child[i], sibling[i]} \subseteq Items \cup {NULL}
  BY MenuAssumption
<1>4. ListEnd[menu_get_sibling_head(i)] \in Items
  BY <1>2, ListsEnd
<1>. DEFINE up == IF get_prev_sibling(i) # NULL THEN get_prev_sibling(i)
                  ELSE ListEnd[menu_get_sibling_head(i)]
            down == IF sibling[i] # NULL THEN sibling[i] ELSE menu_get_sibling_head(i)
<1>5. up \in Items \cup {NULL} /\ down \in Items \cup {NULL}
  BY <1>1, <1>2, <1>3, <1>4
<1>6. menu_navigate(i, e) = CASE e \in Ups -> up [] e \in Downs -> down
                              [] e \in Enters -> child[i] [] e \in Escs -> parent[i]
  BY DEF menu_navigate
<1>. HIDE DEF up, down
<1>7. QED
  BY <1>3, <1>5, <1>6 DEF KeyEvents

(* What a task carries with it from one of its steps to the next.          *)
LocalsInv ==
    \A t \in Tasks :
        /\ at[t] \in {"note", "load", "navigate"} => event[t] \in KeyEvents
        /\ at[t] = "navigate" => cur[t] \in Items

LEMMA ScreensAreModes ==
    /\ \A n \in 0 .. Len(Screens) : ModeOf(n) \in Modes
    /\ \A n \in 0 .. Len(Screens) - 1 : Screens[n + 1] \in Modes
    /\ "AUTO" \in Modes
<1>1. DOMAIN Screens = 1 .. Len(Screens) /\ Len(Screens) \in Nat
  BY HmiAssumption
<1>2. \A n \in 1 .. Len(Screens) : Screens[n] \in Modes
  BY <1>1 DEF Modes
<1>3. \A n \in 0 .. Len(Screens) - 1 : n + 1 \in 1 .. Len(Screens)
  BY <1>1
<1>4. "AUTO" \in Modes
  BY DEF Modes
<1>5. \A n \in 0 .. Len(Screens) : n = 0 \/ n \in 1 .. Len(Screens)
  BY <1>1
<1>6. QED
  BY <1>2, <1>3, <1>4, <1>5 DEF ModeOf

(* A step of one of the two lower tasks.                                   *)
LEMMA TaskStep ==
    ASSUME TypeOK, LocalsInv, NEW t \in Tasks, Works(t)
    PROVE  TypeOK' /\ LocalsInv'
<1>. USE DEF TypeOK, LocalsInv, Runs, lcdVars, sharedVars, Places
<1>0. "Key" \in Tasks /\ NULL \notin Items /\ menu_root \in Items
  BY MenuAssumption DEF Tasks
<1>1. CASE t = "Key" /\ menu_init
  BY <1>0, <1>1 DEF menu_init
<1>2. CASE menu_set_last_key(t)
  BY <1>0, <1>2 DEF menu_set_last_key
<1>3. CASE LoadCursor(t)
  <2>1. current \in Items /\ cur' = [cur EXCEPT ![t] = current] /\ at' = [at EXCEPT ![t] = "navigate"]
        /\ at[t] = "load" /\ UNCHANGED <<current, last_key, display_mode, auto_index, lcd, screen, shown, event>>
    BY <1>3 DEF LoadCursor
  <2>2. TypeOK'
    BY <1>0, <2>1
  <2>3. LocalsInv'
    BY <1>0, <2>1
  <2>4. QED
    BY <2>2, <2>3
<1>4. CASE NoMenuYet(t) \/ NothingToDo(t) \/ OtherCallback(t) \/ StoreIndex(t)
  <2>1. /\ at[t] # "init" /\ at' = [at EXCEPT ![t] = "idle"]
        /\ event' = [event EXCEPT ![t] = "NONE"] /\ cur' = [cur EXCEPT ![t] = NULL]
        /\ auto_index' \in {auto_index, 0}
        /\ UNCHANGED <<current, last_key, display_mode, lcd, screen, shown>>
    BY <1>4 DEF NoMenuYet, NothingToDo, OtherCallback, StoreIndex, Done
  <2>2. 0 \in 0 .. Len(Screens) - 1
    BY PicturesAreCounted
  <2>3. QED
    BY <1>0, <2>1, <2>2
<1>5. CASE StoreCursor(t)
  <2>1. /\ at[t] = "navigate" /\ at' = [at EXCEPT ![t] = "idle"]
        /\ event' = [event EXCEPT ![t] = "NONE"] /\ cur' = [cur EXCEPT ![t] = NULL]
        /\ current' = Target(t) /\ Target(t) # NULL
        /\ UNCHANGED <<last_key, display_mode, auto_index, lcd, screen, shown>>
    BY <1>5 DEF StoreCursor, Done
  <2>2. current' \in Items
    BY <2>1, NavigatesToItems DEF Target
  <2>3. QED
    BY <1>0, <2>1, <2>2
<1>6. CASE CallsBack(t)
  BY <1>0, <1>6 DEF CallsBack
<1>7. CASE StoreMode(t)
  BY <1>0, <1>7 DEF StoreMode
<1>8. QED
  BY <1>1, <1>2, <1>3, <1>4, <1>5, <1>6, <1>7 DEF Works

(* The events and the modes that start an activation, and LCD_Task.        *)
LEMMA OtherStep ==
    ASSUME TypeOK, LocalsInv,
           \/ Key_Task \/ my_key_press_handler \/ my_set_display_mode_handler
           \/ LcdWakes \/ LCD_RefreshDisplay \/ UNCHANGED hmiVars
    PROVE  TypeOK' /\ LocalsInv'
<1>. USE DEF TypeOK, LocalsInv, Places
<1>1. ASSUME NEW t \in Tasks, NEW e \in KeyEvents, Navigates(t, e) PROVE TypeOK' /\ LocalsInv'
  BY <1>1 DEF Navigates, Runs, lcdVars, sharedVars, Tasks
<1>2. CASE Key_Task
  BY <1>1, <1>2, HmiAssumption DEF Key_Task, Tasks
<1>3. CASE my_key_press_handler
  <2>1. \A n \in DOMAIN ShortKey : ShortKey[n] \in KeyEvents
    BY DEF ShortKey, KeyEvents, Ups, Downs, Enters, Escs
  <2>2. QED
    BY <1>1, <1>3, <2>1 DEF my_key_press_handler, Tasks
<1>4. CASE my_set_display_mode_handler
  BY <1>4 DEF my_set_display_mode_handler, Runs, lcdVars, sharedVars, Tasks
<1>5. CASE LcdWakes
  BY <1>5 DEF LcdWakes, sharedVars
<1>6. CASE DrawMode
  BY <1>6 DEF DrawMode, Sleeps, sharedVars
<1>7. CASE DrawAuto
  <2>1. auto_index' \in 0 .. Len(Screens) - 1 /\ shown' = auto_index /\ screen' \in Modes
    BY <1>7, ScreensAreModes, PicturesAreCounted DEF DrawAuto
  <2>2. QED
    BY <1>7, <2>1 DEF DrawAuto, Sleeps
<1>8. CASE UNCHANGED hmiVars
  BY <1>8 DEF hmiVars, sharedVars, lcdVars
<1>9. QED
  BY <1>2, <1>3, <1>4, <1>5, <1>6, <1>7, <1>8 DEF LCD_RefreshDisplay

(* From menu_init() on the cursor is an item, whichever of the two tasks   *)
(* stores it and with whichever of their steps in between; and the index   *)
(* of the AUTO loop names a picture.                                       *)
THEOREM HmiTypes == Spec => []TypeOK
<1>1. Init => TypeOK /\ LocalsInv
  BY PicturesAreCounted, ScreensAreModes DEF Init, TypeOK, LocalsInv, Places, Tasks
<1>2. TypeOK /\ LocalsInv /\ [Next]_hmiVars => (TypeOK /\ LocalsInv)'
  BY TaskStep, OtherStep DEF Next
<1>3. QED
  BY <1>1, <1>2, PTL DEF Spec

=============================================================================
