-------------------------------- MODULE Menu --------------------------------
(***************************************************************************)
(* The menu navigator (menu.c): a tree of items linked by `parent',        *)
(* `child' and `sibling' pointers, and what a key event makes of the       *)
(* cursor.  The tree itself is the constant; HmiTree holds the one of      *)
(* main.c.                                                                 *)
(***************************************************************************)
CONSTANTS
    Items,      \* the menu items
    NULL,       \* the null pointer
    menu_root,  \* the item that menu_init() is called with
    parent,     \* the menu an item belongs to
    child,      \* the first item of its submenu
    sibling,    \* the next item of the list it is in
    callback    \* what confirming it does

(* The lists of the tree: the items of a submenu are linked by `sibling'   *)
(* from the `child' of their parent.                                       *)
ASSUME MenuAssumption ==
    /\ NULL \notin Items
    /\ menu_root \in Items
    /\ {parent, child, sibling} \subseteq [Items -> Items \cup {NULL}]
    /\ \A i \in Items : child[i] # NULL => parent[child[i]] = i
    /\ \A i \in Items : sibling[i] # NULL => parent[sibling[i]] = parent[i]

(* The item in front of an item, found by walking the list of its parent.  *)
(* An item of the root list has no parent to walk from.                    *)
get_prev_sibling(item) ==
    LET before == {s \in Items : sibling[s] = item} IN
    IF parent[item] = NULL \/ child[parent[item]] = item \/ before = {}
    THEN NULL
    ELSE CHOOSE s \in before : TRUE

(* The loop of menu_get_sibling_head() leaves after its first turn: it     *)
(* finds the item in front, and the item itself where the list ends.       *)
menu_get_sibling_head(item) ==
    LET before == {s \in Items : sibling[s] = item /\ parent[s] = parent[item]} IN
    IF sibling[item] = NULL \/ parent[item] = NULL \/ before = {}
    THEN item
    ELSE CHOOSE s \in before : TRUE

(* The end of the list, walked from an item.                               *)
ListEnd[item \in Items] ==
    IF sibling[item] = NULL THEN item ELSE ListEnd[sibling[item]]

(* The lists end: no sibling pointer leads back.                           *)
ASSUME ListsEnd == ListEnd \in [Items -> Items]

Ups == {"UP", "UP_LONG"}
Downs == {"DOWN", "DOWN_LONG"}
Enters == {"ENTER", "ENTER_LONG"}
Escs == {"ESC", "ESC_LONG"}
KeyEvents == Ups \cup Downs \cup Enters \cup Escs

(* The item that menu_navigate() stores in g_navigator.current, NULL when  *)
(* it stores nothing.                                                      *)
menu_navigate(cur, event) ==
    CASE event \in Ups ->
           IF get_prev_sibling(cur) # NULL THEN get_prev_sibling(cur)
           ELSE ListEnd[menu_get_sibling_head(cur)]
      [] event \in Downs ->
           IF sibling[cur] # NULL THEN sibling[cur] ELSE menu_get_sibling_head(cur)
      [] event \in Enters -> child[cur]
      [] event \in Escs -> parent[cur]

(* The callback that menu_navigate() calls: only of an item with no menu   *)
(* under it.                                                               *)
Confirms(cur, event) ==
    IF event \in Enters /\ child[cur] = NULL THEN callback[cur] ELSE NULL

(* The first item of the list an item is in, as a reader of the tree sees  *)
(* it: the one that no sibling pointer leads to.                           *)
FirstOf(item) ==
    CHOOSE f \in Items : /\ parent[f] = parent[item]
                         /\ \A s \in Items : sibling[s] # f
                         /\ ListEnd[f] = ListEnd[item]

=============================================================================
