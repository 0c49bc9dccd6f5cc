------------------------------ MODULE HmiTree ------------------------------
(***************************************************************************)
(* The menu of the application (main.c), as the link_*_menu() functions    *)
(* leave it.                                                               *)
(***************************************************************************)
EXTENDS Integers, Sequences, TLC

NoItem == "NULL"

(* The four lists, in the order their items are linked.                    *)
root_menu == <<"Settings", "Info">>
menu_settings == <<"BL_ON", "BL_OFF", "Display", "About">>
menu_display == <<"AutoLoop", "Dots", "Lines", "Text", "UI", "Numeric", "Color">>
menu_info == <<"Version">>

(* What a list contributes to the pointers of its items.                   *)
Linked(list) ==
    [i \in {list[n] : n \in DOMAIN list} |->
       LET n == CHOOSE n \in DOMAIN list : list[n] = i IN
       IF n < Len(list) THEN list[n + 1] ELSE NoItem]
Under(list, item) == [i \in {list[n] : n \in DOMAIN list} |-> item]

siblings == Linked(root_menu) @@ Linked(menu_settings) @@ Linked(menu_display) @@ Linked(menu_info)

parents ==
    Under(root_menu, NoItem) @@ Under(menu_settings, "Settings")
      @@ Under(menu_display, "Display") @@ Under(menu_info, "Info")

MenuItems == DOMAIN siblings

(* Only these items have a menu under them ...                             *)
children ==
    [i \in MenuItems |->
       CASE i = "Settings" -> Head(menu_settings)
         [] i = "Display" -> Head(menu_display)
         [] i = "Info" -> Head(menu_info)
         [] OTHER -> NoItem]

(* ... and the others a callback: a display mode, or something else.       *)
callbacks ==
    [i \in MenuItems |->
       CASE i = "AutoLoop" -> "AUTO"
         [] i = "Dots" -> "DOTS"
         [] i = "Lines" -> "LINES"
         [] i = "Text" -> "TEXT"
         [] i = "UI" -> "UI"
         [] i = "Numeric" -> "NUMERIC"
         [] i = "Color" -> "COLORFILL"
         [] i = "BL_ON" -> "BL_ON"
         [] i = "BL_OFF" -> "BL_OFF"
         [] i \in {"About", "Version"} -> "ABOUT"
         [] OTHER -> NoItem]

=============================================================================
