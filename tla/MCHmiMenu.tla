----------------------------- MODULE MCHmiMenu -----------------------------
(***************************************************************************)
(* The tasks on the menu of main.c.                                        *)
(***************************************************************************)
EXTENDS HmiTasks

Tree == INSTANCE HmiTree

MCItems == Tree!MenuItems
MCsibling == Tree!siblings
MCparent == Tree!parents
MCchild == Tree!children
MCcallback == Tree!callbacks
MCScreens == <<"DOTS", "LINES", "TEXT", "UI", "NUMERIC", "COLORFILL">>
=============================================================================
