---------------------------- MODULE MCHmiTasks ----------------------------
(***************************************************************************)
(* A small menu of the shape of the application's: a root list whose first *)
(* item has a menu under it, with one mode, the AUTO loop and an item that *)
(* changes no mode.                                                        *)
(***************************************************************************)
EXTENDS HmiTasks, TLC

MCItems == {"Settings", "Info", "Dots", "AutoLoop", "About"}
MCsibling == "Settings" :> "Info" @@ "Info" :> NULL
               @@ "Dots" :> "AutoLoop" @@ "AutoLoop" :> "About" @@ "About" :> NULL
MCparent == "Settings" :> NULL @@ "Info" :> NULL
               @@ "Dots" :> "Settings" @@ "AutoLoop" :> "Settings" @@ "About" :> "Settings"
MCchild == [i \in MCItems |-> IF i = "Settings" THEN "Dots" ELSE NULL]
MCcallback == "Settings" :> NULL @@ "Info" :> NULL
               @@ "Dots" :> "DOTS" @@ "AutoLoop" :> "AUTO" @@ "About" :> "ABOUT"
MCScreens == <<"DOTS", "LINES", "TEXT">>
=============================================================================
