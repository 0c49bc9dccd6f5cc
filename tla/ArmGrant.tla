------------------------------ MODULE ArmGrant ------------------------------
(***************************************************************************)
(* What the ARM protocol promises, with no header, checksum, poll loop or  *)
(* wrapping clock: a grant lasts Timeout milliseconds, a dangerous command *)
(* starts only while a grant is open, and with AutoDisarm a grant is spent *)
(* by the first command that starts under it.                              *)
(***************************************************************************)
EXTENDS Integers

CONSTANTS Timeout, AutoDisarm

VARIABLES
    left,     \* milliseconds left of the open grant, 0 when there is none
    busy      \* a dangerous command has been admitted and is not finished

grantVars == <<left, busy>>

Init == left = 0 /\ busy = FALSE

(* A valid ARM opens a grant or prolongs the open one.                     *)
Grant == ~busy /\ left' = Timeout /\ UNCHANGED busy

(* DISARM.                                                                 *)
Revoke == ~busy /\ left' = 0 /\ UNCHANGED busy

Elapse == left > 0 /\ left' = left - 1 /\ UNCHANGED busy

(* A dangerous command is admitted, and later finishes.                    *)
Begin ==
    /\ ~busy
    /\ left > 0
    /\ busy' = TRUE
    /\ left' = IF AutoDisarm THEN 0 ELSE left

End == busy /\ busy' = FALSE /\ UNCHANGED left

(* The controller restarts: every grant is gone.                           *)
Restart == left' = 0 /\ busy' = FALSE

Next == Grant \/ Revoke \/ Elapse \/ Begin \/ End \/ Restart

Spec == Init /\ [][Next]_grantVars

=============================================================================
