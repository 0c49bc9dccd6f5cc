------------------------------ MODULE VtfpArm ------------------------------
(***************************************************************************)
(* The ARM safety state machine of the VTFP runtime (vtfp_arm.c): one      *)
(* global flag that authorises dangerous commands for a while.             *)
(*                                                                         *)
(* Time.  now_ms is a uint32_t, so the counter the port returns runs       *)
(* through 0 .. ClockMod-1 and wraps.  The port comes in two builds:       *)
(* "ticks" reads the FreeRTOS tick counter, "calls" is the fallback that   *)
(* is compiled when FREERTOS_CONFIG_H is not defined where the port file   *)
(* is compiled, and returns the number of earlier calls.                   *)
(*                                                                         *)
(* Expiry is lazy: the flag stays ARMED after the window until the next    *)
(* vtfp_arm_is_armed() looks at it.                                        *)
(***************************************************************************)
EXTENDS Integers

CONSTANTS
    ClockMod,     \* 2^32 in the code: the number of values of the ms counter
    Timeout,      \* timeout_ms, the length of the ARM window
    SafetyKey,    \* the parameter that a valid ARM command carries
    AutoDisarm,   \* auto_disarm: one grant admits one dangerous command
    PortClock,    \* which vtfp_port_now_ms() is compiled
    MaxAge        \* BOUND: ticks that may pass while the flag is ARMED

ASSUME ArmAssumption ==
    /\ ClockMod \in Nat
    /\ Timeout \in 1 .. ClockMod - 1
    /\ SafetyKey \in Nat
    /\ AutoDisarm \in BOOLEAN
    /\ PortClock \in {"ticks", "calls"}
    /\ MaxAge \in Nat

VARIABLES
    s_arm,    \* the static struct of vtfp_arm.c: [state, arm_tick]
    clock,    \* the counter that vtfp_port_now_ms() reads
    age       \* ghost: milliseconds of real time since the flag was ARMED

armVars == <<s_arm, clock, age>>

Disarmed == [state |-> "DISARMED", arm_tick |-> 0]

Armed == s_arm.state = "ARMED"

(* uint32_t arithmetic on the counter, and two ways to get it wrong.       *)
Succ32_Unbounded(t) == t + 1
Sub32_Saturating(a, b) == IF a >= b THEN a - b ELSE 0

Succ32(t) == IF t + 1 = ClockMod THEN 0 ELSE t + 1
Sub32(a, b) == IF a >= b THEN a - b ELSE a - b + ClockMod

ArmInit ==
    /\ s_arm = Disarmed
    /\ clock = 0
    /\ age = 0

(* A call of vtfp_port_now_ms(): the value read is `clock'; the fallback   *)
(* counts the call, the tick counter does not.                             *)
vtfp_port_now_ms ==
    clock' = IF PortClock = "calls" THEN Succ32(clock) ELSE clock

(* A millisecond passes.  Nothing in the code ends the time that an idle   *)
(* flag stays ARMED: MaxAge only keeps the model finite, and it may be     *)
(* longer than a full turn of the counter.                                 *)
TickMs ==
    /\ Armed => age < MaxAge
    /\ clock' = IF PortClock = "ticks" THEN Succ32(clock) ELSE clock
    /\ age' = IF Armed THEN age + 1 ELSE age
    /\ UNCHANGED s_arm

(* Deviation: a second ARM keeps the tick of the first.                    *)
vtfp_arm_try_arm_KeepsTick(key) ==
    /\ vtfp_port_now_ms
    /\ IF key = SafetyKey
       THEN /\ s_arm' = IF Armed THEN s_arm ELSE [state |-> "ARMED", arm_tick |-> clock]
            /\ age' = 0
       ELSE UNCHANGED <<s_arm, age>>

(* vtfp_arm_try_arm(key, vtfp_port_now_ms()): a wrong key changes nothing, *)
(* not even a grant that is already open.                                  *)
vtfp_arm_try_arm(key) ==
    /\ vtfp_port_now_ms
    /\ IF key = SafetyKey
       THEN /\ s_arm' = [state |-> "ARMED", arm_tick |-> clock]
            /\ age' = 0
       ELSE UNCHANGED <<s_arm, age>>

vtfp_arm_disarm ==
    /\ s_arm' = Disarmed
    /\ age' = 0

(* Deviation: the window is closed one millisecond late.                   *)
WindowOpen_Late == Armed /\ Sub32(clock, s_arm.arm_tick) <= Timeout

(* What vtfp_arm_is_armed() returns, and what it does to the flag.         *)
WindowOpen == Armed /\ Sub32(clock, s_arm.arm_tick) < Timeout

vtfp_arm_is_armed ==
    /\ vtfp_port_now_ms
    /\ IF Armed /\ ~WindowOpen
       THEN s_arm' = Disarmed /\ age' = 0
       ELSE UNCHANGED <<s_arm, age>>

ArmTypeOK ==
    /\ s_arm \in [state : {"ARMED", "DISARMED"}, arm_tick : 0 .. ClockMod - 1]
    /\ clock \in 0 .. ClockMod - 1
    /\ age \in Nat

=============================================================================
