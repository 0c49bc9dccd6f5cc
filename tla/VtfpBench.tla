----------------------------- MODULE VtfpBench -----------------------------
(***************************************************************************)
(* The controller with the PC of test_vtfp_core.c: mock_write_command()    *)
(* writes a whole header, the checksum included, while the poll loop is    *)
(* not running; the test then polls, and reads the result when vtfp_poll() *)
(* has returned.                                                           *)
(***************************************************************************)
EXTENDS VtfpCore

CONSTANTS Calls    \* the <<command, param>> pairs the bench sends

ASSUME BenchAssumption == Calls \subseteq (1 .. 255) \X Nat

VARIABLES
    waiting,    \* the bench has written a command and not read its result
    request     \* the last command that it wrote

benchVars == <<vars, waiting, request>>

BenchInit ==
    /\ Init
    /\ waiting = FALSE
    /\ request = [command |-> 0, param |-> 0]

(* All stores of mock_write_command() happen between two polls.            *)
mock_write_command(cmd, param) ==
    /\ pc = "sleep" /\ ~waiting
    /\ waiting' = TRUE
    /\ request' = [command |-> cmd, param |-> param]
    /\ hdr' = [hdr EXCEPT !["command"] = cmd, !["param"] = param, !["seq"] = 1,
                          !["result"] = VTFP_R_OK, !["data_len"] = 0]
    /\ checksum' = hdr'
    /\ UNCHANGED <<armVars, pc, copied, snap, snapsum, todo>>

(* The test looks at g_header->result when vtfp_poll() has returned.       *)
ReadResult ==
    /\ waiting /\ pc = "sleep" /\ hdr["command"] = 0
    /\ waiting' = FALSE
    /\ UNCHANGED <<vars, request>>

(* The test calls vtfp_poll() itself, from the thread that writes commands *)
(* and reads results: never while an answer waits to be read.              *)
Poll ==
    /\ ~(waiting /\ pc = "sleep" /\ hdr["command"] = 0)
    /\ vTaskVTFP
    /\ UNCHANGED <<waiting, request>>

(* Time passes between the calls, but a program that makes one call after  *)
(* the other leaves no grant alone for a full turn of the counter (49.7    *)
(* days); what happens then is in AdmittedInWindow.                        *)
BenchTick ==
    /\ Armed => age + 1 < ClockMod
    /\ Tick
    /\ UNCHANGED <<waiting, request>>

BenchNext ==
    \/ Poll
    \/ ReadResult
    \/ \E c \in Calls : mock_write_command(c[1], c[2])
    \/ BenchTick

BenchSpec ==
    /\ BenchInit
    /\ [][BenchNext]_benchVars
    /\ WF_benchVars(Poll)
    /\ WF_benchVars(ReadResult)

-----------------------------------------------------------------------------
(***************************************************************************)
(* Properties                                                              *)
(***************************************************************************)

(* What a word of the header will be when the stores are done.             *)
Final(stores, h, w) ==
    IF \E i \in DOMAIN stores : stores[i][1] = w
    THEN stores[CHOOSE i \in DOMAIN stores : stores[i][1] = w][2]
    ELSE h[w]

Phase ==
    IF ~waiting THEN "none"
    ELSE IF pc = "run" THEN "admitted"
    ELSE IF pc \in {"store", "finish"} \/ hdr["command"] = 0 THEN "served"
    ELSE "pending"

ReplyOf(stores, h) == [result |-> Final(stores, h, "result"), len |-> Final(stores, h, "data_len")]

Rpc == INSTANCE VtfpRpc WITH phase <- Phase, reply <- ReplyOf(todo, hdr), left <- GrantLeft

(* Refinement: seen by such a PC the runtime is an atomic call server. The *)
(* answer it reads is the answer to the command it wrote, a handler runs   *)
(* once per call and only under a grant that is open in real time, and the *)
(* lazy expiry, the wrapping counter and the word-wise copying cannot be   *)
(* told from that.                                                         *)
ImplementsRpc == Rpc!Spec

(* Every call returns: no branch of vtfp_poll() forgets to clear the       *)
(* command that it took.                                                   *)
CallsReturn == waiting ~> ~waiting

=============================================================================
