------------------------------- MODULE Frame -------------------------------
(***************************************************************************)
(* The accumulator of the LCD viewer (frame.py): it joins the blocks that  *)
(* `mklink dump-memory' prints, one per line, to frames.  A block says     *)
(* which part of its sample it is and how many there are; nothing in it    *)
(* names the sample (its time stamp is its own).  The fields `sample' and  *)
(* `proc', and whether earlier blocks of the sample got through, are       *)
(* there for the properties; `feed' does not look at them.                 *)
(*                                                                         *)
(* The flag crc_ok is not modelled: the code stores it and never reads it. *)
(* Nor is the test of the length, which any complete set of blocks passes. *)
(***************************************************************************)
EXTENDS Integers

(* A FrameAccumulator without blocks: _block_count is 0 until the first    *)
(* block of a sample, and again after a frame.                             *)
FrameAccumulator == [blocks |-> <<>>, count |-> 0]

(* Deviation: a block with another time stamp does, and every block has.   *)
Starts_ByTime(acc, b) == acc.count # 0

(* Block 0, or another number of blocks, starts a new sample: what is      *)
(* there of the last one is dropped.                                       *)
Starts(acc, b) == acc.count # 0 /\ (b.index = 0 \/ b.count # acc.count)

Joined(acc, b) ==
    LET old == IF Starts(acc, b) THEN <<>> ELSE acc.blocks IN
    [i \in DOMAIN old \cup {b.index} |-> IF i = b.index THEN b ELSE old[i]]

(* The last block makes a frame when no part is missing.                   *)
Completes(acc, b) ==
    /\ b.index = b.count - 1
    /\ DOMAIN Joined(acc, b) = 0 .. b.count - 1

(* Deviation: the blocks of a frame stay.                                  *)
feed_KeepsBlocks(acc, b) ==
    [blocks |-> Joined(acc, b), count |-> IF Completes(acc, b) THEN 0 ELSE b.count]

(* The accumulator after a block, and the frame that the block completes.  *)
feed(acc, b) ==
    IF Completes(acc, b) THEN FrameAccumulator
    ELSE [blocks |-> Joined(acc, b), count |-> b.count]

FrameOf(acc, b) == Joined(acc, b)

=============================================================================
