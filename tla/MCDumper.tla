------------------------------ MODULE MCDumper ------------------------------
(***************************************************************************)
(* Two coroutines, two processes, two samples of two blocks.               *)
(***************************************************************************)
EXTENDS Dumper
=============================================================================
