----------------------------- MODULE MCKeyScan -----------------------------
(***************************************************************************)
(* Three keys, so that one key has two in front of it, and short counts.  *)
(***************************************************************************)
EXTENDS KeyScan
=============================================================================
