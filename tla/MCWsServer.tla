----------------------------- MODULE MCWsServer -----------------------------
(***************************************************************************)
(* Two clients that come and go, and two frames.                           *)
(***************************************************************************)
EXTENDS WsServer

CONSTANTS c1, c2
MCClients == {c1, c2}
MCCallers == {c1, c2, Main}
=============================================================================
