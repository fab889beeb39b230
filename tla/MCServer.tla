------------------------------ MODULE MCServer ------------------------------
(***************************************************************************)
(* Model checking of Server: one request with its job and one WebSocket    *)
(* session, over any number of lives of the process.                      *)
(***************************************************************************)
EXTENDS Server

CONSTANTS s1, j1

OneSession == {s1}
OneJob     == {j1}
=============================================================================
