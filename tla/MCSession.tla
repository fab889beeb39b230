------------------------------ MODULE MCSession ------------------------------
(***************************************************************************)
(* Model checking of Session by itself: one session after another, each a  *)
(* shell or a log.                                                         *)
(***************************************************************************)
EXTENDS Session

CONSTANT s1

OneSession == {s1}
=============================================================================
