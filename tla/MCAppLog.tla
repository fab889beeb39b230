------------------------------ MODULE MCAppLog ------------------------------
(***************************************************************************)
(* Model checking of AppLog: three calls of WriteLog over a queue of one,  *)
(* so that one entry is in hand, one queued and one caller waiting; a      *)
(* ClearLogs, a tail with room for one entry, a failed file operation and  *)
(* a restart.                                                              *)
(***************************************************************************)
EXTENDS AppLog, TLC

CONSTANTS e1, e2, e3, c1, t1

TwoWrites   == {e1, e2}
ThreeWrites == {e1, e2, e3}
OneClear    == {c1}
OneTail     == {t1}
NoTail      == {}

\* The calls of WriteLog are interchangeable.
MCSymmetry == Permutations(ThreeWrites)
=============================================================================
