----------------------------- MODULE MCJobQueue -----------------------------
(***************************************************************************)
(* Model checking of JobQueue: three submitters, one of them a create, so  *)
(* that with one worker busy and one task buffered a third finds the queue *)
(* full.                                                                   *)
(***************************************************************************)
EXTENDS JobQueue, TLC

CONSTANTS j1, j2, j3, w1, w2

MCJobs       == {j1, j2, j3}
MCCreateJobs == {j1}
TwoWorkers   == {w1, w2}
OneWorker    == {w1}

\* The two jobs that are not creates are interchangeable, as are the workers.
MCSymmetry == Permutations({j2, j3}) \cup Permutations({w1, w2})
=============================================================================
