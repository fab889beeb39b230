---------------------------- MODULE JobContract ----------------------------
(***************************************************************************)
(* What the job service promises to a client that submits and polls: jobs  *)
(* move from pending over running to done or failed, or are rejected while *)
(* pending; no more than MaxRunning run at once; once the service is       *)
(* closing nothing new is taken on, and it is closed only when nothing is  *)
(* left to do.  Queue, lock and workers are not visible at this level.     *)
(***************************************************************************)
EXTENDS Naturals, FiniteSets

CONSTANTS Jobs,       \* the jobs that may be submitted
          MaxRunning  \* how many may run at the same time

VARIABLES phase,   \* job -> the status a poll shows, "absent" if there is none
          service  \* "open", "closing" or "closed"

cvars == <<phase, service>>

Unfinished == {j \in Jobs : phase[j] \in {"pending", "running"}}
Running    == {j \in Jobs : phase[j] = "running"}

Init == /\ phase = [j \in Jobs |-> "absent"]
        /\ service = "open"

Move(j, from, to) == /\ phase[j] = from
                     /\ phase' = [phase EXCEPT ![j] = to]
                     /\ UNCHANGED service

Accept(j) == service = "open" /\ Move(j, "absent", "pending")
Reject(j) == service = "open" /\ Move(j, "pending", "failed")
Start(j)  == Cardinality(Running) < MaxRunning /\ Move(j, "pending", "running")
Finish(j) == Move(j, "running", "done") \/ Move(j, "running", "failed")

BeginClose == service = "open" /\ service' = "closing" /\ UNCHANGED phase

EndClose == /\ service = "closing"
            /\ Unfinished = {}
            /\ service' = "closed"
            /\ UNCHANGED phase

Next == \/ \E j \in Jobs : Accept(j) \/ Reject(j) \/ Start(j) \/ Finish(j)
        \/ BeginClose \/ EndClose

\* Every job taken on is finished, and a service that is closing gets closed.
Liveness == /\ \A j \in Jobs : phase[j] = "pending" ~> phase[j] \in {"done", "failed"}
            /\ service = "closing" ~> service = "closed"

SafetySpec == Init /\ [][Next]_cvars
Spec       == SafetySpec /\ Liveness
=============================================================================
