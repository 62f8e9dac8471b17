---------------------------- MODULE MCSupervisor ----------------------------
(* Instances of Supervisor for TLC. *)
EXTENDS Supervisor

CONSTANTS quick, slow, rare

\* One job is due at every tick and keeps the loop busy; two are rarer.
ThreeJobs == <<quick, slow, rare>>
ThreeIntervals ==
    [j \in {quick, slow, rare} |-> CASE j = quick -> 1 [] j = slow -> 2 [] j = rare -> 3]
ThreeRotations ==
    [j \in {quick, slow, rare} |-> CASE j = quick -> 1 [] j = slow -> 3 [] j = rare -> 2]
=============================================================================
