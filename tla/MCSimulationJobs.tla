-------------------------- MODULE MCSimulationJobs --------------------------
(* Instances of SimulationJobs for TLC. *)
EXTENDS SimulationJobs
CONSTANTS j1, j2, j3, j4, l1, l2, c1, c2

\* Two runs and a stream of one lab, and a request to another lab that
\* shares the credential of the first.
MCLabOf  == [j \in Jobs |-> IF j = j4 THEN l2 ELSE l1]
MCCredOf == [j \in Jobs |-> IF j \in {j1, j4} THEN c1 ELSE c2]
=============================================================================
