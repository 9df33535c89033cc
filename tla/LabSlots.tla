------------------------------ MODULE LabSlots ------------------------------
(***************************************************************************)
(* The concurrency slots of one lab (_active_counts in fmu-runner/main.py) *)
(* and the run and stream requests that hold them, without observations,   *)
(* workers, timeouts or answers.  A request takes a slot below the limit   *)
(* and gives one back in its finally block; the cancel endpoint gives the  *)
(* slot of a running request back beside it, and the request all the same  *)
(* gives back another.  A counter at zero stays there.                     *)
(*                                                                         *)
(* SimulationJobs implements this module for each lab; RealtimeSessions    *)
(* uses it for the requests whose counter its sessions share.              *)
(***************************************************************************)
EXTENDS Naturals

CONSTANTS Jobs,             \* run and stream requests, named by their sim_id
          Limit             \* MAX_CONCURRENT_PER_MODEL

VARIABLES active,           \* _active_counts[lab_id]
          job               \* whether each request holds a slot

vars == <<active, job>>

Init == active = 0 /\ job = [j \in Jobs |-> "new"]

\* _acquire_slot, when it does not answer 429, and _release_slot
Acquire == active < Limit /\ active' = active + 1
Release == active' = IF active = 0 THEN 0 ELSE active - 1

Take(j) ==
  /\ job[j] = "new"
  /\ Acquire
  /\ job' = [job EXCEPT ![j] = "holding"]

\* cancel_simulation finalizes the request's job
Cancel(j) ==
  /\ job[j] = "holding"
  /\ Release
  /\ job' = [job EXCEPT ![j] = "cancelled"]

\* and so does the request, in any case
GiveBack(j) ==
  /\ job[j] \in {"holding", "cancelled"}
  /\ Release
  /\ job' = [job EXCEPT ![j] = IF @ = "holding" THEN "done" ELSE "twice"]

Next == \E j \in Jobs : Take(j) \/ Cancel(j) \/ GiveBack(j)

Spec == Init /\ [][Next]_vars

-----------------------------------------------------------------------------
Held  == {j \in Jobs : job[j] = "holding"}
Twice == {j \in Jobs : job[j] = "twice"}    \* gave back a slot too many
=============================================================================
