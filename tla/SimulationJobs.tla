--------------------------- MODULE SimulationJobs ---------------------------
(***************************************************************************)
(* The local simulation jobs of the FMU runner (fmu-runner/main.py): the   *)
(* run and stream endpoints, which take a concurrency slot of their lab,   *)
(* observe the session, hand the work to a private one-process pool and    *)
(* finalize in a finally block, and the cancel endpoint, which finalizes   *)
(* the same job from another request.  The event loop interleaves the      *)
(* requests at their awaits and yields; workers and clients act at any     *)
(* time.  The realtime sessions of RealtimeSessions, off by default, use   *)
(* the counter too: here no one but requests moves it.                     *)
(***************************************************************************)
EXTENDS Naturals, FiniteSets

CONSTANTS Jobs,             \* simulation requests, named by their sim_id
          Labs, LabOf,      \* the lab of each request
          Creds, CredOf,    \* the credential (reservationKey:pucHash) of each request
          Streams,          \* the requests to the stream endpoint
          Limit,            \* MAX_CONCURRENT_PER_MODEL
          MayCancel,        \* owners may call the cancel endpoint
          MayDisconnect     \* clients may leave a stream

ASSUME JobAssumption == /\ IsFiniteSet(Jobs) /\ Streams \subseteq Jobs
                        /\ LabOf \in [Jobs -> Labs] /\ CredOf \in [Jobs -> Creds]
ASSUME LimitAssumption == Limit \in Nat
ASSUME ClientAssumption == MayCancel \in BOOLEAN /\ MayDisconnect \in BOOLEAN

VARIABLES active,           \* _active_counts
          tracked,          \* the keys of _running_futures
          observed,         \* _browser_observed_credentials
          recorded,         \* external: the credentials the backend has recorded
          pc,               \* where each request is
          future,           \* the future of each job
          worker,           \* the process that runs each job
          cancelled,        \* jobs the cancel endpoint finalized (history)
          saved             \* simulation_history

vars == <<active, tracked, observed, recorded, pc, future, worker, cancelled, saved>>

InFlight == {"confirming", "accepted", "waiting", "sending", "ending"}

Holding(l) == {j \in Jobs : LabOf[j] = l /\ pc[j] \in InFlight}

TypeOK ==
  /\ active \in [Labs -> Nat] /\ \A l \in Labs : active[l] <= Limit
  /\ tracked \subseteq {j \in Jobs : pc[j] \in InFlight}
  /\ observed \subseteq Creds /\ recorded \subseteq Creds
  /\ pc \in [Jobs -> InFlight \cup {"new", "refused", "saving", "done", "left"}]
  /\ future \in [Jobs -> {"none", "running", "result", "exception"}]
  /\ worker \in [Jobs -> {"none", "running", "stopped"}]
  /\ cancelled \subseteq Jobs
  /\ saved \subseteq Jobs

Init ==
  /\ active = [l \in Labs |-> 0]
  /\ tracked = {} /\ observed = {} /\ recorded = {}
  /\ pc = [j \in Jobs |-> "new"]
  /\ future = [j \in Jobs |-> "none"]
  /\ worker = [j \in Jobs |-> "none"]
  /\ cancelled = {} /\ saved = {}

Goto(j, l) == pc' = [pc EXCEPT ![j] = l]

-----------------------------------------------------------------------------
(* Slots and the registry.                                                 *)

ReleaseSlot(l) == active' = [active EXCEPT ![l] = IF @ > 0 THEN @ - 1 ELSE 0]

\* Mutated form: only a tracked job gives its slot back.
FinalizeTracked(j) ==
  /\ tracked' = tracked \ {j}
  /\ IF j \in tracked THEN ReleaseSlot(LabOf[j]) ELSE UNCHANGED active

\* _finalize_simulation_tracking with the fallback of run and stream: the
\* slot is released whether or not the job is still tracked.
Finalize(j) ==
  /\ tracked' = tracked \ {j}
  /\ ReleaseSlot(LabOf[j])

\* Mutated form: the pool of a timed-out job is shut down without force.
StopGently(j) == UNCHANGED worker

\* _shutdown_simulation_executor with force.
Stop(j) == worker' = [worker EXCEPT ![j] = IF @ = "running" THEN "stopped" ELSE @]

-----------------------------------------------------------------------------
(* run_simulation and stream_simulation up to the submission.              *)

\* An exception before the worker runs: run answers at once, stream first
\* yields an error line.
Fail(j) == IF j \in Streams THEN Goto(j, "ending") /\ UNCHANGED <<active, tracked>>
                            ELSE Goto(j, "done") /\ Finalize(j)

\* Mutated form: the credential counts as observed before it is confirmed.
AdmitObserved(j) ==
  /\ pc[j] = "new"
  /\ IF active[LabOf[j]] >= Limit
       THEN Goto(j, "refused") /\ UNCHANGED <<active, observed>>
       ELSE /\ Goto(j, IF CredOf[j] \in observed THEN "accepted" ELSE "confirming")
            /\ observed' = observed \cup {CredOf[j]}
            /\ active' = [active EXCEPT ![LabOf[j]] = @ + 1]
  /\ UNCHANGED <<tracked, recorded, future, worker, cancelled, saved>>

\* The slot, then the cache of _record_browser_session_started: a known
\* credential needs no call.
Admit(j) ==
  /\ pc[j] = "new"
  /\ IF active[LabOf[j]] >= Limit
       THEN Goto(j, "refused") /\ UNCHANGED active
       ELSE /\ Goto(j, IF CredOf[j] \in observed THEN "accepted" ELSE "confirming")
            /\ active' = [active EXCEPT ![LabOf[j]] = @ + 1]
  /\ UNCHANGED <<tracked, observed, recorded, future, worker, cancelled, saved>>

\* The backend records the session, its answer does not arrive and the runner
\* asks again (at most FMU_SESSION_OBSERVATION_MAX_ATTEMPTS times).
AnswerLost(j) ==
  /\ pc[j] = "confirming"
  /\ recorded' = recorded \cup {CredOf[j]}
  /\ UNCHANGED <<active, tracked, observed, pc, future, worker, cancelled, saved>>

Confirmed(j) ==
  /\ pc[j] = "confirming"
  /\ recorded' = recorded \cup {CredOf[j]}
  /\ observed' = observed \cup {CredOf[j]}
  /\ Goto(j, "accepted")
  /\ UNCHANGED <<active, tracked, future, worker, cancelled, saved>>

\* A ticket call or the last attempt raises.
ObservationFails(j) ==
  /\ pc[j] = "confirming"
  /\ recorded' \in {recorded, recorded \cup {CredOf[j]}}
  /\ Fail(j)
  /\ UNCHANGED <<observed, future, worker, cancelled, saved>>

Submitted(j) == /\ future' = [future EXCEPT ![j] = "running"]
                /\ worker' = [worker EXCEPT ![j] = "running"]
                /\ tracked' = tracked \cup {j}
                /\ Goto(j, "waiting")

\* No await separates this from the acceptance; it fails when no process can
\* be made.
Submit(j) ==
  /\ pc[j] = "accepted"
  /\ \/ Submitted(j) /\ UNCHANGED active
     \/ Fail(j) /\ UNCHANGED <<future, worker>>
  /\ UNCHANGED <<observed, recorded, cancelled, saved>>

-----------------------------------------------------------------------------
(* The worker process.                                                     *)

WorkerEnds(j, outcome) ==
  /\ worker[j] = "running"
  /\ worker' = [worker EXCEPT ![j] = "stopped"]
  /\ future' = [future EXCEPT ![j] = outcome]
  /\ UNCHANGED <<active, tracked, observed, recorded, pc, cancelled, saved>>

\* The pool finds its process dead.
FutureBreaks(j) ==
  /\ worker[j] = "stopped" /\ future[j] = "running"
  /\ future' = [future EXCEPT ![j] = "exception"]
  /\ UNCHANGED <<active, tracked, observed, recorded, pc, worker, cancelled, saved>>

-----------------------------------------------------------------------------
(* The end of a request.                                                   *)

\* The awaited future is done.
Resume(j) ==
  /\ pc[j] = "waiting" /\ future[j] \in {"result", "exception"}
  /\ IF j \in Streams
       THEN /\ Goto(j, IF future[j] = "result" THEN "sending" ELSE "ending")
            /\ UNCHANGED <<active, tracked>>
       ELSE /\ Goto(j, IF future[j] = "result" THEN "saving" ELSE "done")
            /\ Finalize(j)
  /\ UNCHANGED <<observed, recorded, future, worker, cancelled, saved>>

\* Mutated form: a stream that times out gives its slot back at once, and
\* again in the finally block.
TimesOutReleasing(j) ==
  /\ pc[j] = "waiting"
  /\ j \in Streams => future[j] = "running"
  /\ Stop(j)
  /\ Goto(j, IF j \in Streams THEN "ending" ELSE "done")
  /\ Finalize(j)
  /\ UNCHANGED <<observed, recorded, future, cancelled, saved>>

\* run may time out while the future is just being set; stream tests it.
TimesOut(j) ==
  /\ pc[j] = "waiting"
  /\ j \in Streams => future[j] = "running"
  /\ Stop(j)
  /\ Fail(j)
  /\ UNCHANGED <<observed, recorded, future, cancelled, saved>>

\* _save_history; a database error is only logged.
Save(j) == saved' \in {saved, saved \cup {j}}

SaveHistory(j) ==
  /\ pc[j] = "saving"
  /\ Save(j) /\ Goto(j, "done")
  /\ UNCHANGED <<active, tracked, observed, recorded, future, worker, cancelled>>

\* The last chunk of a stream, its history record and the finally block.
SendResult(j) ==
  /\ pc[j] = "sending"
  /\ Save(j) /\ Goto(j, "done") /\ Finalize(j)
  /\ UNCHANGED <<observed, recorded, future, worker, cancelled>>

\* The error line of a stream is sent.
EndStream(j) ==
  /\ pc[j] = "ending"
  /\ Goto(j, "done") /\ Finalize(j)
  /\ UNCHANGED <<observed, recorded, future, worker, cancelled, saved>>

\* Mutated form: the finally block of a left stream forgets the job.
DisconnectUntracked(j) ==
  /\ MayDisconnect /\ j \in Streams
  /\ pc[j] \in {"confirming", "waiting", "sending", "ending"}
  /\ Goto(j, "left")
  /\ tracked' = tracked \ {j}
  /\ UNCHANGED <<active, observed, recorded, future, worker, cancelled, saved>>

\* The client leaves a stream: its generator is cancelled at an await or
\* closed at a yield, and the finally block shuts the pool down without force.
Disconnect(j) ==
  /\ MayDisconnect /\ j \in Streams
  /\ pc[j] \in {"confirming", "waiting", "sending", "ending"}
  /\ Goto(j, "left") /\ Finalize(j)
  /\ UNCHANGED <<observed, recorded, future, worker, cancelled, saved>>

\* cancel_simulation, by a caller with the claims of the job.
Cancel(j) ==
  /\ MayCancel /\ j \in tracked
  /\ Stop(j)
  /\ Finalize(j)
  /\ cancelled' = cancelled \cup {j}
  /\ UNCHANGED <<observed, recorded, pc, future, saved>>

-----------------------------------------------------------------------------
Runner(j) == \/ Admit(j) \/ AnswerLost(j) \/ Confirmed(j) \/ ObservationFails(j)
             \/ Submit(j) \/ Resume(j) \/ TimesOut(j)
             \/ SaveHistory(j) \/ SendResult(j) \/ EndStream(j)

Pool(j) == FutureBreaks(j) \/ \E outcome \in {"result", "exception"} : WorkerEnds(j, outcome)

Next == \E j \in Jobs : Runner(j) \/ Pool(j) \/ Disconnect(j) \/ Cancel(j)

Spec == Init /\ [][Next]_vars

\* The event loop serves every request, whose calls and timers all end; a
\* worker may compute for ever.
FairSpec == Spec /\ \A j \in Jobs : WF_vars(Runner(j))

-----------------------------------------------------------------------------
(* Properties.                                                             *)

CancelledOf(l) == {j \in cancelled : LabOf[j] = l}
Running(l)     == {j \in Jobs : LabOf[j] = l /\ worker[j] = "running"}
LeftRunning(l) == {j \in Running(l) : pc[j] = "left"}

\* No slot is lost: a lab never counts more slots than requests that hold
\* one, whatever raised, timed out or was cancelled on the way, so a 429 means
\* that the limit really is in use (_acquire_slot and the finally blocks).
SlotsNotLeaked == \A l \in Labs : active[l] <= Cardinality(Holding(l))

\* The requests of a lab exceed its count by at most one for each job that
\* the cancel endpoint finalized as well: nothing but cancel_simulation
\* releases a slot twice.
OvershootIsBounded ==
  \A l \in Labs : Cardinality(Holding(l)) <= active[l] + Cardinality(CancelledOf(l))

\* Each simulation of a lab beyond the limit (_acquire_slot) is one whose stream
\* was left by its client (the finally block of stream_simulation gives the slot
\* back and lets the process compute on), or is paid by a job that
\* cancel_simulation finalized: a request that timed out, failed or was answered
\* leaves no process behind.
LimitButFor ==
  \A l \in Labs :
    Cardinality(Running(l)) <=
      Limit + Cardinality(CancelledOf(l)) + Cardinality(LeftRunning(l))

\* "Durable observation is the acceptance gate" (run_simulation): no work starts
\* for a credential whose session the backend has not recorded, also when the
\* cache of another request of the credential stands in for the confirmation.
ObservedBeforeWork == \A j \in Jobs : future[j] # "none" => CredOf[j] \in recorded

\* What a request is to the slots of its lab.
SlotState(j) ==
  CASE pc[j] \in {"new", "refused"} -> "new"
    [] pc[j] \in InFlight -> IF j \in cancelled THEN "cancelled" ELSE "holding"
    [] OTHER -> IF j \in cancelled THEN "twice" ELSE "done"

JobsOf(l) == {j \in Jobs : LabOf[j] = l}

Slots(l) == INSTANCE LabSlots WITH Jobs <- JobsOf(l), active <- active[l],
                                   job <- [j \in JobsOf(l) |-> SlotState(j)]

\* Every path of a request through run_simulation, stream_simulation and
\* cancel_simulation takes at most one slot of its own lab and gives one back,
\* or two when it was cancelled, which is all that the other users of the
\* counter see of it (\A l \in Labs : Slots(l)!Spec, under one box).
ImplementsSlots ==
  /\ \A l \in Labs : Slots(l)!Init
  /\ [][\A l \in Labs : [Slots(l)!Next]_(Slots(l)!vars)]_vars

\* Every slot comes back in the end.
SlotsReturn == <>[](\A l \in Labs : active[l] = 0)

\* "Concurrency limit (MAX_CONCURRENT_PER_MODEL) reached for this FMU"
\* (_acquire_slot): no more simulations of a lab run than the limit.
LimitHolds == \A l \in Labs : Cardinality(Running(l)) <= Limit
=============================================================================
